------------------------------ MODULE IpUpdater ------------------------------
(***************************************************************************)
(* The function that writes the address of the running FPolicy task into   *)
(* ONTAP's external engine (shared/cloudformation/fpolicy-ip-updater.yaml) *)
(* and the ECS service whose tasks come and go                             *)
(* (fpolicy-server-fargate.yaml).  Every change of a task whose last       *)
(* status is RUNNING invokes the function, also the one that marks a task  *)
(* to be stopped; invocations are asynchronous, overlap, and are repeated  *)
(* up to two times when they raise.                                        *)
(***************************************************************************)
EXTENDS OntapFPolicy

CONSTANTS
  Invocations,
  MaxAttempts, \* of an asynchronous invocation: Lambda makes three
  MaxFaults    \* bound on calls that fail

ASSUME UpdaterAssumption ==
  /\ MaxAttempts \in Nat \ {0}
  /\ MaxFaults \in Nat

VARIABLES
  task,        \* the life of each task
  waiting,     \* events by the number of their failed attempts
  phase,       \* where each invocation is in handler()
  attempt,     \* the failed attempts of its event
  address,     \* the address it read
  found,       \* whether it found an engine
  faults,
  causes       \* history: what may leave the engine with an old address

ecsVars     == <<task, waiting>>
invocations == <<phase, attempt, address, found>>
updaterVars == <<ecsVars, invocations>>

UpdaterTypeOK ==
  /\ task \in [Tasks -> {"none", "pending", "running", "draining", "stopped"}]
  /\ waiting \in [0 .. MaxAttempts - 1 -> Nat]
  /\ phase \in [Invocations -> {"idle", "list", "find", "write"}]
  /\ attempt \in [Invocations -> 0 .. MaxAttempts - 1]
  /\ address \in [Invocations -> Tasks \cup {NoAddress}]
  /\ found \in [Invocations -> BOOLEAN]
  /\ \A i \in Invocations : phase[i] \in {"find", "write"} <=> address[i] # NoAddress
  /\ faults \in Nat
  /\ causes \in SUBSET {"overlap", "refused", "dropped", "no address", "died"}

UpdaterInit ==
  /\ task = [t \in Tasks |-> "none"]
  /\ waiting = [n \in 0 .. MaxAttempts - 1 |-> 0]
  /\ phase = [i \in Invocations |-> "idle"]
  /\ attempt = [i \in Invocations |-> 0]
  /\ address = [i \in Invocations |-> NoAddress]
  /\ found = [i \in Invocations |-> FALSE]
  /\ faults = 0
  /\ causes = {}

In(status) == {t \in Tasks : task[t] = status}
Running == In("running")

Blame(cause) == causes' = causes \cup {cause}

-----------------------------------------------------------------------------
(* The ECS service: one task, two while a deployment replaces it           *)
(* (MinimumHealthyPercent 100, MaximumPercent 200).                        *)

TaskGoes(t, status) == task' = [task EXCEPT ![t] = status]

Raised == waiting' = [waiting EXCEPT ![0] = @ + 1]

Launch(t) ==
  /\ task[t] = "none"
  /\ Cardinality(In("pending") \cup Running) < 2
  /\ TaskGoes(t, "pending")
  /\ UNCHANGED <<ontap, waiting, invocations, faults, causes>>

Run(t) ==
  /\ task[t] = "pending"
  /\ TaskGoes(t, "running")
  /\ Raised
  /\ UNCHANGED <<ontap, invocations, faults, causes>>

FailToRun(t) ==
  /\ task[t] = "pending"
  /\ TaskGoes(t, "stopped")
  /\ IF Running = {} THEN UNCHANGED causes ELSE Blame("died")
  /\ UNCHANGED <<ontap, waiting, invocations, faults>>

(* The old task of a deployment: RUNNING still, to be STOPPED.             *)
Drain(t) ==
  /\ task[t] = "running"
  /\ Running # {t}
  /\ TaskGoes(t, "draining")
  /\ Raised
  /\ UNCHANGED <<ontap, invocations, faults, causes>>

Stop(t) ==
  /\ task[t] = "draining"
  /\ TaskGoes(t, "stopped")
  /\ UNCHANGED <<ontap, waiting, invocations, faults, causes>>

(* The event of a task that dies says STOPPED, which no rule matches.      *)
Crash(t) ==
  /\ task[t] = "running"
  /\ TaskGoes(t, "stopped")
  /\ IF Running = {t} THEN UNCHANGED causes ELSE Blame("died")
  /\ UNCHANGED <<ontap, waiting, invocations, faults>>

-----------------------------------------------------------------------------
(* handler()                                                               *)

Busy == {i \in Invocations : phase[i] # "idle"}

(* others: whether somebody else is changing the configuration.            *)
Invoke(i, others) ==
  /\ phase[i] = "idle"
  /\ \E n \in DOMAIN waiting :
       /\ waiting[n] > 0
       /\ waiting' = [waiting EXCEPT ![n] = @ - 1]
       /\ attempt' = [attempt EXCEPT ![i] = n]
  /\ phase' = [phase EXCEPT ![i] = "list"]
  /\ IF Busy # {} \/ others THEN Blame("overlap") ELSE UNCHANGED causes
  /\ UNCHANGED <<ontap, task, address, found, faults>>

(* The end of an invocation, and of what it knew.                          *)
Leave(i) ==
  /\ phase' = [phase EXCEPT ![i] = "idle"]
  /\ attempt' = [attempt EXCEPT ![i] = 0]
  /\ address' = [address EXCEPT ![i] = NoAddress]
  /\ found' = [found EXCEPT ![i] = FALSE]

ListedWithDraining == In("pending") \cup Running \cup In("draining")  \* mutant: any desired status

(* list_tasks(desiredStatus='RUNNING'): tasks that are to run, in no order. *)
Listed == In("pending") \cup Running

ListUnchecked(i) ==  \* mutant: no answer without an address
  /\ phase[i] = "list"
  /\ \E t \in Listed \cup {NoAddress} : address' = [address EXCEPT ![i] = t]
  /\ phase' = [phase EXCEPT ![i] = "find"]
  /\ UNCHANGED <<ontap, ecsVars, attempt, found, faults, causes>>

(* get_running_task_ip(): the first of the list.  A task that has not got  *)
(* its address yet, or an empty list, ends the invocation with a 404.      *)
List(i) ==
  /\ phase[i] = "list"
  /\ \/ \E t \in Listed :
          /\ address' = [address EXCEPT ![i] = t]
          /\ phase' = [phase EXCEPT ![i] = "find"]
          /\ UNCHANGED <<attempt, found, causes>>
     \/ /\ Listed = {} \/ In("pending") # {}
        /\ Leave(i)
        /\ Blame("no address")
  /\ UNCHANGED <<ontap, ecsVars, faults>>

(* update_ontap_engine(): the engine is looked up, then created or changed. *)
FindEngine(i) ==
  /\ phase[i] = "find"
  /\ phase' = [phase EXCEPT ![i] = "write"]
  /\ found' = [found EXCEPT ![i] = ontap.engine # NoAddress]
  /\ UNCHANGED <<ontap, ecsVars, attempt, address, faults, causes>>

(* What ONTAP may mind besides is an error like any other.                 *)
Accepted(i) == found[i] = (ontap.engine # NoAddress)

WriteEngine(i) ==
  /\ phase[i] = "write"
  /\ Accepted(i)
  /\ ontap' = [ontap EXCEPT !.engine = address[i]]
  /\ Leave(i)
  /\ UNCHANGED <<ecsVars, faults, causes>>

(* The status of the response is printed, whatever it is: a POST of what   *)
(* exists by now, a PATCH of what does not any more, or another error.     *)
WriteRefused(i) ==
  /\ phase[i] = "write"
  /\ IF Accepted(i) THEN faults < MaxFaults /\ faults' = faults + 1 ELSE UNCHANGED faults
  /\ Leave(i)
  /\ Blame("refused")
  /\ UNCHANGED <<ontap, ecsVars>>

(* A call raises, the last one perhaps after it was carried out: the event *)
(* is tried again, or given up.                                            *)
Raise(i) ==
  /\ phase[i] # "idle"
  /\ faults < MaxFaults
  /\ faults' = faults + 1
  /\ Leave(i)
  /\ IF attempt[i] + 1 < MaxAttempts
     THEN /\ waiting' = [waiting EXCEPT ![attempt[i] + 1] = @ + 1]
          /\ UNCHANGED causes
     ELSE Blame("dropped") /\ UNCHANGED waiting
  /\ \/ UNCHANGED ontap
     \/ /\ phase[i] = "write"
        /\ Accepted(i)
        /\ ontap' = [ontap EXCEPT !.engine = address[i]]
  /\ UNCHANGED task

EcsNext ==
  \E t \in Tasks : Launch(t) \/ Run(t) \/ FailToRun(t) \/ Drain(t) \/ Stop(t) \/ Crash(t)

UpdaterNext(others) ==
  \/ EcsNext
  \/ \E i \in Invocations :
       Invoke(i, others) \/ List(i) \/ FindEngine(i) \/ WriteEngine(i) \/ WriteRefused(i)
         \/ Raise(i)
=============================================================================
