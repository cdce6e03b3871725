--------------------------- MODULE ConfigureFPolicy ---------------------------
(***************************************************************************)
(* The script that sets FPolicy up                                         *)
(* (integrations/snowflake/scripts/configure_fpolicy.py), call by call:    *)
(* look for what exists, with --force remove it, create engine, event and  *)
(* policy, enable the policy.  The service's tasks come and go and the     *)
(* updater of the engine's address runs beside it (module IpUpdater).      *)
(***************************************************************************)
EXTENDS IpUpdater

CONSTANT MaxRuns   \* bound on runs of the script

ASSUME RunsAssumption == MaxRuns \in Nat

VARIABLES
  step,        \* where main() is, or how it ended
  options,     \* --force, --skip-enable, --fargate-ip
  runs,
  troubled     \* history: a call of this run failed, or the updater created the
               \* engine meanwhile

configureVars == <<step, options, runs, troubled>>
vars == <<ontap, updaterVars, faults, causes, configureVars>>

Ended == {"idle", "left", "exit0", "exit1", "traceback"}

Steps == Ended \cup
  {"check", "findPolicy", "disable", "deletePolicy", "findEvent", "deleteEvent",
   "findEngine", "deleteEngine", "createEngine", "createEvent", "createPolicy", "enable"}

Options == [force : BOOLEAN, skip : BOOLEAN, ip : Tasks \cup {NoAddress}]

TypeOK ==
  /\ ontap \in Ontap
  /\ InUse => Complete
  /\ UpdaterTypeOK
  /\ step \in Steps
  /\ options \in Options
  /\ runs \in Nat
  /\ troubled \in BOOLEAN

Init ==
  /\ OntapInit
  /\ UpdaterInit
  /\ step = "idle"
  /\ options = [force |-> FALSE, skip |-> FALSE, ip |-> NoAddress]
  /\ runs = 0
  /\ troubled = FALSE

Active == step \notin Ended

-----------------------------------------------------------------------------
(* The operator gives the address of a task that runs when the script      *)
(* starts.                                                                 *)
StartRun ==
  /\ ~Active
  /\ runs < MaxRuns
  /\ runs' = runs + 1
  /\ \E force, skip \in BOOLEAN, t \in Running :
       options' = [force |-> force, skip |-> skip, ip |-> t]
  /\ step' = "check"
  /\ troubled' = FALSE
  /\ IF Busy # {} THEN Blame("overlap") ELSE UNCHANGED causes
  /\ UNCHANGED <<ontap, updaterVars, faults>>

Reads == UNCHANGED <<ontap, updaterVars, causes, options, runs>>

Fault ==
  /\ faults < MaxFaults
  /\ faults' = faults + 1
  /\ troubled' = TRUE

(* get_existing_fpolicy_...(): an error counts as nothing found.           *)
Sees(parts) ==
  \/ parts = Present /\ UNCHANGED <<faults, troubled>>
  \/ \E part \in Present : parts = Present \ {part} /\ Fault

Check ==
  /\ step = "check"
  /\ \E seen \in SUBSET Present :
       /\ Sees(seen)
       /\ step' = IF seen = {} THEN "createEngine"
                  ELSE IF options.force THEN "findPolicy" ELSE "left"
  /\ Reads

Find(at, part, yes, no) ==
  /\ step = at
  /\ \E seen \in SUBSET Present :
       /\ Sees(seen)
       /\ step' = IF part \in seen THEN yes ELSE no
  /\ Reads

(* A request that changes something: it is refused or accepted, or it      *)
(* fails, and then it may have been carried out all the same.              *)
Request(at, allowed, after, then, onError) ==
  /\ step = at
  /\ \/ /\ allowed
        /\ ontap' = after
        /\ step' = then
        /\ UNCHANGED <<faults, troubled>>
     \/ /\ ~allowed
        /\ step' = onError
        /\ UNCHANGED <<ontap, faults, troubled>>
     \/ /\ Fault
        /\ UNCHANGED ontap \/ (allowed /\ ontap' = after)
        /\ step' = onError
  /\ UNCHANGED <<updaterVars, causes, options, runs>>

-----------------------------------------------------------------------------
(* delete_fpolicy_config(): "policy -> event -> engine order".  An error   *)
(* while disabling is passed over, any other is a traceback.               *)

FindEnabledPolicy ==  \* mutant: the policy is not disabled first
  Find("findPolicy", "policy", "deletePolicy", "findEvent")

FindPolicy == Find("findPolicy", "policy", "disable", "findEvent")

DisablePolicy ==
  Request("disable", ontap.policy = "enabled", [ontap EXCEPT !.policy = "disabled"],
          "deletePolicy", "deletePolicy")

DeletePolicy ==
  Request("deletePolicy", ontap.policy = "disabled", [ontap EXCEPT !.policy = "none"],
          "findEvent", "traceback")

FindEvent == Find("findEvent", "event", "deleteEvent", "findEngine")

DeleteEvent ==
  Request("deleteEvent", ontap.event /\ ~InUse, [ontap EXCEPT !.event = FALSE],
          "findEngine", "traceback")

FindEngineAgain == Find("findEngine", "engine", "deleteEngine", "createEngine")

DeleteEngine ==
  Request("deleteEngine", ontap.engine # NoAddress /\ ~InUse,
          [ontap EXCEPT !.engine = NoAddress], "createEngine", "traceback")

-----------------------------------------------------------------------------
(* Steps 3 to 6 of main().                                                 *)

CreateEngine ==
  Request("createEngine", ontap.engine = NoAddress, [ontap EXCEPT !.engine = options.ip],
          "createEvent", "exit1")

CreateEvent ==
  Request("createEvent", ~ontap.event, [ontap EXCEPT !.event = TRUE],
          "createPolicy", "exit1")

CreatePolicy ==
  Request("createPolicy", Present = {"engine", "event"}, [ontap EXCEPT !.policy = "disabled"],
          IF options.skip THEN "exit0" ELSE "enable", "exit1")

EnableOrGoOn ==  \* mutant: the error is printed and main() goes on
  Request("enable", InUse, [ontap EXCEPT !.policy = "enabled"], "exit0", "exit0")

EnablePolicy ==
  Request("enable", InUse, [ontap EXCEPT !.policy = "enabled"], "exit0", "exit1")

ConfigureNext ==
  \/ StartRun
  \/ Check
  \/ FindPolicy \/ DisablePolicy \/ DeletePolicy
  \/ FindEvent \/ DeleteEvent
  \/ FindEngineAgain \/ DeleteEngine
  \/ CreateEngine \/ CreateEvent \/ CreatePolicy \/ EnablePolicy

(* The updater's steps, and what they mean for a run of the script.        *)
UpdaterStep ==
  /\ UpdaterNext(Active)
  /\ troubled' = (troubled \/ (Active /\ ontap.engine = NoAddress /\ ontap'.engine # NoAddress))
  /\ UNCHANGED <<step, options, runs>>

Next == ConfigureNext \/ UpdaterStep

Spec == Init /\ [][Next]_vars

-----------------------------------------------------------------------------
(* Properties                                                              *)

(* A run that gets through to its last step and exits with 0 has left a    *)
(* complete configuration, enabled unless it was told not to, although     *)
(* main() ignores what its verification finds.                             *)
ExitZeroMeansConfigured ==
  step = "exit0" => Complete /\ (options.skip \/ ontap.policy = "enabled")

(* A run fails, with exit 1 or a traceback, only if one of its own calls   *)
(* failed or the updater created the engine in the middle of it: what an   *)
(* earlier run left behind, complete or not, does not stop --force, and    *)
(* nothing is deleted while it is in use.                                  *)
RunsFailOnlyForACause ==
  step \in {"exit1", "traceback"} => troubled

(* Nothing goes on: no event, no invocation, no run, no task on the move.  *)
AtRest ==
  /\ \A n \in DOMAIN waiting : waiting[n] = 0
  /\ Busy = {}
  /\ ~Active
  /\ In("pending") = {} /\ In("draining") = {}

EngineIsCurrent == ontap.engine \in Running \cup {NoAddress}

(* The engine is left with the address of a task that is gone only if two  *)
(* programs changed it at a time, a write was refused or an event dropped, *)
(* the list named a task without an address, or a task died, or never came *)
(* up, while another ran: "auto-update ONTAP external-engine IP on task    *)
(* restart" (docs/en/deployment-guide.md), and all that stands in its way. *)
(* That the list names the old task during a deployment does no harm: its  *)
(* being stopped invokes the function once more.                           *)
StaleOnlyForACause ==
  AtRest /\ Running # {} => EngineIsCurrent \/ causes # {}
=============================================================================
