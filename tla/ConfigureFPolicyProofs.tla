------------------------ MODULE ConfigureFPolicyProofs ------------------------
(***************************************************************************)
(* Theorems about ConfigureFPolicy, for every set of tasks and invocations *)
(* and any bounds: a run of the script that exits with 0 has left what it  *)
(* promises, and a run fails only for a cause of its own time.             *)
(***************************************************************************)
EXTENDS ConfigureFPolicy, TLAPS

(* What a run that met no trouble has made of the configuration so far.    *)
Untroubled ==
  /\ step \notin {"exit1", "traceback"}
  /\ step = "disable" => InUse
  /\ step = "deletePolicy" => ontap.policy = "disabled"
  /\ step \in {"findEvent", "deleteEvent", "findEngine", "deleteEngine",
               "createEngine", "createEvent", "createPolicy"} => ~InUse
  /\ step \in {"deleteEvent", "createPolicy"} => ontap.event
  /\ step \in {"findEngine", "deleteEngine", "createEngine", "createEvent"} => ~ontap.event
  /\ step \in {"deleteEngine", "createEvent", "createPolicy"} => ontap.engine # NoAddress
  /\ step = "createEngine" => ontap.engine = NoAddress

(* The rest holds of every run, troubled or not.                           *)
ConfigureInv ==
  /\ TypeOK
  /\ Active => options.ip \in Tasks
  /\ step = "enable" => InUse
  /\ ExitZeroMeansConfigured
  /\ ~troubled => Untroubled

-----------------------------------------------------------------------------
(* What is present, part by part.                                          *)
LEMMA Parts ==
  /\ "engine" \in Present <=> ontap.engine # NoAddress
  /\ "event" \in Present <=> ontap.event
  /\ "policy" \in Present <=> InUse
  /\ Complete <=> ontap.engine # NoAddress /\ ontap.event /\ InUse
  /\ Present = {} <=> ontap.engine = NoAddress /\ ~ontap.event /\ ~InUse
  /\ Present = {"engine", "event"} <=> ontap.engine # NoAddress /\ ontap.event /\ ~InUse
<1>1. Present \subseteq {"engine", "event", "policy"}
  BY DEF Present
<1>2. /\ "engine" \in Present <=> ontap.engine # NoAddress
      /\ "event" \in Present <=> ontap.event
      /\ "policy" \in Present <=> InUse
  BY DEF Present, InUse
<1>3. Complete <=> {"engine", "event", "policy"} \subseteq Present
  BY <1>1 DEF Complete
<1>4. Present = {} <=> "engine" \notin Present /\ "event" \notin Present /\ "policy" \notin Present
  BY <1>1
<1>5. Present = {"engine", "event"} <=>
        "engine" \in Present /\ "event" \in Present /\ "policy" \notin Present
  BY <1>1
<1> QED BY <1>2, <1>3, <1>4, <1>5

(* The same of the next state.                                             *)
LEMMA PartsAfter == Complete' <=> ontap'.engine # NoAddress /\ ontap'.event /\ InUse'
<1>1. /\ "engine" \in Present' <=> ontap'.engine # NoAddress
      /\ "event" \in Present' <=> ontap'.event
      /\ "policy" \in Present' <=> InUse'
      /\ Present' \subseteq {"engine", "event", "policy"}
  BY DEF Present, InUse
<1> QED BY <1>1 DEF Complete

(* Counters are numbers.                                                   *)
LEMMA Counts ==
  ASSUME TypeOK
  PROVE  faults \in Nat /\ runs \in Nat /\ runs + 1 \in Nat /\ troubled \in BOOLEAN
<1>1. faults \in Nat
  BY DEF TypeOK, UpdaterTypeOK
<1>2. runs \in Nat /\ troubled \in BOOLEAN
  BY DEF TypeOK
<1> QED BY <1>1, <1>2

(* The initial states satisfy the invariant.                               *)
LEMMA InitInv == Init => ConfigureInv
<1> SUFFICES ASSUME Init PROVE ConfigureInv
  OBVIOUS
<1> USE DEF Init, OntapInit, UpdaterInit
<1>1. TypeOK
  <2>1. ontap \in Ontap /\ ~InUse
    BY DEF Ontap, InUse
  <2>2. UpdaterTypeOK
    BY UpdaterAssumption, AddressAssumption DEF UpdaterTypeOK
  <2>3. options \in Options
    BY DEF Options
  <2> QED BY <2>1, <2>2, <2>3 DEF TypeOK, Steps, Ended
<1> QED BY <1>1 DEF ConfigureInv, Active, Ended, ExitZeroMeansConfigured, Untroubled

(* A step of the script that changes no more than where it is.             *)
LEMMA Onwards ==
  ASSUME ConfigureInv, UNCHANGED <<ontap, updaterVars>>, faults' \in Nat,
         step' \in Steps, options' \in Options, runs' \in Nat, troubled' \in BOOLEAN,
         causes' \in SUBSET {"overlap", "refused", "dropped", "no address", "died"},
         Active' => options'.ip \in Tasks, step' \notin {"enable", "exit0"},
         ~troubled' => Untroubled'
  PROVE  ConfigureInv'
<1>1. UpdaterTypeOK'
  BY DEF ConfigureInv, TypeOK, UpdaterTypeOK, updaterVars, ecsVars, invocations
<1>2. (InUse => Complete)'
  BY DEF ConfigureInv, TypeOK, InUse, Complete, Present
<1> QED BY <1>1, <1>2 DEF ConfigureInv, TypeOK, ExitZeroMeansConfigured

(* A new run begins without trouble.                                       *)
LEMMA StartRunInv == ASSUME ConfigureInv, StartRun PROVE ConfigureInv'
<1>1. /\ UNCHANGED <<ontap, updaterVars, faults>> /\ step' = "check" /\ troubled' = FALSE
      /\ runs' = runs + 1
      /\ causes' \in {causes, causes \cup {"overlap"}}
  BY DEF StartRun, Blame
<1>2. PICK force \in BOOLEAN, skip \in BOOLEAN, t \in Running :
        options' = [force |-> force, skip |-> skip, ip |-> t]
  BY DEF StartRun
<1>3. options' \in Options /\ options'.ip \in Tasks
  BY <1>2 DEF Options, Running, In
<1>4. faults' \in Nat /\ runs' \in Nat
  BY <1>1, Counts DEF ConfigureInv
<1>5. causes' \in SUBSET {"overlap", "refused", "dropped", "no address", "died"}
  BY <1>1 DEF ConfigureInv, TypeOK, UpdaterTypeOK
<1> QED BY <1>1, <1>3, <1>4, <1>5, Onwards DEF Steps, Ended, Untroubled

(* What the script sees is there; without trouble it sees everything.      *)
LEMMA Seen ==
  ASSUME ConfigureInv, NEW parts \in SUBSET Present, Sees(parts), Reads
  PROVE  /\ UNCHANGED <<ontap, updaterVars>> /\ options' = options /\ runs' = runs
         /\ causes' = causes /\ faults' \in Nat /\ troubled' \in BOOLEAN
         /\ ~troubled' => parts = Present /\ ~troubled
<1>1. faults \in Nat /\ troubled \in BOOLEAN
  BY DEF ConfigureInv, TypeOK, UpdaterTypeOK
<1>2. CASE parts = Present /\ UNCHANGED <<faults, troubled>>
  BY <1>1, <1>2 DEF Reads
<1>3. CASE Fault
  BY <1>1, <1>3 DEF Reads, Fault
<1> QED BY <1>2, <1>3 DEF Sees

(* Without --force, whatever exists ends the run.                          *)
LEMMA CheckInv == ASSUME ConfigureInv, Check PROVE ConfigureInv'
<1>1. PICK parts \in SUBSET Present :
        /\ Sees(parts)
        /\ step' = IF parts = {} THEN "createEngine"
                   ELSE IF options.force THEN "findPolicy" ELSE "left"
  BY DEF Check
<1>2. Reads /\ step = "check"
  BY DEF Check
<1>3. /\ UNCHANGED <<ontap, updaterVars>> /\ options' = options /\ runs' = runs
      /\ causes' = causes /\ faults' \in Nat /\ troubled' \in BOOLEAN
      /\ ~troubled' => parts = Present /\ ~troubled
  BY <1>1, <1>2, Seen
<1>4. step' \in {"createEngine", "findPolicy", "left"} /\ (step' = "createEngine" => parts = {})
  BY <1>1
<1>5. ~troubled' => Untroubled'
  BY <1>3, <1>4, Parts DEF Untroubled, InUse
<1>6. /\ options' \in Options /\ runs' \in Nat /\ options'.ip \in Tasks
      /\ causes' \in SUBSET {"overlap", "refused", "dropped", "no address", "died"}
  BY <1>2, <1>3 DEF ConfigureInv, TypeOK, UpdaterTypeOK, Active, Ended
<1> QED BY <1>3, <1>4, <1>5, <1>6, Onwards DEF Steps, Ended

(* A look at one part, before it is removed.                               *)
LEMMA FindInv ==
  ASSUME ConfigureInv, NEW at \in Steps \ Ended, NEW part, NEW yes \in Steps, NEW no \in Steps,
         Find(at, part, yes, no),
         yes \notin {"enable", "exit0"}, no \notin {"enable", "exit0"},
         UNCHANGED ontap /\ ~troubled /\ step' = (IF part \in Present THEN yes ELSE no)
           => Untroubled'
  PROVE  ConfigureInv'
<1>1. PICK parts \in SUBSET Present :
        Sees(parts) /\ step' = IF part \in parts THEN yes ELSE no
  BY DEF Find
<1>2. Reads /\ step = at
  BY DEF Find
<1>3. /\ UNCHANGED <<ontap, updaterVars>> /\ options' = options /\ runs' = runs
      /\ causes' = causes /\ faults' \in Nat /\ troubled' \in BOOLEAN
      /\ ~troubled' => parts = Present /\ ~troubled
  BY <1>1, <1>2, Seen
<1>4. /\ options' \in Options /\ runs' \in Nat /\ options'.ip \in Tasks
      /\ causes' \in SUBSET {"overlap", "refused", "dropped", "no address", "died"}
  BY <1>2, <1>3 DEF ConfigureInv, TypeOK, UpdaterTypeOK, Active
<1>5. step' \in Steps /\ step' \notin {"enable", "exit0"}
  BY <1>1
<1>6. ~troubled' => Untroubled'
  BY <1>1, <1>3
<1> QED BY <1>3, <1>4, <1>5, <1>6, Onwards

(* --force: the policy is looked for, then the event, then the engine.     *)
LEMMA FindPolicyInv == ASSUME ConfigureInv, FindPolicy PROVE ConfigureInv'
<1>1. step = "findPolicy"
  BY DEF FindPolicy, Find
<1>2. UNCHANGED ontap /\ ~troubled /\ step' = (IF "policy" \in Present THEN "disable" ELSE "findEvent")
        => Untroubled'
  BY Parts DEF Untroubled, InUse
<1>3. /\ "findPolicy" \in Steps \ Ended /\ "disable" \in Steps /\ "findEvent" \in Steps
      /\ "disable" \notin {"enable", "exit0"} /\ "findEvent" \notin {"enable", "exit0"}
  BY DEF Steps, Ended
<1> QED BY <1>2, <1>3, FindInv DEF FindPolicy

LEMMA FindEventInv == ASSUME ConfigureInv, FindEvent PROVE ConfigureInv'
<1>1. step = "findEvent"
  BY DEF FindEvent, Find
<1>2. UNCHANGED ontap /\ ~troubled /\ step' = (IF "event" \in Present THEN "deleteEvent" ELSE "findEngine")
        => Untroubled'
  BY <1>1, Parts DEF ConfigureInv, Untroubled, InUse
<1>3. /\ "findEvent" \in Steps \ Ended /\ "deleteEvent" \in Steps /\ "findEngine" \in Steps
      /\ "deleteEvent" \notin {"enable", "exit0"} /\ "findEngine" \notin {"enable", "exit0"}
  BY DEF Steps, Ended
<1> QED BY <1>2, <1>3, FindInv DEF FindEvent

LEMMA FindEngineAgainInv == ASSUME ConfigureInv, FindEngineAgain PROVE ConfigureInv'
<1>1. step = "findEngine"
  BY DEF FindEngineAgain, Find
<1>2. UNCHANGED ontap /\ ~troubled /\ step' = (IF "engine" \in Present THEN "deleteEngine" ELSE "createEngine")
        => Untroubled'
  BY <1>1, Parts DEF ConfigureInv, Untroubled, InUse
<1>3. /\ "findEngine" \in Steps \ Ended /\ "deleteEngine" \in Steps /\ "createEngine" \in Steps
      /\ "deleteEngine" \notin {"enable", "exit0"} /\ "createEngine" \notin {"enable", "exit0"}
  BY DEF Steps, Ended
<1> QED BY <1>2, <1>3, FindInv DEF FindEngineAgain

(* A request: what has to be shown of the configuration it asks for, and   *)
(* of where the script goes from there.                                    *)
LEMMA RequestInv ==
  ASSUME ConfigureInv, NEW at \in Steps \ Ended, NEW allowed \in BOOLEAN, NEW after \in Ontap,
         NEW then \in Steps, NEW onError \in Steps, Request(at, allowed, after, then, onError),
         onError \notin {"enable", "exit0"},
         allowed /\ after.policy # "none" => after.engine # NoAddress /\ after.event,
         allowed /\ ontap' = after /\ step' = then /\ ~troubled /\ step = at => Untroubled',
         allowed /\ then = "enable" => after.policy # "none",
         allowed /\ then = "exit0" =>
           after.policy # "none" /\ (options.skip \/ after.policy = "enabled"),
         ~allowed /\ UNCHANGED ontap /\ step' = onError /\ ~troubled /\ step = at => Untroubled'
  PROVE  ConfigureInv'
<1>1. /\ UNCHANGED <<updaterVars, causes, options, runs>> /\ step = at
      /\ \/ allowed /\ ontap' = after /\ step' = then /\ UNCHANGED <<faults, troubled>>
         \/ ~allowed /\ step' = onError /\ UNCHANGED <<ontap, faults, troubled>>
         \/ Fault /\ step' = onError /\ (UNCHANGED ontap \/ (allowed /\ ontap' = after))
  BY DEF Request
<1>2. TypeOK
  BY DEF ConfigureInv
<1>3. faults' \in Nat /\ troubled' \in BOOLEAN
  <2>1. faults \in Nat /\ troubled \in BOOLEAN
    BY <1>2, Counts
  <2>2. Fault => faults' \in Nat /\ troubled' = TRUE
    BY <2>1 DEF Fault
  <2>3. (faults' = faults /\ troubled' = troubled) \/ Fault
    BY <1>1
  <2> QED BY <2>1, <2>2, <2>3
<1>4. UpdaterTypeOK'
  BY <1>1, <1>2, <1>3 DEF TypeOK, UpdaterTypeOK, updaterVars, ecsVars, invocations
<1>5. ontap' = ontap \/ (allowed /\ ontap' = after)
  BY <1>1
<1>6. (InUse => Complete)'
  <2>1. CASE ontap' = ontap
    BY <1>2, <2>1 DEF TypeOK, InUse, Complete, Present
  <2>2. CASE allowed /\ ontap' = after
    BY <2>2, PartsAfter DEF InUse
  <2> QED BY <1>5, <2>1, <2>2
<1>7. TypeOK'
  BY <1>1, <1>2, <1>3, <1>4, <1>5, <1>6 DEF TypeOK
<1>8. options'.ip \in Tasks
  BY <1>1 DEF ConfigureInv, Active
<1>9. step' \in {"enable", "exit0"} => allowed /\ ontap' = after /\ step' = then
  BY <1>1
<1>10. (step = "enable" => InUse)' /\ ExitZeroMeansConfigured'
  BY <1>1, <1>6, <1>9 DEF InUse, ExitZeroMeansConfigured
<1>11. ~troubled' => Untroubled'
  BY <1>1 DEF Fault
<1> QED BY <1>7, <1>8, <1>10, <1>11 DEF ConfigureInv

(* --force: the policy is disabled, if it is not already.                  *)
LEMMA DisablePolicyInv == ASSUME ConfigureInv, DisablePolicy PROVE ConfigureInv'
<1> DEFINE allowed == ontap.policy = "enabled"
           after   == [ontap EXCEPT !.policy = "disabled"]
<1>1. Request("disable", allowed, after, "deletePolicy", "deletePolicy")
  BY DEF DisablePolicy
<1>2. /\ ontap \in Ontap
      /\ InUse => ontap.engine # NoAddress /\ ontap.event
  BY Parts DEF ConfigureInv, TypeOK
<1>3. /\ after \in Ontap /\ after.policy = "disabled"
      /\ after.engine = ontap.engine /\ after.event = ontap.event
  BY <1>2 DEF Ontap
<1>4. allowed \in BOOLEAN
  OBVIOUS
<1>5. allowed => InUse
  BY DEF InUse
<1> HIDE DEF after
<1>6. ontap' = after /\ step' = "deletePolicy" => Untroubled'
  BY <1>3 DEF Untroubled
<1>7. ~allowed /\ UNCHANGED ontap /\ step' = "deletePolicy" /\ ~troubled /\ step = "disable"
        => Untroubled'
  BY <1>2 DEF ConfigureInv, Untroubled, InUse, Ontap
<1>8. "disable" \in Steps \ Ended /\ "deletePolicy" \in Steps
  BY DEF Steps, Ended
<1> HIDE DEF allowed
<1> QED BY <1>1, <1>2, <1>3, <1>4, <1>5, <1>6, <1>7, <1>8, RequestInv

(* --force: it is disabled by then.                                        *)
LEMMA DeletePolicyInv == ASSUME ConfigureInv, DeletePolicy PROVE ConfigureInv'
<1> DEFINE allowed == ontap.policy = "disabled"
           after   == [ontap EXCEPT !.policy = "none"]
<1>1. Request("deletePolicy", allowed, after, "findEvent", "traceback") /\ step = "deletePolicy"
  BY DEF DeletePolicy, Request
<1>2. /\ ontap \in Ontap /\ options \in Options /\ options.ip \in Tasks /\ options.ip # NoAddress
      /\ InUse => ontap.engine # NoAddress /\ ontap.event
      /\ ~troubled => Untroubled
  BY <1>1, Parts, AddressAssumption DEF ConfigureInv, TypeOK, Active, Ended
<1>3. after \in Ontap /\ after.policy = "none" /\ after.engine = ontap.engine /\ after.event = ontap.event
  BY <1>2 DEF Ontap
<1>4. allowed \in BOOLEAN
  OBVIOUS
<1>5. allowed /\ after.policy # "none" => after.engine # NoAddress /\ after.event
  BY <1>2, <1>3, Parts DEF InUse
<1> HIDE DEF after
<1>6. allowed /\ ontap' = after /\ step' = "findEvent" /\ ~troubled => Untroubled'
  BY <1>1, <1>2, <1>3, Parts DEF Untroubled, InUse
<1>7. ~allowed /\ UNCHANGED ontap /\ step' = "traceback" /\ ~troubled => Untroubled'
  BY <1>1, <1>2, Parts DEF Untroubled, InUse, Ontap
<1>8. /\ "deletePolicy" \in Steps \ Ended /\ "findEvent" \in Steps /\ "traceback" \in Steps
      /\ "traceback" \notin {"enable", "exit0"}
  BY DEF Steps, Ended
<1>9. /\ allowed /\ "findEvent" = "enable" => after.policy # "none"
      /\ allowed /\ "findEvent" = "exit0" =>
           after.policy # "none" /\ (options.skip \/ after.policy = "enabled")
  BY <1>3
<1> HIDE DEF allowed
<1> QED BY <1>1, <1>3, <1>4, <1>5, <1>6, <1>7, <1>8, <1>9, RequestInv

(* --force: no policy uses the event any more ...                          *)
LEMMA DeleteEventInv == ASSUME ConfigureInv, DeleteEvent PROVE ConfigureInv'
<1> DEFINE allowed == ontap.event /\ ~InUse
           after   == [ontap EXCEPT !.event = FALSE]
<1>1. Request("deleteEvent", allowed, after, "findEngine", "traceback") /\ step = "deleteEvent"
  BY DEF DeleteEvent, Request
<1>2. /\ ontap \in Ontap /\ options \in Options /\ options.ip \in Tasks /\ options.ip # NoAddress
      /\ InUse => ontap.engine # NoAddress /\ ontap.event
      /\ ~troubled => Untroubled
  BY <1>1, Parts, AddressAssumption DEF ConfigureInv, TypeOK, Active, Ended
<1>3. after \in Ontap /\ after.policy = ontap.policy /\ after.engine = ontap.engine /\ after.event = FALSE
  BY <1>2 DEF Ontap
<1>4. allowed \in BOOLEAN
  OBVIOUS
<1>5. allowed /\ after.policy # "none" => after.engine # NoAddress /\ after.event
  BY <1>2, <1>3, Parts DEF InUse
<1> HIDE DEF after
<1>6. allowed /\ ontap' = after /\ step' = "findEngine" /\ ~troubled => Untroubled'
  BY <1>1, <1>2, <1>3, Parts DEF Untroubled, InUse
<1>7. ~allowed /\ UNCHANGED ontap /\ step' = "traceback" /\ ~troubled => Untroubled'
  BY <1>1, <1>2, Parts DEF Untroubled, InUse, Ontap
<1>8. /\ "deleteEvent" \in Steps \ Ended /\ "findEngine" \in Steps /\ "traceback" \in Steps
      /\ "traceback" \notin {"enable", "exit0"}
  BY DEF Steps, Ended
<1>9. /\ allowed /\ "findEngine" = "enable" => after.policy # "none"
      /\ allowed /\ "findEngine" = "exit0" =>
           after.policy # "none" /\ (options.skip \/ after.policy = "enabled")
  BY <1>3
<1> HIDE DEF allowed
<1> QED BY <1>1, <1>3, <1>4, <1>5, <1>6, <1>7, <1>8, <1>9, RequestInv

(* ... nor the engine.                                                     *)
LEMMA DeleteEngineInv == ASSUME ConfigureInv, DeleteEngine PROVE ConfigureInv'
<1> DEFINE allowed == ontap.engine # NoAddress /\ ~InUse
           after   == [ontap EXCEPT !.engine = NoAddress]
<1>1. Request("deleteEngine", allowed, after, "createEngine", "traceback") /\ step = "deleteEngine"
  BY DEF DeleteEngine, Request
<1>2. /\ ontap \in Ontap /\ options \in Options /\ options.ip \in Tasks /\ options.ip # NoAddress
      /\ InUse => ontap.engine # NoAddress /\ ontap.event
      /\ ~troubled => Untroubled
  BY <1>1, Parts, AddressAssumption DEF ConfigureInv, TypeOK, Active, Ended
<1>3. after \in Ontap /\ after.policy = ontap.policy /\ after.engine = NoAddress /\ after.event = ontap.event
  BY <1>2 DEF Ontap
<1>4. allowed \in BOOLEAN
  OBVIOUS
<1>5. allowed /\ after.policy # "none" => after.engine # NoAddress /\ after.event
  BY <1>2, <1>3, Parts DEF InUse
<1> HIDE DEF after
<1>6. allowed /\ ontap' = after /\ step' = "createEngine" /\ ~troubled => Untroubled'
  BY <1>1, <1>2, <1>3, Parts DEF Untroubled, InUse
<1>7. ~allowed /\ UNCHANGED ontap /\ step' = "traceback" /\ ~troubled => Untroubled'
  BY <1>1, <1>2, Parts DEF Untroubled, InUse, Ontap
<1>8. /\ "deleteEngine" \in Steps \ Ended /\ "createEngine" \in Steps /\ "traceback" \in Steps
      /\ "traceback" \notin {"enable", "exit0"}
  BY DEF Steps, Ended
<1>9. /\ allowed /\ "createEngine" = "enable" => after.policy # "none"
      /\ allowed /\ "createEngine" = "exit0" =>
           after.policy # "none" /\ (options.skip \/ after.policy = "enabled")
  BY <1>3
<1> HIDE DEF allowed
<1> QED BY <1>1, <1>3, <1>4, <1>5, <1>6, <1>7, <1>8, <1>9, RequestInv

(* Nothing is there when the engine is created ...                         *)
LEMMA CreateEngineInv == ASSUME ConfigureInv, CreateEngine PROVE ConfigureInv'
<1> DEFINE allowed == ontap.engine = NoAddress
           after   == [ontap EXCEPT !.engine = options.ip]
<1>1. Request("createEngine", allowed, after, "createEvent", "exit1") /\ step = "createEngine"
  BY DEF CreateEngine, Request
<1>2. /\ ontap \in Ontap /\ options \in Options /\ options.ip \in Tasks /\ options.ip # NoAddress
      /\ InUse => ontap.engine # NoAddress /\ ontap.event
      /\ ~troubled => Untroubled
  BY <1>1, Parts, AddressAssumption DEF ConfigureInv, TypeOK, Active, Ended
<1>3. after \in Ontap /\ after.policy = ontap.policy /\ after.engine = options.ip /\ after.event = ontap.event
  BY <1>2 DEF Ontap
<1>4. allowed \in BOOLEAN
  OBVIOUS
<1>5. allowed /\ after.policy # "none" => after.engine # NoAddress /\ after.event
  BY <1>2, <1>3, Parts DEF InUse
<1> HIDE DEF after
<1>6. allowed /\ ontap' = after /\ step' = "createEvent" /\ ~troubled => Untroubled'
  BY <1>1, <1>2, <1>3, Parts DEF Untroubled, InUse
<1>7. ~allowed /\ UNCHANGED ontap /\ step' = "exit1" /\ ~troubled => Untroubled'
  BY <1>1, <1>2, Parts DEF Untroubled, InUse, Ontap
<1>8. /\ "createEngine" \in Steps \ Ended /\ "createEvent" \in Steps /\ "exit1" \in Steps
      /\ "exit1" \notin {"enable", "exit0"}
  BY DEF Steps, Ended
<1>9. /\ allowed /\ "createEvent" = "enable" => after.policy # "none"
      /\ allowed /\ "createEvent" = "exit0" =>
           after.policy # "none" /\ (options.skip \/ after.policy = "enabled")
  BY <1>3
<1> HIDE DEF allowed
<1> QED BY <1>1, <1>3, <1>4, <1>5, <1>6, <1>7, <1>8, <1>9, RequestInv

(* ... but the engine when the event is ...                                *)
LEMMA CreateEventInv == ASSUME ConfigureInv, CreateEvent PROVE ConfigureInv'
<1> DEFINE allowed == ~ontap.event
           after   == [ontap EXCEPT !.event = TRUE]
<1>1. Request("createEvent", allowed, after, "createPolicy", "exit1") /\ step = "createEvent"
  BY DEF CreateEvent, Request
<1>2. /\ ontap \in Ontap /\ options \in Options /\ options.ip \in Tasks /\ options.ip # NoAddress
      /\ InUse => ontap.engine # NoAddress /\ ontap.event
      /\ ~troubled => Untroubled
  BY <1>1, Parts, AddressAssumption DEF ConfigureInv, TypeOK, Active, Ended
<1>3. after \in Ontap /\ after.policy = ontap.policy /\ after.engine = ontap.engine /\ after.event = TRUE
  BY <1>2 DEF Ontap
<1>4. allowed \in BOOLEAN
  OBVIOUS
<1>5. allowed /\ after.policy # "none" => after.engine # NoAddress /\ after.event
  BY <1>2, <1>3, Parts DEF InUse
<1> HIDE DEF after
<1>6. allowed /\ ontap' = after /\ step' = "createPolicy" /\ ~troubled => Untroubled'
  BY <1>1, <1>2, <1>3, Parts DEF Untroubled, InUse
<1>7. ~allowed /\ UNCHANGED ontap /\ step' = "exit1" /\ ~troubled => Untroubled'
  BY <1>1, <1>2, Parts DEF Untroubled, InUse, Ontap
<1>8. /\ "createEvent" \in Steps \ Ended /\ "createPolicy" \in Steps /\ "exit1" \in Steps
      /\ "exit1" \notin {"enable", "exit0"}
  BY DEF Steps, Ended
<1>9. /\ allowed /\ "createPolicy" = "enable" => after.policy # "none"
      /\ allowed /\ "createPolicy" = "exit0" =>
           after.policy # "none" /\ (options.skip \/ after.policy = "enabled")
  BY <1>3
<1> HIDE DEF allowed
<1> QED BY <1>1, <1>3, <1>4, <1>5, <1>6, <1>7, <1>8, <1>9, RequestInv

(* ... and both when the policy is.                                        *)
LEMMA CreatePolicyInv == ASSUME ConfigureInv, CreatePolicy PROVE ConfigureInv'
<1> DEFINE allowed == Present = {"engine", "event"}
           after   == [ontap EXCEPT !.policy = "disabled"]
<1>1. Request("createPolicy", allowed, after, (IF options.skip THEN "exit0" ELSE "enable"), "exit1") /\ step = "createPolicy"
  BY DEF CreatePolicy, Request
<1>2. /\ ontap \in Ontap /\ options \in Options /\ options.ip \in Tasks /\ options.ip # NoAddress
      /\ InUse => ontap.engine # NoAddress /\ ontap.event
      /\ ~troubled => Untroubled
  BY <1>1, Parts, AddressAssumption DEF ConfigureInv, TypeOK, Active, Ended
<1>3. after \in Ontap /\ after.policy = "disabled" /\ after.engine = ontap.engine /\ after.event = ontap.event
  BY <1>2 DEF Ontap
<1>4. allowed \in BOOLEAN
  OBVIOUS
<1>5. allowed /\ after.policy # "none" => after.engine # NoAddress /\ after.event
  BY <1>2, <1>3, Parts DEF InUse
<1> HIDE DEF after
<1>6. allowed /\ ontap' = after /\ step' = (IF options.skip THEN "exit0" ELSE "enable") /\ ~troubled => Untroubled'
  BY <1>1, <1>2, <1>3, Parts DEF Untroubled, InUse
<1>7. ~allowed /\ UNCHANGED ontap /\ step' = "exit1" /\ ~troubled => Untroubled'
  BY <1>1, <1>2, Parts DEF Untroubled, InUse, Ontap
<1>8. /\ "createPolicy" \in Steps \ Ended /\ (IF options.skip THEN "exit0" ELSE "enable") \in Steps /\ "exit1" \in Steps
      /\ "exit1" \notin {"enable", "exit0"}
  BY DEF Steps, Ended
<1>9. /\ allowed /\ (IF options.skip THEN "exit0" ELSE "enable") = "enable" => after.policy # "none"
      /\ allowed /\ (IF options.skip THEN "exit0" ELSE "enable") = "exit0" =>
           after.policy # "none" /\ (options.skip \/ after.policy = "enabled")
  BY <1>3
<1> HIDE DEF allowed
<1> QED BY <1>1, <1>3, <1>4, <1>5, <1>6, <1>7, <1>8, <1>9, RequestInv

(* The policy that was created is there to be enabled.                     *)
LEMMA EnablePolicyInv == ASSUME ConfigureInv, EnablePolicy PROVE ConfigureInv'
<1> DEFINE allowed == InUse
           after   == [ontap EXCEPT !.policy = "enabled"]
<1>1. Request("enable", allowed, after, "exit0", "exit1") /\ step = "enable"
  BY DEF EnablePolicy, Request
<1>2. /\ ontap \in Ontap /\ options \in Options /\ options.ip \in Tasks /\ options.ip # NoAddress
      /\ InUse => ontap.engine # NoAddress /\ ontap.event
      /\ ~troubled => Untroubled
  BY <1>1, Parts, AddressAssumption DEF ConfigureInv, TypeOK, Active, Ended
<1>3. after \in Ontap /\ after.policy = "enabled" /\ after.engine = ontap.engine /\ after.event = ontap.event
  BY <1>2 DEF Ontap
<1>4. allowed \in BOOLEAN
  BY DEF InUse
<1>5. allowed /\ after.policy # "none" => after.engine # NoAddress /\ after.event
  BY <1>2, <1>3, Parts DEF InUse
<1> HIDE DEF after
<1>6. allowed /\ ontap' = after /\ step' = "exit0" /\ ~troubled => Untroubled'
  BY <1>1, <1>2, <1>3, Parts DEF Untroubled, InUse
<1>7. ~allowed /\ UNCHANGED ontap /\ step' = "exit1" /\ ~troubled => Untroubled'
  BY <1>1 DEF ConfigureInv
<1>8. /\ "enable" \in Steps \ Ended /\ "exit0" \in Steps /\ "exit1" \in Steps
      /\ "exit1" \notin {"enable", "exit0"}
  BY DEF Steps, Ended
<1>9. /\ allowed /\ "exit0" = "enable" => after.policy # "none"
      /\ allowed /\ "exit0" = "exit0" =>
           after.policy # "none" /\ (options.skip \/ after.policy = "enabled")
  BY <1>3
<1> HIDE DEF allowed
<1> QED BY <1>1, <1>3, <1>4, <1>5, <1>6, <1>7, <1>8, <1>9, RequestInv

-----------------------------------------------------------------------------
(* The updater changes nothing but the engine, and never removes it.       *)
LEMMA EngineOnly ==
  ASSUME ConfigureInv, UpdaterTypeOK', UNCHANGED <<step, options, runs>>,
         ontap' = ontap \/ \E a \in Tasks : ontap' = [ontap EXCEPT !.engine = a],
         troubled' = (troubled \/ (Active /\ ontap.engine = NoAddress /\ ontap'.engine # NoAddress))
  PROVE  ConfigureInv'
<1>1. ontap \in Ontap /\ troubled \in BOOLEAN /\ TypeOK
  BY DEF ConfigureInv, TypeOK
<1>2. /\ ontap' \in Ontap /\ ontap'.event = ontap.event /\ ontap'.policy = ontap.policy
      /\ ontap'.engine = ontap.engine \/ ontap'.engine # NoAddress
  BY <1>1, AddressAssumption DEF Ontap
<1>3. Complete => Complete'
  BY <1>2, Parts, PartsAfter DEF InUse
<1>4. InUse' = InUse
  BY <1>2 DEF InUse
<1>5. TypeOK'
  <2>1. troubled' \in BOOLEAN
    BY <1>1
  <2> QED BY <1>1, <1>2, <1>3, <1>4, <2>1 DEF TypeOK
<1>6. ExitZeroMeansConfigured'
  BY <1>2, <1>3 DEF ConfigureInv, ExitZeroMeansConfigured
<1>7. ~troubled' => Untroubled'
  <2> SUFFICES ASSUME ~troubled' PROVE Untroubled'
    OBVIOUS
  <2>1. Untroubled /\ (Active /\ ontap.engine = NoAddress => ontap'.engine = NoAddress)
    BY DEF ConfigureInv
  <2> QED BY <1>2, <1>4, <2>1 DEF Untroubled, Active, Ended
<1> QED BY <1>4, <1>5, <1>6, <1>7 DEF ConfigureInv, Active

(* There is a first attempt.                                               *)
LEMMA FirstAttempt == 0 \in 0 .. MaxAttempts - 1 /\ MaxAttempts \in Nat
BY UpdaterAssumption

(* Tasks come and go, and leave the rest alone.                            *)
LEMMA TaskMoves ==
  ASSUME UpdaterTypeOK, NEW t \in Tasks,
         NEW status \in {"none", "pending", "running", "draining", "stopped"},
         TaskGoes(t, status), waiting' = waiting \/ Raised,
         UNCHANGED <<invocations, faults>>, causes' = causes \/ Blame("died")
  PROVE  UpdaterTypeOK'
<1>1. task' \in [Tasks -> {"none", "pending", "running", "draining", "stopped"}]
  BY DEF UpdaterTypeOK, TaskGoes
<1>2. waiting' \in [0 .. MaxAttempts - 1 -> Nat]
  <2>1. waiting \in [0 .. MaxAttempts - 1 -> Nat]
    BY DEF UpdaterTypeOK
  <2>2. 0 \in 0 .. MaxAttempts - 1
    BY FirstAttempt
  <2> QED BY <2>1, <2>2 DEF Raised
<1>3. causes' \in SUBSET {"overlap", "refused", "dropped", "no address", "died"}
  BY DEF UpdaterTypeOK, Blame
<1> QED BY <1>1, <1>2, <1>3 DEF UpdaterTypeOK, invocations

(* An invocation that ends forgets what it knew.                           *)
LEMMA Leaves ==
  ASSUME UpdaterTypeOK, NEW i \in Invocations, Leave(i), UNCHANGED task,
         waiting' \in [0 .. MaxAttempts - 1 -> Nat], faults' \in Nat,
         causes' \in SUBSET {"overlap", "refused", "dropped", "no address", "died"}
  PROVE  UpdaterTypeOK'
<1>1. 0 \in 0 .. MaxAttempts - 1
  BY FirstAttempt
<1>2. /\ phase' \in [Invocations -> {"idle", "list", "find", "write"}]
      /\ attempt' \in [Invocations -> 0 .. MaxAttempts - 1]
      /\ address' \in [Invocations -> Tasks \cup {NoAddress}]
      /\ found' \in [Invocations -> BOOLEAN]
  BY <1>1 DEF UpdaterTypeOK, Leave
<1>3. \A j \in Invocations : phase'[j] \in {"find", "write"} <=> address'[j] # NoAddress
  BY DEF UpdaterTypeOK, Leave
<1> QED BY <1>2, <1>3 DEF UpdaterTypeOK

(* A fault is counted.                                                     *)
LEMMA FaultOrNot ==
  ASSUME UpdaterTypeOK, faults' = faults \/ faults' = faults + 1
  PROVE  faults' \in Nat
<1>1. faults \in Nat
  BY DEF UpdaterTypeOK
<1> QED BY <1>1

(* A cause is one of the list.                                             *)
LEMMA CauseKnown ==
  ASSUME UpdaterTypeOK, NEW c \in {"overlap", "refused", "dropped", "no address", "died"},
         causes' = causes \/ Blame(c)
  PROVE  causes' \in SUBSET {"overlap", "refused", "dropped", "no address", "died"}
BY DEF UpdaterTypeOK, Blame

(* Every step of the service and of the updater.                           *)
LEMMA EcsType ==
  ASSUME UpdaterTypeOK, EcsNext
  PROVE  UpdaterTypeOK' /\ ontap' = ontap
<1> PICK t \in Tasks : Launch(t) \/ Run(t) \/ FailToRun(t) \/ Drain(t) \/ Stop(t) \/ Crash(t)
  BY DEF EcsNext
<1>1. /\ ontap' = ontap /\ UNCHANGED <<invocations, faults>>
      /\ causes' = causes \/ Blame("died")
  BY DEF Launch, Run, FailToRun, Drain, Stop, Crash
<1>2. \/ TaskGoes(t, "pending") \/ TaskGoes(t, "running") \/ TaskGoes(t, "draining")
      \/ TaskGoes(t, "stopped")
  BY DEF Launch, Run, FailToRun, Drain, Stop, Crash
<1>3. waiting' = waiting \/ Raised
  BY DEF Launch, Run, FailToRun, Drain, Stop, Crash
<1>4. causes' = causes \/ Blame("died")
  BY DEF Launch, Run, FailToRun, Drain, Stop, Crash
<1> QED BY <1>1, <1>2, <1>3, <1>4, TaskMoves

(* An event is taken, with the number of its attempts.                     *)
LEMMA InvokeType ==
  ASSUME UpdaterTypeOK, NEW i \in Invocations, NEW others \in BOOLEAN, Invoke(i, others)
  PROVE  UpdaterTypeOK' /\ ontap' = ontap
<1>1. PICK n \in DOMAIN waiting :
        /\ waiting[n] > 0 /\ waiting' = [waiting EXCEPT ![n] = @ - 1]
        /\ attempt' = [attempt EXCEPT ![i] = n]
  BY DEF Invoke
<1>2. waiting \in [0 .. MaxAttempts - 1 -> Nat] /\ n \in 0 .. MaxAttempts - 1
  BY DEF UpdaterTypeOK
<1>3. waiting[n] - 1 \in Nat
  BY <1>1, <1>2
<1>4. waiting' \in [0 .. MaxAttempts - 1 -> Nat]
  BY <1>1, <1>2, <1>3
<1>5. attempt' \in [Invocations -> 0 .. MaxAttempts - 1]
  BY <1>1, <1>2 DEF UpdaterTypeOK
<1>6. /\ phase[i] = "idle" /\ phase' = [phase EXCEPT ![i] = "list"]
      /\ UNCHANGED <<ontap, task, address, found, faults>>
  BY DEF Invoke
<1>7. causes' \in SUBSET {"overlap", "refused", "dropped", "no address", "died"}
  BY CauseKnown DEF Invoke
<1>8. /\ phase' \in [Invocations -> {"idle", "list", "find", "write"}]
      /\ \A j \in Invocations : phase'[j] \in {"find", "write"} <=> address'[j] # NoAddress
  BY <1>6 DEF UpdaterTypeOK
<1> QED BY <1>4, <1>5, <1>6, <1>7, <1>8 DEF UpdaterTypeOK

(* An address that was read is the address of a task.                      *)
LEMMA ListType ==
  ASSUME UpdaterTypeOK, NEW i \in Invocations, List(i)
  PROVE  UpdaterTypeOK' /\ ontap' = ontap
<1>1. phase[i] = "list" /\ UNCHANGED <<ontap, ecsVars, faults>>
  BY DEF List
<1>2. CASE \E t \in Listed : /\ address' = [address EXCEPT ![i] = t]
                            /\ phase' = [phase EXCEPT ![i] = "find"]
                            /\ UNCHANGED <<attempt, found, causes>>
  <2>1. PICK t \in Listed : address' = [address EXCEPT ![i] = t]
    BY <1>2
  <2>2. t \in Tasks /\ t # NoAddress
    BY AddressAssumption DEF Listed, Running, In
  <2>3. phase' = [phase EXCEPT ![i] = "find"] /\ UNCHANGED <<attempt, found, causes>>
    BY <1>2
  <2> QED BY <1>1, <2>1, <2>2, <2>3 DEF UpdaterTypeOK, ecsVars
<1>3. CASE Leave(i) /\ Blame("no address")
  <2>1. causes' \in SUBSET {"overlap", "refused", "dropped", "no address", "died"}
    BY <1>3, CauseKnown
  <2>2. waiting' \in [0 .. MaxAttempts - 1 -> Nat] /\ faults' \in Nat /\ task' = task
    BY <1>1 DEF UpdaterTypeOK, ecsVars
  <2> QED BY <1>1, <1>3, <2>1, <2>2, Leaves
<1> QED BY <1>2, <1>3 DEF List

(* The engine is looked up.                                                *)
LEMMA FindType ==
  ASSUME UpdaterTypeOK, NEW i \in Invocations, FindEngine(i)
  PROVE  UpdaterTypeOK' /\ ontap' = ontap
BY DEF UpdaterTypeOK, FindEngine, ecsVars

(* It gets the address of a task, or stays.                                *)
LEMMA WriteType ==
  ASSUME UpdaterTypeOK, NEW i \in Invocations, WriteEngine(i) \/ WriteRefused(i) \/ Raise(i)
  PROVE  /\ UpdaterTypeOK'
         /\ ontap' = ontap \/ \E a \in Tasks : ontap' = [ontap EXCEPT !.engine = a]
<1>1. Leave(i) /\ task' = task
  BY DEF WriteEngine, WriteRefused, Raise, ecsVars
<1>2. faults' = faults \/ faults' = faults + 1
  BY DEF WriteEngine, WriteRefused, Raise
<1>3. causes' = causes \/ Blame("refused") \/ Blame("dropped")
  BY DEF WriteEngine, WriteRefused, Raise
<1>4. waiting' \in [0 .. MaxAttempts - 1 -> Nat]
  <2>1. waiting \in [0 .. MaxAttempts - 1 -> Nat]
    BY DEF UpdaterTypeOK
  <2>2. attempt[i] \in Nat /\ MaxAttempts \in Nat
    <3>1. attempt[i] \in 0 .. MaxAttempts - 1
      BY DEF UpdaterTypeOK
    <3> QED BY <3>1, FirstAttempt
  <2>3. \/ waiting' = waiting
        \/ /\ attempt[i] + 1 < MaxAttempts
           /\ waiting' = [waiting EXCEPT ![attempt[i] + 1] = @ + 1]
    BY DEF WriteEngine, WriteRefused, Raise, ecsVars
  <2>4. attempt[i] + 1 < MaxAttempts => attempt[i] + 1 \in 0 .. MaxAttempts - 1
    BY <2>2
  <2> QED BY <2>1, <2>3, <2>4
<1>5. UpdaterTypeOK'
  <2>1. faults' \in Nat
    BY <1>2, FaultOrNot
  <2>2. causes' \in SUBSET {"overlap", "refused", "dropped", "no address", "died"}
    BY <1>3, CauseKnown
  <2> QED BY <1>1, <1>4, <2>1, <2>2, Leaves
<1>6. \/ ontap' = ontap
      \/ phase[i] = "write" /\ ontap' = [ontap EXCEPT !.engine = address[i]]
  BY DEF WriteEngine, WriteRefused, Raise
<1>7. phase[i] = "write" => address[i] \in Tasks
  BY DEF UpdaterTypeOK
<1> QED BY <1>5, <1>6, <1>7

(* What the script relies on survives the updater.                         *)
LEMMA UpdaterInv == ASSUME ConfigureInv, UpdaterStep PROVE ConfigureInv'
<1>1. UpdaterTypeOK /\ Active \in BOOLEAN
  BY DEF ConfigureInv, TypeOK, Active
<1>2. /\ UpdaterTypeOK'
      /\ ontap' = ontap \/ \E a \in Tasks : ontap' = [ontap EXCEPT !.engine = a]
  <2>1. CASE EcsNext
    BY <1>1, <2>1, EcsType
  <2>2. CASE \E i \in Invocations : Invoke(i, Active) \/ List(i) \/ FindEngine(i)
    BY <1>1, <2>2, InvokeType, ListType, FindType
  <2>3. CASE \E i \in Invocations : WriteEngine(i) \/ WriteRefused(i) \/ Raise(i)
    BY <1>1, <2>3, WriteType
  <2> QED BY <2>1, <2>2, <2>3 DEF UpdaterStep, UpdaterNext
<1> QED BY <1>2, EngineOnly DEF UpdaterStep

(* Stuttering steps.                                                       *)
LEMMA StutterInv == ASSUME ConfigureInv, UNCHANGED vars PROVE ConfigureInv'
<1> USE DEF vars, updaterVars, ecsVars, invocations, configureVars
<1>1. UpdaterTypeOK'
  BY DEF ConfigureInv, TypeOK, UpdaterTypeOK
<1>2. troubled' = (troubled \/ (Active /\ ontap.engine = NoAddress /\ ontap'.engine # NoAddress))
  BY DEF ConfigureInv, TypeOK
<1> QED BY <1>1, <1>2, EngineOnly

(* Every step preserves the invariant.                                     *)
LEMMA NextInv == ConfigureInv /\ [Next]_vars => ConfigureInv'
<1> SUFFICES ASSUME ConfigureInv, [Next]_vars PROVE ConfigureInv'
  OBVIOUS
<1>1. CASE StartRun \/ Check \/ FindPolicy \/ FindEvent \/ FindEngineAgain
  BY <1>1, StartRunInv, CheckInv, FindPolicyInv, FindEventInv, FindEngineAgainInv
<1>2. CASE DisablePolicy \/ DeletePolicy \/ DeleteEvent \/ DeleteEngine
  BY <1>2, DisablePolicyInv, DeletePolicyInv, DeleteEventInv, DeleteEngineInv
<1>3. CASE CreateEngine \/ CreateEvent \/ CreatePolicy \/ EnablePolicy
  BY <1>3, CreateEngineInv, CreateEventInv, CreatePolicyInv, EnablePolicyInv
<1>4. CASE UpdaterStep
  BY <1>4, UpdaterInv
<1>5. CASE UNCHANGED vars
  BY <1>5, StutterInv
<1> QED BY <1>1, <1>2, <1>3, <1>4, <1>5 DEF Next, ConfigureNext

(* The invariant holds in every reachable state.                           *)
THEOREM AlwaysConfigureInv == Spec => []ConfigureInv
BY InitInv, NextInv, PTL DEF Spec

(* Every variable has its type; a policy always has its engine and its     *)
(* event, and an invocation that looks for the engine has an address.      *)
THEOREM ConfigureTypeOK == Spec => []TypeOK
<1>1. ConfigureInv => TypeOK
  BY DEF ConfigureInv
<1> QED BY <1>1, AlwaysConfigureInv, PTL

(* A run that exits with 0 has left a complete configuration, enabled      *)
(* unless it was told not to.                                              *)
THEOREM ExitZeroConfigured == Spec => []ExitZeroMeansConfigured
<1>1. ConfigureInv => ExitZeroMeansConfigured
  BY DEF ConfigureInv
<1> QED BY <1>1, AlwaysConfigureInv, PTL

(* A run fails only if one of its own calls did, or the updater created    *)
(* the engine in the middle of it.                                         *)
THEOREM FailuresHaveCauses == Spec => []RunsFailOnlyForACause
<1>1. ConfigureInv => RunsFailOnlyForACause
  BY DEF ConfigureInv, Untroubled, RunsFailOnlyForACause
<1> QED BY <1>1, AlwaysConfigureInv, PTL

-----------------------------------------------------------------------------
(* The address of the engine: as long as there was no cause, one program   *)
(* at a time changes it, and whatever it is about to write is the address  *)
(* of a task that runs or will, unless an event is still to be handled.    *)
Current == Running \cup In("pending")

EventWaits == \E n \in 0 .. MaxAttempts - 1 : waiting[n] > 0

Alone == (\A i, j \in Busy : i = j) /\ (Active => Busy = {})

UpToDate ==
  /\ \A i \in Busy : address[i] \in Current
  /\ Busy = {} => ontap.engine \in Current \cup {NoAddress}
  /\ Active => options.ip \in Current

AddressInv ==
  causes = {} =>
    /\ Alone
    /\ Running = {} \/ EventWaits \/ (\E i \in Invocations : phase[i] = "list") \/ UpToDate

(* Nothing is running at first.                                            *)
LEMMA InitAddress == Init => AddressInv
BY DEF Init, UpdaterInit, AddressInv, Alone, Busy, Active, Ended, Running, In

(* The script changes the engine to an address that is current, and starts *)
(* with one.                                                               *)
LEMMA ScriptAddress ==
  ASSUME ConfigureInv, AddressInv, ConfigureNext
  PROVE  AddressInv'
<1>1. UNCHANGED <<updaterVars>> /\ (causes' = {} => causes = {})
  BY DEF ConfigureNext, StartRun, Check, Find, FindPolicy, FindEvent, FindEngineAgain, Reads,
     DisablePolicy, DeletePolicy, DeleteEvent, DeleteEngine, CreateEngine, CreateEvent,
     CreatePolicy, EnablePolicy, Request, Blame
<1>2. /\ Busy' = Busy /\ Running' = Running /\ Current' = Current /\ EventWaits' = EventWaits
      /\ address' = address /\ phase' = phase
  BY <1>1 DEF updaterVars, ecsVars, invocations, Busy, Running, Current, In, EventWaits
<1>3. CASE StartRun
  <2>1. /\ ontap' = ontap /\ (causes' = {} => Busy = {})
    BY <1>3 DEF StartRun, Blame
  <2>2. options'.ip \in Running
    BY <1>3 DEF StartRun
  <2>3. Running \subseteq Current
    BY DEF Current
  <2> QED BY <1>1, <1>2, <2>1, <2>2, <2>3 DEF AddressInv, Alone, UpToDate
<1>4. CASE ~StartRun
  <2>1. Active /\ options' = options
    BY <1>4 DEF ConfigureNext, Check, Find, FindPolicy, FindEvent, FindEngineAgain, Reads,
       DisablePolicy, DeletePolicy, DeleteEvent, DeleteEngine, CreateEngine, CreateEvent,
       CreatePolicy, EnablePolicy, Request, Active, Ended
  <2>2. ontap'.engine \in {ontap.engine, NoAddress, options.ip}
    <3>1. ontap \in Ontap
      BY DEF ConfigureInv, TypeOK
    <3> QED BY <1>4, <3>1
      DEF ConfigureNext, Check, Find, FindPolicy, FindEvent, FindEngineAgain, Reads,
       DisablePolicy, DeletePolicy, DeleteEvent, DeleteEngine, CreateEngine, CreateEvent,
       CreatePolicy, EnablePolicy, Request, Ontap
  <2> QED BY <1>1, <1>2, <2>1, <2>2 DEF AddressInv, Alone, UpToDate
<1> QED BY <1>3, <1>4

(* A task that stops running leaves an event or a cause behind.            *)
LEMMA TaskAddress ==
  ASSUME ConfigureInv, AddressInv, EcsNext, UNCHANGED <<step, options, runs>>
  PROVE  AddressInv'
<1> PICK t \in Tasks : Launch(t) \/ Run(t) \/ FailToRun(t) \/ Drain(t) \/ Stop(t) \/ Crash(t)
  BY DEF EcsNext
<1>1. UpdaterTypeOK
  BY DEF ConfigureInv, TypeOK
<1>2. /\ UNCHANGED <<ontap, invocations>> /\ (causes' = {} => causes = {})
      /\ Active' = Active /\ Busy' = Busy
  BY DEF Launch, Run, FailToRun, Drain, Stop, Crash, Blame, Active, Busy, invocations
<1>3. Alone' = Alone
  BY <1>2 DEF Alone
<1>4. CASE Run(t) \/ Drain(t)
  <2>1. waiting \in [0 .. MaxAttempts - 1 -> Nat] /\ waiting' = [waiting EXCEPT ![0] = @ + 1]
    BY <1>1, <1>4 DEF UpdaterTypeOK, Run, Drain, Raised
  <2>2. waiting'[0] > 0
    BY <2>1, FirstAttempt
  <2>3. EventWaits'
    BY <2>2, FirstAttempt DEF EventWaits
  <2> QED BY <1>2, <1>3, <2>3 DEF AddressInv
<1>5. CASE Launch(t) \/ Stop(t)
  <2>1. /\ waiting' = waiting /\ task[t] \in {"none", "draining"}
        /\ TaskGoes(t, "pending") \/ TaskGoes(t, "stopped")
    BY <1>5 DEF Launch, Stop
  <2>2. Running' = Running /\ In("pending") \subseteq In("pending")'
    BY <1>1, <2>1 DEF Running, In, TaskGoes, UpdaterTypeOK
  <2>3. Current \subseteq Current' /\ EventWaits' = EventWaits
    BY <2>1, <2>2 DEF Current, EventWaits
  <2> QED BY <1>2, <1>3, <2>2, <2>3 DEF AddressInv, UpToDate, invocations
<1>6. CASE FailToRun(t)
  <2>1. task[t] = "pending" /\ TaskGoes(t, "stopped") /\ (causes' = {} => Running = {})
    BY <1>6 DEF FailToRun, Blame
  <2>2. Running' = Running
    BY <1>1, <2>1 DEF Running, In, TaskGoes, UpdaterTypeOK
  <2> QED BY <1>2, <1>3, <2>1, <2>2 DEF AddressInv
<1>7. CASE Crash(t)
  <2>1. task[t] = "running" /\ TaskGoes(t, "stopped") /\ (causes' = {} => Running = {t})
    BY <1>7 DEF Crash, Blame
  <2>2. Running' = Running \ {t}
    BY <1>1, <2>1 DEF Running, In, TaskGoes, UpdaterTypeOK
  <2> QED BY <1>2, <1>3, <2>1, <2>2 DEF AddressInv
<1> QED BY <1>4, <1>5, <1>6, <1>7

(* An invocation takes its event over, reads a current address and writes  *)
(* it, or leaves a cause or the event behind.                              *)
LEMMA InvocationAddress ==
  ASSUME ConfigureInv, AddressInv, UNCHANGED <<step, options, runs>>, NEW i \in Invocations,
         Invoke(i, Active) \/ List(i) \/ FindEngine(i) \/ WriteEngine(i) \/ WriteRefused(i)
           \/ Raise(i)
  PROVE  AddressInv'
<1>1. UpdaterTypeOK
  BY DEF ConfigureInv, TypeOK
<1>2. task' = task /\ (causes' = {} => causes = {})
  BY DEF Invoke, List, FindEngine, WriteEngine, WriteRefused, Raise, ecsVars, Blame
<1>3. Active' = Active /\ Running' = Running /\ Current' = Current
  BY <1>2 DEF Active, Running, Current, In
<1>4. CASE Invoke(i, Active)
  <2>1. /\ phase' = [phase EXCEPT ![i] = "list"] /\ (causes' = {} => Busy = {} /\ ~Active)
    BY <1>4 DEF Invoke, Blame
  <2>2. phase'[i] = "list" /\ Busy' \subseteq Busy \cup {i}
    BY <1>1, <2>1 DEF UpdaterTypeOK, Busy
  <2> QED BY <1>2, <1>3, <2>1, <2>2 DEF AddressInv, Alone
<1>5. CASE List(i)
  <2>1. CASE Leave(i) /\ Blame("no address")
    BY <2>1 DEF AddressInv, Blame
  <2>2. CASE \E t \in Listed : /\ address' = [address EXCEPT ![i] = t]
                              /\ phase' = [phase EXCEPT ![i] = "find"]
                              /\ UNCHANGED <<attempt, found, causes>>
    <3>1. PICK t \in Listed : address' = [address EXCEPT ![i] = t]
      BY <2>2
    <3>2. t \in Current /\ address'[i] = t
      BY <1>1, <3>1 DEF Listed, Current, UpdaterTypeOK
    <3>3. phase[i] = "list" /\ phase' = [phase EXCEPT ![i] = "find"]
      BY <1>5, <2>2 DEF List
    <3>4. Busy' = Busy /\ i \in Busy
      BY <1>1, <3>3 DEF Busy, UpdaterTypeOK
    <3>5. Alone => UpToDate'
      BY <1>3, <3>2, <3>4 DEF Alone, UpToDate
    <3> QED BY <1>2, <1>3, <3>4, <3>5 DEF AddressInv, Alone
  <2> QED BY <1>5, <2>1, <2>2 DEF List
<1>6. CASE FindEngine(i)
  <2>1. /\ phase[i] = "find" /\ phase' = [phase EXCEPT ![i] = "write"]
        /\ UNCHANGED <<ontap, ecsVars, address>>
    BY <1>6 DEF FindEngine
  <2>2. Busy' = Busy /\ (\A j \in Invocations : phase[j] = "list" <=> phase'[j] = "list")
    BY <1>1, <2>1 DEF Busy, UpdaterTypeOK
  <2>3. EventWaits' = EventWaits
    BY <2>1 DEF EventWaits, ecsVars
  <2> QED BY <1>2, <1>3, <2>1, <2>2, <2>3 DEF AddressInv, Alone, UpToDate
<1>7. CASE WriteRefused(i)
  BY <1>7 DEF WriteRefused, AddressInv, Blame
<1>8. ASSUME Leave(i), phase[i] # "idle", causes = {}
      PROVE  Busy' = {} /\ Alone' /\ ~Active
  <2>1. Busy' = Busy \ {i} /\ i \in Busy
    BY <1>1, <1>8 DEF Busy, Leave, UpdaterTypeOK
  <2>2. Alone
    BY <1>8 DEF AddressInv
  <2> QED BY <1>3, <2>1, <2>2 DEF Alone
<1>9. CASE WriteEngine(i)
  <2> SUFFICES ASSUME causes' = {} PROVE AddressInv'
    BY DEF AddressInv
  <2>1. /\ phase[i] = "write" /\ ontap' = [ontap EXCEPT !.engine = address[i]] /\ Leave(i)
        /\ UNCHANGED ecsVars
    BY <1>9 DEF WriteEngine
  <2>2. Busy' = {} /\ Alone' /\ ~Active
    BY <1>2, <1>8, <2>1
  <2>3. ontap'.engine = address[i]
    BY <2>1 DEF ConfigureInv, TypeOK, Ontap
  <2>4. i \in Busy /\ \A j \in Busy : j = i
    BY <1>2, <2>1 DEF Busy, AddressInv, Alone
  <2>5. ~\E j \in Invocations : phase[j] = "list"
    BY <2>1, <2>4 DEF Busy
  <2>6. EventWaits' = EventWaits
    BY <2>1 DEF EventWaits, ecsVars
  <2> QED BY <1>2, <1>3, <2>2, <2>3, <2>4, <2>5, <2>6 DEF AddressInv, UpToDate
<1>10. CASE Raise(i)
  <2> SUFFICES ASSUME causes' = {} PROVE AddressInv'
    BY DEF AddressInv
  <2>1. /\ phase[i] # "idle" /\ Leave(i)
        /\ attempt[i] + 1 < MaxAttempts
        /\ waiting' = [waiting EXCEPT ![attempt[i] + 1] = @ + 1]
    BY <1>10 DEF Raise, Blame
  <2>2. attempt[i] \in 0 .. MaxAttempts - 1 /\ waiting \in [0 .. MaxAttempts - 1 -> Nat]
    BY <1>1 DEF UpdaterTypeOK
  <2>3. attempt[i] + 1 \in 0 .. MaxAttempts - 1
    BY <2>1, <2>2, FirstAttempt
  <2>4. waiting'[attempt[i] + 1] > 0
    BY <2>1, <2>2, <2>3
  <2>5. EventWaits'
    BY <2>3, <2>4 DEF EventWaits
  <2>6. Alone'
    BY <1>2, <1>8, <2>1
  <2> QED BY <2>5, <2>6 DEF AddressInv
<1> QED BY <1>4, <1>5, <1>6, <1>7, <1>9, <1>10

(* Every step keeps the address current, but for a cause.                  *)
LEMMA NextAddress == ConfigureInv /\ AddressInv /\ [Next]_vars => AddressInv'
<1> SUFFICES ASSUME ConfigureInv, AddressInv, [Next]_vars PROVE AddressInv'
  OBVIOUS
<1>1. CASE ConfigureNext
  BY <1>1, ScriptAddress
<1>2. CASE UpdaterStep
  <2>1. UNCHANGED <<step, options, runs>>
    BY <1>2 DEF UpdaterStep
  <2> QED BY <1>2, <2>1, TaskAddress, InvocationAddress DEF UpdaterStep, UpdaterNext
<1>3. CASE UNCHANGED vars
  BY <1>3 DEF vars, updaterVars, ecsVars, invocations, configureVars, AddressInv, Alone, UpToDate,
     Busy, Active, Running, Current, In, EventWaits
<1> QED BY <1>1, <1>2, <1>3 DEF Next

(* At rest, the engine has the address of a running task, or none: unless  *)
(* one of the causes came up.                                              *)
THEOREM EngineFollowsTasks == Spec => []StaleOnlyForACause
<1>1. ConfigureInv /\ AddressInv => StaleOnlyForACause
  <2> SUFFICES ASSUME ConfigureInv, AddressInv, AtRest, Running # {}, causes = {}
               PROVE  EngineIsCurrent
    BY DEF StaleOnlyForACause
  <2>1. DOMAIN waiting = 0 .. MaxAttempts - 1
    BY DEF ConfigureInv, TypeOK, UpdaterTypeOK
  <2>2. ~EventWaits /\ Busy = {} /\ In("pending") = {}
    BY <2>1 DEF AtRest, EventWaits
  <2>3. ~\E i \in Invocations : phase[i] = "list"
    BY <2>2 DEF Busy
  <2>4. UpToDate
    BY <2>2, <2>3 DEF AddressInv
  <2> QED BY <2>2, <2>4 DEF UpToDate, Current, EngineIsCurrent
<1>2. Spec => []AddressInv
  BY InitAddress, NextAddress, AlwaysConfigureInv, PTL DEF Spec
<1> QED BY <1>1, <1>2, AlwaysConfigureInv, PTL
=============================================================================
