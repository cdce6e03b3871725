------------------------------- MODULE EtlJobs -------------------------------
(***************************************************************************)
(* The two Glue jobs.  bronze_to_silver.py (here: etl) appends the new     *)
(* transactions and events to the silver layer, replaces the customers by  *)
(* the new ones, and commits its bookmark at the very end;                 *)
(* silver_to_gold.py (agg) rewrites the three reports from the silver      *)
(* layer.  Of each job one run exists at a time, and a run that fails is   *)
(* repeated once by Glue, as a run of its own (template.yaml: MaxRetries,  *)
(* MaxConcurrentRuns).                                                     *)
(***************************************************************************)
EXTENDS GlueCrawler

CONSTANTS
  Transactions, Customers, Events, \* the files of each table
  Pipelines,                       \* those who run run_etl_pipeline.py
  Nobody                           \* for a run that no script waits for

Appended == Transactions \cup Events
Reports == {"daily_summaries", "category_rollups", "customer_metrics"}

ASSUME JobsAssumption ==
  /\ Files = Appended \cup Customers
  /\ Transactions \cap Customers = {}
  /\ Transactions \cap Events = {}
  /\ Customers \cap Events = {}
  /\ Nobody \notin Pipelines

VARIABLES
  bookmark, \* the bronze files of committed runs
  silver,   \* of how many runs the silver layer holds rows of each file
  etl,      \* the run of bronze_to_silver, if there is one
  gold,     \* what each report is computed from
  agg,      \* the run of silver_to_gold, if there is one
  outcome,  \* JobRunState of the run each pipeline started last
  torn      \* history: how many runs that failed had written rows of each file

etlVars  == <<bookmark, silver, etl, torn>>
goldVars == <<gold, agg>>
jobVars  == <<etlVars, goldVars, outcome>>

Owners == Pipelines \cup {Nobody}
Writing == {"append transactions", "overwrite", "append events"}
EtlStages == {"transactions", "customers", "events", "commit"} \cup Writing
AggStages == {"read"} \cup Reports \cup {"commit"}
Ends == {"none", "SUCCEEDED", "FAILED"}

NoSilver == [f \in Files |-> 0]
NoReport == [f \in Transactions |-> 0]

EtlRun ==
  [stage : {"idle"} \cup EtlStages, owner : Owners, again : BOOLEAN,
   frame : SUBSET Files, read : SUBSET Files, last : Ends]

AggRun ==
  [stage : {"idle"} \cup AggStages, owner : Owners, again : BOOLEAN,
   input : [Transactions -> Nat], blind : BOOLEAN, mixed : BOOLEAN, last : Ends]

JobsTypeOK ==
  /\ bookmark \in SUBSET Files
  /\ silver \in [Files -> Nat]
  /\ torn \in [Files -> Nat]
  /\ etl \in EtlRun
  /\ gold \in [Reports -> [Transactions -> Nat]]
  /\ agg \in AggRun
  /\ outcome \in [Pipelines -> {"none", "RUNNING", "SUCCEEDED", "FAILED"}]

JobsInit ==
  /\ bookmark = {}
  /\ silver = NoSilver
  /\ torn = NoSilver
  /\ etl = [stage |-> "idle", owner |-> Nobody, again |-> FALSE, frame |-> {}, read |-> {},
            last |-> "none"]
  /\ gold = [r \in Reports |-> NoReport]
  /\ agg = [stage |-> "idle", owner |-> Nobody, again |-> FALSE, input |-> NoReport,
            blind |-> FALSE, mixed |-> FALSE, last |-> "none"]
  /\ outcome = [p \in Pipelines |-> "none"]

Tell(p, state) == outcome' = IF p = Nobody THEN outcome ELSE [outcome EXCEPT ![p] = state]

-----------------------------------------------------------------------------
(* bronze_to_silver.py                                                     *)

StartAnyway(p) ==  \* mutant: no limit of one run at a time
  /\ etl' = [etl EXCEPT !.stage = "transactions", !.owner = p, !.again = FALSE]
  /\ agg' = [agg EXCEPT !.mixed = TRUE]
  /\ Tell(p, "RUNNING")
  /\ UNCHANGED <<bookmark, silver, torn, gold>>

StartEtl(p) ==
  /\ etl.stage = "idle"
  /\ etl' = [etl EXCEPT !.stage = "transactions", !.owner = p, !.again = FALSE]
  /\ agg' = [agg EXCEPT !.mixed = TRUE]
  /\ Tell(p, "RUNNING")
  /\ UNCHANGED <<bookmark, silver, torn, gold>>

(* from_catalog() with a bookmark, which is taken to be one per file.      *)
NewFiles(table) == InCatalog(table \cap bronze) \ bookmark

(* Nothing new, nothing to do; otherwise .mode("append") of it begins.      *)
ProcessAppended(from, table, write, next) ==
  /\ etl.stage = from
  /\ etl' = [etl EXCEPT !.stage = IF NewFiles(table) = {} THEN next ELSE write,
                        !.frame = NewFiles(table)]
  /\ UNCHANGED <<bookmark, silver, torn, goldVars, outcome>>

ProcessTransactions ==
  ProcessAppended("transactions", Transactions, "append transactions", "customers")
ProcessEvents ==
  ProcessAppended("events", Events, "append events", "commit")

OverwriteAnyway ==  \* mutant: no return on an empty frame
  /\ etl.stage = "customers"
  /\ silver' = [f \in Files |-> IF f \in Customers THEN 0 ELSE silver[f]]
  /\ etl' = [etl EXCEPT !.stage = IF NewFiles(Customers) = {} THEN "events" ELSE "overwrite",
                        !.frame = NewFiles(Customers)]
  /\ UNCHANGED <<bookmark, torn, goldVars, outcome>>

(* .mode("overwrite") deletes what is there before it writes.              *)
ProcessCustomers ==
  /\ etl.stage = "customers"
  /\ IF NewFiles(Customers) = {}
     THEN etl' = [etl EXCEPT !.stage = "events"] /\ UNCHANGED silver
     ELSE /\ silver' = [f \in Files |-> IF f \in Customers THEN 0 ELSE silver[f]]
          /\ etl' = [etl EXCEPT !.stage = "overwrite", !.frame = NewFiles(Customers)]
  /\ UNCHANGED <<bookmark, torn, goldVars, outcome>>

AfterWrite == [x \in Writing |-> IF x = "append transactions" THEN "customers"
                                 ELSE IF x = "overwrite" THEN "events" ELSE "commit"]

(* Either write puts its part files into the target folder one by one: the *)
(* first rows of another file appear there.                                *)
WritePart(f) ==
  /\ etl.stage \in Writing
  /\ f \in etl.frame
  /\ silver' = [silver EXCEPT ![f] = @ + 1]
  /\ etl' = [etl EXCEPT !.stage = IF etl.frame = {f} THEN AfterWrite[@] ELSE @,
                        !.read = @ \cup {f}, !.frame = @ \ {f}]
  /\ UNCHANGED <<bookmark, torn, goldVars, outcome>>

CommitAll ==  \* mutant: the bookmark advances over everything that is there
  /\ etl.stage = "commit"
  /\ bookmark' = bookmark \cup bronze
  /\ etl' = [etl EXCEPT !.stage = "idle", !.owner = Nobody, !.again = FALSE,
                        !.read = {}, !.last = "SUCCEEDED"]
  /\ Tell(etl.owner, "SUCCEEDED")
  /\ UNCHANGED <<silver, torn, goldVars>>

(* job.commit()                                                            *)
CommitEtl ==
  /\ etl.stage = "commit"
  /\ bookmark' = bookmark \cup etl.read
  /\ etl' = [etl EXCEPT !.stage = "idle", !.owner = Nobody, !.again = FALSE,
                        !.read = {}, !.last = "SUCCEEDED"]
  /\ Tell(etl.owner, "SUCCEEDED")
  /\ UNCHANGED <<silver, torn, goldVars>>

(* An exception, the time limit of the job or its workers, in the middle   *)
(* of a write too: no part that was written is taken back, and Glue        *)
(* repeats the run, once.                                                  *)
EtlFails ==
  /\ etl.stage # "idle"
  /\ Fault
  /\ torn' = [f \in Files |-> IF f \in etl.read \cap Appended THEN torn[f] + 1 ELSE torn[f]]
  /\ etl' = [etl EXCEPT !.stage = IF etl.again THEN "idle" ELSE "transactions",
                        !.again = ~etl.again, !.owner = Nobody, !.frame = {}, !.read = {}, !.last = "FAILED"]
  /\ Tell(etl.owner, "FAILED")
  /\ UNCHANGED <<crawlVars, bookmark, silver, goldVars>>

-----------------------------------------------------------------------------
(* silver_to_gold.py                                                       *)

Fresh(p, again, last) ==
  [stage |-> "read", owner |-> p, again |-> again, input |-> NoReport, blind |-> FALSE,
   mixed |-> etl.stage # "idle", last |-> last]

StartAgg(p) ==
  /\ agg.stage = "idle"
  /\ agg' = Fresh(p, FALSE, agg.last)
  /\ Tell(p, "RUNNING")
  /\ UNCHANGED <<etlVars, gold>>

SilverTransactions == [f \in Transactions |-> silver[f]]

(* Without transactions there is nothing to aggregate.                     *)
AfterRead(input) == IF input = NoReport THEN "commit" ELSE "daily_summaries"

ReadSilver ==
  /\ agg.stage = "read"
  /\ agg' = [agg EXCEPT !.stage = AfterRead(SilverTransactions), !.input = SilverTransactions]
  /\ UNCHANGED <<etlVars, gold, outcome>>

(* "Failed to read transactions" is printed, and the run goes on without.  *)
ReadFails ==
  /\ agg.stage = "read"
  /\ Fault
  /\ agg' = [agg EXCEPT !.stage = AfterRead(NoReport), !.blind = TRUE]
  /\ UNCHANGED <<crawlVars, etlVars, gold, outcome>>

Following == [daily_summaries |-> "category_rollups", category_rollups |-> "customer_metrics",
              customer_metrics |-> "commit"]

WriteReport ==
  /\ agg.stage \in Reports
  /\ gold' = [gold EXCEPT ![agg.stage] = agg.input]
  /\ agg' = [agg EXCEPT !.stage = Following[agg.stage]]
  /\ UNCHANGED <<etlVars, outcome>>

CommitAgg ==
  /\ agg.stage = "commit"
  /\ agg' = [agg EXCEPT !.stage = "idle", !.owner = Nobody, !.again = FALSE,
                        !.input = NoReport, !.last = "SUCCEEDED"]
  /\ Tell(agg.owner, "SUCCEEDED")
  /\ UNCHANGED <<etlVars, gold>>

SkipReport ==  \* mutant: a report that cannot be written is skipped
  /\ agg.stage \in Reports
  /\ Fault
  /\ agg' = [agg EXCEPT !.stage = Following[agg.stage]]
  /\ UNCHANGED <<crawlVars, etlVars, gold, outcome>>

(* A report that is being replaced may be gone by then.                    *)
AggFails ==
  /\ agg.stage # "idle"
  /\ Fault
  /\ \/ UNCHANGED gold
     \/ agg.stage \in Reports /\ gold' = [gold EXCEPT ![agg.stage] = NoReport]
  /\ agg' = IF agg.again
            THEN [agg EXCEPT !.stage = "idle", !.owner = Nobody, !.again = FALSE,
                             !.input = NoReport, !.last = "FAILED"]
            ELSE Fresh(Nobody, TRUE, "FAILED")
  /\ Tell(agg.owner, "FAILED")
  /\ UNCHANGED <<crawlVars, etlVars>>

(* Nobody will read the state of the run of p; the run goes on.            *)
Unwatch(p) ==
  /\ etl' = IF etl.owner = p THEN [etl EXCEPT !.owner = Nobody] ELSE etl
  /\ agg' = IF agg.owner = p THEN [agg EXCEPT !.owner = Nobody] ELSE agg
  /\ UNCHANGED <<bookmark, silver, torn, gold, outcome>>

Working ==
  \/ ProcessTransactions
  \/ ProcessCustomers
  \/ \E f \in Files : WritePart(f)
  \/ ProcessEvents
  \/ CommitEtl
  \/ ReadSilver
  \/ WriteReport
  \/ CommitAgg

JobsNext ==
  \/ Working /\ UNCHANGED <<crawlVars, faults>>
  \/ EtlFails
  \/ ReadFails
  \/ AggFails
=============================================================================
