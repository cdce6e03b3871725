----------------------------- MODULE GluePipeline -----------------------------
(***************************************************************************)
(* integrations/glue/scripts/run_etl_pipeline.py: crawler, bronze to       *)
(* silver, silver to gold, each started and then polled until it ends or   *)
(* the script runs out of patience.  Several people may run it, and the    *)
(* schedule and run_crawler.py start the crawler as well.                  *)
(***************************************************************************)
EXTENDS EtlJobs

CONSTANTS MaxRuns \* bound on how often a script is started

ASSUME PipelineAssumption == MaxRuns \in Nat

VARIABLES
  stage,   \* where each script is
  seen,    \* history: the bronze files when it started its own crawl
  crawled, \* history: whether it started one
  runs

scripts == <<stage, seen, crawled, runs>>
vars == <<crawlVars, jobVars, faults, scripts>>

(* The job run a script waits for: its own, while it is in progress.       *)
Watches(p) ==
  /\ etl.owner = p => stage[p] = "silver"
  /\ agg.owner = p => stage[p] = "gold"
  /\ stage[p] \in {"silver", "gold"} =>
       (outcome[p] = "RUNNING" <=> p \in {etl.owner, agg.owner})

TypeOK ==
  /\ CrawlTypeOK
  /\ JobsTypeOK
  /\ stage \in [Pipelines -> {"idle", "start crawler", "crawler", "start silver", "silver",
                              "start gold", "gold", "succeeded", "failed"}]
  /\ seen \in [Pipelines -> SUBSET Files]
  /\ crawled \in [Pipelines -> BOOLEAN]
  /\ runs \in 0 .. MaxRuns
  /\ torn \in [Files -> 0 .. MaxFaults]
  /\ \A p \in Pipelines : Watches(p)

Init ==
  /\ CrawlInit
  /\ JobsInit
  /\ stage = [p \in Pipelines |-> "idle"]
  /\ seen = [p \in Pipelines |-> {}]
  /\ crawled = [p \in Pipelines |-> FALSE]
  /\ runs = 0

-----------------------------------------------------------------------------
Goes(p, to) == stage' = [stage EXCEPT ![p] = to]

(* main(), with --skip-crawler or without.                                 *)
Start(p, skip) ==
  /\ stage[p] \in {"idle", "succeeded", "failed"}
  /\ runs < MaxRuns
  /\ runs' = runs + 1
  /\ seen' = [seen EXCEPT ![p] = {}]
  /\ crawled' = [crawled EXCEPT ![p] = FALSE]
  /\ Goes(p, IF skip THEN "start silver" ELSE "start crawler")
  /\ UNCHANGED <<crawlVars, jobVars, faults>>

RunCrawler(p) ==
  /\ stage[p] = "start crawler"
  /\ StartCrawler
  /\ crawled' = [crawled EXCEPT ![p] = TRUE]
  /\ seen' = [seen EXCEPT ![p] = bronze]
  /\ Goes(p, "crawler")
  /\ UNCHANGED <<jobVars, runs>>

(* CrawlerRunningException: "already running, waiting".                    *)
JoinCrawler(p) ==
  /\ stage[p] = "start crawler"
  /\ crawler.state # "READY"
  /\ Goes(p, "crawler")
  /\ UNCHANGED <<crawlVars, jobVars, faults, seen, crawled, runs>>

AnyCrawlWillDo(p) ==  \* mutant: READY is enough
  /\ stage[p] = "crawler"
  /\ crawler.state = "READY"
  /\ Goes(p, "start silver")
  /\ UNCHANGED <<crawlVars, jobVars, faults, seen, crawled, runs>>

(* wait_for_crawler(): the last crawl counts, whoever started it.          *)
CrawlerReady(p) ==
  /\ stage[p] = "crawler"
  /\ crawler.state = "READY"
  /\ Goes(p, IF crawler.last = "SUCCEEDED" THEN "start silver" ELSE "failed")
  /\ UNCHANGED <<crawlVars, jobVars, faults, seen, crawled, runs>>

(* run_job(): start_job_run() ...                                          *)
RunBronzeToSilver(p) ==
  /\ stage[p] = "start silver"
  /\ StartEtl(p)
  /\ Goes(p, "silver")
  /\ UNCHANGED <<crawlVars, faults, seen, crawled, runs>>

RunSilverToGold(p) ==
  /\ stage[p] = "start gold"
  /\ StartAgg(p)
  /\ Goes(p, "gold")
  /\ UNCHANGED <<crawlVars, faults, seen, crawled, runs>>

(* ... ConcurrentRunsExceededException ...                                 *)
RunRefused(p) ==
  /\ \/ stage[p] = "start silver" /\ etl.stage # "idle"
     \/ stage[p] = "start gold" /\ agg.stage # "idle"
  /\ Goes(p, "failed")
  /\ UNCHANGED <<crawlVars, jobVars, faults, seen, crawled, runs>>

(* ... and the state of that run, and no other.                            *)
RunEnds(p) ==
  /\ stage[p] \in {"silver", "gold"}
  /\ outcome[p] \in {"SUCCEEDED", "FAILED"}
  /\ Goes(p, IF outcome[p] = "FAILED" THEN "failed"
             ELSE IF stage[p] = "silver" THEN "start gold" ELSE "succeeded")
  /\ UNCHANGED <<crawlVars, jobVars, faults, seen, crawled, runs>>

(* A timeout of 600 or 1800 seconds, or a call that raises.                *)
GiveUp(p) ==
  /\ stage[p] \notin {"idle", "succeeded", "failed"}
  /\ Fault
  /\ Unwatch(p)
  /\ Goes(p, "failed")
  /\ UNCHANGED <<crawlVars, seen, crawled, runs>>

(* run_crawler.py, or the schedule.                                        *)
OthersCrawl ==
  /\ runs < MaxRuns
  /\ runs' = runs + 1
  /\ StartCrawler
  /\ UNCHANGED <<jobVars, stage, seen, crawled>>

Next ==
  \/ CrawlNext /\ UNCHANGED <<jobVars, scripts>>
  \/ JobsNext /\ UNCHANGED scripts
  \/ OthersCrawl
  \/ \E p \in Pipelines :
       \/ \E skip \in BOOLEAN : Start(p, skip)
       \/ RunCrawler(p)
       \/ JoinCrawler(p)
       \/ CrawlerReady(p)
       \/ RunBronzeToSilver(p)
       \/ RunSilverToGold(p)
       \/ RunRefused(p)
       \/ RunEnds(p)
       \/ GiveUp(p)

Spec == Init /\ [][Next]_vars

-----------------------------------------------------------------------------
(* Rows of a transactions or events file are in the silver layer once for  *)
(* the committed run or the run in progress that wrote them, and once more *)
(* for each run that failed after that file had begun to arrive, in the    *)
(* middle of an append too (the bookmark is committed at the very end):    *)
(* nothing else repeats them, and no file of the bookmark was left out.    *)
SilverCountsRuns ==
  /\ \A f \in Appended :
       silver[f] = torn[f] + (IF f \in bookmark \cup etl.read THEN 1 ELSE 0)
  /\ bookmark \cap etl.read = {}

(* Each run replaces the customers by those of the new files alone; still, *)
(* between two runs the table is empty only if no customers were ever read *)
(* or the last run failed, perhaps after it had deleted the old ones.      *)
CustomersEmptyOnlyAfterFailure ==
  etl.stage = "idle" /\ etl.last # "FAILED" =>
    (\A f \in Customers : silver[f] = 0) = (bookmark \cap Customers = {})

(* After a run of silver_to_gold that succeeded and could read its input,  *)
(* the three reports tell of the same transactions, those of the silver    *)
(* layer if no run of bronze_to_silver has been there since it started.    *)
GoldMatchesSilver ==
  agg.stage = "idle" /\ agg.last = "SUCCEEDED" /\ ~agg.blind =>
    /\ \A r, s \in Reports : gold[r] = gold[s]
    /\ ~agg.mixed => \A r \in Reports : gold[r] = SilverTransactions

(* A pipeline that reports success after a crawl of its own brought every  *)
(* file that lay there when that crawl began into the silver layer, and    *)
(* every transaction into the reports: unless the aggregation could not    *)
(* read its input, or a later one failed.  Neither the polls of "the last  *)
(* crawl", nor the runs Glue repeats, nor the runs of others break that.   *)
SuccessCoversBronze ==
  \A p \in Pipelines :
    stage[p] = "succeeded" /\ crawled[p] =>
      /\ seen[p] \subseteq bookmark
      /\ agg.stage = "idle" /\ agg.last = "SUCCEEDED" /\ ~agg.blind =>
           \A f \in seen[p] \cap Transactions, r \in Reports : gold[r][f] > 0
=============================================================================
