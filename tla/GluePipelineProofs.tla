-------------------------- MODULE GluePipelineProofs --------------------------
(***************************************************************************)
(* Theorems about GluePipeline, for every set of files, folders and        *)
(* pipelines and any bounds: what the silver layer counts, when the        *)
(* customers may be missing, what the reports are computed from, and what  *)
(* a pipeline that reports success has brought there.                      *)
(***************************************************************************)
EXTENDS GluePipeline, TLAPS

(* A run reads only what is new, table after table, and while it writes a  *)
(* table it has some of its files still to write; every failed run had its *)
(* fault.                                                                  *)
EtlInv ==
  /\ etl.stage = "idle" => etl.owner = Nobody
  /\ etl.stage \in {"idle", "transactions"} => etl.read = {}
  /\ etl.stage \in {"append transactions", "customers"} => etl.read \subseteq Transactions
  /\ etl.stage \in {"overwrite", "events"} => etl.read \subseteq Transactions \cup Customers
  /\ etl.stage = "append transactions" => etl.frame \subseteq Transactions
  /\ etl.stage = "overwrite" => etl.frame \subseteq Customers
  /\ etl.stage = "append events" => etl.frame \subseteq Events
  /\ etl.stage \in Writing <=> etl.frame # {}
  /\ etl.read \cap etl.frame = {}
  /\ (etl.read \cup etl.frame) \cap bookmark = {}
  /\ etl.read \cup etl.frame \subseteq InCatalog(bronze)
  /\ \A f \in Files : torn[f] <= faults
  /\ SilverCountsRuns

(* The customers table is empty just when none were read.                  *)
Settled(done) == (\A f \in Customers : silver[f] = 0) <=> done \cap Customers = {}

(* A run that fails while the table is unsettled leaves something new to   *)
(* read, so that the next one to come through settles it.                  *)
CustomersInv ==
  /\ etl.stage \in {"idle", "transactions", "append transactions", "customers"} =>
       Settled(bookmark) \/ NewFiles(Customers) # {}
  /\ etl.stage \in {"events", "append events", "commit"} => Settled(bookmark \cup etl.read)
  /\ etl.stage = "idle" /\ etl.last # "FAILED" => Settled(bookmark)

(* What the reports are computed from never exceeds the silver layer; they *)
(* are replaced one after the other; and no run of the other job is there  *)
(* unless mixed says so.                                                   *)
GoldInv ==
  /\ \A f \in Transactions : agg.input[f] <= silver[f]
  /\ \A f \in Transactions, r \in Reports : gold[r][f] <= silver[f]
  /\ agg.stage = "idle" => agg.input = NoReport /\ agg.owner = Nobody
  /\ agg.stage \in {"read"} \cup Reports => ~agg.blind
  /\ agg.stage \in {"category_rollups", "customer_metrics"} =>
       gold["daily_summaries"] = agg.input
  /\ agg.stage = "customer_metrics" => gold["category_rollups"] = agg.input
  /\ agg.stage = "commit" /\ ~agg.blind => \A r \in Reports : gold[r] = agg.input
  /\ ~agg.mixed => etl.stage = "idle"
  /\ agg.stage \notin {"idle", "read"} /\ ~agg.blind /\ ~agg.mixed =>
       agg.input = SilverTransactions
  /\ GoldMatchesSilver

(* What a pipeline saw at its start, from the crawl to the bookmark.       *)
Crawling(p) ==
  /\ crawler.state = "STOPPING" => FoldersOf(seen[p]) \subseteq crawler.listed
  /\ crawler.state = "READY" /\ crawler.last = "SUCCEEDED" =>
       FoldersOf(seen[p]) \subseteq catalog

Loading(p) ==
  /\ etl.stage \notin {"idle", "transactions"} =>
       seen[p] \cap Transactions \subseteq bookmark \cup etl.read \cup etl.frame
  /\ etl.stage \in {"overwrite", "events", "append events", "commit"} =>
       seen[p] \cap Customers \subseteq bookmark \cup etl.read \cup etl.frame
  /\ etl.stage \in {"append events", "commit"} =>
       seen[p] \cap Events \subseteq bookmark \cup etl.read \cup etl.frame

Found(p) ==
  /\ stage[p] = "start crawler" => ~crawled[p]
  /\ crawled[p] =>
       /\ stage[p] = "crawler" => Crawling(p)
       /\ stage[p] \in {"start silver", "silver", "start gold", "gold", "succeeded"} =>
            FoldersOf(seen[p]) \subseteq catalog

Loaded(p) ==
  crawled[p] =>
    /\ stage[p] = "silver" /\ etl.owner = p => Loading(p)
    /\ stage[p] = "silver" /\ outcome[p] = "SUCCEEDED" => seen[p] \subseteq bookmark
    /\ stage[p] \in {"start gold", "gold", "succeeded"} => seen[p] \subseteq bookmark

SeenInv == \A p \in Pipelines : seen[p] \subseteq bronze /\ Found(p) /\ Loaded(p)

(* A pipeline whose aggregation runs or has succeeded is in the reports    *)
(* from then on, but for runs that could not read or have failed.          *)
Aggregated(p) ==
  /\ crawled[p]
  /\ \/ stage[p] = "succeeded"
     \/ stage[p] = "gold" /\ (outcome[p] = "SUCCEEDED" \/ agg.owner = p)

Reported(p) ==
  Aggregated(p) =>
    /\ agg.stage \notin {"idle", "read"} /\ ~agg.blind =>
         \A f \in seen[p] \cap Transactions : agg.input[f] > 0
    /\ agg.stage = "idle" /\ agg.last = "SUCCEEDED" /\ ~agg.blind =>
         \A f \in seen[p] \cap Transactions, r \in Reports : gold[r][f] > 0

ReportsInv == \A p \in Pipelines : Reported(p)

PipelineInv ==
  TypeOK /\ EtlInv /\ CustomersInv /\ GoldInv /\ SeenInv /\ ReportsInv

-----------------------------------------------------------------------------
(* The tables share no file.                                               *)
LEMMA Tables ==
  /\ Transactions \subseteq Files /\ Customers \subseteq Files /\ Events \subseteq Files
  /\ Files = Transactions \cup Events \cup Customers
  /\ Appended = Transactions \cup Events /\ Appended \subseteq Files
  /\ Transactions \cap Customers = {} /\ Transactions \cap Events = {}
  /\ Customers \cap Events = {} /\ Appended \cap Customers = {}
  /\ Nobody \notin Pipelines
  /\ FolderOf \in [Files -> Folders] /\ MaxFaults \in Nat /\ MaxRuns \in Nat
BY CrawlerAssumption, JobsAssumption, PipelineAssumption DEF Appended

(* A fault is counted within its bound, and so is a start.                 *)
LEMMA FaultCounted ==
  ASSUME TypeOK, Fault
  PROVE  /\ faults' \in 0 .. MaxFaults /\ faults \in Nat /\ faults' = faults + 1
         /\ \A f \in Files : torn[f] \in 0 .. MaxFaults
<1>1. faults \in 0 .. MaxFaults /\ \A f \in Files : torn[f] \in 0 .. MaxFaults
  BY DEF TypeOK, CrawlTypeOK
<1>2. faults < MaxFaults /\ faults' = faults + 1
  BY DEF Fault
<1> QED BY <1>1, <1>2, Tables

(* A fault elsewhere adds to no file's failed runs.                        *)
LEMMA TornStays ==
  ASSUME TypeOK, EtlInv, Fault, torn' = torn
  PROVE  \A f \in Files : torn'[f] <= faults'
<1>1. /\ faults \in Nat /\ faults' = faults + 1
      /\ \A f \in Files : torn[f] \in 0 .. MaxFaults
  BY FaultCounted
<1>2. \A f \in Files : torn[f] <= faults
  BY DEF EtlInv
<1>3. \A f \in Files : torn[f] \in Nat
  BY <1>1, Tables
<1> QED BY <1>1, <1>2, <1>3

(* The number of runs so far is within its bound.                          *)
LEMMA RunCounted ==
  ASSUME TypeOK, runs < MaxRuns
  PROVE  runs + 1 \in 0 .. MaxRuns
<1>1. runs \in 0 .. MaxRuns
  BY DEF TypeOK
<1> QED BY <1>1, Tables

(* What lies under bronze/ is files.                                       *)
LEMMA SeenFiles == TypeOK => bronze \in SUBSET Files
BY DEF TypeOK, CrawlTypeOK

(* More files are in more folders, all of them known ones.                 *)
LEMMA MoreFolders ==
  ASSUME NEW A, NEW B, A \subseteq B
  PROVE  FoldersOf(A) \subseteq FoldersOf(B)
BY DEF FoldersOf

(* The folders of files are folders.                                       *)
LEMMA KnownFolders ==
  ASSUME NEW A \in SUBSET Files
  PROVE  FoldersOf(A) \in SUBSET Folders
BY Tables DEF FoldersOf

(* The initial states satisfy the invariant: nothing is there yet.         *)
LEMMA InitInv == Init => PipelineInv
<1> SUFFICES ASSUME Init PROVE PipelineInv
  OBVIOUS
<1> USE DEF Init, CrawlInit, JobsInit
<1>1. TypeOK
  BY Tables DEF TypeOK, CrawlTypeOK, JobsTypeOK, EtlRun, AggRun, Watches, Owners, Reports, NoSilver,
       NoReport, Ends
<1>2. EtlInv
  BY Tables DEF EtlInv, Writing, SilverCountsRuns, NoSilver, InCatalog
<1>3. CustomersInv
  BY Tables DEF CustomersInv, Settled, NoSilver
<1>4. GoldInv
  BY Tables DEF GoldInv, GoldMatchesSilver, NoSilver, NoReport, Reports, SilverTransactions
<1>5. SeenInv
  BY DEF SeenInv, Found, Loaded
<1>6. ReportsInv
  BY DEF ReportsInv, Reported, Aggregated
<1> QED BY <1>1, <1>2, <1>3, <1>4, <1>5, <1>6 DEF PipelineInv

(* A new file is read by no run in progress.                               *)
LEMMA UploadInv ==
  ASSUME PipelineInv, NEW f \in Files, Upload(f), UNCHANGED <<jobVars, scripts>>
  PROVE  PipelineInv'
<1> USE DEF PipelineInv, Upload, jobVars, etlVars, goldVars, scripts
<1>1. TypeOK'
  <2>1. CrawlTypeOK'
    BY DEF TypeOK, CrawlTypeOK
  <2>2. JobsTypeOK'
    BY DEF TypeOK, JobsTypeOK
  <2> QED BY <2>1, <2>2 DEF TypeOK, Watches
<1>2. EtlInv'
  BY Tables DEF EtlInv, SilverCountsRuns, InCatalog
<1>3. CustomersInv'
  BY Tables DEF CustomersInv, Settled, NewFiles, InCatalog
<1>4. GoldInv'
  BY Tables DEF GoldInv, GoldMatchesSilver, SilverTransactions
<1>5. SeenInv'
  <2> SUFFICES ASSUME NEW q \in Pipelines
               PROVE  (seen[q] \subseteq bronze /\ Found(q) /\ Loaded(q))'
    BY DEF SeenInv
  <2>1. seen[q] \subseteq bronze /\ Found(q) /\ Loaded(q)
    BY DEF SeenInv
  <2>2. (seen[q] \subseteq bronze)'
    BY <2>1 DEF TypeOK, CrawlTypeOK
  <2>3. Found(q)'
    BY <2>1 DEF Found, Crawling, FoldersOf, TypeOK, CrawlTypeOK
  <2>4. Loaded(q)'
    BY <2>1 DEF Loaded, Loading, TypeOK, JobsTypeOK, EtlRun, AggRun, Owners
  <2> QED BY <2>2, <2>3, <2>4
<1>6. ReportsInv'
  <2> SUFFICES ASSUME NEW q \in Pipelines PROVE Reported(q)'
    BY DEF ReportsInv
  <2>1. Reported(q) /\ Loaded(q)
    BY DEF ReportsInv, SeenInv
  <2> QED BY <2>1 DEF Reported, Aggregated, TypeOK, JobsTypeOK, EtlRun, AggRun, Owners
<1> QED BY <1>1, <1>2, <1>3, <1>4, <1>5, <1>6

(* The listing sees whatever a pipeline saw.                               *)
LEMMA ListFoldersInv ==
  ASSUME PipelineInv, ListFolders, UNCHANGED <<jobVars, scripts>>
  PROVE  PipelineInv'
<1> USE DEF PipelineInv, ListFolders, jobVars, etlVars, goldVars, scripts
<1>1. TypeOK'
  <2>1. CrawlTypeOK'
    <3>0. FoldersOf(bronze) \in SUBSET Folders
      BY KnownFolders DEF TypeOK, CrawlTypeOK
    <3>1. (faults \in 0 .. MaxFaults)'
      BY DEF TypeOK, CrawlTypeOK
    <3>2. (crawler \in [state : {"READY", "RUNNING", "STOPPING"},
                      last : {"UNKNOWN", "SUCCEEDED", "FAILED"}, listed : SUBSET Folders])'
      BY <3>0 DEF TypeOK, CrawlTypeOK
    <3>3. (bronze \in SUBSET Files /\ catalog \in SUBSET Folders)'
      BY DEF TypeOK, CrawlTypeOK
    <3> QED BY <3>1, <3>2, <3>3 DEF CrawlTypeOK
  <2>2. JobsTypeOK'
    BY DEF TypeOK, JobsTypeOK
  <2> QED BY <2>1, <2>2 DEF TypeOK, Watches
<1>2. EtlInv'
  BY Tables DEF EtlInv, SilverCountsRuns, InCatalog
<1>3. CustomersInv'
  BY Tables DEF CustomersInv, Settled, NewFiles, InCatalog
<1>4. GoldInv'
  BY Tables DEF GoldInv, GoldMatchesSilver, SilverTransactions
<1>5. SeenInv'
  <2> SUFFICES ASSUME NEW q \in Pipelines
               PROVE  (seen[q] \subseteq bronze /\ Found(q) /\ Loaded(q))'
    BY DEF SeenInv
  <2>1. seen[q] \subseteq bronze /\ Found(q) /\ Loaded(q)
    BY DEF SeenInv
  <2>2. (seen[q] \subseteq bronze)'
    BY <2>1 DEF TypeOK, CrawlTypeOK
  <2>3. Found(q)'
    BY <2>1, MoreFolders DEF Found, Crawling, TypeOK, CrawlTypeOK
  <2>4. Loaded(q)'
    BY <2>1 DEF Loaded, Loading, TypeOK, JobsTypeOK, EtlRun, AggRun, Owners
  <2> QED BY <2>2, <2>3, <2>4
<1>6. ReportsInv'
  <2> SUFFICES ASSUME NEW q \in Pipelines PROVE Reported(q)'
    BY DEF ReportsInv
  <2>1. Reported(q) /\ Loaded(q)
    BY DEF ReportsInv, SeenInv
  <2> QED BY <2>1 DEF Reported, Aggregated, TypeOK, JobsTypeOK, EtlRun, AggRun, Owners
<1> QED BY <1>1, <1>2, <1>3, <1>4, <1>5, <1>6

(* The catalogue only grows.                                               *)
LEMMA CrawlSucceedsInv ==
  ASSUME PipelineInv, CrawlSucceeds, UNCHANGED <<jobVars, scripts>>
  PROVE  PipelineInv'
<1> USE DEF PipelineInv, CrawlSucceeds, jobVars, etlVars, goldVars, scripts
<1>1. TypeOK'
  BY Tables DEF TypeOK, CrawlTypeOK, JobsTypeOK, Watches
<1>2. EtlInv'
  BY Tables DEF EtlInv, SilverCountsRuns, InCatalog
<1>3. CustomersInv'
  BY Tables DEF CustomersInv, Settled, NewFiles, InCatalog
<1>4. GoldInv'
  BY Tables DEF GoldInv, GoldMatchesSilver, SilverTransactions
<1>5. SeenInv'
  <2> SUFFICES ASSUME NEW q \in Pipelines
               PROVE  (seen[q] \subseteq bronze /\ Found(q) /\ Loaded(q))'
    BY DEF SeenInv
  <2>1. seen[q] \subseteq bronze /\ Found(q) /\ Loaded(q)
    BY DEF SeenInv
  <2>2. (seen[q] \subseteq bronze)'
    BY <2>1 DEF TypeOK, CrawlTypeOK
  <2>3. Found(q)'
    BY <2>1 DEF Found, Crawling, FoldersOf, TypeOK, CrawlTypeOK
  <2>4. Loaded(q)'
    BY <2>1 DEF Loaded, Loading, TypeOK, JobsTypeOK, EtlRun, AggRun, Owners
  <2> QED BY <2>2, <2>3, <2>4
<1>6. ReportsInv'
  <2> SUFFICES ASSUME NEW q \in Pipelines PROVE Reported(q)'
    BY DEF ReportsInv
  <2>1. Reported(q) /\ Loaded(q)
    BY DEF ReportsInv, SeenInv
  <2> QED BY <2>1 DEF Reported, Aggregated, TypeOK, JobsTypeOK, EtlRun, AggRun, Owners
<1> QED BY <1>1, <1>2, <1>3, <1>4, <1>5, <1>6

(* A crawl that fails leaves the catalogue alone.                          *)
LEMMA CrawlFailsInv ==
  ASSUME PipelineInv, CrawlFails, UNCHANGED <<jobVars, scripts>>
  PROVE  PipelineInv'
<1> USE DEF PipelineInv, CrawlFails, Fault, jobVars, etlVars, goldVars, scripts
<1>1. TypeOK'
  <2>1. CrawlTypeOK'
    <3>1. (faults \in 0 .. MaxFaults)'
      BY FaultCounted
    <3>2. (crawler \in [state : {"READY", "RUNNING", "STOPPING"},
                      last : {"UNKNOWN", "SUCCEEDED", "FAILED"}, listed : SUBSET Folders])'
      BY DEF TypeOK, CrawlTypeOK
    <3>3. (bronze \in SUBSET Files /\ catalog \in SUBSET Folders)'
      BY DEF TypeOK, CrawlTypeOK
    <3> QED BY <3>1, <3>2, <3>3 DEF CrawlTypeOK
  <2>2. JobsTypeOK'
    BY DEF TypeOK, JobsTypeOK
  <2> QED BY <2>1, <2>2 DEF TypeOK, Watches
<1>2. EtlInv'
  <2>1. \A f \in Files : torn'[f] <= faults'
    <3>1. torn' = torn
      OBVIOUS
    <3> QED BY <3>1, TornStays
  <2> QED BY <2>1 DEF EtlInv, SilverCountsRuns, InCatalog
<1>3. CustomersInv'
  BY Tables DEF CustomersInv, Settled, NewFiles, InCatalog
<1>4. GoldInv'
  BY Tables DEF GoldInv, GoldMatchesSilver, SilverTransactions
<1>5. SeenInv'
  <2> SUFFICES ASSUME NEW q \in Pipelines
               PROVE  (seen[q] \subseteq bronze /\ Found(q) /\ Loaded(q))'
    BY DEF SeenInv
  <2>1. seen[q] \subseteq bronze /\ Found(q) /\ Loaded(q)
    BY DEF SeenInv
  <2>2. (seen[q] \subseteq bronze)'
    BY <2>1 DEF TypeOK, CrawlTypeOK
  <2>3. Found(q)'
    BY <2>1 DEF Found, Crawling, FoldersOf, TypeOK, CrawlTypeOK
  <2>4. Loaded(q)'
    BY <2>1 DEF Loaded, Loading, TypeOK, JobsTypeOK, EtlRun, AggRun, Owners
  <2> QED BY <2>2, <2>3, <2>4
<1>6. ReportsInv'
  <2> SUFFICES ASSUME NEW q \in Pipelines PROVE Reported(q)'
    BY DEF ReportsInv
  <2>1. Reported(q) /\ Loaded(q)
    BY DEF ReportsInv, SeenInv
  <2> QED BY <2>1 DEF Reported, Aggregated, TypeOK, JobsTypeOK, EtlRun, AggRun, Owners
<1> QED BY <1>1, <1>2, <1>3, <1>4, <1>5, <1>6

(* A crawl of others: the pipelines that wait wait for it as well.         *)
LEMMA OthersCrawlInv ==
  ASSUME PipelineInv, OthersCrawl
  PROVE  PipelineInv'
<1> USE DEF PipelineInv, OthersCrawl, StartCrawler, jobVars, etlVars, goldVars
<1>1. TypeOK'
  <2>1. CrawlTypeOK'
    BY CrawlerAssumption DEF TypeOK, CrawlTypeOK
  <2>2. JobsTypeOK'
    BY DEF TypeOK, JobsTypeOK
  <2> QED BY <2>1, <2>2, RunCounted DEF TypeOK, Watches
<1>2. EtlInv'
  BY Tables DEF EtlInv, SilverCountsRuns, InCatalog
<1>3. CustomersInv'
  BY Tables DEF CustomersInv, Settled, NewFiles, InCatalog
<1>4. GoldInv'
  BY Tables DEF GoldInv, GoldMatchesSilver, SilverTransactions
<1>5. SeenInv'
  <2> SUFFICES ASSUME NEW q \in Pipelines
               PROVE  (seen[q] \subseteq bronze /\ Found(q) /\ Loaded(q))'
    BY DEF SeenInv
  <2>1. seen[q] \subseteq bronze /\ Found(q) /\ Loaded(q)
    BY DEF SeenInv
  <2>2. (seen[q] \subseteq bronze)'
    BY <2>1 DEF TypeOK, CrawlTypeOK
  <2>3. Found(q)'
    BY <2>1 DEF Found, Crawling, FoldersOf, TypeOK, CrawlTypeOK
  <2>4. Loaded(q)'
    BY <2>1 DEF Loaded, Loading, TypeOK, JobsTypeOK, EtlRun, AggRun, Owners
  <2> QED BY <2>2, <2>3, <2>4
<1>6. ReportsInv'
  <2> SUFFICES ASSUME NEW q \in Pipelines PROVE Reported(q)'
    BY DEF ReportsInv
  <2>1. Reported(q) /\ Loaded(q)
    BY DEF ReportsInv, SeenInv
  <2> QED BY <2>1 DEF Reported, Aggregated, TypeOK, JobsTypeOK, EtlRun, AggRun, Owners
<1> QED BY <1>1, <1>2, <1>3, <1>4, <1>5, <1>6

(* What was seen at the start is there to be listed.                       *)
LEMMA RunCrawlerInv ==
  ASSUME PipelineInv, NEW p \in Pipelines, RunCrawler(p)
  PROVE  PipelineInv'
<1> USE DEF PipelineInv, RunCrawler, StartCrawler, Goes, jobVars, etlVars, goldVars
<1>1. TypeOK'
  BY Tables, ZenonT(40) DEF TypeOK, CrawlTypeOK, JobsTypeOK, Watches
<1>2. EtlInv'
  BY Tables DEF EtlInv, SilverCountsRuns, InCatalog
<1>3. CustomersInv'
  BY Tables DEF CustomersInv, Settled, NewFiles, InCatalog
<1>4. GoldInv'
  BY Tables, ZenonT(40) DEF GoldInv, GoldMatchesSilver, SilverTransactions
<1>5. SeenInv'
  <2> SUFFICES ASSUME NEW q \in Pipelines
               PROVE  (seen[q] \subseteq bronze /\ Found(q) /\ Loaded(q))'
    BY DEF SeenInv
  <2>1. seen[q] \subseteq bronze /\ Found(q) /\ Loaded(q)
    BY DEF SeenInv
  <2>2. (seen[q] \subseteq bronze)'
    BY <2>1 DEF TypeOK, CrawlTypeOK
  <2>3. Found(q)'
    BY <2>1 DEF Found, Crawling, FoldersOf, TypeOK, CrawlTypeOK
  <2>4. Loaded(q)'
    BY <2>1 DEF Loaded, Loading, TypeOK, JobsTypeOK, EtlRun, AggRun, Owners
  <2> QED BY <2>2, <2>3, <2>4
<1>6. ReportsInv'
  <2> SUFFICES ASSUME NEW q \in Pipelines PROVE Reported(q)'
    BY DEF ReportsInv
  <2>1. Reported(q) /\ Loaded(q)
    BY DEF ReportsInv, SeenInv
  <2> QED BY <2>1 DEF Reported, Aggregated, TypeOK, JobsTypeOK, EtlRun, AggRun, Owners
<1> QED BY <1>1, <1>2, <1>3, <1>4, <1>5, <1>6

(* A crawl that was joined is not one of its own.                          *)
LEMMA JoinCrawlerInv ==
  ASSUME PipelineInv, NEW p \in Pipelines, JoinCrawler(p)
  PROVE  PipelineInv'
<1> USE DEF PipelineInv, JoinCrawler, Goes, crawlVars, jobVars, etlVars, goldVars
<1>1. TypeOK'
  BY Tables, ZenonT(40) DEF TypeOK, CrawlTypeOK, JobsTypeOK, Watches
<1>2. EtlInv'
  BY Tables DEF EtlInv, SilverCountsRuns, InCatalog
<1>3. CustomersInv'
  BY Tables DEF CustomersInv, Settled, NewFiles, InCatalog
<1>4. GoldInv'
  BY Tables, ZenonT(40) DEF GoldInv, GoldMatchesSilver, SilverTransactions
<1>5. SeenInv'
  <2> SUFFICES ASSUME NEW q \in Pipelines
               PROVE  (seen[q] \subseteq bronze /\ Found(q) /\ Loaded(q))'
    BY DEF SeenInv
  <2>1. seen[q] \subseteq bronze /\ Found(q) /\ Loaded(q)
    BY DEF SeenInv
  <2>2. (seen[q] \subseteq bronze)'
    BY <2>1 DEF TypeOK, CrawlTypeOK
  <2>3. Found(q)'
    BY <2>1 DEF Found, Crawling, FoldersOf, TypeOK, CrawlTypeOK
  <2>4. Loaded(q)'
    BY <2>1 DEF Loaded, Loading, TypeOK, JobsTypeOK, EtlRun, AggRun, Owners
  <2> QED BY <2>2, <2>3, <2>4
<1>6. ReportsInv'
  <2> SUFFICES ASSUME NEW q \in Pipelines PROVE Reported(q)'
    BY DEF ReportsInv
  <2>1. Reported(q) /\ Loaded(q)
    BY DEF ReportsInv, SeenInv
  <2> QED BY <2>1 DEF Reported, Aggregated, TypeOK, JobsTypeOK, EtlRun, AggRun, Owners
<1> QED BY <1>1, <1>2, <1>3, <1>4, <1>5, <1>6

(* Only after a crawl that succeeded does the pipeline go on.              *)
LEMMA CrawlerReadyInv ==
  ASSUME PipelineInv, NEW p \in Pipelines, CrawlerReady(p)
  PROVE  PipelineInv'
<1> USE DEF PipelineInv, CrawlerReady, Goes, crawlVars, jobVars, etlVars, goldVars
<1>1. TypeOK'
  BY Tables, ZenonT(40) DEF TypeOK, CrawlTypeOK, JobsTypeOK, Watches
<1>2. EtlInv'
  BY Tables DEF EtlInv, SilverCountsRuns, InCatalog
<1>3. CustomersInv'
  BY Tables DEF CustomersInv, Settled, NewFiles, InCatalog
<1>4. GoldInv'
  BY Tables, ZenonT(40) DEF GoldInv, GoldMatchesSilver, SilverTransactions
<1>5. SeenInv'
  <2> SUFFICES ASSUME NEW q \in Pipelines
               PROVE  (seen[q] \subseteq bronze /\ Found(q) /\ Loaded(q))'
    BY DEF SeenInv
  <2>1. seen[q] \subseteq bronze /\ Found(q) /\ Loaded(q)
    BY DEF SeenInv
  <2>2. (seen[q] \subseteq bronze)'
    BY <2>1 DEF TypeOK, CrawlTypeOK
  <2>3. Found(q)'
    BY <2>1 DEF Found, Crawling, FoldersOf, TypeOK, CrawlTypeOK
  <2>4. Loaded(q)'
    BY <2>1 DEF Loaded, Loading, TypeOK, JobsTypeOK, EtlRun, AggRun, Owners
  <2> QED BY <2>2, <2>3, <2>4
<1>6. ReportsInv'
  <2> SUFFICES ASSUME NEW q \in Pipelines PROVE Reported(q)'
    BY DEF ReportsInv
  <2>1. Reported(q) /\ Loaded(q)
    BY DEF ReportsInv, SeenInv
  <2> QED BY <2>1 DEF Reported, Aggregated, TypeOK, JobsTypeOK, EtlRun, AggRun, Owners
<1> QED BY <1>1, <1>2, <1>3, <1>4, <1>5, <1>6

(* A start has no crawl of its own yet.                                    *)
LEMMA StartInv ==
  ASSUME PipelineInv, NEW p \in Pipelines, NEW skip \in BOOLEAN, Start(p, skip)
  PROVE  PipelineInv'
<1> USE DEF PipelineInv, Start, Goes, crawlVars, jobVars, etlVars, goldVars
<1>1. TypeOK'
  <2>1. CrawlTypeOK'
    BY CrawlerAssumption DEF TypeOK, CrawlTypeOK
  <2>2. JobsTypeOK'
    BY DEF TypeOK, JobsTypeOK
  <2> QED BY <2>1, <2>2, RunCounted, SeenFiles DEF TypeOK, Watches
<1>2. EtlInv'
  BY Tables DEF EtlInv, SilverCountsRuns, InCatalog
<1>3. CustomersInv'
  BY Tables DEF CustomersInv, Settled, NewFiles, InCatalog
<1>4. GoldInv'
  BY Tables, ZenonT(40) DEF GoldInv, GoldMatchesSilver, SilverTransactions
<1>5. SeenInv'
  <2> SUFFICES ASSUME NEW q \in Pipelines
               PROVE  (seen[q] \subseteq bronze /\ Found(q) /\ Loaded(q))'
    BY DEF SeenInv
  <2>1. seen[q] \subseteq bronze /\ Found(q) /\ Loaded(q)
    BY DEF SeenInv
  <2>2. (seen[q] \subseteq bronze)'
    BY <2>1 DEF TypeOK, CrawlTypeOK
  <2>3. Found(q)'
    BY <2>1 DEF Found, Crawling, FoldersOf, TypeOK, CrawlTypeOK
  <2>4. Loaded(q)'
    BY <2>1 DEF Loaded, Loading, TypeOK, JobsTypeOK, EtlRun, AggRun, Owners
  <2> QED BY <2>2, <2>3, <2>4
<1>6. ReportsInv'
  <2> SUFFICES ASSUME NEW q \in Pipelines PROVE Reported(q)'
    BY DEF ReportsInv
  <2>1. Reported(q) /\ Loaded(q)
    BY DEF ReportsInv, SeenInv
  <2> QED BY <2>1 DEF Reported, Aggregated, TypeOK, JobsTypeOK, EtlRun, AggRun, Owners
<1> QED BY <1>1, <1>2, <1>3, <1>4, <1>5, <1>6

(* A refusal ends the script alone.                                        *)
LEMMA RunRefusedInv ==
  ASSUME PipelineInv, NEW p \in Pipelines, RunRefused(p)
  PROVE  PipelineInv'
<1> USE DEF PipelineInv, RunRefused, Goes, crawlVars, jobVars, etlVars, goldVars
<1>1. TypeOK'
  BY Tables, ZenonT(40) DEF TypeOK, CrawlTypeOK, JobsTypeOK, Watches
<1>2. EtlInv'
  BY Tables DEF EtlInv, SilverCountsRuns, InCatalog
<1>3. CustomersInv'
  BY Tables DEF CustomersInv, Settled, NewFiles, InCatalog
<1>4. GoldInv'
  BY Tables DEF GoldInv, GoldMatchesSilver, SilverTransactions
<1>5. SeenInv'
  <2> SUFFICES ASSUME NEW q \in Pipelines
               PROVE  (seen[q] \subseteq bronze /\ Found(q) /\ Loaded(q))'
    BY DEF SeenInv
  <2>1. seen[q] \subseteq bronze /\ Found(q) /\ Loaded(q)
    BY DEF SeenInv
  <2>2. (seen[q] \subseteq bronze)'
    BY <2>1 DEF TypeOK, CrawlTypeOK
  <2>3. Found(q)'
    BY <2>1 DEF Found, Crawling, FoldersOf, TypeOK, CrawlTypeOK
  <2>4. Loaded(q)'
    BY <2>1 DEF Loaded, Loading, TypeOK, JobsTypeOK, EtlRun, AggRun, Owners
  <2> QED BY <2>2, <2>3, <2>4
<1>6. ReportsInv'
  <2> SUFFICES ASSUME NEW q \in Pipelines PROVE Reported(q)'
    BY DEF ReportsInv
  <2>1. Reported(q) /\ Loaded(q)
    BY DEF ReportsInv, SeenInv
  <2> QED BY <2>1 DEF Reported, Aggregated, TypeOK, JobsTypeOK, EtlRun, AggRun, Owners
<1> QED BY <1>1, <1>2, <1>3, <1>4, <1>5, <1>6

(* The state of its own run takes a pipeline on.                           *)
LEMMA RunEndsInv ==
  ASSUME PipelineInv, NEW p \in Pipelines, RunEnds(p)
  PROVE  PipelineInv'
<1> USE DEF PipelineInv, RunEnds, Goes, crawlVars, jobVars, etlVars, goldVars
<1>1. TypeOK'
  BY Tables DEF TypeOK, CrawlTypeOK, JobsTypeOK, Watches
<1>2. EtlInv'
  BY Tables DEF EtlInv, SilverCountsRuns, InCatalog
<1>3. CustomersInv'
  BY Tables DEF CustomersInv, Settled, NewFiles, InCatalog
<1>4. GoldInv'
  BY Tables, ZenonT(40) DEF GoldInv, GoldMatchesSilver, SilverTransactions
<1>5. SeenInv'
  <2> SUFFICES ASSUME NEW q \in Pipelines
               PROVE  (seen[q] \subseteq bronze /\ Found(q) /\ Loaded(q))'
    BY DEF SeenInv
  <2>1. seen[q] \subseteq bronze /\ Found(q) /\ Loaded(q)
    BY DEF SeenInv
  <2>2. (seen[q] \subseteq bronze)'
    BY <2>1 DEF TypeOK, CrawlTypeOK
  <2>3. Found(q)'
    BY <2>1 DEF Found, Crawling, FoldersOf, TypeOK, CrawlTypeOK
  <2>4. Loaded(q)'
    BY <2>1 DEF Loaded, Loading, TypeOK, JobsTypeOK, EtlRun, AggRun, Owners
  <2> QED BY <2>2, <2>3, <2>4
<1>6. ReportsInv'
  <2> SUFFICES ASSUME NEW q \in Pipelines PROVE Reported(q)'
    BY DEF ReportsInv
  <2>1. Reported(q) /\ Loaded(q)
    BY DEF ReportsInv, SeenInv
  <2> QED BY <2>1 DEF Reported, Aggregated, TypeOK, JobsTypeOK, EtlRun, AggRun, Owners
<1> QED BY <1>1, <1>2, <1>3, <1>4, <1>5, <1>6

(* The runs of a script that gives up go on.                               *)
LEMMA GiveUpInv ==
  ASSUME PipelineInv, NEW p \in Pipelines, GiveUp(p)
  PROVE  PipelineInv'
<1> USE DEF PipelineInv, GiveUp, Goes, Fault, Unwatch, crawlVars, jobVars, etlVars, goldVars
<1>1. TypeOK'
  <2>1. CrawlTypeOK'
    <3>1. (faults \in 0 .. MaxFaults)'
      BY FaultCounted
    <3>2. (crawler \in [state : {"READY", "RUNNING", "STOPPING"},
                      last : {"UNKNOWN", "SUCCEEDED", "FAILED"}, listed : SUBSET Folders])'
      BY DEF TypeOK, CrawlTypeOK
    <3>3. (bronze \in SUBSET Files /\ catalog \in SUBSET Folders)'
      BY DEF TypeOK, CrawlTypeOK
    <3> QED BY <3>1, <3>2, <3>3 DEF CrawlTypeOK
  <2>2. (etl \in EtlRun)' /\ (agg \in AggRun)'
    BY DEF TypeOK, JobsTypeOK, EtlRun, AggRun, Owners
  <2>3. JobsTypeOK'
    BY <2>2 DEF TypeOK, JobsTypeOK
  <2>4. (\A q \in Pipelines : Watches(q))'
    <3> SUFFICES ASSUME NEW q \in Pipelines PROVE Watches(q)'
      OBVIOUS
    <3>1. Watches(q) /\ Watches(p)
      BY DEF TypeOK
    <3>2. /\ etl.owner' = IF etl.owner = p THEN Nobody ELSE etl.owner
          /\ agg.owner' = IF agg.owner = p THEN Nobody ELSE agg.owner
      BY DEF TypeOK, JobsTypeOK, EtlRun, AggRun
    <3>3. stage'[p] = "failed" /\ (q # p => stage'[q] = stage[q])
      BY DEF TypeOK
    <3> QED BY <3>1, <3>2, <3>3, Tables DEF Watches
  <2> QED BY <2>1, <2>3, <2>4 DEF TypeOK
<1>2. EtlInv'
  <2>1. \A f \in Files : torn'[f] <= faults'
    <3>1. torn' = torn
      OBVIOUS
    <3> QED BY <3>1, TornStays
  <2>2. /\ etl'.stage = etl.stage /\ etl'.read = etl.read /\ etl'.frame = etl.frame
        /\ etl.owner = Nobody => etl'.owner = Nobody
    BY DEF TypeOK, JobsTypeOK, EtlRun
  <2>3. bookmark' = bookmark /\ silver' = silver /\ torn' = torn /\ bronze' = bronze /\ catalog' = catalog
    OBVIOUS
  <2> QED BY <2>1, <2>2, <2>3 DEF EtlInv, SilverCountsRuns, InCatalog
<1>3. CustomersInv'
  <2>1. /\ etl'.stage = etl.stage /\ etl'.read = etl.read /\ etl'.last = etl.last
    BY DEF TypeOK, JobsTypeOK, EtlRun
  <2>2. bookmark' = bookmark /\ silver' = silver /\ bronze' = bronze /\ catalog' = catalog
    OBVIOUS
  <2> QED BY <2>1, <2>2, Tables DEF CustomersInv, Settled, NewFiles, InCatalog
<1>4. GoldInv'
  BY Tables DEF GoldInv, GoldMatchesSilver, SilverTransactions
<1>5. SeenInv'
  <2> SUFFICES ASSUME NEW q \in Pipelines
               PROVE  (seen[q] \subseteq bronze /\ Found(q) /\ Loaded(q))'
    BY DEF SeenInv
  <2>1. seen[q] \subseteq bronze /\ Found(q) /\ Loaded(q)
    BY DEF SeenInv
  <2>2. (seen[q] \subseteq bronze)'
    BY <2>1 DEF TypeOK, CrawlTypeOK
  <2>3. Found(q)'
    BY <2>1 DEF Found, Crawling, FoldersOf, TypeOK, CrawlTypeOK
  <2>4. Loaded(q)'
    <3>1. etl.stage' = etl.stage /\ etl.read' = etl.read /\ etl.frame' = etl.frame
      BY DEF TypeOK, JobsTypeOK, EtlRun, AggRun
    <3>2. etl.owner' = q => etl.owner = q
      BY Tables DEF TypeOK, JobsTypeOK, EtlRun, AggRun
    <3>3. stage'[q] = stage[q] \/ stage'[q] = "failed"
      BY DEF TypeOK
    <3> QED BY <2>1, <3>1, <3>2, <3>3 DEF Loaded, Loading
  <2> QED BY <2>2, <2>3, <2>4
<1>6. ReportsInv'
  <2> SUFFICES ASSUME NEW q \in Pipelines PROVE Reported(q)'
    BY DEF ReportsInv
  <2>1. Reported(q) /\ Loaded(q)
    BY DEF ReportsInv, SeenInv
  <2> QED
    <3>1. agg.stage' = agg.stage /\ agg.input' = agg.input /\ agg.blind' = agg.blind
         /\ agg.last' = agg.last
      BY DEF TypeOK, JobsTypeOK, EtlRun, AggRun
    <3>2. agg.owner' = q => agg.owner = q
      BY Tables DEF TypeOK, JobsTypeOK, EtlRun, AggRun
    <3>3. stage'[q] = stage[q] \/ stage'[q] = "failed"
      BY DEF TypeOK
    <3> QED BY <2>1, <3>1, <3>2, <3>3 DEF Reported, Aggregated
<1> QED BY <1>1, <1>2, <1>3, <1>4, <1>5, <1>6

(* What the types say, field by field.                                     *)
LEMMA Fields ==
  ASSUME TypeOK
  PROVE  /\ bookmark \in SUBSET Files /\ bronze \in SUBSET Files
         /\ silver \in [Files -> Nat] /\ torn \in [Files -> Nat]
         /\ gold \in [Reports -> [Transactions -> Nat]]
         /\ outcome \in [Pipelines -> {"none", "RUNNING", "SUCCEEDED", "FAILED"}]
         /\ stage \in [Pipelines -> {"idle", "start crawler", "crawler", "start silver", "silver",
                                     "start gold", "gold", "succeeded", "failed"}]
         /\ etl.stage \in {"idle"} \cup EtlStages /\ etl.owner \in Owners
         /\ etl.again \in BOOLEAN /\ etl.frame \in SUBSET Files
         /\ etl.read \in SUBSET Files /\ etl.last \in Ends
         /\ agg.stage \in {"idle"} \cup AggStages /\ agg.owner \in Owners
         /\ agg.again \in BOOLEAN /\ agg.input \in [Transactions -> Nat]
         /\ agg.blind \in BOOLEAN /\ agg.mixed \in BOOLEAN /\ agg.last \in Ends
<1>1. etl \in EtlRun /\ agg \in AggRun
  BY DEF TypeOK, JobsTypeOK
<1> QED BY <1>1 DEF TypeOK, JobsTypeOK, CrawlTypeOK, EtlRun, AggRun

(* What a step of bronze_to_silver.py has to keep of the types.            *)
LEMMA EtlStepType ==
  ASSUME TypeOK, UNCHANGED <<crawlVars, goldVars, scripts>>,
         faults' \in 0 .. MaxFaults, etl' \in EtlRun, bookmark' \in SUBSET Files,
         silver' \in [Files -> Nat], torn' \in [Files -> Nat],
         torn' \in [Files -> 0 .. MaxFaults],
         outcome' \in [Pipelines -> {"none", "RUNNING", "SUCCEEDED", "FAILED"}],
         \A p \in Pipelines : Watches(p)'
  PROVE  TypeOK'
<1>1. CrawlTypeOK'
  BY DEF TypeOK, CrawlTypeOK, crawlVars
<1>2. JobsTypeOK'
  BY DEF TypeOK, JobsTypeOK, goldVars
<1> QED BY <1>1, <1>2 DEF TypeOK, scripts

(* It may only add to what the reports are computed from; and it is one    *)
(* more reason for them to be behind.                                      *)
LEMMA EtlStepGold ==
  ASSUME PipelineInv, etl.stage # "idle", UNCHANGED goldVars,
         \A f \in Transactions : silver'[f] \in Nat /\ silver'[f] >= silver[f]
  PROVE  GoldInv'
<1>1. agg.mixed
  BY DEF PipelineInv, GoldInv
<1>2. /\ \A f \in Transactions : agg.input[f] \in Nat /\ silver[f] \in Nat
      /\ \A f \in Transactions, r \in Reports : gold[r][f] \in Nat
  <2>1. /\ agg.input \in [Transactions -> Nat] /\ silver \in [Files -> Nat]
        /\ gold \in [Reports -> [Transactions -> Nat]]
    BY Fields DEF PipelineInv
  <2> QED BY <2>1, Tables
<1>3. /\ \A f \in Transactions : agg.input[f] <= silver'[f]
      /\ \A f \in Transactions, r \in Reports : gold[r][f] <= silver'[f]
  BY <1>2 DEF PipelineInv, GoldInv
<1> QED BY <1>1, <1>3 DEF PipelineInv, GoldInv, GoldMatchesSilver, goldVars

(* It ends for its own pipeline only.                                      *)
LEMMA EtlStepReports ==
  ASSUME PipelineInv, UNCHANGED <<goldVars, scripts>>,
         \A p \in Pipelines : p # etl.owner => outcome'[p] = outcome[p]
  PROVE  ReportsInv'
<1> SUFFICES ASSUME NEW q \in Pipelines PROVE Reported(q)'
  BY DEF ReportsInv
<1>1. Reported(q) /\ Watches(q)
  BY DEF PipelineInv, ReportsInv, TypeOK
<1>2. stage[q] = "gold" => outcome'[q] = outcome[q]
  BY <1>1 DEF Watches
<1> QED BY <1>1, <1>2 DEF Reported, Aggregated, goldVars, scripts

(* What was found stays found.                                             *)
LEMMA JobStepSeen ==
  ASSUME PipelineInv, UNCHANGED <<crawlVars, scripts>>, \A p \in Pipelines : Loaded(p)'
  PROVE  SeenInv'
<1> SUFFICES ASSUME NEW q \in Pipelines
             PROVE  (seen[q] \subseteq bronze /\ Found(q))'
  BY DEF SeenInv
<1>1. seen[q] \subseteq bronze /\ Found(q)
  BY DEF PipelineInv, SeenInv
<1> QED BY <1>1 DEF Found, Crawling, FoldersOf, crawlVars, scripts

(* What a pipeline saw of a table is new or has been read.                 *)
LEMMA SeenIsNew ==
  ASSUME PipelineInv, NEW p \in Pipelines, crawled[p],
         stage[p] \in {"start silver", "silver"}, NEW T \in SUBSET Files
  PROVE  seen[p] \cap T \subseteq bookmark \cup NewFiles(T)
<1>1. FoldersOf(seen[p]) \subseteq catalog /\ seen[p] \subseteq bronze
  BY DEF PipelineInv, SeenInv, Found
<1>2. \A f \in seen[p] : FolderOf[f] \in catalog
  BY <1>1 DEF FoldersOf
<1> QED BY <1>1, <1>2 DEF NewFiles, InCatalog

(* What is new to read of a table.                                         *)
LEMMA NewOf ==
  ASSUME TypeOK, NEW T \in SUBSET Files
  PROVE  /\ NewFiles(T) \subseteq T \ bookmark
         /\ NewFiles(T) \subseteq InCatalog(bronze)
BY DEF NewFiles, InCatalog

(* A step of bronze_to_silver.py between its start and its end: what it has *)
(* to keep, and what follows.                                              *)
LEMMA EtlGoesOn ==
  ASSUME PipelineInv, etl.stage # "idle",
         UNCHANGED <<crawlVars, goldVars, faults, scripts, bookmark, torn, outcome>>,
         etl' \in EtlRun, etl'.owner = etl.owner, silver' \in [Files -> Nat],
         \A f \in Transactions : silver'[f] >= silver[f],
         EtlInv', CustomersInv', \A p \in Pipelines : Loaded(p)'
  PROVE  PipelineInv'
<1>1. TypeOK'
  <2>1. \A q \in Pipelines : Watches(q)'
    BY ZenonT(40) DEF PipelineInv, TypeOK, Watches, goldVars, scripts
  <2>2. /\ faults' \in 0 .. MaxFaults /\ torn' \in [Files -> Nat]
        /\ torn' \in [Files -> 0 .. MaxFaults] /\ bookmark' \in SUBSET Files
        /\ outcome' \in [Pipelines -> {"none", "RUNNING", "SUCCEEDED", "FAILED"}]
    BY DEF PipelineInv, TypeOK, CrawlTypeOK, JobsTypeOK
  <2> QED BY <2>1, <2>2, EtlStepType DEF PipelineInv
<1>2. GoldInv'
  BY EtlStepGold, Tables
<1>3. SeenInv'
  BY JobStepSeen
<1>4. ReportsInv'
  BY EtlStepReports
<1> QED BY <1>1, <1>2, <1>3, <1>4 DEF PipelineInv

(* New transactions are read, if there are any.                            *)
LEMMA ProcessTransactionsInv ==
  ASSUME PipelineInv, ProcessTransactions, UNCHANGED <<crawlVars, faults, scripts>>
  PROVE  PipelineInv'
<1>1. TypeOK /\ EtlInv
  BY DEF PipelineInv
<1> DEFINE N == NewFiles(Transactions)
<1>2. /\ etl.stage = "transactions" /\ etl.read = {} /\ etl.frame = {}
      /\ UNCHANGED <<bookmark, silver, torn, goldVars, outcome>>
  BY <1>1 DEF ProcessTransactions, ProcessAppended, EtlInv, Writing
<1>3. etl' = [etl EXCEPT !.stage = IF N = {} THEN "customers" ELSE "append transactions",
                         !.frame = N]
  BY DEF ProcessTransactions, ProcessAppended
<1>4. /\ N \subseteq Transactions \ bookmark /\ N \subseteq InCatalog(bronze)
      /\ N \in SUBSET Files
  BY <1>1, NewOf, Tables
<1>5. crawled' = crawled /\ stage' = stage /\ seen' = seen
  BY DEF scripts
<1> HIDE DEF N
<1>6. /\ etl'.owner = etl.owner /\ etl'.read = {} /\ etl'.frame = N
      /\ N = {} => etl'.stage = "customers"
      /\ N # {} => etl'.stage = "append transactions"
  BY <1>1, <1>2, <1>3 DEF TypeOK, JobsTypeOK, EtlRun
<1>7. etl' \in EtlRun
  BY <1>1, <1>3, <1>4 DEF TypeOK, JobsTypeOK, EtlRun, EtlStages, Writing
<1>8. EtlInv'
  <2>1. SilverCountsRuns' /\ \A f \in Files : torn[f] <= faults
    BY <1>1, <1>2, <1>6 DEF EtlInv, SilverCountsRuns
  <2>2. N \subseteq Transactions /\ N \cap bookmark = {}
    BY <1>4
  <2> QED BY <1>2, <1>4, <1>6, <2>1, <2>2 DEF EtlInv, Writing, InCatalog, crawlVars
<1>9. CustomersInv'
  <2>1. Settled(bookmark)' = Settled(bookmark) /\ NewFiles(Customers)' = NewFiles(Customers)
    BY <1>2 DEF Settled, NewFiles, InCatalog, crawlVars
  <2>2. Settled(bookmark) \/ NewFiles(Customers) # {}
    BY <1>2 DEF PipelineInv, CustomersInv
  <2> QED BY <1>6, <2>1, <2>2 DEF CustomersInv
<1>10. ASSUME NEW q \in Pipelines PROVE Loaded(q)'
  <2>1. Loaded(q)
    BY DEF PipelineInv, SeenInv
  <2>2. crawled[q] /\ stage[q] = "silver" =>
          seen[q] \cap Transactions \subseteq bookmark \cup N
    BY SeenIsNew, Tables DEF N
  <2>3. etl'.stage \notin {"overwrite", "events", "append events", "commit"}
    BY <1>6
  <2> QED BY <1>2, <1>5, <1>6, <2>1, <2>2, <2>3 DEF Loaded, Loading
<1>11. \A f \in Transactions : silver'[f] >= silver[f]
  <2>1. \A f \in Transactions : silver[f] \in Nat
    BY <1>1, Fields, Tables
  <2> QED BY <1>2, <2>1
<1>12. silver' \in [Files -> Nat] /\ etl.stage # "idle"
  BY <1>1, <1>2, Fields
<1> QED BY <1>2, <1>6, <1>7, <1>8, <1>9, <1>10, <1>11, <1>12, EtlGoesOn

(* New events are read, if there are any.                                  *)
LEMMA ProcessEventsInv ==
  ASSUME PipelineInv, ProcessEvents, UNCHANGED <<crawlVars, faults, scripts>>
  PROVE  PipelineInv'
<1>1. TypeOK /\ EtlInv
  BY DEF PipelineInv
<1> DEFINE N == NewFiles(Events)
<1>2. /\ etl.stage = "events" /\ etl.read \subseteq Transactions \cup Customers
      /\ etl.frame = {} /\ etl.read \cap bookmark = {} /\ etl.read \subseteq InCatalog(bronze)
      /\ UNCHANGED <<bookmark, silver, torn, goldVars, outcome>>
  BY <1>1 DEF ProcessEvents, ProcessAppended, EtlInv, Writing
<1>3. etl' = [etl EXCEPT !.stage = IF N = {} THEN "commit" ELSE "append events", !.frame = N]
  BY DEF ProcessEvents, ProcessAppended
<1>4. /\ N \subseteq Events \ bookmark /\ N \subseteq InCatalog(bronze)
      /\ N \in SUBSET Files
  BY <1>1, NewOf, Tables
<1>5. crawled' = crawled /\ stage' = stage /\ seen' = seen
  BY DEF scripts
<1> HIDE DEF N
<1>6. /\ etl'.owner = etl.owner /\ etl'.read = etl.read /\ etl'.frame = N
      /\ N = {} => etl'.stage = "commit"
      /\ N # {} => etl'.stage = "append events"
  BY <1>1, <1>2, <1>3 DEF TypeOK, JobsTypeOK, EtlRun
<1>7. etl' \in EtlRun
  BY <1>1, <1>3, <1>4 DEF TypeOK, JobsTypeOK, EtlRun, EtlStages, Writing
<1>8. EtlInv'
  <2>1. SilverCountsRuns' /\ \A f \in Files : torn[f] <= faults
    BY <1>1, <1>2, <1>6 DEF EtlInv, SilverCountsRuns
  <2>2. N \subseteq Events /\ N \cap bookmark = {} /\ etl.read \cap N = {}
    BY <1>2, <1>4, Tables
  <2>3. N # {} <=> etl'.stage \in Writing
    BY <1>6 DEF Writing
  <2> QED BY <1>2, <1>4, <1>6, <2>1, <2>2, <2>3 DEF EtlInv, InCatalog, crawlVars
<1>9. CustomersInv'
  <2>1. Settled(bookmark \cup etl.read)
    BY <1>2 DEF PipelineInv, CustomersInv
  <2>2. Settled(bookmark \cup etl.read)'
    BY <1>2, <1>6, <2>1 DEF Settled
  <2> QED BY <1>6, <2>2 DEF CustomersInv
<1>10. ASSUME NEW q \in Pipelines PROVE Loaded(q)'
  <2>1. Loaded(q)
    BY DEF PipelineInv, SeenInv
  <2>2. crawled[q] /\ stage[q] = "silver" => seen[q] \cap Events \subseteq bookmark \cup N
    BY SeenIsNew, Tables DEF N
  <2> QED BY <1>2, <1>5, <1>6, <2>1, <2>2 DEF Loaded, Loading
<1>11. \A f \in Transactions : silver'[f] >= silver[f]
  <2>1. \A f \in Transactions : silver[f] \in Nat
    BY <1>1, Fields, Tables
  <2> QED BY <1>2, <2>1
<1>12. silver' \in [Files -> Nat] /\ etl.stage # "idle"
  BY <1>1, <1>2, Fields
<1> QED BY <1>2, <1>6, <1>7, <1>8, <1>9, <1>10, <1>11, <1>12, EtlGoesOn

(* Without new customers, the table stays; with some, it is emptied.       *)
LEMMA ProcessCustomersInv ==
  ASSUME PipelineInv, ProcessCustomers, UNCHANGED <<crawlVars, faults, scripts>>
  PROVE  PipelineInv'
<1>1. TypeOK /\ EtlInv
  BY DEF PipelineInv
<1>2. /\ etl.stage = "customers" /\ etl.read \subseteq Transactions /\ etl.frame = {}
      /\ etl.read \cap bookmark = {} /\ etl.read \subseteq InCatalog(bronze)
      /\ UNCHANGED <<bookmark, torn, goldVars, outcome>>
  BY <1>1 DEF ProcessCustomers, EtlInv, Writing
<1> DEFINE N == NewFiles(Customers)
<1>3. /\ N = {} => etl' = [etl EXCEPT !.stage = "events"] /\ silver' = silver
      /\ N # {} => /\ silver' = [f \in Files |-> IF f \in Customers THEN 0 ELSE silver[f]]
                   /\ etl' = [etl EXCEPT !.stage = "overwrite", !.frame = N]
  BY DEF ProcessCustomers
<1>4. N \subseteq Customers \ bookmark /\ N \subseteq InCatalog(bronze) /\ N \in SUBSET Files
  BY <1>1, NewOf, Tables
<1>5. crawled' = crawled /\ stage' = stage /\ seen' = seen
  BY DEF scripts
<1> HIDE DEF N
<1>6. /\ etl'.owner = etl.owner /\ etl'.read = etl.read /\ etl'.frame = N
      /\ N = {} => etl'.stage = "events"
      /\ N # {} => etl'.stage = "overwrite"
  BY <1>1, <1>2, <1>3 DEF TypeOK, JobsTypeOK, EtlRun
<1>7. etl' \in EtlRun
  BY <1>1, <1>3, <1>4 DEF TypeOK, JobsTypeOK, EtlRun, EtlStages, Writing
<1>8. /\ silver' \in [Files -> Nat]
      /\ \A f \in Files \ Customers : silver'[f] = silver[f]
  <2>0. silver \in [Files -> Nat] /\ Customers \subseteq Files
    BY <1>1, Fields, Tables
  <2>1. CASE N = {}
    BY <1>3, <2>0, <2>1
  <2>2. CASE N # {}
    BY <1>3, <2>0, <2>2
  <2> QED BY <2>1, <2>2
<1>9. EtlInv'
  <2>1. \A f \in Appended : silver'[f] = silver[f]
    BY <1>8, Tables
  <2>2. SilverCountsRuns' /\ \A f \in Files : torn[f] <= faults
    BY <1>1, <1>2, <1>6, <2>1 DEF EtlInv, SilverCountsRuns
  <2>3. N \subseteq Customers /\ N \cap bookmark = {} /\ etl.read \cap N = {}
    BY <1>2, <1>4, Tables
  <2>4. N # {} <=> etl'.stage \in Writing
    BY <1>6 DEF Writing
  <2> QED BY <1>2, <1>4, <1>6, <2>2, <2>3, <2>4 DEF EtlInv, InCatalog, crawlVars
<1>10. CustomersInv'
  <2>1. N = {} => Settled(bookmark \cup etl.read)'
    <3> SUFFICES ASSUME N = {} PROVE Settled(bookmark \cup etl.read)'
      OBVIOUS
    <3>1. Settled(bookmark)
      BY <1>2 DEF PipelineInv, CustomersInv, N
    <3>2. (bookmark \cup etl.read) \cap Customers = bookmark \cap Customers
      BY <1>2, Tables
    <3> QED BY <1>2, <1>3, <1>6, <3>1, <3>2 DEF Settled
  <2> QED BY <1>2, <1>6, <2>1 DEF CustomersInv
<1>11. ASSUME NEW q \in Pipelines PROVE Loaded(q)'
  <2>1. Loaded(q)
    BY DEF PipelineInv, SeenInv
  <2>2. crawled[q] /\ stage[q] = "silver" => seen[q] \cap Customers \subseteq bookmark \cup N
    BY SeenIsNew, Tables DEF N
  <2>3. etl'.stage \notin {"append events", "commit"}
    BY <1>6
  <2> QED BY <1>2, <1>5, <1>6, <2>1, <2>2, <2>3 DEF Loaded, Loading
<1>12. \A f \in Transactions : silver'[f] >= silver[f]
  <2>1. \A f \in Transactions : f \in Files \ Customers /\ silver[f] \in Nat
    BY <1>1, Fields, Tables
  <2> QED BY <1>8, <2>1
<1>13. etl.stage # "idle"
  BY <1>2
<1> QED BY <1>2, <1>6, <1>7, <1>8, <1>9, <1>10, <1>11, <1>12, <1>13, EtlGoesOn

(* The rows of a file arrive: it is counted for the run in progress.       *)
LEMMA WritePartInv ==
  ASSUME PipelineInv, NEW f \in Files, WritePart(f), UNCHANGED <<crawlVars, faults, scripts>>
  PROVE  PipelineInv'
<1>1. TypeOK /\ EtlInv
  BY DEF PipelineInv
<1>2. /\ etl.stage \in Writing /\ f \in etl.frame
      /\ silver' = [silver EXCEPT ![f] = @ + 1]
      /\ UNCHANGED <<bookmark, torn, goldVars, outcome>>
  BY DEF WritePart
<1> DEFINE to == IF etl.frame = {f} THEN AfterWrite[etl.stage] ELSE etl.stage
<1>3. etl' = [etl EXCEPT !.stage = to, !.read = etl.read \cup {f}, !.frame = etl.frame \ {f}]
  <2>1. etl.stage = etl.stage
    OBVIOUS
  <2> QED BY DEF WritePart
<1>4. /\ etl.stage = "append transactions" /\ etl.frame = {f} => to = "customers"
      /\ etl.stage = "overwrite" /\ etl.frame = {f} => to = "events"
      /\ etl.stage = "append events" /\ etl.frame = {f} => to = "commit"
      /\ etl.frame # {f} => to = etl.stage
  BY <1>2 DEF AfterWrite, Writing
<1>5. to \in EtlStages
  BY <1>2, <1>4 DEF EtlStages, Writing
<1>6. crawled' = crawled /\ stage' = stage /\ seen' = seen
  BY DEF scripts
<1> HIDE DEF to
<1>7. /\ etl'.owner = etl.owner /\ etl'.read = etl.read \cup {f}
      /\ etl'.frame = etl.frame \ {f} /\ etl'.stage = to
  BY <1>1, <1>3 DEF TypeOK, JobsTypeOK, EtlRun
<1>8. /\ etl.read \in SUBSET Files /\ etl.frame \in SUBSET Files
      /\ silver \in [Files -> Nat] /\ torn \in [Files -> Nat]
  BY <1>1, Fields
<1>9. etl' \in EtlRun
  BY <1>1, <1>3, <1>5, <1>8 DEF TypeOK, JobsTypeOK, EtlRun
<1>10. /\ silver' \in [Files -> Nat] /\ silver'[f] = silver[f] + 1
       /\ \A g \in Files : g # f => silver'[g] = silver[g]
       /\ \A g \in Files : silver[g] \in Nat /\ silver'[g] >= silver[g]
  BY <1>2, <1>8
<1>11. /\ f \notin bookmark /\ f \notin etl.read /\ f \in InCatalog(bronze)
       /\ etl'.read \cup etl'.frame = etl.read \cup etl.frame
       /\ etl.frame = {f} <=> etl'.frame = {}
  BY <1>1, <1>2, <1>7 DEF EtlInv
<1>12. SilverCountsRuns'
  <2>1. ASSUME NEW g \in Appended
        PROVE  silver'[g] = torn'[g] + (IF g \in bookmark' \cup etl'.read THEN 1 ELSE 0)
    <3>1. silver[g] = torn[g] + (IF g \in bookmark \cup etl.read THEN 1 ELSE 0) /\ g \in Files
      BY <1>1, Tables DEF EtlInv, SilverCountsRuns
    <3>2. CASE g = f
      BY <1>2, <1>7, <1>8, <1>10, <1>11, <3>1, <3>2
    <3>3. CASE g # f
      BY <1>2, <1>7, <1>10, <3>1, <3>3
    <3> QED BY <3>2, <3>3
  <2>2. bookmark' \cap etl'.read = {}
    BY <1>1, <1>2, <1>7, <1>11 DEF EtlInv
  <2> QED BY <2>1, <2>2 DEF SilverCountsRuns
<1>13. /\ etl.stage = "append transactions" => f \in Transactions
       /\ etl.stage = "overwrite" => f \in Customers
       /\ etl.stage = "append events" => f \in Events
  BY <1>1, <1>2 DEF EtlInv
<1>14. EtlInv'
  <2>1. \A g \in Files : torn'[g] <= faults'
    <3>1. \A g \in Files : torn[g] <= faults
      BY <1>1 DEF EtlInv
    <3> QED BY <1>2, <3>1
  <2>2. /\ (etl'.read \cup etl'.frame) \cap bookmark' = {}
        /\ etl'.read \cup etl'.frame \subseteq InCatalog(bronze)'
        /\ etl'.read \cap etl'.frame = {}
    BY <1>1, <1>2, <1>7, <1>11 DEF EtlInv, InCatalog, crawlVars
  <2>3. /\ etl.stage = "append transactions" =>
             etl'.read \subseteq Transactions /\ etl'.frame \subseteq Transactions
        /\ etl.stage = "overwrite" =>
             etl'.read \subseteq Transactions \cup Customers /\ etl'.frame \subseteq Customers
        /\ etl.stage = "append events" => etl'.frame \subseteq Events
    BY <1>1, <1>7, <1>13 DEF EtlInv
  <2>4. etl'.stage \in Writing <=> etl'.frame # {}
    BY <1>2, <1>4, <1>7, <1>11 DEF Writing
  <2>5. /\ etl'.stage \in {"append transactions", "customers"} => etl.stage = "append transactions"
        /\ etl'.stage \in {"overwrite", "events"} => etl.stage = "overwrite"
        /\ etl'.stage = "append events" => etl.stage = "append events"
        /\ etl'.stage \notin {"idle", "transactions"}
    BY <1>2, <1>4, <1>7 DEF Writing
  <2>6. /\ etl'.stage = "append transactions" => etl.stage = "append transactions"
        /\ etl'.stage = "overwrite" => etl.stage = "overwrite"
    BY <2>5, <1>2, <1>4, <1>7 DEF Writing
  <2> QED BY <1>12, <2>1, <2>2, <2>3, <2>4, <2>5, <2>6 DEF EtlInv
<1>15. CustomersInv'
  <2>1. CASE etl.stage = "append transactions"
    <3>1. etl'.stage \in {"append transactions", "customers"} /\ f \notin Customers
      BY <1>4, <1>7, <1>13, <2>1, Tables
    <3>2. Settled(bookmark)' = Settled(bookmark)
      BY <1>2, <1>10, <3>1, Tables DEF Settled
    <3>3. NewFiles(Customers)' = NewFiles(Customers)
      BY <1>2 DEF NewFiles, InCatalog, crawlVars
    <3>4. Settled(bookmark) \/ NewFiles(Customers) # {}
      BY <2>1 DEF PipelineInv, CustomersInv
    <3> QED BY <3>1, <3>2, <3>3, <3>4 DEF CustomersInv
  <2>2. CASE etl.stage = "overwrite"
    <3>1. etl'.stage \in {"overwrite", "events"} /\ f \in Customers
      BY <1>4, <1>7, <1>13, <2>2
    <3>2. silver'[f] # 0 /\ f \in bookmark' \cup etl'.read
      BY <1>7, <1>10
    <3>3. Settled(bookmark \cup etl.read)'
      BY <3>1, <3>2 DEF Settled
    <3> QED BY <3>1, <3>3 DEF CustomersInv
  <2>3. CASE etl.stage = "append events"
    <3>1. etl'.stage \in {"append events", "commit"} /\ f \notin Customers
      BY <1>4, <1>7, <1>13, <2>3, Tables
    <3>2. Settled(bookmark \cup etl.read)
      BY <2>3 DEF PipelineInv, CustomersInv
    <3>3. (bookmark' \cup etl'.read) \cap Customers = (bookmark \cup etl.read) \cap Customers
      BY <1>2, <1>7, <3>1
    <3>4. \A g \in Customers : silver'[g] = silver[g]
      BY <1>10, <3>1, Tables
    <3>5. Settled(bookmark \cup etl.read)'
      BY <3>2, <3>3, <3>4 DEF Settled
    <3> QED BY <3>1, <3>5 DEF CustomersInv
  <2> QED BY <1>2, <2>1, <2>2, <2>3 DEF Writing
<1>16. ASSUME NEW q \in Pipelines PROVE Loaded(q)'
  <2>1. Loaded(q)
    BY DEF PipelineInv, SeenInv
  <2>2. /\ etl'.stage \notin {"idle", "transactions"} /\ etl.stage \notin {"idle", "transactions"}
        /\ etl'.stage \in {"overwrite", "events", "append events", "commit"} =>
             etl.stage \in {"overwrite", "events", "append events", "commit"}
        /\ etl'.stage \in {"append events", "commit"} => etl.stage \in {"append events", "commit"}
    BY <1>2, <1>4, <1>7 DEF Writing
  <2>3. \A S : S \subseteq bookmark \cup etl.read \cup etl.frame =>
          S \subseteq bookmark' \cup etl'.read \cup etl'.frame
    BY <1>2, <1>11
  <2> QED BY <1>2, <1>6, <1>7, <2>1, <2>2, <2>3 DEF Loaded, Loading
<1>17. etl.stage # "idle" /\ \A g \in Transactions : silver'[g] >= silver[g]
  BY <1>2, <1>10, Tables DEF Writing
<1> QED BY <1>2, <1>7, <1>9, <1>10, <1>14, <1>15, <1>16, <1>17, EtlGoesOn

(* Only the run that a pipeline waits for ends for it.                     *)
LEMMA Told ==
  ASSUME TypeOK, NEW w \in Owners, NEW st \in {"RUNNING", "SUCCEEDED", "FAILED"}, Tell(w, st)
  PROVE  /\ outcome' \in [Pipelines -> {"none", "RUNNING", "SUCCEEDED", "FAILED"}]
         /\ \A p \in Pipelines : p # w => outcome'[p] = outcome[p]
         /\ \A p \in Pipelines : p = w => outcome'[p] = st
<1>1. outcome \in [Pipelines -> {"none", "RUNNING", "SUCCEEDED", "FAILED"}]
  BY Fields
<1>2. CASE w = Nobody
  BY <1>1, <1>2, Tables DEF Tell
<1>3. CASE w # Nobody
  BY <1>1, <1>3 DEF Tell, Owners
<1> QED BY <1>2, <1>3

(* The run succeeds: its files are in the bookmark.                        *)
LEMMA CommitEtlInv ==
  ASSUME PipelineInv, CommitEtl, UNCHANGED <<crawlVars, faults, scripts>>
  PROVE  PipelineInv'
<1>1. TypeOK /\ EtlInv
  BY DEF PipelineInv
<1>2. /\ etl.stage = "commit" /\ etl.frame = {}
      /\ bookmark' = bookmark \cup etl.read /\ silver' = silver /\ torn' = torn
      /\ UNCHANGED goldVars
  BY <1>1 DEF CommitEtl, EtlInv, Writing
<1>3. etl' = [etl EXCEPT !.stage = "idle", !.owner = Nobody, !.again = FALSE,
                         !.read = {}, !.last = "SUCCEEDED"]
  BY DEF CommitEtl
<1>4. /\ etl'.stage = "idle" /\ etl'.owner = Nobody /\ etl'.again = FALSE
      /\ etl'.frame = {} /\ etl'.read = {} /\ etl'.last = "SUCCEEDED"
  BY <1>1, <1>2, <1>3 DEF TypeOK, JobsTypeOK, EtlRun
<1>5. /\ outcome' \in [Pipelines -> {"none", "RUNNING", "SUCCEEDED", "FAILED"}]
      /\ \A p \in Pipelines : p # etl.owner => outcome'[p] = outcome[p]
      /\ \A p \in Pipelines : p = etl.owner => outcome'[p] = "SUCCEEDED"
  <2>1. Tell(etl.owner, "SUCCEEDED") /\ etl.owner \in Owners
    BY <1>1, Fields DEF CommitEtl
  <2> QED BY <1>1, <2>1, Told
<1>6. TypeOK'
  <2>1. etl' \in EtlRun
    BY <1>1, <1>3 DEF TypeOK, JobsTypeOK, EtlRun, Owners, Ends
  <2>2. \A q \in Pipelines : Watches(q)'
    <3> SUFFICES ASSUME NEW q \in Pipelines PROVE Watches(q)'
      OBVIOUS
    <3>1. Watches(q) /\ q # Nobody
      BY <1>1, Tables DEF TypeOK
    <3> QED BY <1>2, <1>4, <1>5, <3>1 DEF Watches, goldVars, scripts
  <2>3. /\ faults' \in 0 .. MaxFaults /\ torn' \in [Files -> Nat]
        /\ torn' \in [Files -> 0 .. MaxFaults]
        /\ bookmark' \in SUBSET Files /\ silver' \in [Files -> Nat]
    BY <1>1, <1>2, Fields DEF TypeOK, CrawlTypeOK, JobsTypeOK
  <2> QED BY <1>1, <1>2, <1>5, <2>1, <2>2, <2>3, EtlStepType
<1>7. EtlInv'
  <2>1. SilverCountsRuns'
    BY <1>1, <1>2, <1>4 DEF EtlInv, SilverCountsRuns
  <2>2. \A f \in Files : torn[f] <= faults
    BY <1>1 DEF EtlInv
  <2> QED BY <1>2, <1>4, <2>1, <2>2 DEF EtlInv, Writing
<1>8. CustomersInv'
  <2>1. Settled(bookmark \cup etl.read)
    BY <1>2 DEF PipelineInv, CustomersInv
  <2>2. Settled(bookmark)'
    BY <1>2, <2>1 DEF Settled
  <2> QED BY <1>4, <2>2 DEF CustomersInv
<1>9. GoldInv'
  <2>1. \A f \in Transactions : silver'[f] = silver[f] /\ silver[f] \in Nat
    BY <1>1, <1>2, Fields, Tables
  <2> QED BY <1>2, <2>1, EtlStepGold
<1>10. SeenInv'
  <2> SUFFICES ASSUME NEW q \in Pipelines PROVE Loaded(q)'
    BY JobStepSeen
  <2>1. Loaded(q) /\ q # Nobody
    BY Tables DEF PipelineInv, SeenInv
  <2>2. crawled[q] /\ stage[q] = "silver" /\ etl.owner = q =>
          seen[q] \subseteq bookmark \cup etl.read
    <3> SUFFICES ASSUME crawled[q], stage[q] = "silver", etl.owner = q
                 PROVE  seen[q] \subseteq bookmark \cup etl.read
      OBVIOUS
    <3>1. Loading(q)
      BY <2>1 DEF Loaded
    <3>2. seen[q] \subseteq Files
      BY <1>1, Fields DEF PipelineInv, SeenInv
    <3> QED BY <1>2, <3>1, <3>2, Tables DEF Loading
  <2> QED BY <1>2, <1>4, <1>5, <2>1, <2>2 DEF Loaded, scripts
<1>11. ReportsInv'
  BY <1>2, <1>5, EtlStepReports
<1> QED BY <1>6, <1>7, <1>8, <1>9, <1>10, <1>11 DEF PipelineInv

(* A failed run leaves its rows, counted as torn, and something to read.   *)
LEMMA EtlFailsInv ==
  ASSUME PipelineInv, EtlFails, UNCHANGED scripts
  PROVE  PipelineInv'
<1>1. TypeOK /\ EtlInv
  BY DEF PipelineInv
<1>2. /\ etl.stage # "idle" /\ Fault
      /\ torn' = [f \in Files |-> IF f \in etl.read \cap Appended THEN torn[f] + 1 ELSE torn[f]]
      /\ bookmark' = bookmark /\ silver' = silver /\ UNCHANGED <<crawlVars, goldVars>>
  BY DEF EtlFails
<1>3. etl' = [etl EXCEPT !.stage = IF etl.again THEN "idle" ELSE "transactions",
                         !.again = ~etl.again, !.owner = Nobody, !.frame = {},
                         !.read = {}, !.last = "FAILED"]
  BY DEF EtlFails
<1>4. /\ etl'.stage \in {"idle", "transactions"} /\ etl'.owner = Nobody
      /\ etl'.frame = {} /\ etl'.read = {} /\ etl'.last = "FAILED"
  BY <1>1, <1>3 DEF TypeOK, JobsTypeOK, EtlRun
<1>5. /\ outcome' \in [Pipelines -> {"none", "RUNNING", "SUCCEEDED", "FAILED"}]
      /\ \A p \in Pipelines : p # etl.owner => outcome'[p] = outcome[p]
      /\ \A p \in Pipelines : p = etl.owner => outcome'[p] = "FAILED"
  <2>1. Tell(etl.owner, "FAILED") /\ etl.owner \in Owners
    BY <1>1, Fields DEF EtlFails
  <2> QED BY <1>1, <2>1, Told
<1>6. /\ faults' \in 0 .. MaxFaults
      /\ \A f \in Files : torn'[f] \in 0 .. MaxFaults /\ torn'[f] \in Nat /\ torn'[f] <= faults'
  <2>1. /\ faults' \in 0 .. MaxFaults /\ faults \in Nat /\ faults' = faults + 1
        /\ \A f \in Files : torn[f] \in 0 .. MaxFaults
    BY <1>1, <1>2, FaultCounted
  <2> SUFFICES ASSUME NEW f \in Files
               PROVE  torn'[f] \in 0 .. MaxFaults /\ torn'[f] \in Nat /\ torn'[f] <= faults'
    BY <2>1
  <2>2. torn[f] \in Nat /\ torn[f] <= faults
    <3>1. \A g \in Files : torn[g] <= faults
      BY <1>1 DEF EtlInv
    <3> QED BY <2>1, <3>1
  <2>3. torn'[f] = torn[f] \/ torn'[f] = torn[f] + 1
    BY <1>2
  <2> QED BY <2>1, <2>2, <2>3, Tables
<1>7. TypeOK'
  <2>1. etl' \in EtlRun
    <3>1. etl.again \in BOOLEAN
      BY <1>1, Fields
    <3> QED BY <1>1, <1>3, <3>1 DEF TypeOK, JobsTypeOK, EtlRun, Owners, Ends, EtlStages, Writing
  <2>2. \A q \in Pipelines : Watches(q)'
    <3> SUFFICES ASSUME NEW q \in Pipelines PROVE Watches(q)'
      OBVIOUS
    <3>1. Watches(q) /\ q # Nobody
      BY <1>1, Tables DEF TypeOK
    <3> QED BY <1>2, <1>4, <1>5, <3>1 DEF Watches, goldVars, scripts
  <2>3. /\ torn' \in [Files -> Nat] /\ torn' \in [Files -> 0 .. MaxFaults]
    <3>1. torn' = [f \in Files |-> torn'[f]]
      BY <1>2
    <3> QED BY <1>6, <3>1
  <2>4. bookmark' \in SUBSET Files /\ silver' \in [Files -> Nat]
    BY <1>1, <1>2, Fields
  <2> QED BY <1>1, <1>2, <1>5, <1>6, <2>1, <2>2, <2>3, <2>4, EtlStepType
<1>8. EtlInv'
  <2>1. ASSUME NEW f \in Appended
        PROVE  silver'[f] = torn'[f] + (IF f \in bookmark' \cup etl'.read THEN 1 ELSE 0)
    <3>1. /\ silver[f] = torn[f] + (IF f \in bookmark \cup etl.read THEN 1 ELSE 0)
          /\ bookmark \cap etl.read = {}
      BY <1>1 DEF EtlInv, SilverCountsRuns
    <3>2. f \in Files /\ torn[f] \in Nat
      BY <1>1, Fields, Tables
    <3>3. CASE f \in etl.read
      BY <1>2, <1>4, <3>1, <3>2, <3>3
    <3>4. CASE f \notin etl.read
      BY <1>2, <1>4, <3>1, <3>2, <3>4
    <3> QED BY <3>3, <3>4
  <2>2. SilverCountsRuns'
    BY <1>4, <2>1 DEF SilverCountsRuns
  <2>3. \A f \in Files : torn'[f] <= faults'
    BY <1>6
  <2> QED BY <1>4, <2>2, <2>3 DEF EtlInv, Writing
<1>9. CustomersInv'
  <2>1. Settled(bookmark) \/ NewFiles(Customers) # {}
    <3>1. CASE etl.stage \in {"transactions", "append transactions", "customers"}
      BY <3>1 DEF PipelineInv, CustomersInv
    <3>2. CASE etl.stage = "overwrite"
      <4>1. PICK f \in etl.frame : TRUE
        BY <1>1, <3>2 DEF EtlInv, Writing
      <4>2. f \in Customers /\ f \notin bookmark /\ f \in InCatalog(bronze)
        BY <1>1, <3>2, <4>1 DEF EtlInv
      <4> QED BY <4>2 DEF NewFiles, InCatalog
    <3>3. CASE etl.stage \in {"events", "append events", "commit"}
      <4>1. Settled(bookmark \cup etl.read)
        BY <3>3 DEF PipelineInv, CustomersInv
      <4>2. CASE etl.read \cap Customers = {}
        <5>1. (bookmark \cup etl.read) \cap Customers = bookmark \cap Customers
          BY <4>2
        <5> QED BY <4>1, <5>1 DEF Settled
      <4>3. CASE etl.read \cap Customers # {}
        <5>1. PICK f \in etl.read : f \in Customers
          BY <4>3
        <5>2. f \notin bookmark /\ f \in InCatalog(bronze)
          BY <1>1, <5>1 DEF EtlInv
        <5> QED BY <5>1, <5>2 DEF NewFiles, InCatalog
      <4> QED BY <4>2, <4>3
    <3> QED BY <1>1, <1>2, <3>1, <3>2, <3>3, Fields DEF EtlStages, Writing
  <2>2. Settled(bookmark)' = Settled(bookmark) /\ NewFiles(Customers)' = NewFiles(Customers)
    BY <1>2 DEF Settled, NewFiles, InCatalog, crawlVars
  <2> QED BY <1>4, <2>1, <2>2 DEF CustomersInv
<1>10. GoldInv'
  <2>1. \A f \in Transactions : silver'[f] = silver[f] /\ silver[f] \in Nat
    BY <1>1, <1>2, Fields, Tables
  <2> QED BY <1>2, <2>1, EtlStepGold
<1>11. SeenInv'
  <2> SUFFICES ASSUME NEW q \in Pipelines PROVE Loaded(q)'
    BY <1>2, JobStepSeen
  <2>1. Loaded(q) /\ q # Nobody
    BY Tables DEF PipelineInv, SeenInv
  <2> QED BY <1>2, <1>4, <1>5, <2>1 DEF Loaded, scripts
<1>12. ReportsInv'
  BY <1>2, <1>5, EtlStepReports
<1> QED BY <1>7, <1>8, <1>9, <1>10, <1>11, <1>12 DEF PipelineInv

(* Counters are numbers.                                                   *)
LEMMA Counts ==
  ASSUME TypeOK
  PROVE  /\ faults \in Nat
         /\ \A f \in Transactions : silver[f] \in Nat /\ NoReport[f] <= silver[f]
<1>1. faults \in 0 .. MaxFaults
  BY DEF TypeOK, CrawlTypeOK
<1>2. \A f \in Transactions : silver[f] \in Nat
  BY Fields, Tables
<1>3. \A f \in Transactions : NoReport[f] = 0
  BY DEF NoReport
<1> QED BY <1>1, <1>2, <1>3, Tables

(* What a step of silver_to_gold.py has to keep of the types.              *)
LEMMA AggStepType ==
  ASSUME TypeOK, UNCHANGED <<crawlVars, etlVars, scripts>>,
         faults' \in 0 .. MaxFaults, agg' \in AggRun,
         gold' \in [Reports -> [Transactions -> Nat]],
         outcome' \in [Pipelines -> {"none", "RUNNING", "SUCCEEDED", "FAILED"}],
         \A p \in Pipelines : Watches(p)'
  PROVE  TypeOK'
<1>1. CrawlTypeOK'
  BY DEF TypeOK, CrawlTypeOK, crawlVars
<1>2. JobsTypeOK'
  BY DEF TypeOK, JobsTypeOK, etlVars
<1>3. torn' = torn
  BY DEF etlVars
<1> QED BY <1>1, <1>2, <1>3 DEF TypeOK, scripts

(* It leaves the silver layer alone.                                       *)
LEMMA AggStepEtl ==
  ASSUME PipelineInv, UNCHANGED <<crawlVars, etlVars>>,
         faults' \in Nat, faults' = faults \/ faults' = faults + 1
  PROVE  EtlInv' /\ CustomersInv'
<1>1. \A f \in Files : torn'[f] <= faults'
  <2>1. \A f \in Files : torn[f] \in Nat /\ torn[f] <= faults
    BY Fields DEF PipelineInv, EtlInv
  <2>2. faults \in Nat
    BY Counts DEF PipelineInv
  <2> QED BY <2>1, <2>2 DEF etlVars
<1>2. EtlInv'
  BY <1>1 DEF PipelineInv, EtlInv, SilverCountsRuns, InCatalog, crawlVars, etlVars
<1>3. CustomersInv'
  BY DEF PipelineInv, CustomersInv, Settled, NewFiles, InCatalog, crawlVars, etlVars
<1> QED BY <1>2, <1>3

(* It ends for its own pipeline only.                                      *)
LEMMA AggStepSeen ==
  ASSUME PipelineInv, UNCHANGED <<crawlVars, etlVars, scripts>>,
         \A p \in Pipelines : p # agg.owner => outcome'[p] = outcome[p]
  PROVE  SeenInv'
<1> SUFFICES ASSUME NEW q \in Pipelines PROVE Loaded(q)'
  BY JobStepSeen
<1>1. Loaded(q) /\ Watches(q)
  BY DEF PipelineInv, SeenInv, TypeOK
<1>2. stage[q] = "silver" => outcome'[q] = outcome[q]
  BY <1>1 DEF Watches
<1> QED BY <1>1, <1>2 DEF Loaded, Loading, etlVars, scripts

(* The input is the silver layer of this moment.                           *)
LEMMA ReadSilverInv ==
  ASSUME PipelineInv, ReadSilver, UNCHANGED <<crawlVars, faults, scripts>>
  PROVE  PipelineInv'
<1>1. TypeOK /\ GoldInv
  BY DEF PipelineInv
<1> DEFINE S == SilverTransactions
<1>2. /\ agg.stage = "read" /\ ~agg.blind /\ gold' = gold /\ outcome' = outcome
      /\ UNCHANGED etlVars
  BY <1>1 DEF ReadSilver, GoldInv
<1>3. S \in [Transactions -> Nat] /\ \A f \in Transactions : S[f] = silver[f]
  BY <1>1, Fields, Tables DEF SilverTransactions
<1>4. agg' = [agg EXCEPT !.stage = AfterRead(S), !.input = S]
  BY DEF ReadSilver
<1> HIDE DEF S
<1>5. /\ agg'.stage = AfterRead(S) /\ agg'.owner = agg.owner /\ agg'.again = agg.again
      /\ agg'.input = S /\ agg'.blind = agg.blind /\ agg'.mixed = agg.mixed
      /\ agg'.last = agg.last
  BY <1>1, <1>4 DEF TypeOK, JobsTypeOK, AggRun
<1>6. /\ AfterRead(S) \in {"commit", "daily_summaries"}
      /\ AfterRead(S) = "commit" => S = NoReport
  BY DEF AfterRead
<1>7. TypeOK'
  <2>1. agg' \in AggRun
    BY <1>1, <1>3, <1>4, <1>6 DEF TypeOK, JobsTypeOK, AggRun, AggStages, Reports
  <2>2. \A q \in Pipelines : Watches(q)'
    BY <1>1, <1>2, <1>5 DEF TypeOK, Watches, etlVars, scripts
  <2>3. faults' \in 0 .. MaxFaults
    BY <1>1 DEF TypeOK, CrawlTypeOK
  <2> QED BY <1>1, <1>2, <2>1, <2>2, <2>3, Fields, AggStepType
<1>8. EtlInv' /\ CustomersInv'
  <2>1. faults' \in Nat
    BY <1>1, Counts
  <2> QED BY <1>2, <2>1, AggStepEtl
<1>9. GoldInv'
  <2>1. \A f \in Transactions, r \in Reports : gold[r][f] <= silver[f]
    BY <1>1 DEF GoldInv
  <2>2. \A f \in Transactions : S[f] <= silver[f]
    BY <1>1, <1>3, Counts
  <2>3. agg'.stage = "commit" => \A r \in Reports : gold[r] = S
    <3> SUFFICES ASSUME agg'.stage = "commit", NEW r \in Reports PROVE gold[r] = S
      OBVIOUS
    <3>1. S = NoReport
      BY <1>5, <1>6
    <3>2. \A f \in Transactions : silver[f] = 0
      BY <1>3, <3>1 DEF NoReport
    <3>3. gold[r] \in [Transactions -> Nat]
      BY <1>1, Fields
    <3>4. \A f \in Transactions : gold[r][f] = 0
      BY <2>1, <3>2, <3>3
    <3> QED BY <3>1, <3>3, <3>4 DEF NoReport
  <2>4. SilverTransactions' = S
    BY <1>2 DEF S, SilverTransactions, etlVars
  <2>5. ~agg.mixed => etl.stage = "idle"
    BY <1>1 DEF GoldInv
  <2>6. /\ agg'.stage \in {"commit", "daily_summaries"} /\ agg'.input = S
        /\ silver' = silver /\ etl' = etl
    BY <1>2, <1>5, <1>6 DEF etlVars
  <2> QED BY <1>2, <1>5, <2>1, <2>2, <2>3, <2>4, <2>5, <2>6 DEF GoldInv, GoldMatchesSilver
<1>10. SeenInv'
  BY <1>2, AggStepSeen
<1>11. ReportsInv'
  <2> SUFFICES ASSUME NEW q \in Pipelines, Aggregated(q)', ~agg'.blind PROVE
        \A f \in seen[q] \cap Transactions : agg'.input[f] > 0
    BY <1>5, <1>6 DEF ReportsInv, Reported, scripts
  <2>1. crawled[q] /\ stage[q] \in {"gold", "succeeded"}
    BY DEF Aggregated, scripts
  <2>2. seen[q] \subseteq bookmark
    BY <2>1 DEF PipelineInv, SeenInv, Loaded
  <2> SUFFICES ASSUME NEW f \in seen[q] \cap Transactions PROVE agg'.input[f] > 0
    OBVIOUS
  <2>3. f \in Appended /\ f \in bookmark
    BY <2>2, Tables
  <2>4. silver[f] = torn[f] + 1 /\ torn[f] \in Nat
    BY <1>1, <2>3, Fields, Tables DEF PipelineInv, EtlInv, SilverCountsRuns
  <2> QED BY <1>3, <1>5, <2>4
<1> QED BY <1>7, <1>8, <1>9, <1>10, <1>11 DEF PipelineInv

(* A run that could not read goes on, and says so.                         *)
LEMMA ReadFailsInv ==
  ASSUME PipelineInv, ReadFails, UNCHANGED scripts
  PROVE  PipelineInv'
<1>1. TypeOK /\ GoldInv
  BY DEF PipelineInv
<1>2. /\ agg.stage = "read" /\ gold' = gold /\ outcome' = outcome /\ Fault
      /\ UNCHANGED <<crawlVars, etlVars>>
      /\ agg' = [agg EXCEPT !.stage = "commit", !.blind = TRUE]
  BY DEF ReadFails, AfterRead
<1>3. /\ agg'.stage = "commit" /\ agg'.owner = agg.owner /\ agg'.again = agg.again
      /\ agg'.input = agg.input /\ agg'.blind /\ agg'.mixed = agg.mixed
      /\ agg'.last = agg.last
  BY <1>1, <1>2 DEF TypeOK, JobsTypeOK, AggRun
<1>4. faults' \in 0 .. MaxFaults /\ faults' \in Nat /\ faults' = faults + 1
  BY <1>1, <1>2, FaultCounted, Tables
<1>5. TypeOK'
  <2>1. agg' \in AggRun
    BY <1>1, <1>2 DEF TypeOK, JobsTypeOK, AggRun, AggStages
  <2>2. \A q \in Pipelines : Watches(q)'
    BY <1>1, <1>2, <1>3 DEF TypeOK, Watches, etlVars, scripts
  <2> QED BY <1>1, <1>2, <1>4, <2>1, <2>2, Fields, AggStepType
<1>6. EtlInv' /\ CustomersInv'
  BY <1>2, <1>4, AggStepEtl
<1>7. GoldInv'
  BY <1>1, <1>2, <1>3 DEF GoldInv, GoldMatchesSilver, Reports, etlVars
<1>8. SeenInv'
  BY <1>2, AggStepSeen
<1>9. ReportsInv'
  BY <1>3 DEF ReportsInv, Reported
<1> QED BY <1>5, <1>6, <1>7, <1>8, <1>9 DEF PipelineInv

(* The reports are written one after the other, from the same input.       *)
LEMMA WriteReportInv ==
  ASSUME PipelineInv, WriteReport, UNCHANGED <<crawlVars, faults, scripts>>
  PROVE  PipelineInv'
<1>1. TypeOK /\ GoldInv
  BY DEF PipelineInv
<1>2. /\ agg.stage \in Reports /\ ~agg.blind /\ outcome' = outcome /\ UNCHANGED etlVars
      /\ gold' = [gold EXCEPT ![agg.stage] = agg.input]
      /\ agg' = [agg EXCEPT !.stage = Following[agg.stage]]
  BY <1>1 DEF WriteReport, GoldInv
<1>3. /\ agg.stage = "daily_summaries" => Following[agg.stage] = "category_rollups"
      /\ agg.stage = "category_rollups" => Following[agg.stage] = "customer_metrics"
      /\ agg.stage = "customer_metrics" => Following[agg.stage] = "commit"
  BY DEF Following
<1>4. /\ agg'.stage = Following[agg.stage] /\ agg'.owner = agg.owner
      /\ agg'.again = agg.again /\ agg'.input = agg.input /\ agg'.blind = agg.blind
      /\ agg'.mixed = agg.mixed /\ agg'.last = agg.last
  BY <1>1, <1>2 DEF TypeOK, JobsTypeOK, AggRun
<1>5. /\ agg.input \in [Transactions -> Nat] /\ gold \in [Reports -> [Transactions -> Nat]]
      /\ gold' \in [Reports -> [Transactions -> Nat]]
      /\ gold'[agg.stage] = agg.input
      /\ \A r \in Reports : r # agg.stage => gold'[r] = gold[r]
  <2>1. /\ agg.input \in [Transactions -> Nat] /\ gold \in [Reports -> [Transactions -> Nat]]
    BY <1>1, Fields
  <2> QED BY <1>2, <2>1
<1>6. TypeOK'
  <2>1. agg' \in AggRun
    BY <1>1, <1>2, <1>3 DEF TypeOK, JobsTypeOK, AggRun, AggStages, Reports
  <2>2. \A q \in Pipelines : Watches(q)'
    BY <1>1, <1>2, <1>4 DEF TypeOK, Watches, etlVars, scripts
  <2>3. /\ faults' \in 0 .. MaxFaults
        /\ outcome' \in [Pipelines -> {"none", "RUNNING", "SUCCEEDED", "FAILED"}]
    BY <1>1, <1>2 DEF TypeOK, CrawlTypeOK, JobsTypeOK
  <2> QED BY <1>1, <1>2, <1>5, <2>1, <2>2, <2>3, AggStepType
<1>7. EtlInv' /\ CustomersInv'
  <2>1. faults' \in Nat
    BY <1>1, Counts
  <2> QED BY <1>2, <2>1, AggStepEtl
<1>8. GoldInv'
  <2>1. \A f \in Transactions, r \in Reports : gold'[r][f] <= silver[f]
    BY <1>1, <1>5 DEF GoldInv
  <2>2. SilverTransactions' = SilverTransactions /\ silver' = silver /\ etl' = etl
    BY <1>2 DEF SilverTransactions, etlVars
  <2>3. /\ agg'.stage \in {"category_rollups", "customer_metrics", "commit"}
        /\ agg'.stage \in {"category_rollups", "customer_metrics"} =>
             gold'["daily_summaries"] = agg.input
        /\ agg'.stage = "customer_metrics" => gold'["category_rollups"] = agg.input
        /\ agg'.stage = "commit" => \A r \in Reports : gold'[r] = agg.input
    BY <1>1, <1>2, <1>3, <1>4, <1>5 DEF GoldInv, Reports
  <2>4. /\ \A f \in Transactions : agg.input[f] <= silver[f]
        /\ ~agg.mixed => etl.stage = "idle"
        /\ ~agg.mixed => agg.input = SilverTransactions
    BY <1>1, <1>2 DEF GoldInv, Reports
  <2> QED BY <1>2, <1>4, <2>1, <2>2, <2>3, <2>4 DEF GoldInv, GoldMatchesSilver
<1>9. SeenInv'
  BY <1>2, AggStepSeen
<1>10. ReportsInv'
  <2> SUFFICES ASSUME NEW q \in Pipelines PROVE Reported(q)'
    BY DEF ReportsInv
  <2>1. Reported(q)
    BY DEF PipelineInv, ReportsInv
  <2>2. agg.stage \notin {"idle", "read"} /\ agg'.stage # "idle"
    BY <1>2, <1>3, <1>4 DEF Reports
  <2>3. Aggregated(q)' = Aggregated(q)
    BY <1>2, <1>4 DEF Aggregated, scripts
  <2> QED BY <1>2, <1>4, <2>1, <2>2, <2>3 DEF Reported, scripts
<1> QED BY <1>6, <1>7, <1>8, <1>9, <1>10 DEF PipelineInv

(* The run succeeds with what it wrote.                                    *)
LEMMA CommitAggInv ==
  ASSUME PipelineInv, CommitAgg, UNCHANGED <<crawlVars, faults, scripts>>
  PROVE  PipelineInv'
<1>1. TypeOK /\ GoldInv
  BY DEF PipelineInv
<1>2. /\ agg.stage = "commit" /\ gold' = gold /\ UNCHANGED etlVars
      /\ agg' = [agg EXCEPT !.stage = "idle", !.owner = Nobody, !.again = FALSE,
                            !.input = NoReport, !.last = "SUCCEEDED"]
  BY DEF CommitAgg
<1>3. /\ agg'.stage = "idle" /\ agg'.owner = Nobody /\ agg'.again = FALSE
      /\ agg'.input = NoReport /\ agg'.blind = agg.blind /\ agg'.mixed = agg.mixed
      /\ agg'.last = "SUCCEEDED"
  BY <1>1, <1>2 DEF TypeOK, JobsTypeOK, AggRun
<1>4. /\ outcome' \in [Pipelines -> {"none", "RUNNING", "SUCCEEDED", "FAILED"}]
      /\ \A p \in Pipelines : p # agg.owner => outcome'[p] = outcome[p]
      /\ \A p \in Pipelines : p = agg.owner => outcome'[p] = "SUCCEEDED"
  <2>1. Tell(agg.owner, "SUCCEEDED") /\ agg.owner \in Owners
    BY <1>1, Fields DEF CommitAgg
  <2> QED BY <1>1, <2>1, Told
<1>5. TypeOK'
  <2>0. NoReport \in [Transactions -> Nat]
    BY DEF NoReport
  <2>1. agg' \in AggRun
    BY <1>1, <1>2, <2>0 DEF TypeOK, JobsTypeOK, AggRun, Owners, Ends
  <2>2. \A q \in Pipelines : Watches(q)'
    <3> SUFFICES ASSUME NEW q \in Pipelines PROVE Watches(q)'
      OBVIOUS
    <3>1. Watches(q) /\ q # Nobody
      BY <1>1, Tables DEF TypeOK
    <3> QED BY <1>2, <1>3, <1>4, <3>1 DEF Watches, etlVars, scripts
  <2>3. faults' \in 0 .. MaxFaults
    BY <1>1 DEF TypeOK, CrawlTypeOK
  <2> QED BY <1>1, <1>2, <1>4, <2>1, <2>2, <2>3, Fields, AggStepType
<1>6. EtlInv' /\ CustomersInv'
  <2>1. faults' \in Nat
    BY <1>1, Counts
  <2> QED BY <1>2, <2>1, AggStepEtl
<1>7. GoldInv'
  <2>1. \A f \in Transactions : NoReport[f] <= silver[f]
    BY <1>1, Counts
  <2>2. SilverTransactions' = SilverTransactions /\ silver' = silver /\ etl' = etl
    BY <1>2 DEF SilverTransactions, etlVars
  <2>3. /\ \A f \in Transactions, r \in Reports : gold[r][f] <= silver[f]
        /\ ~agg.mixed => etl.stage = "idle"
        /\ ~agg.blind => \A r \in Reports : gold[r] = agg.input
        /\ ~agg.blind /\ ~agg.mixed => agg.input = SilverTransactions
    BY <1>1, <1>2 DEF GoldInv
  <2> QED BY <1>2, <1>3, <2>1, <2>2, <2>3 DEF GoldInv, GoldMatchesSilver, Reports
<1>8. SeenInv'
  BY <1>2, <1>4, AggStepSeen
<1>9. ReportsInv'
  <2> SUFFICES ASSUME NEW q \in Pipelines, Aggregated(q)', ~agg.blind,
                      NEW f \in seen[q] \cap Transactions, NEW r \in Reports
               PROVE  gold[r][f] > 0
    BY <1>2, <1>3 DEF ReportsInv, Reported, scripts
  <2>1. Reported(q) /\ Watches(q)
    BY DEF PipelineInv, ReportsInv, TypeOK
  <2>2. Aggregated(q)
    BY <1>3, <1>4, <2>1, Tables DEF Aggregated, scripts
  <2>3. agg.input[f] > 0
    BY <1>2, <2>1, <2>2 DEF Reported
  <2>4. gold[r] = agg.input
    BY <1>1, <1>2 DEF GoldInv
  <2> QED BY <2>3, <2>4
<1> QED BY <1>5, <1>6, <1>7, <1>8, <1>9 DEF PipelineInv

(* A failed run may have lost the report it was writing, and is repeated   *)
(* once.                                                                   *)
LEMMA AggFailsInv ==
  ASSUME PipelineInv, AggFails, UNCHANGED scripts
  PROVE  PipelineInv'
<1>1. TypeOK /\ GoldInv
  BY DEF PipelineInv
<1>2. /\ Fault /\ UNCHANGED <<crawlVars, etlVars>>
      /\ \/ gold' = gold
         \/ agg.stage \in Reports /\ gold' = [gold EXCEPT ![agg.stage] = NoReport]
      /\ agg.again => agg' = [agg EXCEPT !.stage = "idle", !.owner = Nobody, !.again = FALSE,
                                         !.input = NoReport, !.last = "FAILED"]
      /\ ~agg.again => agg' = Fresh(Nobody, TRUE, "FAILED")
  BY DEF AggFails
<1>3. /\ agg'.stage \in {"idle", "read"} /\ agg'.owner = Nobody /\ agg'.input = NoReport
      /\ agg'.last = "FAILED"
      /\ agg'.stage = "read" => ~agg'.blind
      /\ ~agg'.mixed => etl.stage = "idle"
  <2>1. CASE agg.again
    BY <1>1, <1>2, <2>1, ZenonT(40) DEF TypeOK, JobsTypeOK, AggRun, GoldInv
  <2>2. CASE ~agg.again
    <3>1. agg' = [stage |-> "read", owner |-> Nobody, again |-> TRUE, input |-> NoReport,
                  blind |-> FALSE, mixed |-> etl.stage # "idle", last |-> "FAILED"]
      BY <1>2, <2>2 DEF Fresh
    <3>2. agg'.mixed = (etl.stage # "idle")
      BY <3>1
    <3>3. /\ agg'.stage = "read" /\ agg'.owner = Nobody /\ agg'.input = NoReport
          /\ agg'.last = "FAILED" /\ ~agg'.blind
      BY <3>1
    <3> QED BY <3>2, <3>3
  <2> QED BY <2>1, <2>2
<1>4. /\ outcome' \in [Pipelines -> {"none", "RUNNING", "SUCCEEDED", "FAILED"}]
      /\ \A p \in Pipelines : p # agg.owner => outcome'[p] = outcome[p]
      /\ \A p \in Pipelines : p = agg.owner => outcome'[p] = "FAILED"
  <2>1. Tell(agg.owner, "FAILED") /\ agg.owner \in Owners
    BY <1>1, Fields DEF AggFails
  <2> QED BY <1>1, <2>1, Told
<1>5. faults' \in 0 .. MaxFaults /\ faults' \in Nat /\ faults' = faults + 1
  BY <1>1, <1>2, FaultCounted, Tables
<1>6. /\ NoReport \in [Transactions -> Nat] /\ gold \in [Reports -> [Transactions -> Nat]]
      /\ gold' \in [Reports -> [Transactions -> Nat]]
      /\ \A r \in Reports : gold'[r] = gold[r] \/ gold'[r] = NoReport
  <2>1. NoReport \in [Transactions -> Nat] /\ gold \in [Reports -> [Transactions -> Nat]]
    BY <1>1, Fields DEF NoReport
  <2> QED BY <1>2, <2>1
<1>7. TypeOK'
  <2>1. agg' \in AggRun
    <3>1. CASE agg.again
      BY <1>1, <1>2, <1>6, <3>1, ZenonT(40) DEF TypeOK, JobsTypeOK, AggRun, Owners, Ends
    <3>2. CASE ~agg.again
      <4>1. agg' = [stage |-> "read", owner |-> Nobody, again |-> TRUE, input |-> NoReport,
                    blind |-> FALSE, mixed |-> etl.stage # "idle", last |-> "FAILED"]
        BY <1>2, <3>2 DEF Fresh
      <4>2. (etl.stage # "idle") \in BOOLEAN
        OBVIOUS
      <4> QED BY <1>6, <4>1, <4>2 DEF AggRun, AggStages, Owners, Ends
    <3> QED BY <3>1, <3>2
  <2>2. \A q \in Pipelines : Watches(q)'
    <3> SUFFICES ASSUME NEW q \in Pipelines PROVE Watches(q)'
      OBVIOUS
    <3>1. Watches(q) /\ q # Nobody
      BY <1>1, Tables DEF TypeOK
    <3> QED BY <1>2, <1>3, <1>4, <3>1 DEF Watches, etlVars, scripts
  <2> QED BY <1>1, <1>2, <1>4, <1>5, <1>6, <2>1, <2>2, AggStepType
<1>8. EtlInv' /\ CustomersInv'
  BY <1>2, <1>5, AggStepEtl
<1>9. GoldInv'
  <2>1. \A f \in Transactions : NoReport[f] <= silver[f]
    BY <1>1, Counts
  <2>2. \A f \in Transactions, r \in Reports : gold'[r][f] <= silver[f]
    BY <1>1, <1>6, <2>1 DEF GoldInv
  <2>3. silver' = silver /\ etl' = etl
    BY <1>2 DEF etlVars
  <2> QED BY <1>3, <2>1, <2>2, <2>3 DEF GoldInv, GoldMatchesSilver, Reports
<1>10. SeenInv'
  BY <1>2, <1>4, AggStepSeen
<1>11. ReportsInv'
  BY <1>3 DEF ReportsInv, Reported
<1> QED BY <1>7, <1>8, <1>9, <1>10, <1>11 DEF PipelineInv

(* A pipeline starts the job, and the reports fall behind.                 *)
LEMMA RunBronzeToSilverInv ==
  ASSUME PipelineInv, NEW p \in Pipelines, RunBronzeToSilver(p)
  PROVE  PipelineInv'
<1>1. TypeOK /\ EtlInv /\ GoldInv
  BY DEF PipelineInv
<1>2. /\ etl.stage = "idle" /\ stage[p] = "start silver"
      /\ etl.owner = Nobody /\ etl.read = {} /\ etl.frame = {}
      /\ silver' = silver /\ bookmark' = bookmark /\ torn' = torn /\ gold' = gold
      /\ UNCHANGED <<crawlVars, faults, seen, crawled, runs>>
      /\ stage' = [stage EXCEPT ![p] = "silver"]
      /\ etl' = [etl EXCEPT !.stage = "transactions", !.owner = p, !.again = FALSE]
      /\ agg' = [agg EXCEPT !.mixed = TRUE]
  BY <1>1 DEF RunBronzeToSilver, StartEtl, Goes, EtlInv, Writing
<1>3. /\ etl'.stage = "transactions" /\ etl'.owner = p /\ etl'.again = FALSE
      /\ etl'.frame = {} /\ etl'.read = {} /\ etl'.last = etl.last
  BY <1>1, <1>2 DEF TypeOK, JobsTypeOK, EtlRun
<1>4. /\ agg'.stage = agg.stage /\ agg'.owner = agg.owner /\ agg'.input = agg.input
      /\ agg'.blind = agg.blind /\ agg'.last = agg.last /\ agg'.mixed
  BY <1>1, <1>2 DEF TypeOK, JobsTypeOK, AggRun
<1>5. /\ stage' \in [Pipelines -> {"idle", "start crawler", "crawler", "start silver", "silver",
                                   "start gold", "gold", "succeeded", "failed"}]
      /\ stage'[p] = "silver" /\ \A q \in Pipelines : q # p => stage'[q] = stage[q]
  BY <1>1, <1>2, Fields
<1>6. /\ outcome' \in [Pipelines -> {"none", "RUNNING", "SUCCEEDED", "FAILED"}]
      /\ outcome'[p] = "RUNNING" /\ \A q \in Pipelines : q # p => outcome'[q] = outcome[q]
  <2>1. Tell(p, "RUNNING") /\ p \in Owners
    BY DEF RunBronzeToSilver, StartEtl, Owners
  <2> QED BY <1>1, <2>1, Told
<1>7. TypeOK'
  <2>1. CrawlTypeOK'
    BY <1>1, <1>2 DEF TypeOK, CrawlTypeOK, crawlVars
  <2>2. etl' \in EtlRun /\ agg' \in AggRun
    BY <1>1, <1>2 DEF TypeOK, JobsTypeOK, EtlRun, AggRun, Owners, EtlStages, Writing
  <2>3. JobsTypeOK'
    BY <1>1, <1>2, <1>6, <2>2 DEF TypeOK, JobsTypeOK
  <2>4. \A q \in Pipelines : Watches(q)'
    <3> SUFFICES ASSUME NEW q \in Pipelines PROVE Watches(q)'
      OBVIOUS
    <3>1. Watches(q) /\ Watches(p) /\ q # Nobody
      BY <1>1, Tables DEF TypeOK
    <3>2. agg.owner # p
      BY <1>2, <3>1 DEF Watches
    <3>3. CASE q = p
      BY <1>3, <1>4, <1>5, <1>6, <3>2, <3>3 DEF Watches
    <3>4. CASE q # p
      BY <1>2, <1>3, <1>4, <1>5, <1>6, <3>1, <3>4, ZenonT(40) DEF Watches
    <3> QED BY <3>3, <3>4
  <2> QED BY <1>1, <1>2, <1>5, <2>1, <2>3, <2>4 DEF TypeOK
<1>8. EtlInv'
  <2>1. SilverCountsRuns'
    BY <1>1, <1>2, <1>3 DEF EtlInv, SilverCountsRuns
  <2>2. \A f \in Files : torn'[f] <= faults'
    BY <1>1, <1>2 DEF EtlInv
  <2> QED BY <1>3, <2>1, <2>2 DEF EtlInv, Writing
<1>9. CustomersInv'
  <2>1. Settled(bookmark) \/ NewFiles(Customers) # {}
    BY <1>2 DEF PipelineInv, CustomersInv
  <2>2. Settled(bookmark)' = Settled(bookmark) /\ NewFiles(Customers)' = NewFiles(Customers)
    BY <1>2 DEF Settled, NewFiles, InCatalog, crawlVars
  <2> QED BY <1>3, <2>1, <2>2 DEF CustomersInv
<1>10. GoldInv'
  <2>1. SilverTransactions' = SilverTransactions
    BY <1>2 DEF SilverTransactions
  <2> QED BY <1>1, <1>2, <1>4, <2>1 DEF GoldInv, GoldMatchesSilver
<1>11. SeenInv'
  <2> SUFFICES ASSUME NEW q \in Pipelines
               PROVE  (seen[q] \subseteq bronze /\ Found(q) /\ Loaded(q))'
    BY DEF SeenInv
  <2>1. seen[q] \subseteq bronze /\ Found(q) /\ Loaded(q) /\ Watches(q)
    BY DEF PipelineInv, SeenInv, TypeOK
  <2>2. (seen[q] \subseteq bronze)'
    BY <1>2, <2>1 DEF crawlVars
  <2>3. Found(q)'
    BY <1>2, <1>5, <2>1 DEF Found, Crawling, FoldersOf, crawlVars
  <2>4. Loaded(q)'
    BY <1>2, <1>3, <1>5, <1>6, <2>1 DEF Loaded, Loading
  <2> QED BY <2>2, <2>3, <2>4
<1>12. ReportsInv'
  <2> SUFFICES ASSUME NEW q \in Pipelines PROVE Reported(q)'
    BY DEF ReportsInv
  <2>1. Reported(q)
    BY DEF PipelineInv, ReportsInv
  <2>2. Aggregated(q)' => Aggregated(q)
    BY <1>2, <1>4, <1>5, <1>6 DEF Aggregated
  <2> QED BY <1>2, <1>4, <2>1, <2>2 DEF Reported
<1> QED BY <1>7, <1>8, <1>9, <1>10, <1>11, <1>12 DEF PipelineInv

(* A pipeline starts the aggregation, once its files are in the bookmark.  *)
LEMMA RunSilverToGoldInv ==
  ASSUME PipelineInv, NEW p \in Pipelines, RunSilverToGold(p)
  PROVE  PipelineInv'
<1>1. TypeOK /\ EtlInv /\ GoldInv
  BY DEF PipelineInv
<1>2. /\ agg.stage = "idle" /\ stage[p] = "start gold" /\ agg.owner = Nobody
      /\ gold' = gold /\ UNCHANGED etlVars
      /\ UNCHANGED <<crawlVars, faults, seen, crawled, runs>>
      /\ stage' = [stage EXCEPT ![p] = "gold"]
      /\ agg' = [stage |-> "read", owner |-> p, again |-> FALSE, input |-> NoReport,
                 blind |-> FALSE, mixed |-> etl.stage # "idle", last |-> agg.last]
  BY <1>1 DEF RunSilverToGold, StartAgg, Goes, GoldInv, Fresh
<1>3. /\ agg'.stage = "read" /\ agg'.owner = p /\ agg'.input = NoReport
      /\ ~agg'.blind /\ agg'.last = agg.last
  BY <1>2
<1>4. agg'.mixed = (etl.stage # "idle")
  BY <1>2
<1>5. /\ stage' \in [Pipelines -> {"idle", "start crawler", "crawler", "start silver", "silver",
                                   "start gold", "gold", "succeeded", "failed"}]
      /\ stage'[p] = "gold" /\ \A q \in Pipelines : q # p => stage'[q] = stage[q]
  BY <1>1, <1>2, Fields
<1>6. /\ outcome' \in [Pipelines -> {"none", "RUNNING", "SUCCEEDED", "FAILED"}]
      /\ outcome'[p] = "RUNNING" /\ \A q \in Pipelines : q # p => outcome'[q] = outcome[q]
  <2>1. Tell(p, "RUNNING") /\ p \in Owners
    BY DEF RunSilverToGold, StartAgg, Owners
  <2> QED BY <1>1, <2>1, Told
<1>7. TypeOK'
  <2>1. CrawlTypeOK'
    BY <1>1, <1>2 DEF TypeOK, CrawlTypeOK, crawlVars
  <2>2. agg' \in AggRun
    <3>1. (etl.stage # "idle") \in BOOLEAN /\ agg.last \in Ends /\ NoReport \in [Transactions -> Nat]
      BY <1>1, Fields DEF NoReport
    <3> QED BY <1>2, <3>1 DEF AggRun, AggStages, Owners
  <2>3. JobsTypeOK'
    BY <1>1, <1>2, <1>6, <2>2 DEF TypeOK, JobsTypeOK, etlVars
  <2>4. \A q \in Pipelines : Watches(q)'
    <3> SUFFICES ASSUME NEW q \in Pipelines PROVE Watches(q)'
      OBVIOUS
    <3>1. Watches(q) /\ Watches(p) /\ q # Nobody /\ etl' = etl
      BY <1>1, <1>2, Tables DEF TypeOK, etlVars
    <3>2. etl.owner # p
      BY <1>2, <3>1 DEF Watches
    <3>3. CASE q = p
      BY <1>3, <1>5, <1>6, <3>1, <3>2, <3>3 DEF Watches
    <3>4. CASE q # p
      BY <1>2, <1>3, <1>5, <1>6, <3>1, <3>4 DEF Watches
    <3> QED BY <3>3, <3>4
  <2>5. torn' = torn
    BY <1>2 DEF etlVars
  <2> QED BY <1>1, <1>2, <1>5, <2>1, <2>3, <2>4, <2>5 DEF TypeOK
<1>8. EtlInv' /\ CustomersInv'
  <2>1. faults' \in Nat
    BY <1>1, <1>2, Counts
  <2> QED BY <1>2, <2>1, AggStepEtl
<1>9. GoldInv'
  <2>1. \A f \in Transactions : NoReport[f] <= silver[f]
    BY <1>1, Counts
  <2>2. silver' = silver /\ etl' = etl
    BY <1>2 DEF etlVars
  <2> QED BY <1>1, <1>2, <1>3, <1>4, <2>1, <2>2 DEF GoldInv, GoldMatchesSilver, Reports
<1>10. SeenInv'
  <2> SUFFICES ASSUME NEW q \in Pipelines
               PROVE  (seen[q] \subseteq bronze /\ Found(q) /\ Loaded(q))'
    BY DEF SeenInv
  <2>1. seen[q] \subseteq bronze /\ Found(q) /\ Loaded(q)
    BY DEF PipelineInv, SeenInv
  <2>2. (seen[q] \subseteq bronze)'
    BY <1>2, <2>1 DEF crawlVars
  <2>3. Found(q)'
    BY <1>2, <1>5, <2>1 DEF Found, Crawling, FoldersOf, crawlVars
  <2>4. Loaded(q)'
    BY <1>2, <1>5, <1>6, <2>1 DEF Loaded, Loading, etlVars
  <2> QED BY <2>2, <2>3, <2>4
<1>11. ReportsInv'
  BY <1>3 DEF ReportsInv, Reported
<1> QED BY <1>7, <1>8, <1>9, <1>10, <1>11 DEF PipelineInv

-----------------------------------------------------------------------------
(* Stuttering steps.                                                       *)
LEMMA StutterInv ==
  ASSUME PipelineInv, UNCHANGED vars
  PROVE  PipelineInv'
<1> USE DEF vars, crawlVars, jobVars, etlVars, goldVars, scripts
<1>1. TypeOK'
  <2>1. CrawlTypeOK' /\ JobsTypeOK'
    BY DEF PipelineInv, TypeOK, CrawlTypeOK, JobsTypeOK
  <2> QED BY <2>1 DEF PipelineInv, TypeOK, Watches
<1>2. EtlInv' /\ CustomersInv'
  <2>1. TypeOK
    BY DEF PipelineInv
  <2>2. faults' \in Nat /\ faults' = faults
    BY <2>1, Counts
  <2> QED BY <2>2, AggStepEtl
<1>3. GoldInv'
  BY DEF PipelineInv, GoldInv, GoldMatchesSilver, SilverTransactions
<1>4. SeenInv'
  BY AggStepSeen
<1>5. ReportsInv'
  BY EtlStepReports
<1> QED BY <1>1, <1>2, <1>3, <1>4, <1>5 DEF PipelineInv

(* Every step preserves the invariant.                                     *)
LEMMA NextInv == PipelineInv /\ [Next]_vars => PipelineInv'
<1> SUFFICES ASSUME PipelineInv, [Next]_vars PROVE PipelineInv'
  OBVIOUS
<1>1. CASE CrawlNext /\ UNCHANGED <<jobVars, scripts>>
  BY <1>1, UploadInv, ListFoldersInv, CrawlSucceedsInv, CrawlFailsInv DEF CrawlNext
<1>2. CASE Working /\ UNCHANGED <<crawlVars, faults>> /\ UNCHANGED scripts
  BY <1>2, ProcessTransactionsInv, ProcessCustomersInv, WritePartInv, ProcessEventsInv,
     CommitEtlInv, ReadSilverInv, WriteReportInv, CommitAggInv DEF Working
<1>3. CASE (EtlFails \/ ReadFails \/ AggFails) /\ UNCHANGED scripts
  BY <1>3, EtlFailsInv, ReadFailsInv, AggFailsInv
<1>4. CASE OthersCrawl
  BY <1>4, OthersCrawlInv
<1>5. ASSUME NEW p \in Pipelines,
             \/ \E skip \in BOOLEAN : Start(p, skip)
             \/ RunCrawler(p) \/ JoinCrawler(p) \/ CrawlerReady(p)
      PROVE  PipelineInv'
  BY <1>5, StartInv, RunCrawlerInv, JoinCrawlerInv, CrawlerReadyInv
<1>6. ASSUME NEW p \in Pipelines,
             \/ RunBronzeToSilver(p) \/ RunSilverToGold(p)
             \/ RunRefused(p) \/ RunEnds(p) \/ GiveUp(p)
      PROVE  PipelineInv'
  BY <1>6, RunBronzeToSilverInv, RunSilverToGoldInv, RunRefusedInv, RunEndsInv, GiveUpInv
<1>7. CASE UNCHANGED vars
  BY <1>7, StutterInv
<1> QED BY <1>1, <1>2, <1>3, <1>4, <1>5, <1>6, <1>7 DEF Next, JobsNext

(* The invariant holds in every reachable state.                           *)
THEOREM AlwaysPipelineInv == Spec => []PipelineInv
BY InitInv, NextInv, PTL DEF Spec

(* Every variable has its type, and each script watches its own run only.  *)
THEOREM PipelineTypeOK == Spec => []TypeOK
<1>1. PipelineInv => TypeOK
  BY DEF PipelineInv
<1> QED BY <1>1, AlwaysPipelineInv, PTL

(* The silver layer holds the rows of an appended file once for the run    *)
(* that committed it, and once for each run that failed after writing it.  *)
THEOREM RunsAreCounted == Spec => []SilverCountsRuns
<1>1. PipelineInv => SilverCountsRuns
  BY DEF PipelineInv, EtlInv
<1> QED BY <1>1, AlwaysPipelineInv, PTL

(* Between two runs the customers are missing only if none were ever read, *)
(* or the last run failed.                                                 *)
THEOREM CustomersMissingOnlyAfterFailure == Spec => []CustomersEmptyOnlyAfterFailure
<1>1. PipelineInv => CustomersEmptyOnlyAfterFailure
  BY DEF PipelineInv, CustomersInv, Settled, CustomersEmptyOnlyAfterFailure
<1> QED BY <1>1, AlwaysPipelineInv, PTL

(* A successful aggregation that could read leaves the three reports in    *)
(* agreement, and with the silver layer if nothing wrote to it meanwhile.  *)
THEOREM ReportsAgree == Spec => []GoldMatchesSilver
<1>1. PipelineInv => GoldMatchesSilver
  BY DEF PipelineInv, GoldInv
<1> QED BY <1>1, AlwaysPipelineInv, PTL

(* A pipeline that reports success after its own crawl has brought what it *)
(* found at its start into the silver layer and into the reports.          *)
THEOREM SuccessMeansCovered == Spec => []SuccessCoversBronze
<1>1. PipelineInv => SuccessCoversBronze
  BY DEF PipelineInv, SeenInv, Loaded, ReportsInv, Reported, Aggregated, SuccessCoversBronze
<1> QED BY <1>1, AlwaysPipelineInv, PTL
=============================================================================
