----------------------------- MODULE GlueCrawler -----------------------------
(***************************************************************************)
(* The bronze layer and the crawler that catalogues it                     *)
(* (integrations/glue/template.yaml).  A file is read by the jobs when the *)
(* folder it lies in is a partition of the catalogue; the crawler adds the *)
(* folders it has not seen before.                                         *)
(***************************************************************************)
EXTENDS Naturals, FiniteSets

CONSTANTS
  Files,    \* the bronze files there may be
  Folders,
  FolderOf, \* the folder of each file
  MaxFaults \* bound on calls, crawls and runs that fail

ASSUME CrawlerAssumption ==
  /\ FolderOf \in [Files -> Folders]
  /\ MaxFaults \in Nat

VARIABLES
  bronze,  \* the files under bronze/
  catalog, \* the folders that are partitions
  crawler, \* GetCrawler: its state, its LastCrawl, and what it has listed
  faults

crawlVars == <<bronze, catalog, crawler>>

CrawlTypeOK ==
  /\ bronze \in SUBSET Files
  /\ catalog \in SUBSET Folders
  /\ crawler \in [state : {"READY", "RUNNING", "STOPPING"},
                  last : {"UNKNOWN", "SUCCEEDED", "FAILED"}, listed : SUBSET Folders]
  /\ faults \in 0 .. MaxFaults

CrawlInit ==
  /\ bronze = {}
  /\ catalog = {}
  /\ crawler = [state |-> "READY", last |-> "UNKNOWN", listed |-> {}]
  /\ faults = 0

Fault == faults < MaxFaults /\ faults' = faults + 1

FoldersOf(files) == {FolderOf[f] : f \in files}

InCatalog(files) == {f \in files : FolderOf[f] \in catalog}

(* generate_sample_data.py, or whoever writes to the volume.               *)
Upload(f) ==
  /\ f \notin bronze
  /\ bronze' = bronze \cup {f}
  /\ UNCHANGED <<catalog, crawler, faults>>

(* start_crawler(), which raises CrawlerRunningException unless READY.     *)
StartCrawler ==
  /\ crawler.state = "READY"
  /\ crawler' = [crawler EXCEPT !.state = "RUNNING", !.listed = {}]
  /\ UNCHANGED <<bronze, catalog, faults>>

(* CRAWL_NEW_FOLDERS_ONLY                                                  *)
ListFolders ==
  /\ crawler.state = "RUNNING"
  /\ crawler' = [crawler EXCEPT !.state = "STOPPING", !.listed = FoldersOf(bronze)]
  /\ UNCHANGED <<bronze, catalog, faults>>

CrawlSucceeds ==
  /\ crawler.state = "STOPPING"
  /\ catalog' = catalog \cup crawler.listed
  /\ crawler' = [crawler EXCEPT !.state = "READY", !.last = "SUCCEEDED", !.listed = {}]
  /\ UNCHANGED <<bronze, faults>>

CrawlFails ==
  /\ crawler.state # "READY"
  /\ Fault
  /\ crawler' = [crawler EXCEPT !.state = "READY", !.last = "FAILED", !.listed = {}]
  /\ UNCHANGED <<bronze, catalog>>

CrawlNext ==
  \/ \E f \in Files : Upload(f)
  \/ ListFolders
  \/ CrawlSucceeds
  \/ CrawlFails
=============================================================================
