--------------------------------- MODULE Ingest ---------------------------------
(***************************************************************************)
(* DataIngestService: a script that reads the product file, describes and  *)
(* embeds each new product, inserts the products in batches into the       *)
(* database, and rebuilds the BM25 index on disk after each batch.  It is  *)
(* run again after it failed or was killed, and then goes by the rows.     *)
(***************************************************************************)
EXTENDS ProductFile, FiniteSets

CONSTANTS
  Interval,     \* product_db_insert_interval: 100 in the code
  LoadDir,      \* BM25_CACHE_DIR, where LLMService loads the index from
  SaveDir       \* BM25_CACHE_DIR/thomann_product_index_bm25

ASSUME IngestAssumption ==
  /\ Interval \in Nat \ {0}
  /\ LoadDir # SaveDir

VARIABLES
  rows,         \* products with their embedding and reviews: rows per url
  stored,       \* what those rows say
  disk,         \* the index directories
  ingesting,    \* what the service is doing
  known,        \* existing_urls, read once
  todo,         \* lines of products_list that the loop has still to take
  idx,          \* of enumerate(products_list)
  batch,        \* lines in products_to_insert
  corpus,       \* what the index is being built from
  closing,      \* the loop is over
  loaded,       \* history: lines of the whole products_list
  skipped,      \* history: those the loop skipped
  ingestEnded   \* history: how the last run ended

ingestMemory == << known, todo, idx, batch, corpus, closing, loaded, skipped >>
ingestVars == << rows, stored, disk, ingesting, ingestMemory,
                 ingestEnded >>

Dirs == { LoadDir, SaveDir }
Lines == DOMAIN file
Indexed == { u \in Urls : rows[u] > 0 }

IngestTypeOK ==
  /\ rows \in [Urls -> Nat]
  /\ stored \in [Urls -> SUBSET Rows]
  /\ disk \in [Dirs -> [ state : {"none", "partial", "complete"},
                         urls  : SUBSET Urls ]]
  /\ ingesting \in { "off", "load", "work", "insert", "index", "save" }
  /\ known \in SUBSET Urls
  /\ todo \in SUBSET Lines
  /\ idx \in Nat
  /\ batch \in SUBSET Lines
  /\ corpus \in SUBSET Urls
  /\ closing \in BOOLEAN
  /\ loaded \in SUBSET Lines
  /\ skipped \in SUBSET Lines
  /\ ingestEnded \in { "none", "killed", "raised", "finished", "unindexed" }

IngestInit ==
  /\ rows = [u \in Urls |-> 0]
  /\ stored = [u \in Urls |-> {}]
  /\ disk = [d \in Dirs |-> [state |-> "none", urls |-> {}]]
  /\ ingesting = "off"
  /\ known = {} /\ todo = {} /\ idx = 0 /\ batch = {} /\ corpus = {}
  /\ closing = FALSE /\ loaded = {} /\ skipped = {} /\ ingestEnded = "none"

(* get_all_product_urls, in a session of its own.                          *)
StartIngest ==
  /\ ingesting = "off"
  /\ ingesting' = "load"
  /\ known' = Indexed
  /\ todo' = {} /\ idx' = 0 /\ batch' = {} /\ corpus' = {}
  /\ closing' = FALSE /\ loaded' = {} /\ skipped' = {} /\ ingestEnded' = "none"
  /\ UNCHANGED << rows, stored, disk >>

StopIngest(why) ==
  /\ ingesting' = "off"
  /\ ingestEnded' = why
  /\ UNCHANGED ingestMemory

(* Mutant: the rows of an earlier run are not looked up.                   *)
FreshIgnoringRows == { i \in Lines : Readable(file, i) }

Fresh == { i \in Lines : Readable(file, i) /\ file[i].url \notin known }

(* Every new record is validated before the first one is processed: one    *)
(* that is rejected ends the run, as a file that is not there does.  Lines *)
(* that do not parse are passed over, but a record torn inside a character *)
(* of several bytes is no text at all: UnicodeDecodeError is not caught.   *)
LoadFile ==
  /\ ingesting = "load"
  /\ \/ /\ file = << >> \/ \E i \in Fresh : ~ IsAccepted(file[i].source)
        /\ StopIngest("raised")
     \/ /\ \E i \in Lines : file[i].text = "torn"
        /\ StopIngest("raised")
     \/ /\ \A i \in Fresh : IsAccepted(file[i].source)
        /\ ingesting' = "work"
        /\ todo' = Fresh
        /\ loaded' = Fresh
        /\ UNCHANGED << known, idx, batch, corpus, closing, skipped,
                        ingestEnded >>
  /\ UNCHANGED << rows, stored, disk >>

(* A product is skipped for want of a category, of a description that is   *)
(* long enough, or of an embedding after four attempts.                    *)
ProcessProduct ==
  /\ ingesting = "work"
  /\ \E i \in todo :
       /\ \A j \in todo : i <= j
       /\ IsNumber(file[i].source.price)
       /\ \/ /\ skipped' = skipped \cup {i}
             /\ UNCHANGED << batch, ingesting >>
          \/ /\ file[i].source.category
             /\ batch' = batch \cup {i}
             /\ ingesting' = IF idx % Interval = 0 THEN "insert" ELSE "work"
             /\ UNCHANGED skipped
       /\ todo' = todo \ {i}
  /\ idx' = idx + 1
  /\ UNCHANGED << rows, stored, disk, known, corpus, closing, loaded,
                  ingestEnded >>

(* A price that is no number or an LLM answer that is no JSON.             *)
ProductRaises ==
  /\ ingesting = "work"
  /\ todo # {}
  /\ StopIngest("raised")
  /\ UNCHANGED << rows, stored, disk >>

(* Mutant: the rest of the last batch is not inserted.                     *)
EndLoopWithoutRest ==
  /\ ingesting = "work"
  /\ todo = {}
  /\ closing' = TRUE
  /\ ingesting' = "index"
  /\ UNCHANGED << rows, stored, disk, known, todo, idx, batch, corpus, loaded,
                  skipped, ingestEnded >>

EndLoop ==
  /\ ingesting = "work"
  /\ todo = {}
  /\ closing' = TRUE
  /\ ingesting' = IF batch # {} THEN "insert" ELSE "index"
  /\ UNCHANGED << rows, stored, disk, known, todo, idx, batch, corpus, loaded,
                  skipped, ingestEnded >>

Inserted ==
  [ u \in Urls |-> rows[u] + Cardinality({ i \in batch : file[i].url = u }) ]

Commit ==
  /\ rows' = Inserted
  /\ stored' = [ u \in Urls |->
       stored[u] \cup { Row(file[i].source) :
                         i \in { j \in batch : file[j].url = u } } ]

(* One transaction; when the call raises, it may have been committed.  The *)
(* lists are emptied (after the last insert they are not used again).      *)
InsertBatch ==
  /\ ingesting = "insert"
  /\ \/ /\ Commit
        /\ batch' = {}
        /\ ingesting' = "index"
        /\ UNCHANGED << known, todo, idx, corpus, closing, loaded, skipped,
                        ingestEnded >>
     \/ /\ Commit \/ UNCHANGED << rows, stored >>
        /\ StopIngest("raised")
  /\ UNCHANGED disk

(* After the retriever was created, or an error of that was logged.        *)
Resume(saved) ==
  /\ ingesting' = IF closing THEN "off" ELSE "work"
  /\ ingestEnded' = IF ~ closing THEN ingestEnded
                    ELSE IF saved THEN "finished" ELSE "unindexed"

(* Mutant: only the products of this run are read into the new index.      *)
ReadNewCorpus ==
  /\ ingesting = "index"
  /\ corpus' = Indexed \ known
  /\ ingesting' = "save"
  /\ UNCHANGED << rows, stored, disk, known, todo, idx, batch, closing, loaded,
                  skipped, ingestEnded >>

(* get_all_product_emb_info; what raises from here on is only logged.      *)
ReadCorpus ==
  /\ ingesting = "index"
  /\ \/ /\ corpus' = Indexed
        /\ ingesting' = "save"
        /\ UNCHANGED ingestEnded
     \/ /\ Resume(FALSE)
        /\ UNCHANGED corpus
  /\ UNCHANGED << rows, stored, disk, known, todo, idx, batch, closing, loaded,
                  skipped >>

(* BM25.save replaces the files of the directory one after another, and    *)
(* may raise between two of them; an empty corpus cannot be indexed.       *)
SaveIndex ==
  /\ ingesting = "save"
  /\ \/ /\ corpus # {}
        /\ disk[SaveDir].state # "partial"
        /\ disk' = [disk EXCEPT ![SaveDir].state = "partial"]
        /\ UNCHANGED << ingesting, ingestEnded >>
     \/ /\ corpus # {}
        /\ disk' = [disk EXCEPT
                     ![SaveDir] = [state |-> "complete", urls |-> corpus]]
        /\ Resume(TRUE)
     \/ /\ UNCHANGED disk
        /\ Resume(FALSE)
  /\ UNCHANGED << rows, stored, ingestMemory >>

KillIngest ==
  /\ ingesting # "off"
  /\ StopIngest("killed")
  /\ UNCHANGED << rows, stored, disk >>

(* LLMService.__init__ loads the index when a worker starts.  BM25.load    *)
(* opens the files it expects and does not ask whether one save wrote them *)
(* all, so a directory that is partly overwritten loads as well.           *)
LoadsRetriever == disk[LoadDir].state # "none"

IngestNext ==
  \/ StartIngest \/ LoadFile \/ ProcessProduct \/ ProductRaises \/ EndLoop
  \/ InsertBatch \/ ReadCorpus \/ SaveIndex
===============================================================================
