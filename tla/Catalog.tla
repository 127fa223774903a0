--------------------------------- MODULE Catalog ---------------------------------
(***************************************************************************)
(* The offline side of the assistant: the scraper and the ingest service,  *)
(* side by side over one product file, killed and run again at any point.  *)
(* One instance of each runs at a time; the disk itself does not fail.     *)
(***************************************************************************)
EXTENDS Scraper, Ingest

catalogVars == << file, scraperVars, kills, ingestVars >>

(* Both scripts keep to the types of their variables: the category to     *)
(* those there are, what a run works on to lines of the file.              *)
CatalogTypeOK == ScraperTypeOK /\ IngestTypeOK

CatalogInit == ScraperInit /\ IngestInit

ScrapeStep == ScraperNext /\ UNCHANGED ingestVars

IngestStep == IngestNext /\ UNCHANGED << file, scraperVars, kills >>

IngestKilled ==
  /\ KillIngest
  /\ kills < MaxKills
  /\ kills' = kills + 1
  /\ UNCHANGED << file, scraperVars >>

CatalogNext == ScrapeStep \/ IngestStep \/ IngestKilled

CatalogSpec == CatalogInit /\ [][CatalogNext]_catalogVars

(*------------------------------ properties -----------------------------*)

(* However often the scraper is killed and run again, it damages at most   *)
(* the end of the file and one record inside it, onto which another was    *)
(* written: a line that does not parse stops every later run before it     *)
(* appends.                                                                *)
DamageIsConfined ==
  \A i, j \in DOMAIN file :
    /\ file[i].text = "torn" => i = Len(file)
    /\ i < Len(file) /\ j < Len(file)
         /\ file[i].text = "unended" /\ file[j].text = "unended" => i = j

(* A product has one row at most: over crashes and reruns of both scripts, *)
(* a commit whose answer was lost, and lines that are still being written  *)
(* or were damaged.  No constraint of the database says so.                *)
NoDuplicateRows == \A u \in Urls : rows[u] <= 1

(* A run that ends without an error has a row for every new product of the *)
(* file it loaded, but for those it skipped; whichever of them fell on a   *)
(* batch boundary.                                                         *)
FinishedRunIsComplete ==
  ingestEnded \in {"finished", "unindexed"} =>
    \A i \in loaded \ skipped : rows[file[i].url] > 0

(* An index that can be loaded never names a product without a row, also   *)
(* when it is saved between two batches or was left by an earlier run; and *)
(* the one a successful run leaves names every row.                        *)
IndexMatchesRows ==
  disk[SaveDir].state = "complete" =>
    /\ disk[SaveDir].urls \subseteq Indexed
    /\ ingestEnded = "finished" => disk[SaveDir].urls = Indexed

(* The products on the category pages, as far as the scraper turns them:   *)
(* the first page that is short counts as the last one of its category.    *)
IsReached(c, p) ==
  \A q \in DOMAIN Pages[c] : q < p => Cardinality(Pages[c][q]) >= PageSize

Listed ==
  { u \in Urls : \E c \in DOMAIN Pages : \E p \in DOMAIN Pages[c] :
      u \in Pages[c][p] /\ IsReached(c, p) }

(* After a run of the scraper that was not handed cached links and lost no *)
(* category page, the ingest service can read a record of every product    *)
(* listed, but for those whose page could not be fetched.  If a run was    *)
(* killed, the two records that share the line it left without a newline   *)
(* can be missing too, and nothing else.                                   *)
ScrapeIsComplete ==
  scrapeEnded = "finished" /\ collected = "all" =>
    LET lost == Listed \ (missed \cup ReadableUrls(file)) IN
    /\ kills = 0 => lost = {}
    /\ \A u \in lost : \E k \in DOMAIN file :
         /\ k < Len(file) /\ file[k].text = "unended"
         /\ u \in { file[k].url, file[k + 1].url }

Shows(row, shown) ==
  /\ shown.name /\ shown.stock /\ shown.category
  /\ \/ row.price = shown.price.amount
     \/ shown.price.form = "grouped" /\ row.price * 1000 = shown.price.amount
  /\ row.reviews \in
       { {}, { r \in shown.reviews : r.title = "words" /\ r.text = "words" } }

(* A row says what the shop showed, whatever the records went through on   *)
(* the way and however the reads and lines of two runs overlap: a price    *)
(* is right unless its digits were grouped, and then a thousandth; of the  *)
(* reviews it has all those with words, or, when their page was not read,  *)
(* none; and a page that came back blank or has no category leaves none.   *)
RowsShowTheShop ==
  \A u \in Urls : \A row \in stored[u] :
    \E shown \in Shop[u] : Shows(row, shown)

Searchable ==
  IF disk[SaveDir].state = "complete" THEN disk[SaveDir].urls ELSE {}

Lifecycle ==
  INSTANCE CatalogLifecycle
    WITH recorded <- UrlsOf(file), inserted <- Indexed,
         searchable <- Searchable

(* The scripts implement CatalogLifecycle: a row is only ever made of a    *)
(* record, once and never undone, and an index that is saved holds all the *)
(* rows there are by then, those of earlier runs included.                 *)
ImplementsLifecycle == Lifecycle!Spec

(* tests/test_bm25s_keyword.py loads the index from                        *)
(* data/bm25_cache/thomann_product_index_bm25, as LLMService does: after   *)
(* an ingest that saved its index, that directory holds one.               *)
SavedIndexIsLoaded == ingestEnded = "finished" => LoadsRetriever
===============================================================================
