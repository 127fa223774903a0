------------------------------ MODULE CatalogProofs ------------------------------
(***************************************************************************)
(* The safety of the catalog for every shop, batch interval and number of  *)
(* kills.  IInv is inductive; each script has a lemma for its own part of  *)
(* it, and the ingest one more, for the steps the scraper makes meanwhile: *)
(* all it needs of them is that the file only grows.  On top of it: that a *)
(* scrape is complete, and that the scripts implement CatalogLifecycle.    *)
(***************************************************************************)
EXTENDS Catalog, FiniteSetTheorems, TLAPS

OneLinePerUrl ==
  \A i, j \in DOMAIN file : file[i].url = file[j].url => i = j

(* A run that got past loading the file started from one without damage,   *)
(* so that only the record that was last then may be unended.              *)
ScraperInv ==
  /\ DamageIsConfined
  /\ OneLinePerUrl
  /\ scraping \in {"scrape", "write"} => toVisit \cap UrlsOf(file) = {}
  /\ scraping = "scrape" =>
       \A i, j \in DOMAIN file :
         /\ file[i].text # "torn"
         /\ file[i].text = "unended" /\ file[j].text = "unended" => i = j
  /\ scraping = "write" => Len(file) > 0

Working == ingesting \in { "work", "insert", "index", "save" }

(* What the run has still to insert has no row, and what it has taken on   *)
(* is in one of the places where it can be.                                *)
BatchInv ==
  Working =>
    /\ \A i \in todo \cup batch : rows[file[i].url] = 0
    /\ todo \cap batch = {}
    /\ \A i \in loaded :
         i \in todo \cup batch \cup skipped \/ rows[file[i].url] > 0
    /\ closing => todo = {}
    /\ ingesting \in {"index", "save"} => batch = {}

IngestInv ==
  /\ NoDuplicateRows
  /\ FinishedRunIsComplete
  /\ IndexMatchesRows
  /\ BatchInv
  /\ ingesting # "off" => ingestEnded = "none"
  /\ ingesting = "load" => known = Indexed /\ batch = {} /\ closing = FALSE
  /\ ingesting = "save" => corpus = Indexed

RecordsAreScraped ==
  \A i \in DOMAIN file :
    \E shown \in Shop[file[i].url] : file[i].source \in Scraped(shown)

(* What the loop has still to take passed the validation, and what it put  *)
(* into the batch passed its own tests as well.                            *)
BatchIsSound ==
  Working =>
    /\ \A i \in todo \cup batch : IsAccepted(file[i].source)
    /\ \A i \in batch :
         file[i].source.category /\ IsNumber(file[i].source.price)

ContentInv == RecordsAreScraped /\ BatchIsSound /\ RowsShowTheShop

IInv == CatalogTypeOK /\ ScraperInv /\ IngestInv /\ ContentInv

(* All that the ingest service sees of the scraper.                        *)
FileGrows ==
  /\ DOMAIN file \subseteq DOMAIN file'
  /\ \A i \in DOMAIN file :
       file'[i].url = file[i].url /\ file'[i].source = file[i].source

(*------------------------------ the scraper ------------------------------*)

LEMMA InitInv == ASSUME CatalogInit PROVE IInv
<1>1. file = << >> /\ Len(file) = 0 /\ DOMAIN file = {}
  BY DEF CatalogInit, ScraperInit
<1>2. ScraperTypeOK
  <2>1. file \in Seq(Records)
    BY <1>1
  <2>2. 1 \in DOMAIN Pages /\ 0 \in 0..MaxKills
    BY ScraperAssumption
  <2> QED BY <2>1, <2>2 DEF CatalogInit, ScraperInit, ScraperTypeOK
<1>3. IngestTypeOK
  BY DEF CatalogInit, IngestInit, IngestTypeOK, Lines
<1>4. ScraperInv
  BY <1>1
  DEF CatalogInit, ScraperInit, ScraperInv, DamageIsConfined, OneLinePerUrl
<1>5. IngestInv
  BY IngestAssumption
  DEF CatalogInit, IngestInit, IngestInv, NoDuplicateRows,
      FinishedRunIsComplete, IndexMatchesRows, BatchInv, Working, Dirs
<1>6. ContentInv
  BY <1>1 DEF CatalogInit, IngestInit, ContentInv, RecordsAreScraped,
              BatchIsSound, RowsShowTheShop, Working
<1> QED BY <1>2, <1>3, <1>4, <1>5, <1>6 DEF IInv, CatalogTypeOK

LEMMA ScrapedAreSources ==
  ASSUME NEW shown \in Sources
  PROVE  Scraped(shown) \subseteq Sources
<1>1. BlankRecord \in Sources
  BY DEF BlankRecord, Sources, Prices, PriceForms
<1>2. \A got \in {shown.reviews, {}} : [shown EXCEPT !.reviews = got] \in Sources
  <2> DEFINE P == Prices
             R == SUBSET Reviews
  <2>1. shown \in [ name : BOOLEAN, price : P, stock : BOOLEAN,
                    category : BOOLEAN, reviews : R ]
    BY DEF Sources
  <2>2. {} \in R
    OBVIOUS
  <2> HIDE DEF P, R
  <2>3. \A got \in R :
          [shown EXCEPT !.reviews = got]
            \in [ name : BOOLEAN, price : P, stock : BOOLEAN,
                  category : BOOLEAN, reviews : R ]
    BY <2>1
  <2>4. shown.reviews \in R
    BY <2>1
  <2> QED BY <2>2, <2>3, <2>4 DEF P, R, Sources
<1> QED BY <1>1, <1>2 DEF Scraped

(* An append of a torn record.                                             *)
LEMMA AppendGrows ==
  ASSUME file \in Seq(Records), NEW u \in Urls, NEW source \in Sources,
         file' = Append(file, [url |-> u, source |-> source, text |-> "torn"])
  PROVE  /\ file' \in Seq(Records)
         /\ Len(file') = Len(file) + 1
         /\ \A i \in DOMAIN file : file'[i] = file[i]
         /\ file'[Len(file')].url = u
         /\ file'[Len(file')].source = source
         /\ file'[Len(file')].text = "torn"
         /\ FileGrows
<1>1. [url |-> u, source |-> source, text |-> "torn"] \in Records
  BY DEF Records, Texts
<1>2. file' \in Seq(Records) /\ Len(file') = Len(file) + 1
  BY <1>1
<1>3. \A i \in DOMAIN file : file'[i] = file[i]
  BY <1>1
<1>4. file'[Len(file')] = [url |-> u, source |-> source, text |-> "torn"]
  BY <1>1
<1>5. DOMAIN file = 1..Len(file) /\ DOMAIN file' = 1..Len(file')
  BY <1>2
<1> QED BY <1>2, <1>3, <1>4, <1>5 DEF FileGrows

(* Progress of the write of the last record.                               *)
LEMMA WriteGrows ==
  ASSUME file \in Seq(Records), Len(file) > 0, NEW t \in Texts,
         file' = [file EXCEPT ![Len(file)].text = t]
  PROVE  /\ file' \in Seq(Records)
         /\ Len(file') = Len(file)
         /\ \A i \in DOMAIN file : i # Len(file) => file'[i] = file[i]
         /\ \A i \in DOMAIN file :
              file'[i].url = file[i].url /\ file'[i].source = file[i].source
         /\ file'[Len(file)].text = t
         /\ FileGrows
<1> DEFINE n == Len(file)
<1>1. n \in DOMAIN file /\ file[n] \in Records
  OBVIOUS
<1>2. file' = [file EXCEPT ![n] = [file[n] EXCEPT !.text = t]]
  OBVIOUS
<1>3. /\ [file[n] EXCEPT !.text = t] \in Records
      /\ [file[n] EXCEPT !.text = t].url = file[n].url
      /\ [file[n] EXCEPT !.text = t].source = file[n].source
      /\ [file[n] EXCEPT !.text = t].text = t
  BY <1>1 DEF Records
<1>4. file' \in Seq(Records) /\ Len(file') = n /\ DOMAIN file' = DOMAIN file
  BY <1>1, <1>2, <1>3
<1>5. \A i \in DOMAIN file : i # n => file'[i] = file[i]
  BY <1>1, <1>2
<1>6. file'[n] = [file[n] EXCEPT !.text = t]
  BY <1>1, <1>2
<1> QED BY <1>3, <1>4, <1>5, <1>6 DEF FileGrows

(* What each step of the scraper does to its own part of IInv, and that it *)
(* leaves the file or lets it grow.                                        *)
LEMMA ScraperKeeps ==
  ASSUME ScraperTypeOK, ScraperInv, ScraperNext
  PROVE  ScraperTypeOK' /\ ScraperInv' /\ FileGrows
<1> USE DEF ScraperTypeOK, scraperVars, scraperMemory, scraperHistory
<1>0. ASSUME UNCHANGED file PROVE FileGrows
  BY <1>0 DEF FileGrows
<1>00. DOMAIN file = 1..Len(file) /\ Len(file) \in Nat
  OBVIOUS
<1>1. CASE StartScraper
  <2>1. ScraperTypeOK'
    BY <1>1, ScraperAssumption DEF StartScraper
  <2>2. ScraperInv'
    BY <1>1 DEF StartScraper, ScraperInv, DamageIsConfined, OneLinePerUrl,
                UrlsOf
  <2> QED BY <2>1, <2>2, <1>0, <1>1 DEF StartScraper
<1>2. CASE CollectPage
  <2>1. PageLinks \in SUBSET Urls
    BY ScraperAssumption DEF PageLinks
  <2>2. PICK got \in {PageLinks, {}} :
          /\ collected' = IF got = PageLinks THEN collected ELSE "cut"
          /\ \/ NextPage(found \cup got)
             \/ EndCategory(found \cup got)
    BY <1>2 DEF CollectPage
  <2>3. UNCHANGED << file, toVisit, missed, scrapeEnded, kills >>
    BY <1>2 DEF CollectPage
  <2>4. found \cup got \in SUBSET Urls
    BY <2>1, <2>2
  <2>5. CASE NextPage(found \cup got)
    <3>1. ScraperTypeOK'
      BY <2>2, <2>3, <2>4, <2>5 DEF NextPage
    <3>2. ScraperInv'
      BY <2>3, <2>5, <1>2 DEF NextPage, CollectPage, ScraperInv,
           DamageIsConfined, OneLinePerUrl, UrlsOf
    <3> QED BY <3>1, <3>2, <1>0, <2>3
  <2>6. CASE EndCategory(found \cup got)
    <3>1. category' \in DOMAIN Pages
      BY <2>6, ScraperAssumption DEF EndCategory
    <3>2. ScraperTypeOK'
      <4> HIDE DEF ScraperTypeOK
      <4>1. /\ links' \in SUBSET Urls /\ found' \in SUBSET Urls
            /\ page' = 1 /\ linkCache' = linkCache
            /\ scraping' \in {scraping, "load"}
        BY <2>4, <2>6 DEF EndCategory, ScraperTypeOK
      <4> QED BY <4>1, <2>2, <2>3, <3>1 DEF ScraperTypeOK
    <3>3. ScraperInv'
      BY <2>3, <2>6, <1>2 DEF EndCategory, CollectPage, ScraperInv,
           DamageIsConfined, OneLinePerUrl, UrlsOf
    <3> QED BY <3>2, <3>3, <1>0, <2>3
  <2> QED BY <2>2, <2>5, <2>6
<1>3. CASE LoadScraped
  <2>1. ScraperTypeOK'
    BY <1>3 DEF LoadScraped, StopScraper
  <2>2. UNCHANGED file
    BY <1>3 DEF LoadScraped
  <2>3. ASSUME scraping' = "off" PROVE ScraperInv'
    BY <2>2, <2>3 DEF ScraperInv, DamageIsConfined, OneLinePerUrl
  <2>4. ASSUME scraping' = "scrape" PROVE ScraperInv'
    <3>1. Parses(file) /\ toVisit' = links \ UrlsOf(file)
      BY <1>3, <2>4 DEF LoadScraped, StopScraper
    <3>2. \A i \in DOMAIN file :
            file[i].text # "torn" /\ (file[i].text = "unended" => i = Len(file))
      BY <3>1 DEF Parses, Readable
    <3> QED BY <2>2, <2>4, <3>1, <3>2
            DEF ScraperInv, DamageIsConfined, OneLinePerUrl, UrlsOf
  <2>5. scraping' \in {"off", "scrape"}
    BY <1>3 DEF LoadScraped, StopScraper
  <2> QED BY <2>1, <2>2, <2>3, <2>4, <2>5, <1>0
<1>4. CASE ScrapeProduct
  <2>1. PICK u \in toVisit :
          /\ toVisit' = toVisit \ {u}
          /\ \/ /\ missed' = missed \cup {u}
                /\ UNCHANGED << file, scraping >>
             \/ /\ \E source \in Sources :
                     file' = Append(file, [ url    |-> u,
                                            source |-> source,
                                            text   |-> "torn" ])
                /\ scraping' = "write"
                /\ UNCHANGED missed
    <3>1. \A u \in toVisit : \A shown \in Shop[u] : Scraped(shown) \subseteq Sources
      BY ScraperAssumption, ScrapedAreSources
    <3> QED BY <1>4, <3>1 DEF ScrapeProduct
  <2>2. /\ scraping = "scrape"
        /\ UNCHANGED << linkCache, category, page, found, links,
                        collected, scrapeEnded, kills >>
    BY <1>4 DEF ScrapeProduct
  <2>3. CASE missed' = missed \cup {u} /\ UNCHANGED << file, scraping >>
    <3>1. ScraperTypeOK'
      BY <2>1, <2>2, <2>3
    <3>2. ScraperInv'
      BY <2>1, <2>2, <2>3
      DEF ScraperInv, DamageIsConfined, OneLinePerUrl, UrlsOf
    <3> QED BY <3>1, <3>2, <2>3, <1>0
  <2>4. ASSUME scraping' = "write", UNCHANGED missed, NEW source \in Sources,
               file' = Append(file, [ url    |-> u,
                                      source |-> source,
                                      text   |-> "torn" ])
        PROVE  ScraperTypeOK' /\ ScraperInv' /\ FileGrows
    <3>1. u \in Urls
      BY <2>1
    <3>2. /\ file' \in Seq(Records)
          /\ Len(file') = Len(file) + 1
          /\ \A i \in DOMAIN file : file'[i] = file[i]
          /\ file'[Len(file')].url = u
          /\ file'[Len(file')].source = source
          /\ file'[Len(file')].text = "torn"
          /\ FileGrows
      BY <2>4, <3>1, AppendGrows
    <3>3. ScraperTypeOK'
      BY <2>1, <2>2, <2>4, <3>2
    <3>4. DOMAIN file' = 1..Len(file') /\ Len(file') = Len(file) + 1
      BY <3>2
    <3>5. \A i \in DOMAIN file' : i \in DOMAIN file \/ i = Len(file')
      BY <3>4, <1>00
    <3>6. \A i \in DOMAIN file : file[i].url # u
      BY <2>1, <2>2 DEF ScraperInv, UrlsOf
    <3>7. OneLinePerUrl'
      BY <3>2, <3>5, <3>6 DEF OneLinePerUrl, ScraperInv
    <3>8. DamageIsConfined'
      <4>1. \A i \in DOMAIN file : file[i].text # "torn"
        BY <2>2 DEF ScraperInv
      <4>2. \A i, j \in DOMAIN file :
              file[i].text = "unended" /\ file[j].text = "unended" => i = j
        BY <2>2 DEF ScraperInv
      <4> QED BY <4>1, <4>2, <3>2, <3>4, <3>5 DEF DamageIsConfined
    <3>9. (toVisit \cap UrlsOf(file) = {})'
      <4>1. \A i \in DOMAIN file' : file'[i].url \notin toVisit \ {u}
        BY <2>2, <3>2, <3>5 DEF ScraperInv, UrlsOf
      <4> QED BY <4>1, <2>1 DEF UrlsOf
    <3>10. Len(file') > 0
      BY <3>2
    <3>11. ScraperInv'
      BY <2>4, <3>7, <3>8, <3>9, <3>10 DEF ScraperInv
    <3> QED BY <3>2, <3>3, <3>11
  <2> QED BY <2>1, <2>3, <2>4
<1>5. CASE WriteOn
  <2>1. PICK t \in {"unended", "whole"} :
          /\ file' = [file EXCEPT ![Len(file)].text = t]
          /\ t = "unended" => scraping' = "write"
          /\ t = "whole" => scraping' = "scrape"
    BY <1>5 DEF WriteOn
  <2>2. /\ scraping = "write" /\ Len(file) > 0
        /\ UNCHANGED << linkCache, scraperMemory, scraperHistory, kills >>
    BY <1>5 DEF WriteOn, ScraperInv
  <2>3. /\ file' \in Seq(Records)
        /\ Len(file') = Len(file)
        /\ \A i \in DOMAIN file : i # Len(file) => file'[i] = file[i]
        /\ \A i \in DOMAIN file :
             file'[i].url = file[i].url /\ file'[i].source = file[i].source
        /\ file'[Len(file)].text = t
        /\ FileGrows
    <3>1. t \in Texts
      BY <2>1 DEF Texts
    <3> QED BY <3>1, <2>1, <2>2, WriteGrows
  <2>4. ScraperTypeOK'
    BY <2>1, <2>2, <2>3
  <2>5. DOMAIN file' = DOMAIN file
    BY <2>3, <1>00
  <2>6. OneLinePerUrl' /\ UrlsOf(file)' = UrlsOf(file)
    BY <2>3, <2>5 DEF OneLinePerUrl, UrlsOf, ScraperInv
  <2>7. DamageIsConfined'
    BY <2>1, <2>3, <2>5, <1>00 DEF DamageIsConfined, ScraperInv
  <2>8. ASSUME scraping' = "scrape"
        PROVE  \A i, j \in DOMAIN file' :
                 /\ file'[i].text # "torn"
                 /\ file'[i].text = "unended" /\ file'[j].text = "unended"
                      => i = j
    <3>1. t = "whole"
      BY <2>1, <2>8
    <3> QED BY <3>1, <2>3, <2>5, <2>7, <1>00 DEF DamageIsConfined
  <2>9. ScraperInv'
    BY <2>1, <2>2, <2>3, <2>6, <2>7, <2>8 DEF ScraperInv
  <2> QED BY <2>3, <2>4, <2>9
<1>6. CASE EndScraper \/ KillScraper
  <2>1. UNCHANGED file /\ scraping' = "off"
    BY <1>6 DEF EndScraper, KillScraper, StopScraper
  <2>2. ScraperTypeOK'
    BY <1>6, ScraperAssumption DEF EndScraper, KillScraper, StopScraper
  <2>3. ScraperInv'
    BY <2>1 DEF ScraperInv, DamageIsConfined, OneLinePerUrl
  <2> QED BY <2>1, <2>2, <2>3, <1>0
<1> QED
  BY <1>1, <1>2, <1>3, <1>4, <1>5, <1>6 DEF ScraperNext

(*-------------------------- the ingest service ---------------------------*)

(* What it loaded stays what it was while the scraper appends.             *)
LEMMA IngestUndisturbed ==
  ASSUME CatalogTypeOK, IngestInv, FileGrows, UNCHANGED ingestVars
  PROVE  IngestTypeOK' /\ IngestInv'
<1> USE DEF ingestVars, ingestMemory
<1>1. UNCHANGED << rows, stored, disk, ingesting, known, todo, idx, batch, corpus,
                   closing, loaded, skipped, ingestEnded, Indexed, Working >>
  BY DEF Indexed, Working
<1>2. /\ todo \subseteq DOMAIN file /\ batch \subseteq DOMAIN file
      /\ loaded \subseteq DOMAIN file /\ skipped \subseteq DOMAIN file
  BY DEF CatalogTypeOK, IngestTypeOK, Lines
<1>3. IngestTypeOK'
  BY <1>1, <1>2 DEF CatalogTypeOK, IngestTypeOK, Lines, FileGrows
<1>4. BatchInv'
  BY <1>1, <1>2 DEF IngestInv, BatchInv, FileGrows
<1>5. FinishedRunIsComplete'
  BY <1>1, <1>2 DEF IngestInv, FinishedRunIsComplete, FileGrows
<1>6. NoDuplicateRows' /\ IndexMatchesRows'
  BY <1>1 DEF IngestInv, NoDuplicateRows, IndexMatchesRows
<1> QED BY <1>1, <1>3, <1>4, <1>5, <1>6 DEF IngestInv

(* An insert gives each product of the batch its first row, because no two *)
(* lines of it are of one product and none has a row.                      *)
LEMMA InsertsOnce ==
  ASSUME CatalogTypeOK, OneLinePerUrl, IngestInv, ingesting = "insert",
         NEW u \in Urls
  PROVE  /\ (\E i \in batch : file[i].url = u) => Inserted[u] = 1
         /\ ~ (\E i \in batch : file[i].url = u) => Inserted[u] = rows[u]
         /\ Inserted[u] \in 0..1
<1> DEFINE lines == { i \in batch : file[i].url = u }
<1>1. Inserted[u] = rows[u] + Cardinality(lines)
  BY DEF Inserted
<1>2. rows[u] \in Nat /\ rows[u] <= 1 /\ batch \subseteq DOMAIN file
  BY DEF CatalogTypeOK, IngestTypeOK, Lines, IngestInv, NoDuplicateRows
<1>3. CASE lines = {}
  <2>1. Cardinality(lines) = 0
    BY <1>3, FS_EmptySet
  <2> QED BY <1>1, <1>2, <1>3, <2>1
<1>4. ASSUME NEW i \in batch, file[i].url = u
      PROVE  Inserted[u] = 1
  <2>1. lines = {i}
    BY <1>2, <1>4 DEF OneLinePerUrl
  <2>2. Cardinality(lines) = 1
    BY <2>1, FS_Singleton
  <2>3. rows[u] = 0
    BY <1>4 DEF IngestInv, BatchInv, Working
  <2> QED BY <1>1, <2>2, <2>3
<1> QED BY <1>1, <1>2, <1>3, <1>4

LEMMA RowIsTyped ==
  ASSUME NEW s \in Sources
  PROVE  Row(s) \in Rows
<1>1. s.price.amount \in Nat /\ s.reviews \in SUBSET Reviews
  BY DEF Sources, Prices
<1>2. ReadPrice(s.price) \in Nat
  BY <1>1 DEF ReadPrice
<1>3. KeptReviews(s) \in SUBSET Reviews
  BY <1>1 DEF KeptReviews
<1> QED BY <1>2, <1>3 DEF Row, Rows

LEMMA CommitIsTyped ==
  ASSUME CatalogTypeOK, Commit
  PROVE  stored' \in [Urls -> SUBSET Rows]
<1>1. file \in Seq(Records) /\ batch \subseteq DOMAIN file
  BY DEF CatalogTypeOK, ScraperTypeOK, IngestTypeOK, Lines
<1>2. \A i \in batch : file[i].source \in Sources
  <2>1. \A i \in DOMAIN file : file[i] \in Records
    BY <1>1
  <2> QED BY <1>1, <2>1 DEF Records
<1>3. \A i \in batch : Row(file[i].source) \in Rows
  BY <1>2, RowIsTyped
<1>4. stored \in [Urls -> SUBSET Rows]
  BY DEF CatalogTypeOK, IngestTypeOK
<1>5. \A u \in Urls :
        { Row(file[i].source) : i \in { j \in batch : file[j].url = u } }
          \subseteq Rows
  BY <1>3
<1> QED BY <1>4, <1>5 DEF Commit

(* A run that ends for another reason than its end leaves nothing to show  *)
(* but that there are no duplicates and the index is not ahead.            *)
LEMMA StoppedIsSafe ==
  ASSUME CatalogTypeOK, IngestInv, NEW why \in {"killed", "raised"},
         StopIngest(why), UNCHANGED << file, disk >>,
         rows' \in [Urls -> Nat], stored' \in [Urls -> SUBSET Rows],
         NoDuplicateRows', Indexed \subseteq Indexed'
  PROVE  IngestTypeOK' /\ IngestInv'
<1>1. IngestTypeOK'
  BY DEF CatalogTypeOK, IngestTypeOK, StopIngest, ingestMemory, Lines
<1>2. IndexMatchesRows'
  BY DEF IngestInv, IndexMatchesRows, StopIngest
<1>3. FinishedRunIsComplete' /\ BatchInv'
  BY DEF FinishedRunIsComplete, BatchInv, Working, StopIngest
<1> QED BY <1>1, <1>2, <1>3 DEF IngestInv, StopIngest

(* What each step of the ingest service does to its part of IInv.          *)
LEMMA IngestKeeps ==
  ASSUME CatalogTypeOK, OneLinePerUrl, IngestInv, UNCHANGED file,
         IngestNext \/ KillIngest
  PROVE  IngestTypeOK' /\ IngestInv'
<1> USE DEF ingestMemory
<1>0. /\ IngestTypeOK
      /\ Lines = DOMAIN file /\ Lines' = Lines
      /\ DOMAIN file = 1..Len(file) /\ Len(file) \in Nat
  BY DEF CatalogTypeOK, ScraperTypeOK, Lines
<1>00. Dirs = {LoadDir, SaveDir}
  BY DEF Dirs
<1>000. \A i \in Lines : file[i].url \in Urls
  <2>1. file \in Seq(Records)
    BY DEF CatalogTypeOK, ScraperTypeOK
  <2>2. \A i \in Lines : file[i] \in Records
    BY <1>0, <2>1
  <2> QED BY <2>2 DEF Records
<1>1. CASE StartIngest
  <2>1. IngestTypeOK'
    BY <1>0, <1>1 DEF StartIngest, IngestTypeOK, Indexed
  <2>2. IngestInv'
    BY <1>1 DEF StartIngest, IngestInv, NoDuplicateRows, Indexed,
                FinishedRunIsComplete, IndexMatchesRows, BatchInv, Working
  <2> QED BY <2>1, <2>2
<1>2. CASE LoadFile
  <2>1. CASE StopIngest("raised") /\ UNCHANGED << rows, stored, disk >>
    <3>1. NoDuplicateRows' /\ Indexed' = Indexed
      BY <2>1 DEF IngestInv, NoDuplicateRows, Indexed
    <3> QED BY <1>0, <2>1, <3>1, StoppedIsSafe DEF IngestTypeOK
  <2>2. CASE /\ ingesting' = "work" /\ todo' = Fresh /\ loaded' = Fresh
             /\ UNCHANGED << known, idx, batch, corpus, closing, skipped,
                             ingestEnded, rows, stored, disk >>
             /\ batch = {} /\ closing = FALSE
    <3>1. Fresh \subseteq Lines /\ \A i \in Fresh : file[i].url \notin known
      BY DEF Fresh
    <3>2. known = Indexed
      BY <1>2 DEF LoadFile, IngestInv
    <3>3. \A i \in Lines : file[i].url \in Urls
      BY <1>000
    <3>4. \A i \in Fresh : rows[file[i].url] = 0
      BY <1>0, <3>1, <3>2, <3>3 DEF Indexed, IngestTypeOK
    <3>5. IngestTypeOK'
      BY <1>0, <2>2, <3>1 DEF IngestTypeOK
    <3>6. BatchInv'
      BY <2>2, <3>4 DEF BatchInv, Working
    <3>7. IngestInv'
      BY <1>2, <2>2, <3>6 DEF IngestInv, LoadFile, NoDuplicateRows, Indexed,
           FinishedRunIsComplete, IndexMatchesRows
    <3> QED BY <3>5, <3>7
  <2> QED BY <1>2, <2>1, <2>2 DEF LoadFile, IngestInv
<1>3. CASE ProcessProduct
  <2>1. PICK i \in todo :
          /\ \/ skipped' = skipped \cup {i} /\ UNCHANGED << batch, ingesting >>
             \/ /\ batch' = batch \cup {i} /\ UNCHANGED skipped
                /\ ingesting' \in {"insert", "work"}
          /\ todo' = todo \ {i}
    BY <1>3 DEF ProcessProduct
  <2>2. /\ ingesting = "work" /\ idx' = idx + 1
        /\ UNCHANGED << rows, stored, disk, known, corpus, closing, loaded,
                        ingestEnded >>
    BY <1>3 DEF ProcessProduct
  <2>3. IngestTypeOK'
    BY <1>0, <2>1, <2>2 DEF IngestTypeOK
  <2>4. BatchInv'
    BY <2>1, <2>2 DEF IngestInv, BatchInv, Working
  <2>5. IngestInv'
    BY <2>1, <2>2, <2>4 DEF IngestInv, NoDuplicateRows, Indexed,
         FinishedRunIsComplete, IndexMatchesRows
  <2> QED BY <2>3, <2>5
<1>4. CASE ProductRaises \/ KillIngest
  <2>1. PICK why \in {"killed", "raised"} : StopIngest(why)
    BY <1>4 DEF ProductRaises, KillIngest
  <2>2. UNCHANGED << rows, stored, disk >>
    BY <1>4 DEF ProductRaises, KillIngest
  <2>3. NoDuplicateRows' /\ Indexed' = Indexed
    BY <2>2 DEF IngestInv, NoDuplicateRows, Indexed
  <2> QED BY <1>0, <2>1, <2>2, <2>3, StoppedIsSafe DEF IngestTypeOK
<1>5. CASE EndLoop
  <2>1. IngestTypeOK'
    BY <1>0, <1>5 DEF EndLoop, IngestTypeOK
  <2>2. IngestInv'
    BY <1>5 DEF EndLoop, IngestInv, NoDuplicateRows, Indexed,
         FinishedRunIsComplete, IndexMatchesRows, BatchInv, Working
  <2> QED BY <2>1, <2>2
<1>6. CASE InsertBatch
  <2>1. ingesting = "insert" /\ UNCHANGED disk
    BY <1>6 DEF InsertBatch
  <2>2. \A u \in Urls :
          /\ (\E i \in batch : file[i].url = u) => Inserted[u] = 1
          /\ ~ (\E i \in batch : file[i].url = u) => Inserted[u] = rows[u]
          /\ Inserted[u] \in 0..1
    BY <2>1, InsertsOnce
  <2>3. Inserted \in [Urls -> Nat]
    <3>1. Inserted = [u \in Urls |-> Inserted[u]]
      BY DEF Inserted
    <3> QED BY <2>2, <3>1
  <2>4. rows' \in {rows, Inserted}
    BY <1>6 DEF InsertBatch, Commit
  <2>5. rows' \in [Urls -> Nat] /\ NoDuplicateRows' /\ Indexed \subseteq Indexed'
    <3>1. rows \in [Urls -> Nat]
      BY <1>0 DEF IngestTypeOK
    <3> QED BY <2>2, <2>3, <2>4, <3>1 DEF IngestInv, NoDuplicateRows, Indexed
  <2>50. stored' \in [Urls -> SUBSET Rows]
    BY <1>0, <1>6, CommitIsTyped DEF InsertBatch, IngestTypeOK
  <2>6. CASE StopIngest("raised")
    BY <2>1, <2>5, <2>50, <2>6, StoppedIsSafe
  <2>7. CASE /\ rows' = Inserted /\ batch' = {} /\ ingesting' = "index"
             /\ UNCHANGED << known, todo, idx, corpus, closing, loaded,
                             skipped, ingestEnded >>
    <3>1. IngestTypeOK'
      BY <1>0, <2>1, <2>3, <2>50, <2>7 DEF IngestTypeOK
    <3>2. \A i \in Lines : file[i].url \in Urls
      BY <1>000
    <3>3. /\ todo \subseteq Lines /\ batch \subseteq Lines
          /\ loaded \subseteq Lines
      BY <1>0 DEF IngestTypeOK
    <3>4. \A i \in todo : rows'[file[i].url] = 0
      <4>1. \A i \in todo : \A j \in batch : file[j].url # file[i].url
        BY <2>1, <3>3 DEF IngestInv, BatchInv, Working, OneLinePerUrl, Lines
      <4> QED BY <4>1, <2>1, <2>2, <2>7, <3>2, <3>3
              DEF IngestInv, BatchInv, Working
    <3>5. \A i \in loaded : i \in todo \cup skipped \/ rows'[file[i].url] > 0
      <4>1. \A i \in batch : rows'[file[i].url] = 1
        BY <2>2, <2>7, <3>2, <3>3
      <4>2. \A i \in loaded :
              rows[file[i].url] > 0 => rows'[file[i].url] > 0
        BY <2>2, <2>7, <3>2, <3>3
      <4> QED BY <4>1, <4>2, <2>1 DEF IngestInv, BatchInv, Working
    <3>6. BatchInv'
      BY <2>1, <2>7, <3>4, <3>5 DEF IngestInv, BatchInv, Working
    <3>7. ingestEnded' = "none"
      BY <2>1, <2>7 DEF IngestInv
    <3>8. IndexMatchesRows' /\ FinishedRunIsComplete'
      BY <2>1, <2>5, <3>7
      DEF IngestInv, IndexMatchesRows, FinishedRunIsComplete
    <3> QED BY <2>5, <2>7, <3>1, <3>6, <3>7, <3>8 DEF IngestInv
  <2> QED BY <1>6, <2>6, <2>7 DEF InsertBatch, Commit
<1>7. CASE ReadCorpus
  <2>1. IngestTypeOK'
    BY <1>0, <1>7 DEF ReadCorpus, Resume, IngestTypeOK, Indexed
  <2>2. IngestInv'
    BY <1>7 DEF ReadCorpus, Resume, IngestInv, NoDuplicateRows, Indexed,
         FinishedRunIsComplete, IndexMatchesRows, BatchInv, Working
  <2> QED BY <2>1, <2>2
<1>8. CASE SaveIndex
  <2>1. /\ ingesting = "save" /\ corpus = Indexed /\ ingestEnded = "none"
        /\ UNCHANGED << rows, ingestMemory >>
    BY <1>8 DEF SaveIndex, IngestInv
  <2>2. /\ \/ UNCHANGED << ingesting, ingestEnded >>
           \/ Resume(TRUE) /\ disk'[SaveDir] = [state |-> "complete",
                                                urls |-> corpus]
           \/ Resume(FALSE)
        /\ \/ disk'[SaveDir].state = "partial"
           \/ disk'[SaveDir] = [state |-> "complete", urls |-> corpus]
           \/ disk' = disk
    BY <1>0, <1>00, <1>8 DEF SaveIndex, IngestTypeOK
  <2>3. IngestTypeOK'
    BY SMTT(30), <1>0, <1>00, <1>8 DEF SaveIndex, Resume, IngestTypeOK
  <2>4. UNCHANGED << Indexed, Working, batch, todo >>
          \/ ingesting' \in {"off", "work"}
    BY <2>1, <2>2 DEF Resume, Indexed, Working
  <2>5. BatchInv'
    BY <2>1, <2>2 DEF IngestInv, BatchInv, Working, Resume
  <2>6. FinishedRunIsComplete'
    BY <2>1, <2>2 DEF IngestInv, BatchInv, Working, Resume,
         FinishedRunIsComplete
  <2>7. IndexMatchesRows'
    BY <2>1, <2>2 DEF IngestInv, IndexMatchesRows, Indexed, Resume
  <2>8. /\ NoDuplicateRows' /\ ingesting' # "load"
        /\ ingesting' # "off" => ingestEnded' = "none"
        /\ ingesting' = "save" => corpus' = Indexed'
    BY <2>1, <2>2 DEF IngestInv, NoDuplicateRows, Resume, Indexed
  <2> QED BY <2>3, <2>5, <2>6, <2>7, <2>8 DEF IngestInv
<1> QED
  BY <1>1, <1>2, <1>3, <1>4, <1>5, <1>6, <1>7, <1>8 DEF IngestNext

(*----------------------------- what rows say -----------------------------*)

LEMMA RowShows ==
  ASSUME NEW shown \in Sources, NEW s \in Scraped(shown),
         IsAccepted(s), s.category, IsNumber(s.price)
  PROVE  Shows(Row(s), shown)
<1>1. s.name
  BY DEF IsAccepted
<1>2. PICK got \in {shown.reviews, {}} : s = [shown EXCEPT !.reviews = got]
  BY <1>1 DEF Scraped, BlankRecord
<1>3. /\ s.name = shown.name /\ s.stock = shown.stock
      /\ s.category = shown.category /\ s.price = shown.price
      /\ s.reviews = got
  BY <1>2 DEF Sources
<1>4. \/ ReadPrice(s.price) = shown.price.amount
      \/ /\ shown.price.form = "grouped"
         /\ ReadPrice(s.price) * 1000 = shown.price.amount
  <2>1. shown.price \in Prices
    BY DEF Sources
  <2>2. /\ shown.price.amount \in Nat
        /\ shown.price.form = "grouped" => shown.price.amount % 1000 = 0
    BY <2>1 DEF Prices
  <2>3. ASSUME NEW n \in Nat, n % 1000 = 0 PROVE (n \div 1000) * 1000 = n
    BY <2>3
  <2> QED BY <1>3, <2>2, <2>3 DEF ReadPrice
<1>5. KeptReviews(s)
        \in { {}, { r \in shown.reviews : r.title = "words" /\ r.text = "words" } }
  BY <1>2, <1>3 DEF KeptReviews, IsKept
<1>6. Row(s).price = ReadPrice(s.price) /\ Row(s).reviews = KeptReviews(s)
  BY DEF Row
<1>7. shown.name /\ shown.stock /\ shown.category
  BY <1>3 DEF IsAccepted
<1> QED BY <1>4, <1>5, <1>6, <1>7 DEF Shows

LEMMA ScraperKeepsRecords ==
  ASSUME ScraperTypeOK, ScraperInv, RecordsAreScraped, ScraperNext
  PROVE  RecordsAreScraped'
<1>0. file \in Seq(Records)
  BY DEF ScraperTypeOK
<1>1. CASE ScrapeProduct /\ scraping' = "write"
  <2>1. PICK u \in toVisit : \E shown \in Shop[u] :
          \E source \in Scraped(shown) :
            file' = Append(file, [ url    |-> u,
                                   source |-> source,
                                   text   |-> "torn" ])
    BY <1>1 DEF ScrapeProduct
  <2>2. PICK shown \in Shop[u] : \E source \in Scraped(shown) :
          file' = Append(file, [ url    |-> u,
                                 source |-> source,
                                 text   |-> "torn" ])
    BY <2>1
  <2>3. PICK source \in Scraped(shown) :
          file' = Append(file, [ url    |-> u,
                                 source |-> source,
                                 text   |-> "torn" ])
    BY <2>2
  <2>4. u \in Urls /\ shown \in Sources
    BY ScraperAssumption DEF ScraperTypeOK
  <2>5. source \in Sources
    BY <2>4, ScrapedAreSources
  <2>6. /\ file' \in Seq(Records)
        /\ Len(file') = Len(file) + 1
        /\ \A i \in DOMAIN file : file'[i] = file[i]
        /\ file'[Len(file')].url = u
        /\ file'[Len(file')].source = source
    BY <1>0, <2>3, <2>4, <2>5, AppendGrows
  <2>7. \A i \in DOMAIN file' : i \in DOMAIN file \/ i = Len(file')
    BY <1>0, <2>6
  <2> QED BY <2>6, <2>7 DEF RecordsAreScraped
<1>2. CASE WriteOn
  <2>1. PICK t \in Texts : file' = [file EXCEPT ![Len(file)].text = t]
    BY <1>2 DEF WriteOn, Texts
  <2>2. Len(file) > 0
    BY <1>2 DEF WriteOn, ScraperInv
  <2>3. /\ Len(file') = Len(file) /\ file' \in Seq(Records)
        /\ \A i \in DOMAIN file :
             file'[i].url = file[i].url /\ file'[i].source = file[i].source
    BY <1>0, <2>1, <2>2, WriteGrows
  <2>4. DOMAIN file' = DOMAIN file
    BY <1>0, <2>3
  <2> QED BY <2>3, <2>4 DEF RecordsAreScraped
<1>3. CASE UNCHANGED file
  BY <1>3 DEF RecordsAreScraped
<1> QED
  BY <1>1, <1>2, <1>3
  DEF ScraperNext, StartScraper, CollectPage, LoadScraped, ScrapeProduct,
      EndScraper, KillScraper

LEMMA ContentUndisturbed ==
  ASSUME CatalogTypeOK, BatchIsSound, RowsShowTheShop, FileGrows,
         UNCHANGED ingestVars
  PROVE  BatchIsSound' /\ RowsShowTheShop'
<1>1. todo \subseteq DOMAIN file /\ batch \subseteq DOMAIN file
  BY DEF CatalogTypeOK, IngestTypeOK, Lines
<1>2. UNCHANGED << todo, batch, stored, Working >>
  BY DEF ingestVars, ingestMemory, Working
<1>3. \A i \in todo \cup batch : file'[i].source = file[i].source
  BY <1>1 DEF FileGrows
<1>4. BatchIsSound'
  BY <1>2, <1>3 DEF BatchIsSound
<1>5. RowsShowTheShop'
  BY <1>2 DEF RowsShowTheShop
<1> QED BY <1>4, <1>5

LEMMA CommitShows ==
  ASSUME CatalogTypeOK, ContentInv, ingesting = "insert", Commit
  PROVE  RowsShowTheShop'
<1>1. SUFFICES ASSUME NEW u \in Urls, NEW row \in stored'[u]
               PROVE  \E shown \in Shop[u] : Shows(row, shown)
  BY DEF RowsShowTheShop
<1>2. stored'[u] = stored[u] \cup
        { Row(file[i].source) : i \in { j \in batch : file[j].url = u } }
  BY DEF Commit
<1>3. CASE row \in stored[u]
  BY <1>3 DEF ContentInv, RowsShowTheShop
<1>4. ASSUME NEW i \in batch, file[i].url = u, row = Row(file[i].source)
      PROVE  \E shown \in Shop[u] : Shows(row, shown)
  <2>1. i \in DOMAIN file
    BY DEF CatalogTypeOK, IngestTypeOK, Lines
  <2>2. PICK shown \in Shop[u] : file[i].source \in Scraped(shown)
    BY <1>4, <2>1 DEF ContentInv, RecordsAreScraped
  <2>3. shown \in Sources
    BY <2>2, ScraperAssumption
  <2>4. /\ IsAccepted(file[i].source) /\ file[i].source.category
        /\ IsNumber(file[i].source.price)
    BY DEF ContentInv, BatchIsSound, Working
  <2> QED BY <1>4, <2>2, <2>3, <2>4, RowShows
<1> QED BY <1>1, <1>2, <1>3, <1>4

LEMMA IngestKeepsContent ==
  ASSUME CatalogTypeOK, IngestInv, ContentInv, UNCHANGED file,
         IngestNext \/ KillIngest
  PROVE  BatchIsSound' /\ RowsShowTheShop'
<1> USE DEF ContentInv, ingestMemory
<1>0. UNCHANGED stored => RowsShowTheShop'
  BY DEF RowsShowTheShop
<1>00. ingesting' \in {"off", "load"} => BatchIsSound'
  BY DEF BatchIsSound, Working
<1>000. Working /\ UNCHANGED << todo, batch >> => BatchIsSound'
  BY DEF BatchIsSound
<1>1. CASE StartIngest \/ ProductRaises \/ KillIngest
  <2>1. UNCHANGED stored /\ ingesting' \in {"off", "load"}
    BY <1>1 DEF StartIngest, ProductRaises, KillIngest, StopIngest
  <2> QED BY <2>1, <1>0, <1>00
<1>2. CASE LoadFile
  <2>1. UNCHANGED stored
    BY <1>2 DEF LoadFile
  <2>2. CASE ingesting' = "off"
    BY <2>1, <2>2, <1>0, <1>00
  <2>3. CASE /\ \A i \in Fresh : IsAccepted(file[i].source)
             /\ todo' = Fresh /\ batch' = {}
    <3>1. BatchIsSound'
      BY <2>3 DEF BatchIsSound
    <3> QED BY <3>1, <2>1, <1>0
  <2> QED BY <1>2, <2>2, <2>3 DEF LoadFile, StopIngest, IngestInv
<1>3. CASE ProcessProduct
  <2>1. PICK i \in todo :
          /\ IsNumber(file[i].source.price)
          /\ \/ UNCHANGED batch
             \/ file[i].source.category /\ batch' = batch \cup {i}
          /\ todo' = todo \ {i}
    BY <1>3 DEF ProcessProduct
  <2>2. ingesting = "work" /\ UNCHANGED stored
    BY <1>3 DEF ProcessProduct
  <2>3. BatchIsSound'
    BY <2>1, <2>2 DEF BatchIsSound, Working
  <2> QED BY <2>2, <2>3, <1>0
<1>4. CASE EndLoop \/ ReadCorpus \/ SaveIndex
  <2>1. Working /\ UNCHANGED << todo, batch, stored >>
    BY <1>4 DEF EndLoop, ReadCorpus, SaveIndex, Working
  <2> QED BY <2>1, <1>0, <1>000
<1>5. CASE InsertBatch
  <2>1. ingesting = "insert" /\ (Commit \/ UNCHANGED stored)
    BY <1>5 DEF InsertBatch
  <2>2. RowsShowTheShop'
    BY <2>1, <1>0, CommitShows
  <2>3. ingesting' = "off" \/ (batch' = {} /\ UNCHANGED todo)
    BY <1>5 DEF InsertBatch, StopIngest
  <2>4. BatchIsSound'
    BY <2>1, <2>3, <1>00 DEF BatchIsSound, Working
  <2> QED BY <2>2, <2>4
<1> QED BY <1>1, <1>2, <1>3, <1>4, <1>5 DEF IngestNext

LEMMA ContentKept ==
  ASSUME IInv, [CatalogNext]_catalogVars
  PROVE  ContentInv'
<1> USE DEF IInv, CatalogTypeOK, ContentInv
<1>1. CASE ScrapeStep
  <2>1. FileGrows /\ RecordsAreScraped'
    BY <1>1, ScraperKeeps, ScraperKeepsRecords DEF ScrapeStep
  <2> QED BY <1>1, <2>1, ContentUndisturbed DEF ScrapeStep
<1>2. CASE IngestStep \/ IngestKilled
  <2>1. UNCHANGED file
    BY <1>2 DEF IngestStep, IngestKilled
  <2>2. RecordsAreScraped'
    BY <2>1 DEF RecordsAreScraped
  <2> QED BY <1>2, <2>1, <2>2, IngestKeepsContent DEF IngestStep, IngestKilled
<1>3. CASE UNCHANGED catalogVars
  <2>1. UNCHANGED file /\ UNCHANGED ingestVars
    BY <1>3 DEF catalogVars
  <2>2. FileGrows /\ RecordsAreScraped'
    BY <2>1 DEF FileGrows, RecordsAreScraped
  <2> QED BY <2>1, <2>2, ContentUndisturbed
<1> QED BY <1>1, <1>2, <1>3 DEF CatalogNext

(*------------------------------- theorems --------------------------------*)

LEMMA NextInv == ASSUME IInv, [CatalogNext]_catalogVars PROVE IInv'
<1>0. ContentInv'
  BY ContentKept
<1> USE DEF IInv, CatalogTypeOK
<1>1. CASE ScrapeStep
  <2>1. ScraperTypeOK' /\ ScraperInv' /\ FileGrows
    BY <1>1, ScraperKeeps DEF ScrapeStep
  <2>2. IngestTypeOK' /\ IngestInv'
    BY <1>1, <2>1, IngestUndisturbed DEF ScrapeStep
  <2> QED BY <2>1, <2>2, <1>0
<1>2. CASE IngestStep \/ IngestKilled
  <2>1. UNCHANGED << file, scraperVars >> /\ kills' \in {kills, kills + 1}
    BY <1>2 DEF IngestStep, IngestKilled
  <2>2. IngestTypeOK' /\ IngestInv'
    BY <1>2, <2>1, IngestKeeps DEF IngestStep, IngestKilled, ScraperInv
  <2>3. kills' \in 0..MaxKills
    BY <1>2, ScraperAssumption
    DEF IngestStep, IngestKilled, ScraperTypeOK
  <2>4. ScraperTypeOK'
    BY <2>1, <2>3
    DEF ScraperTypeOK, scraperVars, scraperMemory, scraperHistory
  <2>5. ScraperInv'
    BY <2>1 DEF ScraperInv, DamageIsConfined, OneLinePerUrl, UrlsOf,
         scraperVars, scraperMemory
  <2> QED BY <2>2, <2>4, <2>5, <1>0
<1>3. CASE UNCHANGED catalogVars
  <2>1. UNCHANGED << file, scraperVars, kills, ingestVars >>
    BY <1>3 DEF catalogVars
  <2>2. FileGrows
    BY <2>1 DEF FileGrows
  <2>3. IngestTypeOK' /\ IngestInv'
    BY <2>1, <2>2, IngestUndisturbed
  <2>4. ScraperTypeOK'
    BY <2>1 DEF ScraperTypeOK, scraperVars, scraperMemory, scraperHistory
  <2>5. ScraperInv'
    BY <2>1 DEF ScraperInv, DamageIsConfined, OneLinePerUrl, UrlsOf,
         scraperVars, scraperMemory
  <2> QED BY <2>3, <2>4, <2>5, <1>0
<1> QED BY <1>1, <1>2, <1>3 DEF CatalogNext

LEMMA CatalogInvariant == CatalogSpec => []IInv
<1> QED BY InitInv, NextInv, PTL DEF CatalogSpec

(* Every variable of the two scripts keeps its type, the links among the   *)
(* products of the shop and the lines of a run within the file.            *)
THEOREM CatalogTypeCorrect == CatalogSpec => []CatalogTypeOK
<1>1. IInv => CatalogTypeOK
  BY DEF IInv
<1> QED BY <1>1, CatalogInvariant, PTL

(* Kills of the scraper damage the end of the product file and at most one *)
(* record inside it, whatever the shop and however many kills.             *)
THEOREM ScraperConfinesDamage == CatalogSpec => []DamageIsConfined
<1>1. IInv => DamageIsConfined
  BY DEF IInv, ScraperInv
<1> QED BY <1>1, CatalogInvariant, PTL

(* No interleaving of the two scripts, their failures and reruns inserts a *)
(* product twice.                                                          *)
THEOREM ProductsHaveOneRow == CatalogSpec => []NoDuplicateRows
<1>1. IInv => NoDuplicateRows
  BY DEF IInv, IngestInv
<1> QED BY <1>1, CatalogInvariant, PTL

(* An ingest that ends without an error has done, or skipped, all it       *)
(* loaded, for every batch interval.                                       *)
THEOREM FinishedRunsAreComplete == CatalogSpec => []FinishedRunIsComplete
<1>1. IInv => FinishedRunIsComplete
  BY DEF IInv, IngestInv
<1> QED BY <1>1, CatalogInvariant, PTL

(* A loadable index never runs ahead of the rows, and a successful ingest  *)
(* leaves one that names them all.                                         *)
THEOREM IndexFollowsRows == CatalogSpec => []IndexMatchesRows
<1>1. IInv => IndexMatchesRows
  BY DEF IInv, IngestInv
<1> QED BY <1>1, CatalogInvariant, PTL

(* Every row shows what a version of its product's page showed: nothing of *)
(* a blank page, a price that is wrong only where digits were grouped, and *)
(* all the reviews with words or none, whatever the shop shows.            *)
THEOREM StoredRowsAreShown == CatalogSpec => []RowsShowTheShop
<1>1. IInv => RowsShowTheShop
  BY DEF IInv, ContentInv
<1> QED BY <1>1, CatalogInvariant, PTL

(*------------------------- a scrape is complete --------------------------*)

(* Every product that is listed is in S.                                   *)
Covers(S) ==
  \A c \in DOMAIN Pages : \A p \in DOMAIN Pages[c] :
    IsReached(c, p) => Pages[c][p] \subseteq S

(* Where a run that lost no category page has the products it passed.      *)
WhileCollecting ==
  scraping = "collect" =>
    /\ \A c \in DOMAIN Pages : c < category =>
         \A p \in DOMAIN Pages[c] :
           IsReached(c, p) => Pages[c][p] \subseteq links
    /\ \A p \in DOMAIN Pages[category] : p < page =>
         Pages[category][p] \subseteq found

NothingIsLost ==
  /\ WhileCollecting
  /\ scraping = "load" => Covers(links)
  /\ scraping \in {"scrape", "write"} => Covers(toVisit \cup UrlsOf(file) \cup missed)
  /\ scrapeEnded = "finished" => Covers(UrlsOf(file) \cup missed)

CompleteInv ==
  /\ collected = "all" => NothingIsLost
  /\ scraping # "off" => scrapeEnded = "none"

(* No run ends well on a torn record, and only a kill leaves one that is   *)
(* not whole behind.                                                       *)
TextInv ==
  /\ scrapeEnded = "finished" => \A i \in DOMAIN file : file[i].text # "torn"
  /\ kills = 0 =>
       \A i \in DOMAIN file :
         file[i].text # "whole" => scraping = "write" /\ i = Len(file)

LEMMA CoversMore ==
  ASSUME NEW S, NEW T, S \subseteq T, Covers(S)
  PROVE  Covers(T)
  BY DEF Covers

(* Where a category is left, all its products that are listed have been    *)
(* found: no page behind a short one is reached.                           *)
LEMMA CategoryIsDone ==
  ASSUME ScraperTypeOK, WhileCollecting,
         scraping = "collect",
         ~ (PageLinks # {} /\ Cardinality(PageLinks) >= PageSize)
  PROVE  \A p \in DOMAIN Pages[category] :
           IsReached(category, p) => Pages[category][p] \subseteq found \cup PageLinks
<1>1. /\ category \in DOMAIN Pages /\ page \in Nat /\ PageSize \in Nat \ {0}
      /\ Pages[category] \in Seq(SUBSET Urls)
  BY ScraperAssumption DEF ScraperTypeOK
<1>2. DOMAIN Pages[category] = 1..Len(Pages[category])
  BY <1>1
<1>3. ASSUME NEW p \in DOMAIN Pages[category], page < p, IsReached(category, p)
      PROVE  FALSE
  <2>1. page \in DOMAIN Pages[category]
    BY <1>1, <1>2, <1>3 DEF ScraperTypeOK
  <2>2. Cardinality(Pages[category][page]) >= PageSize
    BY <1>3, <2>1 DEF IsReached
  <2>3. PageLinks = Pages[category][page]
    BY <2>1 DEF PageLinks
  <2>4. PageLinks = {}
    BY <2>2, <2>3
  <2> QED BY <1>1, <2>2, <2>3, <2>4, FS_EmptySet
<1>4. \A p \in DOMAIN Pages[category] :
        IsReached(category, p) => p = page \/ p < page
  BY <1>1, <1>2, <1>3
<1> QED BY <1>4 DEF WhileCollecting, PageLinks

LEMMA CollectLosesNothing ==
  ASSUME ScraperTypeOK, CompleteInv, CollectPage
  PROVE  CompleteInv'
<1>1. /\ scraping = "collect" /\ scrapeEnded = "none"
      /\ UNCHANGED << file, toVisit, missed, scrapeEnded, kills >>
  BY DEF CollectPage, CompleteInv
<1>2. PICK got \in {PageLinks, {}} :
        /\ collected' = IF got = PageLinks THEN collected ELSE "cut"
        /\ IF got # {} /\ Cardinality(got) >= PageSize
             THEN NextPage(found \cup got)
             ELSE EndCategory(found \cup got)
  BY DEF CollectPage
<1>3. SUFFICES ASSUME collected' = "all" PROVE NothingIsLost'
  BY <1>1 DEF CompleteInv
<1>4. got = PageLinks /\ WhileCollecting
  BY <1>2, <1>3 DEF CompleteInv, NothingIsLost
<1>5. CASE got # {} /\ Cardinality(got) >= PageSize
  <2>1. /\ found' = found \cup PageLinks /\ page' = page + 1
        /\ UNCHANGED << scraping, category, links >>
    BY <1>2, <1>4, <1>5 DEF NextPage
  <2>2. /\ DOMAIN Pages[category] = 1..Len(Pages[category])
        /\ Len(Pages[category]) \in Nat /\ page \in Nat
    BY ScraperAssumption DEF ScraperTypeOK
  <2>3. \A p \in DOMAIN Pages[category] : p < page + 1 => p = page \/ p < page
    BY <2>2
  <2>4. WhileCollecting'
    BY <1>1, <1>4, <2>1, <2>3 DEF WhileCollecting, PageLinks
  <2> QED BY <1>1, <2>1, <2>4 DEF NothingIsLost
<1>6. CASE ~ (got # {} /\ Cardinality(got) >= PageSize)
  <2>1. EndCategory(found \cup PageLinks)
    BY <1>2, <1>4, <1>6
  <2>2. \A p \in DOMAIN Pages[category] :
          IsReached(category, p) => Pages[category][p] \subseteq found \cup PageLinks
    BY <1>1, <1>4, <1>6, CategoryIsDone
  <2>3. /\ category \in DOMAIN Pages
        /\ DOMAIN Pages = 1..Len(Pages) /\ Len(Pages) \in Nat
    BY ScraperAssumption DEF ScraperTypeOK
  <2>4. \A c \in DOMAIN Pages : c <= category =>
          \A p \in DOMAIN Pages[c] :
            IsReached(c, p) => Pages[c][p] \subseteq links'
    <3>1. links' = links \cup (found \cup PageLinks)
      BY <2>1 DEF EndCategory
    <3>2. \A c \in DOMAIN Pages : c <= category => c = category \/ c < category
      BY <2>3
    <3> QED BY <1>1, <1>4, <2>2, <3>1, <3>2 DEF WhileCollecting
  <2>5. CASE category < Len(Pages)
    <3>1. category' = category + 1 /\ page' = 1 /\ UNCHANGED scraping
      BY <2>1, <2>5 DEF EndCategory
    <3>2. \A c \in DOMAIN Pages : c < category' => c <= category
      BY <2>3, <3>1
    <3>3. \A p \in DOMAIN Pages[category'] : ~ (p < page')
      <4>1. category' \in DOMAIN Pages
        BY <2>3, <2>5, <3>1
      <4>2. DOMAIN Pages[category'] = 1..Len(Pages[category'])
        BY <4>1, ScraperAssumption
      <4> QED BY <3>1, <4>1, <4>2, ScraperAssumption
    <3>4. WhileCollecting'
      BY <2>4, <3>2, <3>3 DEF WhileCollecting
    <3> QED BY <1>1, <3>1, <3>4 DEF NothingIsLost
  <2>6. CASE ~ (category < Len(Pages))
    <3>1. scraping' = "load"
      BY <2>1, <2>6 DEF EndCategory
    <3>2. Covers(links)'
      BY <2>3, <2>4, <2>6 DEF Covers
    <3> QED BY <1>1, <3>1, <3>2 DEF NothingIsLost, WhileCollecting
  <2> QED BY <2>5, <2>6
<1> QED BY <1>5, <1>6

(* The file only grows, and a product leaves toVisit for it or for missed. *)
LEMMA ScrapeLosesNothing ==
  ASSUME ScraperTypeOK, ScraperInv, CompleteInv, ScraperNext
  PROVE  CompleteInv'
<1>0. FileGrows
  BY ScraperKeeps
<1>00. UrlsOf(file) \subseteq UrlsOf(file)'
  BY <1>0 DEF FileGrows, UrlsOf
<1>1. CASE StartScraper
  <2>1. /\ category' = 1 /\ page' = 1 /\ scrapeEnded' = "none"
        /\ collected' = "all" => scraping' = "collect"
    BY <1>1 DEF StartScraper
  <2>2. /\ \A c \in DOMAIN Pages : ~ (c < category')
        /\ \A p \in DOMAIN Pages[category'] : ~ (p < page')
    <3>1. DOMAIN Pages = 1..Len(Pages) /\ 1 \in DOMAIN Pages
      BY ScraperAssumption
    <3>2. Pages[1] \in Seq(SUBSET Urls)
      BY <3>1, ScraperAssumption
    <3>3. DOMAIN Pages[1] = 1..Len(Pages[1])
      BY <3>2
    <3> QED BY <2>1, <3>1, <3>2, <3>3, ScraperAssumption
  <2> QED BY <2>1, <2>2 DEF CompleteInv, NothingIsLost, WhileCollecting
<1>2. CASE CollectPage
  BY <1>2, CollectLosesNothing
<1>3. CASE LoadScraped
  <2>1. /\ scraping = "load" /\ UNCHANGED << file, missed, collected >>
        /\ scrapeEnded = "none"
    BY <1>3 DEF LoadScraped, StopScraper, scraperHistory, CompleteInv
  <2>2. CASE scrapeEnded' = "raised" /\ scraping' = "off"
    BY <2>2 DEF CompleteInv, NothingIsLost, WhileCollecting
  <2>3. CASE /\ scraping' = "scrape" /\ toVisit' = links \ UrlsOf(file)
             /\ UNCHANGED << links, scrapeEnded >>
    <3>1. links \subseteq toVisit' \cup UrlsOf(file) \cup missed
      BY <2>3
    <3>2. collected = "all" => Covers(links)
      BY <2>1 DEF CompleteInv, NothingIsLost
    <3>3. collected' = "all" => Covers(toVisit' \cup UrlsOf(file)' \cup missed')
      <4>1. UrlsOf(file)' = UrlsOf(file) /\ missed' = missed
        BY <2>1 DEF UrlsOf
      <4> QED BY <2>1, <3>1, <3>2, <4>1, CoversMore
    <3>4. collected' = "all" => NothingIsLost'
      BY <2>1, <2>3, <3>3 DEF NothingIsLost, WhileCollecting, Covers
    <3> QED BY <2>1, <2>3, <3>4 DEF CompleteInv
  <2> QED BY <1>3, <2>2, <2>3 DEF LoadScraped, StopScraper, scraperHistory
<1>4. CASE ScrapeProduct \/ WriteOn
  <2>1. /\ scraping \in {"scrape", "write"} /\ scraping' \in {"scrape", "write"}
        /\ UNCHANGED << collected, scrapeEnded >> /\ scrapeEnded = "none"
    BY <1>4 DEF ScrapeProduct, WriteOn, scraperHistory, CompleteInv
  <2>2. toVisit \cup UrlsOf(file) \cup missed
          \subseteq toVisit' \cup UrlsOf(file)' \cup missed'
    <3>1. CASE WriteOn
      BY <1>00, <3>1 DEF WriteOn, scraperMemory, scraperHistory
    <3>2. CASE ScrapeProduct /\ scraping' # "write"
      BY <1>00, <3>2 DEF ScrapeProduct
    <3>3. CASE ScrapeProduct /\ scraping' = "write"
      <4>1. PICK u \in toVisit, source \in Sources :
              /\ toVisit' = toVisit \ {u} /\ UNCHANGED missed
              /\ file' = Append(file, [ url    |-> u,
                                        source |-> source,
                                        text   |-> "torn" ])
        <5>1. \A u \in toVisit : \A shown \in Shop[u] : Scraped(shown) \subseteq Sources
          BY ScraperAssumption, ScrapedAreSources DEF ScraperTypeOK
        <5> QED BY <3>3, <5>1 DEF ScrapeProduct
      <4>2. u \in Urls /\ file \in Seq(Records)
        BY DEF ScraperTypeOK
      <4>3. /\ file' \in Seq(Records) /\ Len(file') = Len(file) + 1
            /\ file'[Len(file')].url = u
        BY <4>1, <4>2, AppendGrows
      <4>4. u \in UrlsOf(file)'
        BY <4>2, <4>3 DEF UrlsOf
      <4> QED BY <1>00, <4>1, <4>4
    <3> QED BY <1>4, <3>1, <3>2, <3>3
  <2>3. collected = "all" => Covers(toVisit' \cup UrlsOf(file)' \cup missed')
    BY <2>1, <2>2, CoversMore DEF CompleteInv, NothingIsLost
  <2> QED BY <2>1, <2>3 DEF CompleteInv, NothingIsLost, WhileCollecting, Covers
<1>5. CASE EndScraper
  <2>1. /\ scraping = "scrape" /\ toVisit = {} /\ scraping' = "off"
        /\ UNCHANGED << file, missed, collected >>
    BY <1>5 DEF EndScraper, StopScraper
  <2>2. UrlsOf(file)' = UrlsOf(file)
    BY <2>1 DEF UrlsOf
  <2>3. collected = "all" => Covers(toVisit \cup UrlsOf(file) \cup missed)
    BY <2>1 DEF CompleteInv, NothingIsLost
  <2>4. toVisit \cup UrlsOf(file) \cup missed = UrlsOf(file)' \cup missed'
    BY <2>1, <2>2
  <2>5. collected' = "all" => Covers(UrlsOf(file)' \cup missed')
    BY <2>1, <2>3, <2>4
  <2> QED BY <2>1, <2>5 DEF CompleteInv, NothingIsLost, WhileCollecting, Covers
<1>6. CASE KillScraper
  <2>1. scraping' = "off" /\ scrapeEnded' = "killed"
    BY <1>6 DEF KillScraper, StopScraper
  <2> QED BY <2>1 DEF CompleteInv, NothingIsLost, WhileCollecting
<1> QED
  BY <1>1, <1>2, <1>3, <1>4, <1>5, <1>6 DEF ScraperNext

LEMMA TextsKept ==
  ASSUME ScraperTypeOK, ScraperInv, CompleteInv, TextInv, ScraperNext
  PROVE  TextInv'
<1>0. DOMAIN file = 1..Len(file) /\ Len(file) \in Nat /\ kills \in Nat
  BY ScraperAssumption DEF ScraperTypeOK
<1>1. CASE StartScraper \/ CollectPage \/ LoadScraped
  <2>1. /\ UNCHANGED << file, kills >> /\ scraping # "write"
        /\ scrapeEnded' # "finished"
    BY <1>1
    DEF StartScraper, CollectPage, LoadScraped, StopScraper, scraperHistory,
        CompleteInv
  <2> QED BY <2>1 DEF TextInv
<1>2. CASE ScrapeProduct /\ scraping' # "write"
  <2>1. UNCHANGED << file, kills, scrapeEnded, scraping >>
    BY <1>2 DEF ScrapeProduct
  <2> QED BY <2>1 DEF TextInv
<1>3. CASE ScrapeProduct /\ scraping' = "write"
  <2>1. PICK u \in toVisit, source \in Sources :
          file' = Append(file, [url |-> u, source |-> source, text |-> "torn"])
    <3>1. \A u \in toVisit : \A shown \in Shop[u] : Scraped(shown) \subseteq Sources
      BY ScraperAssumption, ScrapedAreSources DEF ScraperTypeOK
    <3> QED BY <1>3, <3>1 DEF ScrapeProduct
  <2>2. /\ scraping = "scrape" /\ UNCHANGED kills
        /\ scrapeEnded' = "none"
    BY <1>3 DEF ScrapeProduct, CompleteInv
  <2>3. /\ file' \in Seq(Records) /\ Len(file') = Len(file) + 1
        /\ \A i \in DOMAIN file : file'[i] = file[i]
    BY <2>1, AppendGrows DEF ScraperTypeOK
  <2>4. \A i \in DOMAIN file' : i \in DOMAIN file \/ i = Len(file')
    BY <1>0, <2>3
  <2>5. ASSUME kills = 0, NEW i \in DOMAIN file'
        PROVE  file'[i].text # "whole" => scraping' = "write" /\ i = Len(file')
    <3>1. CASE i \in DOMAIN file
      <4>1. file[i].text = "whole"
        BY <2>2, <2>5, <3>1 DEF TextInv
      <4> QED BY <2>3, <3>1, <4>1
    <3> QED BY <1>3, <2>4, <3>1
  <2> QED BY <2>2, <2>5 DEF TextInv
<1>4. CASE WriteOn
  <2>1. PICK t \in {"unended", "whole"} :
          /\ file' = [file EXCEPT ![Len(file)].text = t]
          /\ t = "unended" => scraping' = "write"
          /\ t = "whole" => scraping' = "scrape"
    BY <1>4 DEF WriteOn
  <2>2. /\ scraping = "write" /\ Len(file) > 0 /\ UNCHANGED kills
        /\ scrapeEnded' = "none"
    BY <1>4 DEF WriteOn, ScraperInv, CompleteInv, scraperHistory
  <2>3. /\ file' \in Seq(Records) /\ Len(file') = Len(file)
        /\ \A i \in DOMAIN file : i # Len(file) => file'[i] = file[i]
        /\ file'[Len(file)].text = t
    <3>1. t \in Texts
      BY <2>1 DEF Texts
    <3> QED BY <3>1, <2>1, <2>2, WriteGrows DEF ScraperTypeOK
  <2>4. DOMAIN file' = DOMAIN file
    BY <1>0, <2>3
  <2> QED BY <2>1, <2>2, <2>3, <2>4 DEF TextInv
<1>5. CASE EndScraper
  <2>1. UNCHANGED << file, kills >> /\ scraping = "scrape"
    BY <1>5 DEF EndScraper
  <2> QED BY <2>1 DEF TextInv, ScraperInv
<1>6. CASE KillScraper
  <2>1. kills' = kills + 1 /\ scrapeEnded' = "killed"
    BY <1>6 DEF KillScraper, StopScraper
  <2> QED BY <1>0, <2>1 DEF TextInv
<1> QED
  BY <1>1, <1>2, <1>3, <1>4, <1>5, <1>6 DEF ScraperNext

(* After a run of the scraper that collected the links itself and lost no  *)
(* category page, a record of every product listed can be read, but for    *)
(* those whose page failed and the two that share a line after a kill; for *)
(* every shop, page and cache size, and number of kills.                   *)
THEOREM ScrapesAreComplete == CatalogSpec => []ScrapeIsComplete
<1> DEFINE Inv == CompleteInv /\ TextInv
<1>1. CatalogInit => Inv
  <2> SUFFICES ASSUME CatalogInit PROVE Inv
    OBVIOUS
  <2>1. DOMAIN Pages = 1..Len(Pages) /\ DOMAIN file = {}
    BY ScraperAssumption DEF CatalogInit, ScraperInit
  <2>2. CompleteInv
    BY <2>1
    DEF CatalogInit, ScraperInit, CompleteInv, NothingIsLost, WhileCollecting
  <2>3. TextInv
    BY <2>1 DEF TextInv
  <2> QED BY <2>2, <2>3
<1>2. IInv /\ Inv /\ [CatalogNext]_catalogVars => Inv'
  <2> SUFFICES ASSUME IInv, Inv, [CatalogNext]_catalogVars
               PROVE  Inv'
    OBVIOUS
  <2>1. CASE ScrapeStep
    BY <2>1, ScrapeLosesNothing, TextsKept
    DEF ScrapeStep, IInv, CatalogTypeOK
  <2>2. ASSUME UNCHANGED << file, scraperVars >> PROVE CompleteInv'
    BY <2>2
    DEF scraperVars, scraperMemory, scraperHistory, CompleteInv, NothingIsLost,
        WhileCollecting, Covers, UrlsOf
  <2>3. ASSUME UNCHANGED << file, scraperVars >>, kills' = kills \/ kills' = kills + 1
        PROVE  TextInv'
    <3>1. kills \in Nat
      BY ScraperAssumption DEF IInv, CatalogTypeOK, ScraperTypeOK
    <3>2. kills' = 0 => kills = 0
      BY <2>3, <3>1
    <3> QED BY <2>3, <3>2
            DEF scraperVars, scraperHistory, TextInv
  <2> QED BY <2>1, <2>2, <2>3
    DEF CatalogNext, IngestStep, IngestKilled, catalogVars
<1>3. IInv /\ Inv => ScrapeIsComplete
  <2> SUFFICES ASSUME IInv, Inv, scrapeEnded = "finished", collected = "all",
                      NEW u \in Listed, u \notin missed, u \notin ReadableUrls(file)
               PROVE  /\ kills # 0
                      /\ \E k \in DOMAIN file :
                           /\ k < Len(file) /\ file[k].text = "unended"
                           /\ u \in { file[k].url, file[k + 1].url }
    BY DEF ScrapeIsComplete
  <2>1. Covers(UrlsOf(file) \cup missed) /\ scraping = "off"
    BY DEF CompleteInv, NothingIsLost
  <2>2. u \in UrlsOf(file)
    BY <2>1 DEF Covers, Listed
  <2>3. PICK i \in DOMAIN file : file[i].url = u
    BY <2>2 DEF UrlsOf
  <2>4. ~ Readable(file, i)
    BY <2>3 DEF ReadableUrls
  <2>5. /\ file \in Seq(Records) /\ Len(file) \in Nat /\ DOMAIN file = 1..Len(file)
        /\ \A j \in DOMAIN file : file[j].text \in { "torn", "unended", "whole" }
    <3>1. file \in Seq(Records)
      BY DEF IInv, CatalogTypeOK, ScraperTypeOK
    <3>2. DOMAIN file = 1..Len(file) /\ Len(file) \in Nat
          /\ \A j \in DOMAIN file : file[j] \in Records
      BY <3>1
    <3> QED BY <3>1, <3>2 DEF Records, Texts
  <2>6. \A j \in DOMAIN file : file[j].text \in { "unended", "whole" }
    BY <2>5 DEF TextInv
  <2>7. \/ file[i].text = "unended" /\ i < Len(file)
        \/ i > 1 /\ i - 1 \in DOMAIN file /\ file[i - 1].text = "unended"
    BY <2>4, <2>5, <2>6 DEF Readable
  <2>8. CASE file[i].text = "unended" /\ i < Len(file)
    BY <2>1, <2>3, <2>8 DEF TextInv
  <2>9. CASE i > 1 /\ i - 1 \in DOMAIN file /\ file[i - 1].text = "unended"
    <3> DEFINE k == i - 1
    <3>1. k \in DOMAIN file /\ k + 1 = i /\ k < Len(file)
      BY <2>5, <2>9
    <3> QED BY <2>1, <2>3, <2>9, <3>1 DEF TextInv
  <2> QED BY <2>7, <2>8, <2>9
<1> QED
  <2> HIDE DEF Inv
  <2> QED BY <1>1, <1>2, <1>3, CatalogInvariant, PTL DEF CatalogSpec

(*---------------------- the lifecycle of a product -----------------------*)

(* The variables of CatalogLifecycle, as the scripts show them.            *)
shownCatalog == << UrlsOf(file), Indexed, Searchable >>

RowsHaveRecords == Indexed \subseteq UrlsOf(file)

(*-------------------------- what one step shows --------------------------*)

(* ScrapeProduct adds a record; no other step of the scraper shows.        *)
LEMMA ScraperShows ==
  ASSUME IInv, ScrapeStep
  PROVE  /\ UNCHANGED << Indexed, Searchable >>
         /\ \/ UNCHANGED UrlsOf(file)
            \/ \E u \in Urls : UrlsOf(file)' = UrlsOf(file) \cup {u}
<1>0. /\ file \in Seq(Records) /\ ScraperTypeOK /\ ScraperInv
      /\ toVisit \in SUBSET Urls
  BY DEF IInv, CatalogTypeOK, ScraperTypeOK
<1>1. UNCHANGED << Indexed, Searchable >>
  BY DEF ScrapeStep, ingestVars, Indexed, Searchable
<1>2. FileGrows
  BY <1>0, ScraperKeeps DEF ScrapeStep
<1>3. CASE ScrapeProduct /\ scraping' = "write"
  <2>1. PICK u \in toVisit, source \in Sources :
          file' = Append(file, [ url    |-> u,
                                 source |-> source,
                                 text   |-> "torn" ])
    <3>1. \A u \in toVisit : \A shown \in Shop[u] : Scraped(shown) \subseteq Sources
      BY <1>0, ScraperAssumption, ScrapedAreSources
    <3> QED BY <1>3, <3>1 DEF ScrapeProduct
  <2>2. /\ file' \in Seq(Records)
        /\ Len(file') = Len(file) + 1
        /\ \A i \in DOMAIN file : file'[i] = file[i]
        /\ file'[Len(file')].url = u
    BY <1>0, <2>1, AppendGrows
  <2>3. DOMAIN file' = DOMAIN file \cup {Len(file')}
    BY <1>0, <2>2
  <2>4. UrlsOf(file)' = UrlsOf(file) \cup {u}
    BY <2>2, <2>3 DEF UrlsOf
  <2> QED BY <1>0, <1>1, <2>4
<1>4. CASE UNCHANGED file
  BY <1>1, <1>4 DEF UrlsOf
<1>5. CASE WriteOn
  <2>1. DOMAIN file' = DOMAIN file
    BY <1>5 DEF WriteOn
  <2>2. UNCHANGED UrlsOf(file)
    BY <1>2, <2>1 DEF FileGrows, UrlsOf
  <2> QED BY <1>1, <2>2
<1> QED
  BY <1>3, <1>4, <1>5
  DEF ScrapeStep, ScraperNext, StartScraper, CollectPage, LoadScraped,
      ScrapeProduct, EndScraper, KillScraper

(* InsertBatch makes rows of records, SaveIndex replaces the index, and    *)
(* nothing else of the ingest service shows.                               *)
LEMMA IngestShows ==
  ASSUME IInv, IngestStep \/ IngestKilled
  PROVE  /\ UNCHANGED UrlsOf(file)
         /\ \/ UNCHANGED << Indexed, Searchable >>
            \/ /\ UNCHANGED Searchable
               /\ Indexed \subseteq Indexed'
               /\ Indexed' \subseteq Indexed \cup UrlsOf(file)
            \/ UNCHANGED Indexed /\ Searchable' \in {Indexed, {}}
<1>0. UNCHANGED UrlsOf(file) /\ (IngestNext \/ KillIngest)
  BY DEF IngestStep, IngestKilled, UrlsOf
<1>1. CASE SaveIndex
  <2>1. ingesting = "save" /\ UNCHANGED Indexed
    BY <1>1 DEF SaveIndex, Indexed
  <2>2. corpus = Indexed
    BY <2>1 DEF IInv, IngestInv
  <2>3. /\ SaveDir \in Dirs
        /\ disk \in [Dirs -> [ state : {"none", "partial", "complete"},
                                urls  : SUBSET Urls ]]
    BY DEF IInv, CatalogTypeOK, IngestTypeOK, Dirs
  <2>4. \/ UNCHANGED disk
        \/ disk'[SaveDir].state = "partial"
        \/ disk'[SaveDir] = [state |-> "complete", urls |-> corpus]
    BY <1>1, <2>3 DEF SaveIndex
  <2> QED BY <1>0, <2>1, <2>2, <2>4 DEF Searchable
<1>2. CASE InsertBatch /\ Commit
  <2>1. UNCHANGED Searchable /\ rows' = Inserted /\ ingesting = "insert"
    BY <1>2 DEF InsertBatch, Commit, Searchable
  <2>2. \A u \in Urls :
          /\ (\E i \in batch : file[i].url = u) => Inserted[u] = 1
          /\ ~ (\E i \in batch : file[i].url = u) => Inserted[u] = rows[u]
    BY <2>1, InsertsOnce DEF IInv, ScraperInv
  <2>3. Indexed \subseteq Indexed'
    <3>1. \A u \in Urls : rows[u] > 0 => Inserted[u] > 0
      BY <2>2
    <3> QED BY <2>1, <3>1 DEF Indexed
  <2>4. Indexed' \subseteq Indexed \cup UrlsOf(file)
    <3>1. batch \subseteq DOMAIN file
      BY DEF IInv, CatalogTypeOK, IngestTypeOK, Lines
    <3> QED BY <2>1, <2>2, <3>1 DEF Indexed, UrlsOf
  <2> QED BY <1>0, <2>1, <2>3, <2>4
<1>3. CASE UNCHANGED << rows, disk >>
  BY <1>0, <1>3 DEF Indexed, Searchable
<1> QED
  BY <1>0, <1>1, <1>2, <1>3
  DEF IngestNext, StartIngest, LoadFile, ProcessProduct, ProductRaises,
      EndLoop, InsertBatch, ReadCorpus, KillIngest

(*---------------------------- the refinement -----------------------------*)

LEMMA RowsComeFromRecords == CatalogSpec => []RowsHaveRecords
<1>1. CatalogInit => RowsHaveRecords
  BY DEF CatalogInit, IngestInit, RowsHaveRecords, Indexed
<1>2. IInv /\ RowsHaveRecords /\ [CatalogNext]_catalogVars => RowsHaveRecords'
  <2> SUFFICES ASSUME IInv, RowsHaveRecords, [CatalogNext]_catalogVars
               PROVE  RowsHaveRecords'
    OBVIOUS
  <2>1. CASE ScrapeStep
    BY <2>1, ScraperShows DEF RowsHaveRecords
  <2>2. CASE IngestStep \/ IngestKilled
    BY <2>2, IngestShows DEF RowsHaveRecords
  <2>3. CASE UNCHANGED catalogVars
    BY <2>3 DEF catalogVars, ingestVars, RowsHaveRecords, Indexed, UrlsOf
  <2> QED BY <2>1, <2>2, <2>3 DEF CatalogNext
<1> QED BY <1>1, <1>2, CatalogInvariant, PTL DEF CatalogSpec

LEMMA CatalogLifecycleInit == CatalogInit => Lifecycle!Init
  BY IngestAssumption
  DEF CatalogInit, ScraperInit, IngestInit, Lifecycle!Init, UrlsOf, Indexed,
      Searchable, Dirs

LEMMA CatalogLifecycleStep ==
  IInv /\ RowsHaveRecords /\ [CatalogNext]_catalogVars
    => [Lifecycle!Next]_shownCatalog
<1> SUFFICES ASSUME IInv, RowsHaveRecords, [CatalogNext]_catalogVars
             PROVE  [Lifecycle!Next]_shownCatalog
  OBVIOUS
<1>1. CASE ScrapeStep
  BY <1>1, ScraperShows
  DEF shownCatalog, Lifecycle!Next, Lifecycle!Scrape
<1>2. CASE IngestStep \/ IngestKilled
  BY <1>2, IngestShows
  DEF shownCatalog, RowsHaveRecords, Lifecycle!Next, Lifecycle!Insert,
      Lifecycle!SaveIndex, Lifecycle!BreakIndex
<1>3. CASE UNCHANGED catalogVars
  BY <1>3 DEF catalogVars, ingestVars, shownCatalog, Indexed, UrlsOf, Searchable
<1> QED BY <1>1, <1>2, <1>3 DEF CatalogNext

(* The scripts implement the lifecycle of a product: whatever is killed,   *)
(* raises or runs at the same time, a row is made of a record, once and    *)
(* for good, and a saved index holds every row there is when it is saved.  *)
THEOREM ScriptsImplementLifecycle == CatalogSpec => ImplementsLifecycle
<1>1. UNCHANGED shownCatalog => UNCHANGED Lifecycle!vars
  BY DEF shownCatalog, Lifecycle!vars
<1>2. IInv /\ RowsHaveRecords /\ [CatalogNext]_catalogVars
        => [Lifecycle!Next]_Lifecycle!vars
  BY <1>1, CatalogLifecycleStep
<1> QED
  BY <1>2, CatalogLifecycleInit, RowsComeFromRecords, CatalogInvariant, PTL
  DEF CatalogSpec, ImplementsLifecycle, Lifecycle!Spec
===============================================================================
