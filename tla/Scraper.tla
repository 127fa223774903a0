-------------------------------- MODULE Scraper --------------------------------
(***************************************************************************)
(* product_scraper_thomann.py, a script run by hand and again after it was *)
(* interrupted: it collects the product links of each category page by     *)
(* page, then fetches every product that is not in the file yet and        *)
(* appends it.  It keeps two files: the cached links, written on some      *)
(* pages only, and the product file.                                       *)
(***************************************************************************)
EXTENDS ProductFile, FiniteSets

CONSTANTS
  Pages,        \* the shop: per category the product links of its pages;
                \* a tile without a link adds none
  Shop,         \* the versions of its page that each product may show
  PageSize,     \* links of a full page: 50 in the code
  CacheEvery,   \* the links are cached on every such page: 10 in the code
  MaxKills      \* bound on kills of the scraper and of the ingest service

ASSUME ScraperAssumption ==
  /\ Pages \in Seq(Seq(SUBSET Urls)) /\ Len(Pages) > 0
  /\ Shop \in [Urls -> SUBSET Sources]
  /\ PageSize \in Nat \ {0}
  /\ CacheEvery \in Nat \ {0}
  /\ MaxKills \in Nat

VARIABLES
  linkCache,    \* cache/product_links.txt; {} when there is no such file
  scraping,     \* what the script is doing
  category, page,
  found,        \* all_links of collect_product_links
  links,        \* all_product_links of main
  toVisit,      \* links that scrape_products has still to look at
  missed,       \* history: products whose page could not be fetched
  collected,    \* history: "cache", "cut" (a category ended early), "all"
  scrapeEnded,  \* history: how the last run of the script ended
  kills         \* kills so far

scraperMemory == << category, page, found, links, toVisit >>
scraperHistory == << missed, collected, scrapeEnded >>
scraperVars ==
  << linkCache, scraping, scraperMemory, scraperHistory >>

ScraperTypeOK ==
  /\ file \in Seq(Records)
  /\ linkCache \in SUBSET Urls
  /\ scraping \in { "off", "collect", "load", "scrape", "write" }
  /\ category \in DOMAIN Pages
  /\ page \in Nat \ {0}
  /\ found \in SUBSET Urls
  /\ links \in SUBSET Urls
  /\ toVisit \in SUBSET Urls
  /\ missed \in SUBSET Urls
  /\ collected \in { "cache", "cut", "all" }
  /\ scrapeEnded \in { "none", "killed", "raised", "finished" }
  /\ kills \in 0..MaxKills

ScraperInit ==
  /\ file = << >>
  /\ linkCache = {}
  /\ scraping = "off"
  /\ category = 1 /\ page = 1
  /\ found = {} /\ links = {} /\ toVisit = {}
  /\ missed = {} /\ collected = "all" /\ scrapeEnded = "none"
  /\ kills = 0

(* main: cached links replace the collection altogether.                   *)
StartScraper ==
  /\ scraping = "off"
  /\ links' = linkCache
  /\ scraping' = IF linkCache = {} THEN "collect" ELSE "load"
  /\ collected' = IF linkCache = {} THEN "all" ELSE "cache"
  /\ category' = 1 /\ page' = 1
  /\ found' = {} /\ toVisit' = {} /\ missed' = {} /\ scrapeEnded' = "none"
  /\ UNCHANGED << file, linkCache, kills >>

PageLinks ==
  IF page \in DOMAIN Pages[category] THEN Pages[category][page] ELSE {}

(* Mutant: the test for the last category is off by one.                   *)
EndCategoryLate(all) ==
  /\ links' = links \cup all
  /\ found' = linkCache
  /\ page' = 1
  /\ IF category <= Len(Pages)
       THEN category' = category + 1 /\ UNCHANGED scraping
       ELSE scraping' = "load" /\ UNCHANGED category
  /\ UNCHANGED linkCache

(* The loop over the pages is left, with all the links found so far; the   *)
(* next category starts from the cache file.                               *)
EndCategory(all) ==
  /\ links' = links \cup all
  /\ found' = linkCache
  /\ page' = 1
  /\ IF category < Len(Pages)
       THEN category' = category + 1 /\ UNCHANGED scraping
       ELSE scraping' = "load" /\ UNCHANGED category
  /\ UNCHANGED linkCache

NextPage(all) ==
  /\ found' = all
  /\ linkCache' = IF page % CacheEvery = 0 THEN all ELSE linkCache
  /\ page' = page + 1
  /\ UNCHANGED << scraping, category, links >>

(* Mutant: the test for the last page comes before the links are added.    *)
CollectPageThenTest ==
  /\ scraping = "collect"
  /\ \E got \in {PageLinks, {}} :
       /\ collected' = IF got = PageLinks THEN collected ELSE "cut"
       /\ IF Cardinality(got) < PageSize
            THEN EndCategory(found)
            ELSE NextPage(found \cup got)
  /\ UNCHANGED << file, toVisit, missed, scrapeEnded, kills >>

(* A page with fewer links than PageSize is taken for the last one.  One   *)
(* that was answered 403 three times comes back empty, one that failed     *)
(* raises: either way the category ends as if it were exhausted.           *)
CollectPage ==
  /\ scraping = "collect"
  /\ \E got \in {PageLinks, {}} :
       /\ collected' = IF got = PageLinks THEN collected ELSE "cut"
       /\ IF got # {} /\ Cardinality(got) >= PageSize
            THEN NextPage(found \cup got)
            ELSE EndCategory(found \cup got)
  /\ UNCHANGED << file, toVisit, missed, scrapeEnded, kills >>

StopScraper(why) ==
  /\ scraping' = "off"
  /\ scrapeEnded' = why
  /\ UNCHANGED << linkCache, scraperMemory, missed, collected >>

(* Mutant: lines that do not parse are skipped, as FileUtils does.         *)
LoadReadable ==
  /\ scraping = "load"
  /\ scraping' = "scrape"
  /\ toVisit' = links \ ReadableUrls(file)
  /\ UNCHANGED << file, linkCache, category, page, found, links,
                  scraperHistory, kills >>

(* scrape_products loads the file: json.loads is not guarded, one line     *)
(* that does not parse ends the script.                                    *)
LoadScraped ==
  /\ scraping = "load"
  /\ \/ /\ ~ Parses(file)
        /\ StopScraper("raised")
     \/ /\ Parses(file)
        /\ scraping' = "scrape"
        /\ toVisit' = links \ UrlsOf(file)
        /\ UNCHANGED << linkCache, category, page, found, links,
                        scraperHistory >>
  /\ UNCHANGED << file, kills >>

(* A page that raises is passed over; what any other one gave is saved,    *)
(* also the record of a blank page.                                        *)
ScrapeProduct ==
  /\ scraping = "scrape"
  /\ \E u \in toVisit :
       /\ toVisit' = toVisit \ {u}
       /\ \/ /\ missed' = missed \cup {u}
             /\ UNCHANGED << file, scraping >>
          \/ /\ \E shown \in Shop[u] : \E source \in Scraped(shown) :
                  file' = Append(file, [ url    |-> u,
                                         source |-> source,
                                         text   |-> "torn" ])
             /\ scraping' = "write"
             /\ UNCHANGED missed
  /\ UNCHANGED << linkCache, category, page, found, links,
                  collected, scrapeEnded, kills >>

(* The write of the record goes on, and is over with the newline.          *)
WriteOn ==
  /\ scraping = "write"
  /\ \/ /\ file[Len(file)].text = "torn"
        /\ file' = [file EXCEPT ![Len(file)].text = "unended"]
        /\ UNCHANGED scraping
     \/ /\ file[Len(file)].text = "unended"
        /\ file' = [file EXCEPT ![Len(file)].text = "whole"]
        /\ scraping' = "scrape"
  /\ UNCHANGED << linkCache, scraperMemory, scraperHistory, kills >>

EndScraper ==
  /\ scraping = "scrape"
  /\ toVisit = {}
  /\ StopScraper("finished")
  /\ UNCHANGED << file, kills >>

KillScraper ==
  /\ scraping # "off"
  /\ kills < MaxKills
  /\ kills' = kills + 1
  /\ StopScraper("killed")
  /\ UNCHANGED file

ScraperNext ==
  \/ StartScraper \/ CollectPage \/ LoadScraped \/ ScrapeProduct
  \/ WriteOn \/ EndScraper \/ KillScraper
===============================================================================
