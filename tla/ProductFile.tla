----------------------------- MODULE ProductFile -----------------------------
(***************************************************************************)
(* thomann_products.jsonl, the file between the scraper and the ingest     *)
(* service: one JSON record per line, written by appending.  A record is   *)
(* first "torn" (some prefix of it is on disk), then "unended" (all of it  *)
(* but the newline), then "whole".  Whatever follows an unended or torn    *)
(* record is on the same line with it, and a line that is not exactly one  *)
(* JSON value does not parse.                                              *)
(***************************************************************************)
EXTENDS ProductPage, Sequences

CONSTANT Urls    \* product pages of the shop

VARIABLE file

Texts == { "torn", "unended", "whole" }

Records == [url : Urls, source : Sources, text : Texts]

UrlsOf(records) == { records[i].url : i \in DOMAIN records }

Readable(records, i) ==
  /\ records[i].text # "torn"
  /\ records[i].text = "unended" => i = Len(records)
  /\ i > 1 => records[i - 1].text = "whole"

(* What a reader finds that passes over the lines that do not parse.       *)
ReadableUrls(records) ==
  { records[i].url : i \in { j \in DOMAIN records : Readable(records, j) } }

Parses(records) == \A i \in DOMAIN records : Readable(records, i)
===============================================================================
