---------------------------- MODULE CatalogLifecycle ----------------------------
(***************************************************************************)
(* What the two offline scripts promise about the products of a shop.  A   *)
(* product has one record, gets its row from that record and keeps it; the *)
(* keyword index is at any moment either out of use or a picture of all    *)
(* the rows there were when it was last saved.                             *)
(***************************************************************************)
CONSTANT Urls

VARIABLES
  recorded,     \* products with a record in the file
  inserted,     \* products with a row
  searchable    \* products in the saved keyword index, {} when it has no use

vars == << recorded, inserted, searchable >>

Init == recorded = {} /\ inserted = {} /\ searchable = {}

Scrape ==
  /\ recorded' # recorded
  /\ \E u \in Urls : recorded' = recorded \cup {u}
  /\ UNCHANGED << inserted, searchable >>

(* A batch is inserted as a whole.                                         *)
Insert ==
  /\ inserted' # inserted
  /\ inserted \subseteq inserted'
  /\ inserted' \subseteq recorded
  /\ UNCHANGED << recorded, searchable >>

SaveIndex ==
  /\ searchable' = inserted
  /\ UNCHANGED << recorded, inserted >>

BreakIndex ==
  /\ searchable' = {}
  /\ UNCHANGED << recorded, inserted >>

Next == Scrape \/ Insert \/ SaveIndex \/ BreakIndex

Spec == Init /\ [][Next]_vars
===============================================================================
