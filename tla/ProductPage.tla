------------------------------ MODULE ProductPage ------------------------------
(***************************************************************************)
(* What a product goes through besides the files: the shop's page, the     *)
(* record the scraper makes of it, the validation of that record by the    *)
(* ingest service, and the row.  Of a name, a stock note or a category     *)
(* only whether the page has one; of a price what it is and how it is      *)
(* written, in thousandths.                                                *)
(***************************************************************************)
EXTENDS Naturals

PriceForms == { "none",      \* no price on the page
                "whole",     \* "89"
                "cents",     \* "12,50" or "12.50"
                "grouped",   \* "1,299" or "1.299"
                "other" }    \* "1,299.00", "1.299,00", words or ""

Prices == { price \in [form : PriceForms, amount : Nat] :
              price.form = "grouped" => price.amount % 1000 = 0 }

Wording == { "none", "blank", "words" }

(* `facts': the block has an author with a date, stars and both counts of  *)
(* votes.                                                                  *)
Reviews == [ title : Wording, text : Wording, facts : BOOLEAN ]

(* A product page together with its reviews page, and equally the record   *)
(* made of them, where what the page lacks is null.                        *)
Sources == [ name     : BOOLEAN,
             price    : Prices,
             stock    : BOOLEAN,
             category : BOOLEAN,
             reviews  : SUBSET Reviews ]

(* The product page came back as "", after 403 three times.                *)
BlankRecord == [ name |-> FALSE, price |-> [form |-> "none", amount |-> 0],
                 stock |-> FALSE, category |-> FALSE, reviews |-> {} ]

(* scrape_product returns a record of whatever it got; scrape_reviews      *)
(* keeps an error, or a reviews page that came back as "", to itself.      *)
Scraped(p) ==
  { BlankRecord } \cup { [p EXCEPT !.reviews = got] : got \in {p.reviews, {}} }

(*------------------------- the ingest service --------------------------*)

(* The condition of the comprehension over a product's reviews, which      *)
(* strips the title and then the text, and raises when that is None.       *)
Filterable(r) ==
  \/ r.title = "blank"
  \/ r.title = "words" /\ r.text # "none"

IsKept(r) == r.title = "words" /\ r.text = "words"

KeptReviews(s) == { r \in s.reviews : IsKept(r) }

(* ProductReview and ProductSource demand every field.                     *)
IsAccepted(s) ==
  /\ s.name /\ s.stock /\ s.price.form # "none"
  /\ \A r \in s.reviews : Filterable(r) /\ (IsKept(r) => r.facts)

(* Commas are replaced by points, and float takes one point.               *)
IsNumber(price) == price.form \in { "whole", "cents", "grouped" }

(* Mutant: commas are dropped, as if they only grouped digits.             *)
ReadPriceWithoutCommas(price) ==
  IF price.form = "cents" THEN price.amount * 100 ELSE price.amount

(* The one separator of a grouped price is taken for the decimal one.      *)
ReadPrice(price) ==
  IF price.form = "grouped" THEN price.amount \div 1000 ELSE price.amount

(* Product and its reviews, as far as they are modelled.                   *)
Rows == [ price : Nat, reviews : SUBSET Reviews ]

Row(s) == [ price |-> ReadPrice(s.price), reviews |-> KeptReviews(s) ]
===============================================================================
