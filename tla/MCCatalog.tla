-------------------------------- MODULE MCCatalog --------------------------------
(* A shop of two categories and four products for TLC: a full page whose   *)
(* links are cached, with the empty page behind it; and a page that is     *)
(* short although another one follows.                                     *)
EXTENDS Catalog

MCUrls == { "u1", "u2", "u3", "u4" }

MCPages == << << {"u1", "u2"} >>, << {"u3"}, {"u4"} >> >>

Price(how, what) == [form |-> how, amount |-> what]

Review(a, b, complete) == [title |-> a, text |-> b, facts |-> complete]

Product(price, hasCategory, reviews) ==
  [ name |-> TRUE, price |-> price, stock |-> TRUE, category |-> hasCategory,
    reviews |-> reviews ]

(* "1,299" with a review and one without words; "12,50"; and "89" in no    *)
(* category with a review that lacks its votes, or "1,299.00".             *)
MCShop ==
  [ u1 |-> { Product(Price("grouped", 1299000), TRUE,
                     { Review("words", "words", TRUE),
                       Review("blank", "none", FALSE) }) },
    u2 |-> { Product(Price("cents", 12500), TRUE, {}) },
    u3 |-> { Product(Price("whole", 89000), FALSE,
                     { Review("words", "words", FALSE) }),
             Product(Price("other", 1299000), TRUE, {}) },
    u4 |-> { Product(Price("whole", 89000), TRUE, {}) } ]

===============================================================================
