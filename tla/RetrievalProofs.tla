--------------------------- MODULE RetrievalProofs ---------------------------
(***************************************************************************)
(* Rank fusion does what it promises of any two rankings, and one          *)
(* inference shows the LLM the best of them and the user what it picks.    *)
(*                                                                         *)
(* `Ahead' orders the products totally, so the number of products ahead of *)
(* one is an injection into 0..n-1, hence a bijection: this is its         *)
(* position in `Fuse'.                                                     *)
(***************************************************************************)
EXTENDS Retrieval, FiniteSetTheorems, TLAPS

IsRanking(s) ==
  /\ s \in Seq(Products)
  /\ \A i, j \in DOMAIN s : s[i] = s[j] => i = j

(*------------------------------- rankings ------------------------------*)

LEMMA RankInRanking ==
  ASSUME NEW s, IsRanking(s), NEW d \in DocsOf(s)
  PROVE  RankIn(s, d) \in 1..Len(s) /\ s[RankIn(s, d)] = d
  BY DEF IsRanking, DocsOf, RankIn

LEMMA RankOfEntry ==
  ASSUME NEW s, IsRanking(s), NEW i \in 1..Len(s)
  PROVE  s[i] \in DocsOf(s) /\ RankIn(s, s[i]) = i
  BY DEF IsRanking, DocsOf, RankIn

LEMMA DocsAreProducts ==
  ASSUME NEW s, IsRanking(s)
  PROVE  DocsOf(s) \subseteq Products /\ IsFiniteSet(DocsOf(s)) /\ Len(s) \in Nat
<1>1. DocsOf(s) \subseteq Products /\ Len(s) \in Nat
  BY DEF IsRanking, DocsOf
<1> QED BY <1>1, FS_Subset, RetrievalAssumption

(*------------------------------ fractions ------------------------------*)

Fractions == Nat \X (Nat \ {0})

LEMMA ProductIsNatural ==
  ASSUME NEW a \in Nat, NEW b \in Nat
  PROVE  a * b \in Nat
  OBVIOUS

LEMMA TimesKeepsOrder ==
  ASSUME NEW a \in Int, NEW b \in Int, NEW c \in Int, a <= b, c >= 0
  PROVE  a * c <= b * c
  OBVIOUS

LEMMA TimesKeepsStrictOrder ==
  ASSUME NEW a \in Int, NEW b \in Int, NEW c \in Int, a < b, c > 0
  PROVE  a * c < b * c
  OBVIOUS

LEMMA CancelFactor ==
  ASSUME NEW a \in Int, NEW b \in Int, NEW c \in Int, c > 0, a * c < b * c
  PROVE  a < b
  OBVIOUS

(* Scores are compared like numbers.                                       *)
LEMMA HigherIsTransitive ==
  ASSUME NEW p \in Fractions, NEW q \in Fractions, NEW r \in Fractions,
         ~ Higher(q, p), Higher(q, r)
  PROVE  Higher(p, r)
<1> DEFINE a == p[1]
           b == p[2]
           c == q[1]
           d == q[2]
           e == r[1]
           f == r[2]
<1>1. /\ a \in Nat /\ c \in Nat /\ e \in Nat
      /\ b \in Nat /\ d \in Nat /\ f \in Nat
      /\ b > 0 /\ d > 0 /\ f > 0
  BY DEF Fractions
<1>2. c * b <= a * d /\ e * d < c * f
  BY <1>1 DEF Higher
<1> HIDE DEF a, b, c, d, e, f
<1>3. (e * d) * b < (c * f) * b /\ (c * b) * f <= (a * d) * f
  BY <1>1, <1>2, TimesKeepsOrder, TimesKeepsStrictOrder, ProductIsNatural
<1>4. (e * b) * d < (a * f) * d
  BY <1>1, <1>3
<1>5. e * b < a * f
  BY <1>1, <1>4, CancelFactor, ProductIsNatural
<1> QED BY <1>1, <1>5 DEF Higher, a, b, e, f

LEMMA HigherIsAsymmetric ==
  ASSUME NEW p \in Fractions, NEW q \in Fractions, Higher(p, q)
  PROVE  ~ Higher(q, p)
<1>1. /\ p[1] \in Nat /\ q[1] \in Nat
      /\ p[2] \in Nat /\ q[2] \in Nat
  BY DEF Fractions
<1>2. p[1] * q[2] \in Nat /\ q[1] * p[2] \in Nat
  BY <1>1, ProductIsNatural
<1> QED BY <1>2 DEF Higher

(* The score of a product is the sum of two terms.                         *)
Sum(p, q) == << p[1] * q[2] + q[1] * p[2], p[2] * q[2] >>

LEMMA SumIsFraction ==
  ASSUME NEW p \in Fractions, NEW q \in Fractions
  PROVE  Sum(p, q) \in Fractions
<1> DEFINE a == p[1]
           b == p[2]
           c == q[1]
           d == q[2]
<1>1. /\ a \in Nat /\ c \in Nat /\ b \in Nat /\ d \in Nat
      /\ b > 0 /\ d > 0
  BY DEF Fractions
<1> HIDE DEF a, b, c, d
<1>2. a * d \in Nat /\ c * b \in Nat /\ b * d \in Nat
  BY <1>1, ProductIsNatural
<1>3. 0 * d < b * d
  BY <1>1, TimesKeepsStrictOrder
<1>4. b * d > 0
  BY <1>1, <1>2, <1>3
<1> QED BY <1>2, <1>4 DEF Sum, Fractions, a, b, c, d

(* Of two sums, the one with the higher terms is higher.                   *)
LEMMA SumOfHigher ==
  ASSUME NEW p \in Fractions, NEW q \in Fractions,
         NEW p1 \in Fractions, NEW q1 \in Fractions,
         ~ Higher(p1, p), Higher(q, q1)
  PROVE  Higher(Sum(p, q), Sum(p1, q1)) /\ Higher(Sum(q, p), Sum(q1, p1))
<1> DEFINE a == p[1]
           b == p[2]
           c == q[1]
           d == q[2]
           e == p1[1]
           f == p1[2]
           g == q1[1]
           h == q1[2]
<1>1. /\ a \in Nat /\ c \in Nat /\ e \in Nat /\ g \in Nat
      /\ b \in Nat /\ d \in Nat /\ f \in Nat /\ h \in Nat
      /\ b > 0 /\ d > 0 /\ f > 0 /\ h > 0
  BY DEF Fractions
<1>2. e * b <= a * f /\ g * d < c * h
  BY <1>1 DEF Higher
<1>3. Sum(p, q) = << a * d + c * b, b * d >> /\ Sum(p1, q1) = << e * h + g * f, f * h >>
  BY DEF Sum
<1>4. Sum(q, p) = << c * b + a * d, d * b >> /\ Sum(q1, p1) = << g * f + e * h, h * f >>
  BY DEF Sum
<1> HIDE DEF a, b, c, d, e, f, g, h
<1>5. 0 * h < d * h /\ 0 * f < b * f
  BY <1>1, TimesKeepsStrictOrder
<1>6. d * h \in Nat /\ b * f \in Nat /\ d * h > 0 /\ b * f > 0
  BY <1>1, <1>5, ProductIsNatural
<1>7. (e * b) * (d * h) <= (a * f) * (d * h)
  BY <1>1, <1>2, <1>6, TimesKeepsOrder, ProductIsNatural
<1>8. (g * d) * (b * f) < (c * h) * (b * f)
  BY <1>1, <1>2, <1>6, TimesKeepsStrictOrder, ProductIsNatural
<1>9. (e * h + g * f) * (b * d) < (a * d + c * b) * (f * h)
  BY <1>1, <1>7, <1>8
<1>10. (g * f + e * h) * (d * b) < (c * b + a * d) * (h * f)
  BY <1>1, <1>7, <1>8
<1> QED BY <1>3, <1>4, <1>9, <1>10 DEF Higher

(*--------------------------- the order of fusion -----------------------*)

LEMMA TermIsFraction ==
  ASSUME NEW s, IsRanking(s), NEW d
  PROVE  Term(s, d) \in Fractions
<1>1. CASE d \in DocsOf(s)
  <2>1. RankIn(s, d) \in 1..Len(s) /\ Len(s) \in Nat
    BY <1>1, RankInRanking, DocsAreProducts
  <2>2. K + RankIn(s, d) \in Nat \ {0}
    BY <2>1, FusionAssumption
  <2> QED BY <1>1, <2>2 DEF Term, Fractions
<1>2. CASE d \notin DocsOf(s)
  BY <1>2 DEF Term, Fractions
<1> QED BY <1>1, <1>2

LEMMA ScoreIsSum ==
  ASSUME NEW b, NEW v, IsRanking(b), IsRanking(v), NEW d
  PROVE  /\ Score(b, v, d) = Sum(Term(b, d), Term(v, d))
         /\ Score(b, v, d) \in Fractions
<1>1. Score(b, v, d) = Sum(Term(b, d), Term(v, d))
  BY DEF Score, Sum
<1> QED BY <1>1, TermIsFraction, SumIsFraction

Found(b, v) == DocsOf(b) \cup DocsOf(v)

LEMMA FoundIsFinite ==
  ASSUME NEW b, NEW v, IsRanking(b), IsRanking(v)
  PROVE  /\ Found(b, v) \subseteq Products
         /\ IsFiniteSet(Found(b, v))
         /\ Cardinality(Found(b, v)) \in Nat
<1>1. Found(b, v) \subseteq Products
  BY DocsAreProducts DEF Found
<1> QED BY <1>1, FS_Subset, FS_CardinalityType, RetrievalAssumption

LEMMA EnteredType ==
  ASSUME NEW b, NEW v, IsRanking(b), IsRanking(v), NEW d \in Found(b, v)
  PROVE  /\ Entered(b, v, d) \in Nat
         /\ d \in DocsOf(b) => Entered(b, v, d) \in 1..Len(b)
                               /\ b[Entered(b, v, d)] = d
         /\ d \notin DocsOf(b) => Entered(b, v, d) > Len(b)
                                  /\ v[Entered(b, v, d) - Len(b)] = d
<1>1. Len(b) \in Nat /\ Len(v) \in Nat
  BY DocsAreProducts
<1>2. CASE d \in DocsOf(b)
  BY <1>1, <1>2, RankInRanking DEF Entered
<1>3. CASE d \notin DocsOf(b)
  <2>1. d \in DocsOf(v)
    BY <1>3 DEF Found
  <2>2. RankIn(v, d) \in 1..Len(v) /\ v[RankIn(v, d)] = d
    BY <2>1, RankInRanking
  <2>3. Entered(b, v, d) = Len(b) + RankIn(v, d)
    BY <1>3 DEF Entered
  <2>4. Entered(b, v, d) - Len(b) = RankIn(v, d)
    BY <1>1, <2>2, <2>3
  <2> QED BY <1>1, <1>3, <2>2, <2>3, <2>4
<1> QED BY <1>2, <1>3

LEMMA EnteredOnce ==
  ASSUME NEW b, NEW v, IsRanking(b), IsRanking(v),
         NEW d \in Found(b, v), NEW e \in Found(b, v),
         Entered(b, v, d) = Entered(b, v, e)
  PROVE  d = e
<1>1. Len(b) \in Nat
  BY DocsAreProducts
<1>2. CASE d \in DocsOf(b) /\ e \in DocsOf(b)
  BY <1>2, EnteredType
<1>3. CASE d \notin DocsOf(b) /\ e \notin DocsOf(b)
  BY <1>3, EnteredType
<1>4. CASE d \in DocsOf(b) /\ e \notin DocsOf(b)
  BY <1>1, <1>4, EnteredType
<1>5. CASE d \notin DocsOf(b) /\ e \in DocsOf(b)
  BY <1>1, <1>5, EnteredType
<1> QED BY <1>2, <1>3, <1>4, <1>5

LEMMA AheadIsStrict ==
  ASSUME NEW b, NEW v, IsRanking(b), IsRanking(v),
         NEW d \in Found(b, v), NEW e \in Found(b, v), Ahead(b, v, d, e)
  PROVE  ~ Ahead(b, v, e, d)
<1>1. Score(b, v, d) \in Fractions /\ Score(b, v, e) \in Fractions
  BY ScoreIsSum
<1>2. Entered(b, v, d) \in Nat /\ Entered(b, v, e) \in Nat
  BY EnteredType
<1>3. ~ (Higher(Score(b, v, d), Score(b, v, e))
         /\ Higher(Score(b, v, e), Score(b, v, d)))
  BY <1>1, HigherIsAsymmetric
<1>4. ~ (Entered(b, v, d) < Entered(b, v, e)
         /\ Entered(b, v, e) < Entered(b, v, d))
  BY <1>2
<1> QED BY <1>3, <1>4 DEF Ahead

LEMMA AheadIsTotal ==
  ASSUME NEW b, NEW v, IsRanking(b), IsRanking(v),
         NEW d \in Found(b, v), NEW e \in Found(b, v), d # e
  PROVE  Ahead(b, v, d, e) \/ Ahead(b, v, e, d)
<1>1. Entered(b, v, d) \in Nat /\ Entered(b, v, e) \in Nat
  BY EnteredType
<1>2. Entered(b, v, d) # Entered(b, v, e)
  BY EnteredOnce
<1>3. Entered(b, v, d) < Entered(b, v, e) \/ Entered(b, v, e) < Entered(b, v, d)
  BY <1>1, <1>2
<1> QED BY <1>3 DEF Ahead

LEMMA HigherThenNotLower ==
  ASSUME NEW p \in Fractions, NEW q \in Fractions, NEW r \in Fractions,
         Higher(p, q), ~ Higher(r, q)
  PROVE  Higher(p, r)
<1>1. ~ Higher(p, r) => Higher(r, q)
  BY HigherIsTransitive
<1> QED BY <1>1

LEMMA NotHigherIsTransitive ==
  ASSUME NEW p \in Fractions, NEW q \in Fractions, NEW r \in Fractions,
         ~ Higher(q, p), ~ Higher(r, q)
  PROVE  ~ Higher(r, p)
<1>1. Higher(r, p) => Higher(r, q)
  BY HigherThenNotLower
<1> QED BY <1>1

LEMMA AheadIsTransitive ==
  ASSUME NEW b, NEW v, IsRanking(b), IsRanking(v),
         NEW d \in Found(b, v), NEW e \in Found(b, v), NEW f \in Found(b, v),
         Ahead(b, v, d, e), Ahead(b, v, e, f)
  PROVE  Ahead(b, v, d, f)
<1> DEFINE p == Score(b, v, d)
           q == Score(b, v, e)
           r == Score(b, v, f)
           i == Entered(b, v, d)
           j == Entered(b, v, e)
           k == Entered(b, v, f)
<1>1. p \in Fractions /\ q \in Fractions /\ r \in Fractions
  BY ScoreIsSum
<1>2. i \in Nat /\ j \in Nat /\ k \in Nat
  BY EnteredType
<1>3. Higher(p, q) \/ (~ Higher(q, p) /\ i < j)
  BY DEF Ahead
<1>4. Higher(q, r) \/ (~ Higher(r, q) /\ j < k)
  BY DEF Ahead
<1>5. Ahead(b, v, d, f) <=> Higher(p, r) \/ (~ Higher(r, p) /\ i < k)
  BY DEF Ahead
<1> HIDE DEF p, q, r, i, j, k
<1>6. CASE Higher(p, q) /\ Higher(q, r)
  <2>1. ~ Higher(q, p)
    BY <1>1, <1>6, HigherIsAsymmetric
  <2> QED BY <1>1, <1>5, <1>6, <2>1, HigherIsTransitive
<1>7. CASE Higher(p, q) /\ ~ Higher(r, q)
  BY <1>1, <1>5, <1>7, HigherThenNotLower
<1>8. CASE ~ Higher(q, p) /\ Higher(q, r)
  BY <1>1, <1>5, <1>8, HigherIsTransitive
<1>9. CASE ~ Higher(q, p) /\ i < j /\ ~ Higher(r, q) /\ j < k
  <2>1. ~ Higher(r, p)
    BY <1>1, <1>9, NotHigherIsTransitive
  <2> QED BY <1>2, <1>5, <1>9, <2>1
<1> QED BY <1>3, <1>4, <1>6, <1>7, <1>8, <1>9

(*------------------------------ the fusion -----------------------------*)

Better(b, v, d) == { e \in Found(b, v) : Ahead(b, v, e, d) }

Place(b, v) == [d \in Found(b, v) |-> Cardinality(Better(b, v, d)) + 1]

LEMMA BetterIsFinite ==
  ASSUME NEW b, NEW v, IsRanking(b), IsRanking(v), NEW d
  PROVE  IsFiniteSet(Better(b, v, d)) /\ Cardinality(Better(b, v, d)) \in Nat
<1>1. Better(b, v, d) \in SUBSET Found(b, v)
  BY DEF Better
<1> QED BY <1>1, FoundIsFinite, FS_Subset, FS_CardinalityType

LEMMA PlaceType ==
  ASSUME NEW b, NEW v, IsRanking(b), IsRanking(v), NEW d \in Found(b, v)
  PROVE  Place(b, v)[d] \in 1..Cardinality(Found(b, v))
<1> DEFINE others == Found(b, v) \ {d}
<1>1. IsFiniteSet(others) /\ Cardinality(others) = Cardinality(Found(b, v)) - 1
  BY FoundIsFinite, FS_RemoveElement
<1>2. ~ Ahead(b, v, d, d)
  BY AheadIsStrict
<1>3. Better(b, v, d) \in SUBSET others
  BY <1>2 DEF Better
<1>4. Cardinality(Better(b, v, d)) <= Cardinality(others)
  BY <1>1, <1>3, FS_Subset
<1>5. Place(b, v)[d] = Cardinality(Better(b, v, d)) + 1
  BY DEF Place
<1> QED BY <1>1, <1>4, <1>5, FoundIsFinite, BetterIsFinite

LEMMA PlaceKeepsOrder ==
  ASSUME NEW b, NEW v, IsRanking(b), IsRanking(v),
         NEW d \in Found(b, v), NEW e \in Found(b, v), Ahead(b, v, d, e)
  PROVE  Place(b, v)[d] < Place(b, v)[e]
<1> DEFINE rest == Better(b, v, e) \ {d}
<1>1. d \in Better(b, v, e)
  BY DEF Better
<1>2. IsFiniteSet(rest) /\ Cardinality(rest) = Cardinality(Better(b, v, e)) - 1
  BY <1>1, BetterIsFinite, FS_RemoveElement
<1>3. ~ Ahead(b, v, d, d)
  BY AheadIsStrict
<1>4. Better(b, v, d) \in SUBSET rest
  BY <1>3, AheadIsTransitive DEF Better
<1>5. Cardinality(Better(b, v, d)) <= Cardinality(rest)
  BY <1>2, <1>4, FS_Subset
<1>6. /\ Place(b, v)[d] = Cardinality(Better(b, v, d)) + 1
      /\ Place(b, v)[e] = Cardinality(Better(b, v, e)) + 1
  BY DEF Place
<1> QED BY <1>2, <1>5, <1>6, BetterIsFinite

(* Every place is taken, once.                                             *)
LEMMA PlacesAreTaken ==
  ASSUME NEW b, NEW v, IsRanking(b), IsRanking(v)
  PROVE  /\ \A d, e \in Found(b, v) : Place(b, v)[d] = Place(b, v)[e] => d = e
         /\ \A p \in 1..Cardinality(Found(b, v)) :
              \E d \in Found(b, v) : Place(b, v)[d] = p
<1> DEFINE n == Cardinality(Found(b, v))
           places == 1..n
<1>1. Place(b, v) \in [Found(b, v) -> places]
  <2>1. Place(b, v) = [d \in Found(b, v) |-> Place(b, v)[d]]
    BY DEF Place
  <2> QED BY <2>1, PlaceType
<1>2. ASSUME NEW d \in Found(b, v), NEW e \in Found(b, v), d # e
      PROVE  Place(b, v)[d] # Place(b, v)[e]
  <2>1. Place(b, v)[d] \in Nat /\ Place(b, v)[e] \in Nat
    BY PlaceType
  <2>2. Place(b, v)[d] < Place(b, v)[e] \/ Place(b, v)[e] < Place(b, v)[d]
    BY <1>2, AheadIsTotal, PlaceKeepsOrder
  <2> QED BY <2>1, <2>2
<1>3. Place(b, v) \in Injection(Found(b, v), places)
  BY <1>1, <1>2 DEF Injection, IsInjective
<1>4. n \in Nat /\ IsFiniteSet(places) /\ Cardinality(places) = n
  <2>1. n \in Nat
    BY FoundIsFinite
  <2>2. IsFiniteSet(1..n) /\ Cardinality(1..n) = IF 1 > n THEN 0 ELSE n - 1 + 1
    BY <2>1, FS_Interval
  <2> QED BY <2>1, <2>2
<1>5. Place(b, v) \in Surjection(Found(b, v), places)
  BY <1>3, <1>4, FS_Injection
<1> QED BY <1>2, <1>5 DEF Surjection

LEMMA FuseType ==
  ASSUME NEW b, NEW v, IsRanking(b), IsRanking(v)
  PROVE  /\ Fuse(b, v) \in Seq(Found(b, v))
         /\ Len(Fuse(b, v)) = Cardinality(Found(b, v))
         /\ \A p \in 1..Len(Fuse(b, v)) :
              /\ Fuse(b, v)[p] \in Found(b, v)
              /\ Place(b, v)[Fuse(b, v)[p]] = p
<1> DEFINE n == Cardinality(Found(b, v))
           At(p) == CHOOSE d \in Found(b, v) : Cardinality(Better(b, v, d)) = p - 1
<1>1. n \in Nat
  BY FoundIsFinite
<1>2. Fuse(b, v) = [p \in 1..n |-> At(p)]
  BY DEF Fuse, Found, Better
<1>3. ASSUME NEW p \in 1..n
      PROVE  At(p) \in Found(b, v) /\ Place(b, v)[At(p)] = p
  <2>1. PICK d \in Found(b, v) : Place(b, v)[d] = p
    BY PlacesAreTaken
  <2>2. Cardinality(Better(b, v, d)) = p - 1
    BY <2>1, BetterIsFinite DEF Place
  <2>3. At(p) \in Found(b, v) /\ Cardinality(Better(b, v, At(p))) = p - 1
    BY <2>2
  <2> HIDE DEF At
  <2> QED BY <2>3, BetterIsFinite DEF Place
<1> HIDE DEF At
<1>4. Fuse(b, v) \in Seq(Found(b, v)) /\ Len(Fuse(b, v)) = n
  BY <1>1, <1>2, <1>3
<1> QED BY <1>2, <1>3, <1>4

LEMMA FuseIsRanking ==
  ASSUME NEW b, NEW v, IsRanking(b), IsRanking(v)
  PROVE  /\ IsRanking(Fuse(b, v))
         /\ DocsOf(Fuse(b, v)) = Found(b, v)
         /\ \A d \in Found(b, v) : RankIn(Fuse(b, v), d) = Place(b, v)[d]
<1> DEFINE f == Fuse(b, v)
<1>1. f \in Seq(Found(b, v)) /\ Len(f) = Cardinality(Found(b, v))
  BY FuseType
<1>2. \A p \in 1..Len(f) : f[p] \in Found(b, v) /\ Place(b, v)[f[p]] = p
  BY FuseType
<1>3. Found(b, v) \subseteq Products
  BY FoundIsFinite
<1> HIDE DEF f
<1>4. IsRanking(f)
  BY <1>1, <1>2, <1>3 DEF IsRanking
<1>5. ASSUME NEW d \in Found(b, v)
      PROVE  d \in DocsOf(f) /\ RankIn(f, d) = Place(b, v)[d]
  <2>1. Place(b, v)[d] \in 1..Len(f)
    BY <1>1, PlaceType
  <2>2. f[Place(b, v)[d]] = d
    BY <1>2, <2>1, PlacesAreTaken
  <2> QED BY <1>4, <2>1, <2>2, RankOfEntry
<1>6. DocsOf(f) \subseteq Found(b, v)
  BY <1>1 DEF DocsOf
<1> QED BY <1>4, <1>5, <1>6 DEF f

LEMMA HigherIsBefore ==
  ASSUME NEW b, NEW v, IsRanking(b), IsRanking(v),
         NEW d \in Found(b, v), NEW e \in Found(b, v),
         Higher(Score(b, v, d), Score(b, v, e))
  PROVE  RankIn(Fuse(b, v), d) < RankIn(Fuse(b, v), e)
<1>1. Ahead(b, v, d, e)
  BY DEF Ahead
<1>2. Place(b, v)[d] < Place(b, v)[e]
  BY <1>1, PlaceKeepsOrder
<1> QED BY <1>2, FuseIsRanking

(* 1/x + 1/y > 1/z when x and y are less than twice z.                     *)
LEMMA TwoBeatOne ==
  ASSUME NEW x \in Nat \ {0}, NEW y \in Nat \ {0}, NEW z \in Nat \ {0},
         x < 2 * z, y < 2 * z
  PROVE  /\ Higher(Sum(<< 1, x >>, << 1, y >>), Sum(<< 1, z >>, << 0, 1 >>))
         /\ Higher(Sum(<< 1, x >>, << 1, y >>), Sum(<< 0, 1 >>, << 1, z >>))
<1>1. y * x < (2 * z) * x /\ x * y < (2 * z) * y
  BY TimesKeepsStrictOrder
<1>2. x * y < (y + x) * z
  BY <1>1
<1>3. Sum(<< 1, x >>, << 1, y >>) = << y + x, x * y >>
  BY DEF Sum
<1>4. /\ Sum(<< 1, z >>, << 0, 1 >>) = << 1, z >>
      /\ Sum(<< 0, 1 >>, << 1, z >>) = << 1, z >>
  BY DEF Sum
<1>5. x * y \in Nat /\ (y + x) * z \in Nat
  BY ProductIsNatural
<1> QED BY <1>2, <1>3, <1>4, <1>5 DEF Higher

LEMMA AgreementIsHigher ==
  ASSUME NEW b, NEW v, IsRanking(b), IsRanking(v),
         Len(b) <= TopK, Len(v) <= TopK,
         NEW d \in DocsOf(b) \cap DocsOf(v),
         NEW e \in Found(b, v) \ (DocsOf(b) \cap DocsOf(v))
  PROVE  Higher(Score(b, v, d), Score(b, v, e))
<1> DEFINE x == K + RankIn(b, d)
           y == K + RankIn(v, d)
<1>1. /\ RankIn(b, d) \in 1..Len(b) /\ RankIn(v, d) \in 1..Len(v)
      /\ Len(b) \in Nat /\ Len(v) \in Nat
  BY RankInRanking, DocsAreProducts
<1>2. x \in 1..(2 * K + 1) /\ y \in 1..(2 * K + 1)
  BY <1>1, FusionAssumption, RetrievalAssumption
<1>3. Score(b, v, d) = Sum(<< 1, x >>, << 1, y >>)
  BY ScoreIsSum DEF Term
<1>4. CASE e \in DocsOf(b) /\ e \notin DocsOf(v)
  <2> DEFINE z == K + RankIn(b, e)
  <2>1. RankIn(b, e) \in 1..Len(b)
    BY <1>4, RankInRanking
  <2>2. z \in Nat \ {0} /\ x < 2 * z /\ y < 2 * z
    BY SMTT(30), <1>1, <1>2, <2>1, FusionAssumption
  <2>3. Score(b, v, e) = Sum(<< 1, z >>, << 0, 1 >>)
    BY <1>4, ScoreIsSum DEF Term
  <2> HIDE DEF x, y, z
  <2> QED BY <1>2, <1>3, <2>2, <2>3, TwoBeatOne, FusionAssumption
<1>5. CASE e \notin DocsOf(b) /\ e \in DocsOf(v)
  <2> DEFINE z == K + RankIn(v, e)
  <2>1. RankIn(v, e) \in 1..Len(v)
    BY <1>5, RankInRanking
  <2>2. z \in Nat \ {0} /\ x < 2 * z /\ y < 2 * z
    BY SMTT(30), <1>1, <1>2, <2>1, FusionAssumption
  <2>3. Score(b, v, e) = Sum(<< 0, 1 >>, << 1, z >>)
    BY <1>5, ScoreIsSum DEF Term
  <2> HIDE DEF x, y, z
  <2> QED BY <1>2, <1>3, <2>2, <2>3, TwoBeatOne, FusionAssumption
<1> QED BY <1>4, <1>5 DEF Found

LEMMA BetterTerm ==
  ASSUME NEW s, IsRanking(s), NEW d, NEW e,
         e \in DocsOf(s) => d \in DocsOf(s) /\ RankIn(s, d) < RankIn(s, e)
  PROVE  /\ ~ Higher(Term(s, e), Term(s, d))
         /\ e \in DocsOf(s) => Higher(Term(s, d), Term(s, e))
<1>1. CASE e \in DocsOf(s)
  <2>1. RankIn(s, d) \in Nat /\ RankIn(s, e) \in Nat
    BY <1>1, RankInRanking, DocsAreProducts
  <2>2. Term(s, d) = << 1, K + RankIn(s, d) >> /\ Term(s, e) = << 1, K + RankIn(s, e) >>
    BY <1>1 DEF Term
  <2> QED BY <1>1, <2>1, <2>2, FusionAssumption DEF Higher
<1>2. CASE e \notin DocsOf(s)
  <2>1. Term(s, d)[1] \in Nat /\ Term(s, d)[2] \in Nat
    BY TermIsFraction DEF Fractions
  <2>2. Term(s, e) = << 0, 1 >>
    BY <1>2 DEF Term
  <2> QED BY <1>2, <2>1, <2>2 DEF Higher
<1> QED BY <1>1, <1>2

LEMMA KeptOrderIsHigher ==
  ASSUME NEW b, NEW v, IsRanking(b), IsRanking(v),
         NEW d, NEW e \in Found(b, v),
         \A docs \in {b, v} :
           e \in DocsOf(docs) =>
             d \in DocsOf(docs) /\ RankIn(docs, d) < RankIn(docs, e)
  PROVE  Higher(Score(b, v, d), Score(b, v, e))
<1> DEFINE p == Term(b, d)
           q == Term(v, d)
           p1 == Term(b, e)
           q1 == Term(v, e)
<1>1. /\ p \in Fractions /\ q \in Fractions
      /\ p1 \in Fractions /\ q1 \in Fractions
  BY TermIsFraction
<1>2. ~ Higher(p1, p) /\ ~ Higher(q1, q)
  BY BetterTerm
<1>3. Higher(p, p1) \/ Higher(q, q1)
  BY BetterTerm DEF Found
<1>4. Score(b, v, d) = Sum(p, q) /\ Score(b, v, e) = Sum(p1, q1)
  BY ScoreIsSum
<1> HIDE DEF p, q, p1, q1
<1> QED BY <1>1, <1>2, <1>3, <1>4, SumOfHigher

(*------------------------------- sequences -----------------------------*)

LEMMA SeqOfMore ==
  ASSUME NEW S, NEW T, S \subseteq T, NEW s \in Seq(S)
  PROVE  s \in Seq(T)
  OBVIOUS

LEMMA LesserType ==
  ASSUME NEW a \in Nat, NEW b \in Nat
  PROVE  Lesser(a, b) \in Nat /\ Lesser(a, b) <= a /\ Lesser(a, b) <= b
  BY DEF Lesser

LEMMA RankingsAreRankings ==
  ASSUME NEW S, S \subseteq Products, NEW n \in Nat, NEW s \in Rankings(S, n)
  PROVE  IsRanking(s) /\ s \in Seq(S) /\ Len(s) = n /\ DocsOf(s) \subseteq S
<1>1. s \in [1..n -> S]
  BY DEF Rankings
<1>2. s \in Seq(S) /\ Len(s) = n
  BY <1>1
<1>3. s \in Seq(Products)
  BY <1>2, SeqOfMore
<1>4. \A i, j \in DOMAIN s : s[i] = s[j] => i = j
  BY <1>1 DEF Rankings
<1> QED BY <1>1, <1>2, <1>3, <1>4 DEF IsRanking, DocsOf

(* The first TopN of a ranking: nothing left out is ahead of any of them.  *)
LEMMA PrefixIsBest ==
  ASSUME NEW S, NEW s, IsRanking(s), s \in Seq(S)
  PROVE  /\ Prefix(s, TopN) \in Seq(S)
         /\ Len(Prefix(s, TopN)) = Lesser(TopN, Len(s))
         /\ \A d \in DocsOf(Prefix(s, TopN)) :
              \A e \in DocsOf(s) \ DocsOf(Prefix(s, TopN)) :
                RankIn(s, d) < RankIn(s, e)
<1> DEFINE n == Lesser(TopN, Len(s))
           c == Prefix(s, TopN)
<1>0. Len(s) \in Nat /\ TopN \in Nat
  BY RetrievalAssumption
<1>1. Len(s) \in Nat /\ n \in Nat /\ n <= Len(s)
  BY <1>0, LesserType
<1>2. c = SubSeq(s, 1, n)
  BY DEF Prefix
<1> HIDE DEF n, c
<1>3. c \in Seq(S) /\ Len(c) = n /\ \A i \in 1..n : c[i] = s[i]
  BY <1>1, <1>2
<1>4. ASSUME NEW d \in DocsOf(c) PROVE d \in DocsOf(s) /\ RankIn(s, d) \in 1..n
  <2>1. PICK i \in 1..n : d = s[i]
    BY <1>3 DEF DocsOf
  <2>2. i \in 1..Len(s)
    BY <1>1
  <2> QED BY <2>1, <2>2, RankOfEntry
<1>5. ASSUME NEW e \in DocsOf(s) \ DocsOf(c)
      PROVE  RankIn(s, e) \in 1..Len(s) /\ RankIn(s, e) > n
  <2>1. RankIn(s, e) \in 1..Len(s) /\ s[RankIn(s, e)] = e
    BY RankInRanking
  <2>2. ASSUME RankIn(s, e) \in 1..n PROVE FALSE
    <3>1. c[RankIn(s, e)] = e /\ RankIn(s, e) \in DOMAIN c
      BY <1>3, <2>1, <2>2
    <3> QED BY <3>1 DEF DocsOf
  <2> QED BY <1>1, <2>1, <2>2
<1>6. \A d \in DocsOf(c) : \A e \in DocsOf(s) \ DocsOf(c) :
        RankIn(s, d) < RankIn(s, e)
  BY <1>1, <1>4, <1>5
<1> QED BY <1>3, <1>6 DEF n, c

(*----------------------------- the invariant ---------------------------*)

(* The searches return rankings that are not too long, and the fusion is   *)
(* that of what the searches have returned.                                *)
FusionInv ==
  /\ IsRanking(bm25Docs) /\ Len(bm25Docs) <= TopK
  /\ IsRanking(vectorDocs) /\ Len(vectorDocs) <= TopK
  /\ Fused => ranked = Fuse(bm25Docs, vectorDocs)
  /\ step = "rerank" => useReranker

IInv ==
  /\ RetrievalTypeOK
  /\ FusionInv
  /\ ContextIsBest
  /\ PickedIsShown

LEMMA EmptyIsRanking ==
  IsRanking(<< >>) /\ Len(<< >>) = 0 /\ \A S : << >> \in Seq(S)
  BY DEF IsRanking

LEMMA InvInit == RetrievalInit => IInv
<1> SUFFICES ASSUME RetrievalInit PROVE IInv
  OBVIOUS
<1> USE DEF RetrievalInit
<1>1. RetrievalTypeOK
  BY EmptyIsRanking DEF RetrievalTypeOK
<1>2. FusionInv
  BY EmptyIsRanking, RetrievalAssumption DEF FusionInv, Fused
<1>3. ContextIsBest /\ PickedIsShown
  BY DEF ContextIsBest, PickedIsShown
<1> QED BY <1>1, <1>2, <1>3 DEF IInv

(* A step that leaves the query's results alone and comes before the       *)
(* ranking or ends the inference.                                          *)
LEMMA QueryKept ==
  ASSUME IInv, UNCHANGED query, UNCHANGED << stored, indexed, useReranker >>,
         step' \in { "embed", "search", "failed" }
  PROVE  IInv'
<1>1. RetrievalTypeOK'
  BY DEF IInv, RetrievalTypeOK, query
<1>2. FusionInv'
  BY DEF IInv, FusionInv, Fused, query
<1>3. ContextIsBest' /\ PickedIsShown'
  BY DEF ContextIsBest, PickedIsShown
<1> QED BY <1>1, <1>2, <1>3 DEF IInv

LEMMA SearchKeepsInv ==
  ASSUME IInv, VectorSearch
  PROVE  IInv'
<1>1. CASE Raise /\ UNCHANGED << stored, indexed, useReranker >>
  BY <1>1, QueryKept DEF Raise
<1>2. CASE /\ vectorDocs' \in Rankings(stored, Lesser(TopK, Cardinality(stored)))
           /\ bm25Docs' \in Rankings(indexed, TopK)
           /\ step' = "rank"
           /\ UNCHANGED << ranked, context, rerankFailed, picked, shown >>
           /\ UNCHANGED << stored, indexed, useReranker >>
  <2>1. stored \subseteq Products /\ indexed \subseteq stored
    BY DEF IInv, RetrievalTypeOK
  <2>2. Cardinality(stored) \in Nat /\ TopK \in Nat
    BY <2>1, RetrievalAssumption, FS_Subset, FS_CardinalityType
  <2>3. /\ IsRanking(vectorDocs') /\ vectorDocs' \in Seq(stored)
        /\ Len(vectorDocs') <= TopK
    BY ZenonT(60), <1>2, <2>1, <2>2, RankingsAreRankings, LesserType
  <2>4. /\ IsRanking(bm25Docs') /\ bm25Docs' \in Seq(indexed)
        /\ Len(bm25Docs') <= TopK
    BY <1>2, <2>1, <2>2, RankingsAreRankings
  <2>5. RetrievalTypeOK'
    BY <1>2, <2>3, <2>4 DEF IInv, RetrievalTypeOK
  <2>6. FusionInv'
    BY <1>2, <2>3, <2>4 DEF FusionInv, Fused
  <2>7. ContextIsBest' /\ PickedIsShown'
    BY <1>2 DEF ContextIsBest, PickedIsShown
  <2> QED BY <2>5, <2>6, <2>7 DEF IInv
<1> QED BY <1>1, <1>2 DEF VectorSearch

(* The fusion names stored products only.                                  *)
LEMMA FusionIsStored ==
  ASSUME IInv
  PROVE  /\ Fuse(bm25Docs, vectorDocs) \in Seq(stored)
         /\ IsRanking(Fuse(bm25Docs, vectorDocs))
         /\ DocsOf(Fuse(bm25Docs, vectorDocs))
              = DocsOf(bm25Docs) \cup DocsOf(vectorDocs)
<1>1. IsRanking(bm25Docs) /\ IsRanking(vectorDocs)
  BY DEF IInv, FusionInv
<1>2. bm25Docs \in Seq(indexed) /\ vectorDocs \in Seq(stored) /\ indexed \subseteq stored
  BY DEF IInv, RetrievalTypeOK
<1>3. Found(bm25Docs, vectorDocs) \subseteq stored
  BY <1>2 DEF Found, DocsOf
<1>4. Fuse(bm25Docs, vectorDocs) \in Seq(stored)
  BY <1>1, <1>3, FuseType, SeqOfMore
<1> QED BY <1>1, <1>4, FuseIsRanking DEF Found

LEMMA RankKeepsInv ==
  ASSUME IInv, Rank
  PROVE  IInv'
<1> DEFINE r == Fuse(bm25Docs, vectorDocs)
<1>1. /\ ranked' = r
      /\ UNCHANGED << stored, indexed, useReranker, bm25Docs, vectorDocs,
                      rerankFailed, picked, shown >>
      /\ \/ useReranker /\ step' = "rerank" /\ UNCHANGED context
         \/ step' = "generate" /\ context' = Prefix(r, TopN)
  BY DEF Rank
<1>2. r \in Seq(stored) /\ IsRanking(r) /\ DocsOf(r) = DocsOf(bm25Docs) \cup DocsOf(vectorDocs)
  BY FusionIsStored
<1> HIDE DEF r
<1>3. /\ Prefix(r, TopN) \in Seq(stored)
      /\ Len(Prefix(r, TopN)) = Lesser(TopN, Len(r))
      /\ \A d \in DocsOf(Prefix(r, TopN)) :
           \A e \in DocsOf(r) \ DocsOf(Prefix(r, TopN)) :
             RankIn(r, d) < RankIn(r, e)
  BY <1>2, PrefixIsBest
<1>4. RetrievalTypeOK'
  BY <1>1, <1>2, <1>3 DEF IInv, RetrievalTypeOK
<1>5. FusionInv'
  BY <1>1 DEF IInv, FusionInv, Fused, r
<1>6. ContextIsBest'
  BY <1>1, <1>2, <1>3 DEF ContextIsBest, Position
<1>7. PickedIsShown'
  BY <1>1 DEF PickedIsShown
<1> QED BY <1>4, <1>5, <1>6, <1>7 DEF IInv

LEMMA RerankKeepsInv ==
  ASSUME IInv, Rerank
  PROVE  IInv'
<1>1. /\ step = "rerank" /\ step' = "generate" /\ useReranker
      /\ UNCHANGED << stored, indexed, useReranker, bm25Docs, vectorDocs,
                      ranked, picked, shown >>
  BY DEF Rerank, IInv, FusionInv
<1>2. ranked = Fuse(bm25Docs, vectorDocs)
  BY <1>1 DEF IInv, FusionInv, Fused
<1>3. /\ ranked \in Seq(stored) /\ stored \subseteq Products
      /\ IsRanking(ranked)
      /\ DocsOf(ranked) = DocsOf(bm25Docs) \cup DocsOf(vectorDocs)
  BY <1>2, FusionIsStored DEF IInv, RetrievalTypeOK
<1>4. /\ context' \in Seq(stored) /\ rerankFailed' \in BOOLEAN
      /\ rerankFailed' \/ Len(context') = Lesser(TopN, Len(ranked))
  <2>1. CASE /\ context' \in Rankings(DocsOf(ranked), Lesser(TopN, Len(ranked)))
             /\ UNCHANGED rerankFailed
    <3>1. TopN \in Nat /\ Len(ranked) \in Nat
      BY <1>3, RetrievalAssumption
    <3>2. DocsOf(ranked) \subseteq stored
      BY <1>3 DEF DocsOf
    <3>3. Lesser(TopN, Len(ranked)) \in Nat
      BY <3>1, LesserType
    <3>4. /\ context' \in Seq(DocsOf(ranked))
          /\ Len(context') = Lesser(TopN, Len(ranked))
      BY <1>3, <2>1, <3>2, <3>3, RankingsAreRankings
    <3> QED BY <2>1, <3>2, <3>4, SeqOfMore DEF IInv, RetrievalTypeOK
  <2>2. CASE context' = << >> /\ rerankFailed' = TRUE
    BY <2>2, EmptyIsRanking
  <2> QED BY <2>1, <2>2 DEF Rerank
<1>5. RetrievalTypeOK'
  BY <1>1, <1>4 DEF IInv, RetrievalTypeOK
<1>6. FusionInv'
  BY <1>1, <1>2 DEF IInv, FusionInv, Fused
<1>7. ContextIsBest'
  BY <1>1, <1>3, <1>4 DEF ContextIsBest
<1>8. PickedIsShown'
  BY <1>1 DEF PickedIsShown
<1> QED BY <1>5, <1>6, <1>7, <1>8 DEF IInv

LEMMA GenerateKeepsInv ==
  ASSUME IInv, GenerateResult
  PROVE  IInv'
<1>1. CASE Raise /\ UNCHANGED << stored, indexed, useReranker >>
  BY <1>1, QueryKept DEF Raise
<1>2. CASE /\ step = "generate" /\ step' = "fetch"
           /\ picked' \in SUBSET Products
           /\ UNCHANGED << bm25Docs, vectorDocs, ranked, context,
                           rerankFailed, shown >>
           /\ UNCHANGED << stored, indexed, useReranker >>
  <2>1. RetrievalTypeOK'
    BY <1>2 DEF IInv, RetrievalTypeOK
  <2>2. FusionInv'
    BY <1>2 DEF IInv, FusionInv, Fused
  <2>3. ContextIsBest'
    BY <1>2 DEF IInv, ContextIsBest, Position
  <2>4. PickedIsShown'
    BY <1>2 DEF PickedIsShown
  <2> QED BY <2>1, <2>2, <2>3, <2>4 DEF IInv
<1> QED BY <1>1, <1>2 DEF GenerateResult

LEMMA FetchKeepsInv ==
  ASSUME IInv, FetchProducts
  PROVE  IInv'
<1>1. CASE Raise /\ UNCHANGED << stored, indexed, useReranker >>
  BY <1>1, QueryKept DEF Raise
<1>2. CASE /\ step = "fetch" /\ step' = "done"
           /\ shown' = picked \cap stored
           /\ UNCHANGED << bm25Docs, vectorDocs, ranked, context,
                           rerankFailed, picked >>
           /\ UNCHANGED << stored, indexed, useReranker >>
  <2>1. RetrievalTypeOK'
    BY <1>2 DEF IInv, RetrievalTypeOK
  <2>2. FusionInv'
    BY <1>2 DEF IInv, FusionInv, Fused
  <2>3. ContextIsBest'
    BY <1>2 DEF IInv, ContextIsBest, Position
  <2>4. DocsOf(context) \subseteq stored
    BY DEF IInv, RetrievalTypeOK, DocsOf
  <2>5. PickedIsShown'
    BY <1>2, <2>4 DEF PickedIsShown
  <2> QED BY <2>1, <2>2, <2>3, <2>5 DEF IInv
<1> QED BY <1>1, <1>2 DEF FetchProducts

LEMMA NextQueryKeepsInv ==
  ASSUME IInv, NextQuery
  PROVE  IInv'
<1>1. RetrievalTypeOK'
  BY EmptyIsRanking DEF NextQuery, IInv, RetrievalTypeOK
<1>2. FusionInv'
  BY EmptyIsRanking, RetrievalAssumption DEF NextQuery, FusionInv, Fused
<1>3. ContextIsBest' /\ PickedIsShown'
  BY DEF NextQuery, ContextIsBest, PickedIsShown
<1> QED BY <1>1, <1>2, <1>3 DEF IInv

LEMMA IngestKeepsInv ==
  ASSUME IInv, IngestMore
  PROVE  IInv'
<1>1. /\ stored \subseteq stored' /\ stored' \in SUBSET Products
      /\ UNCHANGED << indexed, useReranker, step, bm25Docs, vectorDocs, ranked,
                      context, rerankFailed, picked, shown >>
  BY DEF IngestMore, query
<1>2. /\ vectorDocs \in Seq(stored') /\ ranked \in Seq(stored')
      /\ context \in Seq(stored')
  BY <1>1, SeqOfMore DEF IInv, RetrievalTypeOK
<1>3. RetrievalTypeOK'
  BY <1>1, <1>2 DEF IInv, RetrievalTypeOK
<1>4. FusionInv'
  BY <1>1 DEF IInv, FusionInv, Fused
<1>5. ContextIsBest'
  BY <1>1 DEF IInv, ContextIsBest, Position
<1>6. PickedIsShown'
  BY <1>1 DEF IInv, PickedIsShown
<1> QED BY <1>3, <1>4, <1>5, <1>6 DEF IInv

LEMMA InvKept == IInv /\ [RetrievalNext]_retrievalVars => IInv'
<1> SUFFICES ASSUME IInv, [RetrievalNext]_retrievalVars PROVE IInv'
  OBVIOUS
<1>1. CASE NormalizeQuery
  BY <1>1, QueryKept DEF NormalizeQuery, Raise
<1>2. CASE EmbedQuery
  BY <1>2, QueryKept DEF EmbedQuery, Raise
<1>3. CASE UNCHANGED retrievalVars
  BY <1>3 DEF retrievalVars, query, IInv, RetrievalTypeOK, FusionInv, Fused,
              ContextIsBest, Position, PickedIsShown
<1> QED
  BY <1>1, <1>2, <1>3, SearchKeepsInv, RankKeepsInv, RerankKeepsInv,
     GenerateKeepsInv, FetchKeepsInv, NextQueryKeepsInv, IngestKeepsInv
  DEF RetrievalNext

LEMMA RetrievalInvariant == RetrievalSpec => []IInv
  BY InvInit, InvKept, PTL DEF RetrievalSpec

(*------------------------------- theorems ------------------------------*)

(* Every ranking an inference handles names stored products only, also     *)
(* while the ingest service inserts.                                       *)
THEOREM RetrievalTypeCorrect == RetrievalSpec => []RetrievalTypeOK
<1>1. IInv => RetrievalTypeOK
  BY DEF IInv
<1> QED BY <1>1, RetrievalInvariant, PTL

(* For every k and every pair of rankings of at most TopK < k + 2          *)
(* products: what both searches found stands before what one of them did.  *)
THEOREM AgreementAlwaysWins == RetrievalSpec => []AgreementWins
<1>1. IInv => AgreementWins
  <2> SUFFICES ASSUME IInv, Fused,
                      NEW d \in DocsOf(bm25Docs) \cap DocsOf(vectorDocs),
                      NEW e \in DocsOf(ranked)
                                  \ (DocsOf(bm25Docs) \cap DocsOf(vectorDocs))
               PROVE  Position(d) < Position(e)
    BY DEF AgreementWins
  <2>1. /\ IsRanking(bm25Docs) /\ Len(bm25Docs) <= TopK
        /\ IsRanking(vectorDocs) /\ Len(vectorDocs) <= TopK
        /\ ranked = Fuse(bm25Docs, vectorDocs)
    BY DEF IInv, FusionInv
  <2>2. DocsOf(ranked) = Found(bm25Docs, vectorDocs)
    BY <2>1, FuseIsRanking
  <2>3. d \in Found(bm25Docs, vectorDocs)
    BY DEF Found
  <2>4. Higher(Score(bm25Docs, vectorDocs, d), Score(bm25Docs, vectorDocs, e))
    BY <2>1, <2>2, AgreementIsHigher
  <2> QED BY <2>1, <2>2, <2>3, <2>4, HigherIsBefore DEF Position
<1> QED BY <1>1, RetrievalInvariant, PTL

(* For every k and every pair of rankings: a product no search ranked      *)
(* below another, and that every search that found the other found too,    *)
(* stands before it.                                                       *)
THEOREM FusionKeepsOrder == RetrievalSpec => []OrderIsKept
<1>1. IInv => OrderIsKept
  <2> SUFFICES ASSUME IInv, Fused,
                      NEW d \in DocsOf(ranked), NEW e \in DocsOf(ranked),
                      \A docs \in { bm25Docs, vectorDocs } :
                        e \in DocsOf(docs) =>
                          d \in DocsOf(docs) /\ RankIn(docs, d) < RankIn(docs, e)
               PROVE  Position(d) < Position(e)
    BY DEF OrderIsKept
  <2>1. /\ IsRanking(bm25Docs) /\ IsRanking(vectorDocs)
        /\ ranked = Fuse(bm25Docs, vectorDocs)
    BY DEF IInv, FusionInv
  <2>2. DocsOf(ranked) = Found(bm25Docs, vectorDocs)
    BY <2>1, FuseIsRanking
  <2>3. Higher(Score(bm25Docs, vectorDocs, d), Score(bm25Docs, vectorDocs, e))
    BY <2>1, <2>2, KeptOrderIsHigher
  <2> QED BY <2>1, <2>2, <2>3, HigherIsBefore DEF Position
<1> QED BY <1>1, RetrievalInvariant, PTL

(* The LLM is shown the TopN first of the fused ranking, or as many as the *)
(* reranker chose of it; nothing only after the reranker failed.           *)
THEOREM ContextsAreBest == RetrievalSpec => []ContextIsBest
<1>1. IInv => ContextIsBest
  BY DEF IInv
<1> QED BY <1>1, RetrievalInvariant, PTL

(* The user is shown whatever the LLM picked of what it was shown, however *)
(* old the index is and whatever is inserted meanwhile.                    *)
THEOREM PicksAreShown == RetrievalSpec => []PickedIsShown
<1>1. IInv => PickedIsShown
  BY DEF IInv
<1> QED BY <1>1, RetrievalInvariant, PTL
===============================================================================
