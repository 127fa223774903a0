------------------------------- MODULE RankFusion -------------------------------
(***************************************************************************)
(* reciprocal_rank_fusion as operators.  A ranking is a sequence of        *)
(* product ids, best first, each once.  A score is a sum of at most two    *)
(* reciprocals; it is kept as a fraction, so two scores compare exactly    *)
(* (the code adds floats: two unlike sums that are equal as fractions may  *)
(* there differ in the last bit).                                          *)
(***************************************************************************)
EXTENDS Naturals, Sequences, FiniteSets

CONSTANT K       \* smoothing factor: 60 in the code

ASSUME FusionAssumption == K \in Nat

DocsOf(ranking) == { ranking[i] : i \in DOMAIN ranking }

RankIn(ranking, d) == CHOOSE i \in DOMAIN ranking : ranking[i] = d

(* What one list adds to the score of d, as << numerator, denominator >>.  *)
Term(ranking, d) ==
  IF d \in DocsOf(ranking) THEN << 1, K + RankIn(ranking, d) >> ELSE << 0, 1 >>

(* Mutant: the second list assigns the score where it should add to it.    *)
ScoreOverwritten(bm25, vector, d) ==
  IF d \in DocsOf(vector) THEN Term(vector, d) ELSE Term(bm25, d)

Score(bm25, vector, d) ==
  LET b == Term(bm25, d)
      v == Term(vector, d)
  IN << b[1] * v[2] + v[1] * b[2], b[2] * v[2] >>

Higher(p, q) == p[1] * q[2] > q[1] * p[2]

(* When d entered the registry, a dict that keeps insertion order.         *)
Entered(bm25, vector, d) ==
  IF d \in DocsOf(bm25) THEN RankIn(bm25, d)
                        ELSE Len(bm25) + RankIn(vector, d)

(* Mutant: ascending order.                                                *)
AheadAscending(bm25, vector, d, e) ==
  Higher(Score(bm25, vector, e), Score(bm25, vector, d))
  \/ /\ ~ Higher(Score(bm25, vector, d), Score(bm25, vector, e))
     /\ Entered(bm25, vector, d) < Entered(bm25, vector, e)

(* sorted(..., reverse=True) is stable: equal scores keep their order.     *)
Ahead(bm25, vector, d, e) ==
  \/ Higher(Score(bm25, vector, d), Score(bm25, vector, e))
  \/ /\ ~ Higher(Score(bm25, vector, e), Score(bm25, vector, d))
     /\ Entered(bm25, vector, d) < Entered(bm25, vector, e)

Fuse(bm25, vector) ==
  LET docs == DocsOf(bm25) \cup DocsOf(vector)
  IN [ p \in 1..Cardinality(docs) |->
         CHOOSE d \in docs :
           Cardinality({ e \in docs : Ahead(bm25, vector, e, d) }) = p - 1 ]
===============================================================================
