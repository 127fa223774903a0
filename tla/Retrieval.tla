-------------------------------- MODULE Retrieval --------------------------------
(***************************************************************************)
(* LLMService.inference, the work an llm worker does on one query at a     *)
(* time: normalise and embed the query, search the products twice (the     *)
(* vectors in the database, the keywords in the index the worker loaded    *)
(* when it started), fuse the two rankings, rerank, let the LLM choose,    *)
(* and fetch what it chose from the database.  Meanwhile the ingest        *)
(* service adds products to the database, not to a loaded index.           *)
(***************************************************************************)
EXTENDS RankFusion

CONSTANTS
  Products,    \* product ids
  TopK,        \* top_k_vectors: 50 in the code
  TopN         \* top_n_rerank: 25 in the code

(* The last conjunct is what makes the constants of the code, 50 and 60,   *)
(* fit: see AgreementWins.                                                 *)
ASSUME RetrievalAssumption ==
  /\ IsFiniteSet(Products)
  /\ TopK \in Nat \ {0}
  /\ TopN \in Nat \ {0}
  /\ TopK < K + 2

VARIABLES
  stored,       \* products in the database
  indexed,      \* products in the index the worker has loaded
  useReranker,  \* argument of the worker: True in docker-compose.yml
  step,         \* where the inference is
  bm25Docs, vectorDocs,
  ranked,       \* the fused ranking
  context,      \* what the LLM is shown
  rerankFailed, \* history
  picked,       \* product_ids of the LLM's answer
  shown         \* products of the text that is returned

query == << bm25Docs, vectorDocs, ranked, context, rerankFailed, picked, shown >>
retrievalVars == << stored, indexed, useReranker, step, query >>

Lesser(a, b) == IF a <= b THEN a ELSE b

(* The rankings of n of the given products.                                *)
Rankings(products, n) ==
  { s \in [1..n -> products] :
      \A i, j \in 1..n : s[i] = s[j] => i = j }

Prefix(s, n) == SubSeq(s, 1, Lesser(n, Len(s)))

(* The loaded index names stored products only, and so does every ranking, *)
(* also while the ingest service inserts.                                  *)
RetrievalTypeOK ==
  /\ stored \in SUBSET Products
  /\ indexed \in SUBSET stored
  /\ useReranker \in BOOLEAN
  /\ step \in { "normalize", "embed", "search", "rank", "rerank",
                "generate", "fetch", "done", "failed" }
  /\ bm25Docs \in Seq(indexed)
  /\ vectorDocs \in Seq(stored)
  /\ ranked \in Seq(stored)
  /\ context \in Seq(stored)
  /\ rerankFailed \in BOOLEAN
  /\ picked \in SUBSET Products
  /\ shown \in SUBSET Products

RetrievalInit ==
  /\ stored \in SUBSET Products
  /\ indexed \in SUBSET stored
  /\ useReranker \in BOOLEAN
  /\ step = "normalize"
  /\ bm25Docs = << >> /\ vectorDocs = << >>
  /\ ranked = << >> /\ context = << >>
  /\ rerankFailed = FALSE /\ picked = {} /\ shown = {}

(* Whatever raises in inference goes to the worker.                        *)
Raise == step' = "failed" /\ UNCHANGED query

NormalizeQuery ==
  /\ step = "normalize"
  /\ \/ step' = "embed" /\ UNCHANGED query
     \/ Raise
  /\ UNCHANGED << stored, indexed, useReranker >>

EmbedQuery ==
  /\ step = "embed"
  /\ \/ step' = "search" /\ UNCHANGED query
     \/ Raise
  /\ UNCHANGED << stored, indexed, useReranker >>

(* bm25s raises when it is asked for more results than it has documents.   *)
VectorSearch ==
  /\ step = "search"
  /\ \/ /\ TopK <= Cardinality(indexed)
        /\ vectorDocs' \in
             Rankings(stored, Lesser(TopK, Cardinality(stored)))
        /\ bm25Docs' \in Rankings(indexed, TopK)
        /\ step' = "rank"
        /\ UNCHANGED << ranked, context, rerankFailed, picked, shown >>
     \/ Raise
  /\ UNCHANGED << stored, indexed, useReranker >>

(* Mutant: the slice is taken before the rankings are fused.               *)
RankSlices ==
  /\ step = "rank"
  /\ ranked' = Fuse(Prefix(bm25Docs, TopN), Prefix(vectorDocs, TopN))
  /\ IF useReranker
       THEN step' = "rerank" /\ UNCHANGED context
       ELSE step' = "generate" /\ context' = Prefix(ranked', TopN)
  /\ UNCHANGED << stored, indexed, useReranker, bm25Docs, vectorDocs,
                  rerankFailed, picked, shown >>

Rank ==
  /\ step = "rank"
  /\ ranked' = Fuse(bm25Docs, vectorDocs)
  /\ IF useReranker
       THEN step' = "rerank" /\ UNCHANGED context
       ELSE step' = "generate" /\ context' = Prefix(ranked', TopN)
  /\ UNCHANGED << stored, indexed, useReranker, bm25Docs, vectorDocs,
                  rerankFailed, picked, shown >>

(* The reranker scores every document and the best are kept; when the      *)
(* request fails, the list returned is the one not filled yet.             *)
Rerank ==
  /\ step = "rerank"
  /\ \/ /\ context' \in
             Rankings(DocsOf(ranked), Lesser(TopN, Len(ranked)))
        /\ UNCHANGED rerankFailed
     \/ /\ context' = << >>
        /\ rerankFailed' = TRUE
  /\ step' = "generate"
  /\ UNCHANGED << stored, indexed, useReranker, bm25Docs, vectorDocs, ranked,
                  picked, shown >>

(* The LLM may name any ids, also such as it was not shown.                *)
GenerateResult ==
  /\ step = "generate"
  /\ \/ /\ picked' \in SUBSET Products
        /\ step' = "fetch"
        /\ UNCHANGED << bm25Docs, vectorDocs, ranked, context, rerankFailed,
                        shown >>
     \/ Raise
  /\ UNCHANGED << stored, indexed, useReranker >>

(* Mutant: the products are looked up among the keyword documents.         *)
FetchIndexed ==
  /\ step = "fetch"
  /\ shown' = picked \cap indexed
  /\ step' = "done"
  /\ UNCHANGED << stored, indexed, useReranker, bm25Docs, vectorDocs, ranked,
                  context, rerankFailed, picked >>

FetchProducts ==
  /\ step = "fetch"
  /\ \/ /\ shown' = picked \cap stored
        /\ step' = "done"
        /\ UNCHANGED << bm25Docs, vectorDocs, ranked, context, rerankFailed,
                        picked >>
     \/ Raise
  /\ UNCHANGED << stored, indexed, useReranker >>

(* The worker takes its next query, in the same process or restarted; then *)
(* it has loaded the index of a later ingest.                              *)
NextQuery ==
  /\ step \in {"done", "failed"}
  /\ step' = "normalize"
  /\ indexed' \in { S \in SUBSET stored : indexed \subseteq S }
  /\ bm25Docs' = << >> /\ vectorDocs' = << >>
  /\ ranked' = << >> /\ context' = << >>
  /\ rerankFailed' = FALSE /\ picked' = {} /\ shown' = {}
  /\ UNCHANGED << stored, useReranker >>

(* Mutant: a new ingest replaces the products.                             *)
IngestReplaces ==
  /\ stored' \in SUBSET Products
  /\ UNCHANGED << indexed, useReranker, step, query >>

(* An insert of the ingest service; nothing deletes products.              *)
IngestMore ==
  /\ stored' \in { S \in SUBSET Products : stored \subseteq S }
  /\ UNCHANGED << indexed, useReranker, step, query >>

RetrievalNext ==
  \/ NormalizeQuery \/ EmbedQuery \/ VectorSearch \/ Rank \/ Rerank
  \/ GenerateResult \/ FetchProducts \/ NextQuery \/ IngestMore

RetrievalSpec == RetrievalInit /\ [][RetrievalNext]_retrievalVars

(*------------------------------ properties -----------------------------*)

Fused == step \in {"rerank", "generate", "fetch", "done"}
Position(d) == RankIn(ranked, d)

(* A product both searches found stands before every product only one of   *)
(* them found, however well that one ranked it: so it is for rankings of   *)
(* fewer than K + 2 products, and TopK products are asked for.             *)
AgreementWins ==
  Fused =>
    LET both == DocsOf(bm25Docs) \cap DocsOf(vectorDocs)
    IN \A d \in both : \A e \in DocsOf(ranked) \ both :
         Position(d) < Position(e)

(* A product that neither search ranked below another, and that was found  *)
(* by both, stands before it; products of one list only keep their order.  *)
OrderIsKept ==
  Fused =>
    \A d, e \in DocsOf(ranked) :
      /\ \A docs \in { bm25Docs, vectorDocs } :
           e \in DocsOf(docs) =>
             d \in DocsOf(docs) /\ RankIn(docs, d) < RankIn(docs, e)
      => Position(d) < Position(e)

(* The LLM is shown something, and no product it is not shown was found    *)
(* that the fused ranking put before one it is shown, unless the reranker  *)
(* decided so; only when the reranker fails it is shown nothing.           *)
ContextIsBest ==
  step \in {"generate", "fetch", "done"} =>
    /\ DocsOf(ranked) = DocsOf(bm25Docs) \cup DocsOf(vectorDocs)
    /\ rerankFailed \/ Len(context) = Lesser(TopN, Len(ranked))
    /\ useReranker \/
         \A d \in DocsOf(context), e \in DocsOf(ranked) \ DocsOf(context) :
           Position(d) < Position(e)

(* What the LLM picks from the context is all shown to the user, also when *)
(* the index is older than the database or the database grew meanwhile.    *)
PickedIsShown ==
  step = "done" => picked \cap DocsOf(context) \subseteq shown

(* "Reranker request failed: ... Falling back to initial vector order.":   *)
(* a failed reranking does not leave the LLM without documents.            *)
RerankFallsBack ==
  rerankFailed /\ step = "generate" => context # << >>
===============================================================================
