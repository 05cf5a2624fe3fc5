------------------------------- MODULE Ranking -------------------------------
(***************************************************************************)
(* One run of the retrieve_classic pipeline for one query: the sizes the   *)
(* request asks for (read_pipeline_payload.py, custom.py), the dense and   *)
(* the sparse search (milvus_backend.py, retriever.py), their fusion       *)
(* (custom.py), the reranking (reranker.py) and the items taken out of the *)
(* run's result (pipeline_outputs.py).                                     *)
(*                                                                         *)
(* A hit is the chunk it shows and its score.  What the searches and the   *)
(* model think of the chunks is free.  Scores of the fusion are fractions, *)
(* kept as multiples of 1/Scale, which the denominators divide.            *)
(***************************************************************************)
EXTENDS Naturals, Integers, FiniteSets, Sequences, SequencesExt, Selections

CONSTANTS
  IndexedChunks, \* the rows of the collection and of the sparse corpus
  DocumentOf,    \* the document of each
  Filters,       \* the sets of chunks that the filters of a request may admit
  AskedTopKs, ProfileTopKs, \* top_k of the request and of the profile
  Strategies,    \* \subseteq {"rrf", "normalized"}
  RrfK,          \* rrf_k
  Weights,       \* primary_weight and secondary_weight
  Scale,         \* a multiple of all denominators
  ScoreShapes    \* falling sequences of scores a search may give its hits

ASSUME RankingAssumption ==
  /\ IsFiniteSet(IndexedChunks) /\ Filters \subseteq SUBSET IndexedChunks
  /\ AskedTopKs \cup ProfileTopKs \subseteq Int /\ Weights \in [1..2 -> Int]
  /\ RrfK \in Nat \ {0} /\ Scale \in Nat \ {0}
  /\ \A rank \in 1..Cardinality(IndexedChunks) : Scale % (RrfK + rank) = 0
  /\ \A shape \in ScoreShapes :
       shape \in Seq(Int) /\ Len(shape) = Cardinality(IndexedChunks)

VARIABLES
  query,   \* admitted chunks, the sizes and the strategy of the request
  progress, \* the last step that is done
  snapshots, \* ret_items after the steps that set it: dense search, fusion, reranking
  sparse,  \* temp_items: the row of the sparse search
  answer   \* the items of the answer

rankingVars == <<query, progress, snapshots, sparse, answer>>

-----------------------------------------------------------------------------
(* Sizes: a top_k that is not positive is 5, or falls back on the request's. *)

Wanted(asked) == IF asked > 0 THEN asked ELSE 5

Candidates(asked, profile) ==
  LET size == IF profile > 0 THEN profile ELSE Wanted(asked)
  IN IF size > Wanted(asked) THEN size ELSE Wanted(asked)

(* A faulty MergeLimit: the room of one search. *)
RoomForOne(candidates) == candidates

(* Room for the hits of both searches. *)
MergeLimit(candidates) == 2 * candidates

Least(m, n) == IF m < n THEN m ELSE n

-----------------------------------------------------------------------------
(* Fusion.                                                                 *)

(* A dense hit has the vector_id of its row; the output fields of a sparse *)
(* hit hold no id of the chunk, and its doc_id is the key. *)
ItemKey(source, hit) ==
  IF source = "dense" THEN <<"vector_id", hit.chunk>> ELSE <<"doc_id", DocumentOf[hit.chunk]>>

(* Scores from the lowest to the highest, as 0 to 1. *)
NormalizedScores(row) ==
  LET low  == row[Len(row)].score
      high == row[1].score
  IN [i \in DOMAIN row |-> IF high <= low THEN Scale
                           ELSE ((row[i].score - low) * Scale) \div (high - low)]

Contribution(row, rank, strategy, weight) ==
  weight * (IF strategy = "rrf" THEN Scale \div (RrfK + rank) ELSE NormalizedScores(row)[rank])

(* The first hit of a key gives the item, every one adds to its score. *)
AppendHit(entries, hit, source, gain) ==
  LET key == ItemKey(source, hit)
  IN IF \E i \in DOMAIN entries : entries[i].key = key
     THEN [i \in DOMAIN entries |-> IF entries[i].key = key
                                    THEN [entries[i] EXCEPT !.score = @ + gain] ELSE entries[i]]
     ELSE Append(entries, [key |-> key, chunk |-> hit.chunk, score |-> gain, source |-> source])

AppendRow(entries, row, source, strategy, weight) ==
  LET after[rank \in 0..Len(row)] ==
        IF rank = 0 THEN entries
        ELSE AppendHit(after[rank - 1], row[rank], source,
                       Contribution(row, rank, strategy, weight))
  IN after[Len(row)]

(* By falling score, and among equals as they came. *)
ByScore(entries) ==
  LET place(i) == Cardinality({j \in DOMAIN entries :
                    \/ entries[j].score > entries[i].score
                    \/ entries[j].score = entries[i].score /\ j <= i})
  IN [n \in DOMAIN entries |-> entries[CHOOSE i \in DOMAIN entries : place(i) = n]]

Fused(primary, secondary, limit, strategy) ==
  LET entries == AppendRow(AppendRow(<<>>, primary, "dense", strategy, Weights[1]),
                           secondary, "sparse", strategy, Weights[2])
  IN SubSeq(ByScore(entries), 1, Least(limit, Len(entries)))

-----------------------------------------------------------------------------
(* The run.                                                                *)

NoQuery == [admits |-> {}, wanted |-> 0, candidates |-> 0, strategy |-> "rrf"]

RankingInit ==
  /\ query = NoQuery /\ progress = "none"
  /\ snapshots = <<>> /\ sparse = <<>> /\ answer = <<>>

BuildInputs(admits, asked, profile, strategy) ==
  /\ progress = "none"
  /\ query' = [admits |-> admits, wanted |-> Wanted(asked),
               candidates |-> Candidates(asked, profile), strategy |-> strategy]
  /\ progress' = "asked"
  /\ UNCHANGED <<snapshots, sparse, answer>>

Scored(chunks, shape) == [i \in DOMAIN chunks |-> [chunk |-> chunks[i], score |-> shape[i]]]

(* Milvus filters before it takes the nearest. *)
SearchDense(shape) ==
  /\ progress = "asked"
  /\ \E order \in SetToSeqs(query.admits) :
       LET hits == SubSeq(order, 1, Least(query.candidates, Len(order)))
       IN snapshots' = Append(snapshots, <<Scored(hits, shape)>>)
  /\ progress' = "dense"
  /\ UNCHANGED <<query, sparse, answer>>

(* The mask of the filters makes a score zero, as it is for a chunk without *)
(* a word of the query: any order of the records that has the rest first.   *)
MaskedOrders(relevant) ==
  {order \in SetToSeqs(IndexedChunks) :
     \A i, j \in DOMAIN order : order[i] \in relevant /\ order[j] \notin relevant => i < j}

(* The best of all records are taken, and those the filters do not admit   *)
(* are dropped from them. *)
SearchSparse(shape) ==
  /\ progress = "dense"
  /\ \E relevant \in SUBSET query.admits : \E order \in MaskedOrders(relevant) :
       LET best == SubSeq(order, 1, Least(query.candidates, Len(order)))
           scores == [i \in DOMAIN shape |-> IF i <= Cardinality(relevant) THEN shape[i] + 1 ELSE 0]
           admitted == {i \in DOMAIN best : best[i] \in query.admits}
       IN sparse' = Picked(Scored(best, scores), admitted)
  /\ progress' = "sparse"
  /\ UNCHANGED <<query, snapshots, answer>>

Dense  == snapshots[1][1]
Merged == snapshots[2][1]

Merge ==
  /\ progress = "sparse"
  /\ snapshots' = Append(snapshots,
                         <<Fused(Dense, sparse, MergeLimit(query.candidates), query.strategy)>>)
  /\ progress' = "merged"
  /\ UNCHANGED <<query, sparse, answer>>

(* What the model may say of that many documents: the indexes of the best, *)
(* in any order; without any document it is not asked. *)
Rankings(documents, wanted) ==
  UNION {SetToSeqs(best) : best \in kSubset(Least(wanted, documents), 1..documents)}

Rerank ==
  /\ progress = "merged"
  /\ \E ranks \in Rankings(Len(Merged), query.wanted) :
       snapshots' = Append(snapshots, <<[i \in DOMAIN ranks |-> Merged[ranks[i]]]>>)
  /\ progress' = "reranked"
  /\ UNCHANGED <<query, sparse, answer>>

(* extract_retrieve_items: the rows of the newest snapshot that has some,  *)
(* were they all empty. *)
TakeItems ==
  /\ progress = "reranked"
  /\ answer' = FlattenSeq(Last(snapshots))
  /\ progress' = "answered"
  /\ UNCHANGED <<query, snapshots, sparse>>

RankingNext ==
  \/ \E admits \in Filters, asked \in AskedTopKs, profile \in ProfileTopKs, strategy \in Strategies :
       BuildInputs(admits, asked, profile, strategy)
  \/ \E shape \in ScoreShapes : SearchDense(shape)
  \/ \E shape \in ScoreShapes : SearchSparse(shape)
  \/ Merge
  \/ Rerank
  \/ TakeItems

RankingSpec == RankingInit /\ [][RankingNext]_rankingVars

-----------------------------------------------------------------------------
From(source, row) == {row[i].chunk : i \in {j \in DOMAIN row : row[j].source = source}}

ChunksIn(row) == {row[i].chunk : i \in DOMAIN row}

TheirDocuments(chunks) == {DocumentOf[chunk] : chunk \in chunks}

(* What the searches found reaches the reranker: every dense hit, sparse   *)
(* hits of every document the sparse search found one in, and nothing else *)
(* as a hit of either; by falling scores, and no chunk twice as a hit of   *)
(* the same search.                                                        *)
CandidatesReachReranker ==
  Len(snapshots) >= 2 =>
    /\ From("dense", Merged) = ChunksIn(Dense)
    /\ From("sparse", Merged) \subseteq ChunksIn(sparse)
    /\ TheirDocuments(From("sparse", Merged)) = TheirDocuments(ChunksIn(sparse))
    /\ \A i, j \in DOMAIN Merged :
         i < j => /\ Merged[i].score >= Merged[j].score
                  /\ Merged[i].source = Merged[j].source => Merged[i].chunk # Merged[j].chunk

(* The answer has as many items as were wanted, or all the candidates      *)
(* there are, none of these taken twice and only admitted chunks, whatever *)
(* the searches and the model say; and an answer without items is not      *)
(* filled up from earlier steps.                                           *)
AnswerIsRanked ==
  /\ CandidatesReachReranker
  /\ progress = "answered" =>
       /\ Len(answer) = Least(query.wanted, Len(Merged))
       /\ \A i \in DOMAIN answer : answer[i].chunk \in query.admits
       /\ ToSet(answer) \subseteq ToSet(Merged) /\ IsInjective(answer)

(* The comment of _item_key: "Deduplicate at chunk granularity first.      *)
(* Using doc_id here collapses all chunks from the same document into a    *)
(* single hit after dense/sparse fusion."  So no chunk that a search found *)
(* falls together with another of its document.  A sparse hit has no id of *)
(* its chunk, though, and its key is the doc_id all the same: of two       *)
(* sparse hits of one document the second is lost, unless the dense search *)
(* found it too, and a chunk that both searches found is there twice.      *)
ChunksStayApart ==
  Len(snapshots) >= 2 => ChunksIn(Dense) \cup ChunksIn(sparse) \subseteq ChunksIn(Merged)
=============================================================================
