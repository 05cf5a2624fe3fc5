------------------------------ MODULE MCRanking ------------------------------
(* Model checking of one query's hits: three chunks, two of one document,  *)
(* and a request for two items.                                            *)
EXTENDS Ranking, TLC

CONSTANTS c1, c2, c3

MCDocumentOf  == c1 :> "A" @@ c2 :> "A" @@ c3 :> "B"
MCFilters     == {{c1, c2, c3}, {c1, c3}}
MCWeights     == <<1, 2>>
MCScoreShapes == {<<2, 1, 1>>}
=============================================================================
