---------------------------- MODULE MCIngestion -----------------------------
(* Model checking of one .pdf file and its update.                         *)
EXTENDS Ingestion, TLC

CONSTANTS f1

MCLayouts      == {<<"text", "text">>}
MCFileTypes    == f1 :> {".pdf"}
MCChunkSize    == "default" :> 2
MCChunkOverlap == "default" :> 1
=============================================================================
