--------------------------- MODULE MCRowsetChunks ---------------------------
(* Answers of up to three chunks, so that both arrays have to grow.        *)
EXTENDS RowsetChunks
=============================================================================
