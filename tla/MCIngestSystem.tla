--------------------------- MODULE MCIngestSystem ---------------------------
(* A chain with a message in each of two blocks.                           *)
EXTENDS IngestSystem

MCLog == 1 .. 2
MCBlock == <<2, 3>>
MCRound == <<0, 1>>

=============================================================================
