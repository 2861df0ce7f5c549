--------------------------- MODULE MCChunkParser ---------------------------
(***************************************************************************)
(* ChunkParser on the chunk stream ids of client.New: 2 by itself (control *)
(* messages), 3 and 4 for the ids it asks for together (two of them show   *)
(* every interleaving of two fan-in goroutines), 6 for one of the ids that *)
(* it asks for nowhere.                                                    *)
(***************************************************************************)
EXTENDS ChunkParser

CONSTANTS c1, c2

SingleIds == {2}
MultiIds  == {3, 4}
StrayIds  == {6}
NoIds     == {}
OneCloser == {c1}
TwoClosers == {c1, c2}
=============================================================================
