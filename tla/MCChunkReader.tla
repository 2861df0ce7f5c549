--------------------------- MODULE MCChunkReader ---------------------------
(***************************************************************************)
(* ChunkReader with the control chunk stream and one more, messages of no  *)
(* or three bytes and chunk sizes of one and two, so that messages         *)
(* take up to three chunks and a Set Chunk Size message, scaled to two     *)
(* bytes, is cut in two by the smaller size.                               *)
(***************************************************************************)
EXTENDS ChunkReader

CsidSet    == {2, 4}
TypeSet    == {8}
MsidSet    == {0, 1}
LenSet     == {0, 3}
SizeSet    == {1, 2}
FormatSet  == {0, 1, 3}
=============================================================================
