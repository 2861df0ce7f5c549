--------------------------- MODULE MCChunkWriter ---------------------------
(***************************************************************************)
(* ChunkWriter with chunk sizes of 4 and 6 bytes for 128 and 4096.  With   *)
(* either, messages of up to four bytes are short and those of seven take  *)
(* two chunks; those of five take one or two.                              *)
(***************************************************************************)
EXTENDS ChunkWriter

With(id, ts, len) == [FullHeader(id, 9, len, 1) EXCEPT !.ts = ts, !.ext = ts]

\* What the parts of a client write, and what users write on chunk streams at the
\* edges of the forms, with an extended timestamp or a separator that fails it.
Own == {ControlChunk(SetChunkSize, 4, 6), ConnChunk(7), StatusChunk(1, TRUE)}
Raw == {RawChunk(With(63, Max24, 3), 3), RawChunk(With(68, 0, 5), 5)}
JobSet == Own \cup Raw

\* A frame that came with a header of its own, and one like it that came with none.
Relays == {RelayedChunk([With(4, 0, 3) EXCEPT !.bfmt = f[1], !.mfmt = f[2]]) :
             f \in {<<0, 0>>, <<3, 0>>}}
\* Beside them, chunks that users made and Write cannot express: a header that tells
\* less than there is, and an id that Write marks with 63 and RTMP with 1.
RelaySet == Relays \cup {ControlChunk(SetChunkSize, 4, 6), FrameChunk(3),
                         RawChunk(With(4, 0, 3), 4), RawChunk(With(320, 0, 3), 3)}

CutSet == {14}
=============================================================================
