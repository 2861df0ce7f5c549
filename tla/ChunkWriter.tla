----------------------------- MODULE ChunkWriter -----------------------------
(***************************************************************************)
(* What goes out on a connection: goroutines call control.Stream.Send,     *)
(* NetConn.Send, NetStream.WriteStatus, data.Stream.Write or Writer.Write  *)
(* itself, all with one DefaultWriter, somebody calls SetWriteSize at any  *)
(* time, and a peer reads the bytes as RTMP says.  A call whose            *)
(* marshalling fails returns before it touches the writer, which is a      *)
(* stuttering step here.                                                   *)
(*                                                                         *)
(* Header bytes are 0..255; the i-th payload byte of the m-th message is   *)
(* an integer beyond them, so that a peer that takes one for the other is  *)
(* seen to be out of step.                                                 *)
(***************************************************************************)
EXTENDS ChunkCodec, FiniteSets

CONSTANTS
    Callers,        \* goroutines that write
    Jobs,           \* the chunks they write: see Job
    FirstWriteSize, \* the write size of client.New, 4096
    FirstPeerSize,  \* the chunk size that RTMP starts with, 128
    Cuts,           \* bound: bytes that a write that fails may have written
    MaxMsgs         \* bound: writes

SetChunkSize == 1
Sizes == {FirstWriteSize, FirstPeerSize} \cup ({j.size : j \in Jobs} \ {0})
PeerIds == {j.hdr.id : j \in Jobs}

\* A header as the code can hold it: formats of two bits, a type of one byte, and a
\* message stream id and an extended timestamp of four.
IsHeader(h) ==
    /\ h \in [bfmt : 0..3, mfmt : 0..3, id : Nat, ts : Nat, len : Nat, type : 0..255,
              msid : Nat, ext : Nat]
    /\ h.msid \div 16777216 < 256 /\ h.ext \div 16777216 < 256

\* Set Chunk Size messages hold a size and share no memory.
ASSUME WriterAssumption ==
    /\ FirstWriteSize \in Nat \ {0} /\ FirstPeerSize \in Nat \ {0}
    /\ \A j \in Jobs :
          /\ IsHeader(j.hdr) /\ j.dlen \in Nat /\ j.size \in Nat /\ j.alias \in BOOLEAN
          /\ j.size # 0 <=> j.hdr.type = SetChunkSize
          /\ j.hdr.type = SetChunkSize => ~j.alias /\ j.hdr.len # 0
    /\ Cuts \subseteq Nat
    /\ MaxMsgs \in Nat

VARIABLES
    msgs,       \* history: the chunks whose Write was called
    result,     \* history: what Write returned
    bodies,     \* bodies[m]: the messages whose payload Data of m may hold
    cur,        \* the message each caller writes, 0 for none
    pos,        \* the payload bytes it has copied
    out,        \* the buffer of its Write
    pieces,     \* history: pieces[m] are the parts that m was copied in
    writeSize,  \* DefaultWriter.writeSize
    wire,       \* the bytes written and not yet read by the peer
    broken,     \* has a write failed?
    written,    \* history: the messages that the bytes written are of, in order
    sizes,      \* history: the chunk size that RTMP has for each and for the next one
    \* the peer
    peerSize,   \* its chunk size
    prev,       \* the last header of each chunk stream
    part,       \* the payload so far of the message under way on each
    read,       \* history: the messages it has read
    lost        \* is it out of step?

callVars == <<msgs, result, bodies, cur, pos, out, pieces>>
connVars == <<wire, broken, written, sizes>>
peerVars == <<peerSize, prev, part, read, lost>>
vars == <<callVars, writeSize, connVars, peerVars>>

None == [id |-> 0]
Min(a, b) == IF a < b THEN a ELSE b
Byte(m, i) == 256 * (m + 1) + i
IsPayload(b) == b > 255

Init ==
    /\ msgs = <<>>
    /\ result = <<>>
    /\ bodies = <<>>
    /\ cur = [c \in Callers |-> 0]
    /\ pos = [c \in Callers |-> 0]
    /\ out = [c \in Callers |-> <<>>]
    /\ pieces = <<>>
    /\ writeSize = FirstWriteSize
    /\ wire = <<>>
    /\ broken = FALSE
    /\ written = <<>>
    /\ sizes = <<FirstPeerSize>>
    /\ peerSize = FirstPeerSize
    /\ prev = [i \in PeerIds |-> None]
    /\ part = [i \in PeerIds |-> <<>>]
    /\ read = <<>>
    /\ lost = FALSE

-----------------------------------------------------------------------------
(* The chunks that the packages make.                                      *)

FullHeader(id, type, len, msid) ==
    [bfmt |-> 0, mfmt |-> 0, id |-> id, ts |-> 0, len |-> len, type |-> type,
     msid |-> msid, ext |-> 0]

\* A call: who makes it, the header of its chunk, the length of its Data, the size
\* that a Set Chunk Size message has in it, and whether its payload shares memory
\* with other calls.
Job(via, hdr, dlen, size, alias) ==
    [via |-> via, hdr |-> hdr, dlen |-> dlen, size |-> size, alias |-> alias]

\* control.DefaultChunker.Chunk
ControlChunk(type, len, size) == Job("control", FullHeader(2, type, len, 0), len, size, FALSE)
\* conn.DefaultChunker.Chunk
ConnChunk(len) == Job("conn", FullHeader(3, 20, len, 0), len, 0, FALSE)
\* Status.AsChunk: a body that fits behind the marshalled OnStatusCommandHeader, a
\* variable of the package, is appended in the array of that variable.
StatusChunk(len, fits) == Job("status", FullHeader(5, 20, len, 1), len, 0, fits)
\* DataFrame.Marshal
FrameChunk(len) == Job("frame", FullHeader(4, 18, len, 1), len, 0, FALSE)
\* data.Marshal of an audio or video frame that was read: the header it came with.
RelayedChunk(hdr) == Job("relay", hdr, hdr.len, 0, FALSE)
\* A chunk that the user made; nothing holds its header's Length to its Data.
RawChunk(hdr, dlen) == Job("raw", hdr, dlen, 0, FALSE)

-----------------------------------------------------------------------------
(* The callers and DefaultWriter.Write.                                    *)

Pending(m) == result[m] = "pending"

\* Bound: nothing new is begun on a connection that is broken or with a peer that
\* is lost, and it does not matter which of the idle callers makes the next call.
MayBegin(c) ==
    /\ Len(msgs) < MaxMsgs
    /\ ~broken /\ ~lost
    /\ \E d \in Callers : cur[d] = 0
    /\ c = CHOOSE d \in Callers : cur[d] = 0

Sharing(m) == Pending(m) /\ msgs[m].alias

\* Send, WriteStatus or Write is called; the chunk is made and Write puts its
\* header into a buffer of its own.  A status body goes where those of all other
\* statuses being written are: from then on each may hold bytes of the other.
Begin(c, j) ==
    LET k == Len(msgs) + 1
        others == {m \in DOMAIN msgs : Sharing(m) /\ j.alias}
    IN  /\ MayBegin(c)
        /\ msgs' = Append(msgs, j)
        /\ result' = Append(result, "pending")
        /\ bodies' = Append([m \in DOMAIN msgs |->
                               IF m \in others THEN bodies[m] \cup {k} ELSE bodies[m]],
                            {k} \cup others)
        /\ cur' = [cur EXCEPT ![c] = k]
        /\ pos' = [pos EXCEPT ![c] = 0]
        /\ out' = [out EXCEPT ![c] = HeaderWrite(j.hdr)]
        /\ pieces' = Append(pieces, {})
        /\ UNCHANGED <<writeSize, connVars, peerVars>>

\* Another client of the process makes a status (message 0).
OtherStatus ==
    /\ \E m \in DOMAIN msgs : Sharing(m)
    /\ bodies' = [m \in DOMAIN msgs |->
                    IF Sharing(m) THEN bodies[m] \cup {0} ELSE bodies[m]]
    /\ UNCHANGED <<msgs, result, cur, pos, out, pieces, writeSize, connVars, peerVars>>

\* payload.Len(): what is left of Data, whatever the header says of it.
Left(c) == msgs[cur[c]].dlen - pos[c]

\* The header of a further chunk: format 3 and the low bits of the id.
Separator(h) == <<3 * 64 + (h.id % 64)>>

\* Mutant: every turn copies from the start of the payload.
CopyPartAgain(c) ==
    /\ cur[c] # 0
    /\ Left(c) > 0
    /\ LET m == cur[c]
           n == Min(Left(c), writeSize)
       IN  \E from \in [1..n -> bodies[m]] :
             /\ out' = [out EXCEPT ![c] =
                          @ \o [i \in 1..n |-> Byte(from[i], i)]
                            \o (IF n < Left(c) THEN Separator(msgs[m].hdr) ELSE <<>>)]
             /\ pos' = [pos EXCEPT ![c] = @ + n]
             /\ pieces' = [pieces EXCEPT ![m] = @ \cup {[at |-> pos[c], n |-> n]}]
    /\ UNCHANGED <<msgs, result, bodies, cur, writeSize, connVars, peerVars>>

\* One turn of the loop of Write: it reads the write size anew.
CopyPart(c) ==
    /\ cur[c] # 0
    /\ Left(c) > 0
    /\ LET m == cur[c]
           n == Min(Left(c), writeSize)
       IN  \E from \in [1..n -> bodies[m]] :
             /\ out' = [out EXCEPT ![c] =
                          @ \o [i \in 1..n |-> Byte(from[i], pos[c] + i)]
                            \o (IF n < Left(c) THEN Separator(msgs[m].hdr) ELSE <<>>)]
             /\ pos' = [pos EXCEPT ![c] = @ + n]
             /\ pieces' = [pieces EXCEPT ![m] = @ \cup {[at |-> pos[c], n |-> n]}]
    /\ UNCHANGED <<msgs, result, bodies, cur, writeSize, connVars, peerVars>>

\* Mutant: the buffer is kept for the next Write.
ReturnKeeps(c, res) ==
    /\ result' = [result EXCEPT ![cur[c]] = res]
    /\ cur' = [cur EXCEPT ![c] = 0]
    /\ pos' = [pos EXCEPT ![c] = 0]
    /\ UNCHANGED <<msgs, bodies, out, pieces, writeSize, peerVars>>

\* Write returns res.
Return(c, res) ==
    /\ result' = [result EXCEPT ![cur[c]] = res]
    /\ cur' = [cur EXCEPT ![c] = 0]
    /\ pos' = [pos EXCEPT ![c] = 0]
    /\ out' = [out EXCEPT ![c] = <<>>]
    /\ UNCHANGED <<msgs, bodies, pieces, writeSize, peerVars>>

\* Some bytes of message m, or all, are on the connection.  For what follows RTMP has
\* the chunk size of the last Set Chunk Size message.
Record(m) ==
    /\ written' = Append(written, m)
    /\ sizes' = Append(sizes, IF msgs[m].size # 0 THEN msgs[m].size ELSE sizes[Len(sizes)])

\* Mutant: every turn of the loop writes to the connection.
FlushEarly(c) ==
    /\ cur[c] # 0
    /\ ~broken
    /\ out[c] # <<>>
    /\ wire' = wire \o out[c]
    /\ UNCHANGED broken
    /\ \/ /\ Left(c) = 0
          /\ Record(cur[c])
          /\ Return(c, "nil")
       \/ /\ Left(c) > 0
          /\ out' = [out EXCEPT ![c] = <<>>]
          /\ UNCHANGED <<msgs, result, bodies, cur, pos, pieces, writeSize, written, sizes,
                         peerVars>>

\* io.Copy hands the whole buffer to one Write of the connection.
Flush(c) ==
    /\ cur[c] # 0
    /\ Left(c) = 0
    /\ ~broken
    /\ wire' = wire \o out[c]
    /\ Record(cur[c])
    /\ UNCHANGED broken
    /\ Return(c, "nil")

\* Mutant: the error of io.Copy is not returned.
FlushFailsQuietly(c) ==
    /\ cur[c] # 0
    /\ Left(c) = 0
    /\ \E n \in Cuts \cup {0} :
          /\ n < Len(out[c])
          /\ broken => n = 0
          /\ wire' = wire \o SubSeq(out[c], 1, n)
          /\ IF n = 0 THEN UNCHANGED <<written, sizes>> ELSE Record(cur[c])
    /\ broken' = TRUE
    /\ Return(c, "nil")

\* The connection fails, perhaps after some bytes, and is good for nothing after.
FlushFails(c) ==
    /\ cur[c] # 0
    /\ Left(c) = 0
    /\ \E n \in Cuts \cup {0} :
          /\ n < Len(out[c])
          /\ broken => n = 0
          /\ wire' = wire \o SubSeq(out[c], 1, n)
          /\ IF n = 0 THEN UNCHANGED <<written, sizes>> ELSE Record(cur[c])
    /\ broken' = TRUE
    /\ Return(c, "err")

\* SetWriteSize, between any two turns of any Write.
SetWriteSize(z) ==
    /\ writeSize' = z
    /\ UNCHANGED <<callVars, connVars, peerVars>>

-----------------------------------------------------------------------------
(* The peer, an RTMP client.                                               *)

\* The basic header of RTMP: the low six bits of the first byte are the id, or a
\* mark for one (0) or two (1) more bytes, the low one first.
RtmpLen(b) == CASE b[1] % 64 = 0 -> 2 [] b[1] % 64 = 1 -> 3 [] OTHER -> 1
RtmpId(b) == CASE b[1] % 64 = 0 -> Uint8(b, 1) + 64
               [] b[1] % 64 = 1 -> Uint8(b, 2) * 256 + Uint8(b, 1) + 64
               [] OTHER -> b[1] % 64
RtmpRead(b) == FieldsOf(b, RtmpLen(b), RtmpId(b))

\* Format 3 repeats the extended timestamp that the chunk stream has.
PeerHeaderLen(b) ==
    HeaderEnd(b, RtmpLen(b)) +
      (IF BasicFormat(b) = 3 /\ RtmpId(b) \in PeerIds /\ prev[RtmpId(b)] # None
          /\ HasExtended(prev[RtmpId(b)].ts) THEN 4 ELSE 0)

\* The header with what its format leaves out, from the last one of its stream.
Completed(h) ==
    LET p == prev[h.id]
    IN  CASE h.bfmt = 0 -> h
          [] h.bfmt = 1 -> [h EXCEPT !.msid = p.msid]
          [] h.bfmt = 2 -> [h EXCEPT !.msid = p.msid, !.len = p.len, !.type = p.type]
          [] OTHER -> p

PayloadWanted(h) == Min(Completed(h).len - Len(part[h.id]), peerSize)
Complete(b) == /\ b # <<>> /\ ~IsPayload(b[1])
               /\ ~EndsEarly(b, RtmpLen(b)) /\ Len(b) >= PeerHeaderLen(b)

\* Is what the peer can see of the next chunk a chunk?  Not with payload where a
\* header is to be, a chunk stream it knows nothing of, a new message inside
\* another one, or header bytes where payload is to be.
HeaderOk(b) ==
    /\ b # <<>> => ~IsPayload(b[1])
    /\ Complete(b) => \A i \in 1..PeerHeaderLen(b) : ~IsPayload(b[i])
ChunkOk(b) ==
    Complete(b) =>
        \A h \in {RtmpRead(b)}, from \in {PeerHeaderLen(b)} :
            /\ h.id \in PeerIds
            /\ h.bfmt = 0 \/ prev[h.id] # None
            /\ h.bfmt = 3 \/ part[h.id] = <<>>
            /\ \A i \in 1..PayloadWanted(h) : from + i <= Len(b) => IsPayload(b[from + i])

PeerLost ==
    /\ ~lost
    /\ ~(HeaderOk(wire) /\ ChunkOk(wire))
    /\ lost' = TRUE
    /\ UNCHANGED <<callVars, writeSize, connVars, peerSize, prev, part, read>>

\* The chunk size in a payload, or that of the peer if the payload holds none, which
\* only one that is taken for another message does not.
Told(data) ==
    LET m == (data[1] \div 256) - 1
    IN  IF data # <<>> /\ m \in DOMAIN msgs /\ msgs[m].size # 0 THEN msgs[m].size
        ELSE peerSize

\* The peer reads a chunk and, when it completes a message, takes the message; a
\* Set Chunk Size message changes its chunk size.
PeerReads ==
    /\ ~lost
    /\ Complete(wire)
    /\ HeaderOk(wire)
    /\ ChunkOk(wire)
    /\ \E r \in {RtmpRead(wire)}, from \in {PeerHeaderLen(wire)} :
       \E h \in {Completed(r)}, n \in {PayloadWanted(r)} :
           LET data == part[h.id] \o SubSeq(wire, from + 1, from + n)
               whole == Len(data) = h.len
           IN  /\ Len(wire) >= from + n
               /\ wire' = SubSeq(wire, from + n + 1, Len(wire))
               /\ prev' = [prev EXCEPT ![h.id] = h]
               /\ part' = [part EXCEPT ![h.id] = IF whole THEN <<>> ELSE data]
               /\ read' = IF whole THEN Append(read, [hdr |-> h, data |-> data]) ELSE read
               /\ peerSize' = IF whole /\ h.type = SetChunkSize THEN Told(data) ELSE peerSize
    /\ UNCHANGED <<callVars, writeSize, broken, written, sizes, lost>>

-----------------------------------------------------------------------------
Write(c) == CopyPart(c) \/ Flush(c) \/ FlushFails(c)
Next ==
    \/ \E c \in Callers : Write(c) \/ (\E j \in Jobs : Begin(c, j))
    \/ \E z \in Sizes : SetWriteSize(z)
    \/ OtherStatus \/ PeerReads \/ PeerLost

Spec == Init /\ [][Next]_vars

\* A Write that was called runs, and the peer reads on.
FairSpec == /\ Spec
            /\ \A c \in Callers : WF_vars(Write(c))
            /\ WF_vars(PeerReads \/ PeerLost)

-----------------------------------------------------------------------------
(* Properties.                                                             *)

\* A chunk that Write can express to a peer with chunk size z: RTMP has the id in one
\* or two bytes, its header fits and needs no earlier one to complete it and tells
\* the length of the payload, and if it is cut the separator stands for its chunk
\* stream (one byte) and need not repeat an extended timestamp.
Expressible(j, z) ==
    /\ j.hdr.mfmt = 0 /\ Fitting(j.hdr)
    /\ 2 <= j.hdr.id /\ j.hdr.id < 320
    /\ j.hdr.len = j.dlen
    /\ j.dlen > z => j.hdr.id < 64 /\ ~HasExtended(j.hdr.ts)

\* Write copied message m in the pieces that a peer with chunk size z takes it in.
WellCut(m, z) == \A p \in pieces[m] : p.n = Min(msgs[m].dlen - p.at, z)

\* The first n messages of the wire are all expressible and cut to the chunk size
\* that the peer has when it comes to them.
CleanUpTo(n) ==
    \A i \in 1..n : /\ Expressible(msgs[written[i]], sizes[i])
                    /\ WellCut(written[i], sizes[i])

\* The variables have their types, every caller's message is pending, and the peer
\* has never read more messages than were written, unless one of them was not clean.
TypeOK ==
    /\ DOMAIN result = DOMAIN msgs /\ DOMAIN bodies = DOMAIN msgs
    /\ DOMAIN pieces = DOMAIN msgs /\ Len(sizes) = Len(written) + 1
    /\ \A c \in Callers : /\ cur[c] \in 0..Len(msgs)
                          /\ cur[c] # 0 => Pending(cur[c]) /\ Left(c) >= 0
                          /\ cur[c] = 0 => out[c] = <<>>
    /\ writeSize \in Sizes
    /\ {broken, lost} \subseteq BOOLEAN
    /\ CleanUpTo(Len(written)) => peerSize \in Sizes /\ Len(read) <= Len(written)

\* However the calls of several goroutines interleave, with each other and with
\* SetWriteSize, the peer never loses its place among the bytes, unless a chunk was
\* written that Write cannot express or that it cut, with the write size it had on
\* each turn, to other pieces than the peer's chunk size asks for.
PeerInStep == lost => ~CleanUpTo(Len(written))

\* The peer reads the messages in the order of their Write, each with the header
\* and the payload it was given.  That leaves out the bytes, but not the header and
\* the length, of a status that another status was made beside, on this or another
\* connection of the process, while it was being written: see OtherStatus.
Intact ==
    \A n \in DOMAIN read :
        (n \in DOMAIN written /\ CleanUpTo(n)) =>
            LET m == written[n]
            IN  /\ read[n].hdr = Carried(msgs[m].hdr)
                /\ Len(read[n].data) = msgs[m].dlen
                /\ bodies[m] = {m} =>
                      \A i \in DOMAIN read[n].data : read[n].data[i] = Byte(m, i)

\* Every Write that is called returns; if it returns nil the peer gets the message,
\* and if it returns an error the connection is broken ("indicating that the
\* connection should be terminated", data.Stream.Write).  The calls are bounded by
\* MaxMsgs, and what is said of one stays true of it: a time when it is so for all
\* of them comes again and again if it comes for each.
WrittenRead ==
    []<>(\A m \in DOMAIN msgs :
            \/ result[m] = "err" /\ broken
            \/ result[m] = "nil" /\ m \in {written[n] : n \in DOMAIN read}
            \/ ~CleanUpTo(Len(written)))

\* A frame that data.Stream.Write was given and marshalled is written so that a
\* peer can read it ("a writeable *chunk.Chunk", Data.Marshal), also when it is a
\* frame that came from another client.
FramesWriteable ==
    lost => \E i \in DOMAIN written :
              LET m == written[i]
              IN  \/ ~WellCut(m, sizes[i])
                  \/ msgs[m].via = "raw" /\ ~Expressible(msgs[m], sizes[i])
=============================================================================
