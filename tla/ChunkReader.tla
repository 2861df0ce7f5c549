----------------------------- MODULE ChunkReader -----------------------------
(***************************************************************************)
(* One connection seen from DefaultReader.Recv: the bytes the peer sends,  *)
(* the headers the normalizer completes and the messages the builders put  *)
(* together.  Closing the reader is in ChunkParser.                        *)
(*                                                                         *)
(* The wire is a sequence of tokens: a basic header with its message       *)
(* header, an extended timestamp, one payload byte.  A payload byte is     *)
(* known by its message and its offset in it.  Fields that a header of     *)
(* some format leaves out are 0 when it is read.  A reader that is out of  *)
(* step with the peer, about to take payload for a header or the reverse,  *)
(* would do whatever the bytes say; it is not followed any further.        *)
(***************************************************************************)
EXTENDS Naturals, Sequences, FiniteSets

CONSTANTS
    Csids,       \* chunk stream ids, of those that take one byte
    Types,       \* message types other than 1, Set Chunk Size
    Msids,       \* message stream ids
    Lens,        \* bound: payload lengths of messages
    Sizes,       \* bound: chunk sizes that the peer sets
    FirstSize,   \* the chunk size both sides start with
    SizeLen,     \* the length of a Set Chunk Size message
    Formats,     \* the header formats that the peer uses to start a message
    ExtLong,     \* may a message of several chunks have an extended timestamp?
    MaxMsgs,     \* bound: messages sent
    MaxWire      \* bound: tokens on the wire

ASSUME ReaderAssumption ==
    /\ Csids \subseteq 1..62
    /\ 0 \notin Types /\ 1 \notin Types
    /\ Formats \subseteq 0..3
    /\ FirstSize \in Sizes /\ Sizes \subseteq Nat \ {0}
    /\ Lens \subseteq Nat /\ SizeLen \in Nat \ {0}
    /\ ExtLong \in BOOLEAN
    /\ MaxMsgs \in Nat /\ MaxWire \in Nat

SetChunkSize == 1
None == [csid |-> 0]

VARIABLES
    \* the peer
    msgs,      \* history: the messages it started, in order
    sent,      \* sent[m] is how many bytes of message m it has sent
    pend,      \* pend[csid] is the message under way on csid, 0 for none
    peerHdr,   \* peerHdr[csid] is the last message started on csid, 0 for none
    peerLast,  \* the chunk stream of its last chunk, 0 for none
    peerSize,  \* the chunk size it cuts messages to
    wire,      \* the tokens it has sent and the reader has not read
    eof,       \* is the connection gone?
    \* DefaultReader
    rpc,       \* Recv
    cur,       \* the normalized header of the chunk under way
    need,      \* n, the bytes that Recv wants of this chunk
    last,      \* DefaultNormalizer.last
    headers,   \* DefaultNormalizer.headers
    builders,  \* DefaultReader.builders
    readSize,  \* DefaultReader.readSize
    chunks     \* history: the chunks received from Chunks()

peerVars   == <<msgs, sent, pend, peerHdr, peerLast, peerSize>>
normVars   == <<last, headers>>
readerVars == <<rpc, cur, need, normVars, builders, readSize, chunks>>
vars == <<peerVars, wire, eof, readerVars>>

Min(a, b) == IF a < b THEN a ELSE b

Init ==
    /\ msgs = <<>>
    /\ sent = <<>>
    /\ pend = [c \in Csids |-> 0]
    /\ peerHdr = [c \in Csids |-> 0]
    /\ peerLast = 0
    /\ peerSize = FirstSize
    /\ wire = <<>>
    /\ eof = FALSE
    /\ rpc = "header"
    /\ cur = None
    /\ need = 0
    /\ last = None
    /\ headers = [c \in Csids |-> None]
    /\ builders = [c \in Csids |-> None]
    /\ readSize = FirstSize
    /\ chunks = <<>>

-----------------------------------------------------------------------------
(* The peer, an RTMP client that cuts messages into chunks.                *)

Hdr(h)     == [k |-> "header", h |-> h]
Ext        == [k |-> "extended"]
Byte(m, i) == [k |-> "byte", m |-> m, i |-> i]
Bytes(m, from, n) == [i \in 1..n |-> Byte(m, from + i)]

\* The fields of message m that a header of format f carries.
Header(f, c, m) ==
    [csid |-> c, fmt |-> f,
     len  |-> IF f \in {0, 1} THEN m.len ELSE 0,
     type |-> IF f \in {0, 1} THEN m.type ELSE 0,
     msid |-> IF f = 0 THEN m.msid ELSE 0,
     ext  |-> f # 3 /\ m.ext]

\* May the peer leave out of m's header what format f leaves out?  RTMP takes it
\* from the last message of the same chunk stream.
Fits(f, c, m) ==
    LET h == msgs[peerHdr[c]]
    IN  \/ f = 0
        \/ /\ f \in {1, 2}
           /\ peerHdr[c] # 0
           /\ m.msid = h.msid
           /\ f = 2 => m.len = h.len /\ m.type = h.type
        \/ /\ f = 3
           /\ peerHdr[c] # 0
           /\ ~h.ext
           /\ m = h

\* History: is m's message stream id also what the normalizer finds, which takes it
\* from the last header of any chunk stream for formats 1 and 2?
Sure(f, c, m) ==
    LET g == msgs[peerHdr[peerLast]]
    IN  \/ f = 0
        \/ f \in {1, 2} /\ g.sure /\ g.msid = m.msid
        \/ f = 3 /\ msgs[peerHdr[c]].sure

\* The peer's chunk size changes once its Set Chunk Size message is sent.
SizeAfter(m, done) ==
    IF msgs'[m].type = SetChunkSize /\ done THEN msgs'[m].size ELSE peerSize

\* The first chunk of a new message m, with a header of format f.
Start(c, f, m) ==
    LET n == Min(m.len, peerSize)
        k == Len(msgs) + 1
        tokens == <<Hdr(Header(f, c, m))>> \o (IF m.ext THEN <<Ext>> ELSE <<>>)
                    \o Bytes(k, 0, n)
    IN  /\ ~eof
        /\ pend[c] = 0
        /\ Len(msgs) < MaxMsgs
        /\ f \in Formats
        /\ Fits(f, c, m)
        /\ m.sure = Sure(f, c, m)
        /\ m.ext /\ n < m.len => ExtLong
        /\ Len(wire) + Len(tokens) <= MaxWire
        /\ msgs' = Append(msgs, m)
        /\ sent' = Append(sent, n)
        /\ pend' = [pend EXCEPT ![c] = IF n < m.len THEN k ELSE 0]
        /\ peerHdr' = [peerHdr EXCEPT ![c] = k]
        /\ peerLast' = c
        /\ peerSize' = SizeAfter(k, n = m.len)
        /\ wire' = wire \o tokens
        /\ UNCHANGED <<eof, readerVars>>

\* The messages of one of Types, and the Set Chunk Size messages.  The peer sends
\* neither sure, which is history, nor size, which is in the payload.
PlainMsgs == [csid : Csids, type : Types, msid : Msids, len : Lens,
              ext : BOOLEAN, size : {0}, sure : BOOLEAN]
SizeMsgs  == [csid : Csids, type : {SetChunkSize}, msid : {0}, len : {SizeLen},
              ext : {FALSE}, size : Sizes, sure : {TRUE}]

StartMessage == \E f \in 0..3, m \in PlainMsgs : Start(m.csid, f, m)
StartSetChunkSize == \E m \in SizeMsgs : Start(m.csid, 0, m)

\* The next chunk of the message under way on c; it repeats the extended
\* timestamp ("this field is present in type 3 chunks when the last type 0, 1 or
\* 2 chunk indicated presence of this field", chunk/extended_timestamp.go).
Continue(c) ==
    LET k == pend[c]
        m == msgs[k]
        n == Min(m.len - sent[k], peerSize)
        tokens == <<Hdr(Header(3, c, m))>> \o (IF m.ext THEN <<Ext>> ELSE <<>>)
                    \o Bytes(k, sent[k], n)
    IN  /\ ~eof
        /\ k # 0
        /\ Len(wire) + Len(tokens) <= MaxWire
        /\ sent' = [sent EXCEPT ![k] = @ + n]
        /\ pend' = [pend EXCEPT ![c] = IF sent[k] + n < m.len THEN k ELSE 0]
        /\ peerLast' = c
        /\ UNCHANGED <<msgs, peerHdr>>
        /\ peerSize' = SizeAfter(k, sent[k] + n = m.len)
        /\ wire' = wire \o tokens
        /\ UNCHANGED <<eof, readerVars>>

\* The connection is lost, with what was still under way on it.
Cut ==
    /\ ~eof
    /\ eof' = TRUE
    /\ \E n \in 0..Len(wire) : wire' = SubSeq(wire, 1, n)
    /\ UNCHANGED <<peerVars, readerVars>>

-----------------------------------------------------------------------------
(* DefaultNormalizer.Normalize.                                            *)

\* Mutant: the message stream id is not filled in.
FillLengthOnly(h) ==
    IF h.fmt = 2 /\ last # None THEN [h EXCEPT !.len = last.len] ELSE h

\* fillPartialHeader: formats 1 and 2 take fields of the last header.
FillPartial(h) ==
    IF h.fmt \in {1, 2} /\ last # None
    THEN [h EXCEPT !.msid = last.msid, !.len = IF h.fmt = 2 THEN last.len ELSE @]
    ELSE h

\* Mutant: format 3 is completed like formats 1 and 2, from any stream.
FillFromLast(h) == IF h.fmt = 3 /\ last # None
                   THEN [last EXCEPT !.csid = h.csid, !.fmt = 3] ELSE h

\* fillEmptyHeader: format 3 takes the message header of the last header of its
\* chunk stream.
FillEmpty(h) ==
    IF h.fmt = 3 /\ headers[h.csid] # None
    THEN [headers[h.csid] EXCEPT !.fmt = 3]
    ELSE h

Normalize(h) == FillEmpty(FillPartial(h))

-----------------------------------------------------------------------------
(* DefaultReader.Recv.                                                     *)

NewBuilder(h) == [csid |-> h.csid, hdr |-> h, left |-> h.len, data |-> <<>>]

\* Mutant: every chunk starts a builder.
BuilderAnew(h) == NewBuilder(h)

\* The builder that Recv uses for a chunk with header h.
BuilderOf(h) == IF builders[h.csid] = None THEN NewBuilder(h) ELSE builders[h.csid]

\* Mutant: what a chunk is to hold is not bounded by its message.
WholeChunk(h) == readSize
\* n, the bytes of payload that follow a header.
BytesWanted(h) == Min(BuilderOf(h).left, readSize)

\* How many tokens a header takes: the extended timestamp is read when the
\* timestamp read is 0xffffff, which format 3 has no field for.
HeaderLen(h) == IF h.ext THEN 2 ELSE 1

\* A header is read and normalized, and its builder found or made.
ReadHeader ==
    /\ rpc = "header"
    /\ wire # <<>>
    /\ wire[1].k = "header"
    /\ LET h == wire[1].h
           g == Normalize(h)
       IN  /\ Len(wire) >= HeaderLen(h)
           /\ wire' = SubSeq(wire, HeaderLen(h) + 1, Len(wire))
           /\ cur' = g
           /\ last' = g
           /\ headers' = [headers EXCEPT ![g.csid] = g]
           /\ builders' = [builders EXCEPT ![g.csid] = BuilderOf(g)]
           /\ need' = BytesWanted(g)
           /\ rpc' = "payload"
    /\ UNCHANGED <<peerVars, eof, readSize, chunks>>

Taken == SubSeq(wire, 1, need)
FilledBuilder == [builders[cur.csid] EXCEPT !.left = @ - need, !.data = @ \o Taken]

\* Set Chunk Size is not sent on chunks but changes readSize (updateChunkSize).
IsSetChunkSize(b) == b.hdr.type = SetChunkSize

\* The value in a Set Chunk Size message.
SizeIn(b) == msgs[b.data[1].m].size

\* Builder.Read gets its n bytes; when none is left the chunk is built: it sets
\* the read size, and its builder is removed, or it goes on to chunks.
ReadPayload ==
    /\ rpc = "payload"
    /\ Len(wire) >= need
    /\ wire' = SubSeq(wire, need + 1, Len(wire))
    /\ LET b == FilledBuilder
           keep == b.left > 0 \/ ~IsSetChunkSize(b)
       IN  /\ builders' = [builders EXCEPT ![cur.csid] = IF keep THEN b ELSE None]
           /\ readSize' = IF keep THEN readSize ELSE SizeIn(b)
           /\ rpc' = IF b.left = 0 /\ keep THEN "chunk" ELSE "header"
    /\ UNCHANGED <<peerVars, eof, cur, need, normVars, chunks>>

\* Mutant: the builder is not removed.
SendAndKeep ==
    /\ rpc = "chunk"
    /\ chunks' = Append(chunks, builders[cur.csid])
    /\ rpc' = "header"
    /\ UNCHANGED <<peerVars, wire, eof, cur, need, normVars, builders, readSize>>

\* Somebody receives the chunk, and its builder is removed.
SendChunk ==
    /\ rpc = "chunk"
    /\ chunks' = Append(chunks, builders[cur.csid])
    /\ builders' = [builders EXCEPT ![cur.csid] = None]
    /\ rpc' = "header"
    /\ UNCHANGED <<peerVars, wire, eof, cur, need, normVars, readSize>>

\* The connection ends inside a header or a payload: what was read of it is
\* gone, the builder stays as it is and the error is sent on errs.
HeaderCut == \/ wire = <<>>
             \/ wire # <<>> /\ wire[1].k = "header" /\ Len(wire) < HeaderLen(wire[1].h)
Short == \/ rpc = "header" /\ HeaderCut
         \/ rpc = "payload" /\ Len(wire) < need

\* Mutant: the error is not sent.
FailsSilently ==
    /\ eof
    /\ Short
    /\ wire' = <<>>
    /\ rpc' = "header"
    /\ UNCHANGED <<peerVars, eof, cur, need, normVars, builders, readSize, chunks>>

ReadFails ==
    /\ eof
    /\ Short
    /\ wire' = <<>>
    /\ rpc' = "err"
    /\ UNCHANGED <<peerVars, eof, cur, need, normVars, builders, readSize, chunks>>

\* Somebody receives the error, and Recv goes on.
SendErr ==
    /\ rpc = "err"
    /\ rpc' = "header"
    /\ UNCHANGED <<peerVars, wire, eof, cur, need, normVars, builders, readSize, chunks>>

-----------------------------------------------------------------------------
Recv == ReadHeader \/ ReadPayload \/ SendChunk \/ ReadFails \/ SendErr
Peer == StartMessage \/ StartSetChunkSize \/ (\E c \in Csids : Continue(c)) \/ Cut
Next == Peer \/ Recv

Spec == Init /\ [][Next]_vars

\* The Recv goroutine runs, and somebody receives from Chunks() and Errs().
FairSpec == Spec /\ WF_vars(Recv)

-----------------------------------------------------------------------------
(* Properties.                                                             *)

\* The variables have their types, and Recv never wants more of a chunk than
\* its message has left.
TypeOK ==
    /\ DOMAIN sent = DOMAIN msgs
    /\ pend \in [Csids -> 0..MaxMsgs]
    /\ peerHdr \in [Csids -> 0..MaxMsgs]
    /\ peerLast \in Csids \cup {0}
    /\ {peerSize, readSize} \subseteq Sizes
    /\ Len(wire) <= MaxWire
    /\ eof \in BOOLEAN
    /\ rpc \in {"header", "payload", "chunk", "err"}
    /\ \A c \in Csids : builders[c] = None \/ builders[c].csid = c
    /\ rpc = "payload" => need <= builders[cur.csid].left
    /\ \A c \in Csids : headers[c] = None \/ headers[c].csid = c

\* Recv always finds a header where it looks for one and payload where it
\* looks for payload, however the peer interleaves the chunk streams and
\* changes its chunk size between two chunks of a message.
InStep ==
    /\ rpc = "header" /\ wire # <<>> => wire[1].k = "header"
    /\ rpc = "payload" => \A i \in 1..Min(need, Len(wire)) : wire[i].k = "byte"

\* Is message m one that belongs on Chunks()?
Proper(m) == msgs[m].type # SetChunkSize

\* The chunks received are messages of their chunk streams, each once and in order
\* and with none left out: the k-th chunk is the message with the number f[k].
Delivers(f) ==
    \A k \in DOMAIN chunks :
        /\ msgs[f[k]].csid = chunks[k].csid
        /\ Proper(f[k])
        /\ \A j \in 1..(k - 1) : chunks[j].csid = chunks[k].csid => f[j] < f[k]
        /\ \A m \in 1..(f[k] - 1) :
              msgs[m].csid = chunks[k].csid /\ Proper(m) => \E j \in 1..(k - 1) : f[j] = m

\* The chunks of every chunk stream are its messages, in order, each with all
\* its bytes and no byte of another message, also when the connection is cut
\* in the middle of one (Builder, DefaultReader.Recv).
Reassembled ==
    \E f \in [DOMAIN chunks -> DOMAIN msgs] :
        /\ Delivers(f)
        /\ \A k \in DOMAIN chunks : chunks[k].data = Bytes(f[k], 0, msgs[f[k]].len)

\* Every chunk has the type and the length of its message, whatever format its
\* header came in, and the message stream id if the last header before it, on
\* whatever chunk stream, had that one too, or its own header told it
\* (DefaultNormalizer.Normalize).
HeadersFilled ==
    \E f \in [DOMAIN chunks -> DOMAIN msgs] :
        /\ Delivers(f)
        /\ \A k \in DOMAIN chunks :
              LET m == msgs[f[k]]
                  h == chunks[k].hdr
              IN  h.type = m.type /\ h.len = m.len /\ (m.sure => h.msid = m.msid)

\* Every chunk has the type, the length and the message stream id of its message,
\* whatever format its header came in ("returning a complete chunk, with the
\* missing information filled in", Normalizer.Normalize).
HeadersComplete ==
    \E f \in [DOMAIN chunks -> DOMAIN msgs] :
        /\ Delivers(f)
        /\ \A k \in DOMAIN chunks :
              LET m == msgs[f[k]]
                  h == chunks[k].hdr
              IN  h.type = m.type /\ h.len = m.len /\ h.msid = m.msid

\* The offsets of the bytes of message m that are on the wire.
OnWire(m) == {wire[i].i : i \in {j \in DOMAIN wire : wire[j].k = "byte" /\ wire[j].m = m}}

\* A builder holds the first bytes of one message, and the rest of that message
\* is on the wire or still with the peer; none is left behind by a message that
\* is complete (removeBuilder on both paths of Recv).  When Recv has read all that
\* was sent, the two sides also agree on the chunk size (updateChunkSize).
BuildersMatch ==
    /\ \A c \in Csids : builders[c] # None =>
          LET b == builders[c]
          IN  \E m \in DOMAIN msgs :
                /\ msgs[m].csid = c
                /\ b.data = Bytes(m, 0, Len(b.data))
                /\ b.left + Len(b.data) = msgs[m].len
                /\ ~eof => OnWire(m) = (Len(b.data) + 1)..sent[m]
    /\ wire = <<>> /\ rpc = "header" /\ ~eof =>
          /\ \A c \in Csids : builders[c] # None <=> pend[c] # 0
          /\ readSize = peerSize

\* Recv can take no step while the connection stands: it waits for bytes, or is out
\* of step and not followed any further.
Waits == Short \/ (rpc = "header" /\ wire # <<>> /\ wire[1].k # "header")

\* Recv waits for the peer only when every message that the peer has sent whole
\* has reached Chunks(): it never wants a byte that is not part of a message
\* under way, and no message stays in its builder.
EveryMessage ==
    ~eof /\ Waits =>
        \A c \in Csids :
            Cardinality({k \in DOMAIN chunks : chunks[k].csid = c})
              = Cardinality({m \in DOMAIN msgs :
                    msgs[m].csid = c /\ Proper(m) /\ sent[m] = msgs[m].len})

\* The loss of the connection is reported on Errs().
EofReported == eof ~> (rpc = "err")
=============================================================================
