-------------------------- MODULE ChunkReaderProofs --------------------------
(***************************************************************************)
(* Proofs about ChunkReader, for any chunk streams, messages and chunk     *)
(* sizes and any interleaving of them, with a peer that                    *)
(*   - gives extended timestamps to messages of one chunk only: the run    *)
(*     reader_extended shows what happens otherwise;                       *)
(*   - does not use format 2: the normalizer takes the length of such a    *)
(*     message from the last header of any chunk stream, and a wrong       *)
(*     length puts the reader out of step.                                 *)
(***************************************************************************)
EXTENDS ChunkReader, Integers, FiniteSetTheorems, TLAPS

-----------------------------------------------------------------------------
(***************************************************************************)
(* The wire is a row of chunks, and the peer's state is what a reader's    *)
(* state becomes when it has read them all.  The inductive invariant says  *)
(* so: there is a list of chunks q[1], ..., q[n], at the places            *)
(* pos[1] < ... < pos[n + 1] of the wire, and there are states             *)
(* st[1], ..., st[n + 1] of a reader between them such that every chunk    *)
(* leads from the state before it to the state after it, the reader is in  *)
(* st[1] and the peer in st[n + 1].  In such a state hd[c] is the last     *)
(* message begun on chunk stream c, rd[c] the bytes of it that are read,   *)
(* last the chunk stream of the last chunk and size the chunk size.        *)
(***************************************************************************)
State == [hd : [Csids -> Nat], rd : [Csids -> Nat], last : Csids \cup {0}, size : Sizes]
Chunk == [csid : Csids, fmt : 0..3, m : Nat, at : Nat, n : Nat]

Msg == [csid : Csids, type : Types \cup {SetChunkSize}, msid : Msids \cup {0},
        len : Nat, ext : BOOLEAN, size : Nat, sure : BOOLEAN]

\* What is more to know of a message, if it sets the chunk size.
MsgOk(m) ==
    m.type = SetChunkSize => m.size \in Sizes /\ m.len # 0 /\ ~m.ext

StateOk(s) ==
    /\ \A c \in Csids : s.hd[c] # 0 =>
          /\ s.hd[c] \in 1..Len(msgs)
          /\ msgs[s.hd[c]].csid = c
          /\ s.rd[c] <= msgs[s.hd[c]].len
          /\ s.rd[c] < msgs[s.hd[c]].len => ~msgs[s.hd[c]].ext
          /\ s.last # 0
    /\ s.last # 0 => s.hd[s.last] # 0

\* Chunk k begins a message: the next one of its chunk stream, and a reader in
\* state s can complete its header.
Begins(s, k) ==
    /\ k.at = 0
    /\ s.hd[k.csid] < k.m
    /\ \A i \in 1..Len(msgs) : s.hd[k.csid] < i /\ i < k.m => msgs[i].csid # k.csid
    /\ s.hd[k.csid] # 0 => s.rd[k.csid] = msgs[s.hd[k.csid]].len
    /\ k.fmt # 0 => msgs[k.m].type # SetChunkSize
    /\ k.fmt # 2
    /\ k.fmt = 1 => /\ s.last # 0
                    /\ msgs[k.m].sure => /\ msgs[s.hd[s.last]].sure
                                         /\ msgs[k.m].msid = msgs[s.hd[s.last]].msid
    /\ k.fmt = 3 => s.hd[k.csid] # 0 /\ msgs[k.m] = msgs[s.hd[k.csid]]

\* Chunk k is the next one of the message under way on its chunk stream.
Resumes(s, k) ==
    /\ k.m = s.hd[k.csid]
    /\ k.at = s.rd[k.csid]
    /\ k.at < msgs[k.m].len
    /\ k.fmt = 3

\* The chunk size after the first n bytes of message m.
SizeThen(m, n, size) ==
    IF msgs[m].type = SetChunkSize /\ n = msgs[m].len THEN msgs[m].size ELSE size

\* Chunk k leads from state s to state t.
Leads(s, k, t) ==
    /\ k.m \in 1..Len(msgs)
    /\ msgs[k.m].csid = k.csid
    /\ k.n = Min(msgs[k.m].len - k.at, s.size)
    /\ k.fmt = 3 => ~msgs[k.m].ext
    /\ Begins(s, k) \/ Resumes(s, k)
    /\ t.hd = [s.hd EXCEPT ![k.csid] = k.m]
    /\ t.rd = [s.rd EXCEPT ![k.csid] = k.at + k.n]
    /\ t.last = k.csid
    /\ t.size = SizeThen(k.m, k.at + k.n, s.size)

\* The tokens of chunk k, as far as they are on the wire, behind the first p.
HLen(k) == IF msgs[k.m].ext THEN 2 ELSE 1
TokensAt(p, k) ==
    /\ p + 1 <= Len(wire) => wire[p + 1] = Hdr(Header(k.fmt, k.csid, msgs[k.m]))
    /\ HLen(k) = 2 /\ p + 2 <= Len(wire) => wire[p + 2] = Ext
    /\ \A i \in 1..k.n : p + HLen(k) + i <= Len(wire) =>
          wire[p + HLen(k) + i] = Byte(k.m, k.at + i)

\* The chunks on the wire.
States(n, st)        == \A j \in 1..(n + 1) : StateOk(st[j])
Steps(n, st, q)      == \A j \in 1..n : Leads(st[j], q[j], st[j + 1])
Tokens(n, q, pos)    == \A j \in 1..n : TokensAt(pos[j], q[j])
Spans(n, q, pos)     == \A j \in 1..n : pos[j + 1] = pos[j] + HLen(q[j]) + q[j].n
Rising(n, pos)       == \A i, j \in 1..(n + 1) : i <= j => pos[i] <= pos[j]
WireEnds(n, pos)     == /\ Len(wire) <= pos[n + 1]
                        /\ ~eof => Len(wire) = pos[n + 1]
Row(n, st, q, pos) ==
    /\ States(n, st)
    /\ Steps(n, st, q)
    /\ Tokens(n, q, pos)
    /\ Spans(n, q, pos)
    /\ Rising(n, pos)
    /\ WireEnds(n, pos)

\* The peer is in state s.
PeerAt(s) ==
    /\ s.hd = peerHdr
    /\ s.last = peerLast
    /\ s.size = peerSize
    /\ \A c \in Csids :
          /\ \A i \in 1..Len(msgs) : msgs[i].csid = c => i <= peerHdr[c]
          /\ peerHdr[c] # 0 => sent[peerHdr[c]] = s.rd[c]
          /\ pend[c] = IF peerHdr[c] # 0 /\ s.rd[c] < msgs[peerHdr[c]].len
                       THEN peerHdr[c] ELSE 0

\* Is Recv at work on a message of chunk stream c?
AtWork(c) == rpc \in {"payload", "chunk"} /\ cur.csid = c
\* The bytes of the current chunk that Recv is yet to read.
Rest(c) == IF rpc = "payload" /\ cur.csid = c THEN need ELSE 0

\* A completed header of message m.
HdrOf(h, m) ==
    /\ h.csid = m.csid
    /\ h.len = m.len
    /\ h.type = m.type
    /\ m.sure => h.msid = m.msid

\* The normalizer and the builders in state s.
Normal(s) ==
    /\ IF s.last = 0 THEN last = None ELSE HdrOf(last, msgs[s.hd[s.last]])
    /\ \A c \in Csids : IF s.hd[c] = 0 THEN headers[c] = None
                        ELSE HdrOf(headers[c], msgs[s.hd[c]])
UnderWay(s, c) ==
    s.hd[c] # 0 /\ (s.rd[c] < msgs[s.hd[c]].len \/ AtWork(c))
\* Builder b holds the first r bytes of message m of chunk stream c.
IsBuilder(b, c, m, r) ==
    /\ b.csid = c
    /\ b.left = msgs[m].len - r
    /\ b.data = Bytes(m, 0, r)
    /\ HdrOf(b.hdr, msgs[m])
BuilderAt(s, c) ==
    /\ ~UnderWay(s, c) => builders[c] = None
    /\ UnderWay(s, c) => IsBuilder(builders[c], c, s.hd[c], s.rd[c] - Rest(c))

\* Recv in state s: while it reads a payload, s is the state after it.
Working(s) ==
    rpc \in {"payload", "chunk"} =>
        /\ cur.csid \in Csids
        /\ s.hd[cur.csid] # 0
        /\ rpc = "payload" => need <= s.rd[cur.csid]
        /\ rpc = "chunk" => /\ s.rd[cur.csid] = msgs[s.hd[cur.csid]].len
                            /\ Proper(s.hd[cur.csid])
SizeAt(s) ==
    s.size = IF rpc = "payload"
             THEN SizeThen(s.hd[cur.csid], s.rd[cur.csid], readSize) ELSE readSize
PayloadAt(s) ==
    rpc = "payload" => \A i \in 1..need : i <= Len(wire) =>
        wire[i] = Byte(s.hd[cur.csid], s.rd[cur.csid] - need + i)
ReaderAt(s) ==
    /\ Working(s)
    /\ Normal(s)
    /\ \A c \in Csids : BuilderAt(s, c)
    /\ SizeAt(s)
    /\ PayloadAt(s)

\* The bytes on the wire are those that the peer has sent and Recv has not read.
ReadOf(s, m) ==
    LET c == msgs[m].csid
    IN  IF m < s.hd[c] THEN msgs[m].len
        ELSE IF m = s.hd[c] THEN s.rd[c] - Rest(c) ELSE 0
BytesRise ==
    \A p \in 1..Len(wire), m \in Nat, i \in Nat : wire[p] = Byte(m, i) =>
        /\ m \in 1..Len(msgs)
        /\ \A r \in 1..(p - 1), j \in Nat : wire[r] = Byte(m, j) => j < i
BytesRead(s) == ~eof => \A m \in 1..Len(msgs) : ReadOf(s, m) <= sent[m]
BytesThere(s) ==
    ~eof => \A m \in 1..Len(msgs), i \in Nat :
        (\E p \in 1..Len(wire) : wire[p] = Byte(m, i)) <=> ReadOf(s, m) < i /\ i <= sent[m]
BytesFlow(s) == BytesRise /\ BytesRead(s) /\ BytesThere(s)

\* Message m has been received from Chunks(), by a reader in state s.
Through(s, m) ==
    LET c == msgs[m].csid
    IN  \/ m < s.hd[c]
        \/ m = s.hd[c] /\ s.rd[c] = msgs[m].len /\ ~AtWork(c)

\* The chunks received are the messages f.
Sound(f) ==
    /\ Delivers(f)
    /\ \A k \in DOMAIN chunks : /\ chunks[k].data = Bytes(f[k], 0, msgs[f[k]].len)
                                /\ HdrOf(chunks[k].hdr, msgs[f[k]])
UpTo(f, s) ==
    \A m \in 1..Len(msgs) : Proper(m) =>
        ((\E k \in DOMAIN chunks : f[k] = m) <=> Through(s, m))

\* The types.
HdrSet == [csid : Csids, fmt : 0..3, len : Nat, type : Types \cup {0, SetChunkSize},
           msid : Msids \cup {0}, ext : BOOLEAN]
Token == {Hdr(h) : h \in HdrSet} \cup {Ext} \cup {Byte(m, i) : m, i \in Nat}
Builder == [csid : Csids, hdr : HdrSet, left : Nat, data : Seq(Token)]

PeerTypes ==
    /\ msgs \in Seq(Msg)
    /\ \A i \in 1..Len(msgs) : MsgOk(msgs[i])
    /\ Len(msgs) <= MaxMsgs
    /\ sent \in Seq(Nat)
    /\ Len(sent) = Len(msgs)
    /\ pend \in [Csids -> 0..Len(msgs)]
    /\ peerHdr \in [Csids -> 0..Len(msgs)]
    /\ peerLast \in Csids \cup {0}
    /\ peerSize \in Sizes
WireTypes ==
    /\ wire \in Seq(Token)
    /\ Len(wire) <= MaxWire
ReaderTypes ==
    /\ rpc \in {"header", "payload", "chunk", "err"}
    /\ need \in Nat
    /\ headers \in [Csids -> HdrSet \cup {None}]
    /\ builders \in [Csids -> Builder \cup {None}]
    /\ last \in HdrSet \cup {None}
    /\ cur \in HdrSet \cup {None}
    /\ readSize \in Sizes
    /\ chunks \in Seq(Builder)
Flags == eof \in BOOLEAN
AllTypes == PeerTypes /\ WireTypes /\ ReaderTypes /\ Flags

\* A builder holds the first bytes of a message of its chunk stream.
BuildersOk ==
    \A c \in Csids : builders[c] # None => \E m \in 1..Len(msgs) :
        /\ msgs[m].csid = c
        /\ builders[c].csid = c
        /\ builders[c].data = Bytes(m, 0, Len(builders[c].data))
        /\ builders[c].left + Len(builders[c].data) = msgs[m].len
HeadersOk == \A c \in Csids : headers[c] = None \/ headers[c].csid = c

\* A reader whose connection is gone has nothing more to read.
Live == ~(eof /\ wire = <<>> /\ rpc \in {"header", "err"})

At(f, n, st, q, pos) ==
    /\ pos[1] = IF rpc = "payload" THEN need ELSE 0
    /\ Row(n, st, q, pos)
    /\ PeerAt(st[n + 1])
    /\ ReaderAt(st[1])
    /\ BytesFlow(st[1])
    /\ UpTo(f, st[1])

Tracked(f) ==
    \E n \in Nat :
        \E st \in [1..(n + 1) -> State], q \in [1..n -> Chunk], pos \in [1..(n + 1) -> Nat] :
            At(f, n, st, q, pos)

IInv ==
    /\ AllTypes
    /\ BuildersOk
    /\ HeadersOk
    /\ \E f \in [1..Len(chunks) -> 1..Len(msgs)] : Sound(f) /\ (Live => Tracked(f))

-----------------------------------------------------------------------------
(* Facts about the types.                                                  *)

\* What the assumptions say about chunk streams and chunk sizes.
LEMMA Numbers ==
    /\ Csids \subseteq Nat /\ 0 \notin Csids
    /\ Sizes \subseteq Nat /\ 0 \notin Sizes
    /\ FirstSize \in Sizes
BY ReaderAssumption

\* The fields of a message of the peer.
LEMMA MsgFacts ==
    ASSUME PeerTypes, NEW i \in 1..Len(msgs)
    PROVE  /\ msgs[i] \in Msg
           /\ msgs[i].csid \in Csids /\ msgs[i].len \in Nat /\ msgs[i].ext \in BOOLEAN
           /\ msgs[i].msid \in Msids \cup {0}
           /\ msgs[i].type \in Types \cup {SetChunkSize}
           /\ MsgOk(msgs[i])
<1>1. msgs[i] \in Msg /\ MsgOk(msgs[i])
    BY DEF PeerTypes
<1> QED BY <1>1 DEF Msg

\* The peer counts the bytes of each of its messages.
LEMMA SentFacts ==
    ASSUME PeerTypes, NEW i \in 1..Len(msgs)
    PROVE  sent[i] \in Nat
<1>1. sent \in Seq(Nat) /\ i \in 1..Len(sent)
    BY DEF PeerTypes
<1> QED BY <1>1

\* The place of the x-th of n bytes behind the first a.
LEMMA InRange ==
    ASSUME NEW a \in Nat, NEW n \in Nat, NEW x \in 1..n
    PROVE  a < a + x /\ a + x <= a + n
OBVIOUS

\* What is left of z bytes before the last d of the first r are read.
LEMMA LeftOver ==
    ASSUME NEW z \in Nat, NEW r \in Nat, NEW d \in Nat, r <= z, d <= r
    PROVE  d <= z - (r - d)
OBVIOUS

\* The fields of a reader's state.
LEMMA StateFacts ==
    ASSUME NEW s \in State
    PROVE  /\ s.hd \in [Csids -> Nat] /\ s.rd \in [Csids -> Nat]
           /\ s.last \in Csids \cup {0} /\ s.size \in Sizes /\ s.size \in Nat
BY Numbers DEF State

\* The fields of a chunk.
LEMMA ChunkFacts ==
    ASSUME NEW k \in Chunk
    PROVE  /\ k.csid \in Csids /\ k.fmt \in 0..3 /\ k.m \in Nat /\ k.at \in Nat /\ k.n \in Nat
BY DEF Chunk

-----------------------------------------------------------------------------
(* The messages of the peer only become more.                              *)

Grows ==
    /\ Len(msgs') \in Nat /\ Len(msgs) \in Nat
    /\ Len(msgs) <= Len(msgs')
    /\ \A i \in 1..Len(msgs) : msgs'[i] = msgs[i]

\* A state stays one when the peer begins more messages.
LEMMA StateGrows ==
    ASSUME Grows, NEW s \in State, StateOk(s)
    PROVE  StateOk(s)'
BY DEF Grows, StateOk

\* A chunk leads from one state to the other also when there are more messages.
LEMMA LeadsGrows ==
    ASSUME Grows, PeerTypes, NEW s \in State, NEW t \in State, NEW k \in Chunk,
           StateOk(s), Leads(s, k, t)
    PROVE  Leads(s, k, t)' /\ HLen(k)' = HLen(k) /\ HLen(k) \in {1, 2}
<1>1. k.m \in 1..Len(msgs) /\ k.m \in 1..Len(msgs') /\ msgs'[k.m] = msgs[k.m]
    BY DEF Grows, Leads
<1>2. k.csid \in Csids /\ k.m \in Nat /\ s.hd \in [Csids -> Nat] /\ s.last \in Csids \cup {0}
    BY ChunkFacts, StateFacts
<1>3. ASSUME Begins(s, k) PROVE Begins(s, k)'
  <2>1. s.hd[k.csid] # 0 => msgs'[s.hd[k.csid]] = msgs[s.hd[k.csid]]
      BY <1>2 DEF StateOk, Grows
  <2>2. s.last # 0 => msgs'[s.hd[s.last]] = msgs[s.hd[s.last]]
      BY <1>2 DEF StateOk, Grows
  <2>3. \A i \in 1..Len(msgs') : s.hd[k.csid] < i /\ i < k.m => msgs'[i].csid # k.csid
    <3> SUFFICES ASSUME NEW i \in 1..Len(msgs'), s.hd[k.csid] < i, i < k.m
                 PROVE  msgs'[i].csid # k.csid
        OBVIOUS
    <3>1. i \in 1..Len(msgs)
        BY <1>1 DEF Grows
    <3> QED BY <1>3, <3>1 DEF Begins, Grows
  <2>4. /\ k.fmt # 2
        /\ k.fmt = 1 => /\ s.last # 0
                        /\ msgs'[k.m].sure => /\ msgs'[s.hd[s.last]].sure
                                              /\ msgs'[k.m].msid = msgs'[s.hd[s.last]].msid
      BY <1>3, <1>1, <2>2 DEF Begins
  <2>5. /\ s.hd[k.csid] # 0 => s.rd[k.csid] = msgs'[s.hd[k.csid]].len
        /\ k.fmt # 0 => msgs'[k.m].type # SetChunkSize
        /\ k.fmt = 3 => s.hd[k.csid] # 0 /\ msgs'[k.m] = msgs'[s.hd[k.csid]]
      BY <1>3, <1>1, <2>1 DEF Begins
  <2> QED BY <1>3, <2>3, <2>4, <2>5 DEF Begins
<1>4. ASSUME Resumes(s, k) PROVE Resumes(s, k)'
    BY <1>1, <1>4 DEF Resumes
<1>5. SizeThen(k.m, k.at + k.n, s.size)' = SizeThen(k.m, k.at + k.n, s.size)
    BY <1>1 DEF SizeThen
<1>6. (Begins(s, k) \/ Resumes(s, k))'
    BY <1>3, <1>4 DEF Leads
<1>7. Leads(s, k, t)'
    BY <1>1, <1>5, <1>6 DEF Leads
<1> QED BY <1>1, <1>7, MsgFacts DEF HLen

\* A function on 1..n with one more value.
Put(g, n, x) == [j \in 1..(n + 1) |-> IF j <= n THEN g[j] ELSE x]

\* What one more element does to a function on 1..n.
LEMMA PutFacts ==
    ASSUME NEW S, NEW n \in Nat, NEW g \in [1..n -> S], NEW x \in S
    PROVE  /\ Put(g, n, x) \in [1..(n + 1) -> S]
           /\ \A j \in 1..n : Put(g, n, x)[j] = g[j]
           /\ Put(g, n, x)[n + 1] = x
           /\ \A j \in 1..(n + 1) : j \in 1..n \/ j = n + 1
BY DEF Put

\* A chunk that the peer sends makes the row longer.
LEMMA RowGrows ==
    ASSUME PeerTypes, WireTypes, Grows, ~eof, ~eof',
           NEW n \in Nat, NEW st \in [1..(n + 1) -> State], NEW q \in [1..n -> Chunk],
           NEW pos \in [1..(n + 1) -> Nat], Row(n, st, q, pos),
           NEW k \in Chunk, NEW t \in State,
           Leads(st[n + 1], k, t)', StateOk(t)', HLen(k)' \in {1, 2},
           NEW p \in Nat, p = Len(wire), NEW w \in Nat, w = Len(wire'),
           w = p + HLen(k)' + k.n,
           \A i \in 1..p : wire'[i] = wire[i],
           TokensAt(p, k)'
    PROVE  Row(n + 1, Put(st, n + 1, t), Put(q, n, k), Put(pos, n + 1, w))'
<1> DEFINE st2 == Put(st, n + 1, t)
           q2 == Put(q, n, k)
           pos2 == Put(pos, n + 1, w)
<1>1. k.n \in Nat
    BY ChunkFacts DEF WireTypes
<1>2. /\ st2 \in [1..(n + 2) -> State]
      /\ \A j \in 1..(n + 1) : st2[j] = st[j]
      /\ st2[n + 2] = t
      /\ \A j \in 1..(n + 2) : j \in 1..(n + 1) \/ j = n + 2
  <2>1. n + 1 \in Nat /\ (n + 1) + 1 = n + 2
      OBVIOUS
  <2>2. /\ st2 \in [1..((n + 1) + 1) -> State]
        /\ \A j \in 1..(n + 1) : st2[j] = st[j]
        /\ st2[(n + 1) + 1] = t
        /\ \A j \in 1..((n + 1) + 1) : j \in 1..(n + 1) \/ j = (n + 1) + 1
      BY <2>1 DEF Put
  <2> QED BY <2>1, <2>2, Zenon
<1>3. /\ q2 \in [1..(n + 1) -> Chunk]
      /\ \A j \in 1..n : q2[j] = q[j]
      /\ q2[n + 1] = k
      /\ \A j \in 1..(n + 1) : j \in 1..n \/ j = n + 1
    BY PutFacts
<1>4. /\ pos2 \in [1..(n + 2) -> Nat]
      /\ \A j \in 1..(n + 1) : pos2[j] = pos[j]
      /\ pos2[n + 2] = w
  <2>1. n + 1 \in Nat /\ (n + 1) + 1 = n + 2
      OBVIOUS
  <2>2. /\ pos2 \in [1..((n + 1) + 1) -> Nat]
        /\ \A j \in 1..(n + 1) : pos2[j] = pos[j]
        /\ pos2[(n + 1) + 1] = w
      BY <2>1 DEF Put
  <2> QED BY <2>1, <2>2, Zenon
<1> HIDE DEF st2, q2, pos2
<1>5. /\ States(n, st) /\ Steps(n, st, q) /\ Tokens(n, q, pos) /\ Spans(n, q, pos)
      /\ Rising(n, pos) /\ pos[n + 1] = p
    BY DEF Row, WireEnds
<1>6. States(n + 1, st2)'
  <2> SUFFICES ASSUME NEW j \in 1..(n + 2) PROVE StateOk(st2[j])'
      BY DEF States
  <2>1. CASE j \in 1..(n + 1)
      BY <2>1, <1>2, <1>5, StateGrows DEF States
  <2> QED BY <2>1, <1>2
<1>7. ASSUME NEW j \in 1..n
      PROVE  /\ Leads(st[j], q[j], st[j + 1])' /\ HLen(q[j])' = HLen(q[j])
             /\ HLen(q[j]) \in {1, 2} /\ j \in 1..(n + 1) /\ j + 1 \in 1..(n + 1)
             /\ q[j].n \in Nat /\ q[j].m \in 1..Len(msgs)
  <2>1. j \in 1..(n + 1) /\ j + 1 \in 1..(n + 1)
      OBVIOUS
  <2>2. Leads(st[j], q[j], st[j + 1]) /\ StateOk(st[j])
      BY <2>1, <1>5 DEF Steps, States
  <2>3. q[j] \in Chunk /\ st[j] \in State /\ st[j + 1] \in State
      BY <2>1
  <2>4. q[j].m \in 1..Len(msgs)
      BY <2>2 DEF Leads
  <2> QED BY <2>1, <2>2, <2>3, <2>4, LeadsGrows, ChunkFacts
<1>8. Steps(n + 1, st2, q2)'
  <2> SUFFICES ASSUME NEW j \in 1..(n + 1) PROVE Leads(st2[j], q2[j], st2[j + 1])'
      BY DEF Steps
  <2>1. CASE j \in 1..n
      BY <2>1, <1>7, <1>2, <1>3
  <2>2. CASE j = n + 1
    <3>1. st2[j] = st[n + 1] /\ q2[j] = k /\ st2[j + 1] = t
        BY <2>2, <1>2, <1>3
    <3> QED BY <3>1
  <2> QED BY <2>1, <2>2, <1>3
<1>9. Spans(n + 1, q2, pos2)'
  <2> SUFFICES ASSUME NEW j \in 1..(n + 1)
               PROVE  pos2[j + 1] = pos2[j] + HLen(q2[j])' + q2[j].n
      BY DEF Spans
  <2>1. CASE j \in 1..n
      BY <2>1, <1>7, <1>3, <1>4, <1>5 DEF Spans
  <2>2. CASE j = n + 1
    <3>1. pos2[j] = p /\ q2[j] = k /\ pos2[j + 1] = w
        BY <2>2, <1>3, <1>4, <1>5
    <3> QED BY <3>1
  <2> QED BY <2>1, <2>2, <1>3
<1>10. Tokens(n + 1, q2, pos2)'
  <2> SUFFICES ASSUME NEW j \in 1..(n + 1) PROVE TokensAt(pos2[j], q2[j])'
      BY DEF Tokens
  <2>1. CASE j \in 1..n
    <3>1. /\ pos[j] \in Nat /\ pos[j + 1] \in Nat /\ pos[j + 1] <= p
          /\ pos[j + 1] = pos[j] + HLen(q[j]) + q[j].n
        BY <2>1, <1>5, <1>7 DEF Rising, Spans
    <3>2. TokensAt(pos[j], q[j]) /\ msgs'[q[j].m] = msgs[q[j].m]
        BY <2>1, <1>5, <1>7 DEF Tokens, Grows
    <3>3. HLen(q[j])' = HLen(q[j]) /\ HLen(q[j]) \in {1, 2} /\ q[j].n \in Nat
        BY <2>1, <1>7
    <3> DEFINE a == pos[j]
               h == HLen(q[j])
               l == q[j].n
    <3>0. a \in Nat /\ h \in {1, 2} /\ l \in Nat /\ a + h + l <= p
        BY <3>1, <3>3
    <3> HIDE DEF a, h, l
    <3>a. /\ a + 1 \in 1..p
          /\ h = 2 => a + 2 \in 1..p
          /\ \A i \in 1..l : a + h + i \in 1..p
        BY <3>0
    <3>b. /\ a + 1 <= p => wire[a + 1] = Hdr(Header(q[j].fmt, q[j].csid, msgs[q[j].m]))
          /\ h = 2 /\ a + 2 <= p => wire[a + 2] = Ext
          /\ \A i \in 1..l : a + h + i <= p => wire[a + h + i] = Byte(q[j].m, q[j].at + i)
        BY <3>2 DEF TokensAt, a, h, l
    <3>c. \A x \in 1..p : x <= p
        OBVIOUS
    <3>4. wire'[a + 1] = Hdr(Header(q[j].fmt, q[j].csid, msgs'[q[j].m]))
        BY <3>a, <3>b, <3>c, <3>2, Zenon
    <3>5. h = 2 => wire'[a + 2] = Ext
        BY <3>a, <3>b, <3>c, Zenon
    <3>6. \A i \in 1..l : wire'[a + h + i] = Byte(q[j].m, q[j].at + i)
        BY <3>a, <3>b, <3>c, Zenon
    <3>7. TokensAt(pos[j], q[j])'
        BY <3>3, <3>4, <3>5, <3>6 DEF TokensAt, a, h, l
    <3> QED BY <2>1, <3>7, <1>3, <1>4, <1>7
  <2>2. CASE j = n + 1
    <3>1. pos2[j] = p /\ q2[j] = k
        BY <2>2, <1>3, <1>4, <1>5
    <3> QED BY <3>1
  <2> QED BY <2>1, <2>2, <1>3
<1>11. Rising(n + 1, pos2)'
  <2> SUFFICES ASSUME NEW i \in 1..(n + 2), NEW j \in 1..(n + 2), i <= j
               PROVE  pos2[i] <= pos2[j]
      BY DEF Rising
  <2>1. \A x \in 1..(n + 1) : pos[x] \in Nat /\ pos[x] <= p
      BY <1>5 DEF Rising
  <2>2. p <= w
      BY <1>1
  <2>3. CASE j \in 1..(n + 1)
      BY <2>3, <1>4, <1>5 DEF Rising
  <2>4. CASE j = n + 2
      BY <2>1, <2>2, <2>4, <1>1, <1>2, <1>4, SMTT(30)
  <2> QED BY <2>3, <2>4, <1>2
<1>12. WireEnds(n + 1, pos2)'
    BY <1>4 DEF WireEnds
<1>13. Row(n + 1, st2, q2, pos2)'
    BY <1>6, <1>8, <1>9, <1>10, <1>11, <1>12 DEF Row
<1> QED BY <1>13 DEF st2, q2, pos2

\* A completed header is not None.
LEMMA HdrOfFacts ==
    ASSUME NEW h, NEW m, HdrOf(h, m), m.csid \in Csids
    PROVE  h # None /\ h.csid = m.csid
<1>1. None.csid = 0 /\ h.csid \in Csids
    BY DEF None, HdrOf
<1> QED BY <1>1, Numbers DEF HdrOf

\* Recv's own state is not touched by what the peer does.
LEMMA ReaderGrows ==
    ASSUME PeerTypes, WireTypes, Grows, UNCHANGED readerVars,
           NEW s \in State, StateOk(s), ReaderAt(s),
           rpc = "payload" => need <= Len(wire),
           Len(wire') \in Nat, Len(wire) <= Len(wire'),
           \A i \in 1..Len(wire) : wire'[i] = wire[i], need \in Nat
    PROVE  ReaderAt(s)'
<1>1. /\ rpc' = rpc /\ cur' = cur /\ need' = need /\ last' = last /\ headers' = headers
      /\ builders' = builders /\ readSize' = readSize
    BY DEF readerVars, normVars
<1>2. s.hd \in [Csids -> Nat] /\ s.rd \in [Csids -> Nat] /\ s.last \in Csids \cup {0}
    BY StateFacts
<1>3. \A c \in Csids : s.hd[c] # 0 => s.hd[c] \in 1..Len(msgs) /\ msgs'[s.hd[c]] = msgs[s.hd[c]]
    BY DEF StateOk, Grows
<1>4. Working(s)'
  <2> SUFFICES ASSUME rpc \in {"payload", "chunk"}
               PROVE  /\ cur.csid \in Csids
                      /\ s.hd[cur.csid] # 0
                      /\ rpc = "payload" => need <= s.rd[cur.csid]
                      /\ rpc = "chunk" => /\ s.rd[cur.csid] = msgs'[s.hd[cur.csid]].len
                                          /\ msgs'[s.hd[cur.csid]].type # SetChunkSize
      BY <1>1 DEF Working, Proper
  <2>1. /\ cur.csid \in Csids
        /\ s.hd[cur.csid] # 0
        /\ rpc = "payload" => need <= s.rd[cur.csid]
        /\ rpc = "chunk" => /\ s.rd[cur.csid] = msgs[s.hd[cur.csid]].len
                            /\ Proper(s.hd[cur.csid])
      BY DEF ReaderAt, Working
  <2>2. msgs'[s.hd[cur.csid]] = msgs[s.hd[cur.csid]]
      BY <2>1, <1>3
  <2> QED BY <2>1, <2>2 DEF Proper
<1>5. Normal(s)'
  <2>1. s.last # 0 => s.last \in Csids /\ s.hd[s.last] # 0
      BY <1>2 DEF StateOk
  <2>2. (IF s.last = 0 THEN last = None ELSE HdrOf(last, msgs[s.hd[s.last]]))'
      BY <1>1, <1>3, <2>1 DEF ReaderAt, Normal, HdrOf
  <2>3. ASSUME NEW c \in Csids
        PROVE  (IF s.hd[c] = 0 THEN headers[c] = None ELSE HdrOf(headers[c], msgs[s.hd[c]]))'
      BY <1>1, <1>3 DEF ReaderAt, Normal, HdrOf
  <2> QED BY <2>2, <2>3 DEF Normal
<1>6. ASSUME NEW c \in Csids PROVE BuilderAt(s, c)'
  <2>1. UnderWay(s, c)' <=> UnderWay(s, c)
      BY <1>1, <1>3 DEF UnderWay, AtWork
  <2>2. Rest(c)' = Rest(c)
      BY <1>1 DEF Rest
  <2>3. BuilderAt(s, c)
      BY DEF ReaderAt
  <2>4. UnderWay(s, c) => msgs'[s.hd[c]] = msgs[s.hd[c]]
      BY <1>3 DEF UnderWay
  <2> QED BY <1>1, <2>1, <2>2, <2>3, <2>4 DEF BuilderAt, IsBuilder, HdrOf, Bytes, Byte
<1>7. SizeAt(s)'
  <2>1. rpc = "payload" => cur.csid \in Csids /\ s.hd[cur.csid] # 0
      BY DEF ReaderAt, Working
  <2> QED BY <1>1, <1>3, <2>1 DEF ReaderAt, SizeAt, SizeThen
<1>8. PayloadAt(s)'
  <2> SUFFICES ASSUME rpc = "payload", NEW i \in 1..need
               PROVE  wire'[i] = Byte(s.hd[cur.csid], s.rd[cur.csid] - need + i)
      BY <1>1 DEF PayloadAt, Byte
  <2>1. i \in 1..Len(wire) /\ i <= Len(wire)
      BY DEF WireTypes
  <2>2. wire[i] = Byte(s.hd[cur.csid], s.rd[cur.csid] - need + i)
      BY <2>1 DEF ReaderAt, PayloadAt
  <2> QED BY <2>1, <2>2
<1> QED BY <1>4, <1>5, <1>6, <1>7, <1>8 DEF ReaderAt

\* Nor is what has come out of Chunks().
LEMMA SoundGrows ==
    ASSUME PeerTypes, Grows, chunks' = chunks,
           NEW f \in [1..Len(chunks) -> 1..Len(msgs)], chunks \in Seq(Builder), Sound(f)
    PROVE  Sound(f)' /\ f \in [1..Len(chunks') -> 1..Len(msgs')]
<1>1. DOMAIN chunks = 1..Len(chunks)
    OBVIOUS
<1>2. \A k \in 1..Len(chunks) : f[k] \in 1..Len(msgs) /\ msgs'[f[k]] = msgs[f[k]]
    BY DEF Grows
<1>3. ASSUME NEW k \in 1..Len(chunks), NEW m \in 1..(f[k] - 1)
      PROVE  msgs'[m] = msgs[m]
  <2>1. f[k] \in 1..Len(msgs) /\ Len(msgs) \in Nat
      BY DEF Grows
  <2>2. m \in 1..Len(msgs)
      BY <2>1
  <2> QED BY <2>2 DEF Grows
<1>4. Delivers(f)'
  <2> SUFFICES ASSUME NEW k \in 1..Len(chunks)
               PROVE  /\ msgs'[f[k]].csid = chunks[k].csid
                      /\ Proper(f[k])'
                      /\ \A j \in 1..(k - 1) : chunks[j].csid = chunks[k].csid => f[j] < f[k]
                      /\ \A m \in 1..(f[k] - 1) :
                            msgs'[m].csid = chunks[k].csid /\ Proper(m)' =>
                                \E j \in 1..(k - 1) : f[j] = m
      BY <1>1 DEF Delivers
  <2>1. /\ msgs[f[k]].csid = chunks[k].csid
        /\ Proper(f[k])
        /\ \A j \in 1..(k - 1) : chunks[j].csid = chunks[k].csid => f[j] < f[k]
        /\ \A m \in 1..(f[k] - 1) :
              msgs[m].csid = chunks[k].csid /\ Proper(m) =>
                  \E j \in 1..(k - 1) : f[j] = m
      BY <1>1 DEF Sound, Delivers
  <2> QED BY <2>1, <1>2, <1>3 DEF Proper
<1>5. \A k \in 1..Len(chunks) : /\ chunks[k].data = Bytes(f[k], 0, msgs'[f[k]].len)
                                /\ HdrOf(chunks[k].hdr, msgs'[f[k]])
    BY <1>1, <1>2 DEF Sound
<1>6. f \in [1..Len(chunks') -> 1..Len(msgs')]
    BY DEF Grows
<1> QED BY <1>1, <1>4, <1>5, <1>6 DEF Sound, HdrOf, Bytes, Byte

\* Messages that are only begun have not been received from Chunks().
LEMMA UpToGrows ==
    ASSUME PeerTypes, Grows, UNCHANGED readerVars, chunks \in Seq(Builder),
           NEW f \in [1..Len(chunks) -> 1..Len(msgs)],
           NEW s \in State, StateOk(s), UpTo(f, s), PeerTypes'
    PROVE  UpTo(f, s)'
<1> SUFFICES ASSUME NEW m \in 1..Len(msgs'), Proper(m)'
             PROVE  (\E k \in DOMAIN chunks : f[k] = m) <=> Through(s, m)'
    BY DEF UpTo, readerVars
<1>1. DOMAIN chunks = 1..Len(chunks) /\ rpc' = rpc /\ cur' = cur
    BY DEF readerVars
<1>2. CASE m \in 1..Len(msgs)
  <2>1. msgs'[m] = msgs[m] /\ Proper(m)
      BY <1>2 DEF Grows, Proper
  <2>2. Through(s, m)' <=> Through(s, m)
      BY <1>1, <2>1 DEF Through, AtWork
  <2> QED BY <1>2, <2>1, <2>2 DEF UpTo
<1>3. CASE m \notin 1..Len(msgs)
  <2>1. m > Len(msgs) /\ m \in Nat
      BY <1>3 DEF Grows
  <2>2. ~ \E k \in DOMAIN chunks : f[k] = m
      BY <1>1, <1>3
  <2>3. msgs'[m].csid \in Csids
    <3>1. msgs'[m] \in Msg
        BY DEF PeerTypes
    <3> QED BY <3>1 DEF Msg
  <2>4. \A c \in Csids : s.hd[c] \in Nat /\ s.hd[c] <= Len(msgs)
      BY StateFacts DEF StateOk, Grows
  <2>5. ~Through(s, m)'
      BY <2>1, <2>3, <2>4 DEF Through, Grows
  <2> QED BY <2>2, <2>5
<1> QED BY <1>2, <1>3

\* The builders are not concerned when the peer begins more messages.
LEMMA BuildersGrow ==
    ASSUME Grows, builders' = builders, BuildersOk
    PROVE  BuildersOk'
<1> SUFFICES ASSUME NEW c \in Csids, builders[c] # None
             PROVE  \E m \in 1..Len(msgs') :
                        /\ msgs'[m].csid = c
                        /\ builders[c].csid = c
                        /\ builders[c].data = Bytes(m, 0, Len(builders[c].data))
                        /\ builders[c].left + Len(builders[c].data) = msgs'[m].len
    BY DEF BuildersOk, Bytes, Byte
<1>1. PICK m \in 1..Len(msgs) :
          /\ msgs[m].csid = c
          /\ builders[c].csid = c
          /\ builders[c].data = Bytes(m, 0, Len(builders[c].data))
          /\ builders[c].left + Len(builders[c].data) = msgs[m].len
    BY DEF BuildersOk
<1>2. m \in 1..Len(msgs') /\ msgs'[m] = msgs[m]
    BY DEF Grows
<1> QED BY <1>1, <1>2

\* The three kinds of token differ, and a token tells what it was made from.
LEMMA TokenFacts ==
    /\ \A h, m, i : Hdr(h) # Byte(m, i)
    /\ \A m, i : Ext # Byte(m, i)
    /\ \A m, i, n, j : Byte(m, i) = Byte(n, j) => m = n /\ i = j
    /\ \A h : Hdr(h).k = "header" /\ Hdr(h).h = h
    /\ \A m, i : Byte(m, i).k = "byte" /\ Byte(m, i).m = m /\ Byte(m, i).i = i
    /\ Ext.k = "extended"
<1>1. /\ \A h : Hdr(h).k = "header" /\ Hdr(h).h = h
      /\ \A m, i : Byte(m, i).k = "byte" /\ Byte(m, i).m = m /\ Byte(m, i).i = i
      /\ Ext.k = "extended"
    BY DEF Hdr, Byte, Ext
<1>2. "header" # "byte" /\ "extended" # "byte"
    OBVIOUS
<1>3. \A h, m, i : Hdr(h) # Byte(m, i)
    BY <1>1, <1>2
<1>4. \A m, i : Ext # Byte(m, i)
    BY <1>1, <1>2
<1>5. ASSUME NEW m, NEW i, NEW n, NEW j, Byte(m, i) = Byte(n, j) PROVE m = n /\ i = j
    BY <1>1, <1>5
<1> QED BY <1>1, <1>3, <1>4, <1>5

\* A payload byte is of one message and offset only.
LEMMA ByteSame ==
    ASSUME NEW m, NEW i, NEW n, NEW j, Byte(m, i) = Byte(n, j)
    PROVE  m = n /\ i = j
BY TokenFacts

\* The new tokens on the wire: h of a header and then the payload of chunk k.
NewTokens(L, h, k) ==
    /\ L = Len(wire)
    /\ Len(wire') = L + h + k.n
    /\ \A i \in 1..L : wire'[i] = wire[i]
    /\ \A i \in 1..h, m \in Nat, j \in Nat : wire'[L + i] # Byte(m, j)
    /\ \A i \in 1..k.n : wire'[L + h + i] = Byte(k.m, k.at + i)

\* A payload byte on the wire was there before or is one of the new chunk.
LEMMA NewTokenFacts ==
    ASSUME NEW L \in Nat, NEW h \in {1, 2}, NEW k \in Chunk, NewTokens(L, h, k)
    PROVE  \A p \in 1..Len(wire'), m, i \in Nat : wire'[p] = Byte(m, i) =>
               \/ p \in 1..L /\ wire[p] = Byte(m, i)
               \/ \E x \in 1..k.n : p = L + h + x /\ m = k.m /\ i = k.at + x
<1> SUFFICES ASSUME NEW p \in 1..Len(wire'), NEW m \in Nat, NEW i \in Nat, wire'[p] = Byte(m, i)
             PROVE  \/ p \in 1..L /\ wire[p] = Byte(m, i)
                    \/ \E x \in 1..k.n : p = L + h + x /\ m = k.m /\ i = k.at + x
    OBVIOUS
<1>1. k.n \in Nat /\ k.m \in Nat /\ k.at \in Nat
    BY ChunkFacts
<1>2. CASE p \in 1..L
    BY <1>2 DEF NewTokens
<1>3. CASE p \notin 1..L /\ p <= L + h
  <2>1. p - L \in 1..h /\ p = L + (p - L)
      BY <1>3
  <2>2. wire'[L + (p - L)] # Byte(m, i)
      BY <2>1 DEF NewTokens
  <2> QED BY <2>1, <2>2
<1>4. CASE p \notin 1..L /\ ~(p <= L + h)
  <2> DEFINE x == p - L - h
  <2>1. x \in 1..k.n /\ p = L + h + x
      BY <1>1, <1>4 DEF NewTokens
  <2> HIDE DEF x
  <2>2. wire'[p] = Byte(k.m, k.at + x)
      BY <2>1 DEF NewTokens
  <2>3. m = k.m /\ i = k.at + x
    <3>1. Byte(m, i) = Byte(k.m, k.at + x)
        BY <2>2
    <3> QED BY <3>1, ByteSame
  <2> QED BY <2>1, <2>3
<1> QED BY <1>2, <1>3, <1>4

\* The bytes of a new chunk are those that the peer counts as sent by it.
LEMMA BytesGrow ==
    ASSUME PeerTypes, PeerTypes', WireTypes, Grows, ~eof, UNCHANGED readerVars,
           NEW L \in Nat, NEW h \in {1, 2}, NEW k \in Chunk, NewTokens(L, h, k),
           NEW s \in State, StateOk(s), BytesFlow(s), need \in Nat,
           k.m \in 1..Len(msgs'),
           \A m \in 1..Len(msgs') : m \in 1..Len(msgs) \/ m = k.m,
           \A m \in 1..Len(msgs) : m # k.m => sent'[m] = sent[m],
           sent'[k.m] = k.at + k.n,
           k.m \in 1..Len(msgs) => sent[k.m] = k.at,
           k.m \notin 1..Len(msgs) => k.at = 0
    PROVE  BytesFlow(s)'
<1>1. k.n \in Nat /\ k.m \in Nat /\ k.at \in Nat /\ Len(msgs) \in Nat /\ Len(msgs') \in Nat
    BY ChunkFacts DEF PeerTypes
<1>2. rpc' = rpc /\ cur' = cur /\ need' = need
    BY DEF readerVars
<1>8. \A p \in 1..Len(wire'), m, i \in Nat : wire'[p] = Byte(m, i) =>
          \/ p \in 1..L /\ wire[p] = Byte(m, i)
          \/ \E x \in 1..k.n : p = L + h + x /\ m = k.m /\ i = k.at + x
    BY NewTokenFacts
<1>3. /\ \A p \in 1..L, m \in Nat, i \in Nat : wire[p] = Byte(m, i) =>
            /\ m \in 1..Len(msgs)
            /\ \A r \in 1..(p - 1), j \in Nat : wire[r] = Byte(m, j) => j < i
      /\ \A m \in 1..Len(msgs) : ReadOf(s, m) <= sent[m]
      /\ \A m \in 1..Len(msgs), i \in Nat :
            (\E p \in 1..L : wire[p] = Byte(m, i)) <=> ReadOf(s, m) < i /\ i <= sent[m]
    BY DEF BytesFlow, BytesRise, BytesRead, BytesThere, NewTokens
<1>4. ASSUME NEW m \in 1..Len(msgs)
      PROVE  ReadOf(s, m)' = ReadOf(s, m) /\ sent[m] \in Nat /\ ReadOf(s, m) \in Int
  <2>1. msgs'[m] = msgs[m] /\ msgs[m].csid \in Csids /\ msgs[m].len \in Nat
      BY MsgFacts DEF Grows
  <2>2. s.rd[msgs[m].csid] \in Nat /\ sent[m] \in Nat
    <3>1. sent[m] \in Nat
        BY SentFacts
    <3>2. s.rd \in [Csids -> Nat]
        BY StateFacts
    <3>3. s.rd[msgs[m].csid] \in Nat
        BY <2>1, <3>2
    <3> QED BY <3>1, <3>3
  <2> QED BY <2>1, <2>2, <1>2 DEF ReadOf, Rest
<1>5. ASSUME NEW m \in 1..Len(msgs'), m \notin 1..Len(msgs)
      PROVE  ReadOf(s, m)' = 0 /\ m = k.m /\ k.at = 0
  <2>1. m > Len(msgs) /\ m \in Nat
      BY <1>5, <1>1
  <2>2. msgs'[m].csid \in Csids
    <3>1. msgs'[m] \in Msg
        BY DEF PeerTypes
    <3> QED BY <3>1 DEF Msg
  <2>3. \A c \in Csids : s.hd[c] \in Nat /\ s.hd[c] <= Len(msgs)
      BY StateFacts, <1>1 DEF StateOk
  <2>4. ~(m < s.hd[msgs'[m].csid]) /\ m # s.hd[msgs'[m].csid]
      BY <2>1, <2>2, <2>3, <1>1
  <2> QED BY <2>4, <1>5 DEF ReadOf
<1>6. ASSUME NEW p \in 1..Len(wire'), NEW m \in Nat, NEW i \in Nat, wire'[p] = Byte(m, i)
      PROVE  /\ m \in 1..Len(msgs')
             /\ \A r \in 1..(p - 1), j \in Nat : wire'[r] = Byte(m, j) => j < i
  <2>1. CASE p \in 1..L /\ wire[p] = Byte(m, i)
    <3>1. m \in 1..Len(msgs')
        BY <2>1, <1>3, <1>1 DEF Grows
    <3>2. ASSUME NEW r \in 1..(p - 1), NEW j \in Nat, wire'[r] = Byte(m, j) PROVE j < i
      <4>1. r \in 1..L
          BY <2>1
      <4>2. wire[r] = Byte(m, j)
          BY <4>1, <3>2 DEF NewTokens
      <4> QED BY <4>2, <2>1, <1>3
    <3> QED BY <3>1, <3>2
  <2>2. ASSUME NEW x \in 1..k.n, p = L + h + x, m = k.m, i = k.at + x
        PROVE  /\ m \in 1..Len(msgs')
               /\ \A r \in 1..(p - 1), j \in Nat : wire'[r] = Byte(m, j) => j < i
    <3> SUFFICES ASSUME NEW r \in 1..(p - 1), NEW j \in Nat, wire'[r] = Byte(m, j)
                 PROVE  j < i
        BY <2>2
    <3>1. r \in 1..Len(wire')
        BY <1>1 DEF NewTokens
    <3>2. CASE r \in 1..L /\ wire[r] = Byte(m, j)
      <4>1. m \in 1..Len(msgs)
          BY <3>2, <1>3
      <4>2. j <= sent[m]
          BY <4>1, <3>2, <1>3
      <4>3. sent[m] = k.at /\ i = k.at + x /\ x \in Nat /\ x >= 1
          BY <4>1, <2>2
      <4> QED BY <4>2, <4>3, <1>1
    <3>3. ASSUME NEW y \in 1..k.n, r = L + h + y, j = k.at + y PROVE j < i
      <4> DEFINE a == k.at
                 b == L + h
      <4>1. a \in Nat /\ b \in Nat /\ x \in Nat /\ y \in Nat
          BY <1>1
      <4>2. r <= p - 1 /\ r = b + y /\ p = b + x /\ j = a + y /\ i = a + x
          BY <3>3, <2>2
      <4> HIDE DEF a, b
      <4> QED BY <4>1, <4>2
    <3>4. \/ r \in 1..L /\ wire[r] = Byte(m, j)
          \/ \E y \in 1..k.n : r = L + h + y /\ m = k.m /\ j = k.at + y
        BY <3>1, <1>8
    <3> QED BY <3>2, <3>3, <3>4
  <2>3. \/ p \in 1..L /\ wire[p] = Byte(m, i)
        \/ \E x \in 1..k.n : p = L + h + x /\ m = k.m /\ i = k.at + x
      BY <1>6, <1>8
  <2> QED BY <2>1, <2>2, <2>3
<1>7. ASSUME NEW m \in 1..Len(msgs')
      PROVE  /\ (ReadOf(s, m) <= sent[m])'
             /\ \A i \in Nat : (\E p \in 1..Len(wire') : wire'[p] = Byte(m, i))
                    <=> ReadOf(s, m)' < i /\ i <= sent'[m]
  <2>1. ASSUME NEW i \in Nat
        PROVE  (\E p \in 1..Len(wire') : wire'[p] = Byte(m, i)) <=>
                 \/ \E p \in 1..L : wire[p] = Byte(m, i)
                 \/ m = k.m /\ k.at < i /\ i <= k.at + k.n
    <3>1. ASSUME NEW p \in 1..Len(wire'), wire'[p] = Byte(m, i)
          PROVE  \/ \E r \in 1..L : wire[r] = Byte(m, i)
                 \/ m = k.m /\ k.at < i /\ i <= k.at + k.n
      <4>1. \/ p \in 1..L /\ wire[p] = Byte(m, i)
            \/ \E x \in 1..k.n : p = L + h + x /\ m = k.m /\ i = k.at + x
        <5>1. m \in Nat
            BY <1>1
        <5> QED BY <3>1, <5>1, <1>8
      <4>2. ASSUME NEW x \in 1..k.n, i = k.at + x PROVE k.at < i /\ i <= k.at + k.n
        <5>1. k.at \in Nat /\ k.n \in Nat
            BY <1>1
        <5>2. k.at < k.at + x /\ k.at + x <= k.at + k.n
            BY <5>1, InRange
        <5> QED BY <4>2, <5>2
      <4> QED BY <4>1, <4>2
    <3>2. ASSUME NEW p \in 1..L, wire[p] = Byte(m, i)
          PROVE  \E r \in 1..Len(wire') : wire'[r] = Byte(m, i)
      <4>1. p \in 1..Len(wire') /\ wire'[p] = wire[p]
          BY <1>1 DEF NewTokens
      <4> QED BY <4>1, <3>2
    <3>3. ASSUME m = k.m, k.at < i, i <= k.at + k.n
          PROVE  \E r \in 1..Len(wire') : wire'[r] = Byte(m, i)
      <4> DEFINE x == i - k.at
      <4>1. x \in 1..k.n /\ L + h + x \in 1..Len(wire') /\ k.at + x = i
        <5>1. Len(wire') = L + h + k.n
            BY DEF NewTokens
        <5>2. x \in 1..k.n /\ k.at + x = i
            BY <3>3, <1>1
        <5>3. \A y \in 1..k.n : L + h + y \in 1..(L + h + k.n)
            BY <1>1
        <5> QED BY <5>1, <5>2, <5>3
      <4> HIDE DEF x
      <4>2. wire'[L + h + x] = Byte(k.m, k.at + x)
          BY <4>1 DEF NewTokens
      <4> QED BY <4>1, <4>2, <3>3
    <3> QED BY <3>1, <3>2, <3>3
  <2>2. CASE m \in 1..Len(msgs) /\ m # k.m
    <3>1. sent'[m] = sent[m] /\ ReadOf(s, m)' = ReadOf(s, m)
        BY <2>2, <1>4
    <3> QED BY <3>1, <2>1, <2>2, <1>3
  <2>3. CASE m \in 1..Len(msgs) /\ m = k.m
    <3>1. /\ sent'[m] = k.at + k.n /\ sent[m] = k.at /\ ReadOf(s, m)' = ReadOf(s, m)
          /\ ReadOf(s, m) <= k.at /\ ReadOf(s, m) \in Int
        BY <2>3, <1>4, <1>3
    <3>2. ASSUME NEW i \in Nat
          PROVE  (\E p \in 1..Len(wire') : wire'[p] = Byte(m, i))
                    <=> ReadOf(s, m)' < i /\ i <= sent'[m]
      <4>1. (\E p \in 1..L : wire[p] = Byte(m, i)) <=> ReadOf(s, m) < i /\ i <= k.at
          BY <1>3, <2>3, <3>1
      <4> DEFINE R == ReadOf(s, m)
      <4>2. R \in Int /\ R <= k.at
          BY <3>1
      <4> HIDE DEF R
      <4>3. (R < i /\ i <= k.at) \/ (k.at < i /\ i <= k.at + k.n) <=> R < i /\ i <= k.at + k.n
          BY <4>2, <1>1
      <4> QED BY <4>1, <4>3, <3>1, <2>1, <2>3 DEF R
    <3> QED BY <3>1, <3>2, <1>1
  <2>4. CASE m \notin 1..Len(msgs)
    <3>1. ReadOf(s, m)' = 0 /\ m = k.m /\ k.at = 0 /\ sent'[m] = k.n
        BY <2>4, <1>5, <1>1
    <3>2. \A i \in Nat : ~ \E p \in 1..L : wire[p] = Byte(m, i)
        BY <2>4, <1>3, <3>1, <1>1
    <3>3. ASSUME NEW i \in Nat
          PROVE  (\E p \in 1..Len(wire') : wire'[p] = Byte(m, i)) <=> 0 < i /\ i <= k.n
      <4>1. (\E p \in 1..Len(wire') : wire'[p] = Byte(m, i)) <=>
                m = k.m /\ k.at < i /\ i <= k.at + k.n
          BY <2>1, <3>2
      <4>2. k.at < i /\ i <= k.at + k.n <=> 0 < i /\ i <= k.n
          BY <3>1, <1>1
      <4> QED BY <4>1, <4>2, <3>1
    <3> QED BY <3>1, <3>3, <1>1
  <2> QED BY <2>2, <2>3, <2>4
<1>10. BytesRise'
    BY <1>6 DEF BytesRise
<1>11. BytesRead(s)' /\ BytesThere(s)'
    BY <1>7 DEF BytesRead, BytesThere
<1> QED BY <1>10, <1>11 DEF BytesFlow

-----------------------------------------------------------------------------
(* The peer sends a chunk.                                                 *)

\* The tokens of a chunk: a header, perhaps an extended timestamp, n bytes of
\* message m from place a on.
ChunkTokens(hd, e, m, a, n) == <<Hdr(hd)>> \o e \o Bytes(m, a, n)

\* The elements of a concatenation.
LEMMA ConcatFacts ==
    ASSUME NEW S, NEW a \in Seq(S), NEW b \in Seq(S)
    PROVE  /\ a \o b \in Seq(S)
           /\ Len(a \o b) = Len(a) + Len(b)
           /\ Len(a) \in Nat /\ Len(b) \in Nat
           /\ \A i \in 1..Len(a) : (a \o b)[i] = a[i]
           /\ \A i \in 1..Len(b) : (a \o b)[Len(a) + i] = b[i]
OBVIOUS

\* The elements of a piece of a payload.
LEMMA BytesFacts ==
    ASSUME NEW m \in Nat, NEW a \in Nat, NEW n \in Nat
    PROVE  /\ Bytes(m, a, n) \in Seq(Token)
           /\ Len(Bytes(m, a, n)) = n
           /\ \A i \in 1..n : Bytes(m, a, n)[i] = Byte(m, a + i)
<1>1. \A i \in 1..n : Byte(m, a + i) \in Token
    BY DEF Token
<1> QED BY <1>1 DEF Bytes

IsChunk(t, hd, e, m, a, n) ==
    /\ t \in Seq(Token)
    /\ Len(t) = 1 + Len(e) + n
    /\ t[1] = Hdr(hd)
    /\ \A i \in 1..Len(e) : t[1 + i] = e[i]
    /\ \A i \in 1..n : t[1 + Len(e) + i] = Byte(m, a + i)

\* The tokens that the peer makes of a chunk are a chunk.
LEMMA ChunkTokenFacts ==
    ASSUME NEW hd \in HdrSet, NEW e \in Seq(Token), NEW m \in Nat, NEW a \in Nat, NEW n \in Nat
    PROVE  IsChunk(ChunkTokens(hd, e, m, a, n), hd, e, m, a, n)
<1> DEFINE front == <<Hdr(hd)>> \o e
           back == Bytes(m, a, n)
           h == 1 + Len(e)
<1>1. Hdr(hd) \in Token /\ h \in Nat
    BY DEF Token
<1>2. /\ front \in Seq(Token) /\ Len(front) = h /\ front[1] = Hdr(hd)
      /\ \A i \in 1..Len(e) : front[1 + i] = e[i]
    BY <1>1
<1>3. /\ back \in Seq(Token) /\ Len(back) = n /\ \A i \in 1..n : back[i] = Byte(m, a + i)
    BY BytesFacts
<1>4. 1 \in 1..h /\ \A i \in 1..Len(e) : 1 + i \in 1..h
    OBVIOUS
<1>5. ChunkTokens(hd, e, m, a, n) = front \o back
    BY DEF ChunkTokens
<1> HIDE DEF front, back, h
<1>6. /\ front \o back \in Seq(Token) /\ Len(front \o back) = h + n
      /\ \A i \in 1..h : (front \o back)[i] = front[i]
      /\ \A i \in 1..n : (front \o back)[h + i] = back[i]
  <2>1. /\ front \o back \in Seq(Token) /\ Len(front \o back) = Len(front) + Len(back)
        /\ \A i \in 1..Len(front) : (front \o back)[i] = front[i]
        /\ \A i \in 1..Len(back) : (front \o back)[Len(front) + i] = back[i]
    <3>1. front \in Seq(Token) /\ back \in Seq(Token)
        BY <1>2, <1>3
    <3> QED BY <3>1, ConcatFacts
  <2>2. Len(front) = h /\ Len(back) = n
      BY <1>2, <1>3
  <2> QED BY <2>1, <2>2, Zenon
<1>7. /\ front \o back \in Seq(Token)
      /\ Len(front \o back) = h + n
      /\ (front \o back)[1] = Hdr(hd)
      /\ \A i \in 1..Len(e) : (front \o back)[1 + i] = e[i]
      /\ \A i \in 1..n : (front \o back)[h + i] = Byte(m, a + i)
    BY <1>2, <1>3, <1>4, <1>6, Zenon
<1> QED BY <1>5, <1>7, Zenon DEF h, IsChunk

\* The header that the peer makes is a header, of the format it chose.
LEMMA HeaderFacts ==
    ASSUME NEW m \in Msg, NEW f \in 0..3
    PROVE  /\ Header(f, m.csid, m) \in HdrSet
           /\ Header(f, m.csid, m).csid = m.csid
           /\ Header(f, m.csid, m).fmt = f
BY DEF Header, HdrSet, Msg

\* The extended timestamp of a message.
Extra(m) == IF m.ext THEN <<Ext>> ELSE <<>>

\* The chunk that a step of the peer puts on the wire, and its header's length.
Sends(L, h, k) ==
    /\ k.m \in 1..Len(msgs')
    /\ msgs'[k.m].csid = k.csid
    /\ L = Len(wire)
    /\ h = 1 + Len(Extra(msgs'[k.m]))
    /\ wire' = wire \o ChunkTokens(Header(k.fmt, k.csid, msgs'[k.m]), Extra(msgs'[k.m]),
                                   k.m, k.at, k.n)

\* A chunk that the peer sends is at the end of the wire.
LEMMA SendsTokens ==
    ASSUME PeerTypes', WireTypes, NEW L \in Nat, NEW h \in {1, 2}, NEW k \in Chunk,
           Sends(L, h, k)
    PROVE  /\ wire' \in Seq(Token)
           /\ NewTokens(L, h, k)
           /\ TokensAt(L, k)'
           /\ HLen(k)' = h
<1>1. k.n \in Nat /\ k.m \in Nat /\ k.at \in Nat /\ k.fmt \in 0..3
    BY ChunkFacts
<1> DEFINE mm == msgs'[k.m]
           hx == Header(k.fmt, k.csid, msgs'[k.m])
           ex == Extra(mm)
           tk == ChunkTokens(hx, ex, k.m, k.at, k.n)
<1>2. mm \in Msg
    BY DEF Sends, PeerTypes
<1>3. mm.ext \in BOOLEAN /\ mm.csid = k.csid
    BY <1>2 DEF Sends, Msg
<1>4. hx \in HdrSet
    BY <1>1, <1>2, <1>3, HeaderFacts
<1>5. wire' = wire \o tk /\ wire \in Seq(Token) /\ Len(wire) = L /\ h = 1 + Len(ex)
    BY DEF Sends, WireTypes
<1>6. /\ ex \in Seq(Token) /\ Len(ex) \in Nat /\ HLen(k)' = 1 + Len(ex)
      /\ h = 2 => 1 \in 1..Len(ex) /\ ex[1] = Ext
  <2>1. Ext \in Token
      BY DEF Token
  <2>2. CASE mm.ext
    <3>1. ex = <<Ext>> /\ HLen(k)' = 2
        BY <2>2 DEF HLen, Extra
    <3> QED BY <3>1, <2>1
  <2>3. CASE ~mm.ext
    <3>1. ex = <<>> /\ HLen(k)' = 1
        BY <2>3 DEF HLen, Extra
    <3> QED BY <3>1, <1>5
  <2> QED BY <2>2, <2>3
<1> HIDE DEF mm, hx, ex
<1>7. /\ tk \in Seq(Token) /\ Len(tk) = h + k.n /\ tk[1] = Hdr(hx)
      /\ h = 2 => tk[2] = Ext
      /\ \A i \in 1..k.n : tk[h + i] = Byte(k.m, k.at + i)
  <2>1. /\ tk \in Seq(Token) /\ Len(tk) = 1 + Len(ex) + k.n /\ tk[1] = Hdr(hx)
        /\ \A i \in 1..Len(ex) : tk[1 + i] = ex[i]
        /\ \A i \in 1..k.n : tk[1 + Len(ex) + i] = Byte(k.m, k.at + i)
    <3>1. hx \in HdrSet /\ ex \in Seq(Token) /\ k.m \in Nat /\ k.at \in Nat /\ k.n \in Nat
        BY <1>1, <1>4, <1>6
    <3>2. IsChunk(tk, hx, ex, k.m, k.at, k.n)
        BY <3>1, ChunkTokenFacts
    <3> QED BY <3>2 DEF IsChunk
  <2> HIDE DEF tk
  <2>2. h = 2 => tk[1 + 1] = Ext
      BY <2>1, <1>6, Zenon
  <2>3. Len(tk) = h + k.n /\ \A i \in 1..k.n : tk[h + i] = Byte(k.m, k.at + i)
      BY <2>1, <1>5, Zenon
  <2> QED BY <2>1, <2>2, <2>3
<1> HIDE DEF tk
<1>8. /\ wire' \in Seq(Token) /\ Len(wire') = L + (h + k.n)
      /\ \A i \in 1..L : wire'[i] = wire[i]
      /\ \A i \in 1..(h + k.n) : wire'[L + i] = tk[i]
  <2>1. /\ wire \o tk \in Seq(Token) /\ Len(wire \o tk) = Len(wire) + Len(tk)
        /\ \A i \in 1..Len(wire) : (wire \o tk)[i] = wire[i]
        /\ \A i \in 1..Len(tk) : (wire \o tk)[Len(wire) + i] = tk[i]
    <3>1. wire \in Seq(Token) /\ tk \in Seq(Token)
        BY <1>5, <1>7
    <3> QED BY <3>1, ConcatFacts
  <2>2. Len(wire) = L /\ Len(tk) = h + k.n /\ wire' = wire \o tk
      BY <1>5, <1>7
  <2> QED BY <2>1, <2>2, Zenon
<1>9. wire'[L + 1] = Hdr(hx) /\ (h = 2 => wire'[L + 2] = Ext)
  <2>1. 1 \in 1..(h + k.n) /\ (h = 2 => 2 \in 1..(h + k.n))
      BY <1>1
  <2> QED BY <2>1, <1>7, <1>8
<1>10. \A i \in 1..k.n : wire'[L + h + i] = Byte(k.m, k.at + i)
  <2> SUFFICES ASSUME NEW i \in 1..k.n PROVE wire'[L + h + i] = Byte(k.m, k.at + i)
      OBVIOUS
  <2>1. h + i \in 1..(h + k.n) /\ L + (h + i) = L + h + i
      BY <1>1
  <2> QED BY <2>1, <1>7, <1>8
<1>11. \A i \in 1..h, m, j \in Nat : wire'[L + i] # Byte(m, j)
  <2>1. \A i \in 1..h : i = 1 \/ (i = 2 /\ h = 2)
      OBVIOUS
  <2> QED BY <2>1, <1>9, TokenFacts
<1>12. NewTokens(L, h, k)
  <2>1. Len(wire') = L + h + k.n
      BY <1>1, <1>8
  <2> QED BY <1>5, <2>1, <1>8, <1>10, <1>11 DEF NewTokens
<1>13. TokensAt(L, k)'
    BY <1>5, <1>6, <1>9, <1>10 DEF TokensAt, hx
<1> QED BY <1>5, <1>6, <1>8, <1>12, <1>13

\* The peer counts the bytes of chunk k.
Counts(k) ==
    /\ \A m \in 1..Len(msgs') : m \in 1..Len(msgs) \/ m = k.m
    /\ \A m \in 1..Len(msgs) : m # k.m => sent'[m] = sent[m]
    /\ sent'[k.m] = k.at + k.n
    /\ k.m \in 1..Len(msgs) => sent[k.m] = k.at
    /\ k.m \notin 1..Len(msgs) => k.at = 0

\* What is left to show of a step that sends chunk k and leaves the peer in state t.
LEMMA PeerStep ==
    ASSUME AllTypes, BuildersOk, HeadersOk, Grows, ~eof, eof' = eof, UNCHANGED readerVars,
           PeerTypes', Len(wire') <= MaxWire,
           NEW f \in [1..Len(chunks) -> 1..Len(msgs)], Sound(f),
           NEW n \in Nat, NEW st \in [1..(n + 1) -> State], NEW q \in [1..n -> Chunk],
           NEW pos \in [1..(n + 1) -> Nat], At(f, n, st, q, pos),
           NEW L \in Nat, NEW h \in {1, 2}, NEW k \in Chunk, NEW t \in State, Sends(L, h, k),
           Leads(st[n + 1], k, t)', StateOk(t)', PeerAt(t)',
           Counts(k)
    PROVE  IInv'
<1>1. /\ wire' \in Seq(Token) /\ NewTokens(L, h, k) /\ TokensAt(L, k)' /\ HLen(k)' = h
    BY SendsTokens DEF AllTypes
<1>2. /\ rpc' = rpc /\ need' = need /\ cur' = cur /\ last' = last /\ headers' = headers
      /\ builders' = builders /\ readSize' = readSize /\ chunks' = chunks
    BY DEF readerVars, normVars
<1>3. AllTypes'
    BY <1>1, <1>2 DEF AllTypes, WireTypes, ReaderTypes, Flags
<1>4. BuildersOk' /\ HeadersOk'
    BY <1>2, BuildersGrow DEF HeadersOk
<1>5. chunks \in Seq(Builder) /\ need \in Nat
    BY DEF AllTypes, ReaderTypes
<1>6. Sound(f)' /\ f \in [1..Len(chunks') -> 1..Len(msgs')]
    BY <1>2, <1>5, SoundGrows DEF AllTypes
<1>7. k.n \in Nat /\ k.m \in 1..Len(msgs') /\ 1 \in 1..(n + 1)
    BY ChunkFacts DEF Sends
<1>8. /\ pos[1] = IF rpc = "payload" THEN need ELSE 0
      /\ Row(n, st, q, pos) /\ PeerAt(st[n + 1]) /\ ReaderAt(st[1]) /\ BytesFlow(st[1])
      /\ UpTo(f, st[1])
    BY DEF At
<1>9. st[1] \in State /\ StateOk(st[1]) /\ pos[1] \in Nat /\ pos[n + 1] \in Nat
    BY <1>7, <1>8 DEF Row, States
<1>10. pos[1] <= Len(wire)
  <2>1. n + 1 \in 1..(n + 1) /\ 1 <= n + 1
      OBVIOUS
  <2>2. pos[1] <= pos[n + 1]
      BY <1>7, <1>8, <2>1 DEF Row, Rising
  <2> QED BY <2>2, <1>8 DEF Row, WireEnds
<1> DEFINE w == L + h + k.n
<1>11. L = Len(wire) /\ Len(wire') = w /\ w \in Nat /\ L <= w
       /\ \A i \in 1..L : wire'[i] = wire[i]
  <2>1. L = Len(wire) /\ Len(wire') = w
      BY <1>1, Zenon DEF NewTokens
  <2>2. \A i \in 1..L : wire'[i] = wire[i]
      BY <1>1, Zenon DEF NewTokens
  <2>3. w \in Nat /\ L <= w
      BY <1>7
  <2> QED BY <2>1, <2>2, <2>3, Zenon
<1> HIDE DEF w
<1>12. ReaderAt(st[1])'
    BY <1>5, <1>8, <1>9, <1>10, <1>11, ReaderGrows DEF AllTypes
<1>13. BytesFlow(st[1])'
    BY <1>1, <1>5, <1>7, <1>8, <1>9, BytesGrow DEF AllTypes, Counts
<1>14. UpTo(f, st[1])'
    BY <1>3, <1>5, <1>8, <1>9, UpToGrows DEF AllTypes
<1> DEFINE st2 == Put(st, n + 1, t)
           q2 == Put(q, n, k)
           pos2 == Put(pos, n + 1, w)
<1>15. Row(n + 1, st2, q2, pos2)'
  <2>1. HLen(k)' \in {1, 2} /\ w = L + HLen(k)' + k.n /\ ~eof'
      BY <1>1 DEF w
  <2>2. PeerTypes /\ WireTypes
      BY DEF AllTypes
  <2> QED BY <1>1, <1>8, <1>11, <2>1, <2>2, RowGrows
<1>16. /\ st2 \in [1..((n + 1) + 1) -> State] /\ q2 \in [1..(n + 1) -> Chunk]
       /\ pos2 \in [1..((n + 1) + 1) -> Nat]
       /\ st2[1] = st[1] /\ pos2[1] = pos[1] /\ st2[(n + 1) + 1] = t
    BY <1>7, <1>11 DEF Put
<1> HIDE DEF st2, q2, pos2
<1>17. At(f, n + 1, st2, q2, pos2)'
    BY <1>2, <1>8, <1>12, <1>13, <1>14, <1>15, <1>16 DEF At
<1>18. Tracked(f)'
  <2>1. n + 1 \in Nat
      OBVIOUS
  <2> QED BY <1>16, <1>17, <2>1 DEF Tracked
<1> QED BY <1>3, <1>4, <1>6, <1>18 DEF IInv

\* The smaller of two numbers.
LEMMA MinFacts ==
    ASSUME NEW a \in Nat, NEW b \in Nat
    PROVE  Min(a, b) \in Nat /\ Min(a, b) <= a /\ Min(a, b) <= b
BY DEF Min

\* A message that the peer starts on chunk stream c with a header of format f.
Starts(c, f, m) == m.csid = c /\ MsgOk(m) /\ (f # 0 => m.type # SetChunkSize)

\* The first chunk of a message is one more chunk of the row (Start).
LEMMA StartStep ==
    ASSUME ~ExtLong, 2 \notin Formats, IInv, NEW c \in Csids, NEW f \in 0..3, NEW m \in Msg,
           Starts(c, f, m), Start(c, f, m)
    PROVE  IInv'
<1>0. m.csid = c /\ MsgOk(m) /\ (f # 0 => m.type # SetChunkSize)
    BY DEF Starts
<1> DEFINE K == Len(msgs) + 1
           len == Min(m.len, peerSize)
           tokens == <<Hdr(Header(f, c, m))>> \o (IF m.ext THEN <<Ext>> ELSE <<>>)
                       \o Bytes(K, 0, len)
<1>1. /\ ~eof /\ pend[c] = 0 /\ Len(msgs) < MaxMsgs /\ f \in Formats /\ Fits(f, c, m)
      /\ m.sure = Sure(f, c, m)
      /\ (m.ext /\ len < m.len => ExtLong)
      /\ Len(wire) + Len(tokens) <= MaxWire
      /\ msgs' = Append(msgs, m)
      /\ sent' = Append(sent, len)
      /\ pend' = [pend EXCEPT ![c] = IF len < m.len THEN K ELSE 0]
      /\ peerHdr' = [peerHdr EXCEPT ![c] = K]
      /\ peerLast' = c
      /\ peerSize' = SizeAfter(K, len = m.len)
      /\ wire' = wire \o tokens
      /\ eof' = eof /\ UNCHANGED readerVars
    BY DEF Start
<1>2. AllTypes /\ BuildersOk /\ HeadersOk
    BY DEF IInv
<1>3. /\ msgs \in Seq(Msg) /\ sent \in Seq(Nat) /\ Len(sent) = Len(msgs) /\ Len(msgs) \in Nat
      /\ pend \in [Csids -> 0..Len(msgs)] /\ peerHdr \in [Csids -> 0..Len(msgs)]
      /\ peerLast \in Csids \cup {0} /\ peerSize \in Sizes /\ peerSize \in Nat
      /\ \A i \in 1..Len(msgs) : MsgOk(msgs[i])
      /\ PeerTypes
    BY <1>2, Numbers DEF AllTypes, PeerTypes
<1>4. K \in Nat /\ K # 0 /\ len \in Nat /\ len <= m.len /\ m.len \in Nat
  <2>1. m.len \in Nat
      BY DEF Msg
  <2>2. len \in Nat /\ len <= m.len
      BY <2>1, <1>3, MinFacts
  <2>3. K \in Nat /\ K # 0
      BY <1>3
  <2> QED BY <2>1, <2>2, <2>3
<1>5. /\ Len(msgs') = K /\ msgs' \in Seq(Msg) /\ msgs'[K] = m
      /\ \A i \in 1..Len(msgs) : msgs'[i] = msgs[i]
    BY <1>1, <1>3
<1>6. /\ Len(sent') = K /\ sent' \in Seq(Nat) /\ sent'[K] = len
      /\ \A i \in 1..Len(msgs) : sent'[i] = sent[i]
    BY <1>1, <1>3, <1>4
<1>7. \A i \in 1..K : i \in 1..Len(msgs) \/ i = K
    BY <1>3
<1>8. Grows
    BY <1>3, <1>4, <1>5 DEF Grows
<1>9. /\ peerSize' = (IF m.type = SetChunkSize /\ len = m.len THEN m.size ELSE peerSize)
      /\ peerSize' \in Sizes
  <2>1. peerSize' = (IF m.type = SetChunkSize /\ len = m.len THEN m.size ELSE peerSize)
      BY <1>1, <1>5 DEF SizeAfter
  <2> QED BY <2>1, <1>0, <1>3 DEF MsgOk
<1>10. PeerTypes'
  <2>1. \A i \in 1..Len(msgs') : MsgOk(msgs'[i])
      BY <1>0, <1>3, <1>5, <1>7
  <2>2. /\ pend' \in [Csids -> 0..K] /\ peerHdr' \in [Csids -> 0..K]
      BY <1>1, <1>3
  <2>3. K <= MaxMsgs
      BY <1>1, <1>3, ReaderAssumption
  <2> QED BY <1>1, <1>5, <1>6, <1>9, <2>1, <2>2, <2>3 DEF PeerTypes, MsgOk
<1>11. Live
    BY <1>1 DEF Live
<1>12. PICK g \in [1..Len(chunks) -> 1..Len(msgs)] : Sound(g) /\ Tracked(g)
    BY <1>11 DEF IInv
<1>a. PICK n \in Nat : \E st \in [1..(n + 1) -> State], q \in [1..n -> Chunk],
                            pos \in [1..(n + 1) -> Nat] : At(g, n, st, q, pos)
    BY <1>12 DEF Tracked
<1>13. PICK st \in [1..(n + 1) -> State], q \in [1..n -> Chunk],
            pos \in [1..(n + 1) -> Nat] : At(g, n, st, q, pos)
    BY <1>a
<1>14. st[n + 1] \in State /\ StateOk(st[n + 1]) /\ PeerAt(st[n + 1])
  <2>1. n + 1 \in 1..(n + 1)
      OBVIOUS
  <2> QED BY <1>13, <2>1 DEF At, Row, States
<1>b. PICK s \in State : s = st[n + 1]
    BY <1>14
<1>15. /\ s.hd = peerHdr /\ s.last = peerLast /\ s.size = peerSize
       /\ s.rd \in [Csids -> Nat]
    BY <1>14, <1>b, StateFacts DEF PeerAt
<1>16. \A d \in Csids :
          /\ \A i \in 1..Len(msgs) : msgs[i].csid = d => i <= peerHdr[d]
          /\ peerHdr[d] # 0 => sent[peerHdr[d]] = s.rd[d]
          /\ pend[d] = IF peerHdr[d] # 0 /\ s.rd[d] < msgs[peerHdr[d]].len
                       THEN peerHdr[d] ELSE 0
    BY <1>14, <1>15, <1>b DEF PeerAt
<1>17. \A d \in Csids : peerHdr[d] # 0 =>
          /\ peerHdr[d] \in 1..Len(msgs)
          /\ msgs[peerHdr[d]].csid = d
          /\ s.rd[d] <= msgs[peerHdr[d]].len
          /\ s.rd[d] < msgs[peerHdr[d]].len => ~msgs[peerHdr[d]].ext
          /\ peerLast # 0 /\ peerHdr[peerLast] # 0
          /\ msgs[peerHdr[d]].len \in Nat
  <2>1. \A d \in Csids : peerHdr[d] # 0 => peerHdr[d] \in 1..Len(msgs)
      BY <1>3
  <2>2. \A i \in 1..Len(msgs) : msgs[i].len \in Nat
      BY <1>3, MsgFacts
  <2> QED BY <2>1, <2>2, <1>14, <1>15, <1>b DEF StateOk
<1>18. PICK z \in Sizes : z = peerSize'
    BY <1>9
<1> HIDE DEF K, len
<1>19. PICK k \in Chunk : k.csid = c /\ k.fmt = f /\ k.m = K /\ k.at = 0 /\ k.n = len
  <2>1. [csid |-> c, fmt |-> f, m |-> K, at |-> 0, n |-> len] \in Chunk
      BY <1>4 DEF Chunk
  <2> QED BY <2>1
<1>c. peerHdr \in [Csids -> Nat]
    BY <1>3
<1>20. PICK t \in State :
          /\ t.hd = [peerHdr EXCEPT ![c] = K] /\ t.rd = [s.rd EXCEPT ![c] = 0 + len]
          /\ t.last = c /\ t.size = z
  <2>1. [peerHdr EXCEPT ![c] = K] \in [Csids -> Nat] /\ [s.rd EXCEPT ![c] = 0 + len] \in [Csids -> Nat]
      BY <1>4, <1>15, <1>c
  <2>2. [hd |-> [peerHdr EXCEPT ![c] = K], rd |-> [s.rd EXCEPT ![c] = 0 + len],
         last |-> c, size |-> z] \in State
      BY <2>1 DEF State
  <2> QED BY <2>2
<1>21. \A d \in Csids : /\ t.hd[d] = IF d = c THEN K ELSE peerHdr[d]
                        /\ t.rd[d] = IF d = c THEN len ELSE s.rd[d]
                        /\ peerHdr'[d] = t.hd[d]
                        /\ pend'[d] = IF d # c THEN pend[d] ELSE IF len < m.len THEN K ELSE 0
  <2> SUFFICES ASSUME NEW d \in Csids
               PROVE  /\ t.hd[d] = IF d = c THEN K ELSE peerHdr[d]
                      /\ t.rd[d] = IF d = c THEN len ELSE s.rd[d]
                      /\ peerHdr'[d] = t.hd[d]
                      /\ pend'[d] = IF d # c THEN pend[d] ELSE IF len < m.len THEN K ELSE 0
      OBVIOUS
  <2>1. t.hd[d] = IF d = c THEN K ELSE peerHdr[d]
      BY <1>20, <1>c
  <2>2. t.rd[d] = IF d = c THEN 0 + len ELSE s.rd[d]
      BY <1>20, <1>15
  <2>3. 0 + len = len
      BY <1>4
  <2>4. peerHdr'[d] = t.hd[d]
      BY <1>1, <1>20
  <2>5. pend'[d] = IF d # c THEN pend[d] ELSE IF len < m.len THEN K ELSE 0
      BY <1>1, <1>3
  <2> QED BY <2>1, <2>2, <2>3, <2>4, <2>5
<1>22. Begins(s, k)'
  <2>1. /\ k.at = 0 /\ s.hd[k.csid] < k.m
      BY <1>3, <1>15, <1>19 DEF K
  <2>2. \A i \in 1..Len(msgs') : s.hd[k.csid] < i /\ i < k.m => msgs'[i].csid # k.csid
    <3> SUFFICES ASSUME NEW i \in 1..Len(msgs'), s.hd[k.csid] < i, i < k.m
                 PROVE  msgs'[i].csid # k.csid
        OBVIOUS
    <3>1. i \in 1..Len(msgs)
        BY <1>3, <1>5, <1>7, <1>19
    <3>2. ~(i <= peerHdr[c])
        BY <3>1, <1>3, <1>15, <1>19
    <3> QED BY <3>1, <3>2, <1>5, <1>16, <1>19
  <2>3. s.hd[k.csid] # 0 => s.rd[k.csid] = msgs'[s.hd[k.csid]].len
    <3> SUFFICES ASSUME peerHdr[c] # 0 PROVE s.rd[c] = msgs[peerHdr[c]].len
        BY <1>5, <1>15, <1>17, <1>19
    <3>1. ~(s.rd[c] < msgs[peerHdr[c]].len) /\ s.rd[c] <= msgs[peerHdr[c]].len
        BY <1>1, <1>16, <1>17
    <3>2. s.rd[c] \in Nat /\ msgs[peerHdr[c]].len \in Nat
        BY <1>15, <1>17
    <3> QED BY <3>1, <3>2
  <2>4. k.fmt # 0 => msgs'[k.m].type # SetChunkSize
      BY <1>0, <1>5, <1>19
  <2>5. f # 0 => peerHdr[c] # 0
      BY <1>1 DEF Fits
  <2>6. /\ f # 2
        /\ f = 1 /\ m.sure => /\ msgs[peerHdr[peerLast]].sure
                              /\ m.msid = msgs[peerHdr[peerLast]].msid
    <3>1. f # 2
        BY <1>1
    <3>2. ASSUME f = 1, m.sure PROVE /\ msgs[peerHdr[peerLast]].sure
                                    /\ m.msid = msgs[peerHdr[peerLast]].msid
      <4>1. m.sure = Sure(f, c, m)
          BY <1>1, Zenon
      <4>2. Sure(f, c, m)
          BY <3>2, <4>1, Zenon
      <4>3. f # 0 /\ f # 3
          BY <3>2
      <4> QED BY <4>2, <4>3, Zenon DEF Sure
    <3> QED BY <3>1, <3>2
  <2>7. f # 0 => peerLast # 0 /\ msgs'[peerHdr[peerLast]] = msgs[peerHdr[peerLast]]
                 /\ msgs'[peerHdr[c]] = msgs[peerHdr[c]]
      BY <1>3, <1>5, <1>17, <2>5
  <2>8. /\ k.fmt # 2
        /\ k.fmt = 1 => /\ s.last # 0
                        /\ msgs'[k.m].sure => /\ msgs'[s.hd[s.last]].sure
                                              /\ msgs'[k.m].msid = msgs'[s.hd[s.last]].msid
    <3>1. k.fmt = f /\ msgs'[k.m] = m /\ s.last = peerLast /\ s.hd[s.last] = peerHdr[peerLast]
        BY <1>5, <1>15, <1>19
    <3> QED BY <3>1, <2>6, <2>7
  <2>9. f = 3 => m = msgs[peerHdr[c]]
      BY <1>1 DEF Fits
  <2>10. k.fmt = 3 => s.hd[k.csid] # 0 /\ msgs'[k.m] = msgs'[s.hd[k.csid]]
      BY <1>5, <1>15, <1>19, <2>5, <2>7, <2>9
  <2> QED BY <2>1, <2>2, <2>3, <2>4, <2>8, <2>10 DEF Begins
<1>23. Leads(s, k, t)'
  <2>1. k.fmt = 3 => ~msgs'[k.m].ext
      BY <1>1, <1>5, <1>19 DEF Fits
  <2>2. k.n = Min(msgs'[k.m].len - k.at, s.size)
    <3>1. m.len - 0 = m.len
        BY <1>4
    <3> QED BY <3>1, <1>5, <1>15, <1>19 DEF len
  <2>3. k.m \in 1..Len(msgs') /\ msgs'[k.m].csid = k.csid
      BY <1>0, <1>4, <1>5, <1>19
  <2>4. /\ t.hd = [s.hd EXCEPT ![k.csid] = k.m]
        /\ t.rd = [s.rd EXCEPT ![k.csid] = k.at + k.n]
        /\ t.last = k.csid
      BY <1>15, <1>19, <1>20
  <2>5. t.size = (IF msgs'[k.m].type = SetChunkSize /\ k.at + k.n = msgs'[k.m].len
                  THEN msgs'[k.m].size ELSE s.size)
    <3>1. 0 + len = len
        BY <1>4
    <3> QED BY <3>1, <1>5, <1>9, <1>15, <1>18, <1>19, <1>20
  <2> QED BY <1>22, <2>1, <2>2, <2>3, <2>4, <2>5 DEF Leads, SizeThen
<1>24. StateOk(t)'
  <2>1. ASSUME NEW d \in Csids, t.hd[d] # 0
        PROVE  /\ t.hd[d] \in 1..Len(msgs')
               /\ msgs'[t.hd[d]].csid = d
               /\ t.rd[d] <= msgs'[t.hd[d]].len
               /\ t.rd[d] < msgs'[t.hd[d]].len => ~msgs'[t.hd[d]].ext
               /\ t.last # 0
    <3>1. CASE d = c
      <4>1. t.hd[d] = K /\ t.rd[d] = len /\ t.last = c /\ c # 0
          BY <3>1, <1>20, <1>21, Numbers
      <4>2. K \in 1..Len(msgs') /\ msgs'[K] = m /\ m.csid = d
          BY <3>1, <1>0, <1>4, <1>5
      <4>3. len <= m.len /\ (len < m.len => ~m.ext)
          BY <1>1, <1>4
      <4> QED BY <4>1, <4>2, <4>3
    <3>2. CASE d # c
      <4>1. t.hd[d] = peerHdr[d] /\ t.rd[d] = s.rd[d] /\ t.last # 0
          BY <3>2, <1>20, <1>21, Numbers
      <4>2. peerHdr[d] \in 1..Len(msgs) /\ peerHdr[d] \in 1..Len(msgs')
        <5>1. peerHdr[d] \in 1..Len(msgs)
            BY <4>1, <2>1, <1>17
        <5>2. Len(msgs) \in Nat /\ Len(msgs') = Len(msgs) + 1
            BY <1>3, <1>5 DEF K
        <5> QED BY <5>1, <5>2
      <4>3. msgs'[peerHdr[d]] = msgs[peerHdr[d]]
          BY <4>2, <1>5
      <4>4. /\ msgs[peerHdr[d]].csid = d
            /\ s.rd[d] <= msgs[peerHdr[d]].len
            /\ s.rd[d] < msgs[peerHdr[d]].len => ~msgs[peerHdr[d]].ext
          BY <4>1, <2>1, <1>17
      <4> QED BY <4>1, <4>2, <4>3, <4>4
    <3> QED BY <3>1, <3>2
  <2>2. t.last # 0 => t.hd[t.last] # 0
      BY <1>4, <1>20, <1>21
  <2> QED BY <2>1, <2>2 DEF StateOk
<1>25. PeerAt(t)'
  <2>1. t.hd = peerHdr' /\ t.last = peerLast' /\ t.size = peerSize'
      BY <1>1, <1>18, <1>20
  <2>2. ASSUME NEW d \in Csids
        PROVE  /\ \A i \in 1..Len(msgs') : msgs'[i].csid = d => i <= peerHdr'[d]
               /\ peerHdr'[d] # 0 => sent'[peerHdr'[d]] = t.rd[d]
               /\ pend'[d] = IF peerHdr'[d] # 0 /\ t.rd[d] < msgs'[peerHdr'[d]].len
                             THEN peerHdr'[d] ELSE 0
    <3>1. CASE d = c
      <4>1. peerHdr'[d] = K /\ t.rd[d] = len /\ pend'[d] = IF len < m.len THEN K ELSE 0
          BY <3>1, <1>21
      <4>2. \A i \in 1..Len(msgs') : i <= K
          BY <1>4, <1>5
      <4> QED BY <4>1, <4>2, <1>4, <1>5, <1>6
    <3>2. CASE d # c
      <4>1. peerHdr'[d] = peerHdr[d] /\ t.rd[d] = s.rd[d] /\ pend'[d] = pend[d]
          BY <3>2, <1>21
      <4>2. peerHdr[d] # 0 => /\ peerHdr[d] \in 1..Len(msgs)
                              /\ msgs'[peerHdr[d]] = msgs[peerHdr[d]]
                              /\ sent'[peerHdr[d]] = sent[peerHdr[d]]
          BY <1>5, <1>6, <1>17
      <4>3. ASSUME NEW i \in 1..Len(msgs'), msgs'[i].csid = d
            PROVE  i \in 1..Len(msgs) /\ msgs'[i] = msgs[i]
        <5>1. i # K
            BY <3>2, <4>3, <1>0, <1>5
        <5> QED BY <5>1, <1>5, <1>7
      <4> QED BY <4>1, <4>2, <4>3, <1>16
    <3> QED BY <3>1, <3>2
  <2> QED BY <2>1, <2>2 DEF PeerAt
<1>26. PICK h \in {1, 2} : h = 1 + Len(Extra(m))
  <2>1. 1 + Len(Extra(m)) \in {1, 2}
      BY DEF Extra
  <2> QED BY <2>1
<1>27. tokens = ChunkTokens(Header(k.fmt, k.csid, msgs'[k.m]), Extra(msgs'[k.m]), k.m, k.at, k.n)
    BY <1>5, <1>19 DEF ChunkTokens, Extra
<1>28. PICK L \in Nat : L = Len(wire)
    BY <1>2 DEF AllTypes, WireTypes
<1>29. Sends(L, h, k)
  <2>1. k.m \in 1..Len(msgs') /\ msgs'[k.m] = m /\ msgs'[k.m].csid = k.csid
      BY <1>0, <1>4, <1>5, <1>19
  <2> HIDE DEF tokens
  <2> QED BY <2>1, <1>1, <1>26, <1>27, <1>28 DEF Sends
<1>30. Len(wire') <= MaxWire
  <2>1. wire \in Seq(Token) /\ tokens \in Seq(Token)
    <3>1. Header(k.fmt, k.csid, msgs'[k.m]) \in HdrSet
        BY <1>0, <1>5, <1>19, HeaderFacts
    <3>2. Extra(msgs'[k.m]) \in Seq(Token)
      <4>1. Ext \in Token
          BY DEF Token
      <4> QED BY <4>1 DEF Extra
    <3>3. IsChunk(tokens, Header(k.fmt, k.csid, msgs'[k.m]), Extra(msgs'[k.m]), k.m, k.at, k.n)
      <4>1. k.m \in Nat /\ k.at \in Nat /\ k.n \in Nat
          BY <1>4, <1>19
      <4> HIDE DEF tokens
      <4> QED BY <3>1, <3>2, <4>1, <1>27, ChunkTokenFacts
    <3> HIDE DEF tokens
    <3> QED BY <3>3, <1>2 DEF IsChunk, AllTypes, WireTypes
  <2> HIDE DEF tokens
  <2>2. Len(wire \o tokens) = Len(wire) + Len(tokens)
      BY <2>1, ConcatFacts
  <2>3. Len(wire) + Len(tokens) <= MaxWire /\ wire' = wire \o tokens
      BY <1>1
  <2> QED BY <2>2, <2>3
<1>31. Counts(k)
  <2>1. k.m = K /\ k.at = 0 /\ k.n = len
      BY <1>19
  <2>2. K \notin 1..Len(msgs)
      BY <1>3 DEF K
  <2>3. \A i \in 1..Len(msgs') : i \in 1..Len(msgs) \/ i = K
      BY <1>5, <1>7
  <2>4. sent'[K] = len /\ \A i \in 1..Len(msgs) : sent'[i] = sent[i]
      BY <1>6
  <2>5. 0 + len = len
      BY <1>4
  <2> HIDE DEF K, len
  <2> QED BY <2>1, <2>2, <2>3, <2>4, <2>5 DEF Counts
<1> HIDE DEF tokens
<1>32. Leads(st[n + 1], k, t)'
    BY <1>23, <1>b
<1>33. ~eof /\ eof' = eof /\ UNCHANGED readerVars
    BY <1>1
<1> QED BY <1>2, <1>8, <1>10, <1>12, <1>13, <1>24, <1>25, <1>29, <1>30, <1>31,
           <1>32, <1>33, PeerStep

\* A further chunk of a message is one more chunk of the row (Continue).
LEMMA ContinueStep ==
    ASSUME IInv, NEW c \in Csids, Continue(c)
    PROVE  IInv'
<1> DEFINE K == pend[c]
           m == msgs[K]
           from == sent[K]
           len == Min(m.len - from, peerSize)
           tokens == <<Hdr(Header(3, c, m))>> \o (IF m.ext THEN <<Ext>> ELSE <<>>)
                       \o Bytes(K, from, len)
<1>1. /\ ~eof /\ K # 0
      /\ Len(wire) + Len(tokens) <= MaxWire
      /\ sent' = [sent EXCEPT ![K] = @ + len]
      /\ pend' = [pend EXCEPT ![c] = IF from + len < m.len THEN K ELSE 0]
      /\ peerLast' = c
      /\ msgs' = msgs /\ peerHdr' = peerHdr
      /\ peerSize' = SizeAfter(K, from + len = m.len)
      /\ wire' = wire \o tokens
      /\ eof' = eof /\ UNCHANGED readerVars
    BY DEF Continue
<1>2. AllTypes /\ BuildersOk /\ HeadersOk
    BY DEF IInv
<1>3. /\ msgs \in Seq(Msg) /\ sent \in Seq(Nat) /\ Len(sent) = Len(msgs) /\ Len(msgs) \in Nat
      /\ pend \in [Csids -> 0..Len(msgs)] /\ peerHdr \in [Csids -> 0..Len(msgs)]
      /\ peerLast \in Csids \cup {0} /\ peerSize \in Sizes /\ peerSize \in Nat
      /\ \A i \in 1..Len(msgs) : MsgOk(msgs[i])
      /\ PeerTypes
    BY <1>2, Numbers DEF AllTypes, PeerTypes
<1>11. Live
    BY <1>1 DEF Live
<1>12. PICK g \in [1..Len(chunks) -> 1..Len(msgs)] : Sound(g) /\ Tracked(g)
    BY <1>11 DEF IInv
<1>a. PICK n \in Nat : \E st \in [1..(n + 1) -> State], q \in [1..n -> Chunk],
                            pos \in [1..(n + 1) -> Nat] : At(g, n, st, q, pos)
    BY <1>12 DEF Tracked
<1>13. PICK st \in [1..(n + 1) -> State], q \in [1..n -> Chunk],
            pos \in [1..(n + 1) -> Nat] : At(g, n, st, q, pos)
    BY <1>a
<1>14. st[n + 1] \in State /\ StateOk(st[n + 1]) /\ PeerAt(st[n + 1])
  <2>1. n + 1 \in 1..(n + 1)
      OBVIOUS
  <2> QED BY <1>13, <2>1 DEF At, Row, States
<1>b. PICK s \in State : s = st[n + 1]
    BY <1>14
<1>15. /\ s.hd = peerHdr /\ s.last = peerLast /\ s.size = peerSize
       /\ s.rd \in [Csids -> Nat]
    BY <1>14, <1>b, StateFacts DEF PeerAt
<1>16. \A d \in Csids :
          /\ \A i \in 1..Len(msgs) : msgs[i].csid = d => i <= peerHdr[d]
          /\ peerHdr[d] # 0 => sent[peerHdr[d]] = s.rd[d]
          /\ pend[d] = IF peerHdr[d] # 0 /\ s.rd[d] < msgs[peerHdr[d]].len
                       THEN peerHdr[d] ELSE 0
    BY <1>14, <1>15, <1>b DEF PeerAt
<1>17. \A d \in Csids : peerHdr[d] # 0 =>
          /\ peerHdr[d] \in 1..Len(msgs)
          /\ msgs[peerHdr[d]].csid = d
          /\ s.rd[d] <= msgs[peerHdr[d]].len
          /\ s.rd[d] < msgs[peerHdr[d]].len => ~msgs[peerHdr[d]].ext
          /\ msgs[peerHdr[d]].len \in Nat
  <2>1. \A d \in Csids : peerHdr[d] # 0 => peerHdr[d] \in 1..Len(msgs)
      BY <1>3
  <2>2. \A i \in 1..Len(msgs) : msgs[i].len \in Nat
      BY <1>3, MsgFacts
  <2> QED BY <2>1, <2>2, <1>14, <1>15, <1>b DEF StateOk
<1>4. /\ K = peerHdr[c] /\ K \in 1..Len(msgs) /\ K \in Nat /\ m \in Msg /\ m.csid = c
      /\ from = s.rd[c] /\ from < m.len /\ ~m.ext /\ from \in Nat /\ m.len \in Nat /\ MsgOk(m)
  <2>1. K = peerHdr[c] /\ peerHdr[c] # 0 /\ s.rd[c] < msgs[peerHdr[c]].len
      BY <1>1, <1>16
  <2>2. K \in 1..Len(msgs) /\ msgs[K].csid = c /\ ~msgs[K].ext /\ msgs[K].len \in Nat
      BY <2>1, <1>17
  <2>3. sent[K] = s.rd[c] /\ s.rd[c] \in Nat
      BY <2>1, <1>15, <1>16
  <2> QED BY <2>1, <2>2, <2>3, <1>3
<1>5. /\ len \in Nat /\ from + len <= m.len /\ len = Min(m.len - from, s.size)
  <2>1. m.len - from \in Nat
      BY <1>4
  <2>2. len \in Nat /\ len <= m.len - from
      BY <2>1, <1>3, MinFacts
  <2>3. len = Min(m.len - from, s.size)
      BY <1>15
  <2> HIDE DEF len, m, from
  <2> QED BY <2>2, <2>3, <1>4
<1>6. /\ Len(sent') = Len(msgs) /\ sent' \in Seq(Nat) /\ sent'[K] = from + len
      /\ \A i \in 1..Len(msgs) : i # K => sent'[i] = sent[i]
  <2>1. from + len \in Nat /\ sent' = [sent EXCEPT ![K] = from + len] /\ K \in 1..Len(sent)
    <3>1. sent' = [sent EXCEPT ![K] = from + len]
        BY <1>1
    <3> HIDE DEF from, len, K
    <3>2. from \in Nat /\ len \in Nat
        BY <1>4, <1>5
    <3>3. K \in 1..Len(sent)
        BY <1>3, <1>4
    <3> QED BY <3>1, <3>2, <3>3
  <2> HIDE DEF from, len, K
  <2> QED BY <2>1, <1>3
<1>8. Grows
    BY <1>1, <1>3 DEF Grows
<1>9. /\ peerSize' = (IF m.type = SetChunkSize /\ from + len = m.len THEN m.size ELSE peerSize)
      /\ peerSize' \in Sizes
  <2>1. peerSize' = (IF m.type = SetChunkSize /\ from + len = m.len THEN m.size ELSE peerSize)
      BY <1>1 DEF SizeAfter
  <2> HIDE DEF m, len, from
  <2> QED BY <2>1, <1>3, <1>4 DEF MsgOk
<1>10. PeerTypes'
  <2>1. \A i \in 1..Len(msgs') : MsgOk(msgs'[i])
      BY <1>1, <1>3
  <2>2. pend' \in [Csids -> 0..Len(msgs)]
      BY <1>1, <1>3
  <2>3. Len(msgs) <= MaxMsgs
      BY <1>3 DEF PeerTypes
  <2> HIDE DEF m, from, len, K
  <2> QED BY <1>1, <1>3, <1>6, <1>9, <2>1, <2>2, <2>3 DEF PeerTypes, MsgOk
<1>18. PICK z \in Sizes : z = peerSize'
    BY <1>9
<1>19. PICK k \in Chunk : k.csid = c /\ k.fmt = 3 /\ k.m = K /\ k.at = from /\ k.n = len
  <2>1. [csid |-> c, fmt |-> 3, m |-> K, at |-> from, n |-> len] \in Chunk
      BY <1>4, <1>5 DEF Chunk
  <2> QED BY <2>1
<1> HIDE DEF K, m, from, len
<1>c. peerHdr \in [Csids -> Nat]
    BY <1>3
<1>20. PICK t \in State :
          /\ t.hd = peerHdr /\ t.rd = [s.rd EXCEPT ![c] = from + len]
          /\ t.last = c /\ t.size = z
  <2>1. [s.rd EXCEPT ![c] = from + len] \in [Csids -> Nat]
      BY <1>4, <1>5, <1>15
  <2>2. [hd |-> peerHdr, rd |-> [s.rd EXCEPT ![c] = from + len],
         last |-> c, size |-> z] \in State
      BY <2>1, <1>c DEF State
  <2> QED BY <2>2
<1>21. \A d \in Csids : /\ t.rd[d] = IF d = c THEN from + len ELSE s.rd[d]
                        /\ pend'[d] = IF d # c THEN pend[d] ELSE IF from + len < m.len THEN K ELSE 0
    BY <1>1, <1>3, <1>15, <1>20
<1>7. msgs'[k.m] = m /\ msgs[k.m] = m /\ k.m \in 1..Len(msgs')
    BY <1>1, <1>4, <1>19 DEF m
<1>23. Leads(s, k, t)'
  <2>1. Resumes(s, k)'
      BY <1>4, <1>7, <1>15, <1>19 DEF Resumes
  <2>2. k.n = Min(msgs'[k.m].len - k.at, s.size)
      BY <1>5, <1>7, <1>19
  <2>3. /\ msgs'[k.m].csid = k.csid /\ ~msgs'[k.m].ext
      BY <1>4, <1>7, <1>19
  <2>4. /\ t.hd = [s.hd EXCEPT ![k.csid] = k.m]
        /\ t.rd = [s.rd EXCEPT ![k.csid] = k.at + k.n]
        /\ t.last = k.csid
    <3>1. peerHdr = [peerHdr EXCEPT ![c] = K]
        BY <1>4, <1>c
    <3> QED BY <3>1, <1>15, <1>19, <1>20
  <2>5. t.size = (IF msgs'[k.m].type = SetChunkSize /\ k.at + k.n = msgs'[k.m].len
                  THEN msgs'[k.m].size ELSE s.size)
      BY <1>7, <1>9, <1>15, <1>18, <1>19, <1>20
  <2> QED BY <1>7, <2>1, <2>2, <2>3, <2>4, <2>5 DEF Leads, SizeThen
<1>24. StateOk(t)'
  <2>1. ASSUME NEW d \in Csids, t.hd[d] # 0
        PROVE  /\ t.hd[d] \in 1..Len(msgs')
               /\ msgs'[t.hd[d]].csid = d
               /\ t.rd[d] <= msgs'[t.hd[d]].len
               /\ t.rd[d] < msgs'[t.hd[d]].len => ~msgs'[t.hd[d]].ext
               /\ t.last # 0
    <3>0. t.hd[d] = peerHdr[d] /\ t.last = c /\ c # 0 /\ msgs' = msgs
        BY <1>1, <1>20, Numbers
    <3>1. CASE d = c
      <4>1. t.rd[d] = from + len /\ peerHdr[d] = K /\ K \in 1..Len(msgs) /\ msgs[K] = m
            /\ m.csid = d /\ ~m.ext /\ from + len <= m.len
          BY <3>1, <1>4, <1>5, <1>21 DEF m
      <4> QED BY <4>1, <3>0
    <3>2. CASE d # c
      <4>1. t.rd[d] = s.rd[d]
          BY <3>2, <1>21
      <4> QED BY <4>1, <3>0, <2>1, <1>17
    <3> QED BY <3>1, <3>2
  <2>2. t.last # 0 => t.hd[t.last] # 0
      BY <1>1, <1>4, <1>20
  <2> QED BY <2>1, <2>2 DEF StateOk
<1>25. PeerAt(t)'
  <2>1. t.hd = peerHdr' /\ t.last = peerLast' /\ t.size = peerSize'
      BY <1>1, <1>18, <1>20
  <2>2. ASSUME NEW d \in Csids
        PROVE  /\ \A i \in 1..Len(msgs') : msgs'[i].csid = d => i <= peerHdr'[d]
               /\ peerHdr'[d] # 0 => sent'[peerHdr'[d]] = t.rd[d]
               /\ pend'[d] = IF peerHdr'[d] # 0 /\ t.rd[d] < msgs'[peerHdr'[d]].len
                             THEN peerHdr'[d] ELSE 0
    <3>0. peerHdr' = peerHdr /\ msgs' = msgs
        BY <1>1
    <3>1. CASE d = c
      <4>1. /\ peerHdr[d] = K /\ t.rd[d] = from + len /\ msgs[K] = m /\ K # 0
            /\ pend'[d] = IF from + len < m.len THEN K ELSE 0
            /\ sent'[K] = from + len
          BY <3>1, <1>1, <1>4, <1>6, <1>21 DEF m
      <4> QED BY <4>1, <3>0, <1>16
    <3>2. CASE d # c
      <4>1. t.rd[d] = s.rd[d] /\ pend'[d] = pend[d]
          BY <3>2, <1>21
      <4>2. peerHdr[d] # 0 => sent'[peerHdr[d]] = sent[peerHdr[d]]
        <5>1. peerHdr[d] # 0 => peerHdr[d] # K /\ peerHdr[d] \in 1..Len(msgs)
            BY <3>2, <1>4, <1>17 DEF m
        <5> QED BY <5>1, <1>6
      <4> QED BY <4>1, <4>2, <3>0, <1>16
    <3> QED BY <3>1, <3>2
  <2> QED BY <2>1, <2>2 DEF PeerAt
<1>26. PICK h \in {1, 2} : h = 1 + Len(Extra(m))
  <2>1. 1 + Len(Extra(m)) \in {1, 2}
      BY DEF Extra
  <2> QED BY <2>1
<1>27. tokens = ChunkTokens(Header(k.fmt, k.csid, msgs'[k.m]), Extra(msgs'[k.m]), k.m, k.at, k.n)
    BY <1>7, <1>19 DEF ChunkTokens, Extra
<1>28. PICK L \in Nat : L = Len(wire)
    BY <1>2 DEF AllTypes, WireTypes
<1> HIDE DEF tokens
<1>29. Sends(L, h, k)
  <2>1. msgs'[k.m].csid = k.csid
      BY <1>4, <1>7, <1>19
  <2> QED BY <2>1, <1>1, <1>7, <1>26, <1>27, <1>28 DEF Sends
<1>30. Len(wire') <= MaxWire
  <2>1. wire \in Seq(Token) /\ tokens \in Seq(Token)
    <3>1. Header(k.fmt, k.csid, msgs'[k.m]) \in HdrSet
        BY <1>4, <1>7, <1>19, HeaderFacts
    <3>2. Extra(msgs'[k.m]) \in Seq(Token)
      <4>1. Ext \in Token
          BY DEF Token
      <4> QED BY <4>1 DEF Extra
    <3>3. IsChunk(tokens, Header(k.fmt, k.csid, msgs'[k.m]), Extra(msgs'[k.m]), k.m, k.at, k.n)
      <4>1. k.m \in Nat /\ k.at \in Nat /\ k.n \in Nat
          BY ChunkFacts
      <4> QED BY <3>1, <3>2, <4>1, <1>27, ChunkTokenFacts
    <3> QED BY <3>3, <1>2 DEF IsChunk, AllTypes, WireTypes
  <2>2. Len(wire \o tokens) = Len(wire) + Len(tokens)
      BY <2>1, ConcatFacts
  <2> QED BY <2>2, <1>1
<1>31. Counts(k)
  <2>1. sent[K] = from
      BY DEF from
  <2> QED BY <2>1, <1>1, <1>6, <1>7, <1>19 DEF Counts
<1>32. Leads(st[n + 1], k, t)'
    BY <1>23, <1>b
<1>33. ~eof /\ eof' = eof /\ UNCHANGED readerVars
    BY <1>1
<1> QED BY <1>2, <1>8, <1>10, <1>12, <1>13, <1>24, <1>25, <1>29, <1>30, <1>31,
           <1>32, <1>33, PeerStep

\* When the connection is lost, what is left of the wire is the start of it.
LEMMA CutStep ==
    ASSUME IInv, Cut
    PROVE  IInv'
<1>1. /\ ~eof /\ eof' = TRUE
      /\ msgs' = msgs /\ sent' = sent /\ pend' = pend /\ peerHdr' = peerHdr
      /\ peerLast' = peerLast /\ peerSize' = peerSize
      /\ rpc' = rpc /\ need' = need /\ cur' = cur /\ last' = last /\ headers' = headers
      /\ builders' = builders /\ readSize' = readSize /\ chunks' = chunks
    BY DEF Cut, peerVars, readerVars, normVars
<1>2. AllTypes /\ BuildersOk /\ HeadersOk /\ wire \in Seq(Token) /\ Len(wire) <= MaxWire
      /\ Len(wire) \in Nat
    BY DEF IInv, AllTypes, WireTypes
<1>3. /\ wire' \in Seq(Token) /\ Len(wire') \in Nat /\ Len(wire') <= Len(wire)
      /\ \A i \in 1..Len(wire') : i \in 1..Len(wire) /\ wire'[i] = wire[i]
  <2>1. PICK w \in 0..Len(wire) : wire' = SubSeq(wire, 1, w)
      BY DEF Cut
  <2> QED BY <2>1, <1>2
<1>4. AllTypes'
    BY <1>1, <1>2, <1>3, ReaderAssumption, SMTT(30) DEF AllTypes, PeerTypes, WireTypes, ReaderTypes, Flags, MsgOk
<1>5. BuildersOk' /\ HeadersOk'
    BY <1>1, <1>2 DEF BuildersOk, HeadersOk, Bytes, Byte
<1>6. Live
    BY <1>1 DEF Live
<1>7. PICK f \in [1..Len(chunks) -> 1..Len(msgs)] : Sound(f) /\ Tracked(f)
    BY <1>6 DEF IInv
<1>8. Sound(f)' /\ f \in [1..Len(chunks') -> 1..Len(msgs')]
    BY <1>1, <1>7 DEF Sound, Delivers, Proper, HdrOf, Bytes, Byte
<1>a. PICK n \in Nat : \E st \in [1..(n + 1) -> State], q \in [1..n -> Chunk],
                            pos \in [1..(n + 1) -> Nat] : At(f, n, st, q, pos)
    BY <1>7 DEF Tracked
<1>9. PICK st \in [1..(n + 1) -> State], q \in [1..n -> Chunk],
           pos \in [1..(n + 1) -> Nat] : At(f, n, st, q, pos)
    BY <1>a
<1>10. /\ pos[1] = IF rpc = "payload" THEN need ELSE 0
       /\ Row(n, st, q, pos) /\ PeerAt(st[n + 1]) /\ ReaderAt(st[1]) /\ BytesFlow(st[1])
       /\ UpTo(f, st[1])
    BY <1>9 DEF At
<1>11. Row(n, st, q, pos)'
  <2>1. States(n, st)'
    <3>1. \A j \in 1..(n + 1) : StateOk(st[j])'
        BY <1>1, <1>10 DEF Row, States, StateOk
    <3> QED BY <3>1 DEF States
  <2>2. ASSUME NEW j \in 1..n PROVE Leads(st[j], q[j], st[j + 1])' /\ TokensAt(pos[j], q[j])'
                                    /\ HLen(q[j])' = HLen(q[j])
    <3>1. Leads(st[j], q[j], st[j + 1]) /\ TokensAt(pos[j], q[j])
        BY <1>10, SMTT(40) DEF Row, Steps, Tokens
    <3>2. Leads(st[j], q[j], st[j + 1])'
        BY <3>1, <1>1 DEF Leads, Begins, Resumes, SizeThen
    <3>3. HLen(q[j])' = HLen(q[j]) /\ HLen(q[j]) \in {1, 2}
        BY <1>1 DEF HLen
    <3>4. q[j].n \in Nat /\ pos[j] \in Nat /\ j \in 1..(n + 1)
        BY ChunkFacts
    <3>5. \A i \in 1..Len(wire') : i \in 1..Len(wire) /\ i <= Len(wire) /\ wire'[i] = wire[i]
        BY <1>3
    <3> DEFINE a == pos[j]
               x == HLen(q[j])
               l == q[j].n
    <3>6. a \in Nat /\ x \in {1, 2} /\ l \in Nat
        BY <3>3, <3>4
    <3>7. /\ a + 1 <= Len(wire) => wire[a + 1] = Hdr(Header(q[j].fmt, q[j].csid, msgs[q[j].m]))
          /\ x = 2 /\ a + 2 <= Len(wire) => wire[a + 2] = Ext
          /\ \A i \in 1..l : a + x + i <= Len(wire) => wire[a + x + i] = Byte(q[j].m, q[j].at + i)
        BY <3>1 DEF TokensAt
    <3> HIDE DEF a, x, l
    <3>8. /\ a + 1 <= Len(wire') => a + 1 \in 1..Len(wire')
          /\ a + 2 <= Len(wire') => a + 2 \in 1..Len(wire')
          /\ \A i \in 1..l : a + x + i <= Len(wire') => a + x + i \in 1..Len(wire')
      <4>1. PICK w \in Nat : w = Len(wire')
          BY <1>3
      <4>2. /\ a + 1 <= w => a + 1 \in 1..w
            /\ a + 2 <= w => a + 2 \in 1..w
            /\ \A i \in 1..l : a + x + i <= w => a + x + i \in 1..w
          BY <3>6
      <4> QED BY <4>1, <4>2, Zenon
    <3>9. /\ a + 1 <= Len(wire') => wire'[a + 1] = Hdr(Header(q[j].fmt, q[j].csid, msgs'[q[j].m]))
          /\ x = 2 /\ a + 2 <= Len(wire') => wire'[a + 2] = Ext
          /\ \A i \in 1..l : a + x + i <= Len(wire') => wire'[a + x + i] = Byte(q[j].m, q[j].at + i)
        BY <3>5, <3>7, <3>8, <1>1, Zenon
    <3>10. TokensAt(pos[j], q[j])'
        BY <3>3, <3>9 DEF TokensAt, a, x, l
    <3> QED BY <3>2, <3>3, <3>10
  <2>3. Steps(n, st, q)' /\ Tokens(n, q, pos)' /\ Spans(n, q, pos)' /\ Rising(n, pos)'
      BY <1>10, <2>2 DEF Row, Steps, Tokens, Spans, Rising
  <2>4. WireEnds(n, pos)'
    <3>1. Len(wire) <= pos[n + 1] /\ pos[n + 1] \in Nat
        BY <1>10 DEF Row, WireEnds
    <3> QED BY <3>1, <1>1, <1>2, <1>3 DEF WireEnds
  <2> QED BY <2>1, <2>3, <2>4 DEF Row
<1>12. PeerAt(st[n + 1])'
    BY <1>1, <1>10 DEF PeerAt
<1>13. ReaderAt(st[1])'
  <2>1. Working(st[1])' /\ Normal(st[1])' /\ SizeAt(st[1])'
      BY <1>1, <1>10, ZenonT(30) DEF ReaderAt, Working, Proper, Normal, HdrOf, SizeAt, SizeThen
  <2>2. \A c \in Csids : BuilderAt(st[1], c)'
      BY <1>1, <1>10 DEF ReaderAt, BuilderAt, IsBuilder, UnderWay, AtWork, Rest, HdrOf, Bytes, Byte
  <2>3. PayloadAt(st[1])'
    <3> SUFFICES ASSUME rpc = "payload", NEW i \in 1..need, i <= Len(wire')
                 PROVE  wire'[i] = Byte(st[1].hd[cur.csid], st[1].rd[cur.csid] - need + i)
        BY <1>1 DEF PayloadAt, Byte
    <3>1. i \in 1..Len(wire') /\ need \in Nat
        BY <1>2, <1>3 DEF AllTypes, ReaderTypes
    <3>2. i <= Len(wire) /\ wire'[i] = wire[i]
        BY <3>1, <1>2, <1>3
    <3> QED BY <3>2, <1>10 DEF ReaderAt, PayloadAt
  <2> QED BY <2>1, <2>2, <2>3, SMTT(40) DEF ReaderAt
<1>14. BytesFlow(st[1])'
  <2>1. ASSUME NEW p \in 1..Len(wire'), NEW m \in Nat, NEW i \in Nat, wire'[p] = Byte(m, i)
        PROVE  /\ m \in 1..Len(msgs)
               /\ \A r \in 1..(p - 1), j \in Nat : wire'[r] = Byte(m, j) => j < i
    <3>1. p \in 1..Len(wire) /\ wire[p] = Byte(m, i)
        BY <2>1, <1>3
    <3>2. \A r \in 1..(p - 1) : r \in 1..Len(wire') /\ wire'[r] = wire[r]
        BY <1>3
    <3> QED BY <3>1, <3>2, <1>10 DEF BytesFlow, BytesRise
  <2>2. BytesRise'
      BY <2>1, <1>1 DEF BytesRise
  <2>3. BytesRead(st[1])' /\ BytesThere(st[1])'
      BY <1>1 DEF BytesRead, BytesThere
  <2> QED BY <2>2, <2>3 DEF BytesFlow
<1>15. UpTo(f, st[1])'
    BY <1>1, <1>10 DEF UpTo, Proper, Through, AtWork
<1>16. At(f, n, st, q, pos)'
    BY <1>1, <1>10, <1>11, <1>12, <1>13, <1>14, <1>15 DEF At
<1>17. Tracked(f)'
    BY <1>16 DEF Tracked
<1> QED BY <1>4, <1>5, <1>8, <1>17 DEF IInv

-----------------------------------------------------------------------------
(* Recv takes tokens off the wire.                                         *)

\* The first d tokens are gone.
Shifts(d) ==
    /\ wire' \in Seq(Token)
    /\ d <= Len(wire)
    /\ Len(wire') = Len(wire) - d
    /\ \A i \in 1..Len(wire') : wire'[i] = wire[d + i]

\* What Recv takes off the wire moves the rest to the front.
LEMMA ShiftFacts ==
    ASSUME wire \in Seq(Token), NEW d \in Nat, d <= Len(wire),
           wire' = SubSeq(wire, d + 1, Len(wire))
    PROVE  Shifts(d)
<1>1. Len(wire') = Len(wire) - d
    OBVIOUS
<1>2. wire' \in Seq(Token)
    OBVIOUS
<1>3. \A i \in 1..Len(wire') : wire'[i] = wire[d + i]
  <2> SUFFICES ASSUME NEW i \in 1..(Len(wire) - d) PROVE wire'[i] = wire[d + i]
      BY <1>1
  <2>1. wire'[i] = wire[d + 1 + i - 1]
      OBVIOUS
  <2>2. d + 1 + i - 1 = d + i
      OBVIOUS
  <2> QED BY <2>1, <2>2
<1> QED BY <1>1, <1>2, <1>3 DEF Shifts

\* Taking nothing off the wire leaves it as it is.
LEMMA NoShift ==
    ASSUME wire \in Seq(Token), wire' = wire
    PROVE  Shifts(0)
<1>1. Len(wire) \in Nat /\ \A i \in 1..Len(wire) : 0 + i = i
    OBVIOUS
<1> QED BY <1>1 DEF Shifts

\* The row of chunks moves to the front with the wire.
LEMMA RowShift ==
    ASSUME wire \in Seq(Token), msgs' = msgs, eof' = eof,
           NEW n \in Nat, NEW st \in [1..(n + 1) -> State], NEW q \in [1..n -> Chunk],
           NEW pos \in [1..(n + 1) -> Nat], Row(n, st, q, pos),
           NEW d \in Nat, Shifts(d), d <= pos[1]
    PROVE  \E p2 \in [1..(n + 1) -> Nat] :
              /\ Row(n, st, q, p2)'
              /\ \A j \in 1..(n + 1) : p2[j] = pos[j] - d
<1>1. \A j \in 1..(n + 1) : d <= pos[j] /\ pos[j] \in Nat
  <2>1. 1 \in 1..(n + 1) /\ \A j \in 1..(n + 1) : 1 <= j
      OBVIOUS
  <2> QED BY <2>1 DEF Row, Rising
<1>2. [j \in 1..(n + 1) |-> pos[j] - d] \in [1..(n + 1) -> Nat]
    BY <1>1
<1>3. PICK p2 \in [1..(n + 1) -> Nat] : \A j \in 1..(n + 1) : p2[j] = pos[j] - d
    BY <1>2
<1>4. PICK w \in Nat : w = Len(wire)
    OBVIOUS
<1>5. PICK v \in Nat : v = Len(wire') /\ v = w - d /\ \A i \in 1..v : wire'[i] = wire[d + i]
  <2>1. d <= w /\ Len(wire') = w - d
      BY <1>4 DEF Shifts
  <2>2. w - d \in Nat
      BY <2>1
  <2>3. \A i \in 1..Len(wire') : wire'[i] = wire[d + i]
      BY Zenon DEF Shifts
  <2> QED BY <2>1, <2>2, <2>3
<1>6. States(n, st)'
  <2>1. \A j \in 1..(n + 1) : StateOk(st[j])'
      BY DEF Row, States, StateOk
  <2> QED BY <2>1 DEF States
<1>7. ASSUME NEW j \in 1..n
      PROVE  /\ Leads(st[j], q[j], st[j + 1])' /\ TokensAt(p2[j], q[j])'
             /\ p2[j + 1] = p2[j] + HLen(q[j])' + q[j].n
  <2>1. Leads(st[j], q[j], st[j + 1]) /\ TokensAt(pos[j], q[j])
        /\ pos[j + 1] = pos[j] + HLen(q[j]) + q[j].n
      BY DEF Row, Steps, Tokens, Spans
  <2>2. Leads(st[j], q[j], st[j + 1])'
      BY <2>1 DEF Leads, Begins, Resumes, SizeThen
  <2>3. HLen(q[j])' = HLen(q[j]) /\ HLen(q[j]) \in {1, 2}
      BY DEF HLen
  <2>4. q[j].n \in Nat /\ j \in 1..(n + 1) /\ j + 1 \in 1..(n + 1)
      BY ChunkFacts
  <2>5. /\ pos[j] \in Nat /\ p2[j] \in Nat /\ p2[j] = pos[j] - d
        /\ p2[j + 1] = pos[j + 1] - d /\ pos[j + 1] \in Nat
      BY <2>4, <1>3
  <2> DEFINE a == pos[j]
             b == p2[j]
             x == HLen(q[j])
             l == q[j].n
  <2>6. a \in Nat /\ b \in Nat /\ x \in {1, 2} /\ l \in Nat /\ a = b + d
      BY <2>3, <2>4, <2>5
  <2>7. /\ a + 1 <= w => wire[a + 1] = Hdr(Header(q[j].fmt, q[j].csid, msgs[q[j].m]))
        /\ x = 2 /\ a + 2 <= w => wire[a + 2] = Ext
        /\ \A i \in 1..l : a + x + i <= w => wire[a + x + i] = Byte(q[j].m, q[j].at + i)
      BY <2>1, <1>4 DEF TokensAt
  <2> HIDE DEF a, b, x, l
  <2>8. /\ b + 1 <= v => b + 1 \in 1..v /\ a + 1 <= w /\ d + (b + 1) = a + 1
        /\ b + 2 <= v => b + 2 \in 1..v /\ a + 2 <= w /\ d + (b + 2) = a + 2
        /\ \A i \in 1..l : b + x + i <= v =>
              b + x + i \in 1..v /\ a + x + i <= w /\ d + (b + x + i) = a + x + i
    <3>1. v = w - d
        BY <1>5
    <3> QED BY <2>6, <3>1
  <2>9. /\ b + 1 <= v => wire'[b + 1] = Hdr(Header(q[j].fmt, q[j].csid, msgs'[q[j].m]))
        /\ x = 2 /\ b + 2 <= v => wire'[b + 2] = Ext
        /\ \A i \in 1..l : b + x + i <= v => wire'[b + x + i] = Byte(q[j].m, q[j].at + i)
      BY <2>7, <2>8, <1>5, Zenon
  <2>10. TokensAt(p2[j], q[j])'
      BY <2>3, <2>9, <1>5 DEF TokensAt, b, x, l
  <2>11. p2[j + 1] = p2[j] + HLen(q[j])' + q[j].n
    <3> DEFINE a2 == pos[j + 1]
               b2 == p2[j + 1]
    <3>1. a2 \in Nat /\ a2 = a + x + l /\ b2 = a2 - d
        BY <2>1, <2>5 DEF a, x, l
    <3> HIDE DEF a2, b2
    <3>2. b2 = b + x + l
        BY <3>1, <2>6
    <3> QED BY <3>2, <2>3 DEF b2, b, x, l
  <2> QED BY <2>2, <2>10, <2>11
<1>8. Steps(n, st, q)' /\ Tokens(n, q, p2)' /\ Spans(n, q, p2)'
    BY <1>7 DEF Steps, Tokens, Spans
<1>9. Rising(n, p2)'
  <2>1. \A i, j \in 1..(n + 1) : i <= j => p2[i] <= p2[j]
      BY <1>1, <1>3 DEF Row, Rising
  <2> QED BY <2>1 DEF Rising
<1>10. WireEnds(n, p2)'
  <2>1. n + 1 \in 1..(n + 1)
      OBVIOUS
  <2>2. pos[n + 1] \in Nat /\ p2[n + 1] = pos[n + 1] - d
      BY <2>1, <1>3
  <2>3. w <= pos[n + 1] /\ (~eof => w = pos[n + 1])
      BY <1>4 DEF Row, WireEnds
  <2>4. v <= p2[n + 1] /\ (~eof => v = p2[n + 1])
      BY <2>2, <2>3, <1>5
  <2> QED BY <2>4, <1>5 DEF WireEnds
<1>11. Row(n, st, q, p2)'
    BY <1>6, <1>8, <1>9, <1>10 DEF Row
<1> QED BY <1>3, <1>11

\* The rest of the row is a row as well.
LEMMA RowDrop ==
    ASSUME NEW n \in Nat, NEW st \in [1..((n + 1) + 1) -> State],
           NEW q \in [1..(n + 1) -> Chunk], NEW pos \in [1..((n + 1) + 1) -> Nat],
           Row(n + 1, st, q, pos)
    PROVE  \E st2 \in [1..(n + 1) -> State], q2 \in [1..n -> Chunk],
              p2 \in [1..(n + 1) -> Nat] :
                 /\ Row(n, st2, q2, p2)
                 /\ \A j \in 1..(n + 1) : st2[j] = st[j + 1] /\ p2[j] = pos[j + 1]
<1>1. /\ [j \in 1..(n + 1) |-> st[j + 1]] \in [1..(n + 1) -> State]
      /\ [j \in 1..n |-> q[j + 1]] \in [1..n -> Chunk]
      /\ [j \in 1..(n + 1) |-> pos[j + 1]] \in [1..(n + 1) -> Nat]
    OBVIOUS
<1>2. PICK st2 \in [1..(n + 1) -> State] : \A j \in 1..(n + 1) : st2[j] = st[j + 1]
    BY <1>1
<1>3. PICK q2 \in [1..n -> Chunk] : \A j \in 1..n : q2[j] = q[j + 1]
    BY <1>1
<1>4. PICK p2 \in [1..(n + 1) -> Nat] : \A j \in 1..(n + 1) : p2[j] = pos[j + 1]
    BY <1>1
<1>5. /\ \A j \in 1..(n + 1) : j + 1 \in 1..((n + 1) + 1) /\ j \in 1..((n + 1) + 1)
      /\ \A j \in 1..n : j + 1 \in 1..(n + 1) /\ j \in 1..(n + 1)
    OBVIOUS
<1>6. States(n, st2)
    BY <1>2, <1>5 DEF Row, States
<1>7. Steps(n, st2, q2)
    BY <1>2, <1>3, <1>5 DEF Row, Steps
<1>8. Tokens(n, q2, p2) /\ Spans(n, q2, p2)
    BY <1>3, <1>4, <1>5 DEF Row, Tokens, Spans
<1>9. Rising(n, p2)
  <2> SUFFICES ASSUME NEW i \in 1..(n + 1), NEW j \in 1..(n + 1), i <= j PROVE p2[i] <= p2[j]
      BY DEF Rising
  <2>1. i + 1 <= j + 1
      OBVIOUS
  <2> QED BY <2>1, <1>4, <1>5 DEF Row, Rising
<1>10. WireEnds(n, p2)
    BY <1>4 DEF Row, WireEnds
<1>11. Row(n, st2, q2, p2)
    BY <1>6, <1>7, <1>8, <1>9, <1>10 DEF Row
<1> QED BY <1>2, <1>4, <1>11

-----------------------------------------------------------------------------
(* Recv reads a header.                                                    *)

\* The normalizer completes the header of the next chunk.
LEMMA NormalizeFacts ==
    ASSUME PeerTypes, ReaderTypes, NEW s \in State, StateOk(s), Normal(s),
           NEW k \in Chunk, NEW t \in State, Leads(s, k, t)
    PROVE  /\ Normalize(Header(k.fmt, k.csid, msgs[k.m])) \in HdrSet
           /\ HdrOf(Normalize(Header(k.fmt, k.csid, msgs[k.m])), msgs[k.m])
           /\ HeaderLen(Header(k.fmt, k.csid, msgs[k.m])) = HLen(k)
<1>1. PICK m \in Msg : m = msgs[k.m]
    BY MsgFacts DEF Leads
<1>2. /\ k.csid \in Csids /\ k.fmt \in 0..3 /\ k.m \in 1..Len(msgs) /\ m.csid = k.csid
      /\ k.fmt = 3 => ~m.ext
      /\ Begins(s, k) \/ Resumes(s, k)
    BY <1>1, ChunkFacts DEF Leads
<1>3. PICK h \in HdrSet : h = Header(k.fmt, k.csid, m)
  <2>1. Header(k.fmt, m.csid, m) \in HdrSet
      BY <1>2, HeaderFacts
  <2> QED BY <2>1, <1>2
<1>4. /\ h.csid = m.csid /\ h.fmt = k.fmt
      /\ h.len  = IF k.fmt \in {0, 1} THEN m.len ELSE 0
      /\ h.type = IF k.fmt \in {0, 1} THEN m.type ELSE 0
      /\ h.msid = IF k.fmt = 0 THEN m.msid ELSE 0
      /\ h.ext = (k.fmt # 3 /\ m.ext)
    BY <1>2, <1>3 DEF Header
<1>5. HeaderLen(h) = HLen(k)
  <2>1. m.ext \in BOOLEAN
      BY DEF Msg
  <2>2. h.ext <=> m.ext
      BY <1>2, <1>4, <2>1
  <2> QED BY <2>2, <1>1 DEF HeaderLen, HLen
<1>6. ASSUME k.fmt = 0 PROVE Normalize(h) \in HdrSet /\ HdrOf(Normalize(h), m)
  <2>1. Normalize(h) = h
      BY <1>4, <1>6 DEF Normalize, FillEmpty, FillPartial
  <2> QED BY <2>1, <1>4, <1>6 DEF HdrOf
<1>7. ASSUME k.fmt = 1 PROVE Normalize(h) \in HdrSet /\ HdrOf(Normalize(h), m)
  <2>1. Begins(s, k)
      BY <1>2, <1>7 DEF Resumes
  <2>2. /\ s.last # 0
        /\ m.sure => msgs[s.hd[s.last]].sure /\ m.msid = msgs[s.hd[s.last]].msid
      BY <2>1, <1>1, <1>7 DEF Begins
  <2>3. HdrOf(last, msgs[s.hd[s.last]])
      BY <2>2 DEF Normal
  <2>4. last # None /\ last \in HdrSet
    <3>1. s.last \in Csids /\ s.hd[s.last] \in 1..Len(msgs)
        BY <2>2, StateFacts DEF StateOk
    <3>2. msgs[s.hd[s.last]].csid \in Csids
        BY <3>1, MsgFacts
    <3>3. last # None
        BY <3>2, <2>3, HdrOfFacts
    <3> QED BY <3>3 DEF ReaderTypes
  <2>5. (m.sure => last.msid = m.msid) /\ last.msid \in Msids \cup {0} /\ last.len \in Nat
      BY <2>2, <2>3, <2>4 DEF HdrOf, HdrSet
  <2> DEFINE g == [h EXCEPT !.msid = last.msid, !.len = IF h.fmt = 2 THEN last.len ELSE @]
  <2>6. FillPartial(h) = g
      BY <2>4, <1>4, <1>7 DEF FillPartial
  <2>7. /\ g \in HdrSet /\ g.csid = h.csid /\ g.fmt = h.fmt /\ g.type = h.type
        /\ g.msid = last.msid /\ g.len = IF h.fmt = 2 THEN last.len ELSE h.len
      BY <2>5 DEF HdrSet
  <2> HIDE DEF g
  <2>8. Normalize(h) = g
      BY <2>6, <2>7, <1>4, <1>7 DEF Normalize, FillEmpty
  <2>9. HdrOf(g, m)
    <3>1. g.csid = m.csid /\ (m.sure => g.msid = m.msid)
        BY <2>5, <2>7, <1>4
    <3>2. g.len = m.len
        BY <2>7, <1>4, <1>7
    <3>3. g.type = m.type
        BY <2>7, <1>4, <1>7
    <3> QED BY <3>1, <3>2, <3>3 DEF HdrOf
  <2> QED BY <2>7, <2>8, <2>9
<1>8. ASSUME k.fmt = 3 PROVE Normalize(h) \in HdrSet /\ HdrOf(Normalize(h), m)
  <2>1. s.hd[k.csid] # 0 /\ m = msgs[s.hd[k.csid]]
      BY <1>1, <1>2, <1>8 DEF Begins, Resumes
  <2>2. HdrOf(headers[k.csid], m)
      BY <2>1, <1>2 DEF Normal
  <2>3. headers[k.csid] # None /\ headers[k.csid] \in HdrSet
    <3>1. headers[k.csid] # None
        BY <2>2, <1>2, HdrOfFacts
    <3> QED BY <3>1, <1>2 DEF ReaderTypes
  <2>4. FillPartial(h) = h
      BY <1>4, <1>8 DEF FillPartial
  <2>5. PICK e \in HdrSet : e = headers[k.csid]
      BY <2>3
  <2>6. Normalize(h) = [e EXCEPT !.fmt = 3]
      BY <2>3, <2>4, <2>5, <1>2, <1>4, <1>8 DEF Normalize, FillEmpty
  <2>7. PICK g : g = [e EXCEPT !.fmt = 3]
      OBVIOUS
  <2>8. /\ g \in HdrSet /\ g.csid = e.csid /\ g.len = e.len /\ g.msid = e.msid /\ g.type = e.type
      BY <2>7 DEF HdrSet
  <2>9. HdrOf(g, m)
      BY <2>2, <2>5, <2>8 DEF HdrOf
  <2> QED BY <2>6, <2>7, <2>8, <2>9
<1>9. Normalize(h) \in HdrSet /\ HdrOf(Normalize(h), m)
  <2>1. k.fmt \in {0, 1, 3}
      BY <1>2 DEF Begins, Resumes
  <2> QED BY <2>1, <1>6, <1>7, <1>8
<1> QED BY <1>1, <1>3, <1>5, <1>9

\* The messages of k's chunk stream, seen from a reader that chunk k is next for.
LEMMA Order ==
    ASSUME PeerTypes, NEW s \in State, StateOk(s), NEW k \in Chunk, NEW t \in State,
           Leads(s, k, t), NEW x \in 1..Len(msgs)
    PROVE  /\ msgs[x].csid # k.csid => /\ t.hd[msgs[x].csid] = s.hd[msgs[x].csid]
                                       /\ t.rd[msgs[x].csid] = s.rd[msgs[x].csid]
           /\ msgs[x].csid = k.csid =>
                /\ t.hd[k.csid] = k.m /\ t.rd[k.csid] = k.at + k.n
                /\ x < k.m => \/ x < s.hd[k.csid]
                              \/ x = s.hd[k.csid] /\ s.rd[k.csid] = msgs[x].len
                /\ x = k.m => \/ s.hd[k.csid] < x /\ k.at = 0
                              \/ /\ s.hd[k.csid] = x /\ s.rd[k.csid] = k.at
                                 /\ k.at < msgs[x].len
                /\ k.m < x => s.hd[k.csid] < x
<1>1. /\ k.csid \in Csids /\ k.m \in 1..Len(msgs) /\ k.m \in Nat /\ k.at \in Nat /\ k.n \in Nat
      /\ s.hd \in [Csids -> Nat] /\ s.rd \in [Csids -> Nat]
      /\ msgs[x].csid \in Csids /\ Len(msgs) \in Nat
  <2>1. k.csid \in Csids /\ k.m \in Nat /\ k.at \in Nat /\ k.n \in Nat
      BY ChunkFacts
  <2>2. s.hd \in [Csids -> Nat] /\ s.rd \in [Csids -> Nat]
      BY StateFacts
  <2>3. msgs[x].csid \in Csids
      BY MsgFacts
  <2>4. k.m \in 1..Len(msgs) /\ Len(msgs) \in Nat
      BY DEF Leads, PeerTypes
  <2> QED BY <2>1, <2>2, <2>3, <2>4
<1>2. /\ t.hd = [s.hd EXCEPT ![k.csid] = k.m]
      /\ t.rd = [s.rd EXCEPT ![k.csid] = k.at + k.n]
      /\ Begins(s, k) \/ Resumes(s, k)
    BY DEF Leads
<1>3. ASSUME Begins(s, k), msgs[x].csid = k.csid
      PROVE  /\ x < k.m => \/ x < s.hd[k.csid]
                           \/ x = s.hd[k.csid] /\ s.rd[k.csid] = msgs[x].len
             /\ x = k.m => s.hd[k.csid] < x /\ k.at = 0
             /\ k.m < x => s.hd[k.csid] < x
  <2>1. /\ s.hd[k.csid] < k.m /\ k.at = 0 /\ s.hd[k.csid] \in Nat /\ x \in Nat
        /\ x < k.m => ~(s.hd[k.csid] < x)
        /\ s.hd[k.csid] # 0 => s.rd[k.csid] = msgs[s.hd[k.csid]].len
      BY <1>1, <1>3 DEF Begins
  <2> QED BY <2>1, <1>1
<1>4. ASSUME Resumes(s, k), msgs[x].csid = k.csid
      PROVE  /\ x < k.m => x < s.hd[k.csid]
             /\ x = k.m => /\ s.hd[k.csid] = x /\ s.rd[k.csid] = k.at /\ k.at < msgs[x].len
             /\ k.m < x => s.hd[k.csid] < x
    BY <1>1, <1>4 DEF Resumes
<1>5. msgs[x].csid # k.csid => /\ t.hd[msgs[x].csid] = s.hd[msgs[x].csid]
                               /\ t.rd[msgs[x].csid] = s.rd[msgs[x].csid]
    BY <1>1, <1>2
<1>6. t.hd[k.csid] = k.m /\ t.rd[k.csid] = k.at + k.n
    BY <1>1, <1>2
<1> QED BY <1>2, <1>3, <1>4, <1>5, <1>6

\* The builder that Recv finds or makes for the next chunk holds the bytes of its
\* message before that chunk, and Recv wants as many bytes as the chunk has.
LEMMA BuilderFacts ==
    ASSUME AllTypes, rpc = "header", NEW s \in State, StateOk(s), ReaderAt(s),
           NEW k \in Chunk, NEW t \in State, Leads(s, k, t),
           NEW g \in HdrSet, HdrOf(g, msgs[k.m])
    PROVE  /\ IsBuilder(BuilderOf(g), k.csid, k.m, k.at)
           /\ BuilderOf(g) \in Builder
           /\ BytesWanted(g) = k.n
<1>1. /\ k.csid \in Csids /\ k.m \in Nat /\ k.at \in Nat /\ k.n \in Nat
    BY ChunkFacts
<1>2. /\ k.m \in 1..Len(msgs) /\ msgs[k.m].csid = k.csid
      /\ k.n = Min(msgs[k.m].len - k.at, s.size)
      /\ Begins(s, k) \/ Resumes(s, k)
    BY DEF Leads
<1>3. msgs[k.m].len \in Nat
    BY <1>2, MsgFacts DEF AllTypes
<1>4. g.csid = k.csid /\ g.len = msgs[k.m].len
    BY <1>2 DEF HdrOf
<1>5. BuilderAt(s, k.csid) /\ Rest(k.csid) = 0 /\ ~AtWork(k.csid) /\ s.size = readSize
    BY <1>1 DEF ReaderAt, Rest, AtWork, SizeAt
<1>6. s.hd[k.csid] \in Nat /\ s.rd[k.csid] \in Nat
    BY <1>1, StateFacts
<1>7. CASE Begins(s, k)
  <2>1. builders[k.csid] = None
    <3>1. s.hd[k.csid] # 0 => s.rd[k.csid] = msgs[s.hd[k.csid]].len
        BY <1>7 DEF Begins
    <3>2. ~UnderWay(s, k.csid)
        BY <3>1, <1>5, <1>6 DEF UnderWay
    <3> QED BY <3>2, <1>5 DEF BuilderAt
  <2>2. BuilderOf(g) = [csid |-> k.csid, hdr |-> g, left |-> msgs[k.m].len, data |-> <<>>]
      BY <2>1, <1>4 DEF BuilderOf, NewBuilder
  <2>3. k.at = 0 /\ <<>> = Bytes(k.m, 0, 0)
    <3>1. 1..0 = {}
        OBVIOUS
    <3> QED BY <3>1, <1>7 DEF Begins, Bytes
  <2>4. <<>> \in Seq(Token)
      OBVIOUS
  <2>5. BuilderOf(g) \in Builder
      BY <2>2, <2>4, <1>1, <1>3 DEF Builder
  <2>6. msgs[k.m].len = msgs[k.m].len - k.at
      BY <2>3, <1>3
  <2>7. IsBuilder(BuilderOf(g), k.csid, k.m, k.at)
      BY <2>2, <2>3, <2>6 DEF IsBuilder
  <2> QED BY <2>2, <2>5, <2>6, <2>7, <1>2, <1>5 DEF BytesWanted
<1>8. CASE Resumes(s, k)
  <2>1. k.m = s.hd[k.csid] /\ k.at = s.rd[k.csid] /\ k.at < msgs[k.m].len
      BY <1>8 DEF Resumes
  <2>2. UnderWay(s, k.csid)
      BY <2>1, <1>2 DEF UnderWay
  <2>3. IsBuilder(builders[k.csid], k.csid, k.m, k.at)
    <3>1. s.rd[k.csid] - Rest(k.csid) = k.at
        BY <2>1, <1>1, <1>5
    <3> QED BY <3>1, <2>1, <2>2, <1>5 DEF BuilderAt
  <2>4. builders[k.csid] # None
    <3>1. builders[k.csid].csid \in Csids /\ None.csid = 0
        BY <2>3, <1>1 DEF IsBuilder, None
    <3> QED BY <3>1, Numbers
  <2>5. BuilderOf(g) = builders[k.csid] /\ BuilderOf(g) \in Builder
      BY <2>4, <1>1, <1>4 DEF BuilderOf, AllTypes, ReaderTypes
  <2> QED BY <2>3, <2>5, <1>2, <1>5 DEF BytesWanted, IsBuilder
<1> QED BY <1>2, <1>7, <1>8

\* What reading the header of chunk k does: g is the completed header.
Reads(k, g) ==
    /\ rpc = "header" /\ rpc' = "payload"
    /\ cur' = g /\ last' = g /\ g.csid = k.csid
    /\ need' = k.n
    /\ headers' = [headers EXCEPT ![k.csid] = g]
    /\ builders' = [builders EXCEPT ![k.csid] = BuilderOf(g)]
    /\ msgs' = msgs /\ sent' = sent /\ eof' = eof
    /\ readSize' = readSize /\ chunks' = chunks

\* Nothing has been read of a message, or come out of Chunks(), that was not before.
LEMMA HeaderMoves ==
    ASSUME AllTypes, NEW s \in State, StateOk(s), NEW k \in Chunk, NEW t \in State,
           Leads(s, k, t), NEW g, Reads(k, g), NEW x \in 1..Len(msgs)
    PROVE  /\ ReadOf(t, x)' = ReadOf(s, x)
           /\ Through(t, x)' <=> Through(s, x)
<1>1. /\ \A c \in Csids : ~AtWork(c) /\ Rest(c) = 0
      /\ \A c \in Csids : (AtWork(c)' <=> c = k.csid) /\ Rest(c)' = IF c = k.csid THEN k.n ELSE 0
    BY DEF AtWork, Rest, Reads
<1>2. /\ msgs[x].csid \in Csids /\ k.csid \in Csids /\ k.m \in Nat /\ k.at \in Nat /\ k.n \in Nat
      /\ s.hd[msgs[x].csid] \in Nat /\ s.rd[msgs[x].csid] \in Nat /\ msgs[x].len \in Nat
  <2>1. msgs[x].csid \in Csids /\ msgs[x].len \in Nat
      BY MsgFacts DEF AllTypes
  <2>2. k.csid \in Csids /\ k.m \in Nat /\ k.at \in Nat /\ k.n \in Nat
      BY ChunkFacts
  <2> QED BY <2>1, <2>2, StateFacts
<1>3. /\ msgs[x].csid # k.csid => /\ t.hd[msgs[x].csid] = s.hd[msgs[x].csid]
                                  /\ t.rd[msgs[x].csid] = s.rd[msgs[x].csid]
      /\ msgs[x].csid = k.csid =>
           /\ t.hd[k.csid] = k.m /\ t.rd[k.csid] = k.at + k.n
           /\ x < k.m => \/ x < s.hd[k.csid]
                         \/ x = s.hd[k.csid] /\ s.rd[k.csid] = msgs[x].len
           /\ x = k.m => \/ s.hd[k.csid] < x /\ k.at = 0
                         \/ /\ s.hd[k.csid] = x /\ s.rd[k.csid] = k.at
                            /\ k.at < msgs[x].len
           /\ k.m < x => s.hd[k.csid] < x
    BY Order DEF AllTypes
<1>4. msgs' = msgs
    BY DEF Reads
<1>5. CASE msgs[x].csid # k.csid
    BY <1>1, <1>2, <1>3, <1>4, <1>5 DEF ReadOf, Through
<1>6. CASE msgs[x].csid = k.csid
  <2>1. /\ t.hd[k.csid] = k.m /\ t.rd[k.csid] = k.at + k.n
        /\ s.hd[k.csid] \in Nat /\ s.rd[k.csid] \in Nat
      BY <1>2, <1>3, <1>6
  <2>2. ReadOf(t, x)' = IF x < k.m THEN msgs[x].len ELSE IF x = k.m THEN k.at ELSE 0
    <3>1. (k.at + k.n) - k.n = k.at
        BY <1>2
    <3> QED BY <3>1, <2>1, <1>1, <1>2, <1>4, <1>6 DEF ReadOf
  <2>3. ReadOf(s, x) = IF x < s.hd[k.csid] THEN msgs[x].len
                       ELSE IF x = s.hd[k.csid] THEN s.rd[k.csid] ELSE 0
    <3>1. s.rd[k.csid] - 0 = s.rd[k.csid]
        BY <2>1
    <3> QED BY <3>1, <1>1, <1>2, <1>6 DEF ReadOf
  <2>4. ReadOf(t, x)' = ReadOf(s, x)
      BY <2>1, <2>2, <2>3, <1>2, <1>3, <1>6
  <2>5. Through(t, x)' <=> x < k.m
      BY <2>1, <1>1, <1>2, <1>4, <1>6 DEF Through
  <2>6. Through(s, x) <=> \/ x < s.hd[k.csid]
                          \/ x = s.hd[k.csid] /\ s.rd[k.csid] = msgs[x].len
      BY <1>1, <1>2, <1>6 DEF Through
  <2>7. Through(t, x)' <=> Through(s, x)
      BY <2>1, <2>5, <2>6, <1>2, <1>3, <1>6
  <2> QED BY <2>4, <2>7
<1> QED BY <1>5, <1>6

\* Reading a header hands no message over.
LEMMA HeaderUpTo ==
    ASSUME AllTypes, NEW s \in State, StateOk(s), NEW k \in Chunk, NEW t \in State,
           Leads(s, k, t), NEW g, Reads(k, g),
           NEW f \in [1..Len(chunks) -> 1..Len(msgs)], UpTo(f, s)
    PROVE  UpTo(f, t)'
<1>1. msgs' = msgs /\ chunks' = chunks
    BY DEF Reads
<1> SUFFICES ASSUME NEW m \in 1..Len(msgs), Proper(m)
             PROVE  (\E j \in DOMAIN chunks : f[j] = m) <=> Through(t, m)'
    BY <1>1 DEF UpTo, Proper
<1>2. Through(t, m)' <=> Through(s, m)
    BY HeaderMoves
<1> QED BY <1>2 DEF UpTo

\* The bytes on the wire stay: d tokens are gone, and none of them is a byte.
LEMMA HeaderFlow ==
    ASSUME AllTypes, NEW s \in State, StateOk(s), NEW k \in Chunk, NEW t \in State,
           Leads(s, k, t), NEW g, Reads(k, g), BytesFlow(s),
           NEW d \in Nat, Shifts(d),
           \A i \in 1..d, m, j \in Nat : wire[i] # Byte(m, j)
    PROVE  BytesFlow(t)'
<1>1. msgs' = msgs /\ sent' = sent /\ eof' = eof
    BY DEF Reads
<1>2. PICK w \in Nat : w = Len(wire)
    BY DEF AllTypes, WireTypes
<1>3. PICK v \in Nat : v = Len(wire') /\ v = w - d /\ d <= w
    BY <1>2 DEF Shifts
<1>4. \A i \in 1..v : wire'[i] = wire[d + i] /\ d + i \in 1..w
  <2>1. \A i \in 1..v : wire'[i] = wire[d + i]
      BY <1>3 DEF Shifts
  <2>2. \A i \in 1..v : d + i \in 1..w
      BY <1>3
  <2> QED BY <2>1, <2>2
<1>5. /\ \A p \in 1..w, m \in Nat, i \in Nat : wire[p] = Byte(m, i) =>
            /\ m \in 1..Len(msgs)
            /\ \A r \in 1..(p - 1), j \in Nat : wire[r] = Byte(m, j) => j < i
      /\ ~eof => \A m \in 1..Len(msgs) : ReadOf(s, m) <= sent[m]
      /\ ~eof => \A m \in 1..Len(msgs), i \in Nat :
            (\E p \in 1..w : wire[p] = Byte(m, i)) <=> ReadOf(s, m) < i /\ i <= sent[m]
    BY <1>2 DEF BytesFlow, BytesRise, BytesRead, BytesThere
<1>6. \A m \in 1..Len(msgs) : ReadOf(t, m)' = ReadOf(s, m)
    BY HeaderMoves
<1>7. ASSUME NEW p \in 1..v, NEW m \in Nat, NEW i \in Nat, wire'[p] = Byte(m, i)
      PROVE  /\ m \in 1..Len(msgs)
             /\ \A r \in 1..(p - 1), j \in Nat : wire'[r] = Byte(m, j) => j < i
  <2>1. d + p \in 1..w /\ wire[d + p] = Byte(m, i)
      BY <1>4, <1>7
  <2>2. \A r \in 1..(p - 1) : r \in 1..v /\ d + r \in 1..((d + p) - 1)
      OBVIOUS
  <2>3. ASSUME NEW r \in 1..(p - 1), NEW j \in Nat, wire'[r] = Byte(m, j) PROVE j < i
    <3>1. wire[d + r] = Byte(m, j) /\ d + r \in 1..((d + p) - 1)
        BY <2>2, <2>3, <1>4
    <3> QED BY <3>1, <2>1, <1>5
  <2> QED BY <2>1, <2>3, <1>5
<1>8. ASSUME NEW m \in 1..Len(msgs), NEW i \in Nat
      PROVE  (\E p \in 1..v : wire'[p] = Byte(m, i)) <=> (\E p \in 1..w : wire[p] = Byte(m, i))
  <2>1. ASSUME NEW p \in 1..v, wire'[p] = Byte(m, i) PROVE \E r \in 1..w : wire[r] = Byte(m, i)
      BY <2>1, <1>4
  <2>2. ASSUME NEW r \in 1..w, wire[r] = Byte(m, i) PROVE \E p \in 1..v : wire'[p] = Byte(m, i)
    <3>1. r \notin 1..d
        BY <2>2
    <3>2. r - d \in 1..v /\ d + (r - d) = r
        BY <3>1, <1>3
    <3> QED BY <3>2, <2>2, <1>4
  <2> QED BY <2>1, <2>2
<1>9. BytesRise'
    BY <1>1, <1>3, <1>7 DEF BytesRise
<1>10. BytesRead(t)'
    BY <1>1, <1>5, <1>6 DEF BytesRead
<1>11. BytesThere(t)'
  <2> SUFFICES ASSUME ~eof, NEW m \in 1..Len(msgs), NEW i \in Nat
               PROVE  (\E p \in 1..v : wire'[p] = Byte(m, i))
                         <=> ReadOf(t, m)' < i /\ i <= sent[m]
      BY <1>1, <1>3 DEF BytesThere
  <2>1. (\E p \in 1..w : wire[p] = Byte(m, i)) <=> ReadOf(s, m) < i /\ i <= sent[m]
      BY <1>5
  <2>2. ReadOf(t, m)' = ReadOf(s, m)
      BY <1>6
  <2> QED BY <2>1, <2>2, <1>8
<1> QED BY <1>9, <1>10, <1>11 DEF BytesFlow

\* Once it has read the header of a chunk, Recv is in the state after that chunk,
\* but for the payload.
LEMMA HeaderReader ==
    ASSUME AllTypes, NEW s \in State, StateOk(s), ReaderAt(s), NEW k \in Chunk, NEW t \in State,
           Leads(s, k, t), NEW g \in HdrSet, Reads(k, g), HdrOf(g, msgs[k.m]),
           IsBuilder(BuilderOf(g), k.csid, k.m, k.at),
           \A i \in 1..k.n : i <= Len(wire') => wire'[i] = Byte(k.m, k.at + i)
    PROVE  ReaderAt(t)'
<1>1. /\ k.csid \in Csids /\ k.m \in Nat /\ k.at \in Nat /\ k.n \in Nat
    BY ChunkFacts
<1>2. /\ k.m \in 1..Len(msgs) /\ k.m # 0 /\ msgs[k.m].csid = k.csid
      /\ t.hd = [s.hd EXCEPT ![k.csid] = k.m]
      /\ t.rd = [s.rd EXCEPT ![k.csid] = k.at + k.n]
      /\ t.last = k.csid
      /\ t.size = SizeThen(k.m, k.at + k.n, s.size)
    BY DEF Leads
<1>3. s.hd \in [Csids -> Nat] /\ s.rd \in [Csids -> Nat]
    BY StateFacts
<1>4. /\ t.hd[k.csid] = k.m /\ t.rd[k.csid] = k.at + k.n
      /\ \A c \in Csids : c # k.csid => t.hd[c] = s.hd[c] /\ t.rd[c] = s.rd[c]
    BY <1>1, <1>2, <1>3
<1>5. /\ rpc = "header" /\ rpc' = "payload" /\ cur' = g /\ last' = g /\ g.csid = k.csid
      /\ need' = k.n /\ msgs' = msgs /\ readSize' = readSize
    BY DEF Reads
<1>6. /\ headers'[k.csid] = g /\ builders'[k.csid] = BuilderOf(g)
      /\ \A c \in Csids : c # k.csid => headers'[c] = headers[c] /\ builders'[c] = builders[c]
  <2>1. headers \in [Csids -> HdrSet \cup {None}] /\ builders \in [Csids -> Builder \cup {None}]
      BY DEF AllTypes, ReaderTypes
  <2> QED BY <2>1, <1>1 DEF Reads
<1>7. (k.at + k.n) - k.n = k.at /\ k.n <= k.at + k.n
    BY <1>1
<1>8. Working(t)'
    BY <1>1, <1>2, <1>4, <1>5, <1>7 DEF Working
<1>9. Normal(t)'
  <2>1. k.csid # 0 /\ HdrOf(last', msgs'[t.hd[t.last]])
      BY <1>1, <1>2, <1>4, <1>5, Numbers
  <2>2. ASSUME NEW c \in Csids
        PROVE  IF t.hd[c] = 0 THEN headers'[c] = None ELSE HdrOf(headers'[c], msgs'[t.hd[c]])
    <3>1. CASE c = k.csid
        BY <3>1, <1>2, <1>4, <1>5, <1>6
    <3>2. CASE c # k.csid
        BY <3>2, <1>4, <1>5, <1>6 DEF ReaderAt, Normal
    <3> QED BY <3>1, <3>2
  <2> QED BY <2>1, <2>2, <1>2 DEF Normal, HdrOf
<1>10. ASSUME NEW c \in Csids PROVE BuilderAt(t, c)'
  <2>1. CASE c = k.csid
    <3>1. UnderWay(t, c)'
        BY <2>1, <1>2, <1>4, <1>5 DEF UnderWay, AtWork
    <3>2. Rest(c)' = k.n
        BY <2>1, <1>5 DEF Rest
    <3>3. IsBuilder(BuilderOf(g), k.csid, k.m, k.at) /\ builders'[c] = BuilderOf(g)
        BY <2>1, <1>6
    <3>4. t.hd[c] = k.m /\ t.rd[c] - k.n = k.at
        BY <2>1, <1>4, <1>7
    <3>5. /\ builders'[c].csid = c
          /\ builders'[c].left = msgs'[t.hd[c]].len - (t.rd[c] - Rest(c)')
          /\ builders'[c].data = Bytes(t.hd[c], 0, t.rd[c] - Rest(c)')
          /\ HdrOf(builders'[c].hdr, msgs'[t.hd[c]])
        BY <2>1, <3>2, <3>3, <3>4, <1>5 DEF IsBuilder
    <3> QED BY <3>1, <3>5 DEF BuilderAt, IsBuilder, HdrOf, Bytes, Byte
  <2>2. CASE c # k.csid
    <3>1. BuilderAt(s, c) /\ builders'[c] = builders[c] /\ t.hd[c] = s.hd[c] /\ t.rd[c] = s.rd[c]
        BY <2>2, <1>4, <1>6 DEF ReaderAt
    <3>2. Rest(c)' = 0 /\ Rest(c) = 0 /\ ~AtWork(c)' /\ ~AtWork(c)
        BY <2>2, <1>5 DEF Rest, AtWork
    <3>3. UnderWay(t, c)' <=> UnderWay(s, c)
        BY <3>1, <3>2, <1>5 DEF UnderWay
    <3> QED BY <3>1, <3>2, <3>3, <1>5 DEF BuilderAt, IsBuilder, HdrOf, Bytes, Byte
  <2> QED BY <2>1, <2>2
<1>11. SizeAt(t)'
  <2>1. s.size = readSize
      BY <1>5 DEF ReaderAt, SizeAt
  <2> QED BY <2>1, <1>2, <1>4, <1>5 DEF SizeAt, SizeThen
<1>12. PayloadAt(t)'
  <2> SUFFICES ASSUME NEW i \in 1..k.n, i <= Len(wire')
               PROVE  wire'[i] = Byte(t.hd[k.csid], t.rd[k.csid] - k.n + i)
      BY <1>5 DEF PayloadAt, Byte
  <2>1. t.rd[k.csid] - k.n = k.at
      BY <1>4, <1>7
  <2> QED BY <2>1, <1>4
<1> QED BY <1>8, <1>9, <1>10, <1>11, <1>12 DEF ReaderAt

\* A row is there when Recv reads a header.
LEMMA FirstChunk ==
    ASSUME AllTypes, NEW f, NEW n \in Nat, NEW st \in [1..(n + 1) -> State],
           NEW q \in [1..n -> Chunk], NEW pos \in [1..(n + 1) -> Nat],
           At(f, n, st, q, pos), rpc = "header", wire # <<>>
    PROVE  /\ n # 0 /\ pos[1] = 0
           /\ Leads(st[1], q[1], st[2]) /\ TokensAt(0, q[1])
           /\ wire[1] = Hdr(Header(q[1].fmt, q[1].csid, msgs[q[1].m]))
<1>1. pos[1] = 0 /\ Row(n, st, q, pos)
    BY DEF At
<1>2. Len(wire) \in Nat /\ 1 <= Len(wire)
    BY DEF AllTypes, WireTypes
<1>3. n # 0
    BY <1>1, <1>2 DEF Row, WireEnds
<1>4. 1 \in 1..n /\ 1 + 1 = 2
    BY <1>3
<1>5. Leads(st[1], q[1], st[2]) /\ TokensAt(0, q[1])
    BY <1>1, <1>4 DEF Row, Steps, Tokens
<1>6. 0 + 1 = 1
    OBVIOUS
<1>7. wire[1] = Hdr(Header(q[1].fmt, q[1].csid, msgs[q[1].m]))
    BY <1>2, <1>5, <1>6 DEF TokensAt
<1> QED BY <1>1, <1>3, <1>5, <1>7

\* Builder b holds the first bytes of message m.
IsPart(b, m) ==
    /\ b.data = Bytes(m, 0, Len(b.data))
    /\ b.left + Len(b.data) = msgs[m].len

\* A builder of the first r bytes of a message holds a prefix of it.
LEMMA BuilderIsOk ==
    ASSUME PeerTypes, NEW c \in Csids, NEW m \in 1..Len(msgs), NEW r \in Nat, NEW b,
           IsBuilder(b, c, m, r)
    PROVE  b.csid = c /\ IsPart(b, m)
<1>1. b.csid = c /\ b.data = Bytes(m, 0, r) /\ b.left = msgs[m].len - r
    BY DEF IsBuilder
<1>2. Len(b.data) = r
  <2>1. m \in Nat /\ 0 \in Nat
      BY DEF PeerTypes
  <2>2. Len(Bytes(m, 0, r)) = r
      BY <2>1, BytesFacts
  <2> QED BY <2>2, <1>1
<1>3. msgs[m].len \in Nat
    BY MsgFacts
<1>4. (msgs[m].len - r) + r = msgs[m].len
    BY <1>3
<1> QED BY <1>1, <1>2, <1>4 DEF IsPart

\* Recv reads the header of the first chunk of the row, which leaves the row
\* (ReadHeader).
LEMMA ReadHeaderStep ==
    ASSUME IInv, ReadHeader
    PROVE  IInv'
<1>1. /\ rpc = "header" /\ wire # <<>> /\ wire[1].k = "header"
      /\ rpc' = "payload"
      /\ msgs' = msgs /\ sent' = sent /\ pend' = pend /\ peerHdr' = peerHdr
      /\ peerLast' = peerLast /\ peerSize' = peerSize /\ eof' = eof
      /\ readSize' = readSize /\ chunks' = chunks
    BY DEF ReadHeader, peerVars
<1>2. AllTypes /\ BuildersOk /\ HeadersOk /\ wire \in Seq(Token) /\ Len(wire) \in Nat
      /\ PeerTypes /\ ReaderTypes
    BY DEF IInv, AllTypes, WireTypes
<1>3. Live
    BY <1>1 DEF Live
<1>4. PICK f \in [1..Len(chunks) -> 1..Len(msgs)] : Sound(f) /\ Tracked(f)
    BY <1>3 DEF IInv
<1>5. PICK n0 \in Nat : \E st \in [1..(n0 + 1) -> State], q \in [1..n0 -> Chunk],
                            pos \in [1..(n0 + 1) -> Nat] : At(f, n0, st, q, pos)
    BY <1>4 DEF Tracked
<1>6. n0 # 0
    BY <1>1, <1>2, <1>5, FirstChunk
<1>7. PICK n \in Nat : n0 = n + 1
  <2>1. n0 - 1 \in Nat /\ n0 = (n0 - 1) + 1
      BY <1>6
  <2> QED BY <2>1
<1>8. PICK st \in [1..((n + 1) + 1) -> State], q \in [1..(n + 1) -> Chunk],
           pos \in [1..((n + 1) + 1) -> Nat] : At(f, n + 1, st, q, pos)
    BY <1>5, <1>7
<1>9. /\ pos[1] = 0 /\ Leads(st[1], q[1], st[2]) /\ TokensAt(0, q[1])
      /\ wire[1] = Hdr(Header(q[1].fmt, q[1].csid, msgs[q[1].m]))
  <2>1. AllTypes /\ rpc = "header" /\ wire # <<>>
      BY <1>1, <1>2
  <2>2. n + 1 \in Nat
      OBVIOUS
  <2> QED BY <2>1, <2>2, <1>8, FirstChunk
<1>10. /\ Row(n + 1, st, q, pos) /\ PeerAt(st[(n + 1) + 1]) /\ ReaderAt(st[1])
       /\ BytesFlow(st[1]) /\ UpTo(f, st[1])
    BY <1>8 DEF At
<1>11. 1 \in 1..(n + 1) /\ 1 \in 1..((n + 1) + 1) /\ 2 \in 1..((n + 1) + 1) /\ 1 + 1 = 2
    OBVIOUS
<1>12. PICK s \in State : s = st[1]
    BY <1>11
<1>13. PICK t \in State : t = st[2]
    BY <1>11
<1>14. PICK k \in Chunk : k = q[1]
    BY <1>11
<1>15. /\ StateOk(s) /\ ReaderAt(s) /\ BytesFlow(s) /\ UpTo(f, s) /\ Leads(s, k, t)
       /\ TokensAt(0, k) /\ wire[1] = Hdr(Header(k.fmt, k.csid, msgs[k.m]))
       /\ pos[2] = 0 + HLen(k) + k.n
  <2>1. StateOk(st[1]) /\ pos[2] = pos[1] + HLen(q[1]) + q[1].n
      BY <1>10, <1>11 DEF Row, States, Spans
  <2> QED BY <2>1, <1>9, <1>10, <1>12, <1>13, <1>14
<1>16. /\ k.csid \in Csids /\ k.m \in 1..Len(msgs) /\ k.m \in Nat /\ k.at \in Nat /\ k.n \in Nat
       /\ msgs[k.m].csid = k.csid
  <2>1. k.csid \in Csids /\ k.m \in Nat /\ k.at \in Nat /\ k.n \in Nat
      BY ChunkFacts
  <2> QED BY <2>1, <1>15 DEF Leads
<1> DEFINE h == Header(k.fmt, k.csid, msgs[k.m])
<1>17. Normalize(h) \in HdrSet /\ HdrOf(Normalize(h), msgs[k.m]) /\ HeaderLen(h) = HLen(k)
  <2>1. Normal(s)
      BY <1>15 DEF ReaderAt
  <2> QED BY <2>1, <1>2, <1>15, NormalizeFacts
<1>18. PICK g \in HdrSet : g = Normalize(h)
    BY <1>17
<1>19. HdrOf(g, msgs[k.m]) /\ g.csid = k.csid
    BY <1>16, <1>17, <1>18 DEF HdrOf
<1>20. PICK d \in {1, 2} : d = HLen(k)
  <2>1. HLen(k) \in {1, 2}
      BY DEF HLen
  <2> QED BY <2>1
<1>21. wire[1].h = h
    BY <1>15, TokenFacts
<1> HIDE DEF h
<1>22. /\ d <= Len(wire) /\ wire' = SubSeq(wire, d + 1, Len(wire))
       /\ cur' = g /\ last' = g
       /\ headers' = [headers EXCEPT ![g.csid] = g]
       /\ builders' = [builders EXCEPT ![g.csid] = BuilderOf(g)]
       /\ need' = BytesWanted(g)
  <2>1. /\ Len(wire) >= HeaderLen(h)
        /\ wire' = SubSeq(wire, HeaderLen(h) + 1, Len(wire))
        /\ cur' = Normalize(h) /\ last' = Normalize(h)
        /\ headers' = [headers EXCEPT ![Normalize(h).csid] = Normalize(h)]
        /\ builders' = [builders EXCEPT ![Normalize(h).csid] = BuilderOf(Normalize(h))]
        /\ need' = BytesWanted(Normalize(h))
      BY <1>21 DEF ReadHeader
  <2>2. HeaderLen(h) = d /\ Normalize(h) = g
      BY <1>17, <1>18, <1>20
  <2>3. d <= Len(wire)
      BY <2>1, <2>2, <1>2
  <2> QED BY <2>1, <2>2, <2>3
<1>23. /\ IsBuilder(BuilderOf(g), k.csid, k.m, k.at) /\ BuilderOf(g) \in Builder
       /\ BytesWanted(g) = k.n
    BY <1>1, <1>2, <1>15, <1>19, BuilderFacts
<1>24. Reads(k, g)
    BY <1>1, <1>19, <1>22, <1>23 DEF Reads
<1>25. Shifts(d)
    BY <1>2, <1>22, ShiftFacts
<1>26. AllTypes'
  <2>1. WireTypes'
    <3>1. Len(wire') = Len(wire) - d /\ Len(wire) <= MaxWire /\ wire' \in Seq(Token)
        BY <1>2, <1>25 DEF Shifts, AllTypes, WireTypes
    <3> QED BY <3>1, <1>2, ReaderAssumption DEF WireTypes
  <2>2. ReaderTypes'
    <3>1. headers' \in [Csids -> HdrSet \cup {None}] /\ builders' \in [Csids -> Builder \cup {None}]
        BY <1>2, <1>16, <1>19, <1>22, <1>23 DEF ReaderTypes
    <3> QED BY <3>1, <1>1, <1>2, <1>16, <1>22, <1>23 DEF ReaderTypes
  <2> QED BY <2>1, <2>2, <1>1, <1>2 DEF AllTypes, PeerTypes, MsgOk, Flags
<1>27. BuildersOk'
  <2> SUFFICES ASSUME NEW c \in Csids, builders'[c] # None
               PROVE  \E m \in 1..Len(msgs) :
                        /\ msgs[m].csid = c
                        /\ builders'[c].csid = c
                        /\ builders'[c].data = Bytes(m, 0, Len(builders'[c].data))
                        /\ builders'[c].left + Len(builders'[c].data) = msgs[m].len
      BY <1>1 DEF BuildersOk, Bytes, Byte
  <2>1. CASE c = k.csid
    <3>1. builders'[c] = BuilderOf(g)
        BY <2>1, <1>2, <1>16, <1>19, <1>22 DEF ReaderTypes
    <3>2. /\ BuilderOf(g).csid = k.csid
          /\ BuilderOf(g).data = Bytes(k.m, 0, Len(BuilderOf(g).data))
          /\ BuilderOf(g).left + Len(BuilderOf(g).data) = msgs[k.m].len
        BY <1>2, <1>16, <1>23, BuilderIsOk DEF IsPart
    <3> QED BY <2>1, <3>1, <3>2, <1>16
  <2>2. CASE c # k.csid
    <3>1. builders'[c] = builders[c]
        BY <2>2, <1>2, <1>16, <1>19, <1>22 DEF ReaderTypes
    <3> QED BY <3>1, <1>2 DEF BuildersOk
  <2> QED BY <2>1, <2>2
<1>28. HeadersOk'
    BY <1>2, <1>16, <1>19, <1>22 DEF HeadersOk, ReaderTypes
<1>29. Sound(f)' /\ f \in [1..Len(chunks') -> 1..Len(msgs')]
    BY <1>1, <1>4 DEF Sound, Delivers, Proper, HdrOf, Bytes, Byte
<1>30. UpTo(f, t)'
    BY <1>2, <1>15, <1>24, HeaderUpTo
<1>31. \A i \in 1..d, m, j \in Nat : wire[i] # Byte(m, j)
  <2>1. \A i \in 1..d : i = 1 \/ (d = 2 /\ i = 2)
      OBVIOUS
  <2>2. d = 2 => wire[2] = Ext
    <3>1. 0 + 2 = 2
        OBVIOUS
    <3> QED BY <3>1, <1>15, <1>20, <1>22 DEF TokensAt
  <2> QED BY <2>1, <2>2, <1>15, TokenFacts
<1>32. BytesFlow(t)'
    BY <1>2, <1>15, <1>24, <1>25, <1>31, HeaderFlow
<1>33. \A i \in 1..k.n : i <= Len(wire') => wire'[i] = Byte(k.m, k.at + i)
  <2> SUFFICES ASSUME NEW i \in 1..k.n, i <= Len(wire') PROVE wire'[i] = Byte(k.m, k.at + i)
      OBVIOUS
  <2>1. Len(wire') \in Nat /\ Len(wire') = Len(wire) - d
      BY <1>25 DEF Shifts
  <2>2. i \in 1..Len(wire') /\ 0 + d + i <= Len(wire) /\ 0 + d + i = d + i
      BY <2>1, <1>2
  <2>3. wire'[i] = wire[d + i]
      BY <2>2, <1>25 DEF Shifts
  <2>4. wire[0 + HLen(k) + i] = Byte(k.m, k.at + i)
      BY <2>2, <1>15, <1>20 DEF TokensAt
  <2> QED BY <2>2, <2>3, <2>4, <1>20
<1>34. ReaderAt(t)'
    BY <1>2, <1>15, <1>19, <1>23, <1>24, <1>33, HeaderReader
<1>35. PICK st2 \in [1..(n + 1) -> State], q2 \in [1..n -> Chunk], p2 \in [1..(n + 1) -> Nat] :
          /\ Row(n, st2, q2, p2)
          /\ \A j \in 1..(n + 1) : st2[j] = st[j + 1] /\ p2[j] = pos[j + 1]
    BY <1>10, RowDrop
<1>36. p2[1] = d + k.n /\ st2[1] = t /\ st2[n + 1] = st[(n + 1) + 1]
  <2>1. n + 1 \in 1..(n + 1)
      OBVIOUS
  <2>2. p2[1] = pos[2] /\ st2[1] = st[2] /\ st2[n + 1] = st[(n + 1) + 1]
      BY <2>1, <1>11, <1>35
  <2>3. 0 + d + k.n = d + k.n
      OBVIOUS
  <2> QED BY <2>2, <2>3, <1>13, <1>15, <1>20
<1>37. PICK p3 \in [1..(n + 1) -> Nat] :
          /\ Row(n, st2, q2, p3)'
          /\ \A j \in 1..(n + 1) : p3[j] = p2[j] - d
  <2>1. d \in Nat /\ d <= p2[1]
    <3>1. k.n \in Nat /\ p2[1] = d + k.n
        BY <1>16, <1>36
    <3> QED BY <3>1
  <2> QED BY <2>1, <1>1, <1>2, <1>25, <1>35, RowShift
<1>38. p3[1] = k.n
  <2>1. p3[1] = (d + k.n) - d
      BY <1>11, <1>36, <1>37
  <2>2. k.n \in Nat
      BY <1>16
  <2>3. (d + k.n) - d = k.n
      BY <2>2
  <2> QED BY <2>1, <2>3
<1>39. PeerAt(st2[n + 1])'
    BY <1>1, <1>10, <1>36 DEF PeerAt
<1>40. At(f, n, st2, q2, p3)'
    BY <1>1, <1>22, <1>23, <1>30, <1>32, <1>34, <1>36, <1>37, <1>38, <1>39 DEF At
<1>41. Tracked(f)'
    BY <1>40 DEF Tracked
<1> QED BY <1>26, <1>27, <1>28, <1>29, <1>41 DEF IInv

-----------------------------------------------------------------------------
(* Recv reads the payload of a chunk.                                      *)

\* Sequences of equal elements are equal.
LEMMA SeqEqual ==
    ASSUME NEW S, NEW a \in Seq(S), NEW b \in Seq(S), Len(a) = Len(b),
           \A i \in 1..Len(a) : a[i] = b[i]
    PROVE  a = b
OBVIOUS

\* Two pieces of a payload that meet are one piece.
LEMMA BytesJoin ==
    ASSUME NEW m \in Nat, NEW a \in Nat, NEW n \in Nat
    PROVE  Bytes(m, 0, a) \o Bytes(m, a, n) = Bytes(m, 0, a + n)
<1> DEFINE x == Bytes(m, 0, a)
           y == Bytes(m, a, n)
           z == Bytes(m, 0, a + n)
<1>1. /\ x \in Seq(Token) /\ Len(x) = a /\ \A i \in 1..a : x[i] = Byte(m, 0 + i)
    BY BytesFacts
<1>2. /\ y \in Seq(Token) /\ Len(y) = n /\ \A i \in 1..n : y[i] = Byte(m, a + i)
    BY BytesFacts
<1>3. /\ z \in Seq(Token) /\ Len(z) = a + n /\ \A i \in 1..(a + n) : z[i] = Byte(m, 0 + i)
    BY BytesFacts
<1> HIDE DEF x, y, z
<1>4. /\ x \o y \in Seq(Token) /\ Len(x \o y) = a + n
      /\ \A i \in 1..a : (x \o y)[i] = x[i]
      /\ \A i \in 1..n : (x \o y)[a + i] = y[i]
  <2>1. /\ x \o y \in Seq(Token) /\ Len(x \o y) = Len(x) + Len(y)
        /\ \A i \in 1..Len(x) : (x \o y)[i] = x[i]
        /\ \A i \in 1..Len(y) : (x \o y)[Len(x) + i] = y[i]
    <3>1. x \in Seq(Token) /\ y \in Seq(Token)
        BY <1>1, <1>2
    <3> QED BY <3>1, ConcatFacts
  <2> QED BY <2>1, <1>1, <1>2, Zenon
<1>5. ASSUME NEW i \in 1..(a + n) PROVE (x \o y)[i] = z[i]
  <2>1. CASE i <= a
    <3>1. i \in 1..a
        BY <2>1
    <3> QED BY <3>1, <1>1, <1>3, <1>4
  <2>2. CASE ~(i <= a)
    <3>1. i - a \in 1..n /\ a + (i - a) = i /\ 0 + i = i
        BY <2>2
    <3>2. (x \o y)[a + (i - a)] = Byte(m, a + (i - a))
        BY <3>1, <1>2, <1>4
    <3> QED BY <3>1, <3>2, <1>3
  <2> QED BY <2>1, <2>2
<1>6. Len(x \o y) = Len(z) /\ \A i \in 1..Len(x \o y) : (x \o y)[i] = z[i]
    BY <1>3, <1>4, <1>5
<1>7. x \o y = z
    BY <1>3, <1>4, <1>6, SeqEqual
<1> QED BY <1>7 DEF x, y, z

\* After the payload, the builder holds its bytes as well.
LEMMA FilledFacts ==
    ASSUME AllTypes, rpc = "payload", need <= Len(wire),
           NEW s \in State, StateOk(s), ReaderAt(s)
    PROVE  /\ cur.csid \in Csids /\ s.hd[cur.csid] \in 1..Len(msgs)
           /\ msgs[s.hd[cur.csid]].csid = cur.csid
           /\ need <= s.rd[cur.csid] /\ s.rd[cur.csid] <= msgs[s.hd[cur.csid]].len
           /\ s.rd[cur.csid] \in Nat
           /\ FilledBuilder \in Builder
           /\ IsBuilder(FilledBuilder, cur.csid, s.hd[cur.csid], s.rd[cur.csid])
<1>1. cur.csid \in Csids /\ s.hd[cur.csid] # 0 /\ need <= s.rd[cur.csid]
    BY DEF ReaderAt, Working
<1>2. PICK c \in Csids : c = cur.csid
    BY <1>1
<1>3. s.hd[c] \in Nat /\ s.rd[c] \in Nat
    BY StateFacts
<1>4. PICK m \in Nat : m = s.hd[c]
    BY <1>3
<1>5. PICK r \in Nat : r = s.rd[c]
    BY <1>3
<1>6. /\ m \in 1..Len(msgs) /\ msgs[m].csid = c /\ r <= msgs[m].len /\ need <= r /\ m # 0
      /\ need \in Nat
    BY <1>1, <1>2, <1>4, <1>5 DEF StateOk, AllTypes, ReaderTypes
<1>7. UnderWay(s, c) /\ Rest(c) = need
    BY <1>2, <1>4, <1>6 DEF UnderWay, AtWork, Rest
<1>8. PICK a \in Nat : a = r - need
    BY <1>6
<1>9. IsBuilder(builders[c], c, m, a)
    BY <1>4, <1>5, <1>7, <1>8 DEF ReaderAt, BuilderAt
<1>10. builders[c] \in Builder
  <2>1. builders[c].csid = c /\ None.csid = 0 /\ c # 0
      BY <1>9, Numbers DEF IsBuilder, None
  <2>2. builders[c] # None
      BY <2>1
  <2> QED BY <2>2 DEF AllTypes, ReaderTypes
<1>11. Taken = Bytes(m, a, need)
  <2>1. wire \in Seq(Token) /\ Len(wire) \in Nat
      BY DEF AllTypes, WireTypes
  <2>2. Taken \in Seq(Token) /\ Len(Taken) = need /\ \A i \in 1..need : Taken[i] = wire[i]
      BY <2>1, <1>6 DEF Taken
  <2>3. /\ Bytes(m, a, need) \in Seq(Token) /\ Len(Bytes(m, a, need)) = need
        /\ \A i \in 1..need : Bytes(m, a, need)[i] = Byte(m, a + i)
      BY <1>6, BytesFacts
  <2>4. ASSUME NEW i \in 1..need PROVE wire[i] = Byte(m, a + i)
    <3>1. i <= Len(wire)
        BY <2>1, <1>6
    <3>2. wire[i] = Byte(s.hd[cur.csid], s.rd[cur.csid] - need + i)
        BY <3>1 DEF ReaderAt, PayloadAt
    <3> QED BY <3>2, <1>2, <1>4, <1>5, <1>8
  <2>5. Len(Taken) = Len(Bytes(m, a, need)) /\ \A i \in 1..Len(Taken) : Taken[i] = Bytes(m, a, need)[i]
      BY <2>2, <2>3, <2>4
  <2> QED BY <2>2, <2>3, <2>5, SeqEqual
<1>12. Bytes(m, 0, a) \o Taken = Bytes(m, 0, r)
  <2>1. Bytes(m, 0, a) \o Bytes(m, a, need) = Bytes(m, 0, a + need)
      BY <1>6, BytesJoin
  <2>2. a + need = r
      BY <1>6, <1>8
  <2> QED BY <2>1, <2>2, <1>11
<1>13. PICK b \in Builder : b = builders[c]
    BY <1>10
<1>14. b.csid = c /\ b.left = msgs[m].len - a /\ b.data = Bytes(m, 0, a) /\ HdrOf(b.hdr, msgs[m])
    BY <1>9, <1>13 DEF IsBuilder
<1>15. FilledBuilder = [b EXCEPT !.left = b.left - need, !.data = b.data \o Taken]
    BY <1>2, <1>13 DEF FilledBuilder
<1>16. b.data \o Taken = Bytes(m, 0, r)
    BY <1>12, <1>14
<1>17. b.left - need = msgs[m].len - r /\ b.left - need \in Nat
  <2>1. msgs[m].len \in Nat
      BY <1>6, MsgFacts DEF AllTypes
  <2> QED BY <2>1, <1>6, <1>8, <1>14
<1>18. Bytes(m, 0, r) \in Seq(Token)
    BY BytesFacts
<1>19. PICK x : x = [b EXCEPT !.left = msgs[m].len - r, !.data = Bytes(m, 0, r)]
    OBVIOUS
<1>20. /\ x \in Builder /\ x.csid = b.csid /\ x.hdr = b.hdr /\ x.left = msgs[m].len - r
       /\ x.data = Bytes(m, 0, r)
    BY <1>17, <1>18, <1>19 DEF Builder
<1>21. FilledBuilder = x
    BY <1>15, <1>16, <1>17, <1>19
<1>22. IsBuilder(x, c, m, r)
    BY <1>14, <1>20 DEF IsBuilder
<1> QED BY <1>2, <1>4, <1>5, <1>6, <1>20, <1>21, <1>22

\* What reading the payload of a chunk does, when builder b then has the first r
\* bytes of message m of chunk stream c: there are more to come, or the message
\* goes on to chunks, or it sets the chunk size.
Fills(c, m, r, b) ==
    /\ rpc = "payload" /\ cur.csid = c
    /\ msgs' = msgs /\ sent' = sent /\ pend' = pend /\ peerHdr' = peerHdr
    /\ peerLast' = peerLast /\ peerSize' = peerSize /\ eof' = eof
    /\ cur' = cur /\ need' = need /\ last' = last /\ headers' = headers /\ chunks' = chunks
    /\ \/ /\ r < msgs[m].len
          /\ builders' = [builders EXCEPT ![c] = b]
          /\ readSize' = readSize /\ rpc' = "header"
       \/ /\ r = msgs[m].len /\ msgs[m].type # SetChunkSize
          /\ builders' = [builders EXCEPT ![c] = b]
          /\ readSize' = readSize /\ rpc' = "chunk"
       \/ /\ r = msgs[m].len /\ msgs[m].type = SetChunkSize
          /\ builders' = [builders EXCEPT ![c] = None]
          /\ readSize' = msgs[m].size /\ rpc' = "header"

\* The three things that Recv does with a payload: it waits for more chunks, takes
\* over a chunk size, or has a chunk to hand over.
LEMMA PayloadCases ==
    ASSUME AllTypes, ReadPayload, NEW c \in Csids, NEW m \in 1..Len(msgs), NEW r \in Nat,
           NEW b \in Builder, b = FilledBuilder, c = cur.csid, IsBuilder(b, c, m, r),
           r <= msgs[m].len
    PROVE  Fills(c, m, r, b)
<1>1. /\ rpc = "payload"
      /\ builders' = [builders EXCEPT ![c] = IF b.left > 0 \/ ~IsSetChunkSize(b) THEN b ELSE None]
      /\ readSize' = IF b.left > 0 \/ ~IsSetChunkSize(b) THEN readSize ELSE SizeIn(b)
      /\ rpc' = IF b.left = 0 /\ (b.left > 0 \/ ~IsSetChunkSize(b)) THEN "chunk" ELSE "header"
    BY DEF ReadPayload
<1>2. /\ msgs' = msgs /\ sent' = sent /\ pend' = pend /\ peerHdr' = peerHdr
      /\ peerLast' = peerLast /\ peerSize' = peerSize /\ eof' = eof
      /\ cur' = cur /\ need' = need /\ last' = last /\ headers' = headers /\ chunks' = chunks
    BY DEF ReadPayload, peerVars, normVars
<1>3. msgs[m].len \in Nat /\ MsgOk(msgs[m]) /\ m \in Nat
    BY MsgFacts DEF AllTypes, PeerTypes
<1>4. b.left = msgs[m].len - r /\ b.data = Bytes(m, 0, r) /\ HdrOf(b.hdr, msgs[m])
    BY DEF IsBuilder
<1>5. IsSetChunkSize(b) <=> msgs[m].type = SetChunkSize
    BY <1>4 DEF IsSetChunkSize, HdrOf, SetChunkSize
<1>6. CASE r < msgs[m].len
  <2>1. b.left > 0 /\ b.left # 0
      BY <1>3, <1>4, <1>6
  <2> QED BY <2>1, <1>1, <1>2, <1>6 DEF Fills
<1>7. CASE r = msgs[m].len
  <2>1. b.left = 0 /\ ~(b.left > 0)
      BY <1>3, <1>4, <1>7
  <2>2. CASE msgs[m].type # SetChunkSize
      BY <2>1, <2>2, <1>1, <1>2, <1>5, <1>7 DEF Fills
  <2>3. CASE msgs[m].type = SetChunkSize
    <3>1. msgs[m].len # 0
        BY <2>3, <1>3 DEF MsgOk
    <3>2. 1 \in 1..r
        BY <3>1, <1>3, <1>7
    <3>3. b.data[1] = Byte(m, 0 + 1)
      <4>1. \A i \in 1..r : Bytes(m, 0, r)[i] = Byte(m, 0 + i)
          BY <1>3, BytesFacts
      <4> QED BY <4>1, <3>2, <1>4
    <3>4. b.data[1].m = m
        BY <3>3, TokenFacts
    <3>5. SizeIn(b) = msgs[m].size
        BY <3>4 DEF SizeIn
    <3> QED BY <3>5, <2>1, <2>3, <1>1, <1>2, <1>5, <1>7 DEF Fills
  <2> QED BY <2>2, <2>3
<1> QED BY <1>3, <1>6, <1>7

\* Once it has read the payload, Recv is in the state after the chunk.
LEMMA PayloadReader ==
    ASSUME AllTypes, NEW s \in State, StateOk(s), ReaderAt(s),
           NEW c \in Csids, NEW m \in 1..Len(msgs), NEW r \in Nat, m = s.hd[c], r = s.rd[c],
           NEW b, IsBuilder(b, c, m, r), Fills(c, m, r, b)
    PROVE  ReaderAt(s)'
<1>1. /\ rpc = "payload" /\ cur.csid = c /\ cur' = cur /\ msgs' = msgs /\ last' = last
      /\ headers' = headers /\ need' = need /\ rpc' \in {"header", "chunk"}
      /\ \A d \in Csids : d # c => builders'[d] = builders[d]
      /\ rpc' = "chunk" => r = msgs[m].len /\ msgs[m].type # SetChunkSize
      /\ builders'[c] = b \/ builders'[c] = None
      /\ builders'[c] = b <=> (r < msgs[m].len \/ rpc' = "chunk")
  <2>1. builders \in [Csids -> Builder \cup {None}]
      BY DEF AllTypes, ReaderTypes
  <2>2. b # None
    <3>1. b.csid = c /\ None.csid = 0 /\ c # 0
        BY Numbers DEF IsBuilder, None
    <3> QED BY <3>1
  <2>3. msgs[m].len \in Nat
      BY MsgFacts DEF AllTypes
  <2> QED BY <2>1, <2>2, <2>3 DEF Fills
<1>2. m # 0 /\ r - 0 = r /\ msgs[m].len \in Nat
    BY MsgFacts DEF AllTypes
<1>3. Working(s)'
    BY <1>1, <1>2 DEF Working, Proper
<1>4. Normal(s)'
    BY <1>1 DEF ReaderAt, Normal, HdrOf
<1>5. ASSUME NEW d \in Csids PROVE BuilderAt(s, d)'
  <2>1. Rest(d)' = 0
      BY <1>1 DEF Rest
  <2>2. CASE d = c
    <3>1. UnderWay(s, d)' <=> (r < msgs[m].len \/ rpc' = "chunk")
        BY <2>2, <1>1, <1>2 DEF UnderWay, AtWork
    <3>2. builders'[d] = b \/ builders'[d] = None
        BY <2>2, <1>1
    <3>3. UnderWay(s, d)' => builders'[d] = b
        BY <2>2, <3>1, <1>1
    <3>4. ~UnderWay(s, d)' => builders'[d] = None
        BY <2>2, <3>1, <1>1
    <3>5. s.rd[d] - Rest(d)' = r /\ s.hd[d] = m
        BY <2>1, <2>2, <1>2
    <3>6. builders'[d] = b =>
             /\ builders'[d].csid = d
             /\ builders'[d].left = msgs'[s.hd[d]].len - (s.rd[d] - Rest(d)')
             /\ builders'[d].data = Bytes(s.hd[d], 0, s.rd[d] - Rest(d)')
             /\ HdrOf(builders'[d].hdr, msgs'[s.hd[d]])
        BY <2>2, <3>5, <1>1 DEF IsBuilder
    <3> QED BY <3>3, <3>4, <3>6 DEF BuilderAt, IsBuilder, HdrOf, Bytes, Byte
  <2>3. CASE d # c
    <3>1. BuilderAt(s, d) /\ builders'[d] = builders[d] /\ Rest(d) = 0
        BY <2>3, <1>1 DEF ReaderAt, Rest
    <3>2. UnderWay(s, d)' <=> UnderWay(s, d)
        BY <2>3, <1>1 DEF UnderWay, AtWork
    <3> QED BY <2>1, <3>1, <3>2, <1>1 DEF BuilderAt, IsBuilder, HdrOf, Bytes, Byte
  <2> QED BY <2>2, <2>3
<1>6. SizeAt(s)'
  <2>1. s.size = IF msgs[m].type = SetChunkSize /\ r = msgs[m].len THEN msgs[m].size ELSE readSize
      BY <1>1 DEF ReaderAt, SizeAt, SizeThen
  <2>2. readSize' = s.size
      BY <2>1, <1>2 DEF Fills
  <2> QED BY <2>2, <1>1 DEF SizeAt
<1>7. PayloadAt(s)'
    BY <1>1 DEF PayloadAt
<1> QED BY <1>3, <1>4, <1>5, <1>6, <1>7 DEF ReaderAt

\* Reading a payload hands no message over.
LEMMA PayloadUpTo ==
    ASSUME AllTypes, NEW s \in State, NEW f,
           NEW c \in Csids, NEW m \in 1..Len(msgs), NEW r \in Nat, m = s.hd[c], r = s.rd[c],
           NEW b, Fills(c, m, r, b), UpTo(f, s)
    PROVE  UpTo(f, s)'
<1>1. /\ rpc = "payload" /\ cur.csid = c /\ cur' = cur /\ msgs' = msgs /\ chunks' = chunks
    BY DEF Fills
<1> SUFFICES ASSUME NEW x \in 1..Len(msgs), Proper(x)
             PROVE  Through(s, x)' <=> Through(s, x)
    BY <1>1 DEF UpTo, Proper
<1>2. \A d \in Csids : d # c => ~AtWork(d) /\ ~AtWork(d)'
    BY <1>1 DEF AtWork
<1>3. CASE msgs[x].csid # c
  <2>1. msgs[x].csid \in Csids
      BY MsgFacts DEF AllTypes
  <2> QED BY <2>1, <1>1, <1>2, <1>3 DEF Through
<1>4. CASE msgs[x].csid = c
  <2>1. AtWork(c)
      BY <1>1 DEF AtWork
  <2>2. x = m /\ r = msgs[m].len => AtWork(c)'
    <3> SUFFICES ASSUME x = m, r = msgs[m].len PROVE AtWork(c)'
        OBVIOUS
    <3>1. msgs[m].len \in Nat /\ ~(r < msgs[m].len)
        BY MsgFacts DEF AllTypes
    <3>2. msgs[m].type # SetChunkSize
        BY DEF Proper
    <3>3. rpc' = "chunk"
        BY <3>1, <3>2 DEF Fills
    <3> QED BY <3>3, <1>1 DEF AtWork
  <2> QED BY <2>1, <2>2, <1>1, <1>4 DEF Through
<1> QED BY <1>3, <1>4

\* The bytes that Recv has read are gone from the wire, and no others.
LEMMA PayloadFlow ==
    ASSUME AllTypes, NEW s \in State, StateOk(s), BytesFlow(s),
           NEW c \in Csids, NEW m \in 1..Len(msgs), NEW r \in Nat, m = s.hd[c], r = s.rd[c],
           msgs[m].csid = c, NEW b, Fills(c, m, r, b),
           NEW d \in Nat, Rest(c) = d, d <= r, Shifts(d),
           \A i \in 1..d : wire[i] = Byte(m, r - d + i)
    PROVE  BytesFlow(s)'
<1>1. /\ rpc = "payload" /\ rpc' # "payload" /\ cur.csid = c /\ msgs' = msgs /\ sent' = sent
      /\ eof' = eof
    BY DEF Fills
<1>2. PICK w \in Nat : w = Len(wire)
    BY DEF AllTypes, WireTypes
<1>3. PICK v \in Nat : v = Len(wire') /\ v = w - d /\ d <= w
    BY <1>2 DEF Shifts
<1>4. \A i \in 1..v : wire'[i] = wire[d + i] /\ d + i \in 1..w
  <2>1. \A i \in 1..v : wire'[i] = wire[d + i]
      BY <1>3 DEF Shifts
  <2>2. \A i \in 1..v : d + i \in 1..w
      BY <1>3
  <2> QED BY <2>1, <2>2
<1>5. /\ \A p \in 1..w, x \in Nat, i \in Nat : wire[p] = Byte(x, i) =>
            /\ x \in 1..Len(msgs)
            /\ \A y \in 1..(p - 1), j \in Nat : wire[y] = Byte(x, j) => j < i
      /\ ~eof => \A x \in 1..Len(msgs) : ReadOf(s, x) <= sent[x]
      /\ ~eof => \A x \in 1..Len(msgs), i \in Nat :
            (\E p \in 1..w : wire[p] = Byte(x, i)) <=> ReadOf(s, x) < i /\ i <= sent[x]
    BY <1>2 DEF BytesFlow, BytesRise, BytesRead, BytesThere
<1>6. /\ ReadOf(s, m) = r - d /\ ReadOf(s, m)' = r
      /\ \A x \in 1..Len(msgs) : x # m => ReadOf(s, x)' = ReadOf(s, x)
  <2>1. /\ Rest(c) = d /\ \A e \in Csids : Rest(e)' = 0 /\ (e # c => Rest(e) = 0)
      BY <1>1 DEF Rest
  <2>2. ReadOf(s, m) = r - d /\ ReadOf(s, m)' = r
      BY <2>1, <1>1 DEF ReadOf
  <2>3. ASSUME NEW x \in 1..Len(msgs), x # m PROVE ReadOf(s, x)' = ReadOf(s, x)
    <3>1. msgs[x].csid \in Csids
        BY MsgFacts DEF AllTypes
    <3>2. CASE msgs[x].csid = c
        BY <3>2, <2>3, <1>1 DEF ReadOf
    <3>3. CASE msgs[x].csid # c
        BY <3>1, <3>3, <2>1, <1>1 DEF ReadOf
    <3> QED BY <3>2, <3>3
  <2> QED BY <2>2, <2>3
<1>7. ASSUME NEW p \in 1..v, NEW x \in Nat, NEW i \in Nat, wire'[p] = Byte(x, i)
      PROVE  /\ x \in 1..Len(msgs)
             /\ \A y \in 1..(p - 1), j \in Nat : wire'[y] = Byte(x, j) => j < i
             /\ x = m /\ ~eof => r < i
  <2>1. d + p \in 1..w /\ wire[d + p] = Byte(x, i)
      BY <1>4, <1>7
  <2>2. \A y \in 1..(p - 1) : y \in 1..v /\ d + y \in 1..((d + p) - 1)
      OBVIOUS
  <2>3. ASSUME NEW y \in 1..(p - 1), NEW j \in Nat, wire'[y] = Byte(x, j) PROVE j < i
    <3>1. wire[d + y] = Byte(x, j) /\ d + y \in 1..((d + p) - 1)
        BY <2>2, <2>3, <1>4
    <3> QED BY <3>1, <2>1, <1>5
  <2>4. ASSUME x = m, d # 0 PROVE r < i
    <3>1. d \in 1..d /\ d \in 1..((d + p) - 1) /\ r - d + d = r
        BY <2>4
    <3>2. wire[d] = Byte(m, r)
        BY <3>1
    <3> QED BY <3>1, <3>2, <2>1, <2>4, <1>5, SMTT(30)
  <2>5. ASSUME x = m, d = 0, ~eof PROVE r < i
    <3>1. ReadOf(s, m) < i
        BY <2>1, <2>5, <1>5
    <3>2. r - 0 = r
        OBVIOUS
    <3> QED BY <3>1, <3>2, <2>5, <1>6
  <2>6. x \in 1..Len(msgs)
      BY <2>1, <1>5
  <2> QED BY <2>3, <2>4, <2>5, <2>6
<1>8. ASSUME ~eof PROVE r <= sent[m] /\ sent[m] \in Nat
  <2>1. sent[m] \in Nat
    <3>1. PeerTypes
        BY DEF AllTypes
    <3> QED BY <3>1, SentFacts
  <2>2. CASE d = 0
    <3>1. ReadOf(s, m) <= sent[m] /\ r - 0 = r
        BY <1>5, <1>8
    <3> QED BY <3>1, <2>1, <2>2, <1>6
  <2>3. CASE d # 0
    <3>1. d \in 1..d /\ d \in 1..w /\ r - d + d = r
        BY <2>3, <1>3
    <3>2. wire[d] = Byte(m, r)
        BY <3>1
    <3> QED BY <3>1, <3>2, <2>1, <1>5, <1>8
  <2> QED BY <2>1, <2>2, <2>3
<1>9. ASSUME ~eof, NEW x \in 1..Len(msgs), NEW i \in Nat
      PROVE  (\E p \in 1..v : wire'[p] = Byte(x, i)) <=> ReadOf(s, x)' < i /\ i <= sent[x]
  <2>1. ASSUME NEW p \in 1..v, wire'[p] = Byte(x, i)
        PROVE  ReadOf(s, x)' < i /\ i <= sent[x]
    <3>1. d + p \in 1..w /\ wire[d + p] = Byte(x, i)
        BY <2>1, <1>4
    <3>2. ReadOf(s, x) < i /\ i <= sent[x]
        BY <3>1, <1>5, <1>9
    <3>3. x \in Nat
        OBVIOUS
    <3>4. x = m => r < i
        BY <3>3, <2>1, <1>7, <1>9
    <3> QED BY <3>2, <3>4, <1>6
  <2>2. ASSUME ReadOf(s, x)' < i, i <= sent[x]
        PROVE  \E p \in 1..v : wire'[p] = Byte(x, i)
    <3>1. ReadOf(s, x) < i
        BY <2>2, <1>6
    <3>2. PICK y \in 1..w : wire[y] = Byte(x, i)
        BY <3>1, <2>2, <1>5, <1>9
    <3>3. y \notin 1..d
      <4> SUFFICES ASSUME y \in 1..d PROVE FALSE
          OBVIOUS
      <4>1. wire[y] = Byte(m, r - d + y)
          OBVIOUS
      <4>2. Byte(x, i) = Byte(m, r - d + y)
          BY <3>2, <4>1
      <4>3. x = m /\ i = r - d + y
          BY <4>2, ByteSame
      <4>4. r < i
          BY <4>3, <2>2, <1>6
      <4> QED BY <4>3, <4>4
    <3>4. y - d \in 1..v /\ d + (y - d) = y
        BY <3>3, <1>3
    <3> QED BY <3>2, <3>4, <1>4
  <2> QED BY <2>1, <2>2
<1>10. ASSUME ~eof, NEW x \in 1..Len(msgs) PROVE ReadOf(s, x)' <= sent[x]
  <2>1. CASE x = m
      BY <2>1, <1>6, <1>8, <1>10
  <2>2. CASE x # m
    <3>1. ReadOf(s, x)' = ReadOf(s, x)
        BY <2>2, <1>6
    <3>2. ReadOf(s, x) <= sent[x]
        BY <1>5, <1>10
    <3> QED BY <3>1, <3>2
  <2> QED BY <2>1, <2>2
<1>11. BytesRise'
    BY <1>1, <1>3, <1>7 DEF BytesRise
<1>12. BytesRead(s)'
    BY <1>1, <1>10 DEF BytesRead
<1>13. BytesThere(s)'
  <2> SUFFICES ASSUME ~eof, NEW x \in 1..Len(msgs), NEW i \in Nat
               PROVE  (\E p \in 1..v : wire'[p] = Byte(x, i))
                         <=> ReadOf(s, x)' < i /\ i <= sent[x]
      BY <1>1, <1>3 DEF BytesThere
  <2> QED BY <1>9
<1> QED BY <1>11, <1>12, <1>13 DEF BytesFlow

\* Recv reads the rest of a chunk (ReadPayload).
LEMMA ReadPayloadStep ==
    ASSUME IInv, ReadPayload
    PROVE  IInv'
<1>1. /\ rpc = "payload" /\ Len(wire) >= need
      /\ wire' = SubSeq(wire, need + 1, Len(wire))
    BY DEF ReadPayload
<1>2. AllTypes /\ BuildersOk /\ HeadersOk /\ wire \in Seq(Token) /\ Len(wire) \in Nat
      /\ PeerTypes /\ ReaderTypes /\ need \in Nat /\ Len(wire) <= MaxWire
    BY DEF IInv, AllTypes, WireTypes, ReaderTypes
<1>3. Live
    BY <1>1 DEF Live
<1>4. PICK f \in [1..Len(chunks) -> 1..Len(msgs)] : Sound(f) /\ Tracked(f)
    BY <1>3 DEF IInv
<1>5. PICK n \in Nat : \E st \in [1..(n + 1) -> State], q \in [1..n -> Chunk],
                           pos \in [1..(n + 1) -> Nat] : At(f, n, st, q, pos)
    BY <1>4 DEF Tracked
<1>6. PICK st \in [1..(n + 1) -> State], q \in [1..n -> Chunk],
           pos \in [1..(n + 1) -> Nat] : At(f, n, st, q, pos)
    BY <1>5
<1>7. /\ pos[1] = need
      /\ Row(n, st, q, pos) /\ PeerAt(st[n + 1]) /\ ReaderAt(st[1]) /\ BytesFlow(st[1])
      /\ UpTo(f, st[1])
    BY <1>1, <1>6 DEF At
<1>8. 1 \in 1..(n + 1)
    OBVIOUS
<1>9. PICK s \in State : s = st[1]
    BY <1>8
<1>10. StateOk(s) /\ ReaderAt(s) /\ BytesFlow(s) /\ UpTo(f, s)
    BY <1>7, <1>8, <1>9 DEF Row, States
<1>11. need <= Len(wire)
    BY <1>1, <1>2
<1>12. /\ cur.csid \in Csids /\ s.hd[cur.csid] \in 1..Len(msgs)
       /\ msgs[s.hd[cur.csid]].csid = cur.csid
       /\ need <= s.rd[cur.csid] /\ s.rd[cur.csid] <= msgs[s.hd[cur.csid]].len
       /\ s.rd[cur.csid] \in Nat
       /\ FilledBuilder \in Builder
       /\ IsBuilder(FilledBuilder, cur.csid, s.hd[cur.csid], s.rd[cur.csid])
    BY <1>1, <1>2, <1>10, <1>11, FilledFacts
<1>13. PICK c \in Csids : c = cur.csid
    BY <1>12
<1>14. PICK m \in 1..Len(msgs) : m = s.hd[c]
    BY <1>12, <1>13
<1>15. PICK r \in Nat : r = s.rd[c]
    BY <1>12, <1>13
<1>16. PICK b \in Builder : b = FilledBuilder
    BY <1>12
<1>17. IsBuilder(b, c, m, r) /\ r <= msgs[m].len /\ msgs[m].csid = c /\ need <= r
    BY <1>12, <1>13, <1>14, <1>15, <1>16
<1>18. Fills(c, m, r, b)
    BY <1>2, <1>13, <1>16, <1>17, PayloadCases
<1>19. PICK d \in Nat : d = need
    BY <1>2
<1>20. Shifts(d)
    BY <1>1, <1>2, <1>11, <1>19, ShiftFacts
<1>21. \A i \in 1..d : wire[i] = Byte(m, r - d + i)
  <2> SUFFICES ASSUME NEW i \in 1..d PROVE wire[i] = Byte(m, r - d + i)
      OBVIOUS
  <2>1. i \in 1..need /\ i <= Len(wire)
      BY <1>2, <1>11, <1>19
  <2>2. wire[i] = Byte(s.hd[cur.csid], s.rd[cur.csid] - need + i)
      BY <2>1, <1>1, <1>10 DEF ReaderAt, PayloadAt
  <2> QED BY <2>2, <1>13, <1>14, <1>15, <1>19
<1>22. Rest(c) = d /\ d <= r
    BY <1>1, <1>13, <1>17, <1>19 DEF Rest
<1>23. /\ msgs' = msgs /\ sent' = sent /\ pend' = pend /\ peerHdr' = peerHdr
       /\ peerLast' = peerLast /\ peerSize' = peerSize /\ eof' = eof
       /\ cur' = cur /\ need' = need /\ last' = last /\ headers' = headers /\ chunks' = chunks
       /\ rpc' \in {"header", "chunk"}
       /\ \E x \in {b, None} : builders' = [builders EXCEPT ![c] = x]
       /\ readSize' \in Sizes
  <2>1. readSize \in Sizes /\ (msgs[m].type = SetChunkSize => msgs[m].size \in Sizes)
      BY <1>2, MsgFacts DEF ReaderTypes, MsgOk
  <2> QED BY <2>1, <1>18 DEF Fills
<1>24. ReaderAt(s)'
    BY <1>2, <1>10, <1>14, <1>15, <1>17, <1>18, PayloadReader
<1>25. BytesFlow(s)'
    BY <1>2, <1>10, <1>14, <1>15, <1>17, <1>18, <1>20, <1>21, <1>22, PayloadFlow
<1>26. UpTo(f, s)'
    BY <1>2, <1>10, <1>14, <1>15, <1>18, PayloadUpTo
<1>27. PICK p2 \in [1..(n + 1) -> Nat] :
          /\ Row(n, st, q, p2)'
          /\ \A j \in 1..(n + 1) : p2[j] = pos[j] - d
  <2>1. d <= pos[1]
      BY <1>7, <1>19
  <2>2. msgs' = msgs /\ eof' = eof
      BY <1>23
  <2>3. Row(n, st, q, pos) /\ wire \in Seq(Token)
      BY <1>2, <1>7
  <2> QED BY <2>1, <2>2, <2>3, <1>20, RowShift
<1>28. p2[1] = 0
    BY <1>7, <1>8, <1>19, <1>27
<1>29. PeerAt(st[n + 1])'
    BY <1>7, <1>23 DEF PeerAt
<1>30. At(f, n, st, q, p2)'
    BY <1>9, <1>23, <1>24, <1>25, <1>26, <1>27, <1>28, <1>29 DEF At
<1>31. Tracked(f)'
    BY <1>30 DEF Tracked
<1>32. AllTypes'
  <2>1. WireTypes'
    <3>1. Len(wire') = Len(wire) - d /\ wire' \in Seq(Token)
        BY <1>20 DEF Shifts
    <3> QED BY <3>1, <1>2, ReaderAssumption DEF WireTypes
  <2>2. builders' \in [Csids -> Builder \cup {None}]
      BY <1>2, <1>23 DEF ReaderTypes
  <2> QED BY <2>1, <2>2, <1>2, <1>23 DEF AllTypes, PeerTypes, MsgOk, Flags, ReaderTypes
<1>33. BuildersOk'
  <2> SUFFICES ASSUME NEW e \in Csids, builders'[e] # None
               PROVE  \E x \in 1..Len(msgs) :
                        /\ msgs[x].csid = e
                        /\ builders'[e].csid = e
                        /\ builders'[e].data = Bytes(x, 0, Len(builders'[e].data))
                        /\ builders'[e].left + Len(builders'[e].data) = msgs[x].len
      BY <1>23 DEF BuildersOk, Bytes, Byte
  <2>1. CASE e = c
    <3>1. builders'[e] = b
        BY <2>1, <1>2, <1>23 DEF ReaderTypes
    <3>2. /\ b.csid = c
          /\ b.data = Bytes(m, 0, Len(b.data))
          /\ b.left + Len(b.data) = msgs[m].len
        BY <1>2, <1>17, BuilderIsOk DEF IsPart
    <3> QED BY <2>1, <3>1, <3>2, <1>17
  <2>2. CASE e # c
    <3>1. builders'[e] = builders[e]
        BY <2>2, <1>2, <1>23 DEF ReaderTypes
    <3> QED BY <3>1, <1>2 DEF BuildersOk
  <2> QED BY <2>1, <2>2
<1>34. HeadersOk'
    BY <1>2, <1>23 DEF HeadersOk
<1>35. Sound(f)' /\ f \in [1..Len(chunks') -> 1..Len(msgs')]
    BY <1>4, <1>23 DEF Sound, Delivers, Proper, HdrOf, Bytes, Byte
<1> QED BY <1>31, <1>32, <1>33, <1>34, <1>35 DEF IInv

-----------------------------------------------------------------------------
(* A chunk is received, or an error is.                                    *)

\* The messages f2 are the messages f and then m.
Extends(f2, f, m) ==
    /\ f2 \in [1..(Len(chunks) + 1) -> 1..Len(msgs)]
    /\ \A j \in 1..Len(chunks) : f2[j] = f[j]
    /\ f2[Len(chunks) + 1] = m

\* Chunk b is added to those received, as message m.
LEMMA SoundMore ==
    ASSUME AllTypes, NEW f \in [1..Len(chunks) -> 1..Len(msgs)], Sound(f),
           NEW s \in State, UpTo(f, s), NEW c \in Csids, NEW m \in 1..Len(msgs), m = s.hd[c],
           AtWork(c), Proper(m), msgs[m].csid = c, NEW b \in Builder,
           IsBuilder(b, c, m, msgs[m].len),
           chunks' = Append(chunks, b), msgs' = msgs,
           NEW f2, Extends(f2, f, m)
    PROVE  Sound(f2)'
<1>1. PICK N \in Nat : N = Len(chunks)
    BY DEF AllTypes, ReaderTypes
<1>2. /\ DOMAIN chunks = 1..N /\ DOMAIN chunks' = 1..(N + 1)
      /\ \A j \in 1..N : chunks'[j] = chunks[j]
      /\ chunks'[N + 1] = b
    BY <1>1 DEF AllTypes, ReaderTypes
<1>3. /\ \A j \in 1..N : f2[j] = f[j] /\ f[j] \in 1..Len(msgs)
      /\ f2[N + 1] = m
      /\ \A j \in 1..(N + 1) : j \in 1..N \/ j = N + 1
    BY <1>1 DEF Extends
<1>4. /\ \A j \in 1..N :
            /\ msgs[f[j]].csid = chunks[j].csid
            /\ Proper(f[j])
            /\ \A i \in 1..(j - 1) : chunks[i].csid = chunks[j].csid => f[i] < f[j]
            /\ \A x \in 1..(f[j] - 1) :
                  msgs[x].csid = chunks[j].csid /\ Proper(x) => \E i \in 1..(j - 1) : f[i] = x
      /\ \A j \in 1..N : /\ chunks[j].data = Bytes(f[j], 0, msgs[f[j]].len)
                         /\ HdrOf(chunks[j].hdr, msgs[f[j]])
    BY <1>2 DEF Sound, Delivers
<1>5. \A x \in 1..Len(msgs) : Proper(x) => ((\E j \in 1..N : f[j] = x) <=> Through(s, x))
    BY <1>2 DEF UpTo
<1>6. \A x \in 1..Len(msgs) : msgs[x].csid = c => (Through(s, x) <=> x < m)
    BY DEF Through
<1>7. b.csid = c /\ b.data = Bytes(m, 0, msgs[m].len) /\ HdrOf(b.hdr, msgs[m])
    BY DEF IsBuilder
<1>8. ASSUME NEW j \in 1..(N + 1)
      PROVE  /\ msgs[f2[j]].csid = chunks'[j].csid
             /\ msgs[f2[j]].type # SetChunkSize
             /\ \A i \in 1..(j - 1) : chunks'[i].csid = chunks'[j].csid => f2[i] < f2[j]
             /\ \A x \in 1..(f2[j] - 1) :
                   msgs[x].csid = chunks'[j].csid /\ msgs[x].type # SetChunkSize =>
                        \E i \in 1..(j - 1) : f2[i] = x
             /\ chunks'[j].data = Bytes(f2[j], 0, msgs[f2[j]].len)
             /\ HdrOf(chunks'[j].hdr, msgs[f2[j]])
  <2>1. \A i \in 1..(j - 1) : i \in 1..N
      OBVIOUS
  <2>2. \A i \in 1..(j - 1) : f2[i] = f[i] /\ chunks'[i] = chunks[i]
      BY <2>1, <1>2, <1>3
  <2>3. CASE j \in 1..N
    <3>1. f2[j] = f[j] /\ chunks'[j] = chunks[j]
        BY <2>3, <1>2, <1>3
    <3>2. /\ msgs[f[j]].csid = chunks[j].csid
          /\ msgs[f[j]].type # SetChunkSize
          /\ chunks[j].data = Bytes(f[j], 0, msgs[f[j]].len)
          /\ HdrOf(chunks[j].hdr, msgs[f[j]])
        BY <2>3, <1>4 DEF Proper
    <3>3. /\ \A i \in 1..(j - 1) : chunks[i].csid = chunks[j].csid => f[i] < f[j]
          /\ \A x \in 1..(f[j] - 1) :
                msgs[x].csid = chunks[j].csid /\ msgs[x].type # SetChunkSize =>
                    \E i \in 1..(j - 1) : f[i] = x
        BY <2>3, <1>4 DEF Proper
    <3>4. \A i \in 1..(j - 1) : chunks'[i].csid = chunks'[j].csid => f2[i] < f2[j]
        BY <3>1, <3>3, <2>2
    <3>5. \A x \in 1..(f2[j] - 1) :
                msgs[x].csid = chunks'[j].csid /\ msgs[x].type # SetChunkSize =>
                    \E i \in 1..(j - 1) : f2[i] = x
        BY <3>1, <3>3, <2>2
    <3> QED BY <3>1, <3>2, <3>4, <3>5
  <2>4. CASE j = N + 1
    <3>1. f2[j] = m /\ chunks'[j] = b /\ j - 1 = N
        BY <2>4, <1>2, <1>3
    <3>2. ASSUME NEW i \in 1..N, chunks[i].csid = c PROVE f[i] < m
      <4>1. f[i] \in 1..Len(msgs) /\ Proper(f[i]) /\ msgs[f[i]].csid = c
          BY <3>2, <1>3, <1>4
      <4>2. Through(s, f[i])
          BY <4>1, <1>5
      <4> QED BY <4>1, <4>2, <1>6
    <3>3. ASSUME NEW x \in 1..(m - 1), msgs[x].csid = c, Proper(x)
          PROVE  \E i \in 1..N : f[i] = x
      <4>1. x \in 1..Len(msgs) /\ x < m
          BY DEF AllTypes, PeerTypes
      <4> QED BY <4>1, <3>3, <1>5, <1>6
    <3>4. \A i \in 1..(j - 1) : chunks'[i].csid = chunks'[j].csid => f2[i] < f2[j]
        BY <3>1, <3>2, <2>2, <1>7
    <3>5. \A x \in 1..(f2[j] - 1) :
                msgs[x].csid = chunks'[j].csid /\ msgs[x].type # SetChunkSize =>
                    \E i \in 1..(j - 1) : f2[i] = x
      <4> SUFFICES ASSUME NEW x \in 1..(m - 1), msgs[x].csid = c, msgs[x].type # SetChunkSize
                   PROVE  \E i \in 1..N : f2[i] = x
          BY <3>1, <1>7
      <4>1. PICK i \in 1..N : f[i] = x
          BY <3>3 DEF Proper
      <4>2. f2[i] = f[i]
          BY <4>1, <3>1, <2>2
      <4> QED BY <4>1, <4>2
    <3> QED BY <3>1, <3>4, <3>5, <1>7 DEF Proper
  <2> QED BY <2>3, <2>4, <1>3
<1>9. DOMAIN chunks' = 1..(N + 1) /\ msgs' = msgs
    BY <1>2
<1>10. Delivers(f2)'
  <2> SUFFICES ASSUME NEW j \in 1..(N + 1)
               PROVE  /\ msgs'[f2[j]].csid = chunks'[j].csid
                      /\ msgs'[f2[j]].type # SetChunkSize
                      /\ \A i \in 1..(j - 1) : chunks'[i].csid = chunks'[j].csid => f2[i] < f2[j]
                      /\ \A x \in 1..(f2[j] - 1) :
                            msgs'[x].csid = chunks'[j].csid /\ msgs'[x].type # SetChunkSize =>
                                \E i \in 1..(j - 1) : f2[i] = x
      BY <1>9 DEF Delivers, Proper
  <2> QED BY <1>8, <1>9
<1>11. \A j \in 1..(N + 1) : /\ chunks'[j].data = Bytes(f2[j], 0, msgs'[f2[j]].len)
                              /\ HdrOf(chunks'[j].hdr, msgs'[f2[j]])
    BY <1>8, <1>9
<1> QED BY <1>9, <1>10, <1>11 DEF Sound, HdrOf, Bytes, Byte

\* The bytes on a wire that does not change.
LEMMA RiseSame ==
    ASSUME wire' = wire, msgs' = msgs, BytesRise
    PROVE  BytesRise'
BY DEF BytesRise, Byte

\* A chunk that somebody receives is the next message of the list (SendChunk).
LEMMA SendChunkStep ==
    ASSUME IInv, SendChunk
    PROVE  IInv'
<1>1. /\ rpc = "chunk" /\ rpc' = "header"
      /\ chunks' = Append(chunks, builders[cur.csid])
      /\ builders' = [builders EXCEPT ![cur.csid] = None]
      /\ msgs' = msgs /\ sent' = sent /\ pend' = pend /\ peerHdr' = peerHdr
      /\ peerLast' = peerLast /\ peerSize' = peerSize /\ eof' = eof /\ wire' = wire
      /\ cur' = cur /\ need' = need /\ last' = last /\ headers' = headers /\ readSize' = readSize
    BY DEF SendChunk, peerVars, normVars
<1>2. AllTypes /\ BuildersOk /\ HeadersOk /\ wire \in Seq(Token) /\ Len(wire) \in Nat
      /\ PeerTypes /\ ReaderTypes
    BY DEF IInv, AllTypes, WireTypes, ReaderTypes
<1>3. Live
    BY <1>1 DEF Live
<1>4. PICK f \in [1..Len(chunks) -> 1..Len(msgs)] : Sound(f) /\ Tracked(f)
    BY <1>3 DEF IInv
<1>5. PICK n \in Nat : \E st \in [1..(n + 1) -> State], q \in [1..n -> Chunk],
                           pos \in [1..(n + 1) -> Nat] : At(f, n, st, q, pos)
    BY <1>4 DEF Tracked
<1>6. PICK st \in [1..(n + 1) -> State], q \in [1..n -> Chunk],
           pos \in [1..(n + 1) -> Nat] : At(f, n, st, q, pos)
    BY <1>5
<1>7. /\ pos[1] = 0
      /\ Row(n, st, q, pos) /\ PeerAt(st[n + 1]) /\ ReaderAt(st[1]) /\ BytesFlow(st[1])
      /\ UpTo(f, st[1])
    BY <1>1, <1>6 DEF At
<1>8. 1 \in 1..(n + 1)
    OBVIOUS
<1>9. PICK s \in State : s = st[1]
    BY <1>8
<1>10. StateOk(s) /\ ReaderAt(s) /\ BytesFlow(s) /\ UpTo(f, s)
    BY <1>7, <1>8, <1>9 DEF Row, States
<1>11. /\ cur.csid \in Csids /\ s.hd[cur.csid] # 0
       /\ s.rd[cur.csid] = msgs[s.hd[cur.csid]].len
       /\ Proper(s.hd[cur.csid])
    BY <1>1, <1>10 DEF ReaderAt, Working
<1>12. PICK c \in Csids : c = cur.csid
    BY <1>11
<1>13. PICK m \in 1..Len(msgs) : m = s.hd[c]
    BY <1>10, <1>11, <1>12 DEF StateOk
<1>14. msgs[m].csid = c /\ s.rd[c] = msgs[m].len /\ Proper(m) /\ m # 0 /\ msgs[m].len \in Nat
    BY <1>2, <1>10, <1>11, <1>12, <1>13, MsgFacts DEF StateOk
<1>15. AtWork(c) /\ Rest(c) = 0 /\ UnderWay(s, c)
    BY <1>1, <1>12, <1>13, <1>14 DEF AtWork, Rest, UnderWay
<1>16. IsBuilder(builders[c], c, m, msgs[m].len)
  <2>1. s.rd[c] - Rest(c) = msgs[m].len
      BY <1>14, <1>15
  <2>2. BuilderAt(s, c)
      BY <1>10 DEF ReaderAt
  <2>3. IsBuilder(builders[c], c, s.hd[c], s.rd[c] - Rest(c))
      BY <2>2, <1>15 DEF BuilderAt
  <2> QED BY <2>1, <2>3, <1>13
<1>17. PICK b \in Builder : b = builders[c]
  <2>1. builders[c].csid = c /\ None.csid = 0 /\ c # 0
      BY <1>16, Numbers DEF IsBuilder, None
  <2>2. builders[c] # None
      BY <2>1
  <2>3. builders[c] \in Builder
      BY <2>2, <1>2 DEF ReaderTypes
  <2> QED BY <2>3
<1>18. /\ IsBuilder(b, c, m, msgs[m].len) /\ chunks' = Append(chunks, b)
       /\ builders' = [builders EXCEPT ![c] = None]
    BY <1>1, <1>12, <1>16, <1>17
<1>19. PICK N \in Nat : N = Len(chunks)
    BY <1>2 DEF ReaderTypes
<1>20. PICK f2 \in [1..(N + 1) -> 1..Len(msgs)] : (\A j \in 1..N : f2[j] = f[j]) /\ f2[N + 1] = m
  <2>1. f \in [1..N -> 1..Len(msgs)]
      BY <1>19
  <2>2. /\ Put(f, N, m) \in [1..(N + 1) -> 1..Len(msgs)]
        /\ \A j \in 1..N : Put(f, N, m)[j] = f[j]
        /\ Put(f, N, m)[N + 1] = m
      BY <2>1 DEF Put
  <2> QED BY <2>2
<1>21. Sound(f2)'
  <2>1. Extends(f2, f, m)
      BY <1>19, <1>20 DEF Extends
  <2>2. msgs' = msgs
      BY <1>1
  <2>3. /\ AtWork(c) /\ Proper(m) /\ msgs[m].csid = c /\ m = s.hd[c]
      BY <1>13, <1>14, <1>15
  <2>4. IsBuilder(b, c, m, msgs[m].len) /\ chunks' = Append(chunks, b)
      BY <1>18
  <2>5. AllTypes /\ Sound(f) /\ UpTo(f, s)
      BY <1>2, <1>4, <1>10
  <2> QED BY <2>1, <2>2, <2>3, <2>4, <2>5, SoundMore
<1>22. /\ chunks \in Seq(Builder) /\ chunks' \in Seq(Builder) /\ Len(chunks') = N + 1
       /\ DOMAIN chunks = 1..N /\ DOMAIN chunks' = 1..(N + 1)
       /\ \A j \in 1..(N + 1) : j \in 1..N \/ j = N + 1
       /\ \A j \in 1..N : j \in 1..(N + 1)
    BY <1>2, <1>18, <1>19 DEF ReaderTypes
<1>23. \A d \in Csids : ~AtWork(d)' /\ Rest(d)' = 0 /\ Rest(d) = 0 /\ (AtWork(d) => d = c)
    BY <1>1, <1>12 DEF AtWork, Rest
<1>24. UpTo(f2, s)'
  <2> SUFFICES ASSUME NEW x \in 1..Len(msgs), Proper(x)
               PROVE  (\E j \in 1..(N + 1) : f2[j] = x) <=> Through(s, x)'
      BY <1>1, <1>22 DEF UpTo, Proper
  <2>1. (\E j \in 1..(N + 1) : f2[j] = x) <=> (\E j \in 1..N : f[j] = x) \/ x = m
    <3>1. N + 1 \in 1..(N + 1)
        OBVIOUS
    <3> QED BY <3>1, <1>20, <1>22, Zenon
  <2>2. (\E j \in 1..N : f[j] = x) <=> Through(s, x)
      BY <1>10, <1>22 DEF UpTo
  <2>3. msgs[x].csid \in Csids
      BY <1>2, MsgFacts
  <2>4. CASE msgs[x].csid = c
    <3>1. Through(s, x) <=> x < m
        BY <2>4, <1>13, <1>15 DEF Through
    <3>2. Through(s, x)' <=> x < m \/ x = m
        BY <2>3, <2>4, <1>1, <1>13, <1>14, <1>23 DEF Through
    <3> QED BY <3>1, <3>2, <2>1, <2>2
  <2>5. CASE msgs[x].csid # c
    <3>1. Through(s, x)' <=> Through(s, x)
        BY <2>3, <2>5, <1>1, <1>23 DEF Through
    <3>2. x # m
        BY <2>5, <1>14
    <3> QED BY <3>1, <3>2, <2>1, <2>2
  <2> QED BY <2>4, <2>5
<1>25. ReaderAt(s)'
  <2>1. Working(s)' /\ PayloadAt(s)' /\ SizeAt(s)'
      BY <1>1, <1>10 DEF ReaderAt, Working, PayloadAt, SizeAt
  <2>2. Normal(s)'
      BY <1>1, <1>10 DEF ReaderAt, Normal, HdrOf
  <2>3. ASSUME NEW d \in Csids PROVE BuilderAt(s, d)'
    <3>1. CASE d = c
      <4>1. builders'[d] = None
          BY <3>1, <1>2, <1>18 DEF ReaderTypes
      <4>2. ~UnderWay(s, d)'
          BY <3>1, <1>1, <1>13, <1>14, <1>23 DEF UnderWay
      <4> QED BY <4>1, <4>2 DEF BuilderAt
    <3>2. CASE d # c
      <4>1. builders'[d] = builders[d]
          BY <3>2, <1>2, <1>18 DEF ReaderTypes
      <4>2. UnderWay(s, d)' <=> UnderWay(s, d)
          BY <3>2, <1>1, <1>23 DEF UnderWay
      <4>3. Rest(d)' = 0 /\ Rest(d) = 0 /\ BuilderAt(s, d)
          BY <1>10, <1>23 DEF ReaderAt
      <4> QED BY <4>1, <4>2, <4>3, <1>1 DEF BuilderAt, IsBuilder, HdrOf, Bytes, Byte
    <3> QED BY <3>1, <3>2
  <2> QED BY <2>1, <2>2, <2>3 DEF ReaderAt
<1>26. BytesFlow(s)'
  <2>1. ASSUME NEW x \in 1..Len(msgs) PROVE ReadOf(s, x)' = ReadOf(s, x)
    <3>1. msgs[x].csid \in Csids
        BY <1>2, MsgFacts
    <3> QED BY <3>1, <1>1, <1>23 DEF ReadOf
  <2>2. eof' = eof /\ wire' = wire /\ msgs' = msgs /\ sent' = sent
      BY <1>1
  <2>3. BytesRise /\ BytesRead(s) /\ BytesThere(s)
      BY <1>10 DEF BytesFlow
  <2>4. BytesRise'
      BY <2>2, <2>3, RiseSame
  <2>5. BytesRead(s)'
      BY <2>1, <2>2, <2>3 DEF BytesRead
  <2>6. BytesThere(s)'
      BY <2>1, <2>2, <2>3 DEF BytesThere, Byte
  <2> QED BY <2>4, <2>5, <2>6 DEF BytesFlow
<1>27. PICK p2 \in [1..(n + 1) -> Nat] :
          /\ Row(n, st, q, p2)'
          /\ \A j \in 1..(n + 1) : p2[j] = pos[j] - 0
  <2>1. Shifts(0) /\ 0 \in Nat /\ 0 <= pos[1]
      BY <1>1, <1>2, <1>7, NoShift
  <2>2. msgs' = msgs /\ eof' = eof
      BY <1>1
  <2>3. Row(n, st, q, pos) /\ wire \in Seq(Token)
      BY <1>2, <1>7
  <2> QED BY <2>1, <2>2, <2>3, RowShift
<1>28. p2[1] = 0
    BY <1>7, <1>8, <1>27
<1>29. PeerAt(st[n + 1])'
    BY <1>1, <1>7 DEF PeerAt
<1>30. At(f2, n, st, q, p2)'
    BY <1>1, <1>9, <1>24, <1>25, <1>26, <1>27, <1>28, <1>29 DEF At
<1>31. Tracked(f2)'
    BY <1>30 DEF Tracked
<1>32. AllTypes'
  <2>1. builders' \in [Csids -> Builder \cup {None}]
      BY <1>2, <1>18 DEF ReaderTypes
  <2> QED BY <2>1, <1>1, <1>2, <1>22 DEF AllTypes, PeerTypes, MsgOk, Flags, WireTypes, ReaderTypes
<1>33. BuildersOk' /\ HeadersOk'
  <2>1. \A d \in Csids : builders'[d] = None \/ builders'[d] = builders[d]
      BY <1>2, <1>18 DEF ReaderTypes
  <2>2. msgs' = msgs /\ headers' = headers
      BY <1>1
  <2>3. \A d \in Csids : builders'[d] # None => \E x \in 1..Len(msgs) :
            /\ msgs[x].csid = d
            /\ builders'[d].csid = d
            /\ builders'[d].data = Bytes(x, 0, Len(builders'[d].data))
            /\ builders'[d].left + Len(builders'[d].data) = msgs[x].len
    <3> SUFFICES ASSUME NEW d \in Csids, builders'[d] # None
                 PROVE  \E x \in 1..Len(msgs) :
                          /\ msgs[x].csid = d
                          /\ builders'[d].csid = d
                          /\ builders'[d].data = Bytes(x, 0, Len(builders'[d].data))
                          /\ builders'[d].left + Len(builders'[d].data) = msgs[x].len
        OBVIOUS
    <3>1. builders'[d] = builders[d] /\ builders[d] # None
        BY <2>1
    <3>2. BuildersOk
        BY <1>2
    <3>3. PICK x \in 1..Len(msgs) :
            /\ msgs[x].csid = d
            /\ builders[d].csid = d
            /\ builders[d].data = Bytes(x, 0, Len(builders[d].data))
            /\ builders[d].left + Len(builders[d].data) = msgs[x].len
        BY <3>1, <3>2 DEF BuildersOk
    <3> WITNESS x \in 1..Len(msgs)
    <3> QED BY <3>1, <3>3
  <2>4. HeadersOk'
      BY <2>2, <1>2 DEF HeadersOk
  <2> QED BY <2>2, <2>3, <2>4 DEF BuildersOk, Bytes, Byte
<1>34. f2 \in [1..Len(chunks') -> 1..Len(msgs')]
    BY <1>1, <1>20, <1>22
<1> QED BY <1>21, <1>31, <1>32, <1>33, <1>34 DEF IInv

\* A read that fails changes nothing that was delivered (ReadFails).
LEMMA ReadFailsStep ==
    ASSUME IInv, ReadFails
    PROVE  IInv'
<1>1. /\ eof' = eof /\ eof /\ wire' = <<>> /\ rpc' = "err"
      /\ msgs' = msgs /\ sent' = sent /\ pend' = pend /\ peerHdr' = peerHdr
      /\ peerLast' = peerLast /\ peerSize' = peerSize
      /\ need' = need /\ cur' = cur /\ last' = last /\ headers' = headers
      /\ builders' = builders /\ readSize' = readSize /\ chunks' = chunks
    BY DEF ReadFails, peerVars, normVars
<1>2. AllTypes /\ BuildersOk /\ HeadersOk
    BY DEF IInv
<1>3. WireTypes'
    BY <1>1, ReaderAssumption DEF WireTypes
<1>4. AllTypes'
    BY <1>1, <1>2, <1>3 DEF AllTypes, PeerTypes, ReaderTypes, Flags, MsgOk
<1>5. BuildersOk' /\ HeadersOk'
    BY <1>1, <1>2 DEF BuildersOk, HeadersOk, Bytes, Byte
<1>6. PICK f \in [1..Len(chunks) -> 1..Len(msgs)] : Sound(f)
    BY DEF IInv
<1>7. Sound(f)' /\ f \in [1..Len(chunks') -> 1..Len(msgs')]
    BY <1>1, <1>6 DEF Sound, Delivers, Proper, HdrOf, Bytes, Byte
<1>8. ~Live'
    BY <1>1 DEF Live
<1> QED BY <1>4, <1>5, <1>7, <1>8 DEF IInv

\* Nothing changes, or Recv goes on after an error.
LEMMA QuietStep ==
    ASSUME IInv, SendErr \/ UNCHANGED vars
    PROVE  IInv'
<1>1. /\ eof' = eof /\ wire' = wire /\ (rpc' = rpc \/ (rpc = "err" /\ rpc' = "header"))
      /\ msgs' = msgs /\ sent' = sent /\ pend' = pend /\ peerHdr' = peerHdr
      /\ peerLast' = peerLast /\ peerSize' = peerSize
      /\ need' = need /\ cur' = cur /\ last' = last /\ headers' = headers
      /\ builders' = builders /\ readSize' = readSize /\ chunks' = chunks
    BY DEF SendErr, vars, readerVars, peerVars, normVars
<1>2. AllTypes /\ BuildersOk /\ HeadersOk /\ wire \in Seq(Token)
    BY DEF IInv, AllTypes, WireTypes
<1>3. AllTypes'
    BY <1>1, <1>2 DEF AllTypes, PeerTypes, WireTypes, ReaderTypes, Flags, MsgOk
<1>4. BuildersOk' /\ HeadersOk'
    BY <1>1, <1>2 DEF BuildersOk, HeadersOk, Bytes, Byte
<1>5. PICK f \in [1..Len(chunks) -> 1..Len(msgs)] : Sound(f) /\ (Live => Tracked(f))
    BY DEF IInv
<1>6. Sound(f)' /\ f \in [1..Len(chunks') -> 1..Len(msgs')]
    BY <1>1, <1>5 DEF Sound, Delivers, Proper, HdrOf, Bytes, Byte
<1>7. ASSUME Live' PROVE Tracked(f)'
  <2>1. Live
      BY <1>1, <1>7 DEF Live
  <2>2. PICK n \in Nat : \E st \in [1..(n + 1) -> State], q \in [1..n -> Chunk],
                             pos \in [1..(n + 1) -> Nat] : At(f, n, st, q, pos)
      BY <2>1, <1>5 DEF Tracked
  <2>3. PICK st \in [1..(n + 1) -> State], q \in [1..n -> Chunk],
             pos \in [1..(n + 1) -> Nat] : At(f, n, st, q, pos)
      BY <2>2
  <2>4. /\ pos[1] = IF rpc = "payload" THEN need ELSE 0
        /\ Row(n, st, q, pos) /\ PeerAt(st[n + 1]) /\ ReaderAt(st[1]) /\ BytesFlow(st[1])
        /\ UpTo(f, st[1])
      BY <2>3 DEF At
  <2>5. \A c \in Csids : (AtWork(c)' <=> AtWork(c)) /\ Rest(c)' = Rest(c)
      BY <1>1 DEF AtWork, Rest
  <2>6. 1 \in 1..(n + 1)
      OBVIOUS
  <2>7. PICK p2 \in [1..(n + 1) -> Nat] :
          /\ Row(n, st, q, p2)'
          /\ \A j \in 1..(n + 1) : p2[j] = pos[j] - 0
    <3>1. Shifts(0) /\ 0 \in Nat /\ 0 <= pos[1]
      <4>1. pos[1] \in Nat
          BY <2>6
      <4> QED BY <4>1, <1>1, <1>2, NoShift
    <3>2. msgs' = msgs /\ eof' = eof
        BY <1>1
    <3>3. Row(n, st, q, pos) /\ wire \in Seq(Token)
        BY <1>2, <2>4
    <3> QED BY <3>1, <3>2, <3>3, RowShift
  <2>8. p2[1] = pos[1]
      BY <2>6, <2>7
  <2>9. PeerAt(st[n + 1])'
      BY <1>1, <2>4 DEF PeerAt
  <2>10. UpTo(f, st[1])'
    <3>1. \A x \in 1..Len(msgs) : Through(st[1], x)' <=> Through(st[1], x)
      <4> SUFFICES ASSUME NEW x \in 1..Len(msgs)
                   PROVE  Through(st[1], x)' <=> Through(st[1], x)
          OBVIOUS
      <4>1. msgs[x].csid \in Csids
          BY <1>2, MsgFacts DEF AllTypes
      <4> QED BY <4>1, <1>1, <2>5 DEF Through
    <3> QED BY <3>1, <1>1, <2>4 DEF UpTo, Proper
  <2>11. BytesFlow(st[1])'
    <3>a. PICK s \in State : s = st[1]
        BY <2>6
    <3>1. ASSUME NEW x \in 1..Len(msgs) PROVE ReadOf(s, x)' = ReadOf(s, x)
      <4>1. msgs[x].csid \in Csids
          BY <1>2, MsgFacts DEF AllTypes
      <4> QED BY <4>1, <1>1, <2>5 DEF ReadOf
    <3>2. eof' = eof /\ wire' = wire /\ msgs' = msgs /\ sent' = sent
        BY <1>1
    <3>3. BytesRise /\ BytesRead(s) /\ BytesThere(s)
        BY <3>a, <2>4 DEF BytesFlow
    <3>b. BytesRise'
        BY <3>2, <3>3, RiseSame
    <3>c. BytesRead(s)'
        BY <3>1, <3>2, <3>3 DEF BytesRead
    <3>d. BytesThere(s)'
        BY <3>1, <3>2, <3>3, SMTT(40) DEF BytesThere, Byte
    <3>4. BytesFlow(s)'
        BY <3>b, <3>c, <3>d DEF BytesFlow
    <3> QED BY <3>4, <3>a
  <2>12. ReaderAt(st[1])'
    <3>1. Working(st[1])' /\ Normal(st[1])' /\ SizeAt(st[1])'
        BY <1>1, <2>4, ZenonT(30) DEF ReaderAt, Working, Proper, Normal, HdrOf, SizeAt, SizeThen
    <3>2. PayloadAt(st[1])'
        BY <1>1, <2>4 DEF ReaderAt, PayloadAt, Byte
    <3>3. \A c \in Csids : BuilderAt(st[1], c)'
      <4> SUFFICES ASSUME NEW c \in Csids PROVE BuilderAt(st[1], c)'
          OBVIOUS
      <4>1. BuilderAt(st[1], c)
          BY <2>4 DEF ReaderAt
      <4>2. UnderWay(st[1], c)' <=> UnderWay(st[1], c)
          BY <1>1, <2>5 DEF UnderWay
      <4>3. Rest(c)' = Rest(c) /\ builders' = builders /\ msgs' = msgs
          BY <1>1, <2>5
      <4> QED BY <4>1, <4>2, <4>3 DEF BuilderAt, IsBuilder, HdrOf, Bytes, Byte
    <3> QED BY <3>1, <3>2, <3>3 DEF ReaderAt
  <2>13. At(f, n, st, q, p2)'
      BY <1>1, <2>4, <2>7, <2>8, <2>9, <2>10, <2>11, <2>12 DEF At
  <2> QED BY <2>13 DEF Tracked
<1> QED BY <1>3, <1>4, <1>6, <1>7 DEF IInv

-----------------------------------------------------------------------------
(* The invariant.                                                          *)

\* The invariant holds on a new connection.
LEMMA InitInv ==
    ASSUME Init
    PROVE  IInv
<1>1. /\ msgs = <<>> /\ sent = <<>> /\ pend = [c \in Csids |-> 0]
      /\ peerHdr = [c \in Csids |-> 0] /\ peerLast = 0 /\ peerSize = FirstSize
      /\ wire = <<>> /\ eof = FALSE /\ rpc = "header" /\ cur = None /\ need = 0
      /\ last = None /\ headers = [c \in Csids |-> None] /\ builders = [c \in Csids |-> None]
      /\ readSize = FirstSize /\ chunks = <<>>
    BY DEF Init
<1>2. Len(msgs) = 0 /\ Len(wire) = 0 /\ Len(chunks) = 0 /\ 1..0 = {}
    BY <1>1
<1>3. AllTypes
  <2>1. PeerTypes
      BY <1>1, <1>2, Numbers, ReaderAssumption DEF PeerTypes
  <2>2. WireTypes
      BY <1>1, <1>2, ReaderAssumption DEF WireTypes
  <2>3. ReaderTypes /\ Flags
    <3>1. <<>> \in Seq(Builder) /\ FirstSize \in Sizes
        BY Numbers
    <3>2. /\ headers \in [Csids -> HdrSet \cup {None}]
          /\ builders \in [Csids -> Builder \cup {None}]
        BY <1>1
    <3> QED BY <3>1, <3>2, <1>1 DEF ReaderTypes, Flags
  <2> QED BY <2>1, <2>2, <2>3 DEF AllTypes
<1>4. BuildersOk /\ HeadersOk
    BY <1>1 DEF BuildersOk, HeadersOk
<1>5. PICK f \in [1..0 -> 1..0] : TRUE
  <2>1. [x \in 1..0 |-> 0] \in [1..0 -> 1..0]
      BY <1>2
  <2> QED BY <2>1
<1>6. Sound(f) /\ f \in [1..Len(chunks) -> 1..Len(msgs)]
    BY <1>1, <1>2 DEF Sound, Delivers
<1>7. PICK s \in State : /\ s.hd = [c \in Csids |-> 0] /\ s.rd = [c \in Csids |-> 0]
                         /\ s.last = 0 /\ s.size = FirstSize
  <2>1. [hd |-> [c \in Csids |-> 0], rd |-> [c \in Csids |-> 0],
         last |-> 0, size |-> FirstSize] \in State
      BY Numbers DEF State
  <2> QED BY <2>1
<1>8. \A c \in Csids : s.hd[c] = 0 /\ s.rd[c] = 0
    BY <1>7
<1>9. PICK st \in [1..(0 + 1) -> State] : st[1] = s
  <2>1. [x \in 1..(0 + 1) |-> s] \in [1..(0 + 1) -> State] /\ 1 \in 1..(0 + 1)
      OBVIOUS
  <2> QED BY <2>1
<1>10. PICK pos \in [1..(0 + 1) -> Nat] : pos[1] = 0
  <2>1. [x \in 1..(0 + 1) |-> 0] \in [1..(0 + 1) -> Nat] /\ 1 \in 1..(0 + 1)
      OBVIOUS
  <2> QED BY <2>1
<1>11. PICK q \in [1..0 -> Chunk] : TRUE
  <2>1. [x \in 1..0 |-> 0] \in [1..0 -> Chunk]
      BY <1>2
  <2> QED BY <2>1
<1>12. 0 + 1 = 1 /\ (\A j \in 1..(0 + 1) : j = 1) /\ 1 \in 1..(0 + 1)
    OBVIOUS
<1>13. Row(0, st, q, pos)
  <2>1. StateOk(s)
      BY <1>7, <1>8 DEF StateOk
  <2>2. States(0, st)
      BY <2>1, <1>9, <1>12 DEF States
  <2>3. Steps(0, st, q) /\ Tokens(0, q, pos) /\ Spans(0, q, pos)
      BY <1>2 DEF Steps, Tokens, Spans
  <2>4. Rising(0, pos)
      BY <1>10, <1>12 DEF Rising
  <2>5. WireEnds(0, pos)
      BY <1>2, <1>10, <1>12 DEF WireEnds
  <2> QED BY <2>2, <2>3, <2>4, <2>5 DEF Row
<1>14. PeerAt(s)
    BY <1>1, <1>2, <1>7 DEF PeerAt
<1>15. ReaderAt(s)
  <2>1. Working(s) /\ SizeAt(s) /\ PayloadAt(s)
      BY <1>1, <1>7 DEF Working, SizeAt, PayloadAt
  <2>2. Normal(s)
      BY <1>1, <1>7, <1>8 DEF Normal
  <2>3. \A c \in Csids : BuilderAt(s, c)
      BY <1>1, <1>8 DEF BuilderAt, UnderWay
  <2> QED BY <2>1, <2>2, <2>3 DEF ReaderAt
<1>16. BytesFlow(s) /\ UpTo(f, s)
    BY <1>2 DEF BytesFlow, BytesRise, BytesRead, BytesThere, UpTo
<1>17. At(f, 0, st, q, pos)
    BY <1>1, <1>9, <1>10, <1>12, <1>13, <1>14, <1>15, <1>16 DEF At
<1>18. Tracked(f)
    BY <1>17 DEF Tracked
<1> QED BY <1>3, <1>4, <1>6, <1>18 DEF IInv

\* Everything that the peer does keeps the invariant.
LEMMA PeerSteps ==
    ASSUME ~ExtLong, 2 \notin Formats, IInv, Peer
    PROVE  IInv'
<1>1. CASE StartMessage
  <2>1. PICK f \in 0..3, m \in PlainMsgs : Start(m.csid, f, m)
      BY <1>1 DEF StartMessage
  <2>2. m \in Msg /\ m.csid \in Csids /\ m.type # SetChunkSize
    <3>1. Lens \subseteq Nat /\ SetChunkSize \notin Types
        BY ReaderAssumption DEF SetChunkSize
    <3>2. /\ m = [csid |-> m.csid, type |-> m.type, msid |-> m.msid, len |-> m.len,
                  ext |-> m.ext, size |-> m.size, sure |-> m.sure]
          /\ m.csid \in Csids /\ m.type \in Types /\ m.msid \in Msids
          /\ m.len \in Lens /\ m.ext \in BOOLEAN /\ m.size = 0 /\ m.sure \in BOOLEAN
        BY DEF PlainMsgs
    <3>3. m.type \in Types \cup {SetChunkSize} /\ m.msid \in Msids \cup {0}
        BY <3>2
    <3>4. m.len \in Nat /\ m.size \in Nat
        BY <3>1, <3>2
    <3>5. m \in Msg
        BY <3>2, <3>3, <3>4 DEF Msg
    <3> QED BY <3>1, <3>2, <3>5
  <2>3. Starts(m.csid, f, m)
      BY <2>2 DEF Starts, MsgOk
  <2> QED BY <2>1, <2>2, <2>3, StartStep
<1>2. CASE StartSetChunkSize
  <2>1. PICK m \in SizeMsgs : Start(m.csid, 0, m)
      BY <1>2 DEF StartSetChunkSize
  <2>2. m \in Msg /\ m.csid \in Csids
      BY ReaderAssumption DEF SizeMsgs, Msg
  <2>3. Starts(m.csid, 0, m)
      BY ReaderAssumption DEF SizeMsgs, Starts, MsgOk
  <2>4. 0 \in 0..3
      OBVIOUS
  <2> QED BY <2>1, <2>2, <2>3, <2>4, StartStep
<1>3. CASE \E c \in Csids : Continue(c)
    BY <1>3, ContinueStep
<1>4. CASE Cut
    BY <1>4, CutStep
<1> QED BY <1>1, <1>2, <1>3, <1>4 DEF Peer

\* The reader and the peer stay in step: the inductive invariant holds always.
THEOREM Invariant ==
    ASSUME ~ExtLong, 2 \notin Formats
    PROVE  Spec => []IInv
<1>1. Init => IInv
    BY InitInv
<1>2. IInv /\ [Next]_vars => IInv'
    BY PeerSteps, ReadHeaderStep, ReadPayloadStep, SendChunkStep, ReadFailsStep, QuietStep
       DEF Next, Recv
<1> QED BY <1>1, <1>2, PTL DEF Spec

-----------------------------------------------------------------------------
(* What follows from it.                                                   *)

\* The invariant gives the types.
LEMMA TypesFollow ==
    ASSUME IInv
    PROVE  TypeOK
<1>1. AllTypes /\ BuildersOk /\ HeadersOk
    BY DEF IInv
<1>2. rpc = "payload" => need <= builders[cur.csid].left
  <2> SUFFICES ASSUME rpc = "payload" PROVE need <= builders[cur.csid].left
      OBVIOUS
  <2>1. Live
      BY DEF Live
  <2>2. PICK f \in [1..Len(chunks) -> 1..Len(msgs)] : Tracked(f)
      BY <2>1 DEF IInv
  <2>3. PICK n \in Nat : \E st \in [1..(n + 1) -> State], q \in [1..n -> Chunk],
                             pos \in [1..(n + 1) -> Nat] : At(f, n, st, q, pos)
      BY <2>2 DEF Tracked
  <2>4. PICK st \in [1..(n + 1) -> State], q \in [1..n -> Chunk],
             pos \in [1..(n + 1) -> Nat] : At(f, n, st, q, pos)
      BY <2>3
  <2>5. 1 \in 1..(n + 1)
      OBVIOUS
  <2>6. PICK s \in State : s = st[1]
      BY <2>5
  <2>7. ReaderAt(s) /\ StateOk(s)
      BY <2>4, <2>5, <2>6 DEF At, Row, States
  <2>8. cur.csid \in Csids /\ s.hd[cur.csid] # 0 /\ need <= s.rd[cur.csid]
      BY <2>7 DEF ReaderAt, Working
  <2>9. PICK c \in Csids : c = cur.csid
      BY <2>8
  <2>10. s.hd[c] \in 1..Len(msgs) /\ s.rd[c] <= msgs[s.hd[c]].len /\ s.rd[c] \in Nat
      BY <2>7, <2>8, <2>9, StateFacts DEF StateOk
  <2>11. msgs[s.hd[c]].len \in Nat /\ need \in Nat
      BY <2>10, <1>1, MsgFacts DEF AllTypes, ReaderTypes
  <2>12. UnderWay(s, c) /\ Rest(c) = need
      BY <2>8, <2>9 DEF UnderWay, AtWork, Rest
  <2>13. builders[c].left = msgs[s.hd[c]].len - (s.rd[c] - need)
      BY <2>7, <2>12 DEF ReaderAt, BuilderAt, IsBuilder
  <2>14. need <= msgs[s.hd[c]].len - (s.rd[c] - need)
      BY <2>8, <2>9, <2>10, <2>11, LeftOver
  <2> QED BY <2>9, <2>13, <2>14
<1>3. DOMAIN sent = DOMAIN msgs
    BY <1>1 DEF AllTypes, PeerTypes
<1>4. pend \in [Csids -> 0..MaxMsgs] /\ peerHdr \in [Csids -> 0..MaxMsgs]
  <2>1. /\ Len(msgs) \in Nat /\ Len(msgs) <= MaxMsgs /\ MaxMsgs \in Nat
        /\ pend \in [Csids -> 0..Len(msgs)] /\ peerHdr \in [Csids -> 0..Len(msgs)]
      BY <1>1, ReaderAssumption DEF AllTypes, PeerTypes
  <2>2. 0..Len(msgs) \subseteq 0..MaxMsgs
      BY <2>1
  <2> QED BY <2>1, <2>2
<1>5. /\ peerLast \in Csids \cup {0} /\ {peerSize, readSize} \subseteq Sizes
      /\ Len(wire) <= MaxWire /\ eof \in BOOLEAN
      /\ rpc \in {"header", "payload", "chunk", "err"}
    BY <1>1 DEF AllTypes, PeerTypes, WireTypes, ReaderTypes, Flags
<1>6. \A c \in Csids : builders[c] = None \/ builders[c].csid = c
    BY <1>1 DEF BuildersOk
<1>7. \A c \in Csids : headers[c] = None \/ headers[c].csid = c
    BY <1>1 DEF HeadersOk
<1> QED BY <1>2, <1>3, <1>4, <1>5, <1>6, <1>7 DEF TypeOK

\* The invariant keeps the reader in step: what it reads is the start of a chunk.
LEMMA InStepFollows ==
    ASSUME IInv
    PROVE  InStep
<1>1. AllTypes /\ wire \in Seq(Token) /\ Len(wire) \in Nat /\ need \in Nat
    BY DEF IInv, AllTypes, WireTypes, ReaderTypes
<1>2. ASSUME Live
      PROVE  \E f \in [1..Len(chunks) -> 1..Len(msgs)], n \in Nat :
                \E st \in [1..(n + 1) -> State], q \in [1..n -> Chunk],
                   pos \in [1..(n + 1) -> Nat] : At(f, n, st, q, pos)
    BY <1>2 DEF IInv, Tracked
<1>3. ASSUME rpc = "header", wire # <<>> PROVE wire[1].k = "header"
  <2>1. Live
      BY <1>3 DEF Live
  <2>2. PICK f \in [1..Len(chunks) -> 1..Len(msgs)], n \in Nat :
                \E st \in [1..(n + 1) -> State], q \in [1..n -> Chunk],
                   pos \in [1..(n + 1) -> Nat] : At(f, n, st, q, pos)
      BY <2>1, <1>2
  <2>3. PICK st \in [1..(n + 1) -> State], q \in [1..n -> Chunk],
             pos \in [1..(n + 1) -> Nat] : At(f, n, st, q, pos)
      BY <2>2
  <2>4. wire[1] = Hdr(Header(q[1].fmt, q[1].csid, msgs[q[1].m]))
      BY <1>1, <1>3, <2>3, FirstChunk
  <2> QED BY <2>4, TokenFacts
<1>4. ASSUME rpc = "payload", NEW i \in 1..Min(need, Len(wire)) PROVE wire[i].k = "byte"
  <2>1. Live
      BY <1>4 DEF Live
  <2>2. PICK f \in [1..Len(chunks) -> 1..Len(msgs)], n \in Nat :
                \E st \in [1..(n + 1) -> State], q \in [1..n -> Chunk],
                   pos \in [1..(n + 1) -> Nat] : At(f, n, st, q, pos)
      BY <2>1, <1>2
  <2>3. PICK st \in [1..(n + 1) -> State] : PayloadAt(st[1])
      BY <2>2 DEF At, ReaderAt
  <2>4. i \in 1..need /\ i <= Len(wire)
      BY <1>1 DEF Min
  <2>5. wire[i] = Byte(st[1].hd[cur.csid], st[1].rd[cur.csid] - need + i)
      BY <1>4, <2>3, <2>4 DEF PayloadAt
  <2> QED BY <2>5, TokenFacts
<1> QED BY <1>3, <1>4 DEF InStep

\* The invariant says which messages the chunks are.
LEMMA ReassembledFollows ==
    ASSUME IInv
    PROVE  Reassembled /\ HeadersFilled
<1>1. DOMAIN chunks = 1..Len(chunks) /\ DOMAIN msgs = 1..Len(msgs)
    BY DEF IInv, AllTypes, PeerTypes, ReaderTypes
<1>2. PICK f \in [1..Len(chunks) -> 1..Len(msgs)] : Sound(f)
    BY DEF IInv
<1>3. Delivers(f) /\ \A k \in DOMAIN chunks : /\ chunks[k].data = Bytes(f[k], 0, msgs[f[k]].len)
                                              /\ HdrOf(chunks[k].hdr, msgs[f[k]])
    BY <1>2 DEF Sound
<1>4. f \in [DOMAIN chunks -> DOMAIN msgs]
    BY <1>1
<1>5. Reassembled
    BY <1>3, <1>4 DEF Reassembled
<1>6. HeadersFilled
  <2>1. \A k \in DOMAIN chunks :
            /\ chunks[k].hdr.type = msgs[f[k]].type
            /\ chunks[k].hdr.len = msgs[f[k]].len
            /\ msgs[f[k]].sure => chunks[k].hdr.msid = msgs[f[k]].msid
      BY <1>3 DEF HdrOf
  <2> QED BY <2>1, <1>3, <1>4 DEF HeadersFilled
<1> QED BY <1>5, <1>6

\* A token that is a byte of message m is Byte(m, i) for some i.
LEMMA ByteTokens ==
    ASSUME NEW x \in Token, NEW m, x.k = "byte", x.m = m
    PROVE  x.i \in Nat /\ x = Byte(m, x.i)
<1>1. CASE x \in {Hdr(h) : h \in HdrSet}
  <2>1. PICK h \in HdrSet : x = Hdr(h)
      BY <1>1
  <2>2. x.k = "header"
      BY <2>1, TokenFacts
  <2> QED BY <2>2
<1>2. CASE x = Ext
  <2>1. x.k = "extended"
      BY <1>2, TokenFacts
  <2> QED BY <2>1
<1>3. CASE x \in {Byte(n, i) : n, i \in Nat}
  <2>1. PICK n \in Nat, i \in Nat : x = Byte(n, i)
      BY <1>3
  <2>2. x.m = n /\ x.i = i
      BY <2>1, TokenFacts
  <2> QED BY <2>1, <2>2
<1> QED BY <1>1, <1>2, <1>3 DEF Token

\* The invariant says what the builders hold.
LEMMA BuildersFollow ==
    ASSUME IInv
    PROVE  BuildersMatch
<1>1. /\ AllTypes /\ BuildersOk /\ PeerTypes /\ wire \in Seq(Token) /\ Len(wire) \in Nat
      /\ DOMAIN msgs = 1..Len(msgs) /\ DOMAIN wire = 1..Len(wire)
    BY DEF IInv, AllTypes, WireTypes, PeerTypes
<1>2. CASE eof
    BY <1>1, <1>2 DEF BuildersOk, BuildersMatch
<1>3. CASE ~eof
  <2>1. Live
      BY <1>3 DEF Live
  <2>2. PICK f \in [1..Len(chunks) -> 1..Len(msgs)] : Tracked(f)
      BY <2>1 DEF IInv
  <2>3. PICK n \in Nat : \E st \in [1..(n + 1) -> State], q \in [1..n -> Chunk],
                             pos \in [1..(n + 1) -> Nat] : At(f, n, st, q, pos)
      BY <2>2 DEF Tracked
  <2>4. PICK st \in [1..(n + 1) -> State], q \in [1..n -> Chunk],
             pos \in [1..(n + 1) -> Nat] : At(f, n, st, q, pos)
      BY <2>3
  <2>5. 1 \in 1..(n + 1)
      OBVIOUS
  <2>6. PICK s \in State : s = st[1]
      BY <2>5
  <2>7. /\ Row(n, st, q, pos) /\ PeerAt(st[n + 1]) /\ ReaderAt(s) /\ BytesFlow(s) /\ StateOk(s)
        /\ pos[1] = IF rpc = "payload" THEN need ELSE 0
      BY <2>4, <2>5, <2>6 DEF At, Row, States
  <2>8. \A c \in Csids : builders[c] # None => UnderWay(s, c)
      BY <2>7 DEF ReaderAt, BuilderAt
  <2>9. ASSUME NEW c \in Csids, builders[c] # None
        PROVE  \E m \in 1..Len(msgs) :
                /\ msgs[m].csid = c
                /\ builders[c].data = Bytes(m, 0, Len(builders[c].data))
                /\ builders[c].left + Len(builders[c].data) = msgs[m].len
                /\ OnWire(m) = (Len(builders[c].data) + 1)..sent[m]
    <3>1. UnderWay(s, c)
        BY <2>8, <2>9
    <3>2. PICK m \in 1..Len(msgs) : m = s.hd[c] /\ msgs[m].csid = c
        BY <3>1, <2>7 DEF UnderWay, StateOk
    <3>3. PICK r \in Nat : r = s.rd[c] - Rest(c)
      <4>1. s.rd[c] \in Nat
          BY StateFacts
      <4>2. rpc = "payload" /\ cur.csid = c => need <= s.rd[c] /\ need \in Nat
          BY <1>1, <2>7 DEF ReaderAt, Working, AllTypes, ReaderTypes
      <4> QED BY <4>1, <4>2 DEF Rest
    <3>4. IsBuilder(builders[c], c, m, r)
        BY <3>1, <3>2, <3>3, <2>7 DEF ReaderAt, BuilderAt
    <3>5. /\ builders[c].data = Bytes(m, 0, Len(builders[c].data))
          /\ builders[c].left + Len(builders[c].data) = msgs[m].len
      <4>1. PeerTypes
          BY <1>1
      <4>2. IsPart(builders[c], m)
          BY <4>1, <3>4, BuilderIsOk
      <4> QED BY <4>2 DEF IsPart
    <3>6. Len(builders[c].data) = r
      <4>1. m \in Nat /\ 0 \in Nat
          BY <1>1
      <4>2. Len(Bytes(m, 0, r)) = r
          BY <4>1, BytesFacts
      <4> QED BY <4>2, <3>4 DEF IsBuilder
    <3>7. ReadOf(s, m) = r
        BY <3>2, <3>3 DEF ReadOf
    <3>8. sent[m] \in Nat
        BY <1>1, SentFacts
    <3>9. \A i \in Nat : (\E p \in 1..Len(wire) : wire[p] = Byte(m, i)) <=> r < i /\ i <= sent[m]
        BY <3>7, <2>7, <1>3 DEF BytesFlow, BytesRise, BytesRead, BytesThere
    <3>10. \A i : i \in (r + 1)..sent[m] <=> i \in Nat /\ r < i /\ i <= sent[m]
        BY <3>8
    <3>11. ASSUME NEW i \in OnWire(m) PROVE i \in (r + 1)..sent[m]
      <4>1. PICK p \in 1..Len(wire) : wire[p].k = "byte" /\ wire[p].m = m /\ wire[p].i = i
          BY <1>1 DEF OnWire
      <4>2. wire[p] \in Token
          BY <1>1
      <4>3. i \in Nat /\ wire[p] = Byte(m, i)
          BY <4>1, <4>2, ByteTokens
      <4> QED BY <4>3, <3>9, <3>10
    <3>12. ASSUME NEW i \in (r + 1)..sent[m] PROVE i \in OnWire(m)
      <4>1. i \in Nat /\ r < i /\ i <= sent[m]
          BY <3>10
      <4>2. PICK p \in 1..Len(wire) : wire[p] = Byte(m, i)
          BY <4>1, <3>9
      <4>3. wire[p].k = "byte" /\ wire[p].m = m /\ wire[p].i = i
          BY <4>2, TokenFacts
      <4> QED BY <4>3, <1>1 DEF OnWire
    <3>13. OnWire(m) = (r + 1)..sent[m]
        BY <3>11, <3>12
    <3> QED BY <3>2, <3>5, <3>6, <3>13
  <2>10. ASSUME wire = <<>>, rpc = "header"
         PROVE  /\ \A c \in Csids : builders[c] # None <=> pend[c] # 0
                /\ readSize = peerSize
    <3>1. Len(wire) = 0 /\ pos[1] = 0 /\ pos[n + 1] = 0
        BY <2>7, <2>10, <1>3 DEF Row, WireEnds
    <3>2. n = 0
      <4> SUFFICES ASSUME n # 0 PROVE FALSE
          OBVIOUS
      <4>1. 1 \in 1..n /\ 1 + 1 = 2 /\ 2 \in 1..(n + 1) /\ n + 1 \in 1..(n + 1) /\ 2 <= n + 1
          OBVIOUS
      <4>2. pos[2] = pos[1] + HLen(q[1]) + q[1].n /\ pos[2] <= pos[n + 1]
          BY <4>1, <2>7 DEF Row, Spans, Rising
      <4>3. q[1].n \in Nat /\ HLen(q[1]) \in {1, 2}
          BY <4>1, ChunkFacts DEF HLen
      <4> QED BY <3>1, <4>2, <4>3
    <3>3. PeerAt(s)
        BY <3>2, <2>6, <2>7
    <3>4. ASSUME NEW c \in Csids PROVE builders[c] # None <=> pend[c] # 0
      <4>1. pend[c] # 0 <=> s.hd[c] # 0 /\ s.rd[c] < msgs[s.hd[c]].len
          BY <3>3 DEF PeerAt
      <4>2. UnderWay(s, c) <=> s.hd[c] # 0 /\ s.rd[c] < msgs[s.hd[c]].len
          BY <2>10 DEF UnderWay, AtWork
      <4>3. UnderWay(s, c) => builders[c] # None
        <5> SUFFICES ASSUME UnderWay(s, c) PROVE builders[c] # None
            OBVIOUS
        <5>1. builders[c].csid = c /\ None.csid = 0 /\ c # 0
            BY <2>7, Numbers DEF ReaderAt, BuilderAt, IsBuilder, None
        <5> QED BY <5>1
      <4> QED BY <4>1, <4>2, <4>3, <2>8
    <3>5. readSize = peerSize
        BY <3>3, <2>7, <2>10 DEF PeerAt, ReaderAt, SizeAt
    <3> QED BY <3>4, <3>5
  <2> QED BY <2>9, <2>10, <1>1, <1>3 DEF BuildersMatch
<1> QED BY <1>2, <1>3

\* A reader that waits has read all that is on the wire.
LEMMA WaitsAtEnd ==
    ASSUME AllTypes, ~eof, Waits, NEW f, NEW n \in Nat, NEW st \in [1..(n + 1) -> State],
           NEW q \in [1..n -> Chunk], NEW pos \in [1..(n + 1) -> Nat], At(f, n, st, q, pos)
    PROVE  rpc = "header" /\ wire = <<>> /\ n = 0
<1>1. /\ wire \in Seq(Token) /\ Len(wire) \in Nat /\ need \in Nat
    BY DEF AllTypes, WireTypes, ReaderTypes
<1>2. /\ Row(n, st, q, pos) /\ pos[1] = IF rpc = "payload" THEN need ELSE 0
    BY DEF At
<1>3. Len(wire) = pos[n + 1] /\ pos[1] <= pos[n + 1]
  <2>1. 1 \in 1..(n + 1) /\ n + 1 \in 1..(n + 1) /\ 1 <= n + 1
      OBVIOUS
  <2> QED BY <1>2, <2>1 DEF Row, WireEnds, Rising
<1>4. n # 0 => /\ pos[2] = pos[1] + HLen(q[1]) + q[1].n /\ pos[2] <= pos[n + 1]
               /\ q[1].n \in Nat /\ HLen(q[1]) \in {1, 2} /\ pos[1] \in Nat /\ pos[2] \in Nat
  <2> SUFFICES ASSUME n # 0
               PROVE  /\ pos[2] = pos[1] + HLen(q[1]) + q[1].n /\ pos[2] <= pos[n + 1]
                      /\ q[1].n \in Nat /\ HLen(q[1]) \in {1, 2} /\ pos[1] \in Nat
                      /\ pos[2] \in Nat
      OBVIOUS
  <2>1. 1 \in 1..n /\ 1 + 1 = 2 /\ 2 \in 1..(n + 1) /\ n + 1 \in 1..(n + 1) /\ 2 <= n + 1
        /\ 1 \in 1..(n + 1)
      OBVIOUS
  <2>2. pos[2] = pos[1] + HLen(q[1]) + q[1].n /\ pos[2] <= pos[n + 1]
      BY <2>1, <1>2 DEF Row, Spans, Rising
  <2>3. q[1].n \in Nat /\ HLen(q[1]) \in {1, 2}
      BY <2>1, ChunkFacts DEF HLen
  <2> QED BY <2>1, <2>2, <2>3
<1>5. rpc = "header"
  <2>1. rpc = "payload" => Len(wire) >= need
      BY <1>1, <1>2, <1>3
  <2> QED BY <2>1, <1>1 DEF Waits, Short
<1>6. wire = <<>>
  <2> SUFFICES ASSUME wire # <<>> PROVE FALSE
      OBVIOUS
  <2>1. /\ n # 0 /\ pos[1] = 0
        /\ wire[1] = Hdr(Header(q[1].fmt, q[1].csid, msgs[q[1].m]))
      BY <1>5, FirstChunk
  <2>2. wire[1].k = "header" /\ wire[1].h = Header(q[1].fmt, q[1].csid, msgs[q[1].m])
      BY <2>1, TokenFacts DEF Hdr
  <2>3. Len(wire) >= HLen(q[1])
      BY <1>1, <1>3, <1>4, <2>1
  <2>4. HeaderLen(wire[1].h) <= HLen(q[1])
    <3>1. \A a, b, m : Header(a, b, m).ext => m.ext
        BY DEF Header
    <3>2. wire[1].h.ext => msgs[q[1].m].ext
        BY <2>2, <3>1, Zenon
    <3> QED BY <3>2 DEF HeaderLen, HLen
  <2>5. HeaderLen(wire[1].h) \in {1, 2}
      BY DEF HeaderLen
  <2>6. ~(Len(wire) < HeaderLen(wire[1].h))
      BY <1>1, <1>4, <2>1, <2>3, <2>4, <2>5
  <2> QED BY <1>5, <2>2, <2>6 DEF Waits, Short, HeaderCut
<1>7. n = 0
  <2>1. Len(wire) = 0
      BY <1>6
  <2> QED BY <2>1, <1>3, <1>4
<1> QED BY <1>5, <1>6, <1>7

\* Then the messages it has delivered are those that the peer has sent whole.
LEMMA WaitsForNone ==
    ASSUME AllTypes, ~eof, rpc = "header", wire = <<>>, NEW s \in State, PeerAt(s),
           BytesFlow(s), NEW m \in 1..Len(msgs)
    PROVE  Through(s, m) <=> sent[m] = msgs[m].len
<1>1. PeerTypes /\ msgs[m].csid \in Csids /\ msgs[m].len \in Nat /\ sent[m] \in Nat /\ m \in Nat
    BY MsgFacts, SentFacts DEF AllTypes, PeerTypes
<1>2. PICK c \in Csids : c = msgs[m].csid
    BY <1>1
<1>3. /\ s.hd[c] = peerHdr[c] /\ m <= peerHdr[c] /\ peerHdr[c] \in Nat
      /\ peerHdr[c] # 0 => sent[peerHdr[c]] = s.rd[c]
  <2>1. s.hd = peerHdr /\ m <= peerHdr[c] /\ (peerHdr[c] # 0 => sent[peerHdr[c]] = s.rd[c])
      BY <1>2 DEF PeerAt
  <2>2. peerHdr[c] \in 0..Len(msgs) /\ Len(msgs) \in Nat
      BY <1>1 DEF PeerTypes
  <2> QED BY <2>1, <2>2
<1>4. ~AtWork(c)
    BY DEF AtWork
<1>5. CASE m = peerHdr[c]
  <2>1. sent[m] = s.rd[c] /\ ~(m < s.hd[c])
      BY <1>1, <1>3, <1>5
  <2> QED BY <2>1, <1>2, <1>3, <1>4, <1>5 DEF Through
<1>6. CASE m # peerHdr[c]
  <2>1. m < s.hd[c]
      BY <1>1, <1>3, <1>6
  <2>2. Through(s, m) /\ ReadOf(s, m) = msgs[m].len
      BY <2>1, <1>2 DEF Through, ReadOf
  <2>3. msgs[m].len <= sent[m]
      BY <2>2 DEF BytesFlow, BytesRead
  <2>4. ~(msgs[m].len < sent[m])
    <3>1. Len(wire) = 0 /\ 1..0 = {}
        OBVIOUS
    <3>2. ~(\E p \in 1..Len(wire) : wire[p] = Byte(m, sent[m]))
        BY <3>1
    <3>3. ~(ReadOf(s, m) < sent[m] /\ sent[m] <= sent[m])
        BY <3>2, <1>1 DEF BytesFlow, BytesThere
    <3> QED BY <3>3, <2>2, <1>1
  <2> QED BY <2>2, <2>3, <2>4, <1>1
<1> QED BY <1>5, <1>6

\* The invariant lets no message stay with a reader that waits.
LEMMA EveryFollows ==
    ASSUME IInv
    PROVE  EveryMessage
<1> SUFFICES ASSUME ~eof, Waits, NEW c \in Csids
             PROVE  Cardinality({k \in DOMAIN chunks : chunks[k].csid = c})
                      = Cardinality({m \in DOMAIN msgs :
                            msgs[m].csid = c /\ Proper(m) /\ sent[m] = msgs[m].len})
    BY DEF EveryMessage
<1>1. /\ AllTypes /\ DOMAIN chunks = 1..Len(chunks) /\ DOMAIN msgs = 1..Len(msgs)
      /\ Len(chunks) \in Nat
    BY DEF IInv, AllTypes, PeerTypes, ReaderTypes
<1>2. Live
    BY DEF Live
<1>3. PICK f \in [1..Len(chunks) -> 1..Len(msgs)] : Sound(f) /\ Tracked(f)
    BY <1>2 DEF IInv
<1>4. PICK n \in Nat : \E st \in [1..(n + 1) -> State], q \in [1..n -> Chunk],
                           pos \in [1..(n + 1) -> Nat] : At(f, n, st, q, pos)
    BY <1>3 DEF Tracked
<1>5. PICK st \in [1..(n + 1) -> State], q \in [1..n -> Chunk],
           pos \in [1..(n + 1) -> Nat] : At(f, n, st, q, pos)
    BY <1>4
<1>6. rpc = "header" /\ wire = <<>> /\ n = 0
    BY <1>1, <1>5, WaitsAtEnd
<1>7. PICK s \in State : s = st[1]
    BY <1>6
<1>8. PeerAt(s) /\ BytesFlow(s) /\ UpTo(f, s)
    BY <1>5, <1>6, <1>7 DEF At
<1>9. \A m \in 1..Len(msgs) : Proper(m) =>
         ((\E k \in 1..Len(chunks) : f[k] = m) <=> sent[m] = msgs[m].len)
  <2>1. \A m \in 1..Len(msgs) : Through(s, m) <=> sent[m] = msgs[m].len
      BY <1>1, <1>6, <1>8, WaitsForNone
  <2> QED BY <2>1, <1>1, <1>8 DEF UpTo
<1>10. \A k \in 1..Len(chunks) :
          /\ msgs[f[k]].csid = chunks[k].csid /\ Proper(f[k]) /\ f[k] \in 1..Len(msgs)
          /\ \A j \in 1..(k - 1) : chunks[j].csid = chunks[k].csid => f[j] < f[k]
    BY <1>1, <1>3 DEF Sound, Delivers
<1> DEFINE K == {k \in DOMAIN chunks : chunks[k].csid = c}
           M == {m \in DOMAIN msgs : msgs[m].csid = c /\ Proper(m) /\ sent[m] = msgs[m].len}
           g == [k \in K |-> f[k]]
<1>11. \A j, k \in 1..Len(chunks) :
          chunks[j].csid = chunks[k].csid /\ f[j] = f[k] => j = k
  <2> SUFFICES ASSUME NEW j \in 1..Len(chunks), NEW k \in 1..Len(chunks),
                      chunks[j].csid = chunks[k].csid, f[j] = f[k], j # k
               PROVE  FALSE
      OBVIOUS
  <2>1. f[j] \in Nat /\ f[k] \in Nat
      BY <1>1, <1>10
  <2>2. j \in 1..(k - 1) \/ k \in 1..(j - 1)
      BY <1>1
  <2>3. f[j] < f[k] \/ f[k] < f[j]
      BY <2>2, <1>10
  <2> QED BY <2>1, <2>3
<1>12. g \in Bijection(K, M)
  <2>1. g \in [K -> M]
    <3> SUFFICES ASSUME NEW k \in K PROVE f[k] \in M
        OBVIOUS
    <3>1. k \in 1..Len(chunks) /\ chunks[k].csid = c
        BY <1>1
    <3> QED BY <3>1, <1>1, <1>9, <1>10
  <2>2. \A j, k \in K : g[j] = g[k] => j = k
      BY <1>1, <1>11
  <2>3. \A m \in M : \E k \in K : g[k] = m
    <3> SUFFICES ASSUME NEW m \in M PROVE \E k \in K : g[k] = m
        OBVIOUS
    <3>1. PICK k \in 1..Len(chunks) : f[k] = m
        BY <1>1, <1>9
    <3>2. k \in K
        BY <3>1, <1>1, <1>10
    <3> QED BY <3>1, <3>2
  <2> HIDE DEF K, M, g
  <2> QED BY <2>1, <2>2, <2>3 DEF Bijection, Injection, Surjection, IsInjective
<1>13. IsFiniteSet(K)
  <2>1. IsFiniteSet(1..Len(chunks))
      BY <1>1, FS_Interval
  <2>2. K \in SUBSET (1..Len(chunks))
      BY <1>1
  <2> QED BY <2>1, <2>2, FS_Subset
<1> HIDE DEF K, M, g
<1>14. Cardinality(M) = Cardinality(K)
    BY <1>12, <1>13, FS_Bijection DEF ExistsBijection
<1> QED BY <1>14 DEF K, M

\* Every variable keeps its type and Recv never wants more of a chunk than its
\* message has left (TypeOK), for any bounds.
THEOREM TypeCorrect ==
    ASSUME ~ExtLong, 2 \notin Formats
    PROVE  Spec => []TypeOK
<1>1. Spec => []IInv
    BY Invariant
<1> QED BY <1>1, TypesFollow, PTL

\* Recv finds headers and payload where it looks for them (InStep).
THEOREM StaysInStep ==
    ASSUME ~ExtLong, 2 \notin Formats
    PROVE  Spec => []InStep
<1>1. Spec => []IInv
    BY Invariant
<1> QED BY <1>1, InStepFollows, PTL

\* The chunks received are the messages of their chunk streams, each once, in
\* order and whole, also when the connection is cut (Reassembled).
THEOREM ReassemblesAll ==
    ASSUME ~ExtLong, 2 \notin Formats
    PROVE  Spec => []Reassembled
<1>1. Spec => []IInv
    BY Invariant
<1> QED BY <1>1, ReassembledFollows, PTL

\* The normalizer gives every chunk the type and the length of its message, and the
\* message stream id wherever the last header of any chunk stream has the right one
\* (HeadersFilled).  Where it has not, the id is wrong: the run reader_format1.
THEOREM FillsHeaders ==
    ASSUME ~ExtLong, 2 \notin Formats
    PROVE  Spec => []HeadersFilled
<1>1. Spec => []IInv
    BY Invariant
<1>2. IInv => HeadersFilled
    BY ReassembledFollows
<1> QED BY <1>1, <1>2, PTL

\* A builder holds the first bytes of one message and the rest of it is on the wire
\* or with the peer; none is left behind, and the chunk sizes agree (BuildersMatch).
THEOREM BuildersAgree ==
    ASSUME ~ExtLong, 2 \notin Formats
    PROVE  Spec => []BuildersMatch
<1>1. Spec => []IInv
    BY Invariant
<1> QED BY <1>1, BuildersFollow, PTL

\* A reader that waits for the peer has delivered, on every chunk stream, as many
\* messages as the peer has sent whole (DefaultReader.Recv, removeBuilder).
THEOREM DeliversEvery ==
    ASSUME ~ExtLong, 2 \notin Formats
    PROVE  Spec => []EveryMessage
<1>1. Spec => []IInv
    BY Invariant
<1>2. IInv => EveryMessage
    BY EveryFollows
<1> QED BY <1>1, <1>2, PTL
=============================================================================
