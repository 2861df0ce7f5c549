--------------------------- MODULE HandshakeProofs ---------------------------
(***************************************************************************)
(* Proofs about Handshake, for any challenges, any versions and any number *)
(* of chunk bytes.                                                         *)
(***************************************************************************)
EXTENDS Handshake, TLAPS

-----------------------------------------------------------------------------
(* The fields.                                                             *)

Field == [f : {"version", "time", "payload", "chunk"},
          v : Nonces \cup Versions \cup {0, 1}]

\* The constructors make fields, and a field tells what it was made from.
LEMMA FieldFacts ==
    /\ \A x \in Versions : Version(x) \in Field /\ Version(x).v = x
    /\ \A x \in Nonces : Payload(x) \in Field /\ Payload(x).v = x
    /\ Time(0) \in Field /\ Time(1) \in Field /\ Time(1).v = 1
    /\ Chunk \in Field
BY DEF Field, Version, Payload, Time, Chunk

\* A Read takes a version or the three fields of a packet.
LEMMA FieldCounts ==
    /\ Fields("version") = 1
    /\ Fields("clientAck") = 3
    /\ Fields("serverAck") = 3
BY DEF Fields, AckPacket

\* What one more element does to a sequence.
LEMMA AppendFacts ==
    ASSUME NEW S, NEW s \in Seq(S), NEW x \in S
    PROVE  /\ Append(s, x) \in Seq(S)
           /\ Len(Append(s, x)) = Len(s) + 1
           /\ \A k \in 1..Len(s) : Append(s, x)[k] = s[k]
           /\ Append(s, x)[Len(s) + 1] = x
           /\ Len(s) \in Nat
OBVIOUS

\* The elements of a concatenation.
LEMMA ConcatFacts ==
    ASSUME NEW S, NEW a \in Seq(S), NEW b \in Seq(S)
    PROVE  /\ a \o b \in Seq(S)
           /\ Len(a \o b) = Len(a) + Len(b)
           /\ \A i \in 1..Len(a) : (a \o b)[i] = a[i]
           /\ \A i \in 1..Len(b) : (a \o b)[Len(a) + i] = b[i]
           /\ Len(a) \in Nat /\ Len(b) \in Nat
OBVIOUS

\* What taking the first element off leaves.
LEMMA TailFacts ==
    ASSUME NEW S, NEW s \in Seq(S), s # <<>>
    PROVE  /\ Tail(s) \in Seq(S)
           /\ Len(s) \in Nat /\ Len(s) >= 1
           /\ Len(Tail(s)) = Len(s) - 1
           /\ \A k \in 1..Len(Tail(s)) : Tail(s)[k] = s[k + 1]
           /\ Head(s) \in S
           /\ Head(s) = s[1]
OBVIOUS

-----------------------------------------------------------------------------
(***************************************************************************)
(* The inductive invariant.  Types and Flags; Flow: what the peer          *)
(* sent is, place by place, what the handshake took, what the parser read  *)
(* and what is under way; Layout: what the peer has sent at each stage;    *)
(* Progress: how many fields each sequence has taken, and what its Read    *)
(* accepted; Answer: what the peer got, what is under way to it and what   *)
(* the WriteTo still has to write are S0, S1 and S2 in this order.         *)
(***************************************************************************)
Active == {"version", "clientAck", "serverAck"}

Types ==
    /\ toServer \in Seq(Field) /\ toPeer \in Seq(Field)
    /\ in \in Seq(Field) /\ out \in Seq(Field)
    /\ taken \in Seq(Field) /\ chunks \in Seq(Field)
    /\ sent \in Seq(Field) /\ got \in Seq(Field)
    /\ s1 \in Nonces /\ nonce \in Nonces
    /\ seq \in Active \cup {"failed", "none"}
    /\ side \in {"read", "write"}
    /\ stage \in {"C0", "C1", "C2", "chunks"}

Flags ==
    /\ gone \in BOOLEAN /\ recv \in BOOLEAN
    /\ recv <=> seq = "none"

Flow ==
    /\ Len(taken) + Len(chunks) + Len(toServer) <= Len(sent)
    /\ \A i \in 1..Len(taken) : taken[i] = sent[i]
    /\ \A i \in 1..Len(chunks) : chunks[i] = sent[Len(taken) + i]
    /\ \A i \in 1..Len(toServer) : toServer[i] = sent[Len(taken) + Len(chunks) + i]
    /\ seq # "none" => Len(chunks) = 0

\* While the connection lasts, nothing that was sent is missing.
Lossless == ~gone => Len(taken) + Len(chunks) + Len(toServer) = Len(sent)

Layout ==
    /\ stage = "C0" => Len(sent) = 0
    /\ stage = "C1" => Len(sent) = 1
    /\ stage = "C2" => Len(sent) = 4
    /\ stage = "chunks" => Len(sent) >= 7
    /\ Len(sent) >= 1 => \E x \in Versions : sent[1] = Version(x)
    /\ Len(sent) >= 4 => /\ sent[2] = Time(PeerTime)
                         /\ sent[4] = Payload(nonce)
    /\ Len(sent) >= 7 => \E x \in Nonces : sent[7] = Payload(x)
    /\ \A i \in 8..Len(sent) : sent[i] = Chunk

\* How many fields the sequences before q take.
Before(q) == IF q = "version" THEN 0 ELSE IF q = "clientAck" THEN 1 ELSE 4

Reading ==
    seq \in Active /\ side = "read" =>
        /\ Len(taken) = Before(seq) + Len(in)
        /\ Len(in) < Fields(seq)
        /\ \A i \in 1..Len(in) : in[i] = taken[Before(seq) + i]
        /\ out = <<>>

Writing ==
    seq \in Active /\ side = "write" =>
        /\ Len(taken) = Before(seq) + Fields(seq)
        /\ in = <<>>
        /\ seq = "serverAck" => out = <<>>

Finished == seq = "none" => Len(taken) = 7 /\ in = <<>> /\ out = <<>>

VersionOk ==
    seq \in {"clientAck", "serverAck", "none"} \/ (seq = "version" /\ side = "write")
        => taken[1].v = Supported

ChallengeOk ==
    seq = "none" \/ (seq = "serverAck" /\ side = "write") => taken[7].v = s1

Progress == Reading /\ Writing /\ Finished /\ VersionOk /\ ChallengeOk

\* S0, S1 and S2.
Reply == <<Version(Supported), Time(0), Time(0), Payload(s1),
           Time(PeerTime), Time(0), Payload(nonce)>>

\* How many fields of them the server has begun to write.
Begun ==
    IF seq = "version" THEN IF side = "read" THEN 0 ELSE 1
    ELSE IF seq = "clientAck" /\ side = "read" THEN 1 ELSE 7

Answer ==
    /\ Len(got) + Len(toPeer) + Len(out) <= 7
    /\ Len(out) <= 6
    /\ seq # "failed" => Len(got) + Len(toPeer) + Len(out) = Begun
    /\ \A i \in 1..Len(got) : got[i] = Reply[i]
    /\ \A i \in 1..Len(toPeer) : toPeer[i] = Reply[Len(got) + i]
    /\ \A i \in 1..Len(out) : out[i] = Reply[Len(got) + Len(toPeer) + i]

IInv == Types /\ Flags /\ Flow /\ Lossless /\ Layout /\ Progress /\ Answer

-----------------------------------------------------------------------------
(* The peer's steps.                                                       *)

\* More fields at the end of what was sent are more fields under way.
LEMMA SendFlow ==
    ASSUME Types, Flow, Lossless, NEW fields \in Seq(Field), NEW next,
           Send(fields, next)
    PROVE  Flow' /\ Lossless'
<1> USE DEF Types
<1>1. /\ toServer' = toServer \o fields
      /\ sent' = sent \o fields
      /\ UNCHANGED <<taken, chunks, seq>>
    BY DEF Send, serverVars
<1>2. ~gone
    BY DEF Send
<1> DEFINE t == Len(taken) c == Len(chunks) q == Len(toServer)
           n == Len(sent) m == Len(fields)
<1>3. t \in Nat /\ c \in Nat /\ q \in Nat /\ n \in Nat /\ m \in Nat
    OBVIOUS
<1>4. /\ Len(toServer') = q + m
      /\ Len(sent') = n + m
      /\ \A i \in 1..q : toServer'[i] = toServer[i]
      /\ \A i \in 1..m : toServer'[q + i] = fields[i]
      /\ \A i \in 1..n : sent'[i] = sent[i]
      /\ \A i \in 1..m : sent'[n + i] = fields[i]
    BY <1>1
<1>5. t + c + q = n
    BY <1>2 DEF Lossless
<1>6. /\ \A i \in 1..t : taken[i] = sent[i]
      /\ \A i \in 1..c : chunks[i] = sent[t + i]
      /\ \A i \in 1..q : toServer[i] = sent[t + c + i]
      /\ seq # "none" => Len(chunks) = 0
    BY DEF Flow
<1> HIDE DEF t, c, q, n, m
<1>7. \A i \in 1..t : taken[i] = sent'[i]
    BY <1>3, <1>4, <1>5, <1>6
<1>8. \A i \in 1..c : chunks[i] = sent'[t + i]
    BY <1>3, <1>4, <1>5, <1>6
<1>9. ASSUME NEW i \in 1..(q + m) PROVE toServer'[i] = sent'[t + c + i]
  <2>1. CASE i \in 1..q
    <3>1. t + c + i \in 1..n
        BY <2>1, <1>3, <1>5
    <3> QED BY <2>1, <3>1, <1>4, <1>6
  <2>2. CASE i \notin 1..q
    <3>1. PICK j \in 1..m : i = q + j
      <4>1. i - q \in 1..m /\ i = q + (i - q)
          BY <2>2, <1>3
      <4> QED BY <4>1
    <3>2. t + c + i = n + j
        BY <3>1, <1>3, <1>5
    <3> QED BY <3>1, <3>2, <1>4
  <2> QED BY <2>1, <2>2
<1>10. /\ Len(taken') = t /\ Len(chunks') = c
       /\ Len(toServer') = q + m /\ Len(sent') = n + m
    BY <1>1, <1>4 DEF t, c
<1>11. t + c + (q + m) = n + m /\ t + c + (q + m) <= n + m
    BY <1>3, <1>5
<1>12. Flow'
    BY <1>1, <1>6, <1>7, <1>8, <1>9, <1>10, <1>11 DEF Flow
<1>13. Lossless'
    BY <1>10, <1>11 DEF Lossless
<1> QED BY <1>12, <1>13

\* Each of the peer's messages is where the layout wants it.
LEMMA SendLayout ==
    ASSUME Types, Layout, SendC0 \/ SendC1 \/ SendC2 \/ SendChunk
    PROVE  /\ Layout'
           /\ stage' \in {"C0", "C1", "C2", "chunks"}
           /\ \E fields \in Seq(Field) : \E next \in {"C1", "C2", "chunks"} :
                 Send(fields, next)
<1> DEFINE n == Len(sent)
<1>1. n \in Nat /\ sent \in Seq(Field)
    BY DEF Types
<1>2. CASE SendC0
  <2>1. PICK x \in Versions : Send(<<Version(x)>>, "C1")
      BY <1>2 DEF SendC0
  <2>2. Version(x) \in Field /\ <<Version(x)>> \in Seq(Field)
      BY FieldFacts
  <2>3. n = 0 /\ sent' = sent \o <<Version(x)>> /\ stage' = "C1"
      BY <1>2, <2>1 DEF SendC0, Layout, Send
  <2>4. Len(sent') = 1 /\ sent'[1] = Version(x)
      BY <2>2, <2>3, <1>1
  <2>5. Layout'
      BY <2>3, <2>4 DEF Layout
  <2> QED BY <2>1, <2>2, <2>3, <2>5
<1>3. CASE SendC1
  <2> DEFINE p == AckPacket(PeerTime, 0, nonce)
  <2>1. Send(p, "C2") /\ stage = "C1"
      BY <1>3 DEF SendC1
  <2>2. /\ p \in Seq(Field) /\ Len(p) = 3
        /\ p[1] = Time(PeerTime) /\ p[3] = Payload(nonce)
      BY FieldFacts DEF Types, AckPacket, PeerTime
  <2> HIDE DEF p
  <2>3. n = 1 /\ sent' = sent \o p /\ stage' = "C2" /\ nonce' = nonce
      BY <2>1 DEF Layout, Send
  <2>4. /\ Len(sent') = 4 /\ sent'[1] = sent[1]
        /\ sent'[2] = Time(PeerTime) /\ sent'[4] = Payload(nonce)
    <3>1. /\ Len(sent') = n + 3
          /\ \A i \in 1..n : sent'[i] = sent[i]
          /\ \A i \in 1..3 : sent'[n + i] = p[i]
      <4>1. sent' = sent \o p /\ p \in Seq(Field)
          BY <2>2, <2>3
      <4>2. /\ Len(sent') = n + Len(p)
            /\ \A i \in 1..n : sent'[i] = sent[i]
            /\ \A i \in 1..Len(p) : sent'[n + i] = p[i]
          BY <4>1, <1>1, ConcatFacts
      <4> QED BY <4>2, <2>2
    <3>2. sent'[1 + 1] = p[1] /\ sent'[1 + 3] = p[3]
        BY <3>1, <2>3
    <3> QED BY <3>1, <3>2, <2>2, <2>3
  <2>5. Layout'
      BY <2>3, <2>4 DEF Layout
  <2> QED BY <2>1, <2>2, <2>3, <2>5
<1>4. CASE SendC2
  <2>1. PICK x \in Nonces : Send(AckPacket(0, 0, x), "chunks")
      BY <1>4 DEF SendC2
  <2> DEFINE p == AckPacket(0, 0, x)
  <2>2. p \in Seq(Field) /\ Len(p) = 3 /\ p[3] = Payload(x)
      BY FieldFacts DEF AckPacket
  <2>3. Send(p, "chunks") /\ stage = "C2"
      BY <1>4, <2>1 DEF SendC2
  <2> HIDE DEF p
  <2>4. n = 4 /\ sent' = sent \o p /\ stage' = "chunks" /\ nonce' = nonce
      BY <2>3 DEF Layout, Send
  <2>5. /\ Len(sent') = 7 /\ sent'[1] = sent[1] /\ sent'[2] = sent[2]
        /\ sent'[4] = sent[4] /\ sent'[7] = Payload(x)
    <3>1. /\ Len(sent') = n + 3
          /\ \A i \in 1..n : sent'[i] = sent[i]
          /\ \A i \in 1..3 : sent'[n + i] = p[i]
      <4>1. sent' = sent \o p /\ p \in Seq(Field)
          BY <2>2, <2>4
      <4>2. /\ Len(sent') = n + Len(p)
            /\ \A i \in 1..n : sent'[i] = sent[i]
            /\ \A i \in 1..Len(p) : sent'[n + i] = p[i]
          BY <4>1, <1>1, ConcatFacts
      <4> QED BY <4>2, <2>2
    <3>2. sent'[4 + 3] = p[3]
        BY <3>1, <2>4
    <3> QED BY <3>1, <3>2, <2>2, <2>4
  <2>6. Layout'
      BY <2>4, <2>5 DEF Layout
  <2> QED BY <2>2, <2>3, <2>4, <2>6
<1>5. CASE SendChunk
  <2>1. Send(<<Chunk>>, "chunks") /\ stage = "chunks"
      BY <1>5 DEF SendChunk
  <2>2. Chunk \in Field /\ <<Chunk>> \in Seq(Field)
      BY FieldFacts
  <2>3. n >= 7 /\ sent' = sent \o <<Chunk>> /\ stage' = "chunks" /\ nonce' = nonce
      BY <2>1 DEF Layout, Send
  <2>4. /\ Len(sent') = n + 1
        /\ \A i \in 1..n : sent'[i] = sent[i]
        /\ sent'[n + 1] = Chunk
      BY <2>2, <2>3, <1>1
  <2>5. \A i \in 8..Len(sent') : sent'[i] = Chunk
    <3>1. \A i \in 8..n : i \in 1..n
        BY <1>1
    <3>2. \A i \in 8..n : sent'[i] = Chunk
        BY <3>1, <2>4 DEF Layout
    <3>3. \A i \in 8..(n + 1) : i \in 8..n \/ i = n + 1
        BY <1>1
    <3> QED BY <3>2, <3>3, <2>4
  <2>6. sent'[1] = sent[1] /\ sent'[2] = sent[2] /\ sent'[4] = sent[4]
        /\ sent'[7] = sent[7]
      BY <2>3, <2>4, <1>1
  <2>7. Len(sent') >= 7 /\ n >= 1 /\ n >= 4
      BY <2>3, <2>4, <1>1
  <2>8. Layout'
      BY <2>3, <2>5, <2>6, <2>7 DEF Layout
  <2> QED BY <2>1, <2>2, <2>3, <2>8
<1> QED BY <1>2, <1>3, <1>4, <1>5

\* The connection may be cut anywhere in what is under way.
LEMMA DropFlow ==
    ASSUME Types, Flow, Drop
    PROVE  toServer' \in Seq(Field) /\ Flow' /\ Lossless'
<1>1. PICK n \in 0..Len(toServer) : toServer' = SubSeq(toServer, 1, n)
    BY DEF Drop
<1>2. /\ UNCHANGED <<taken, chunks, sent, seq>>
      /\ gone'
    BY DEF Drop, serverVars, peerVars
<1>3. /\ toServer' \in Seq(Field)
      /\ Len(toServer') = n
      /\ \A i \in 1..n : toServer'[i] = toServer[i]
      /\ Len(toServer) \in Nat
    BY <1>1 DEF Types
<1>4. Len(taken) \in Nat /\ Len(chunks) \in Nat /\ Len(sent) \in Nat
    BY DEF Types
<1>5. Len(taken) + Len(chunks) + n <= Len(sent)
    BY <1>3, <1>4 DEF Flow
<1>6. \A i \in 1..n : toServer'[i] = sent[Len(taken) + Len(chunks) + i]
  <2>1. \A i \in 1..n : i \in 1..Len(toServer)
      BY <1>3
  <2> QED BY <2>1, <1>3 DEF Flow
<1>7. Flow'
    BY <1>2, <1>3, <1>5, <1>6 DEF Flow
<1> QED BY <1>2, <1>3, <1>7 DEF Lossless

-----------------------------------------------------------------------------
(* The server's reads.                                                     *)

\* The handshake takes the first field under way, which is the one after those
\* it has taken.
LEMMA ReadFlow ==
    ASSUME Types, Flow, Lossless, ReadField
    PROVE  /\ toServer' \in Seq(Field) /\ taken' \in Seq(Field)
           /\ Flow' /\ Lossless'
           /\ Head(toServer) \in Field
           /\ Len(taken') = Len(taken) + 1
           /\ \A i \in 1..Len(taken) : taken'[i] = taken[i]
           /\ taken'[Len(taken) + 1] = Head(toServer)
<1> DEFINE t == Len(taken) q == Len(toServer) n == Len(sent)
<1>1. /\ toServer # <<>>
      /\ toServer' = Tail(toServer)
      /\ taken' = Append(taken, Head(toServer))
      /\ UNCHANGED <<chunks, sent, gone>>
      /\ seq # "none"
      /\ seq' # "none"
    BY DEF ReadField, peerVars
<1>2. toServer \in Seq(Field) /\ taken \in Seq(Field)
    BY DEF Types
<1>3. /\ toServer' \in Seq(Field)
      /\ q \in Nat /\ q >= 1
      /\ Len(toServer') = q - 1
      /\ \A i \in 1..Len(toServer') : toServer'[i] = toServer[i + 1]
      /\ Head(toServer) \in Field
      /\ Head(toServer) = toServer[1]
    BY <1>1, <1>2, TailFacts
<1>4. /\ taken' \in Seq(Field)
      /\ Len(taken') = t + 1
      /\ \A i \in 1..t : taken'[i] = taken[i]
      /\ taken'[t + 1] = Head(toServer)
      /\ t \in Nat
    BY <1>1, <1>2, <1>3, AppendFacts
<1>5. Len(chunks) = 0 /\ n \in Nat
    BY <1>1 DEF Flow, Types
<1>6. /\ t + q <= n
      /\ \A i \in 1..t : taken[i] = sent[i]
      /\ \A i \in 1..q : toServer[i] = sent[t + i]
  <2>1. t + 0 = t
      BY <1>4
  <2> QED BY <2>1, <1>5 DEF Flow
<1> HIDE DEF t, q, n
<1>7. \A i \in 1..(t + 1) : taken'[i] = sent[i]
  <2>1. taken'[t + 1] = sent[t + 1]
      BY <1>3, <1>4, <1>6
  <2>2. \A i \in 1..(t + 1) : i \in 1..t \/ i = t + 1
      BY <1>4
  <2> QED BY <2>1, <2>2, <1>4, <1>6
<1>8. \A i \in 1..(q - 1) : toServer'[i] = sent[(t + 1) + 0 + i]
  <2> SUFFICES ASSUME NEW i \in 1..(q - 1) PROVE toServer'[i] = sent[(t + 1) + 0 + i]
      OBVIOUS
  <2>1. i + 1 \in 1..q /\ t + (i + 1) = (t + 1) + 0 + i
      BY <1>3, <1>4
  <2> QED BY <2>1, <1>3, <1>6
<1>9. (t + 1) + 0 + (q - 1) = t + 0 + q /\ (t + 1) + 0 + (q - 1) <= n
    BY <1>3, <1>4, <1>5, <1>6
<1>10. Flow'
    BY <1>1, <1>3, <1>4, <1>5, <1>7, <1>8, <1>9 DEF Flow, n
<1>11. Lossless'
    BY <1>1, <1>3, <1>4, <1>5, <1>9 DEF Lossless, t, q
<1> QED BY <1>3, <1>4, <1>10, <1>11 DEF t

\* The parser reads on where the handshake stopped.
LEMMA RecvFlow ==
    ASSUME Types, Flags, Flow, Lossless, RecvChunk
    PROVE  /\ toServer' \in Seq(Field) /\ chunks' \in Seq(Field)
           /\ Flow' /\ Lossless'
<1> DEFINE t == Len(taken) c == Len(chunks) q == Len(toServer) n == Len(sent)
<1>1. /\ toServer # <<>>
      /\ toServer' = Tail(toServer)
      /\ chunks' = Append(chunks, Head(toServer))
      /\ UNCHANGED <<taken, sent, gone, seq>>
    BY DEF RecvChunk, peerVars
<1>2. seq = "none"
    BY DEF RecvChunk, Flags
<1>3. toServer \in Seq(Field) /\ chunks \in Seq(Field)
    BY DEF Types
<1>4. /\ toServer' \in Seq(Field)
      /\ q \in Nat /\ q >= 1
      /\ Len(toServer') = q - 1
      /\ \A i \in 1..Len(toServer') : toServer'[i] = toServer[i + 1]
      /\ Head(toServer) \in Field
      /\ Head(toServer) = toServer[1]
    BY <1>1, <1>3, TailFacts
<1>5. /\ chunks' \in Seq(Field)
      /\ Len(chunks') = c + 1
      /\ \A i \in 1..c : chunks'[i] = chunks[i]
      /\ chunks'[c + 1] = Head(toServer)
      /\ c \in Nat
    BY <1>1, <1>3, <1>4, AppendFacts
<1>6. t \in Nat /\ n \in Nat
    BY DEF Types
<1>7. /\ t + c + q <= n
      /\ \A i \in 1..t : taken[i] = sent[i]
      /\ \A i \in 1..c : chunks[i] = sent[t + i]
      /\ \A i \in 1..q : toServer[i] = sent[t + c + i]
    BY DEF Flow
<1> HIDE DEF t, c, q, n
<1>8. \A i \in 1..(c + 1) : chunks'[i] = sent[t + i]
  <2>1. toServer[1] = sent[t + c + 1] /\ t + c + 1 = t + (c + 1)
      BY <1>4, <1>5, <1>6, <1>7
  <2>2. chunks'[c + 1] = sent[t + (c + 1)]
      BY <2>1, <1>4, <1>5
  <2>3. \A i \in 1..(c + 1) : i \in 1..c \/ i = c + 1
      BY <1>5
  <2> QED BY <2>2, <2>3, <1>5, <1>7
<1>9. \A i \in 1..(q - 1) : toServer'[i] = sent[t + (c + 1) + i]
  <2> SUFFICES ASSUME NEW i \in 1..(q - 1) PROVE toServer'[i] = sent[t + (c + 1) + i]
      OBVIOUS
  <2>1. i + 1 \in 1..q /\ t + c + (i + 1) = t + (c + 1) + i
      BY <1>4, <1>5, <1>6
  <2> QED BY <2>1, <1>4, <1>7
<1>10. t + (c + 1) + (q - 1) = t + c + q /\ t + (c + 1) + (q - 1) <= n
    BY <1>4, <1>5, <1>6, <1>7
<1>11. Flow'
    BY <1>1, <1>2, <1>4, <1>5, <1>7, <1>8, <1>9, <1>10 DEF Flow, t, n
<1>12. Lossless'
    BY <1>1, <1>4, <1>5, <1>10 DEF Lossless, t, c, q
<1> QED BY <1>4, <1>5, <1>11, <1>12

\* What a Read holds when it has read one more field.
Packet == Append(in, Head(toServer))

\* The packet that a Read holds after one more field is what the handshake has
\* taken since the sequence began.
LEMMA ReadPacket ==
    ASSUME Types, Flow, Lossless, Progress, ReadField
    PROVE  /\ Packet \in Seq(Field)
           /\ Len(Packet) = Len(in) + 1
           /\ Len(taken') = Before(seq) + Len(Packet)
           /\ \A i \in 1..Len(Packet) : Packet[i] = taken'[Before(seq) + i]
           /\ out = <<>>
<1>1. seq \in Active /\ side = "read"
    BY DEF ReadField, Active
<1>2. /\ Len(taken) = Before(seq) + Len(in)
      /\ \A i \in 1..Len(in) : in[i] = taken[Before(seq) + i]
      /\ out = <<>>
    BY <1>1 DEF Progress, Reading
<1>3. /\ Head(toServer) \in Field
      /\ Len(taken') = Len(taken) + 1
      /\ \A i \in 1..Len(taken) : taken'[i] = taken[i]
      /\ taken'[Len(taken) + 1] = Head(toServer)
    BY ReadFlow
<1>4. in \in Seq(Field)
    BY DEF Types
<1>5. /\ Packet \in Seq(Field)
      /\ Len(Packet) = Len(in) + 1
      /\ \A i \in 1..Len(in) : Packet[i] = in[i]
      /\ Packet[Len(in) + 1] = Head(toServer)
      /\ Len(in) \in Nat
    BY <1>3, <1>4, AppendFacts DEF Packet
<1>6. Before(seq) \in Nat
    BY DEF Before
<1>7. Len(taken') = Before(seq) + Len(Packet)
    BY <1>2, <1>3, <1>5, <1>6
<1>8. ASSUME NEW i \in 1..Len(Packet) PROVE Packet[i] = taken'[Before(seq) + i]
  <2>1. CASE i \in 1..Len(in)
    <3>1. Before(seq) + i \in 1..Len(taken)
        BY <2>1, <1>2, <1>5, <1>6
    <3> QED BY <2>1, <3>1, <1>2, <1>3, <1>5
  <2>2. CASE i = Len(in) + 1
    <3>1. Before(seq) + i = Len(taken) + 1
        BY <2>2, <1>2, <1>5, <1>6
    <3> QED BY <2>2, <3>1, <1>3, <1>5
  <2> QED BY <2>1, <2>2, <1>5
<1> QED BY <1>2, <1>5, <1>7, <1>8

\* The places of the reply.
LEMMA ReplyFacts ==
    /\ Reply[1] = Version(Supported)
    /\ Reply[2] = Time(0) /\ Reply[3] = Time(0) /\ Reply[4] = Payload(s1)
    /\ Reply[5] = Time(PeerTime) /\ Reply[6] = Time(0) /\ Reply[7] = Payload(nonce)
BY DEF Reply

\* S1 and S2 are what follows S0 in the reply.
LEMMA ReplyParts ==
    ASSUME s1 \in Nonces, nonce \in Nonces
    PROVE  LET w == AckPacket(0, 0, s1) \o AckPacket(1, 0, nonce)
           IN  w \in Seq(Field) /\ Len(w) = 6 /\ \A i \in 1..6 : w[i] = Reply[1 + i]
<1> DEFINE a == AckPacket(0, 0, s1) b == AckPacket(1, 0, nonce) w == a \o b
<1>1. /\ a \in Seq(Field) /\ Len(a) = 3
      /\ a[1] = Time(0) /\ a[2] = Time(0) /\ a[3] = Payload(s1)
    BY FieldFacts DEF AckPacket
<1>2. /\ b \in Seq(Field) /\ Len(b) = 3
      /\ b[1] = Time(1) /\ b[2] = Time(0) /\ b[3] = Payload(nonce)
    BY FieldFacts DEF AckPacket
<1> HIDE DEF a, b
<1>3. a \in Seq(Field) /\ b \in Seq(Field)
    BY <1>1, <1>2
<1>4. /\ w \in Seq(Field)
      /\ Len(w) = Len(a) + Len(b)
      /\ \A i \in 1..Len(a) : w[i] = a[i]
      /\ \A i \in 1..Len(b) : w[Len(a) + i] = b[i]
    BY <1>3, ConcatFacts
<1> HIDE DEF w
<1>5. w[1] = a[1] /\ w[2] = a[2] /\ w[3] = a[3]
    BY <1>1, <1>4
<1>6. w[3 + 1] = b[1] /\ w[3 + 2] = b[2] /\ w[3 + 3] = b[3]
    BY <1>1, <1>2, <1>4
<1>7. w[1] = Reply[2] /\ w[2] = Reply[3] /\ w[3] = Reply[4]
      /\ w[4] = Reply[5] /\ w[5] = Reply[6] /\ w[6] = Reply[7]
  <2>1. PeerTime = 1
      BY DEF PeerTime
  <2>2. w[4] = b[1] /\ w[5] = b[2] /\ w[6] = b[3]
      BY <1>6
  <2> QED BY <1>1, <1>2, <1>5, <2>1, <2>2, ReplyFacts
<1>8. \A i \in 1..6 : w[i] = Reply[1 + i]
  <2>1. \A i \in 1..6 : i = 1 \/ i = 2 \/ i = 3 \/ i = 4 \/ i = 5 \/ i = 6
      OBVIOUS
  <2> QED BY <2>1, <1>7
<1>9. Len(w) = 6
    BY <1>1, <1>2, <1>4
<1> QED BY <1>4, <1>8, <1>9 DEF w, a, b

\* A Read that succeeds has checked the version or the challenge, and what the
\* WriteTo after it has to write is the next part of the reply.
LEMMA ReadAccepted ==
    ASSUME Types, Flow, Lossless, Layout, Progress, Answer, ReadField,
           Len(Packet) = Fields(seq), Accepts(seq, Packet),
           in' = <<>>, side' = "write", out' = Writes(seq, Packet), seq' = seq
    PROVE  Progress' /\ Answer' /\ out' \in Seq(Field)
<1>1. /\ Len(taken') = Before(seq) + Len(Packet)
      /\ \A i \in 1..Len(Packet) : Packet[i] = taken'[Before(seq) + i]
      /\ Len(Packet) = Len(in) + 1
      /\ out = <<>>
    BY ReadPacket
<1>2. /\ UNCHANGED <<toPeer, got, s1, nonce, sent>>
      /\ seq \in Active /\ side = "read"
    BY DEF ReadField, peerVars, Active
<1>3. /\ Flow'
      /\ \A i \in 1..Len(taken) : taken'[i] = taken[i]
      /\ Len(taken') = Len(taken) + 1
    BY ReadFlow
<1>4. Len(taken) \in Nat /\ Len(got) \in Nat /\ Len(toPeer) \in Nat /\ s1 \in Nonces /\ nonce \in Nonces
    BY DEF Types
<1>5. Len(got) + Len(toPeer) = Begun
  <2>1. Len(got) + Len(toPeer) + Len(out) = Begun /\ Len(out) = 0
      BY <1>1, <1>2 DEF Answer, Active
  <2> QED BY <2>1, <1>4
<1>6. Reply' = Reply
    BY <1>2 DEF Reply
<1>7. CASE seq = "version"
  <2>1. Len(Packet) = 1 /\ Len(taken') = 1 /\ taken'[1].v = Supported
    <3>1. Before(seq) = 0 /\ Len(Packet) = 1
        BY <1>7, FieldCounts DEF Before
    <3>2. Len(taken') = 0 + 1 /\ Packet[1] = taken'[0 + 1]
      <4>1. 1 \in 1..1
          OBVIOUS
      <4> QED BY <1>1, <3>1, <4>1, Zenon
    <3>3. Packet[1].v = Supported
        BY <1>7 DEF Accepts, VersionAccepted
    <3> QED BY <3>1, <3>2, <3>3
  <2>2. Len(got) = 0 /\ Len(toPeer) = 0
      BY <1>2, <1>4, <1>5, <1>7 DEF Begun
  <2>3. /\ out' = <<Version(Supported)>>
        /\ Version(Supported) \in Field
      BY <1>7, FieldFacts, HandshakeAssumption DEF Writes
  <2>4. /\ out' \in Seq(Field) /\ Len(out') = 1
        /\ out'[1] = Reply[1]
      BY <2>3, ReplyFacts
  <2>5. /\ Len(got) + Len(toPeer) + Len(out') = 1
        /\ \A i \in 1..Len(out') : out'[i] = Reply[Len(got) + Len(toPeer) + i]
      BY <2>2, <2>4
  <2>6. Begun' = 1
      BY <1>7 DEF Begun
  <2>7. Answer'
      BY <1>2, <1>6, <2>4, <2>5, <2>6 DEF Answer
  <2>8. Progress'
      BY <1>7, <2>1, FieldCounts
      DEF Progress, Reading, Writing, Finished, VersionOk, ChallengeOk, Active, Before
  <2> QED BY <2>4, <2>7, <2>8
<1>8. CASE seq = "clientAck"
  <2>1. Len(Packet) = 3 /\ Len(taken') = 4 /\ Len(taken) = 3
    <3>1. Before(seq) = 1 /\ Len(Packet) = 3
        BY <1>8, FieldCounts DEF Before
    <3>2. Len(taken') = Before(seq) + Len(Packet)
        BY <1>1
    <3>3. Len(taken') = Len(taken) + 1 /\ Len(taken) \in Nat
        BY <1>3, <1>4
    <3>4. Len(taken) + 1 = 1 + 3
        BY <3>1, <3>2, <3>3, Zenon
    <3>5. Len(taken) = 3
      <4>1. \A n \in Nat : n + 1 = 1 + 3 => n = 3
          OBVIOUS
      <4> QED BY <4>1, <3>3, <3>4, Zenon
    <3> QED BY <3>1, <3>3, <3>5
  <2>2. Packet[1] = taken'[2] /\ Packet[3] = taken'[4]
    <3>1. \A i \in 1..3 : Packet[i] = taken'[1 + i]
        BY <1>1, <1>8, <2>1 DEF Before
    <3>2. Packet[1] = taken'[1 + 1] /\ Packet[3] = taken'[1 + 3]
        BY <3>1
    <3> QED BY <3>2
  <2>3. taken'[2] = sent[2] /\ taken'[4] = sent[4] /\ Len(sent) >= 4
    <3>1. /\ \A i \in 1..4 : taken'[i] = sent[i]
          /\ 4 + Len(chunks') + Len(toServer') <= Len(sent)
        BY <1>2, <1>3, <2>1 DEF Flow
    <3>2. Len(chunks') \in Nat /\ Len(toServer') \in Nat /\ Len(sent) \in Nat
      <4>1. chunks' = chunks /\ toServer' \in Seq(Field)
          BY ReadFlow DEF ReadField
      <4> QED BY <4>1 DEF Types
    <3> QED BY <3>1, <3>2
  <2>4. Packet[1].v = 1 /\ Packet[Len(Packet)].v = nonce
      BY <1>4, <2>1, <2>2, <2>3, FieldFacts DEF Layout, PeerTime
  <2>5. Len(got) + Len(toPeer) = 1
      BY <1>2, <1>5, <1>8 DEF Begun
  <2>6. out' = AckPacket(0, 0, s1) \o AckPacket(1, 0, nonce)
      BY <1>8, <2>4 DEF Writes
  <2>7. /\ out' \in Seq(Field) /\ Len(out') = 6
        /\ \A i \in 1..6 : out'[i] = Reply[1 + i]
      BY <1>4, <2>6, ReplyParts, Zenon
  <2>8. Answer'
    <3>1. Begun' = 7
        BY <1>8 DEF Begun
    <3>2. /\ Len(got) + Len(toPeer) + Len(out') = 7
          /\ \A i \in 1..Len(out') : out'[i] = Reply[Len(got) + Len(toPeer) + i]
        BY <2>5, <2>7
    <3> QED BY <1>2, <1>6, <2>7, <3>1, <3>2 DEF Answer
  <2>9. taken'[1].v = Supported
      BY <1>3, <1>8, <2>1 DEF Progress, VersionOk
  <2>10. Progress'
      BY <1>8, <2>1, <2>9, FieldCounts
      DEF Progress, Reading, Writing, Finished, VersionOk, ChallengeOk, Active, Before
  <2> QED BY <2>7, <2>8, <2>10
<1>9. CASE seq = "serverAck"
  <2>1. Len(Packet) = 3 /\ Len(taken') = 7 /\ Len(taken) = 6
    <3>1. Before(seq) = 4 /\ Len(Packet) = 3
        BY <1>9, FieldCounts DEF Before
    <3>2. Len(taken') = Before(seq) + Len(Packet)
        BY <1>1
    <3>3. Len(taken') = Len(taken) + 1 /\ Len(taken) \in Nat
        BY <1>3, <1>4
    <3>4. Len(taken) + 1 = 4 + 3
        BY <3>1, <3>2, <3>3, Zenon
    <3>5. Len(taken) = 6
      <4>1. \A n \in Nat : n + 1 = 4 + 3 => n = 6
          OBVIOUS
      <4> QED BY <4>1, <3>3, <3>4, Zenon
    <3> QED BY <3>1, <3>3, <3>5
  <2>2. Packet[3] = taken'[7]
    <3>1. \A i \in 1..3 : Packet[i] = taken'[4 + i]
        BY <1>1, <1>9, <2>1 DEF Before
    <3>2. Packet[3] = taken'[4 + 3]
        BY <3>1
    <3> QED BY <3>2
  <2>3. taken'[7].v = s1
      BY <1>9, <2>1, <2>2 DEF Accepts, ChallengeAccepted
  <2>4. out' = <<>> /\ Len(out') = 0 /\ out' \in Seq(Field)
      BY <1>9 DEF Writes
  <2>5. Len(got) + Len(toPeer) = 7
      BY <1>5, <1>9 DEF Begun
  <2>6. Answer'
      BY <1>2, <1>4, <1>6, <1>9, <2>4, <2>5 DEF Answer, Begun
  <2>7. taken'[1].v = Supported
      BY <1>3, <1>9, <2>1 DEF Progress, VersionOk
  <2>8. Progress'
      BY <1>2, <1>9, <2>1, <2>3, <2>4, <2>7, FieldCounts
      DEF Progress, Reading, Writing, Finished, VersionOk, ChallengeOk, Active, Before
  <2> QED BY <2>4, <2>6, <2>8
<1> QED BY <1>2, <1>7, <1>8, <1>9 DEF Active

\* A Read goes on, succeeds or fails.
LEMMA ReadStep ==
    ASSUME IInv, ReadField
    PROVE  IInv'
<1> USE DEF IInv
<1>1. /\ toServer' \in Seq(Field) /\ taken' \in Seq(Field)
      /\ Flow' /\ Lossless'
    BY ReadFlow
<1>2. /\ Packet \in Seq(Field)
      /\ Len(Packet) = Len(in) + 1
      /\ Len(taken') = Before(seq) + Len(Packet)
      /\ \A i \in 1..Len(Packet) : Packet[i] = taken'[Before(seq) + i]
      /\ out = <<>>
    BY ReadPacket
<1>3. /\ seq \in Active /\ side = "read"
      /\ UNCHANGED <<toPeer, gone, s1, recv, chunks, nonce, eager, stage, sent, got>>
    BY DEF ReadField, peerVars, Active
<1>4. Layout'
    BY <1>3 DEF Layout
<1>5. \A i \in 1..Len(taken) : taken'[i] = taken[i]
    BY ReadFlow
<1>6. CASE /\ Len(Packet) < Fields(seq)
           /\ in' = Packet
           /\ UNCHANGED <<seq, side, out>>
  <2>1. Types'
      BY <1>1, <1>2, <1>3, <1>6 DEF Types
  <2>2. Flags'
      BY <1>3, <1>6 DEF Flags
  <2>3. Answer'
      BY <1>3, <1>6 DEF Answer, Begun, Reply
  <2>4. Reading'
      BY <1>2, <1>6 DEF Reading
  <2>5. VersionOk'
    <3>1. CASE seq = "version"
        BY <3>1, <1>3, <1>6 DEF VersionOk
    <3>2. CASE seq # "version"
      <4>1. taken[1].v = Supported /\ Len(taken) >= 1
        <5>1. Len(in) \in Nat /\ Before(seq) >= 1 /\ Before(seq) \in Nat
            BY <3>2 DEF Types, Before
        <5>2. Len(taken) = Before(seq) + Len(in)
            BY <1>3 DEF Progress, Reading
        <5>3. Len(taken) >= 1
            BY <5>1, <5>2
        <5> QED BY <3>2, <5>3, <1>3 DEF Progress, VersionOk, Active
      <4>2. taken'[1] = taken[1]
          BY <4>1, <1>5 DEF Types
      <4> QED BY <4>1, <4>2 DEF VersionOk
    <3> QED BY <3>1, <3>2
  <2>6. Progress'
      BY <1>3, <1>6, <2>4, <2>5 DEF Progress, Writing, Finished, ChallengeOk, Active
  <2> QED BY <1>1, <1>4, <2>1, <2>2, <2>3, <2>6
<1>7. CASE /\ Len(Packet) = Fields(seq)
           /\ Accepts(seq, Packet)
           /\ in' = <<>>
           /\ side' = "write"
           /\ out' = Writes(seq, Packet)
           /\ UNCHANGED seq
  <2>1. Progress' /\ Answer' /\ out' \in Seq(Field)
      BY <1>7, ReadAccepted
  <2>2. Types'
      BY <1>1, <1>3, <1>7, <2>1 DEF Types
  <2>3. Flags'
      BY <1>3, <1>7 DEF Flags
  <2> QED BY <1>1, <1>4, <2>1, <2>2, <2>3
<1>8. CASE /\ in' = Packet
           /\ seq' = "failed"
           /\ UNCHANGED <<side, out>>
  <2>1. Types'
      BY <1>1, <1>2, <1>3, <1>8 DEF Types
  <2>2. Flags'
      BY <1>3, <1>8 DEF Flags, Active
  <2>3. Answer'
      BY <1>3, <1>8 DEF Answer, Reply
  <2>4. Progress'
      BY <1>8 DEF Progress, Reading, Writing, Finished, VersionOk, ChallengeOk, Active
  <2> QED BY <1>1, <1>4, <2>1, <2>2, <2>3, <2>4
<1> QED BY <1>6, <1>7, <1>8 DEF ReadField, Packet

-----------------------------------------------------------------------------
(* The server's writes.                                                    *)

\* A field that is written is the next one of the reply under way.
LEMMA WriteAnswer ==
    ASSUME Types, Answer, WriteField
    PROVE  /\ toPeer' \in Seq(Field) /\ out' \in Seq(Field)
           /\ Answer'
<1> DEFINE g == Len(got) p == Len(toPeer) o == Len(out)
<1>1. /\ out # <<>>
      /\ toPeer' = Append(toPeer, Head(out))
      /\ out' = Tail(out)
      /\ UNCHANGED <<seq, side, s1, nonce, got>>
    BY DEF WriteField, peerVars
<1>2. toPeer \in Seq(Field) /\ out \in Seq(Field) /\ g \in Nat
    BY DEF Types
<1>3. /\ out' \in Seq(Field)
      /\ o \in Nat /\ o >= 1
      /\ Len(out') = o - 1
      /\ \A i \in 1..Len(out') : out'[i] = out[i + 1]
      /\ Head(out) \in Field
      /\ Head(out) = out[1]
    BY <1>1, <1>2, TailFacts
<1>4. /\ toPeer' \in Seq(Field)
      /\ Len(toPeer') = p + 1
      /\ \A i \in 1..p : toPeer'[i] = toPeer[i]
      /\ toPeer'[p + 1] = Head(out)
      /\ p \in Nat
    BY <1>1, <1>2, <1>3, AppendFacts
<1>5. /\ g + p + o <= 7 /\ o <= 6
      /\ seq # "failed" => g + p + o = Begun
      /\ \A i \in 1..g : got[i] = Reply[i]
      /\ \A i \in 1..p : toPeer[i] = Reply[g + i]
      /\ \A i \in 1..o : out[i] = Reply[g + p + i]
    BY DEF Answer
<1>6. Reply' = Reply /\ Begun' = Begun
    BY <1>1 DEF Reply, Begun
<1> HIDE DEF g, p, o
<1>7. g + (p + 1) + (o - 1) = g + p + o /\ o - 1 <= 6
    BY <1>2, <1>3, <1>4, <1>5
<1>8. \A i \in 1..(p + 1) : toPeer'[i] = Reply[g + i]
  <2>1. out[1] = Reply[g + p + 1] /\ g + p + 1 = g + (p + 1)
      BY <1>2, <1>3, <1>4, <1>5
  <2>2. toPeer'[p + 1] = Reply[g + (p + 1)]
      BY <2>1, <1>3, <1>4
  <2>3. \A i \in 1..(p + 1) : i \in 1..p \/ i = p + 1
      BY <1>4
  <2> QED BY <2>2, <2>3, <1>4, <1>5
<1>9. \A i \in 1..(o - 1) : out'[i] = Reply[g + (p + 1) + i]
  <2> SUFFICES ASSUME NEW i \in 1..(o - 1) PROVE out'[i] = Reply[g + (p + 1) + i]
      OBVIOUS
  <2>1. i + 1 \in 1..o /\ g + p + (i + 1) = g + (p + 1) + i
      BY <1>2, <1>3, <1>4
  <2> QED BY <2>1, <1>3, <1>5
<1>10. Answer'
    BY <1>1, <1>3, <1>4, <1>5, <1>6, <1>7, <1>8, <1>9 DEF Answer, g
<1> QED BY <1>3, <1>4, <1>10

\* The peer gets the next field of the reply.
LEMMA ReceiveAnswer ==
    ASSUME Types, Answer, Receive
    PROVE  /\ toPeer' \in Seq(Field) /\ got' \in Seq(Field)
           /\ Answer'
<1> DEFINE g == Len(got) p == Len(toPeer) o == Len(out)
<1>1. /\ toPeer # <<>>
      /\ got' = Append(got, Head(toPeer))
      /\ toPeer' = Tail(toPeer)
      /\ UNCHANGED <<seq, side, s1, nonce, out>>
    BY DEF Receive, serverVars
<1>2. toPeer \in Seq(Field) /\ got \in Seq(Field) /\ o \in Nat
    BY DEF Types
<1>3. /\ toPeer' \in Seq(Field)
      /\ p \in Nat /\ p >= 1
      /\ Len(toPeer') = p - 1
      /\ \A i \in 1..Len(toPeer') : toPeer'[i] = toPeer[i + 1]
      /\ Head(toPeer) \in Field
      /\ Head(toPeer) = toPeer[1]
    BY <1>1, <1>2, TailFacts
<1>4. /\ got' \in Seq(Field)
      /\ Len(got') = g + 1
      /\ \A i \in 1..g : got'[i] = got[i]
      /\ got'[g + 1] = Head(toPeer)
      /\ g \in Nat
    BY <1>1, <1>2, <1>3, AppendFacts
<1>5. /\ g + p + o <= 7 /\ o <= 6
      /\ seq # "failed" => g + p + o = Begun
      /\ \A i \in 1..g : got[i] = Reply[i]
      /\ \A i \in 1..p : toPeer[i] = Reply[g + i]
      /\ \A i \in 1..o : out[i] = Reply[g + p + i]
    BY DEF Answer
<1>6. Reply' = Reply /\ Begun' = Begun
    BY <1>1 DEF Reply, Begun
<1> HIDE DEF g, p, o
<1>7. (g + 1) + (p - 1) + o = g + p + o /\ (g + 1) + (p - 1) = g + p
    BY <1>2, <1>3, <1>4
<1>8. \A i \in 1..(g + 1) : got'[i] = Reply[i]
  <2>1. toPeer[1] = Reply[g + 1]
      BY <1>3, <1>5
  <2>2. \A i \in 1..(g + 1) : i \in 1..g \/ i = g + 1
      BY <1>4
  <2> QED BY <2>1, <2>2, <1>3, <1>4, <1>5
<1>9. \A i \in 1..(p - 1) : toPeer'[i] = Reply[(g + 1) + i]
  <2> SUFFICES ASSUME NEW i \in 1..(p - 1) PROVE toPeer'[i] = Reply[(g + 1) + i]
      OBVIOUS
  <2>1. i + 1 \in 1..p /\ g + (i + 1) = (g + 1) + i
      BY <1>3, <1>4
  <2> QED BY <2>1, <1>3, <1>5
<1>10. /\ Len(got') = g + 1
       /\ Len(got') + Len(toPeer') = g + p
       /\ Len(got') + Len(toPeer') + Len(out') = g + p + o
       /\ Len(out') = o /\ out' = out
    BY <1>1, <1>3, <1>4, <1>7 DEF o
<1>11. /\ \A i \in 1..Len(got') : got'[i] = Reply[i]
       /\ \A i \in 1..Len(toPeer') : toPeer'[i] = Reply[Len(got') + i]
    BY <1>3, <1>4, <1>8, <1>9
<1>12. Answer'
    BY <1>1, <1>5, <1>6, <1>10, <1>11 DEF Answer
<1> QED BY <1>3, <1>4, <1>12

\* A sequence that is over hands on to the next, or ends the handshake.
LEMMA NextStep ==
    ASSUME IInv, NextSequence
    PROVE  IInv'
<1> USE DEF IInv
<1>1. /\ seq \in Active /\ side = "write" /\ out = <<>>
      /\ seq' = Successor(seq) /\ side' = "read"
      /\ UNCHANGED <<toServer, toPeer, gone, in, out, s1, taken, chunks,
                     nonce, eager, stage, sent, got>>
    BY DEF NextSequence, Active, connVars, peerVars
<1>2. recv' = (seq' = "none")
    BY DEF NextSequence
<1>3. /\ Len(taken) = Before(seq) + Fields(seq)
      /\ in = <<>>
    BY <1>1 DEF Progress, Writing
<1>4. /\ seq = "version" => seq' = "clientAck" /\ Len(taken) = 1
      /\ seq = "clientAck" => seq' = "serverAck" /\ Len(taken) = 4
      /\ seq = "serverAck" => seq' = "none" /\ Len(taken) = 7
    BY <1>1, <1>3, FieldCounts DEF Successor, Before
<1>5. Types'
    BY <1>1, <1>4 DEF Types, Active
<1>6. Flags'
    BY <1>1, <1>2 DEF Flags
<1>7. Flow' /\ Lossless' /\ Layout'
    BY <1>1 DEF Flow, Lossless, Layout, Active
<1>8. Progress'
  <2>1. Len(in) = 0 /\ \A i \in 1..Len(in) : FALSE
      BY <1>3
  <2>2. Reading'
      BY <1>1, <1>3, <1>4, <2>1, FieldCounts DEF Reading, Active, Before
  <2>3. Writing' /\ Finished'
      BY <1>1, <1>3, <1>4 DEF Writing, Finished, Active
  <2>4. VersionOk'
      BY <1>1 DEF Progress, VersionOk, Active
  <2>5. ChallengeOk'
      BY <1>1, <1>4 DEF Progress, ChallengeOk, Active
  <2> QED BY <2>2, <2>3, <2>4, <2>5 DEF Progress
<1>9. Begun' = Begun /\ Reply' = Reply
    BY <1>1, <1>4 DEF Begun, Reply, Active
<1>10. Answer'
    BY <1>1, <1>9 DEF Answer, Active
<1> QED BY <1>5, <1>6, <1>7, <1>8, <1>10

-----------------------------------------------------------------------------
(* The theorems.                                                           *)

\* Every step of the server and of the peer, and a loss of the connection, keeps
\* the invariant.
LEMMA IInvStep == IInv /\ [Next]_vars => IInv'
<1> SUFFICES ASSUME IInv, [Next]_vars PROVE IInv'
    OBVIOUS
<1> USE DEF IInv
<1>1. CASE ReadField
    BY <1>1, ReadStep
<1>2. CASE WriteField
  <2>1. /\ toPeer' \in Seq(Field) /\ out' \in Seq(Field)
        /\ Answer'
      BY <1>2, WriteAnswer
  <2>2. /\ UNCHANGED <<toServer, gone, seq, side, in, s1, recv, taken, chunks,
                       nonce, eager, stage, sent, got>>
        /\ side = "write" /\ out # <<>> /\ seq \in Active
      BY <1>2 DEF WriteField, peerVars, Active
  <2>3. Types'
      BY <2>1, <2>2 DEF Types
  <2>4. Flags' /\ Flow' /\ Lossless' /\ Layout'
      BY <2>2 DEF Flags, Flow, Lossless, Layout
  <2>5. seq # "serverAck"
      BY <2>2 DEF Progress, Writing
  <2>6. Progress'
      BY <2>2, <2>5
      DEF Progress, Reading, Writing, Finished, VersionOk, ChallengeOk, Active
  <2> QED BY <2>1, <2>3, <2>4, <2>6
<1>3. CASE NextSequence
    BY <1>3, NextStep
<1>4. CASE IOError
  <2>1. /\ seq' = "failed" /\ seq \in Active
        /\ UNCHANGED <<toServer, toPeer, gone, side, in, out, s1, recv, taken, chunks,
                       nonce, eager, stage, sent, got>>
      BY <1>4 DEF IOError, connVars, peerVars, Active
  <2>2. Types'
      BY <2>1 DEF Types
  <2>3. Flags' /\ Flow' /\ Lossless' /\ Layout'
      BY <2>1 DEF Flags, Flow, Lossless, Layout, Active
  <2>4. Progress'
      BY <2>1 DEF Progress, Reading, Writing, Finished, VersionOk, ChallengeOk, Active
  <2>5. Answer'
      BY <2>1 DEF Answer, Reply
  <2> QED BY <2>2, <2>3, <2>4, <2>5
<1>5. CASE RecvChunk
  <2>1. /\ toServer' \in Seq(Field) /\ chunks' \in Seq(Field)
        /\ Flow' /\ Lossless'
      BY <1>5, RecvFlow
  <2>2. UNCHANGED <<toPeer, gone, seq, side, in, out, s1, recv, taken,
                    nonce, eager, stage, sent, got>>
      BY <1>5 DEF RecvChunk, peerVars
  <2>3. Types'
      BY <2>1, <2>2 DEF Types
  <2>4. Flags' /\ Layout'
      BY <2>2 DEF Flags, Layout
  <2>5. Progress'
      BY <2>2 DEF Progress, Reading, Writing, Finished, VersionOk, ChallengeOk
  <2>6. Answer'
      BY <2>2 DEF Answer, Begun, Reply
  <2> QED BY <2>1, <2>3, <2>4, <2>5, <2>6
<1>6. CASE SendC0 \/ SendC1 \/ SendC2 \/ SendChunk
  <2>1. Layout' /\ stage' \in {"C0", "C1", "C2", "chunks"}
      BY <1>6, SendLayout
  <2>2. PICK fields \in Seq(Field) : \E next \in {"C1", "C2", "chunks"} :
                Send(fields, next)
      BY <1>6, SendLayout
  <2>3. PICK next \in {"C1", "C2", "chunks"} : Send(fields, next)
      BY <2>2
  <2>4. Flow' /\ Lossless'
      BY <2>3, SendFlow
  <2>5. UNCHANGED <<toPeer, gone, seq, side, in, out, s1, recv, taken, chunks,
                    nonce, eager, got>>
      BY <2>3 DEF Send, serverVars
  <2>6. toServer' \in Seq(Field) /\ sent' \in Seq(Field)
    <3>1. toServer' = toServer \o fields /\ sent' = sent \o fields
        BY <2>3 DEF Send
    <3> QED BY <3>1 DEF Types
  <2>7. Types'
      BY <2>1, <2>5, <2>6 DEF Types
  <2>8. Flags'
      BY <2>5 DEF Flags
  <2>9. Progress'
      BY <2>5 DEF Progress, Reading, Writing, Finished, VersionOk, ChallengeOk
  <2>10. Answer'
      BY <2>5 DEF Answer, Begun, Reply
  <2> QED BY <2>1, <2>4, <2>7, <2>8, <2>9, <2>10
<1>7. CASE Receive
  <2>1. /\ toPeer' \in Seq(Field) /\ got' \in Seq(Field)
        /\ Answer'
      BY <1>7, ReceiveAnswer
  <2>2. UNCHANGED <<toServer, gone, seq, side, in, out, s1, recv, taken, chunks,
                    nonce, eager, stage, sent>>
      BY <1>7 DEF Receive, serverVars
  <2>3. Types'
      BY <2>1, <2>2 DEF Types
  <2>4. Flags' /\ Flow' /\ Lossless' /\ Layout'
      BY <2>2 DEF Flags, Flow, Lossless, Layout
  <2>5. Progress'
      BY <2>2 DEF Progress, Reading, Writing, Finished, VersionOk, ChallengeOk
  <2> QED BY <2>1, <2>3, <2>4, <2>5
<1>8. CASE Drop
  <2>1. toServer' \in Seq(Field) /\ Flow' /\ Lossless'
      BY <1>8, DropFlow
  <2>2. UNCHANGED <<toPeer, seq, side, in, out, s1, recv, taken, chunks,
                    nonce, eager, stage, sent, got>>
      BY <1>8 DEF Drop, serverVars, peerVars
  <2>3. gone' = TRUE
      BY <1>8 DEF Drop
  <2>4. Types'
      BY <2>1, <2>2 DEF Types
  <2>5. Flags' /\ Layout'
      BY <2>2, <2>3 DEF Flags, Layout
  <2>6. Progress'
      BY <2>2 DEF Progress, Reading, Writing, Finished, VersionOk, ChallengeOk
  <2>7. Answer'
      BY <2>2 DEF Answer, Begun, Reply
  <2> QED BY <2>1, <2>4, <2>5, <2>6, <2>7
<1>9. CASE UNCHANGED vars
  <2>1. UNCHANGED <<toServer, toPeer, gone, seq, side, in, out, s1, recv, taken, chunks,
                    nonce, eager, stage, sent, got>>
      BY <1>9 DEF vars, connVars, serverVars, peerVars
  <2>2. Types'
      BY <2>1 DEF Types
  <2>3. Flags' /\ Flow' /\ Lossless' /\ Layout'
      BY <2>1 DEF Flags, Flow, Lossless, Layout
  <2>4. Progress'
      BY <2>1 DEF Progress, Reading, Writing, Finished, VersionOk, ChallengeOk
  <2>5. Answer'
      BY <2>1 DEF Answer, Begun, Reply
  <2> QED BY <2>2, <2>3, <2>4, <2>5
<1> QED BY <1>1, <1>2, <1>3, <1>4, <1>5, <1>6, <1>7, <1>8, <1>9
    DEF Next, Server, Peer

\* The invariant holds in every reachable state.
THEOREM HandshakeInvariant == Spec => []IInv
<1>1. Init => IInv
  <2> SUFFICES ASSUME Init PROVE IInv
      OBVIOUS
  <2>1. /\ toServer = <<>> /\ toPeer = <<>> /\ in = <<>> /\ out = <<>>
        /\ taken = <<>> /\ chunks = <<>> /\ sent = <<>> /\ got = <<>>
        /\ seq = "version" /\ side = "read" /\ stage = "C0"
        /\ s1 \in Nonces /\ nonce \in Nonces
      BY DEF Init
  <2>2. gone = FALSE /\ recv = FALSE
      BY DEF Init
  <2>3. Types
      BY <2>1 DEF Types, Active
  <2>4. Flags
      BY <2>1, <2>2 DEF Flags
  <2>5. Flow /\ Lossless /\ Layout
      BY <2>1 DEF Flow, Lossless, Layout
  <2>6. Progress
      BY <2>1, FieldCounts
      DEF Progress, Reading, Writing, Finished, VersionOk, ChallengeOk, Before
  <2>7. Answer
      BY <2>1 DEF Answer, Begun
  <2> QED BY <2>3, <2>4, <2>5, <2>6, <2>7 DEF IInv
<1> QED BY <1>1, IInvStep, PTL DEF Spec

\* A Read never holds a whole packet that it has not judged, and neither side
\* ever has more fields than the handshake has (Handshaker.Handshake).
THEOREM TypeCorrect == Spec => []TypeOK
<1>1. IInv => TypeOK
  <2> SUFFICES ASSUME IInv PROVE TypeOK
      OBVIOUS
  <2> USE DEF IInv
  <2>1. seq # "failed" => Len(in) < 3
    <3>1. CASE seq \in Active /\ side = "read"
      <4>1. Len(in) < Fields(seq) /\ Len(in) \in Nat
          BY <3>1 DEF Progress, Reading, Types
      <4>2. Fields(seq) = 1 \/ Fields(seq) = 3
          BY <3>1, FieldCounts DEF Active
      <4> QED BY <4>1, <4>2
    <3>2. CASE seq \in Active /\ side = "write"
        BY <3>2 DEF Progress, Writing
    <3>3. CASE seq = "none"
        BY <3>3 DEF Progress, Finished
    <3> QED BY <3>1, <3>2, <3>3 DEF Types
  <2>2. Len(out) <= 6 /\ Len(got) <= 7
      BY DEF Answer, Types
  <2>3. {gone, recv} \subseteq BOOLEAN
      BY DEF Flags
  <2> QED BY <2>1, <2>2, <2>3 DEF TypeOK, Types, Active
<1> QED BY <1>1, HandshakeInvariant, PTL

\* Client.Handshake starts the parser only for a peer that asked for the
\* supported version and returned the challenge of S1.
THEOREM VerifiedPeer == Spec => []OnlyVerified
<1>1. IInv => OnlyVerified
  <2> SUFFICES ASSUME IInv, recv
               PROVE  /\ taken[1] = Version(Supported)
                      /\ taken[Len(taken)] = Payload(s1)
      BY DEF OnlyVerified
  <2> USE DEF IInv
  <2>1. seq = "none"
      BY DEF Flags
  <2>2. Len(taken) = 7 /\ taken[1].v = Supported /\ taken[7].v = s1
      BY <2>1 DEF Progress, Finished, VersionOk, ChallengeOk
  <2>3. Len(sent) >= 7
    <3>1. Len(taken) + Len(chunks) + Len(toServer) <= Len(sent)
        BY DEF Flow
    <3>2. Len(chunks) \in Nat /\ Len(toServer) \in Nat /\ Len(sent) \in Nat
        BY DEF Types
    <3> QED BY <3>1, <3>2, <2>2
  <2>4. taken[1] = sent[1] /\ taken[7] = sent[7]
      BY <2>2 DEF Flow
  <2>5. PICK x \in Versions : sent[1] = Version(x)
    <3>1. Len(sent) >= 1
        BY <2>3 DEF Types
    <3> QED BY <3>1 DEF Layout
  <2>6. PICK y \in Nonces : sent[7] = Payload(y)
      BY <2>3 DEF Layout
  <2>7. x = Supported
      BY <2>2, <2>4, <2>5, FieldFacts
  <2>8. y = s1
      BY <2>2, <2>4, <2>6, FieldFacts
  <2> QED BY <2>2, <2>4, <2>5, <2>6, <2>7, <2>8
<1> QED BY <1>1, HandshakeInvariant, PTL

\* The handshake takes C0, C1 and C2 and not a byte more, however early the peer
\* sends its first chunks (Handshaker.Handshake, Client.Handshake).
THEOREM HandsOverExactly == Spec => []ExactHandover
<1>1. IInv => ExactHandover
  <2> SUFFICES ASSUME IInv, recv
               PROVE  /\ Len(taken) = 7
                      /\ \A i \in DOMAIN chunks : chunks[i] = Chunk
                      /\ taken \o chunks = SubSeq(sent, 1, 7 + Len(chunks))
      BY DEF ExactHandover
  <2> USE DEF IInv
  <2> DEFINE c == Len(chunks)
  <2>1. seq = "none"
      BY DEF Flags
  <2>2. Len(taken) = 7
      BY <2>1 DEF Progress, Finished
  <2>3. c \in Nat /\ Len(sent) \in Nat /\ 7 + c <= Len(sent)
    <3>1. Len(taken) + Len(chunks) + Len(toServer) <= Len(sent)
        BY DEF Flow
    <3>2. Len(chunks) \in Nat /\ Len(toServer) \in Nat /\ Len(sent) \in Nat
        BY DEF Types
    <3> QED BY <3>1, <3>2, <2>2
  <2>4. /\ \A i \in 1..7 : taken[i] = sent[i]
        /\ \A i \in 1..c : chunks[i] = sent[7 + i]
      BY <2>2 DEF Flow
  <2>5. taken \in Seq(Field) /\ chunks \in Seq(Field) /\ sent \in Seq(Field)
        /\ DOMAIN chunks = 1..c
      BY DEF Types
  <2> HIDE DEF c
  <2>6. \A i \in 1..c : chunks[i] = Chunk
    <3>1. \A i \in 1..c : 7 + i \in 8..Len(sent)
        BY <2>3
    <3> QED BY <3>1, <2>4 DEF Layout
  <2> DEFINE a == taken \o chunks
             b == SubSeq(sent, 1, 7 + c)
  <2>7. /\ a \in Seq(Field) /\ Len(a) = 7 + c
        /\ \A i \in 1..7 : a[i] = taken[i]
        /\ \A i \in 1..c : a[7 + i] = chunks[i]
    <3>1. /\ a \in Seq(Field) /\ Len(a) = Len(taken) + Len(chunks)
          /\ \A i \in 1..Len(taken) : a[i] = taken[i]
          /\ \A i \in 1..Len(chunks) : a[Len(taken) + i] = chunks[i]
        BY <2>5, ConcatFacts
    <3> HIDE DEF a
    <3> QED BY <3>1, <2>2 DEF c
  <2>8. /\ b \in Seq(Field) /\ Len(b) = 7 + c
        /\ \A i \in 1..(7 + c) : b[i] = sent[i]
      BY <2>3, <2>5
  <2> HIDE DEF a, b
  <2>9. ASSUME NEW i \in 1..(7 + c) PROVE a[i] = b[i]
    <3>1. CASE i \in 1..7
        BY <3>1, <2>4, <2>7, <2>8
    <3>2. CASE i \notin 1..7
      <4>1. PICK j \in 1..c : i = 7 + j
        <5>1. i - 7 \in 1..c /\ i = 7 + (i - 7)
            BY <3>2, <2>3
        <5> QED BY <5>1
      <4> QED BY <4>1, <2>4, <2>7, <2>8
    <3> QED BY <3>1, <3>2
  <2>10. a = b
      BY <2>7, <2>8, <2>9
  <2> QED BY <2>2, <2>5, <2>6, <2>10 DEF a, b, c
<1> QED BY <1>1, HandshakeInvariant, PTL

\* Three fields in a row.
LEMMA ThreeFields ==
    ASSUME NEW S, NEW s \in Seq(S), NEW m \in Nat, m >= 1, m + 2 <= Len(s)
    PROVE  SubSeq(s, m, m + 2) = <<s[m], s[m + 1], s[m + 2]>>
<1> DEFINE a == SubSeq(s, m, m + 2)
           b == <<s[m], s[m + 1], s[m + 2]>>
<1>1. a \in Seq(S) /\ Len(a) = 3 /\ \A i \in 1..3 : a[i] = s[m + i - 1]
    OBVIOUS
<1>2. s[m] \in S /\ s[m + 1] \in S /\ s[m + 2] \in S
    OBVIOUS
<1>3. b \in Seq(S) /\ Len(b) = 3
    BY <1>2
<1>4. b[1] = s[m + 1 - 1] /\ b[2] = s[m + 2 - 1] /\ b[3] = s[m + 3 - 1]
  <2>1. m + 1 - 1 = m /\ m + 2 - 1 = m + 1 /\ m + 3 - 1 = m + 2
      OBVIOUS
  <2> QED BY <2>1
<1> HIDE DEF a, b
<1>5. \A i \in 1..3 : a[i] = b[i]
  <2>1. \A i \in 1..3 : i = 1 \/ i = 2 \/ i = 3
      OBVIOUS
  <2> QED BY <2>1, <1>1, <1>4
<1>6. a = b
    BY <1>1, <1>3, <1>5
<1> QED BY <1>6 DEF a, b

\* What the peer receives is S0, S1 and S2, and S2 answers its own C1
\* (VersionSequence.WriteTo, ClientAckSequence.WriteTo).
THEOREM AnswersPeer == Spec => []PeerSatisfied
<1>1. IInv => PeerSatisfied
  <2> SUFFICES ASSUME IInv, Len(got) = 7
               PROVE  /\ got[1] = Version(Supported)
                      /\ SubSeq(got, 2, 4) = AckPacket(0, 0, s1)
                      /\ SubSeq(got, 5, 7) = AckPacket(PeerTime, 0, nonce)
      BY DEF PeerSatisfied
  <2>1. got \in Seq(Field) /\ \A i \in 1..7 : got[i] = Reply[i]
      BY DEF IInv, Types, Answer
  <2>2. /\ got[1] = Version(Supported)
        /\ got[2] = Time(0) /\ got[3] = Time(0) /\ got[4] = Payload(s1)
        /\ got[5] = Time(PeerTime) /\ got[6] = Time(0) /\ got[7] = Payload(nonce)
      BY <2>1, ReplyFacts
  <2>3. SubSeq(got, 2, 2 + 2) = <<got[2], got[2 + 1], got[2 + 2]>>
    <3>1. 2 \in Nat /\ 2 >= 1 /\ 2 + 2 <= Len(got)
        OBVIOUS
    <3> QED BY <2>1, <3>1, ThreeFields, Zenon
  <2>4. SubSeq(got, 5, 5 + 2) = <<got[5], got[5 + 1], got[5 + 2]>>
    <3>1. 5 \in Nat /\ 5 >= 1 /\ 5 + 2 <= Len(got)
        OBVIOUS
    <3> QED BY <2>1, <3>1, ThreeFields, Zenon
  <2> QED BY <2>2, <2>3, <2>4 DEF AckPacket
<1> QED BY <1>1, HandshakeInvariant, PTL
=============================================================================
