------------------------------ MODULE Handshake ------------------------------
(***************************************************************************)
(* Client.Handshake on the server's side of a connection: the Handshaker   *)
(* goes through its sequences, each a read and a write, and starts the     *)
(* chunk parser when all have succeeded.  The connection is two streams of *)
(* fields: the version byte, the two times and the payload of an           *)
(* AckPacket, each read and written by one call, and the bytes of chunks.  *)
(* The peer is an RTMP client, which may send a wrong version or challenge *)
(* and may go away at any point.                                           *)
(***************************************************************************)
EXTENDS Naturals, Sequences

CONSTANTS
    Nonces,     \* challenge payloads
    Versions,   \* the versions that the peer may ask for
    MaxChunks   \* bound: chunk bytes that the peer sends after C2

Supported == 3          \* SupportedRTMPVersion

ASSUME HandshakeAssumption ==
    /\ Supported \in Versions
    /\ MaxChunks \in Nat

VARIABLES
    toServer, toPeer,  \* the fields under way in each direction
    gone,              \* is the connection lost?
    \* the server
    seq,      \* Handshaker.current
    side,     \* in its Read or its WriteTo
    in,       \* the fields that this Read has read
    out,      \* the fields that this WriteTo still has to write
    s1,       \* the payload of S1
    recv,     \* has Client.Handshake started chunks.Recv?
    taken,    \* history: the fields that the handshake read
    chunks,   \* history: the fields that chunks.Recv read
    \* the peer
    nonce,    \* the payload of its C1
    eager,    \* does it send C1 without waiting for S0, and C2 for S2?
    stage,    \* what it sends next
    sent,     \* history: the fields it sent
    got       \* the fields it received
connVars   == <<toServer, toPeer, gone>>
serverVars == <<seq, side, in, out, s1, recv, taken, chunks>>
peerVars   == <<nonce, eager, stage, sent, got>>
vars == <<connVars, serverVars, peerVars>>

Version(v) == [f |-> "version", v |-> v]
Time(t)    == [f |-> "time", v |-> t]
Payload(p) == [f |-> "payload", v |-> p]
Chunk      == [f |-> "chunk", v |-> 0]

\* The fields of an AckPacket.
AckPacket(t1, t2, p) == <<Time(t1), Time(t2), Payload(p)>>
PeerTime == 1           \* the time in C1, any but the 0 of an empty packet

Init ==
    /\ toServer = <<>> /\ toPeer = <<>> /\ gone = FALSE
    /\ seq = "version" /\ side = "read" /\ in = <<>> /\ out = <<>>
    /\ s1 \in Nonces
    /\ recv = FALSE /\ taken = <<>> /\ chunks = <<>>
    /\ nonce \in Nonces /\ eager \in BOOLEAN
    /\ stage = "C0" /\ sent = <<>> /\ got = <<>>

-----------------------------------------------------------------------------
(* The server.                                                             *)

\* Mutant: a packet with a field too many.
FieldsLong(q)  == IF q = "version" THEN 1 ELSE 4

\* How many fields the Read of a sequence takes.
Fields(q) == IF q = "version" THEN 1 ELSE Len(AckPacket(0, 0, 0))

\* VersionSequence.Read: the version is the supported one.
VersionAccepted(r) == r[1].v = Supported

\* Mutant: C2 is not compared with S1.
AnyChallenge(r) == TRUE
\* ServerAckSequence.Read: the payload of C2, its last field, is that of S1.
ChallengeAccepted(r) == r[Len(r)].v = s1

\* Does the Read of sequence q succeed with the fields r?
Accepts(q, r) ==
    /\ q = "version" => VersionAccepted(r)
    /\ q = "serverAck" => ChallengeAccepted(r)

\* Mutant: S2 repeats the server's own challenge.
WritesBack(q, r) ==
    CASE q = "version"   -> <<Version(Supported)>>
      [] q = "clientAck" -> AckPacket(0, 0, s1) \o AckPacket(r[1].v, 0, s1)
      [] OTHER           -> <<>>

\* Mutant: S1 and S2 are held back until C2 has come.
WritesLate(q, r) ==
    CASE q = "version"   -> <<Version(Supported)>>
      [] q = "serverAck" -> AckPacket(0, 0, s1) \o AckPacket(r[1].v, 0, r[Len(r)].v)
      [] OTHER           -> <<>>

\* What its WriteTo writes: S0, then S1 and S2, then nothing.  S2 repeats the
\* first time and the payload of C1.
Writes(q, r) ==
    CASE q = "version"   -> <<Version(Supported)>>
      [] q = "clientAck" -> AckPacket(0, 0, s1) \o AckPacket(r[1].v, 0, r[Len(r)].v)
      [] OTHER           -> <<>>

\* Mutant: the handshake is over when S2 is written, before C2 is read.
SuccessorSkipsC2(q) ==
    CASE q = "version" -> "clientAck" [] OTHER -> "none"

\* Sequence.Next.
Successor(q) ==
    CASE q = "version" -> "clientAck" [] q = "clientAck" -> "serverAck" [] OTHER -> "none"

\* One field of the packet is read; the last one ends the Read.
ReadField ==
    /\ seq \in {"version", "clientAck", "serverAck"}
    /\ side = "read"
    /\ toServer # <<>>
    /\ toServer' = Tail(toServer)
    /\ taken' = Append(taken, Head(toServer))
    /\ LET r == Append(in, Head(toServer))
       IN  \/ /\ Len(r) < Fields(seq)
              /\ in' = r
              /\ UNCHANGED <<seq, side, out>>
           \/ /\ Len(r) = Fields(seq)
              /\ Accepts(seq, r)
              /\ in' = <<>>
              /\ side' = "write"
              /\ out' = Writes(seq, r)
              /\ UNCHANGED seq
           \/ /\ Len(r) = Fields(seq)
              /\ ~Accepts(seq, r)
              /\ in' = r
              /\ seq' = "failed"
              /\ UNCHANGED <<side, out>>
    /\ UNCHANGED <<toPeer, gone, s1, recv, chunks, peerVars>>

\* One field is written.
WriteField ==
    /\ seq \in {"version", "clientAck", "serverAck"}
    /\ side = "write"
    /\ out # <<>>
    /\ ~gone
    /\ toPeer' = Append(toPeer, Head(out))
    /\ out' = Tail(out)
    /\ UNCHANGED <<toServer, gone, seq, side, in, s1, recv, taken, chunks, peerVars>>

\* WriteTo has returned: on to the next sequence, and after the last one
\* Handshake returns nil and Client.Handshake starts the parser.
NextSequence ==
    /\ seq \in {"version", "clientAck", "serverAck"}
    /\ side = "write"
    /\ out = <<>>
    /\ seq' = Successor(seq)
    /\ side' = "read"
    /\ recv' = (seq' = "none")
    /\ UNCHANGED <<connVars, in, out, s1, taken, chunks, peerVars>>

\* Mutant: a sequence that fails is tried again.
IOErrorRetries ==
    /\ seq \in {"version", "clientAck", "serverAck"}
    /\ gone
    /\ side = "read" => toServer = <<>>
    /\ side = "write" => out # <<>>
    /\ side' = "read"
    /\ in' = <<>>
    /\ out' = <<>>
    /\ UNCHANGED <<connVars, seq, s1, recv, taken, chunks, peerVars>>

\* A read finds the end of the connection, or a write fails; the error is
\* returned at once.
IOError ==
    /\ seq \in {"version", "clientAck", "serverAck"}
    /\ gone
    /\ side = "read" => toServer = <<>>
    /\ side = "write" => out # <<>>
    /\ seq' = "failed"
    /\ UNCHANGED <<connVars, side, in, out, s1, recv, taken, chunks, peerVars>>

\* The chunk parser reads on.
RecvChunk ==
    /\ recv
    /\ toServer # <<>>
    /\ toServer' = Tail(toServer)
    /\ chunks' = Append(chunks, Head(toServer))
    /\ UNCHANGED <<toPeer, gone, seq, side, in, out, s1, recv, taken, peerVars>>

-----------------------------------------------------------------------------
(* The peer.                                                               *)

Send(fields, next) ==
    /\ ~gone
    /\ toServer' = toServer \o fields
    /\ sent' = sent \o fields
    /\ stage' = next
    /\ UNCHANGED <<toPeer, gone, serverVars, nonce, eager, got>>

\* The peer waits for n fields, or for less if it is eager.
Waited(least, n) == Len(got) >= (IF eager THEN least ELSE n)

SendC0 == stage = "C0" /\ \E v \in Versions : Send(<<Version(v)>>, "C1")
SendC1 == /\ stage = "C1"
          /\ Waited(0, 1)
          /\ Send(AckPacket(PeerTime, 0, nonce), "C2")
\* C2 repeats the payload of S1, the fourth field received, or is wrong.
SendC2 == /\ stage = "C2"
          /\ Waited(4, 7)
          /\ \E p \in Nonces : Send(AckPacket(0, 0, p), "chunks")
SendChunk == /\ stage = "chunks"
             /\ Len(sent) < 7 + MaxChunks
             /\ Send(<<Chunk>>, "chunks")

Receive ==
    /\ toPeer # <<>>
    /\ toPeer' = Tail(toPeer)
    /\ got' = Append(got, Head(toPeer))
    /\ UNCHANGED <<toServer, gone, serverVars, nonce, eager, stage, sent>>

\* The connection is lost, and some of what was under way with it.
Drop ==
    /\ ~gone
    /\ gone' = TRUE
    /\ \E n \in 0..Len(toServer) : toServer' = SubSeq(toServer, 1, n)
    /\ UNCHANGED <<toPeer, serverVars, peerVars>>

-----------------------------------------------------------------------------
Server == ReadField \/ WriteField \/ NextSequence \/ IOError \/ RecvChunk
Peer   == SendC0 \/ SendC1 \/ SendC2 \/ SendChunk \/ Receive
Next   == Server \/ Peer \/ Drop

Spec == Init /\ [][Next]_vars

\* Both sides go on while they can.
FairSpec == Spec /\ WF_vars(Server) /\ WF_vars(Peer)

-----------------------------------------------------------------------------
(* Properties.                                                             *)

\* The variables have their types, and a Read holds less than a packet.
TypeOK ==
    /\ seq \in {"version", "clientAck", "serverAck", "failed", "none"}
    /\ side \in {"read", "write"}
    /\ stage \in {"C0", "C1", "C2", "chunks"}
    /\ {gone, recv} \subseteq BOOLEAN
    /\ s1 \in Nonces /\ nonce \in Nonces
    /\ seq # "failed" => Len(in) < 3
    /\ Len(out) <= 6 /\ Len(got) <= 7

\* The parser starts only for a peer that asked for the supported version and
\* that returned the very challenge of S1 (Handshaker.Handshake, Client.Handshake).
OnlyVerified ==
    recv => /\ taken[1] = Version(Supported)
            /\ taken[Len(taken)] = Payload(s1)

\* The handshake reads C0, C1 and C2 and not a byte more, however early the peer
\* sends its first chunks: the parser starts with the first byte of a chunk.
ExactHandover ==
    recv => /\ Len(taken) = 7
            /\ \A i \in DOMAIN chunks : chunks[i] = Chunk
            /\ taken \o chunks = SubSeq(sent, 1, 7 + Len(chunks))

\* What the peer receives is S0, S1 and S2, and S2 answers its own C1
\* (ClientAckSequence.WriteTo).
PeerSatisfied ==
    Len(got) = 7 =>
        /\ got[1] = Version(Supported)
        /\ SubSeq(got, 2, 4) = AckPacket(0, 0, s1)
        /\ SubSeq(got, 5, 7) = AckPacket(PeerTime, 0, nonce)

\* Neither side waits for the other for ever: while the connection lasts and
\* the peer has sent nothing wrong, eager or not, the parser starts and the peer
\* has got everything.
PeerWrong ==
    \/ Len(sent) > 0 /\ sent[1] # Version(Supported)
    \/ Len(sent) > 6 /\ sent[7] # Payload(s1)
Completes == <>(gone \/ PeerWrong \/ (recv /\ Len(got) = 7))

\* A lost connection ends the handshake, with an error or because it was
\* complete.
LossNoticed == gone ~> seq \in {"failed", "none"}
=============================================================================
