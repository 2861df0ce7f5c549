-------------------------- MODULE ChunkParserProofs --------------------------
(***************************************************************************)
(* Proofs about ChunkParser, for any sets of ids, any number of callers of *)
(* Close and any number of chunks.                                         *)
(***************************************************************************)
EXTENDS ChunkParser, TLAPS

-----------------------------------------------------------------------------
(* The type invariant.                                                     *)

\* TypeOK is inductive together with this: a chunk the reader sends is in log.
ReaderHasChunk == rpc = "sendChunk" => Len(log) >= 1
TypeInv == TypeOK /\ ReaderHasChunk

\* Every step of every goroutine keeps the types.
LEMMA TypeStep == TypeInv /\ [Next]_vars => TypeInv'
<1> SUFFICES ASSUME TypeInv, [Next]_vars PROVE TypeInv'
    OBVIOUS
<1> USE DEF TypeInv, TypeOK, ReaderHasChunk, streamVars, userVars, fanVars
<1>1. CASE ReaderPolls \/ ReaderTakesClose
    BY <1>1 DEF ReaderPolls, ReaderTakesClose
<1>2. CASE ReadPart \/ ReadError
    BY <1>2 DEF ReadPart, ReadError
<1>3. ASSUME NEW id \in Ids, ReadChunk(id) PROVE TypeInv'
    BY <1>3 DEF ReadChunk
<1>4. CASE StartRecv \/ ParserTakesErr \/ ErrorReceived
    BY <1>4 DEF StartRecv, ParserTakesErr, ErrorReceived
<1>5. CASE ParserTakesChunk
  <2>1. log[Len(log)] \in Ids
      BY <1>5 DEF ParserTakesChunk
  <2> QED BY <1>5, <2>1 DEF ParserTakesChunk
<1>6. CASE Cleanup
    BY <1>6 DEF Cleanup
<1>7. CASE OpenMulti
    BY <1>7 DEF OpenMulti, Ids
<1>8. CASE AwaitClose \/ CloseOut
    BY <1>8 DEF AwaitClose, CloseOut
<1>9. ASSUME NEW id \in Single, OpenStream(id) PROVE TypeInv'
    BY <1>9 DEF OpenStream, Ids
<1>10. ASSUME NEW c \in Closers, Close(c) \/ CloseReturns(c) \/ ParserTakesClose(c)
       PROVE TypeInv'
  <2>1. CASE Close(c)
      BY <2>1 DEF Close
  <2>2. CASE CloseReturns(c)
      BY <2>2 DEF CloseReturns
  <2>3. CASE ParserTakesClose(c)
      BY <2>3 DEF ParserTakesClose
  <2> QED BY <1>10, <2>1, <2>2, <2>3
<1>11. ASSUME NEW id \in Single, DeliverSingle(id) PROVE TypeInv'
    BY <1>11 DEF DeliverSingle, Ids
<1>12. ASSUME NEW id \in Multi, Fan(id) PROVE TypeInv'
  <2>1. CASE DeliverMulti(id)
      BY <2>1 DEF DeliverMulti
  <2>2. CASE FanIn(id)
    <3>1. fcur[id] \in Nat /\ id \in Ids
        BY DEF Ids
    <3>2. got' \in [Ids -> Seq(Nat)]
        BY <2>2, <3>1 DEF FanIn
    <3> QED BY <2>2, <3>2 DEF FanIn
  <2>3. CASE FanInDone(id)
      BY <2>3 DEF FanInDone
  <2> QED BY <1>12, <2>1, <2>2, <2>3 DEF Fan
<1>13. CASE UNCHANGED vars
    BY <1>13 DEF vars
<1> QED
    BY <1>1, <1>2, <1>3, <1>4, <1>5, <1>6, <1>7, <1>8, <1>9, <1>10, <1>11,
       <1>12, <1>13 DEF Next, Reader, Peer, Parser, Users, Shut

\* The program points and the histories have their types in every reachable
\* state, and only channels of existing streams are closed (Parser.Recv).
THEOREM TypeCorrect == Spec => []TypeOK
<1>1. Init => TypeInv
    BY DEF Init, TypeInv, TypeOK, ReaderHasChunk
<1>2. TypeInv /\ [Next]_vars => TypeInv'
    BY TypeStep
<1>3. TypeInv => TypeOK
    BY DEF TypeInv
<1> QED BY <1>1, <1>2, <1>3, PTL DEF Spec

-----------------------------------------------------------------------------
(***************************************************************************)
(* The inductive invariant.  The chunks a stream has handed out, the chunk *)
(* its fan-in goroutine holds, the chunk the parser holds and the chunk    *)
(* the reader holds are places of log in strictly increasing order, and    *)
(* every place is one of these.                                            *)
(***************************************************************************)
ParserChain ==
    ppc = "deliver" =>
        /\ pcur \in 1..Len(log)
        /\ rpc = "sendChunk" => pcur < Len(log)

FanChain ==
    \A id \in Multi : fpc[id] = "send" =>
        /\ fcur[id] \in 1..Len(log)
        /\ log[fcur[id]] = id
        /\ rpc = "sendChunk" => fcur[id] < Len(log)
        /\ ppc = "deliver" => fcur[id] < pcur

GotChain ==
    \A id \in Ids : \A r \in Received(id) :
        /\ r \in 1..Len(log)
        /\ log[r] = id
        /\ rpc = "sendChunk" => r < Len(log)
        /\ ppc = "deliver" => r < pcur
        /\ id \in Multi /\ fpc[id] = "send" => r < fcur[id]

Increasing ==
    \A id \in Ids : \A k \in 1..Len(got[id]) :
        \A j \in 1..(k - 1) : got[id][j] < got[id][k]

\* How far the goroutines are from one another.
Phases ==
    /\ ppc = "idle" => rpc = "idle"
    /\ ppc \in {"cleanup", "done"} => rpc = "done"
    /\ closedIn # {} => ppc = "done"
    /\ \A id \in Multi : fpc[id] = "none" <=> multi # "open"
    /\ \A id \in Multi : fpc[id] = "done" => ppc = "done"
    /\ multi = "open" => Multi # {}
    /\ apc # "idle" => multi = "open"
    /\ apc = "closed" => ppc = "done" /\ \A id \in Multi : fpc[id] = "done"

Chain == ParserChain /\ FanChain /\ GotChain /\ Increasing /\ NothingLost

\* What one more element does to a sequence and to the set of its elements.
LEMMA AppendFacts ==
    ASSUME NEW S, NEW s \in Seq(S), NEW x \in S
    PROVE  /\ Append(s, x) \in Seq(S)
           /\ Len(Append(s, x)) = Len(s) + 1
           /\ \A k \in 1..Len(s) : Append(s, x)[k] = s[k]
           /\ Append(s, x)[Len(s) + 1] = x
           /\ {Append(s, x)[k] : k \in DOMAIN Append(s, x)}
                = {s[k] : k \in DOMAIN s} \cup {x}
<1> DEFINE t == Append(s, x)
<1>1. /\ t \in Seq(S)
      /\ Len(t) = Len(s) + 1
      /\ \A k \in 1..Len(s) : t[k] = s[k]
      /\ t[Len(s) + 1] = x
      /\ DOMAIN t = 1..(Len(s) + 1)
      /\ DOMAIN s = 1..Len(s)
      /\ Len(s) \in Nat
    OBVIOUS
<1> HIDE DEF t
<1>2. {t[k] : k \in DOMAIN t} = {s[k] : k \in DOMAIN s} \cup {x}
  <2>1. ASSUME NEW k \in DOMAIN t
        PROVE  t[k] \in {s[m] : m \in DOMAIN s} \cup {x}
    <3>1. k \in 1..Len(s) \/ k = Len(s) + 1
        BY <1>1
    <3> QED BY <1>1, <3>1
  <2>2. ASSUME NEW k \in DOMAIN s PROVE s[k] \in {t[m] : m \in DOMAIN t}
    <3>1. k \in DOMAIN t /\ t[k] = s[k]
        BY <1>1
    <3> QED BY <3>1
  <2>3. x \in {t[m] : m \in DOMAIN t}
    <3>1. Len(s) + 1 \in DOMAIN t
        BY <1>1
    <3> QED BY <1>1, <3>1
  <2> QED BY <2>1, <2>2, <2>3
<1> QED BY <1>1, <1>2 DEF t

\* The steps that move no chunk: they leave alone the histories, what the
\* goroutines hold and whether they hold it.
Quiet ==
    /\ UNCHANGED <<log, got, pcur, fcur>>
    /\ (rpc' = "sendChunk") <=> (rpc = "sendChunk")
    /\ (ppc' = "deliver") <=> (ppc = "deliver")
    /\ \A id \in Multi : (fpc'[id] = "send") <=> (fpc[id] = "send")

Moves == \/ ParserTakesChunk
         \/ \E id \in Ids : ReadChunk(id)
         \/ \E id \in Single : DeliverSingle(id)
         \/ \E id \in Multi : DeliverMulti(id) \/ FanIn(id)

\* Reading, taking, delivering and fanning in are the only steps that move a
\* chunk, apart from the call of Stream(ids...) that starts the fan-in
\* goroutines: that one finds none of them holding a chunk.
LEMMA OthersQuiet ==
    ASSUME TypeInv, Phases, [Next]_vars
    PROVE  Moves \/ Quiet
<1> USE DEF TypeInv, TypeOK, streamVars, userVars, fanVars, Phases, Quiet
<1>1. CASE ReaderPolls \/ ReaderTakesClose
    BY <1>1 DEF ReaderPolls, ReaderTakesClose
<1>2. CASE ReadPart \/ ReadError
    BY <1>2 DEF ReadPart, ReadError
<1>3. CASE StartRecv \/ ParserTakesErr \/ ErrorReceived
    BY <1>3 DEF StartRecv, ParserTakesErr, ErrorReceived
<1>4. CASE Cleanup
    BY <1>4 DEF Cleanup
<1>5. CASE OpenMulti
    BY <1>5 DEF OpenMulti
<1>6. CASE AwaitClose \/ CloseOut
    BY <1>6 DEF AwaitClose, CloseOut
<1>7. ASSUME NEW id \in Single, OpenStream(id) PROVE Quiet
    BY <1>7 DEF OpenStream
<1>8. ASSUME NEW c \in Closers, Close(c) \/ CloseReturns(c) \/ ParserTakesClose(c)
       PROVE Quiet
    BY <1>8 DEF Close, CloseReturns, ParserTakesClose
<1>9. ASSUME NEW id \in Multi, FanInDone(id) PROVE Quiet
    BY <1>9 DEF FanInDone
<1>10. CASE UNCHANGED vars
    BY <1>10 DEF vars
<1> QED
    BY <1>1, <1>2, <1>3, <1>4, <1>5, <1>6, <1>7, <1>8, <1>9, <1>10
       DEF Next, Reader, Peer, Parser, Users, Shut, Fan, Moves

\* Every step keeps the goroutines in phase.
LEMMA PhaseStep == TypeInv /\ Phases /\ [Next]_vars => Phases'
<1> SUFFICES ASSUME TypeInv, Phases, [Next]_vars PROVE Phases'
    OBVIOUS
<1> USE DEF TypeInv, TypeOK, streamVars, userVars, fanVars, Phases
<1>1. CASE ReaderPolls \/ ReaderTakesClose
    BY <1>1 DEF ReaderPolls, ReaderTakesClose
<1>2. CASE ReadPart \/ ReadError
    BY <1>2 DEF ReadPart, ReadError
<1>3. ASSUME NEW id \in Ids, ReadChunk(id) PROVE Phases'
    BY <1>3 DEF ReadChunk
<1>4. CASE StartRecv \/ ParserTakesErr \/ ErrorReceived
    BY <1>4 DEF StartRecv, ParserTakesErr, ErrorReceived
<1>5. CASE ParserTakesChunk
    BY <1>5 DEF ParserTakesChunk
<1>6. CASE Cleanup
    BY <1>6 DEF Cleanup
<1>7. CASE OpenMulti
    BY <1>7 DEF OpenMulti
<1>8. CASE AwaitClose \/ CloseOut
    BY <1>8 DEF AwaitClose, CloseOut
<1>9. ASSUME NEW id \in Single, OpenStream(id) PROVE Phases'
    BY <1>9 DEF OpenStream
<1>10. ASSUME NEW c \in Closers, Close(c) \/ CloseReturns(c) \/ ParserTakesClose(c)
       PROVE Phases'
    BY <1>10 DEF Close, CloseReturns, ParserTakesClose
<1>11. ASSUME NEW id \in Single, DeliverSingle(id) PROVE Phases'
    BY <1>11 DEF DeliverSingle
<1>12. ASSUME NEW id \in Multi, Fan(id) PROVE Phases'
    BY <1>12 DEF Fan, DeliverMulti, FanIn, FanInDone
<1>13. CASE UNCHANGED vars
    BY <1>13 DEF vars
<1> QED
    BY <1>1, <1>2, <1>3, <1>4, <1>5, <1>6, <1>7, <1>8, <1>9, <1>10, <1>11,
       <1>12, <1>13 DEF Next, Reader, Peer, Parser, Users, Shut

\* A quiet step keeps the chain.
LEMMA QuietStep == TypeInv /\ Chain /\ Quiet => Chain'
<1> SUFFICES ASSUME TypeInv, Chain, Quiet PROVE Chain'
    OBVIOUS
<1> USE DEF Quiet
<1>1. \A id : Received(id)' = Received(id)
    BY DEF Received
<1>2. ParserChain'
    BY DEF Chain, ParserChain
<1>3. FanChain'
    BY DEF Chain, FanChain
<1>4. GotChain'
    BY <1>1 DEF Chain, GotChain
<1>5. Increasing'
    BY DEF Chain, Increasing
<1>6. NothingLost'
    BY <1>1 DEF Chain, NothingLost, Held, ReaderHolds, ParserHolds, FanHolds
<1> QED BY <1>2, <1>3, <1>4, <1>5, <1>6 DEF Chain

\* The reader completes a chunk and holds it.
LEMMA ReadStep ==
    ASSUME TypeInv, Chain, NEW id \in Ids, ReadChunk(id)
    PROVE  Chain'
<1> USE DEF TypeInv, TypeOK, streamVars, userVars, fanVars
<1>1. /\ Len(log') = Len(log) + 1
      /\ \A i \in 1..Len(log) : log'[i] = log[i]
      /\ log'[Len(log) + 1] = id
      /\ DOMAIN log = 1..Len(log)
      /\ DOMAIN log' = 1..(Len(log) + 1)
      /\ Len(log) \in Nat
      /\ UNCHANGED <<got, ppc, pcur, fpc, fcur>>
      /\ rpc # "sendChunk"
      /\ rpc' = "sendChunk"
    BY AppendFacts DEF ReadChunk
<1>2. \A x : Received(x)' = Received(x)
    BY <1>1 DEF Received
<1>3. ParserChain'
    BY <1>1 DEF Chain, ParserChain
<1>4. FanChain'
    BY <1>1 DEF Chain, FanChain
<1>5. GotChain'
    BY <1>1, <1>2 DEF Chain, GotChain
<1>6. Increasing'
    BY <1>1 DEF Chain, Increasing
<1>7. NothingLost'
  <2> SUFFICES ASSUME NEW i \in DOMAIN log'
               PROVE  (i \in Received(log[i]) \/ Held(i))'
      BY DEF NothingLost
  <2>1. CASE i = Len(log) + 1
      BY <1>1, <2>1 DEF Held, ReaderHolds
  <2>2. CASE i \in DOMAIN log
    <3>1. log'[i] = log[i]
        BY <1>1, <2>2
    <3>2. CASE i \in Received(log[i])
      <4>1. Received(log[i])' = Received(log[i])
          BY <1>1, <3>1 DEF Received
      <4> QED BY <3>2, <4>1
    <3>3. CASE ParserHolds(i) \/ FanHolds(i)
        BY <1>1, <3>1, <3>3 DEF Held, ParserHolds, FanHolds
    <3>4. ~ReaderHolds(i)
        BY <1>1 DEF ReaderHolds
    <3> QED BY <2>2, <3>2, <3>3, <3>4 DEF Chain, NothingLost, Held
  <2>3. i = Len(log) + 1 \/ i \in DOMAIN log
    <3> HIDE DEF TypeInv, TypeOK
    <3> QED BY <1>1
  <2> HIDE DEF TypeInv, TypeOK
  <2> QED BY <2>1, <2>2, <2>3
<1> QED BY <1>3, <1>4, <1>5, <1>6, <1>7 DEF Chain

\* The parser takes the chunk that the reader holds.
LEMMA TakeStep ==
    ASSUME TypeInv, Chain, ParserTakesChunk
    PROVE  Chain'
<1> USE DEF TypeInv, TypeOK, streamVars, userVars, fanVars
<1>1. /\ UNCHANGED <<log, got, fpc, fcur>>
      /\ rpc = "sendChunk" /\ rpc' # "sendChunk"
      /\ ppc # "deliver" /\ ppc' = "deliver" /\ pcur' = Len(log)
      /\ Len(log) \in Nat /\ Len(log) >= 1
      /\ DOMAIN log = 1..Len(log)
    BY DEF ParserTakesChunk, ReaderHasChunk
<1>2. \A x : Received(x)' = Received(x)
    BY <1>1 DEF Received
<1>3. ParserChain'
    BY <1>1 DEF ParserChain
<1>4. FanChain'
    BY <1>1 DEF Chain, FanChain
<1>5. GotChain'
    BY <1>1, <1>2 DEF Chain, GotChain
<1>6. Increasing'
    BY <1>1 DEF Chain, Increasing
<1>7. NothingLost'
    BY <1>1, <1>2
       DEF Chain, NothingLost, Held, ReaderHolds, ParserHolds, FanHolds
<1> QED BY <1>3, <1>4, <1>5, <1>6, <1>7 DEF Chain

\* A stream hands out one more chunk, later than those it handed out before.
LEMMA HandOutFacts ==
    ASSUME TypeInv, NEW id \in Ids, NEW p \in Nat,
           got' = [got EXCEPT ![id] = Append(@, p)]
    PROVE  /\ Received(id)' = Received(id) \cup {p}
           /\ \A x \in Ids : x # id => Received(x)' = Received(x)
           /\ Increasing /\ (\A r \in Received(id) : r < p) => Increasing'
<1> DEFINE s == got[id]
           t == Append(s, p)
<1>1. s \in Seq(Nat) /\ \A x \in Ids : got[x] \in Seq(Nat)
    BY DEF TypeInv, TypeOK
<1>2. got'[id] = t /\ \A x \in Ids : x # id => got'[x] = got[x]
    BY DEF TypeInv, TypeOK
<1>3. /\ Len(t) = Len(s) + 1
      /\ \A k \in 1..Len(s) : t[k] = s[k]
      /\ t[Len(s) + 1] = p
      /\ Len(s) \in Nat
      /\ DOMAIN s = 1..Len(s)
      /\ \A k \in 1..Len(s) : s[k] \in Nat
    BY <1>1
<1>4. {t[k] : k \in DOMAIN t} = {s[k] : k \in DOMAIN s} \cup {p}
    BY <1>1, AppendFacts, SMTT(30)
<1> HIDE DEF t
<1>5. Received(id)' = Received(id) \cup {p}
    BY <1>2, <1>4 DEF Received
<1>6. \A x \in Ids : x # id => Received(x)' = Received(x)
    BY <1>2 DEF Received
<1>7. ASSUME Increasing, \A r \in Received(id) : r < p PROVE Increasing'
  <2>1. \A k \in 1..Len(s) : s[k] < p
      BY <1>3, <1>7 DEF Received
  <2>2. ASSUME NEW k \in 1..Len(t), NEW j \in 1..(k - 1) PROVE t[j] < t[k]
    <3>1. CASE k = Len(s) + 1
        BY <1>3, <2>1, <3>1
    <3>2. CASE k \in 1..Len(s)
      <4>1. j \in 1..Len(s) /\ s[j] < s[k]
          BY <1>3, <1>7, <3>2 DEF Increasing
      <4> QED BY <1>3, <3>2, <4>1
    <3> QED BY <1>3, <3>1, <3>2
  <2>3. ASSUME NEW x \in Ids, NEW k \in 1..Len(got'[x]), NEW j \in 1..(k - 1)
        PROVE  got'[x][j] < got'[x][k]
    <3>1. CASE x = id
        BY <1>2, <2>2, <3>1
    <3>2. CASE x # id
        BY <1>2, <1>7, <3>2 DEF Increasing
    <3> QED BY <3>1, <3>2
  <2> QED BY <2>3 DEF Increasing
<1> QED BY <1>5, <1>6, <1>7

\* The caller of Stream(id) receives the chunk that the parser holds.
LEMMA SingleStep ==
    ASSUME TypeInv, Chain, NEW id \in Single, DeliverSingle(id)
    PROVE  Chain'
<1> USE DEF TypeInv, TypeOK, streamVars, userVars, fanVars
<1>1. /\ UNCHANGED <<log, rpc, pcur, fpc, fcur>>
      /\ ppc = "deliver" /\ ppc' # "deliver" /\ log[pcur] = id
      /\ pcur \in 1..Len(log) /\ pcur \in Nat
      /\ rpc = "sendChunk" => pcur < Len(log)
      /\ id \in Ids /\ id \notin Multi
      /\ Len(log) \in Nat
      /\ DOMAIN log = 1..Len(log)
    BY IdsAssumption DEF DeliverSingle, Chain, ParserChain, Ids
<1>2. \A r \in Received(id) : r < pcur
    BY <1>1 DEF Chain, GotChain
<1>3. /\ Received(id)' = Received(id) \cup {pcur}
      /\ \A x \in Ids : x # id => Received(x)' = Received(x)
      /\ Increasing'
    BY <1>1, <1>2, HandOutFacts DEF DeliverSingle, Chain
<1>4. ParserChain'
    BY <1>1 DEF ParserChain
<1>5. FanChain'
    BY <1>1 DEF Chain, FanChain
<1>6. GotChain'
  <2> SUFFICES ASSUME NEW x \in Ids, NEW r \in Received(x)'
               PROVE  /\ r \in 1..Len(log)
                      /\ log[r] = x
                      /\ rpc = "sendChunk" => r < Len(log)
                      /\ x \in Multi /\ fpc[x] = "send" => r < fcur[x]
      BY <1>1 DEF GotChain
  <2>1. CASE r \in Received(x)
      BY <2>1 DEF Chain, GotChain
  <2>2. CASE x = id /\ r = pcur
      BY <1>1, <2>2
  <2> QED BY <1>3, <2>1, <2>2
<1>7. NothingLost'
  <2> SUFFICES ASSUME NEW i \in DOMAIN log
               PROVE  (i \in Received(log[i]) \/ Held(i))'
      BY <1>1 DEF NothingLost
  <2>1. /\ Received(log[i]) \subseteq Received(log[i])'
        /\ i = pcur => i \in Received(log[i])'
    <3>1. PICK y \in Ids : y = log[i]
        OBVIOUS
    <3>2. Received(log[i]) = Received(y) /\ Received(log[i])' = Received(y)'
        BY <1>1, <3>1 DEF Received
    <3> QED BY <1>1, <1>3, <3>1, <3>2
  <2>2. CASE i \in Received(log[i])
      BY <2>1, <2>2
  <2>3. CASE ReaderHolds(i) \/ FanHolds(i)
      BY <1>1, <2>3 DEF Held, ReaderHolds, FanHolds
  <2>4. CASE ParserHolds(i)
      BY <2>1, <2>4 DEF ParserHolds
  <2> QED BY <2>2, <2>3, <2>4 DEF Chain, NothingLost, Held
<1> QED BY <1>3, <1>4, <1>5, <1>6, <1>7 DEF Chain

\* The fan-in goroutine of id receives the chunk that the parser holds.
LEMMA MultiStep ==
    ASSUME TypeInv, Chain, NEW id \in Multi, DeliverMulti(id)
    PROVE  Chain'
<1> USE DEF TypeInv, TypeOK, streamVars, userVars, fanVars
<1>1. /\ UNCHANGED <<log, got, rpc, pcur>>
      /\ ppc = "deliver" /\ ppc' # "deliver" /\ log[pcur] = id
      /\ pcur \in 1..Len(log) /\ pcur \in Nat
      /\ rpc = "sendChunk" => pcur < Len(log)
      /\ fpc[id] # "send" /\ fpc'[id] = "send" /\ fcur'[id] = pcur
      /\ \A x \in Multi : x # id => fpc'[x] = fpc[x] /\ fcur'[x] = fcur[x]
      /\ Len(log) \in Nat
      /\ DOMAIN log = 1..Len(log)
    BY DEF DeliverMulti, Chain, ParserChain
<1>2. \A x : Received(x)' = Received(x)
    BY <1>1 DEF Received
<1>3. ParserChain'
    BY <1>1 DEF ParserChain
<1>4. FanChain'
  <2> HIDE DEF TypeInv, TypeOK
  <2> QED BY <1>1 DEF Chain, FanChain
<1>5. GotChain'
  <2> SUFFICES ASSUME NEW x \in Ids, NEW r \in Received(x)
               PROVE  /\ r \in 1..Len(log)
                      /\ log[r] = x
                      /\ rpc = "sendChunk" => r < Len(log)
                      /\ x \in Multi /\ fpc'[x] = "send" => r < fcur'[x]
      BY <1>1, <1>2 DEF GotChain
  <2>1. r < pcur
      BY <1>1 DEF Chain, GotChain
  <2> QED BY <1>1, <2>1, ZenonT(60) DEF Chain, GotChain
<1>6. Increasing'
    BY <1>1 DEF Chain, Increasing
<1>7. NothingLost'
  <2> SUFFICES ASSUME NEW i \in DOMAIN log
               PROVE  (i \in Received(log[i]) \/ Held(i))'
      BY <1>1 DEF NothingLost
  <2>1. CASE i \in Received(log[i])
    <3>1. Received(log[i])' = Received(log[i])
        BY <1>1 DEF Received
    <3> QED BY <2>1, <3>1
  <2>2. CASE ReaderHolds(i)
      BY <1>1, <2>2 DEF Held, ReaderHolds
  <2>3. CASE ParserHolds(i)
      BY <1>1, <2>3 DEF Held, ParserHolds, FanHolds
  <2>4. CASE FanHolds(i)
    <3>1. log[i] # id
        BY <1>1, <2>4 DEF FanHolds
    <3> QED BY <1>1, <2>4, <3>1 DEF Held, FanHolds
  <2> QED BY <2>1, <2>2, <2>3, <2>4 DEF Chain, NothingLost, Held
<1> QED BY <1>3, <1>4, <1>5, <1>6, <1>7 DEF Chain

\* The reader of a MultiStream receives the chunk that the goroutine of id holds.
LEMMA FanInStep ==
    ASSUME TypeInv, Chain, NEW id \in Multi, FanIn(id)
    PROVE  Chain'
<1> USE DEF TypeInv, TypeOK, streamVars, userVars, fanVars
<1> DEFINE p == fcur[id]
<1>1. /\ UNCHANGED <<log, rpc, ppc, pcur, fcur>>
      /\ fpc[id] = "send" /\ fpc'[id] # "send"
      /\ \A x \in Multi : x # id => fpc'[x] = fpc[x]
      /\ p \in 1..Len(log) /\ p \in Nat /\ log[p] = id
      /\ rpc = "sendChunk" => p < Len(log)
      /\ ppc = "deliver" => p < pcur
      /\ id \in Ids
      /\ Len(log) \in Nat
      /\ DOMAIN log = 1..Len(log)
    BY DEF FanIn, Chain, FanChain, Ids
<1>2. \A r \in Received(id) : r < p
    BY <1>1 DEF Chain, GotChain
<1>3. got' = [got EXCEPT ![id] = Append(@, p)]
    BY DEF FanIn
<1> HIDE DEF p
<1>4. /\ Received(id)' = Received(id) \cup {p}
      /\ \A x \in Ids : x # id => Received(x)' = Received(x)
      /\ Increasing'
    BY <1>1, <1>2, <1>3, HandOutFacts DEF Chain
<1>5. ParserChain'
    BY <1>1 DEF Chain, ParserChain
<1>6. FanChain'
    BY <1>1 DEF Chain, FanChain
<1>7. GotChain'
  <2> SUFFICES ASSUME NEW x \in Ids, NEW r \in Received(x)'
               PROVE  /\ r \in 1..Len(log)
                      /\ log[r] = x
                      /\ rpc = "sendChunk" => r < Len(log)
                      /\ ppc = "deliver" => r < pcur
                      /\ x \in Multi /\ fpc'[x] = "send" => r < fcur[x]
      BY <1>1 DEF GotChain
  <2>1. CASE r \in Received(x)
      BY <1>1, <2>1 DEF Chain, GotChain
  <2>2. CASE x = id /\ r = p
      BY <1>1, <2>2
  <2> QED BY <1>4, <2>1, <2>2
<1>8. NothingLost'
  <2> SUFFICES ASSUME NEW i \in DOMAIN log
               PROVE  (i \in Received(log[i]) \/ Held(i))'
      BY <1>1 DEF NothingLost
  <2>1. PICK y \in Ids : y = log[i]
      OBVIOUS
  <2>2. Received(log[i]) = Received(y) /\ Received(log[i])' = Received(y)'
      BY <1>1, <2>1 DEF Received
  <2>3. CASE i \in Received(log[i])
      BY <1>4, <2>2, <2>3
  <2>4. CASE ReaderHolds(i) \/ ParserHolds(i)
      BY <1>1, <2>4 DEF Held, ReaderHolds, ParserHolds
  <2>5. CASE FanHolds(i) /\ y = id
    <3>1. i = p
        BY <2>1, <2>5 DEF FanHolds, p
    <3> QED BY <1>4, <2>2, <2>5, <3>1
  <2>6. CASE FanHolds(i) /\ y # id
      BY <1>1, <2>1, <2>6 DEF Held, FanHolds
  <2> QED BY <2>3, <2>4, <2>5, <2>6 DEF Chain, NothingLost, Held
<1> QED BY <1>4, <1>5, <1>6, <1>7, <1>8 DEF Chain

\* The inductive invariant.
IInv == TypeInv /\ Phases /\ Chain

\* It holds before any goroutine runs (NewParser).
LEMMA Initially == Init => IInv
<1> SUFFICES ASSUME Init PROVE IInv
    OBVIOUS
<1> USE DEF Init
<1>1. TypeInv
    BY DEF TypeInv, TypeOK, ReaderHasChunk
<1>2. Phases
    BY DEF Phases
<1>3. \A id \in Ids : Received(id) = {} /\ Len(got[id]) = 0
    BY DEF Received
<1>4. Chain
    BY <1>3 DEF Chain, ParserChain, FanChain, GotChain, Increasing, NothingLost
<1> QED BY <1>1, <1>2, <1>4 DEF IInv

\* Every step of every goroutine and caller keeps it.
LEMMA Inductive == IInv /\ [Next]_vars => IInv'
<1> SUFFICES ASSUME IInv, [Next]_vars PROVE Chain'
    BY TypeStep, PhaseStep DEF IInv
<1>1. Moves \/ Quiet
    BY OthersQuiet DEF IInv
<1> QED
    BY <1>1, QuietStep, ReadStep, TakeStep, SingleStep, MultiStep, FanInStep
       DEF IInv, Moves

\* In every reachable state of the goroutines each chunk of the connection has
\* exactly one place on its way from the reader to its stream (Parser.Recv,
\* MultiStream.Append).
THEOREM Invariant == Spec => []IInv
    BY Initially, Inductive, PTL DEF Spec

-----------------------------------------------------------------------------
(* What follows from the invariant.                                        *)

\* A chunk of stream id that is older than one it handed out was handed out.
LEMMA NoGap ==
    ASSUME IInv, NEW id \in Ids, NEW r \in Received(id),
           NEW i \in 1..(r - 1), log[i] = id
    PROVE  i \in Received(id)
<1>1. /\ r \in 1..Len(log)
      /\ rpc = "sendChunk" => r < Len(log)
      /\ ppc = "deliver" => r < pcur
      /\ id \in Multi /\ fpc[id] = "send" => r < fcur[id]
    BY DEF IInv, Chain, GotChain
<1>2. i \in DOMAIN log /\ Len(log) \in Nat
    BY <1>1 DEF IInv, TypeInv, TypeOK
<1>3. pcur \in Nat /\ (id \in Multi => fcur[id] \in Nat)
    BY DEF IInv, TypeInv, TypeOK
<1>4. ~ReaderHolds(i) /\ ~ParserHolds(i) /\ ~FanHolds(i)
    BY <1>1, <1>2, <1>3 DEF ReaderHolds, ParserHolds, FanHolds
<1> QED BY <1>2, <1>4 DEF IInv, Chain, NothingLost, Held

\* Every stream hands out its own chunks in order, none twice and none left
\* out, for any number of streams and chunks (Parser.Recv, MultiStream.Append).
THEOREM Fifo == Spec => []PerStreamFifo
<1>1. IInv => PerStreamFifo
  <2> SUFFICES ASSUME IInv, NEW id \in Ids, NEW k \in DOMAIN got[id]
               PROVE  /\ got[id][k] \in DOMAIN log
                      /\ log[got[id][k]] = id
                      /\ \A j \in 1..(k - 1) : got[id][j] < got[id][k]
                      /\ \A i \in 1..(got[id][k] - 1) :
                            log[i] = id => i \in Received(id)
      BY DEF PerStreamFifo
  <2>1. got[id][k] \in Received(id)
      BY DEF Received
  <2>2. DOMAIN log = 1..Len(log) /\ k \in 1..Len(got[id])
      BY DEF IInv, TypeInv, TypeOK
  <2>3. got[id][k] \in DOMAIN log /\ log[got[id][k]] = id
      BY <2>1, <2>2 DEF IInv, Chain, GotChain
  <2>4. \A j \in 1..(k - 1) : got[id][j] < got[id][k]
      BY <2>2 DEF IInv, Chain, Increasing
  <2>5. \A i \in 1..(got[id][k] - 1) : log[i] = id => i \in Received(id)
      BY <2>1, NoGap
  <2> QED BY <2>3, <2>4, <2>5
<1> QED BY <1>1, Invariant, PTL

\* A complete chunk is handed out or on its way, whatever the callers of Stream
\* and Close do (Parser.Recv).
THEOREM Lossless == Spec => []NothingLost
<1>1. IInv => NothingLost
    BY DEF IInv, Chain
<1> QED BY <1>1, Invariant, PTL

\* Closing the parser and awaiting the MultiStream lose no chunk, and out is
\* closed when no goroutine can send on it any more (MultiStream.AwaitClose).
THEOREM OrderlyClose == Spec => []CloseLosesNothing
<1>1. IInv => CloseLosesNothing
  <2> SUFFICES ASSUME IInv PROVE CloseLosesNothing
      OBVIOUS
  <2>1. ASSUME ppc = "done", NEW i \in DOMAIN log
        PROVE  i \in Received(log[i]) \/ FanHolds(i)
      BY <2>1 DEF IInv, Phases, Chain, NothingLost, Held, ReaderHolds, ParserHolds
  <2>2. ASSUME apc = "closed"
        PROVE  ppc = "done" /\ \A id \in Multi : fpc[id] = "done"
      BY <2>2 DEF IInv, Phases
  <2>3. ASSUME apc = "closed", NEW i \in DOMAIN log PROVE i \in Received(log[i])
      BY <2>1, <2>2, <2>3 DEF FanHolds
  <2> QED BY <2>1, <2>2, <2>3 DEF CloseLosesNothing
<1> QED BY <1>1, Invariant, PTL

-----------------------------------------------------------------------------
(* Closing the parser.                                                     *)

\* Who has been told about a close, and which streams Recv finds in the map.
Told ==
    /\ \A c \in Closers : cpc[c] \in {"waiting", "returned"} =>
          ppc \in {"closeReader", "cleanup", "done"}
    /\ \A c \in Closers : cpc[c] = "returned" => ppc = "done"
Asked ==
    /\ \A c \in Closers : asked[c] \subseteq streams
    /\ \A c \in Closers : cpc[c] \in {"waiting", "returned"} /\ ppc = "done" =>
          asked[c] \subseteq closedIn
CloseInv == Told /\ Asked /\ OneCloseReturns

\* Every step keeps what is known about the callers of Close.
LEMMA CloseStep == TypeInv /\ CloseInv /\ [Next]_vars => CloseInv'
<1> SUFFICES ASSUME TypeInv, CloseInv, [Next]_vars PROVE CloseInv'
    OBVIOUS
<1> USE DEF CloseInv, Told, Asked, OneCloseReturns, streamVars, userVars, fanVars
<1>1. CASE ReaderPolls \/ ReadPart \/ ReadError \/ \E id \in Ids : ReadChunk(id)
    BY <1>1 DEF ReaderPolls, ReadPart, ReadError, ReadChunk
<1>2. CASE ReaderTakesClose
    BY <1>2 DEF ReaderTakesClose
<1>3. CASE StartRecv
    BY <1>3 DEF StartRecv
<1>4. CASE ParserTakesChunk \/ ParserTakesErr \/ ErrorReceived
    BY <1>4 DEF ParserTakesChunk, ParserTakesErr, ErrorReceived
<1>5. CASE Cleanup
  <2>1. Asked'
      BY <1>5 DEF Cleanup
  <2>2. \A c \in Closers : cpc'[c] \in {"waiting", "returned"} =>
            cpc[c] \in {"waiting", "returned"}
      BY <1>5 DEF Cleanup
  <2>3. Told' /\ OneCloseReturns'
      BY <1>5, <2>2 DEF Cleanup
  <2> QED BY <2>1, <2>3
<1>6. CASE OpenMulti \/ \E id \in Single : OpenStream(id)
    BY <1>6 DEF OpenMulti, OpenStream
<1>7. CASE AwaitClose \/ CloseOut
    BY <1>7 DEF AwaitClose, CloseOut
<1>8. ASSUME NEW c \in Closers, Close(c) \/ CloseReturns(c) \/ ParserTakesClose(c)
      PROVE CloseInv'
  <2>1. cpc \in [Closers -> {"idle", "sending", "waiting", "returned", "panicked"}]
      BY DEF TypeInv, TypeOK
  <2>2. CASE Close(c)
      BY <2>1, <2>2 DEF Close, TypeInv, TypeOK
  <2>3. CASE CloseReturns(c)
      BY <2>1, <2>3 DEF CloseReturns
  <2>4. CASE ParserTakesClose(c)
      BY <2>1, <2>4 DEF ParserTakesClose
  <2> QED BY <1>8, <2>2, <2>3, <2>4
<1>9. ASSUME NEW id \in Single, DeliverSingle(id) PROVE CloseInv'
    BY <1>9 DEF DeliverSingle
<1>10. ASSUME NEW id \in Multi, Fan(id) PROVE CloseInv'
    BY <1>10 DEF Fan, DeliverMulti, FanIn, FanInDone
<1>11. CASE UNCHANGED vars
    BY <1>11 DEF vars
<1> QED
    BY <1>1, <1>2, <1>3, <1>4, <1>5, <1>6, <1>7, <1>8, <1>9, <1>10, <1>11
       DEF Next, Reader, Peer, Parser, Users, Shut

\* The callers of Close are in order in every reachable state (Parser.Close).
LEMMA CloseInvariant == Spec => [](IInv /\ CloseInv)
<1>1. Init => CloseInv
    BY DEF Init, CloseInv, Told, Asked, OneCloseReturns
<1>2. IInv /\ CloseInv /\ [Next]_vars => CloseInv'
    BY CloseStep DEF IInv
<1> QED BY <1>1, <1>2, Invariant, PTL DEF Spec

\* When Parser.Close returns both loops have ended, and every stream that there
\* was when it was called is closed, for any streams, callers and orders of the
\* calls of Stream, Recv and Close.
THEOREM CompleteClose == Spec => []CloseComplete
<1>1. IInv /\ CloseInv => CloseComplete
    BY DEF IInv, Phases, CloseInv, Told, Asked, CloseComplete
<1> QED BY <1>1, CloseInvariant, PTL

\* However many goroutines call Parser.Close, it succeeds for one at most.
THEOREM SingleClose == Spec => []OneCloseReturns
<1>1. IInv /\ CloseInv => OneCloseReturns
    BY DEF CloseInv
<1> QED BY <1>1, CloseInvariant, PTL

-----------------------------------------------------------------------------
(* The refinement.                                                         *)

\* The goroutines implement StreamDelivery: completing a chunk is Complete, a
\* reader's receive is HandOut of its stream's oldest chunk, and every other
\* step is a stutter.
THEOREM Implements == Spec => Delivery
<1>1. Init => SD!Init
    BY DEF Init, SD!Init
<1>2. ASSUME IInv, [Next]_vars PROVE [SD!Next]_(SD!vars)
  <2>1. CASE Quiet
      BY <2>1 DEF Quiet, SD!vars
  <2>2. CASE ParserTakesChunk
      BY <2>2 DEF ParserTakesChunk, SD!vars
  <2>3. ASSUME NEW id \in Ids, ReadChunk(id) PROVE SD!Next
      BY <2>3 DEF ReadChunk, SD!Next, SD!Complete
  <2>4. ASSUME NEW id \in Multi, DeliverMulti(id) PROVE UNCHANGED SD!vars
      BY <2>4 DEF DeliverMulti, SD!vars
  <2>5. ASSUME NEW id \in Ids, NEW p \in DOMAIN log, log[p] = id,
               \A r \in Received(id) : r < p,
               \A j \in DOMAIN log : j < p /\ log[j] = id =>
                  ~ReaderHolds(j) /\ ~ParserHolds(j) /\ ~FanHolds(j),
               got' = [got EXCEPT ![id] = Append(@, p)], UNCHANGED log
        PROVE  SD!Next
    <3>1. \A x : SD!Received(x) = Received(x)
        BY DEF SD!Received, Received
    <3>2. p \notin Received(id)
        BY <1>2, <2>5 DEF IInv, TypeInv, TypeOK
    <3>3. \A j \in DOMAIN log : j < p /\ log[j] = id => j \in Received(id)
        BY <1>2, <2>5 DEF IInv, Chain, NothingLost, Held
    <3>4. SD!HandOut(id, p)
        BY <2>5, <3>1, <3>2, <3>3 DEF SD!HandOut
    <3> QED BY <3>4 DEF SD!Next
  <2>6. ASSUME NEW id \in Single, DeliverSingle(id) PROVE SD!Next
    <3>1. /\ id \in Ids /\ id \notin Multi
          /\ ppc = "deliver" /\ pcur \in DOMAIN log /\ log[pcur] = id
          /\ rpc = "sendChunk" => pcur < Len(log)
          /\ got' = [got EXCEPT ![id] = Append(@, pcur)] /\ UNCHANGED log
        BY <1>2, <2>6, IdsAssumption
           DEF DeliverSingle, IInv, TypeInv, TypeOK, Chain, ParserChain, Ids
    <3>2. \A r \in Received(id) : r < pcur
        BY <1>2, <3>1 DEF IInv, Chain, GotChain
    <3>3. \A j \in DOMAIN log : j < pcur /\ log[j] = id =>
             ~ReaderHolds(j) /\ ~ParserHolds(j) /\ ~FanHolds(j)
        BY <1>2, <3>1 DEF ReaderHolds, ParserHolds, FanHolds, IInv, TypeInv, TypeOK
    <3> QED BY <2>5, <3>1, <3>2, <3>3
  <2>7. ASSUME NEW id \in Multi, FanIn(id) PROVE SD!Next
    <3> DEFINE p == fcur[id]
    <3>1. /\ id \in Ids
          /\ fpc[id] = "send" /\ p \in DOMAIN log /\ log[p] = id
          /\ rpc = "sendChunk" => p < Len(log)
          /\ ppc = "deliver" => p < pcur
          /\ got' = [got EXCEPT ![id] = Append(@, p)] /\ UNCHANGED log
        BY <1>2, <2>7 DEF FanIn, IInv, TypeInv, TypeOK, Chain, FanChain, Ids
    <3>2. \A r \in Received(id) : r < p
        BY <1>2, <3>1 DEF IInv, Chain, GotChain
    <3>3. \A j \in DOMAIN log : j < p /\ log[j] = id =>
             ~ReaderHolds(j) /\ ~ParserHolds(j) /\ ~FanHolds(j)
        BY <1>2, <3>1 DEF ReaderHolds, ParserHolds, FanHolds, IInv, TypeInv, TypeOK
    <3> HIDE DEF p
    <3> QED BY <2>5, <3>1, <3>2, <3>3
  <2>8. Moves \/ Quiet
      BY <1>2, OthersQuiet DEF IInv
  <2> QED
      BY <2>1, <2>2, <2>3, <2>4, <2>6, <2>7, <2>8 DEF Moves
<1> QED BY <1>1, <1>2, Invariant, PTL DEF Spec, Delivery, SD!Spec
=============================================================================
