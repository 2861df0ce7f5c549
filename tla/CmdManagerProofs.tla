-------------------------- MODULE CmdManagerProofs ---------------------------
(***************************************************************************)
(* Proofs about CmdManager, for any set of kinds of chunks, any children   *)
(* that may be closed and any number of chunks.                            *)
(***************************************************************************)
EXTENDS CmdManager, FiniteSetTheorems, TLAPS

-----------------------------------------------------------------------------
(* The type invariant.                                                     *)

\* Parse leads to one of two offers.
LEMMA ParsedOffers ==
    ASSUME NEW ch, NEW k
    PROVE  Parsed(ch, k) \in {"sendIn", "sendErr"}
BY DEF Parsed

\* Every step of Dispatch, of the children and of their users keeps the types.
LEMMA TypeStep == TypeOK /\ [Next]_vars => TypeOK'
<1> SUFFICES ASSUME TypeOK, [Next]_vars PROVE TypeOK'
    OBVIOUS
<1> USE DEF TypeOK
<1>1. ASSUME NEW m \in BOOLEAN, StartDispatch(m) PROVE TypeOK'
  <2>1. cpc' \in [Children -> {"idle", "select", "sendIn", "sendErr", "done"}]
      BY <1>1 DEF StartDispatch
  <2> QED BY <1>1, <2>1 DEF StartDispatch
<1>2. CASE TakeClose
    BY <1>2 DEF TakeClose
<1>3. ASSUME NEW k \in Kinds, TakeChunk(k) PROVE TypeOK'
    BY <1>3 DEF TakeChunk
<1>4. ASSUME NEW ch \in Children, SendTo(ch) PROVE TypeOK'
  <2>1. Parsed(ch, log[Len(log)]) \in {"sendIn", "sendErr"}
      BY ParsedOffers
  <2>2. cpc' \in [Children -> {"idle", "select", "sendIn", "sendErr", "done"}]
      BY <1>4, <2>1 DEF SendTo
  <2>3. ccur' \in [Children -> Nat]
      BY <1>4 DEF SendTo
  <2> QED BY <1>4, <2>2, <2>3 DEF SendTo
<1>5. ASSUME NEW ch \in Children, Loop(ch) PROVE TypeOK'
  <2>1. CASE StartChild(ch)
      BY <2>1 DEF StartChild
  <2>2. CASE Outcome(ch)
    <3>1. handled' \in [Children -> Seq(Nat)]
        BY <2>2 DEF Outcome
    <3> QED BY <2>2, <3>1 DEF Outcome
  <2>3. CASE ChildTakesClose(ch)
      BY <2>3 DEF ChildTakesClose
  <2> QED BY <1>5, <2>1, <2>2, <2>3 DEF Loop
<1>6. ASSUME NEW ch \in Children, InClosed(ch) PROVE TypeOK'
    BY <1>6 DEF InClosed
<1>7. CASE Close
    BY <1>7 DEF Close
<1>8. ASSUME NEW ch \in Closable, CloseChild(ch) PROVE TypeOK'
    BY <1>8, ManagerAssumption DEF CloseChild
<1>9. CASE UNCHANGED vars
    BY <1>9 DEF vars
<1> QED
    BY <1>1, <1>2, <1>3, <1>4, <1>5, <1>6, <1>7, <1>8, <1>9
    DEF Next, Dispatch, Start, Users, NetConnListen, NetStreamListen,
        DataStreamRecv, Children

\* The loops are at one of their program points, and Dispatch is sending just as
\* long as a child is to be sent to, in every reachable state (Manager.Dispatch).
THEOREM TypeCorrect == Spec => []TypeOK
<1>1. Init => TypeOK
    BY DEF Init, TypeOK
<1> QED BY <1>1, TypeStep, PTL DEF Spec

-----------------------------------------------------------------------------
(***************************************************************************)
(* The inductive invariant.  The places of log that a child has handled,   *)
(* the one it works on and the last one, if the child is still to get it,  *)
(* are in strictly increasing order, all open for the child, and every     *)
(* place whose gate is open is one of these.                               *)
(***************************************************************************)
TodoChain ==
    \A ch \in todo :
        /\ Len(log) \in DOMAIN log
        /\ Open(ch, log[Len(log)])
        /\ Working(ch) => ccur[ch] < Len(log)
        /\ \A n \in DOMAIN handled[ch] : handled[ch][n] < Len(log)

WorkChain ==
    \A ch \in Children : Working(ch) =>
        ccur[ch] \in DOMAIN log /\ Open(ch, log[ccur[ch]])

\* A consumer has found In() closed only after the loop has returned.
EndedDone == \A ch \in Children : reader[ch] = "ended" => cpc[ch] = "done"

Chain ==
    /\ TodoChain
    /\ WorkChain
    /\ RoutedInOrder
    /\ NoneSkipped
    /\ EndedDone

\* What one more element does to a sequence.
LEMMA AppendFacts ==
    ASSUME NEW S, NEW s \in Seq(S), NEW x \in S
    PROVE  /\ Append(s, x) \in Seq(S)
           /\ Len(Append(s, x)) = Len(s) + 1
           /\ DOMAIN Append(s, x) = DOMAIN s \cup {Len(s) + 1}
           /\ DOMAIN s = 1..Len(s)
           /\ \A k \in DOMAIN s : Append(s, x)[k] = s[k]
           /\ Append(s, x)[Len(s) + 1] = x
           /\ Len(s) \in Nat
OBVIOUS

\* A chunk that Dispatch receives is the last one, and every gate it opens is
\* one that Dispatch has to serve.
LEMMA TakeChunkKeeps ==
    ASSUME TypeOK, Chain, NEW k \in Kinds, TakeChunk(k)
    PROVE  Chain'
<1> USE DEF TypeOK
<1>1. todo = {}
    BY DEF TakeChunk
<1>2. /\ log' = Append(log, k)
      /\ todo' = {ch \in Children : Open(ch, k)}
      /\ UNCHANGED <<cpc, ccur, handled, reader>>
    BY DEF TakeChunk
<1>3. /\ Len(log') = Len(log) + 1
      /\ DOMAIN log' = DOMAIN log \cup {Len(log) + 1}
      /\ DOMAIN log = 1..Len(log)
      /\ \A i \in DOMAIN log : log'[i] = log[i]
      /\ log'[Len(log) + 1] = k
      /\ Len(log) \in Nat
    BY <1>2, AppendFacts
<1>4. \A ch : Working(ch)' <=> Working(ch)
    BY <1>2 DEF Working
<1>5. TodoChain'
  <2>1. ASSUME NEW ch \in Children, Working(ch) PROVE ccur[ch] < Len(log) + 1
      BY <2>1, <1>3 DEF Chain, WorkChain
  <2>2. ASSUME NEW ch \in Children, NEW n \in DOMAIN handled[ch]
        PROVE  handled[ch][n] < Len(log) + 1
      BY <1>3 DEF Chain, RoutedInOrder
  <2> QED BY <2>1, <2>2, <1>2, <1>3, <1>4 DEF TodoChain
<1>6. WorkChain'
    BY <1>2, <1>3, <1>4 DEF Chain, WorkChain
<1>7. RoutedInOrder'
    BY <1>2, <1>3, <1>4 DEF Chain, RoutedInOrder
<1>8. NoneSkipped'
  <2> SUFFICES ASSUME NEW ch \in Children, NEW i \in DOMAIN log',
                      Open(ch, log'[i])
               PROVE  \/ i \in HandledSet(ch)'
                      \/ Working(ch)' /\ ccur'[ch] = i
                      \/ i = Len(log') /\ ch \in todo'
      BY DEF NoneSkipped
  <2>1. CASE i = Len(log) + 1
      BY <2>1, <1>2, <1>3
  <2>2. CASE i \in DOMAIN log
    <3>1. i \in HandledSet(ch) \/ (Working(ch) /\ ccur[ch] = i)
        BY <2>2, <1>1, <1>3 DEF Chain, NoneSkipped
    <3> QED BY <3>1, <1>2, <1>4 DEF HandledSet
  <2> QED BY <2>1, <2>2, <1>3
<1>9. EndedDone'
    BY <1>2 DEF Chain, EndedDone
<1> QED BY <1>5, <1>6, <1>7, <1>8, <1>9 DEF Chain

\* The last chunk passes from Dispatch to a child that has handled every earlier
\* one.
LEMMA SendToKeeps ==
    ASSUME TypeOK, Chain, NEW c \in Children, SendTo(c)
    PROVE  Chain'
<1> USE DEF TypeOK
<1>1. /\ c \in todo
      /\ todo' = todo \ {c}
      /\ ~Working(c)
      /\ UNCHANGED <<log, handled, reader>>
      /\ reader[c] # "ended"
    BY DEF SendTo, Working, Chain, EndedDone
<1>2. /\ \A ch \in Children \ {c} : cpc'[ch] = cpc[ch] /\ ccur'[ch] = ccur[ch]
      /\ cpc'[c] \in {"sendIn", "sendErr"}
      /\ ccur'[c] = Len(log)
    BY ParsedOffers DEF SendTo
<1>3. /\ \A ch \in Children \ {c} : Working(ch)' <=> Working(ch)
      /\ Working(c)'
      /\ \A ch : HandledSet(ch)' = HandledSet(ch)
    BY <1>1, <1>2 DEF Working, HandledSet
<1>4. /\ Len(log) \in DOMAIN log
      /\ Open(c, log[Len(log)])
      /\ \A n \in DOMAIN handled[c] : handled[c][n] < Len(log)
    BY <1>1 DEF Chain, TodoChain
<1>5. TodoChain'
    BY <1>1, <1>2, <1>3 DEF Chain, TodoChain
<1>6. WorkChain'
    BY <1>1, <1>2, <1>3, <1>4 DEF Chain, WorkChain
<1>7. RoutedInOrder'
    BY <1>1, <1>2, <1>3, <1>4 DEF Chain, RoutedInOrder
<1>8. NoneSkipped'
    BY <1>1, <1>2, <1>3 DEF Chain, NoneSkipped
<1>9. EndedDone'
    BY <1>1, <1>2 DEF Chain, EndedDone
<1> QED BY <1>5, <1>6, <1>7, <1>8, <1>9 DEF Chain

\* The chunk that a child works on becomes the last one it has handled.
LEMMA OutcomeKeeps ==
    ASSUME TypeOK, Chain, NEW c \in Children, Outcome(c)
    PROVE  Chain'
<1> USE DEF TypeOK
<1>1. /\ Working(c)
      /\ UNCHANGED <<log, todo, ccur, reader>>
      /\ reader[c] # "ended"
    BY DEF Outcome, Working, Chain, EndedDone
<1>2. /\ \A ch \in Children \ {c} : cpc'[ch] = cpc[ch] /\ handled'[ch] = handled[ch]
      /\ cpc'[c] = "select"
      /\ handled'[c] = Append(handled[c], ccur[c])
    BY DEF Outcome
<1> DEFINE h == handled[c]
           m == Len(handled[c])
<1>3. /\ DOMAIN h = 1..m
      /\ m \in Nat
      /\ DOMAIN handled'[c] = DOMAIN h \cup {m + 1}
      /\ \A n \in DOMAIN h : handled'[c][n] = h[n]
      /\ handled'[c][m + 1] = ccur[c]
  <2>1. h \in Seq(Nat) /\ ccur[c] \in Nat
      OBVIOUS
  <2> QED BY <2>1, <1>2, AppendFacts
<1> HIDE DEF h, m
<1>4. /\ \A ch \in Children \ {c} : Working(ch)' <=> Working(ch)
      /\ ~Working(c)'
      /\ \A ch \in Children \ {c} : HandledSet(ch)' = HandledSet(ch)
    BY <1>2 DEF Working, HandledSet
<1>5. HandledSet(c)' = HandledSet(c) \cup {ccur[c]}
    BY <1>3 DEF HandledSet, h
<1>6. /\ ccur[c] \in DOMAIN log
      /\ Open(c, log[ccur[c]])
      /\ c \in todo => ccur[c] < Len(log)
      /\ \A n \in DOMAIN h : h[n] < ccur[c]
    BY <1>1 DEF Chain, TodoChain, WorkChain, RoutedInOrder, h
<1>7. TodoChain'
  <2> SUFFICES ASSUME NEW ch \in todo
               PROVE  /\ Len(log) \in DOMAIN log
                      /\ Open(ch, log[Len(log)])
                      /\ Working(ch)' => ccur[ch] < Len(log)
                      /\ \A n \in DOMAIN handled'[ch] : handled'[ch][n] < Len(log)
      BY <1>1 DEF TodoChain
  <2>1. CASE ch = c
      BY <2>1, <1>3, <1>4, <1>6 DEF Chain, TodoChain, h
  <2>2. CASE ch # c
      BY <2>2, <1>2, <1>4 DEF Chain, TodoChain
  <2> QED BY <2>1, <2>2
<1>8. WorkChain'
    BY <1>1, <1>4 DEF Chain, WorkChain
<1>9. RoutedInOrder'
  <2> SUFFICES ASSUME NEW ch \in Children, NEW n \in DOMAIN handled'[ch]
               PROVE  /\ handled'[ch][n] \in DOMAIN log
                      /\ Open(ch, log[handled'[ch][n]])
                      /\ \A j \in 1..(n - 1) : handled'[ch][j] < handled'[ch][n]
                      /\ Working(ch)' => handled'[ch][n] < ccur[ch]
      BY <1>1 DEF RoutedInOrder
  <2>1. CASE ch # c
      BY <2>1, <1>2, <1>4 DEF Chain, RoutedInOrder
  <2>2. CASE ch = c /\ n = m + 1
    <3>1. \A j \in 1..m : handled'[c][j] < ccur[c]
        BY <1>3, <1>6
    <3> QED BY <2>2, <3>1, <1>3, <1>4, <1>6
  <2>3. CASE ch = c /\ n \in DOMAIN h
    <3>1. \A j \in 1..(n - 1) : j \in DOMAIN h
        BY <2>3, <1>3
    <3> QED BY <2>3, <3>1, <1>3, <1>4 DEF Chain, RoutedInOrder, h
  <2> QED BY <2>1, <2>2, <2>3, <1>3
<1>10. NoneSkipped'
    BY <1>1, <1>4, <1>5 DEF Chain, NoneSkipped
<1>11. EndedDone'
    BY <1>1, <1>2 DEF Chain, EndedDone
<1> QED BY <1>7, <1>8, <1>9, <1>10, <1>11 DEF Chain

\* A step that leaves the chunks where they are and changes no loop from or to
\* working keeps the chain, as long as only a consumer of a loop that has
\* returned has found its end.
LEMMA QuietKeeps ==
    ASSUME Chain, UNCHANGED <<log, todo, ccur, handled>>,
           \A ch \in Children : Working(ch)' <=> Working(ch),
           EndedDone',
           TypeOK
    PROVE  Chain'
<1>1. todo \subseteq Children
    BY DEF TypeOK
<1>2. \A ch : HandledSet(ch)' = HandledSet(ch)
    BY DEF HandledSet
<1>3. TodoChain'
    BY <1>1 DEF Chain, TodoChain
<1>4. WorkChain'
    BY DEF Chain, WorkChain
<1>5. RoutedInOrder'
    BY DEF Chain, RoutedInOrder
<1>6. NoneSkipped'
    BY <1>2 DEF Chain, NoneSkipped
<1> QED BY <1>3, <1>4, <1>5, <1>6 DEF Chain

\* Every step keeps the chain.
LEMMA ChainStep == TypeOK /\ Chain /\ [Next]_vars => Chain'
<1> SUFFICES ASSUME TypeOK, Chain, [Next]_vars PROVE Chain'
    OBVIOUS
<1>1. ASSUME NEW m \in BOOLEAN, StartDispatch(m) PROVE Chain'
  <2>1. /\ UNCHANGED <<log, todo, ccur, handled, reader>>
        /\ \/ UNCHANGED cpc
           \/ /\ \A ch \in Children : cpc[ch] = "idle"
              /\ \A ch \in Children : cpc'[ch] = "select"
      BY <1>1 DEF StartDispatch
  <2>2. \A ch \in Children : Working(ch)' <=> Working(ch)
      BY <2>1 DEF Working
  <2>3. EndedDone'
      BY <2>1 DEF Chain, EndedDone
  <2> QED BY <2>1, <2>2, <2>3, QuietKeeps
<1>2. ASSUME NEW k \in Kinds, TakeChunk(k) PROVE Chain'
    BY <1>2, TakeChunkKeeps
<1>3. ASSUME NEW ch \in Children, SendTo(ch) PROVE Chain'
    BY <1>3, SendToKeeps
<1>4. ASSUME NEW ch \in Children, Outcome(ch) PROVE Chain'
    BY <1>4, OutcomeKeeps
<1>5. ASSUME NEW c \in Children, StartChild(c) \/ ChildTakesClose(c) PROVE Chain'
  <2>1. /\ UNCHANGED <<log, todo, ccur, handled, reader>>
        /\ \A ch \in Children \ {c} : cpc'[ch] = cpc[ch]
        /\ cpc[c] \in {"idle", "select"}
        /\ cpc'[c] \in {"select", "done"}
      BY <1>5 DEF StartChild, ChildTakesClose, TypeOK
  <2>2. \A ch \in Children : Working(ch)' <=> Working(ch)
      BY <2>1 DEF Working
  <2>3. EndedDone'
      BY <2>1 DEF Chain, EndedDone
  <2> QED BY <2>1, <2>2, <2>3, QuietKeeps
<1>6. ASSUME NEW ch \in Children, InClosed(ch) PROVE Chain'
  <2>1. UNCHANGED <<log, todo, cpc, ccur, handled>>
      BY <1>6 DEF InClosed
  <2>2. EndedDone'
      BY <1>6 DEF InClosed, Chain, EndedDone, TypeOK
  <2> QED BY <2>1, <2>2, QuietKeeps DEF Working
<1>7. CASE TakeClose \/ Close \/ (\E ch \in Closable : CloseChild(ch)) \/ UNCHANGED vars
  <2>1. UNCHANGED <<log, todo, cpc, ccur, handled, reader>>
      BY <1>7 DEF TakeClose, Close, CloseChild, vars
  <2> QED BY <2>1, QuietKeeps DEF Working, Chain, EndedDone
<1> QED
    BY <1>1, <1>2, <1>3, <1>4, <1>5, <1>6, <1>7
    DEF Next, Dispatch, Start, Users, NetConnListen, NetStreamListen,
        DataStreamRecv, Loop, Children

\* The chain holds in every reachable state.
THEOREM ChainInvariant == Spec => [](TypeOK /\ Chain)
<1>1. Init => TypeOK
    BY DEF Init, TypeOK
<1>2. Init => Chain
    BY DEF Init, Chain, TodoChain, WorkChain, RoutedInOrder, NoneSkipped,
           EndedDone, Working
<1> QED BY <1>1, <1>2, TypeStep, ChainStep, PTL DEF Spec

\* No chunk is lost between Dispatch and the consumer of the child that its gate
\* is open for (Manager.Dispatch).
THEOREM NoneIsSkipped == Spec => []NoneSkipped
<1>1. Chain => NoneSkipped
    BY DEF Chain
<1> QED BY <1>1, ChainInvariant, PTL

\* A child handles only chunks of its gate, each once, in the order in which they
\* came (Manager.Dispatch and the children's loops).
THEOREM RoutesInOrder == Spec => []RoutedInOrder
<1>1. Chain => RoutedInOrder
    BY DEF Chain
<1> QED BY <1>1, ChainInvariant, PTL

\* A consumer that finds In() closed has got every chunk that was sent to the
\* child (NetStream.Close, data.Stream.Close).
THEOREM EndsAfterAll == Spec => []EndedAfterAll
<1>1. Chain => EndedAfterAll
  <2> SUFFICES ASSUME Chain, NEW ch \in Children, reader[ch] = "ended"
               PROVE  /\ ~Working(ch)
                      /\ \A i \in DOMAIN log : Open(ch, log[i]) =>
                            i \in HandledSet(ch) \/ (i = Len(log) /\ ch \in todo)
      BY DEF EndedAfterAll
  <2>1. ~Working(ch)
      BY DEF Chain, EndedDone, Working
  <2> QED BY <2>1 DEF Chain, NoneSkipped
<1> QED BY <1>1, ChainInvariant, PTL

-----------------------------------------------------------------------------
(* The gates.                                                              *)

\* No chunk opens two gates, and none of stream 5 opens any.
LEMMA GatesExclusive ==
    ASSUME NEW k,
           NEW c \in Children, Open(c, k),
           NEW d \in Children, Open(d, k)
    PROVE  c = d /\ k.csid # 5
<1>1. NetConnGate(k) => ~NetStreamGate(k)
    BY DEF NetConnGate, NetStreamGate, StreamIdGate, MessageStreamGate
<1>2. NetConnGate(k) => ~DataStreamGate(k)
    BY DEF NetConnGate, DataStreamGate, StreamIdGate
<1>3. NetStreamGate(k) => ~DataStreamGate(k)
    BY DEF NetStreamGate, DataStreamGate, TypeIdGate
<1>4. NetConnGate(k) \/ NetStreamGate(k) \/ DataStreamGate(k) => k.csid # 5
    BY DEF NetConnGate, NetStreamGate, DataStreamGate, StreamIdGate
<1> QED BY <1>1, <1>2, <1>3, <1>4 DEF Open, Children

\* Once Dispatch is ready for the next chunk, each has gone to exactly the
\* children whose gates are open.
LEMMA ReceiversOpen ==
    ASSUME TypeOK, Chain, mpc = "select", NEW i \in DOMAIN log
    PROVE  Receivers(i) = {ch \in Children : Open(ch, log[i])}
<1>1. todo = {}
    BY DEF TypeOK
<1>2. ASSUME NEW ch \in Children, Open(ch, log[i]) PROVE ch \in Receivers(i)
    BY <1>1, <1>2 DEF Chain, NoneSkipped, Receivers
<1>3. ASSUME NEW ch \in Children, i \in HandledSet(ch) PROVE Open(ch, log[i])
    BY <1>3 DEF Chain, RoutedInOrder, HandledSet
<1>4. ASSUME NEW ch \in Children, Working(ch), ccur[ch] = i PROVE Open(ch, log[i])
    BY <1>4 DEF Chain, WorkChain
<1> QED BY <1>2, <1>3, <1>4 DEF Receivers

\* No chunk goes to two children, and none that a gate is open for goes to no
\* child, for any chunks at all, those that the gates leave out included
\* (Manager.Dispatch, NetConnGate, NetStreamGate, DataStreamGate).
THEOREM OneChildGetsIt == Spec => []OneChild
<1>1. TypeOK /\ Chain => OneChild
  <2> SUFFICES ASSUME TypeOK, Chain, mpc = "select", NEW i \in DOMAIN log
               PROVE  /\ Cardinality(Receivers(i)) <= 1
                      /\ Receivers(i) = {} <=> \A ch \in Children : ~Open(ch, log[i])
      BY DEF OneChild
  <2>1. Receivers(i) = {ch \in Children : Open(ch, log[i])}
      BY ReceiversOpen
  <2>2. ASSUME NEW c \in Children, Open(c, log[i])
        PROVE  Cardinality(Receivers(i)) <= 1
    <3>1. Receivers(i) = {c}
        BY <2>1, <2>2, GatesExclusive
    <3>2. Cardinality(Receivers(i)) = 1
        BY <3>1, FS_Singleton
    <3> QED BY <3>2
  <2>3. CASE \A ch \in Children : ~Open(ch, log[i])
    <3>1. Receivers(i) = {}
        BY <2>1, <2>3
    <3>2. Cardinality(Receivers(i)) = 0
        BY <3>1, FS_EmptySet
    <3> QED BY <3>2, <2>1, <2>3
  <2>4. Receivers(i) = {} <=> \A ch \in Children : ~Open(ch, log[i])
      BY <2>1
  <2> QED BY <2>2, <2>3, <2>4
<1> QED BY <1>1, ChainInvariant, PTL
=============================================================================
