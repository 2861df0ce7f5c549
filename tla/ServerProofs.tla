---------------------------- MODULE ServerProofs -----------------------------
(***************************************************************************)
(* Proofs about Server, for any number of connections.                     *)
(***************************************************************************)
EXTENDS Server, TLAPS

\* The variables have their types.
TypeOK ==
    /\ arrived \in Nat
    /\ backlog \in Seq(Nat)
    /\ apc \in {"idle", "accept", "sendClient", "sendErr"}
    /\ conn \in Nat
    /\ clients \in Seq(Nat)

-----------------------------------------------------------------------------
(***************************************************************************)
(* The inductive invariant says of each of the three parts by itself what  *)
(* EachOnce says of the sequence made of them: the clients handed out are  *)
(* the first connections, the one at hand is the next, and the backlog     *)
(* goes on from there.                                                     *)
(***************************************************************************)
\* How many connections the accept loop holds.
InHand == IF conn = 0 THEN 0 ELSE 1

\* The loop holds a connection just while it offers its client.
OfferedOne == apc = "sendClient" <=> conn # 0
\* The clients handed out, the one at hand and the waiting connections follow one
\* another, and make up all that arrived until the listener is closed.
First   == \A i \in 1..Len(clients) : clients[i] = i
AtHand  == conn # 0 => conn = Len(clients) + 1
Waiting == \A i \in 1..Len(backlog) : backlog[i] = Len(clients) + InHand + i
Count   == ~closed => Len(clients) + InHand + Len(backlog) = arrived

Places == TypeOK /\ OfferedOne /\ First /\ AtHand /\ Waiting /\ Count

\* The places are counted in natural numbers.
LEMMA Lengths ==
    ASSUME TypeOK
    PROVE  Len(clients) \in Nat /\ Len(backlog) \in Nat /\ InHand \in Nat
BY DEF TypeOK, InHand

\* A sequence in order, continued in order, is in order.
LEMMA OrderedConcat ==
    ASSUME NEW a \in Seq(Nat), NEW b \in Seq(Nat), InOrder(a),
           \A i \in 1..Len(b) : b[i] = Len(a) + i
    PROVE  /\ a \o b \in Seq(Nat)
           /\ Len(a \o b) = Len(a) + Len(b)
           /\ InOrder(a \o b)
<1>1. a \o b \in Seq(Nat) /\ Len(a \o b) = Len(a) + Len(b)
    OBVIOUS
<1>2. Len(a) \in Nat /\ Len(b) \in Nat /\ DOMAIN a = 1..Len(a)
    OBVIOUS
<1>3. ASSUME NEW i \in 1..Len(a \o b) PROVE (a \o b)[i] = i
  <2>1. CASE i <= Len(a)
    <3>1. i \in 1..Len(a) /\ (a \o b)[i] = a[i]
        BY <2>1, <1>1, <1>2
    <3> QED BY <3>1, <1>2 DEF InOrder
  <2>2. CASE i > Len(a)
    <3>1. i - Len(a) \in 1..Len(b) /\ (a \o b)[i] = b[i - Len(a)]
        BY <2>2, <1>1, <1>2
    <3>2. b[i - Len(a)] = Len(a) + (i - Len(a))
        BY <3>1
    <3> QED BY <3>1, <3>2, <1>2
  <2> QED BY <2>1, <2>2, <1>2
<1> QED BY <1>1, <1>3 DEF InOrder

\* Every step of Accept, of the network and of the user keeps the places.
LEMMA PlacesStep == Places /\ [Next]_vars => Places'
<1> SUFFICES ASSUME Places, [Next]_vars PROVE Places'
    OBVIOUS
<1> USE DEF Places
<1>1. CASE Arrive
  <2>1. /\ Len(backlog') = Len(backlog) + 1
        /\ backlog' \in Seq(Nat)
        /\ \A i \in 1..Len(backlog) : backlog'[i] = backlog[i]
        /\ backlog'[Len(backlog) + 1] = arrived + 1
        /\ arrived' = arrived + 1
      BY <1>1 DEF Arrive, TypeOK
  <2>2. UNCHANGED <<apc, conn, clients, InHand>>
      BY <1>1 DEF Arrive, InHand
  <2>3. Len(clients) + InHand + Len(backlog) = arrived
      BY <1>1 DEF Arrive, Count
  <2>4. ASSUME NEW i \in 1..Len(backlog')
        PROVE  backlog'[i] = Len(clients) + InHand + i
    <3>1. CASE i \in 1..Len(backlog)
        BY <3>1, <2>1 DEF Waiting
    <3>2. CASE i = Len(backlog) + 1
        BY <3>2, <2>1, <2>3, Lengths
    <3> QED BY <3>1, <3>2, <2>1, Lengths
  <2>5. Len(clients) + InHand + Len(backlog') = arrived'
      BY <2>1, <2>3, Lengths
  <2>6. TypeOK'
      BY <2>1, <2>2 DEF TypeOK
  <2>7. Waiting' /\ Count'
      BY <2>2, <2>4, <2>5 DEF Waiting, Count
  <2> QED BY <2>2, <2>6, <2>7 DEF OfferedOne, First, AtHand
<1>2. CASE StartAccept \/ AcceptFails \/ SendErr
  <2>1. /\ UNCHANGED <<arrived, backlog, closed, conn, clients, InHand>>
        /\ apc # "sendClient" /\ apc' # "sendClient"
        /\ TypeOK'
      BY <1>2 DEF StartAccept, AcceptFails, SendErr, TypeOK, InHand
  <2> QED BY <2>1 DEF OfferedOne, First, AtHand, Waiting, Count
<1>3. CASE Close
  <2>1. /\ UNCHANGED <<arrived, apc, conn, clients, InHand>>
        /\ backlog' = <<>>
        /\ closed'
        /\ TypeOK'
      BY <1>3 DEF Close, TypeOK, InHand
  <2>2. Waiting' /\ Count'
      BY <2>1 DEF Waiting, Count
  <2> QED BY <2>1, <2>2 DEF OfferedOne, First, AtHand
<1>4. CASE AcceptConn
  <2>1. /\ Len(backlog) >= 1
        /\ conn' = backlog[1]
        /\ backlog' \in Seq(Nat)
        /\ Len(backlog') = Len(backlog) - 1
        /\ \A i \in 1..Len(backlog') : backlog'[i] = backlog[i + 1]
        /\ TypeOK'
      BY <1>4 DEF AcceptConn, TypeOK
  <2>2. conn = 0 /\ InHand = 0 /\ UNCHANGED <<arrived, closed, clients>>
      BY <1>4 DEF AcceptConn, OfferedOne, InHand
  <2>3. conn' = Len(clients) + 1
      BY <2>1, <2>2, Lengths DEF Waiting
  <2>4. conn' # 0 /\ InHand' = 1
      BY <2>3, Lengths DEF InHand
  <2>5. \A i \in 1..Len(backlog') : backlog'[i] = Len(clients) + 1 + i
    <3> SUFFICES ASSUME NEW i \in 1..Len(backlog')
                 PROVE  backlog'[i] = Len(clients) + 1 + i
        OBVIOUS
    <3>1. i + 1 \in 1..Len(backlog)
        BY <2>1, Lengths
    <3>2. backlog[i + 1] = Len(clients) + 0 + (i + 1)
        BY <3>1, <2>2 DEF Waiting
    <3> QED BY <3>2, <2>1, Lengths
  <2>6. Waiting'
      BY <2>2, <2>4, <2>5 DEF Waiting
  <2>7. Len(clients) + 1 + Len(backlog') = Len(clients) + InHand + Len(backlog)
      BY <2>1, <2>2, Lengths
  <2>8. Count'
      BY <2>2, <2>4, <2>7 DEF Count
  <2>9. OfferedOne'
      BY <1>4, <2>4 DEF AcceptConn, OfferedOne
  <2> QED BY <2>1, <2>2, <2>3, <2>6, <2>8, <2>9 DEF First, AtHand
<1>5. CASE SendClient
  <2>1. /\ conn' = 0
        /\ InHand' = 0
        /\ clients' \in Seq(Nat)
        /\ Len(clients') = Len(clients) + 1
        /\ \A i \in 1..Len(clients) : clients'[i] = clients[i]
        /\ clients'[Len(clients) + 1] = conn
        /\ TypeOK'
      BY <1>5 DEF SendClient, TypeOK, InHand
  <2>2. /\ conn = Len(clients) + 1
        /\ InHand = 1
        /\ UNCHANGED <<arrived, backlog, closed>>
      BY <1>5 DEF SendClient, OfferedOne, AtHand, InHand
  <2>3. First'
    <3> SUFFICES ASSUME NEW i \in 1..Len(clients') PROVE clients'[i] = i
        BY DEF First
    <3>1. CASE i \in 1..Len(clients)
        BY <3>1, <2>1 DEF First
    <3>2. CASE i = Len(clients) + 1
        BY <3>2, <2>1, <2>2
    <3> QED BY <3>1, <3>2, <2>1, Lengths
  <2>4. Len(clients') + InHand' = Len(clients) + InHand
      BY <2>1, <2>2, Lengths
  <2>5. Waiting' /\ Count'
      BY <2>2, <2>4 DEF Waiting, Count
  <2>6. OfferedOne' /\ AtHand'
      BY <1>5, <2>1 DEF SendClient, OfferedOne, AtHand
  <2> QED BY <2>1, <2>3, <2>5, <2>6
<1>6. CASE UNCHANGED vars
    BY <1>6 DEF vars, TypeOK, InHand, OfferedOne, First, AtHand, Waiting, Count
<1> QED BY <1>1, <1>2, <1>3, <1>4, <1>5, <1>6 DEF Next, Accept

\* Every connection that arrives is waiting, at hand or handed out, once and in
\* the order of arrival, whatever errors come in between; a Close loses those
\* still waiting, but never the one at hand (Server.Accept).
THEOREM EachIsServedOnce == Spec => []EachOnce
<1>1. Init => Places
    BY DEF Init, Places, TypeOK, InHand, OfferedOne, First, AtHand, Waiting, Count
<1>2. Places => EachOnce
  <2> SUFFICES ASSUME Places PROVE EachOnce
      OBVIOUS
  <2> DEFINE s == clients \o Held
             t == s \o backlog
  <2>1. /\ Held \in Seq(Nat)
        /\ Len(Held) = InHand
        /\ \A i \in 1..Len(Held) : Held[i] = Len(clients) + i
    <3>1. CASE conn = 0
        BY <3>1 DEF Held, InHand
    <3>2. CASE conn # 0
        BY <3>2 DEF Places, AtHand, TypeOK, Held, InHand
    <3> QED BY <3>1, <3>2
  <2>2. clients \in Seq(Nat) /\ backlog \in Seq(Nat) /\ InOrder(clients)
      BY DEF Places, TypeOK, First, InOrder
  <2>3. s \in Seq(Nat) /\ Len(s) = Len(clients) + InHand /\ InOrder(s)
      BY <2>1, <2>2, OrderedConcat
  <2>4. \A i \in 1..Len(backlog) : backlog[i] = Len(s) + i
      BY <2>3 DEF Places, Waiting
  <2>5. Len(t) = Len(s) + Len(backlog) /\ InOrder(t)
    <3> HIDE DEF s
    <3> QED BY <2>2, <2>3, <2>4, OrderedConcat
  <2>6. ~closed => Len(t) = arrived
      BY <2>3, <2>5 DEF Places, Count
  <2> QED BY <2>5, <2>6 DEF EachOnce, Places, OfferedOne
<1> QED BY <1>1, <1>2, PlacesStep, PTL DEF Spec
=============================================================================
