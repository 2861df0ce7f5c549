------------------------------- MODULE Client -------------------------------
(***************************************************************************)
(* One client as client.New connects its parts: the chunk parser           *)
(* (ChunkParser), the control stream that reads chunk stream 2             *)
(* (ControlStream) and the command manager that reads the other streams    *)
(* through a MultiStream (CmdManager).  A receive of one part is a step of *)
(* the part that sends, too.                                               *)
(*                                                                         *)
(* The parser and its streams are as New leaves them.  A Client has no     *)
(* method to close the parser and none to receive its errors; closing the  *)
(* manager and its children is in CmdManager.                              *)
(***************************************************************************)
EXTENDS Naturals, Sequences, FiniteSets, Functions

CONSTANTS
    Kinds,      \* the chunks that the peer may send, as in CmdManager
    NetIds,     \* the ids of the MultiStream: 3, 4, 5 and 8 in client.New
    MaxChunks   \* bound: chunks completed on the connection

ControlId == 2
Csids == {k.csid : k \in Kinds}
StrayIds == Csids \ (NetIds \cup {ControlId})

ASSUME ClientAssumption ==
    /\ ControlId \notin NetIds
    /\ Cardinality(NetIds) > 1
    /\ MaxChunks \in Nat

VARIABLES
    kinds,     \* history: the complete chunks of the connection
    got,       \* ChunkParser
    rpc, ppc, pcur, streams, fpc, fcur,
    taken,     \* history: the places in kinds that Dispatch has received
    mpc,       \* CmdManager
    todo, cpc, ccur, handled,
    spc,       \* ControlStream
    scur, controls, scloser

parserVars  == <<kinds, got, rpc, ppc, pcur, streams, fpc, fcur>>
managerVars == <<taken, mpc, todo, cpc, ccur, handled>>
controlVars == <<spc, scur, controls, scloser>>
vars == <<parserVars, managerVars, controlVars>>

Children == {"netConn", "netStream", "dataStream"}

P == INSTANCE ChunkParser WITH
        Single <- {ControlId}, Multi <- NetIds, Stray <- StrayIds,
        Closers <- {}, ErrsRead <- FALSE, ClientOrder <- TRUE,
        log <- [i \in DOMAIN kinds |-> kinds[i].csid],
        opened <- {ControlId}, multi <- "open", closedIn <- {}, apc <- "idle",
        cpc <- [c \in {} |-> "idle"], asked <- [c \in {} |-> {}]

M == INSTANCE CmdManager WITH
        Closable <- {},
        log <- [n \in DOMAIN taken |-> kinds[taken[n]]],
        closer <- "idle",
        closers <- [ch \in Children |-> "idle"],
        reader <- [ch \in Children |-> "ranging"]

S == INSTANCE ControlStream

\* client.New: the two calls of Stream are made, nothing runs yet.
Init ==
    /\ kinds = <<>>
    /\ got = [id \in P!Ids |-> <<>>]
    /\ rpc = "idle"
    /\ ppc = "idle"
    /\ pcur = 0
    /\ streams = NetIds \cup {ControlId}
    /\ fpc = [id \in NetIds |-> "recv"]
    /\ fcur = [id \in NetIds |-> 0]
    /\ taken = <<>>
    /\ M!Init
    /\ S!Init

-----------------------------------------------------------------------------
\* Client.Handshake was successful, and starts Parser.Recv.
Handshake == UNCHANGED kinds /\ P!StartRecv /\ UNCHANGED <<managerVars, controlVars>>

\* The peer completes a chunk.
NewChunk(k) ==
    /\ kinds' = Append(kinds, k)
    /\ P!ReadChunk(k.csid)
    /\ UNCHANGED <<managerVars, controlVars>>

\* The connection yields part of a chunk, or fails.
PartOrError ==
    /\ UNCHANGED kinds
    /\ P!ReadPart \/ P!ReadError
    /\ UNCHANGED <<managerVars, controlVars>>

\* The reader, the parser and the fan-in goroutine of a stream take a step.
ReaderStep ==
    UNCHANGED kinds /\ P!ReaderPolls /\ UNCHANGED <<managerVars, controlVars>>
ParserStep ==
    /\ UNCHANGED kinds
    /\ P!ParserTakesChunk \/ P!ParserTakesErr
    /\ UNCHANGED <<managerVars, controlVars>>
FanStep(id) ==
    UNCHANGED kinds /\ P!DeliverMulti(id) /\ UNCHANGED <<managerVars, controlVars>>

\* control.Stream.Recv receives from Stream(2).
ToControl ==
    /\ UNCHANGED kinds
    /\ P!DeliverSingle(ControlId)
    /\ S!Take(pcur, kinds[pcur])
    /\ UNCHANGED managerVars

\* Mutant: Dispatch receives the chunk that came last instead.
ToManagerLast(id) ==
    /\ UNCHANGED kinds
    /\ P!FanIn(id)
    /\ taken' = Append(taken, Len(kinds))
    /\ M!TakeChunk(kinds[Len(kinds)])
    /\ UNCHANGED controlVars

\* Manager.Dispatch receives from the MultiStream what came on stream id.
ToManager(id) ==
    /\ UNCHANGED kinds
    /\ P!FanIn(id)
    /\ taken' = Append(taken, fcur[id])
    /\ M!TakeChunk(kinds[fcur[id]])
    /\ UNCHANGED controlVars

\* The user starts Dispatch and perhaps the children, which take chunks and whose
\* results the user receives.
Started == UNCHANGED <<parserVars, taken>> /\ M!Start /\ UNCHANGED controlVars
ChildStep(ch) ==
    /\ UNCHANGED <<parserVars, taken>>
    /\ M!StartChild(ch) \/ M!SendTo(ch) \/ M!Outcome(ch)
    /\ UNCHANGED controlVars

\* The user starts Controls().Recv(), receives from it, or closes it.
ControlStep ==
    /\ S!StartRecv \/ S!Outcome \/ S!TakeClose
    /\ UNCHANGED <<parserVars, managerVars>>
CloseControls == S!Close /\ UNCHANGED <<parserVars, managerVars>>

Next ==
    \/ Handshake \/ PartOrError \/ ReaderStep \/ ParserStep \/ ToControl
    \/ \E k \in Kinds : NewChunk(k)
    \/ \E id \in NetIds : FanStep(id) \/ ToManager(id)
    \/ Started
    \/ \E ch \in Children : ChildStep(ch)
    \/ ControlStep \/ CloseControls

Spec == Init /\ [][Next]_vars

\* All goroutines are started and run, and the user receives from every In()
\* and Errs() of the control stream and the children.
Fairness ==
    /\ WF_vars(Handshake) /\ WF_vars(ReaderStep) /\ WF_vars(ParserStep)
    /\ WF_vars(ToControl) /\ WF_vars(Started) /\ WF_vars(ControlStep)
    /\ \A id \in NetIds : WF_vars(FanStep(id)) /\ SF_vars(ToManager(id))
    /\ \A ch \in Children : WF_vars(ChildStep(ch))

FairSpec == Spec /\ Fairness

-----------------------------------------------------------------------------
(* Properties.                                                             *)

\* Who a chunk is for.
Dests == Children \cup {"control", "nobody"}
Dest(k) ==
    CASE k.csid = ControlId -> "control"
      [] k.csid \in NetIds /\ (\E ch \in Children : M!Open(ch, k)) ->
            (CHOOSE ch \in Children : M!Open(ch, k))
      [] OTHER -> "nobody"

\* The places of the chunks whose outcome the user has received from d.
Consumed(d) ==
    CASE d = "control" -> controls
      [] d \in Children -> [n \in DOMAIN handled[d] |-> taken[handled[d][n]]]
      [] OTHER -> <<>>

\* The goroutines that hold the i-th chunk.
Holders(i) ==
    {h \in {"reader", "parser", "fan", "dispatch", "control"} \cup Children :
        \/ h = "reader" /\ P!ReaderHolds(i)
        \/ h = "parser" /\ P!ParserHolds(i)
        \/ h = "fan" /\ kinds[i].csid \in NetIds /\ P!FanHolds(i)
        \/ h = "dispatch" /\ mpc = "send" /\ taken[Len(taken)] = i
        \/ h = "control" /\ spc \in {"sendIn", "sendErr"} /\ scur = i
        \/ h \in Children /\ M!Working(h) /\ taken[ccur[h]] = i}

\* From the last byte of a chunk to its consumer there is always exactly one
\* goroutine that holds it, and none when the consumer has its outcome or
\* Dispatch has found no gate for it (the whole client).
OneHolder ==
    \A i \in DOMAIN kinds :
        LET done == \/ i \in Range(Consumed(Dest(kinds[i])))
                    \/ i \in Range(taken) /\ Dest(kinds[i]) = "nobody"
        IN  Cardinality(Holders(i)) = IF done THEN 0 ELSE 1

\* The elements of s whose places are in Q, in their order.
Rank(n, Q)   == Cardinality({m \in Q : m <= n})
Picked(s, Q) == [k \in 1..Cardinality(Q) |-> s[CHOOSE n \in Q : Rank(n, Q) = k]]

\* Those of the chunks in s that came on chunk stream c.
OfStream(s, c) == Picked(s, {n \in DOMAIN s : kinds[s[n]].csid = c})

\* End to end the client delivers as the abstract specification says, per
\* consumer and chunk stream: each consumer gets its chunks of a chunk stream
\* once and in order.  Nothing holds between two consumers, not even for chunks of
\* the same chunk stream, such as a publish command and the first frame after it.
E2E == INSTANCE StreamDelivery WITH
          Ids <- Dests \X Csids,
          log <- [i \in DOMAIN kinds |-> <<Dest(kinds[i]), kinds[i].csid>>],
          got <- [x \in Dests \X Csids |-> OfStream(Consumed(x[1]), x[2])]
EndToEnd == E2E!Spec

\* What the i-th chunk may have to wait for, for ever: a chunk before it that
\* nobody reads, or, when it came after a read error, the error itself, which
\* nobody can receive from the parser (Client has no accessor for Parser.Errs()).
Hindered(i) ==
    \/ \E j \in 1..i : kinds[j].csid \in StrayIds
    \/ \E j \in 1..i : kinds[j].csid = ControlId /\ scloser # "idle"
    \/ ppc = "sendErr" /\ P!ReaderHolds(i)

\* The user gets the outcome of every chunk that is for somebody, whatever order
\* the goroutines are started in, unless it is hindered.
AllConsumed ==
    \A i \in 1..MaxChunks :
        (i \in DOMAIN kinds) ~>
            /\ i \in DOMAIN kinds
            /\ \/ i \in Range(Consumed(Dest(kinds[i])))
               \/ Dest(kinds[i]) = "nobody" /\ i \in Range(taken)
               \/ Hindered(i)
=============================================================================
