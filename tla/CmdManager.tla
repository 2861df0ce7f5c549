----------------------------- MODULE CmdManager -----------------------------
(***************************************************************************)
(* cmd.Manager and its three children: Manager.Dispatch passes the chunks  *)
(* of a MultiStream through gates to NetConn.Listen, NetStream.Listen and  *)
(* data.Stream.Recv, which parse them and offer the result on In() or the  *)
(* error on Errs().  The channels are unbuffered: a send and its receive   *)
(* are one step.  Of a chunk's payload only the name of the command counts *)
(* and whether the rest of it decodes, which the AMF0 library decides.     *)
(***************************************************************************)
EXTENDS Naturals, Sequences, FiniteSets

CONSTANTS
    Kinds,       \* the chunks that may arrive: csid, msid, type, the command
                 \* in it ("" for none) and whether what follows is well formed
    Closable,    \* the children whose Close somebody may call
    MaxChunks    \* bound: chunks received by Dispatch

Children == {"netConn", "netStream", "dataStream"}

ASSUME ManagerAssumption ==
    /\ Kinds \subseteq [csid : Nat, msid : Nat, type : Nat,
                        name : STRING, ok : BOOLEAN]
    /\ Closable \subseteq Children
    /\ MaxChunks \in Nat

VARIABLES
    log,      \* history: the chunks that Dispatch has received
    mpc,      \* Manager.Dispatch
    todo,     \* the children it still has to send the last chunk to
    closer,   \* a caller of Manager.Close
    cpc,      \* the loop of each child
    ccur,     \* the place in log of the chunk that the child works on
    handled,  \* history: the places in log whose outcome was received
    closers,  \* a caller of Close of each child
    reader    \* a consumer that ranges over the child's In()
vars == <<log, mpc, todo, closer, cpc, ccur, handled, closers, reader>>

Init ==
    /\ log = <<>>
    /\ mpc = "idle"
    /\ todo = {}
    /\ closer = "idle"
    /\ cpc = [ch \in Children |-> "idle"]
    /\ ccur = [ch \in Children |-> 0]
    /\ handled = [ch \in Children |-> <<>>]
    /\ closers = [ch \in Children |-> "idle"]
    /\ reader = [ch \in Children |-> "ranging"]

-----------------------------------------------------------------------------
(* The gates.                                                              *)

StreamIdGate(id, k)      == k.csid = id
MessageStreamGate(id, k) == k.msid = id
TypeIdGate(id, k)        == k.type = id

\* A union gate is a conjunction, an any gate a disjunction of gates.
NetConnGate(k) ==
    \/ StreamIdGate(3, k)
    \/ StreamIdGate(8, k) /\ MessageStreamGate(0, k)

\* Mutant: commands on stream 8 are not told apart by their message stream.
NetStreamGateLoose(k) ==
    (StreamIdGate(4, k) \/ StreamIdGate(8, k)) /\ TypeIdGate(20, k)

NetStreamGate(k) ==
    /\ \/ StreamIdGate(4, k)
       \/ StreamIdGate(8, k) /\ MessageStreamGate(1, k)
    /\ TypeIdGate(20, k)

DataStreamGate(k) ==
    /\ StreamIdGate(4, k)
    /\ TypeIdGate(8, k) \/ TypeIdGate(9, k) \/ TypeIdGate(18, k)

Open(ch, k) ==
    \/ ch = "netConn" /\ NetConnGate(k)
    \/ ch = "netStream" /\ NetStreamGate(k)
    \/ ch = "dataStream" /\ DataStreamGate(k)

-----------------------------------------------------------------------------
(* The parsers of the children.                                            *)

NetConnCommands == {"connect", "createStream", "releaseStream", "FCPublish",
                    "getStreamLength"}
NetStreamCommands == {"play", "play2", "deleteStream", "receiveAudio",
                      "receiveVideo", "publish", "seek", "pause"}
DataIds == {8, 9, 18}

\* Does the parser find a factory for the chunk, and does what the factory makes
\* read the rest (audio and video want a byte at least)?
NetConnParse(k)   == k.name \in NetConnCommands /\ k.ok
NetStreamParse(k) == k.name \in NetStreamCommands /\ k.ok
DataParse(k)      == k.type \in DataIds /\ k.ok

Parses(ch, k) ==
    \/ ch = "netConn" /\ NetConnParse(k)
    \/ ch = "netStream" /\ NetStreamParse(k)
    \/ ch = "dataStream" /\ DataParse(k)

Parsed(ch, k) == IF Parses(ch, k) THEN "sendIn" ELSE "sendErr"

-----------------------------------------------------------------------------
(* Manager.Dispatch.                                                       *)

\* Dispatch starts, and if it manages the children, which nobody else starts
\* then, startChildren starts their loops.
StartDispatch(manageChildren) ==
    /\ mpc = "idle"
    /\ manageChildren => \A ch \in Children : cpc[ch] = "idle"
    /\ mpc' = "select"
    /\ cpc' = IF manageChildren THEN [ch \in Children |-> "select"] ELSE cpc
    /\ UNCHANGED <<log, todo, closer, ccur, handled, closers, reader>>

\* Mutant: Dispatch waits for a receiver also when no gate is open.
TakeAndWait(k) ==
    /\ mpc = "select"
    /\ Len(log) < MaxChunks
    /\ log' = Append(log, k)
    /\ todo' = {ch \in Children : Open(ch, k)}
    /\ mpc' = "send"
    /\ UNCHANGED <<closer, cpc, ccur, handled, closers, reader>>

\* A chunk is received; it goes to every channel whose gate is open.
TakeChunk(k) ==
    /\ mpc = "select"
    /\ Len(log) < MaxChunks
    /\ log' = Append(log, k)
    /\ todo' = {ch \in Children : Open(ch, k)}
    /\ mpc' = IF todo' = {} THEN "select" ELSE "send"
    /\ UNCHANGED <<closer, cpc, ccur, handled, closers, reader>>

\* Mutant: a child that is busy misses the chunk.
SendOrSkip(ch) ==
    /\ mpc = "send"
    /\ ch \in todo
    /\ todo' = todo \ {ch}
    /\ mpc' = IF todo' = {} THEN "select" ELSE "send"
    /\ \/ /\ cpc[ch] = "select"
          /\ ccur' = [ccur EXCEPT ![ch] = Len(log)]
          /\ cpc' = [cpc EXCEPT ![ch] = Parsed(ch, log[Len(log)])]
       \/ cpc[ch] # "select" /\ UNCHANGED <<cpc, ccur>>
    /\ UNCHANGED <<log, closer, handled, closers, reader>>

\* The channel of ch takes the chunk, in any order (range over a map), and the
\* child parses it.
SendTo(ch) ==
    /\ mpc = "send"
    /\ ch \in todo
    /\ cpc[ch] = "select"
    /\ todo' = todo \ {ch}
    /\ mpc' = IF todo' = {} THEN "select" ELSE "send"
    /\ ccur' = [ccur EXCEPT ![ch] = Len(log)]
    /\ cpc' = [cpc EXCEPT ![ch] = Parsed(ch, log[Len(log)])]
    /\ UNCHANGED <<log, closer, handled, closers, reader>>

\* Manager.Close is called.
Close ==
    /\ closer = "idle"
    /\ closer' = "sending"
    /\ UNCHANGED <<log, mpc, todo, cpc, ccur, handled, closers, reader>>

\* Mutant: the closer is looked at before the loop only.
TakeCloseFirst ==
    /\ mpc = "idle"
    /\ closer = "sending"
    /\ closer' = "returned"
    /\ UNCHANGED <<log, mpc, todo, cpc, ccur, handled, closers, reader>>

\* Dispatch receives the close; its break leaves the select, not the loop.
TakeClose ==
    /\ mpc = "select"
    /\ closer = "sending"
    /\ closer' = "returned"
    /\ UNCHANGED <<log, mpc, todo, cpc, ccur, handled, closers, reader>>

-----------------------------------------------------------------------------
(* The loop of a child.                                                    *)

\* Listen or Recv is started by somebody else than Dispatch.
StartChild(ch) ==
    /\ cpc[ch] = "idle"
    /\ cpc' = [cpc EXCEPT ![ch] = "select"]
    /\ UNCHANGED <<log, mpc, todo, closer, ccur, handled, closers, reader>>

\* Mutant: the outcome is offered again.
OutcomeTwice(ch) ==
    /\ cpc[ch] \in {"sendIn", "sendErr"}
    /\ handled' = [handled EXCEPT ![ch] = Append(@, ccur[ch])]
    /\ \E out \in {"select", cpc[ch]} : cpc' = [cpc EXCEPT ![ch] = out]
    /\ UNCHANGED <<log, mpc, todo, closer, ccur, closers, reader>>

\* Mutant: an error ends the loop.
ErrorEndsLoop(ch) ==
    /\ cpc[ch] \in {"sendIn", "sendErr"}
    /\ handled' = [handled EXCEPT ![ch] = Append(@, ccur[ch])]
    /\ cpc' = [cpc EXCEPT ![ch] = IF @ = "sendErr" THEN "done" ELSE "select"]
    /\ UNCHANGED <<log, mpc, todo, closer, ccur, closers, reader>>

\* The outcome of the parse, a value on In() or an error on Errs(), is received.
Outcome(ch) ==
    /\ cpc[ch] \in {"sendIn", "sendErr"}
    /\ handled' = [handled EXCEPT ![ch] = Append(@, ccur[ch])]
    /\ cpc' = [cpc EXCEPT ![ch] = "select"]
    /\ UNCHANGED <<log, mpc, todo, closer, ccur, closers, reader>>

\* Close of the child is called.
CloseChild(ch) ==
    /\ closers[ch] = "idle"
    /\ closers' = [closers EXCEPT ![ch] = "sending"]
    /\ UNCHANGED <<log, mpc, todo, closer, cpc, ccur, handled, reader>>

\* Mutant: the close also ends the loop while it offers an outcome.
CloseAnywhere(ch) ==
    /\ cpc[ch] \in {"select", "sendIn", "sendErr"}
    /\ closers[ch] = "sending"
    /\ cpc' = [cpc EXCEPT ![ch] = "done"]
    /\ closers' = [closers EXCEPT ![ch] = "returned"]
    /\ UNCHANGED <<log, mpc, todo, closer, ccur, handled, reader>>

\* The loop receives the close and returns.
ChildTakesClose(ch) ==
    /\ cpc[ch] = "select"
    /\ closers[ch] = "sending"
    /\ cpc' = [cpc EXCEPT ![ch] = "done"]
    /\ closers' = [closers EXCEPT ![ch] = "returned"]
    /\ UNCHANGED <<log, mpc, todo, closer, ccur, handled, reader>>

\* The consumer finds In() closed by the deferred function of the loop.
InClosed(ch) ==
    /\ cpc[ch] = "done"
    /\ reader[ch] = "ranging"
    /\ reader' = [reader EXCEPT ![ch] = "ended"]
    /\ UNCHANGED <<log, mpc, todo, closer, cpc, ccur, handled, closers>>

Loop(ch) == StartChild(ch) \/ Outcome(ch) \/ ChildTakesClose(ch)

\* NetConn.Listen closes none of its channels when it returns.
NetConnListen  == Loop("netConn")
NetStreamListen == Loop("netStream") \/ InClosed("netStream")
DataStreamRecv  == Loop("dataStream") \/ InClosed("dataStream")

-----------------------------------------------------------------------------
Start == \E manageChildren \in BOOLEAN : StartDispatch(manageChildren)
Dispatch == Start \/ TakeClose \/ \E k \in Kinds : TakeChunk(k)
Users == Close \/ \E ch \in Closable : CloseChild(ch)

Next ==
    \/ Dispatch
    \/ \E ch \in Children : SendTo(ch)
    \/ NetConnListen \/ NetStreamListen \/ DataStreamRecv
    \/ Users

Spec == Init /\ [][Next]_vars

\* The loops run, somebody receives from every In() and Errs(), and a select
\* that can take a close infinitely often takes it.
Fairness ==
    /\ WF_vars(Start)
    /\ SF_vars(TakeClose)
    /\ \A ch \in Children :
          /\ WF_vars(SendTo(ch))
          /\ WF_vars(StartChild(ch))
          /\ WF_vars(Outcome(ch))
          /\ SF_vars(ChildTakesClose(ch))
    /\ WF_vars(InClosed("netStream"))
    /\ WF_vars(InClosed("dataStream"))

FairSpec == Spec /\ Fairness

-----------------------------------------------------------------------------
(* Properties.                                                             *)

\* The loops are at one of their program points, and Dispatch is sending just
\* as long as a child is to be sent to.
TypeOK ==
    /\ log \in Seq(Kinds)
    /\ mpc \in {"idle", "select", "send"}
    /\ todo \in SUBSET Children
    /\ mpc = "send" <=> todo # {}
    /\ closer \in {"idle", "sending", "returned"}
    /\ cpc \in [Children -> {"idle", "select", "sendIn", "sendErr", "done"}]
    /\ ccur \in [Children -> Nat]
    /\ handled \in [Children -> Seq(Nat)]
    /\ closers \in [Children -> {"idle", "sending", "returned"}]
    /\ reader \in [Children -> {"ranging", "ended"}]

HandledSet(ch) == {handled[ch][n] : n \in DOMAIN handled[ch]}
Working(ch) == cpc[ch] \in {"sendIn", "sendErr"}

\* A chunk whose gate is open for ch is handled, being worked on by ch, or about
\* to be sent to it: neither a slow consumer nor a call of Close loses one
\* (Manager.Dispatch and the children's loops).
NoneSkipped ==
    \A ch \in Children, i \in DOMAIN log : Open(ch, log[i]) =>
        \/ i \in HandledSet(ch)
        \/ Working(ch) /\ ccur[ch] = i
        \/ i = Len(log) /\ ch \in todo

\* A child handles only chunks of its gate, in the order in which they came,
\* each once.
RoutedInOrder ==
    \A ch \in Children : \A n \in DOMAIN handled[ch] :
        /\ handled[ch][n] \in DOMAIN log
        /\ Open(ch, log[handled[ch][n]])
        /\ \A j \in 1..(n - 1) : handled[ch][j] < handled[ch][n]
        /\ Working(ch) => handled[ch][n] < ccur[ch]

\* The children that a chunk has gone to.
Receivers(i) == {ch \in Children : i \in HandledSet(ch) \/ (Working(ch) /\ ccur[ch] = i)}

\* Once Dispatch is ready for the next chunk, no chunk has gone to two children,
\* whatever its chunk stream, message stream and type ("the set of channels given
\* is mutually exclusive", Manager.Dispatch), and none has gone to no child but
\* those that every gate is shut for.
OneChild ==
    mpc = "select" =>
        \A i \in DOMAIN log :
            /\ Cardinality(Receivers(i)) <= 1
            /\ Receivers(i) = {} <=> \A ch \in Children : ~Open(ch, log[i])

\* A consumer that ranges over In() and finds it closed has not missed a chunk
\* that was sent to the child (NetStream.Close, "that operation will finish
\* before the close operation takes place").
EndedAfterAll ==
    \A ch \in Children : reader[ch] = "ended" =>
        /\ ~Working(ch)
        /\ \A i \in DOMAIN log : Open(ch, log[i]) =>
              i \in HandledSet(ch) \/ (i = Len(log) /\ ch \in todo)

\* Somebody called Close of a child that one of the first i chunks is for:
\* Dispatch may wait for that child for ever.
Blocked(i) ==
    \E j \in 1..i, ch \in Children : closers[ch] # "idle" /\ Open(ch, log[j])

\* Every chunk reaches the consumer whose gate is open, whoever starts the
\* children, unless it or a chunk before it is for a child that somebody closes:
\* closing one child is no harm to the others before the next chunk for it.
EveryChunkHandled ==
    \A i \in 1..MaxChunks :
        (i \in DOMAIN log) ~>
            /\ i \in DOMAIN log
            /\ \/ \A ch \in Children : Open(ch, log[i]) => i \in HandledSet(ch)
               \/ Blocked(i)

\* A call of Manager.Close returns, however busy Dispatch is, unless there is a
\* chunk for a child that somebody closes.
CloseReturns == (closer = "sending") ~> (closer = "returned" \/ Blocked(Len(log)))

\* "If close is passed, then the loop will terminate" (Manager.Dispatch): no
\* chunk is received after Close has returned.
NothingAfterClose == [][closer = "returned" => UNCHANGED log]_vars
=============================================================================
