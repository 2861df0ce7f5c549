----------------------------- MODULE ChunkParser -----------------------------
(***************************************************************************)
(* The goroutines that carry chunks from a connection to their readers:    *)
(* DefaultReader.Recv, Parser.Recv, the fan-in goroutines of a             *)
(* MultiStream and the callers of Stream, Close and AwaitClose.  All the   *)
(* channels between them are unbuffered, so a send and its receive are one *)
(* step of both goroutines.  What a read of the connection yields is left  *)
(* open here (a complete chunk, part of one, or an error); ChunkReader     *)
(* models it.                                                              *)
(***************************************************************************)
EXTENDS Naturals, Sequences

CONSTANTS
    Single,      \* ids asked for one at a time, Parser.Stream(id)
    Multi,       \* ids asked for together, Parser.Stream(ids...)
    Stray,       \* ids that occur on the connection and nobody asks for
    Closers,     \* goroutines that call Parser.Close
    ErrsRead,    \* does somebody receive from Parser.Errs()?
    ClientOrder, \* are all streams asked for before Recv starts (client.New)?
    MaxChunks    \* bound: chunks completed on the connection

ASSUME IdsAssumption ==
    /\ Single \cap Multi = {}
    /\ (Single \cup Multi) \cap Stray = {}
    /\ \A id \in Multi : Multi # {id}   \* one id alone is not a MultiStream
ASSUME ParamAssumption ==
    /\ ErrsRead \in BOOLEAN
    /\ ClientOrder \in BOOLEAN
    /\ MaxChunks \in Nat

Ids == Single \cup Multi \cup Stray

VARIABLES
    log,      \* history: log[i] is the stream id of the i-th complete chunk
    got,      \* history: got[id] is the places in log handed out by stream id
    rpc,      \* DefaultReader.Recv
    ppc,      \* Parser.Recv
    pcur,     \* the chunk Parser.Recv holds while ppc = "deliver"
    streams,  \* the ids with an entry in Parser.streams
    closedIn, \* the ids whose channel stream.in is closed
    opened,   \* the ids of Single whose caller has its Stream
    multi,    \* the call Parser.Stream(Multi...): not made, open or refused
    fpc,      \* the fan-in goroutine of each id of the MultiStream
    fcur,     \* the chunk that goroutine holds while fpc = "send"
    apc,      \* MultiStream.AwaitClose
    cpc,      \* the callers of Parser.Close
    asked     \* history: the streams that there were when each called it
vars == <<log, got, rpc, ppc, pcur, streams, closedIn, opened, multi, fpc,
          fcur, apc, cpc, asked>>

userVars   == <<opened, multi, apc, asked>>
streamVars == <<streams, closedIn>>
fanVars    == <<fpc, fcur>>

Received(id) == {got[id][k] : k \in DOMAIN got[id]}

\* A send on a closed channel panics, and a panic ends the process.
Panicked == \E c \in Closers : cpc[c] = "panicked"

Init ==
    /\ log = <<>>
    /\ got = [id \in Ids |-> <<>>]
    /\ rpc = "idle"
    /\ ppc = "idle"
    /\ pcur = 0
    /\ streams = {}
    /\ closedIn = {}
    /\ opened = {}
    /\ multi = "none"
    /\ fpc = [id \in Multi |-> "none"]
    /\ fcur = [id \in Multi |-> 0]
    /\ apc = "idle"
    /\ cpc = [c \in Closers |-> "idle"]
    /\ asked = [c \in Closers |-> {}]

-----------------------------------------------------------------------------
(* The callers.                                                            *)

\* Parser.Stream(id): the stream that exists, or a new one.
OpenStream(id) ==
    /\ id \notin opened
    /\ streams' = streams \cup {id}
    /\ opened' = opened \cup {id}
    /\ UNCHANGED <<log, got, rpc, ppc, pcur, closedIn, multi, fanVars, apc, cpc, asked>>

\* Parser.Stream(ids...): refused when one of the streams exists, otherwise
\* all are made and MultiStream.Append starts a goroutine for each.
OpenMulti ==
    /\ Multi # {}
    /\ multi = "none"
    /\ \/ /\ Multi \cap streams # {}
          /\ multi' = "refused"
          /\ UNCHANGED <<streams, fpc>>
       \/ /\ Multi \cap streams = {}
          /\ multi' = "open"
          /\ streams' = streams \cup Multi
          /\ fpc' = [id \in Multi |-> "recv"]
    /\ UNCHANGED <<log, got, rpc, ppc, pcur, closedIn, opened, fcur, apc, cpc, asked>>

\* MultiStream.AwaitClose is called, and blocks in wg.Wait.
AwaitClose ==
    /\ multi = "open"
    /\ apc = "idle"
    /\ apc' = "waiting"
    /\ UNCHANGED <<log, got, rpc, ppc, pcur, streamVars, opened, multi,
                   fanVars, cpc, asked>>

\* wg.Wait returns once every fan-in goroutine is done, and out is closed.
CloseOut ==
    /\ apc = "waiting"
    /\ \A id \in Multi : fpc[id] = "done"
    /\ apc' = "closed"
    /\ UNCHANGED <<log, got, rpc, ppc, pcur, streamVars, opened, multi,
                   fanVars, cpc, asked>>

\* Parser.Close is called: it sends on closer, which Parser.Recv closes when
\* it returns.
Close(c) ==
    /\ cpc[c] = "idle"
    /\ cpc' = [cpc EXCEPT ![c] = IF ppc = "done" THEN "panicked" ELSE "sending"]
    /\ asked' = [asked EXCEPT ![c] = streams]
    /\ UNCHANGED <<log, got, rpc, ppc, pcur, streamVars, opened, multi, apc, fanVars>>

\* wg.Wait in Parser.Close returns.
CloseReturns(c) ==
    /\ cpc[c] = "waiting"
    /\ ppc = "done"
    /\ cpc' = [cpc EXCEPT ![c] = "returned"]
    /\ UNCHANGED <<log, got, rpc, ppc, pcur, streamVars, userVars, fanVars>>

-----------------------------------------------------------------------------
(* DefaultReader.Recv.                                                     *)

\* The closer is not ready: the default branch starts to read.
ReaderPolls ==
    /\ rpc = "select"
    /\ ppc # "closeReader"
    /\ rpc' = "reading"
    /\ UNCHANGED <<log, got, ppc, pcur, streamVars, userVars, fanVars, cpc>>

\* The read completes a chunk of stream id, which is sent on chunks.
ReadChunk(id) ==
    /\ rpc = "reading"
    /\ Len(log) < MaxChunks
    /\ log' = Append(log, id)
    /\ rpc' = "sendChunk"
    /\ UNCHANGED <<got, ppc, pcur, streamVars, userVars, fanVars, cpc>>

\* The read yields a part of a chunk, or a chunk that sets the chunk size.
ReadPart ==
    /\ rpc = "reading"
    /\ rpc' = "select"
    /\ UNCHANGED <<log, got, ppc, pcur, streamVars, userVars, fanVars, cpc>>

\* The read fails, and the error is sent on errs.
ReadError ==
    /\ rpc = "reading"
    /\ rpc' = "sendErr"
    /\ UNCHANGED <<log, got, ppc, pcur, streamVars, userVars, fanVars, cpc>>

\* DefaultReader.Close, called by Parser.Recv, meets the select.
ReaderTakesClose ==
    /\ rpc = "select"
    /\ ppc = "closeReader"
    /\ rpc' = "done"
    /\ ppc' = "cleanup"
    /\ UNCHANGED <<log, got, pcur, streamVars, userVars, fanVars, cpc>>

-----------------------------------------------------------------------------
(* Parser.Recv.                                                            *)

\* client.Handshake starts Recv after client.New has asked for the streams.
StartRecv ==
    /\ ppc = "idle"
    /\ ClientOrder => opened = Single /\ (Multi = {} \/ multi # "none")
    /\ ppc' = "select"
    /\ rpc' = "select"
    /\ UNCHANGED <<log, got, pcur, streamVars, userVars, fanVars, cpc>>

\* A chunk is received and Stream(in.StreamId()) makes its stream if need be.
ParserTakesChunk ==
    /\ ppc = "select"
    /\ rpc = "sendChunk"
    /\ rpc' = "select"
    /\ ppc' = "deliver"
    /\ pcur' = Len(log)
    /\ streams' = streams \cup {log[Len(log)]}
    /\ UNCHANGED <<log, got, closedIn, userVars, fanVars, cpc>>

\* Mutant: Recv gives up on an error.
ParserStopsOnErr ==
    /\ ppc = "select"
    /\ rpc = "sendErr"
    /\ rpc' = "select"
    /\ ppc' = "stopped"
    /\ UNCHANGED <<log, got, pcur, streamVars, userVars, fanVars, cpc>>

\* An error is received, to be passed on to errs.
ParserTakesErr ==
    /\ ppc = "select"
    /\ rpc = "sendErr"
    /\ rpc' = "select"
    /\ ppc' = "sendErr"
    /\ UNCHANGED <<log, got, pcur, streamVars, userVars, fanVars, cpc>>

\* Somebody receives the error from Parser.Errs().
ErrorReceived ==
    /\ ppc = "sendErr"
    /\ ErrsRead
    /\ ppc' = "select"
    /\ UNCHANGED <<log, got, rpc, pcur, streamVars, userVars, fanVars, cpc>>

\* Mutant: a close also interrupts the send of a chunk to its stream.
CloseInterrupts(c) ==
    /\ ppc \in {"select", "deliver"}
    /\ cpc[c] = "sending"
    /\ ppc' = "closeReader"
    /\ cpc' = [cpc EXCEPT ![c] = "waiting"]
    /\ UNCHANGED <<log, got, rpc, pcur, streamVars, userVars, fanVars>>

\* A close is received, and Recv goes on to close the reader.
ParserTakesClose(c) ==
    /\ ppc = "select"
    /\ cpc[c] = "sending"
    /\ ppc' = "closeReader"
    /\ cpc' = [cpc EXCEPT ![c] = "waiting"]
    /\ UNCHANGED <<log, got, rpc, pcur, streamVars, userVars, fanVars>>

\* Mutant: the map of streams is emptied as well.
CleanupEmptiesMap ==
    /\ ppc = "cleanup"
    /\ ppc' = "done"
    /\ closedIn' = streams
    /\ streams' = {}
    /\ cpc' = [c \in Closers |->
                 IF cpc[c] = "sending" THEN "panicked" ELSE cpc[c]]
    /\ UNCHANGED <<log, got, rpc, pcur, userVars, fanVars>>

\* Mutant: only the streams that handed out a chunk are closed.
CleanupSkipsUnused ==
    /\ ppc = "cleanup"
    /\ ppc' = "done"
    /\ closedIn' = {id \in streams : got[id] # <<>>}
    /\ cpc' = [c \in Closers |->
                 IF cpc[c] = "sending" THEN "panicked" ELSE cpc[c]]
    /\ UNCHANGED <<log, got, rpc, pcur, streams, userVars, fanVars>>

\* Mutant: closer is left open, and the parser takes another close.
CleanupLeavesCloser ==
    /\ ppc = "cleanup"
    /\ ppc' = "select"
    /\ closedIn' = streams
    /\ UNCHANGED <<log, got, rpc, pcur, streams, userVars, fanVars, cpc>>

\* errs, closer and the channels of all streams are closed; Recv returns.
Cleanup ==
    /\ ppc = "cleanup"
    /\ ppc' = "done"
    /\ closedIn' = streams
    /\ cpc' = [c \in Closers |->
                 IF cpc[c] = "sending" THEN "panicked" ELSE cpc[c]]
    /\ UNCHANGED <<log, got, rpc, pcur, streams, userVars, fanVars>>

-----------------------------------------------------------------------------
(* From Parser.Recv to the readers of the streams.                         *)

\* The caller of Stream(id) receives from its In().
DeliverSingle(id) ==
    /\ ppc = "deliver"
    /\ log[pcur] = id
    /\ id \in opened
    /\ got' = [got EXCEPT ![id] = Append(@, pcur)]
    /\ ppc' = "select"
    /\ UNCHANGED <<log, rpc, pcur, streamVars, userVars, fanVars, cpc>>

\* Mutant: the fan-in goroutine takes a chunk before the last one is sent.
DeliverOver(id) ==
    /\ ppc = "deliver"
    /\ log[pcur] = id
    /\ fpc[id] \in {"recv", "send"}
    /\ fpc' = [fpc EXCEPT ![id] = "send"]
    /\ fcur' = [fcur EXCEPT ![id] = pcur]
    /\ ppc' = "select"
    /\ UNCHANGED <<log, got, rpc, pcur, streamVars, userVars, cpc>>

\* The fan-in goroutine of id receives from the stream's In().
DeliverMulti(id) ==
    /\ ppc = "deliver"
    /\ log[pcur] = id
    /\ fpc[id] = "recv"
    /\ fpc' = [fpc EXCEPT ![id] = "send"]
    /\ fcur' = [fcur EXCEPT ![id] = pcur]
    /\ ppc' = "select"
    /\ UNCHANGED <<log, got, rpc, pcur, streamVars, userVars, cpc>>

\* Mutant: the fan-in goroutine sends its chunk again.
FanInTwice(id) ==
    /\ fpc[id] = "send"
    /\ got' = [got EXCEPT ![id] = Append(@, fcur[id])]
    /\ UNCHANGED <<log, rpc, ppc, pcur, streamVars, userVars, fanVars, cpc>>

\* The reader of MultiStream.In() receives what that goroutine holds.
FanIn(id) ==
    /\ fpc[id] = "send"
    /\ got' = [got EXCEPT ![id] = Append(@, fcur[id])]
    /\ fpc' = [fpc EXCEPT ![id] = "recv"]
    /\ UNCHANGED <<log, rpc, ppc, pcur, streamVars, userVars, fcur, cpc>>

\* Mutant: the fan-in goroutine gives up its chunk when the stream is closed.
FanInQuits(id) ==
    /\ fpc[id] \in {"recv", "send"}
    /\ id \in closedIn
    /\ fpc' = [fpc EXCEPT ![id] = "done"]
    /\ UNCHANGED <<log, got, rpc, ppc, pcur, streamVars, userVars, fcur, cpc>>

\* Mutant: the fan-in goroutine ends without telling the wait group.
FanInForgetsDone(id) ==
    /\ fpc[id] = "recv"
    /\ id \in closedIn
    /\ fpc' = [fpc EXCEPT ![id] = "none"]
    /\ UNCHANGED <<log, got, rpc, ppc, pcur, streamVars, userVars, fcur, cpc>>

\* The range loop of the fan-in goroutine ends on the closed channel.
FanInDone(id) ==
    /\ fpc[id] = "recv"
    /\ id \in closedIn
    /\ fpc' = [fpc EXCEPT ![id] = "done"]
    /\ UNCHANGED <<log, got, rpc, ppc, pcur, streamVars, userVars, fcur, cpc>>

-----------------------------------------------------------------------------
Reader == ReaderPolls \/ ReaderTakesClose
Peer   == ReadPart \/ ReadError \/ \E id \in Ids : ReadChunk(id)
Parser == StartRecv \/ ParserTakesChunk \/ ParserTakesErr \/ Cleanup
Users  == OpenMulti \/ AwaitClose \/ CloseOut \/ \E id \in Single : OpenStream(id)
Shut   == \E c \in Closers : Close(c) \/ CloseReturns(c) \/ ParserTakesClose(c)
Fan(id) == DeliverMulti(id) \/ FanIn(id) \/ FanInDone(id)

Next ==
    /\ ~Panicked
    /\ \/ Reader \/ Peer \/ Parser \/ Users \/ Shut \/ ErrorReceived
       \/ \E id \in Single : DeliverSingle(id)
       \/ \E id \in Multi : Fan(id)

Spec == Init /\ [][Next]_vars

(***************************************************************************)
(* Every goroutine that can run does run, the readers of the streams keep  *)
(* receiving, and a select that can take a close infinitely often takes    *)
(* it (Go chooses at random among the ready cases).  Nothing is assumed    *)
(* about the peer, about calls of Close or about AwaitClose being called.  *)
(***************************************************************************)
Fairness ==
    /\ WF_vars(~Panicked /\ Reader)
    /\ WF_vars(~Panicked /\ Parser)
    /\ WF_vars(~Panicked /\ ErrorReceived)
    /\ WF_vars(~Panicked /\ CloseOut)
    /\ WF_vars(~Panicked /\ OpenMulti)
    /\ \A id \in Single : WF_vars(~Panicked /\ OpenStream(id))
                          /\ WF_vars(~Panicked /\ DeliverSingle(id))
    /\ \A id \in Multi : WF_vars(~Panicked /\ DeliverMulti(id))
                         /\ WF_vars(~Panicked /\ FanIn(id))
                         /\ WF_vars(~Panicked /\ FanInDone(id))
    /\ \A c \in Closers : SF_vars(~Panicked /\ ParserTakesClose(c))
                          /\ WF_vars(~Panicked /\ CloseReturns(c))

FairSpec == Spec /\ Fairness

\* A connection on which every read ends: the peer keeps sending, or the read
\* fails.
BusySpec == FairSpec /\ WF_vars(~Panicked /\ Peer)

-----------------------------------------------------------------------------
(* Properties.                                                             *)

\* The state of every goroutine is one of its program points, and only
\* channels of streams in the map Parser.streams are ever closed.
TypeOK ==
    /\ log \in Seq(Ids)
    /\ got \in [Ids -> Seq(Nat)]
    /\ rpc \in {"idle", "select", "reading", "sendChunk", "sendErr", "done"}
    /\ ppc \in {"idle", "select", "deliver", "sendErr", "closeReader",
                "cleanup", "done"}
    /\ pcur \in Nat
    /\ streams \in SUBSET Ids
    /\ closedIn \in SUBSET streams
    /\ opened \in SUBSET Single
    /\ multi \in {"none", "open", "refused"}
    /\ fpc \in [Multi -> {"none", "recv", "send", "done"}]
    /\ fcur \in [Multi -> Nat]
    /\ apc \in {"idle", "waiting", "closed"}
    /\ cpc \in [Closers -> {"idle", "sending", "waiting", "returned", "panicked"}]
    /\ asked \in [Closers -> SUBSET Ids]

\* The goroutine that holds the i-th chunk before its reader has it.
ReaderHolds(i) == rpc = "sendChunk" /\ i = Len(log)
ParserHolds(i) == ppc = "deliver" /\ i = pcur
FanHolds(i)    == log[i] \in Multi /\ fpc[log[i]] = "send" /\ fcur[log[i]] = i
Held(i) == ReaderHolds(i) \/ ParserHolds(i) \/ FanHolds(i)

\* Every stream, whether it is read by itself or through a MultiStream, hands
\* out chunks of its own id only, in the order in which the connection
\* completed them, none twice and none left out, however Parser.Recv and the
\* fan-in goroutines interleave (Parser.Recv, MultiStream.Append).
PerStreamFifo ==
    \A id \in Ids : \A k \in DOMAIN got[id] :
        /\ got[id][k] \in DOMAIN log
        /\ log[got[id][k]] = id
        /\ \A j \in 1..(k - 1) : got[id][j] < got[id][k]
        /\ \A i \in 1..(got[id][k] - 1) : log[i] = id => i \in Received(id)

\* At any moment, also while the parser shuts down, a chunk that the reader
\* has completed has been handed out or is held by one of the goroutines on
\* its way (Parser.Recv has no path that lets go of a chunk).
NothingLost == \A i \in DOMAIN log : i \in Received(log[i]) \/ Held(i)

\* Once Parser.Recv has returned, a chunk can only be waiting in a fan-in
\* goroutine, and once MultiStream.AwaitClose has closed out every chunk has
\* been handed out: nothing is sent on out any more (Parser.Close and
\* MultiStream.AwaitClose; a send on the closed out would panic).
CloseLosesNothing ==
    /\ ppc = "done" => \A i \in DOMAIN log : i \in Received(log[i]) \/ FanHolds(i)
    /\ apc = "closed" => /\ \A id \in Multi : fpc[id] = "done"
                         /\ \A i \in DOMAIN log : i \in Received(log[i])

\* When Parser.Close returns, both receive loops have ended and the channel of
\* every stream that there was when it was called is closed, so that ranging over
\* it ends, whoever asked for it and even if no chunk of it ever came; the streams
\* asked for while Close was under way may be left out (Parser.Close, "closes each
\* "child" input channel").
CloseComplete ==
    \A c \in Closers : cpc[c] = "returned" =>
        /\ rpc = "done"
        /\ ppc = "done"
        /\ asked[c] \subseteq closedIn

\* One call of Close succeeds at most: the closer channel it sends on is closed
\* by Recv, and the process is gone when a second call reaches it, before or
\* after (Parser.Close).
OneCloseReturns ==
    \A c, d \in Closers :
        cpc[c] \in {"waiting", "returned"} /\ c # d =>
            cpc[d] \notin {"waiting", "returned"}

\* What StreamDelivery promises is what the goroutines do.
SD == INSTANCE StreamDelivery WITH Ids <- Ids, log <- log, got <- got
Delivery == SD!Spec

\* A chunk up to place i whose stream has no reader: nobody asked for it, or
\* the call that did was refused.
Unread(i) == \E j \in 1..i : log[j] \in Stray \/ (log[j] \in Multi /\ multi = "refused")

\* Every complete chunk of a stream that somebody reads reaches its reader
\* (Parser.Recv), through read errors that somebody receives, unless Close is
\* called.  Nothing else is in its way but a chunk that came before it and has no
\* reader, which Parser.Recv holds for ever.
Delivered ==
    \A i \in 1..MaxChunks :
        (i \in DOMAIN log)
            ~> \/ i \in DOMAIN log /\ (i \in Received(log[i]) \/ Unread(i))
               \/ \E c \in Closers : cpc[c] # "idle"

\* A call of MultiStream.AwaitClose returns once the parser has closed the
\* channels of its streams; those asked for after Parser.Recv has returned are
\* never closed.
AwaitReturns ==
    (apc = "waiting" /\ Multi \subseteq closedIn) ~> (apc = "closed" \/ Panicked)

\* A call of Parser.Close halts the two loops and returns (Reader.Close,
\* "Close causes the Recv goroutine to return").
CloseHalts == \A c \in Closers : (cpc[c] = "sending") ~> (cpc[c] = "returned")
=============================================================================
