# A TLA+ model of rtmp

This directory models the concurrent core of the `rtmp` library, an RTMP server
written in Go: how bytes of a connection become chunks, how chunks travel
through goroutines and unbuffered channels to their readers, how the readers are
shut down, how a connection gets there through the listener and the handshake, and
how replies become bytes again. TLC checks the modules on small instances; TLAPS
proves the safety properties of the chunk parser, the chunk reader, the chunk writer,
the command manager, the handshake, the server and the whole client, and that the
header codec round-trips, for all instances. `PROJECT.json` lists the runs, the source lines
behind every definition, the hazards and the findings.

## The system

A `Server` accepts connections and hands out a `Client` for each. `client.New`
builds the parts of a client and connects them; `Client.Handshake` runs the
handshake and then starts `chunk.Parser.Recv`.

```
 conn -> DefaultReader.Recv -> Parser.Recv -> Stream(2) ---------> control.Stream
         (builders, sizes,     (one channel   Stream(3,4,5,8)
          normalizer)           per stream)     = MultiStream ---> cmd.Manager.Dispatch
                                                (fan-in             -> NetConn.Listen
                                                 goroutines)        -> NetStream.Listen
                                                                    -> data.Stream.Recv
 conn <- DefaultWriter  <------------------------------------------- replies
```

| Part | State | Operations | Correct when |
|---|---|---|---|
| Reader (`chunk/default_reader.go`, `builder.go`) | builders per chunk stream, chunk size, three channels | `Recv`, `Close`, `updateChunkSize` | chunks are whole messages, in order; it stays in step with the peer; errors are reported |
| Normalizer (`chunk/default_normalizer.go`) | last header, headers per chunk stream | `Normalize` | every delivered header is complete |
| Headers (`chunk/*_header.go`, `header.go`) | none | `Read`, `Write` | `Read` takes what `Write` produced |
| Parser (`chunk/parser.go`) | map of streams, `errs`, `closer` | `Stream`, `Recv`, `Errs`, `Close` | each stream gets its chunks, in order, once; `Close` ends everything and loses nothing |
| MultiStream (`chunk/multi_stream.go`) | a fan-in goroutine per stream, `out`, a wait group | `Append`, `In`, `AwaitClose` | nothing is sent on a closed `out`; nothing is lost |
| Writer (`chunk/default_writer.go`) | write size | `Write`, `SetWriteSize` | a peer stays in step with the bytes of concurrent senders and gets every message whole |
| Manager (`cmd/manager.go`), gates (`cmd/gate.go`) | three gated channels, `closer` | `Dispatch`, `Close` | a chunk reaches the one child it belongs to |
| NetConn, NetStream, data stream | `in`, `errs`, `closer` | `Listen`/`Recv`, `Close`, `Send` | every chunk is parsed and its outcome received |
| Control stream (`control/`) | channels, chunker | `Recv`, `Send`, `Close` | as for the others |
| Handshake (`handshake/`) | current sequence | `Handshake` | starts the parser for a verified peer, at the right byte |
| Client (`client/client.go`) | the parts | `New`, `Handshake` | every chunk reaches the one consumer it is for |
| Server (`server/server.go`) | a listener, `clients`, `errs` | `Accept`, `Close` | every connection is handed out once, errors or not |

What is hard in it: every channel is unbuffered, so a goroutine holds what it
has received until somebody takes it, and a shutdown meets goroutines that hold
chunks or wait for each other; the meaning of bytes depends on what other chunk
streams did before (the header formats, the chunk size); the peer decides on the
interleaving of messages and may go away between any two bytes.

## Modules

| Module | Stands for |
|---|---|
| `StreamDelivery` | the abstract promise: every stream hands out exactly its own chunks, each once, in the order of the connection |
| `ChunkParser` | `Parser`, `MultiStream`, the channels of `DefaultReader`, their callers |
| `ChunkParserProofs` | theorems about `ChunkParser`, among them that it implements `StreamDelivery` |
| `ChunkReader` | `DefaultReader.Recv`, `Builder`, `DefaultNormalizer`, the header formats, against a peer that sends interleaved messages |
| `ChunkReaderProofs` | theorems about `ChunkReader`: it stays in step and delivers the messages that were sent |
| `CmdManager` | `Manager.Dispatch`, the gates, the loops of the three children with their parsers, and their callers |
| `CmdManagerProofs` | theorems about `CmdManager`: order, no loss, one child per chunk |
| `ControlStream` | `control.Stream.Recv`, its parser and `Close` |
| `Client` | a whole client as `client.New` connects it: `ChunkParser`, `CmdManager` and `ControlStream`, composed |
| `ClientProofs` | theorems about `Client`: a chunk is held by exactly one goroutine, and the client implements `StreamDelivery` end to end |
| `Handshake` | `Handshaker`, the three sequences, the start of the parser, against an RTMP client |
| `HandshakeProofs` | theorems about `Handshake`: only verified peers, an exact handover, correct answers |
| `Server` | `Server.Accept` and `Close`, between a listener and a consumer |
| `ServerProofs` | the theorem that every connection is handed out once, in order |
| `ChunkCodec` | chunk headers as bytes: the helpers of `spec`, `BasicHeader`, `MessageHeader`, `ExtendedTimestamp`, `Header`, as operators |
| `ChunkCodecProofs` | the theorem that reading a header inverts writing it |
| `ChunkWriter` | `DefaultWriter` and everybody who writes through it, against a peer that reads the bytes |
| `ChunkWriterProofs` | theorems about `ChunkWriter`: the peer keeps its place and gets every message whole |
| `MC...` | the constants of each module for TLC |

Definitions marked *Mutant* in a comment are wrong variants of the definition
that follows: each property is shown to fail when its variant takes the place of
the original. No specification uses them.

### ChunkParser

A goroutine is a program counter with one value per point at which it can block:
`rpc` for `DefaultReader.Recv`, `ppc` for `Parser.Recv`, `fpc[id]` for the fan-in
goroutine of a stream, `cpc[c]` for a caller of `Parser.Close`, `apc` for
`AwaitClose`. A send on an unbuffered channel and its receive are one step, which
moves both counters. A chunk is its place in `log`, the order in which the reader
completed the chunks; `got[id]` is what the readers of stream `id` received. A
read of the connection yields a chunk of any stream, part of one, or an error.
Sending on the closed `closer` panics, which ends the process: `Next` is disabled
once `Panicked`. Parameters say who asks for which stream and when (`Single`,
`Multi`, `Stray`, `ClientOrder`), whether anybody receives errors (`ErrsRead`) and
who calls `Close` (`Closers`). A reader that asked for a stream keeps receiving.

### ChunkReader

The wire is a sequence of tokens: a header, an extended timestamp, a payload
byte. Chunk stream ids are those that a basic header of one byte can hold. A header carries the fields of its format and 0 for the rest, as `Read`
leaves them; `FillPartial` and `FillEmpty` are the two halves of `Normalize`.
Payload bytes are identified by message and offset, so that mixing, losing or
repeating a byte is visible. The connection can be cut anywhere. A payload is
modelled as read at once, since `Builder.Read` waits for all its bytes and stores
none of them if they do not all come.

The peer leaves header fields out as RTMP allows it (`Fits`): it may when the last
message of the *same* chunk stream has them too. The normalizer takes them, for
formats 1 and 2, from the last header of *any* chunk stream
(`chunk/default_normalizer.go:87`). The history `sure` of a message says whether that
gives the same message stream id, and so tells the headers that the normalizer
completes rightly from those it does not. Format 2 is in no run: the missing
length would be that of another stream's message as well, and the type is never filled in.
Extended timestamps on messages of several chunks are only in the run about them. A
reader that is out of step is not followed any further: `InStep` reports it.

### CmdManager

`TakeChunk` is one pass of `Dispatch` up to its first send, `SendTo` a send to one
of the channels whose gate is open, in any order, as Go ranges over a map. The
three loops share `Loop`; `InClosed` exists for the two whose deferred function
closes the channel. A chunk is a record of the three fields that gates look at, of
the name of the command in it, and of whether its body unmarshals (`ok`), which is
up to the AMF0 library. The parsers turn it into a value or an error, and both wait
for a receiver. The code after the loop of `Dispatch` is unreachable and is no
action. `Dispatch` starts the children itself or leaves that to others
(`manageChildren`).

### ControlStream and Client

`ControlStream` is the fourth loop of this kind; it has no next-state relation of
its own, since its input is a step of the parser. `Client` composes the parts by
instantiating their modules: a step of `Client` is a step of one part, or of two
where a channel connects them. `ToControl` is the parser's send on stream 2 and the
receive of `control.Stream.Recv`; `ToManager(id)` the send of a fan-in goroutine and
the receive of `Dispatch`. The histories fit together: the `log` of `ChunkParser` is
the chunk stream ids of `kinds`, and the `log` of `CmdManager` the chunks that
`Dispatch` has taken. Nobody closes the parser or receives its errors, because
`Client` has no method for either. The control stream can be closed at any time;
closing the manager and its children is explored in `CmdManager`.

### Handshake

The connection is two queues of fields; every `Read` and `WriteTo` is taken field
by field, so that loss of the connection and the peer's sends fall between any
two. The payload of 1528 bytes is one value, compared as a whole. The peer sends
C0, C1 and C2 either as soon as the protocol lets it (`eager`) or after it has
everything that the server can have sent, possibly with a wrong version or
challenge, and goes on with chunk bytes at once.

### Server

Connections are numbered in the order of arrival. `Accept` of the listener may fail
at any time and always fails once the listener is closed; a close drops the
connections that were not accepted. The consumer selects over `Clients()` and
`Errs()`, as in the repository's README.

### ChunkCodec and ChunkWriter

`ChunkCodec` translates the codec byte by byte, with the arithmetic of the code:
integers are cut to 16, 24 and 32 bits, the ids 0 and 63 are marks in the first
byte, the message stream id is little endian. What follows the basic header
(`HeaderEnd`, `EndsEarly`, `FieldsOf`) is given the length and the id found there: by
`BasicLen` and `BasicId` for this library's `Read`, by `RtmpLen` and `RtmpId` for a peer
that follows RTMP, where the three-byte form has the mark 1 and the low byte first.
`ChunkWriter` uses it on a connection whose header bytes are 0 to 255 and whose
payload bytes are integers beyond, each of one message and offset: what a peer out
of step reads is visible.

A call of `control.Stream.Send`, `NetConn.Send`, `NetStream.WriteStatus`,
`data.Stream.Write` or of `Writer.Write` itself is a `Job`: the header of the chunk
that the call makes (`ControlChunk`, `ConnChunk`, `StatusChunk`, `FrameChunk`,
`RelayedChunk`, `RawChunk`), the length of its `Data`, which is what `Write` copies
and which nothing holds to the header's `Length`, and whether its payload shares
memory with others. `CopyPart` is one turn of the loop of `Write`, which reads the
write size under its lock; `SetWriteSize` may come between any two turns; `Flush` is
the `io.Copy`, one `Write` of the connection because `bytes.Buffer` has a `WriteTo`.
`FlushFails` leaves part of the bytes, or none. The shared array of
`OnStatusCommandHeader` is a race: `bodies[m]` is the set of messages any of whose
bytes may be found in the payload of `m`.

The peer is an RTMP client and not this library: format 3 repeats an extended
timestamp, the chunk size changes when a Set Chunk Size message is complete. It is
`lost` when it finds payload where a header is to be, header bytes where payload is
to be, or a chunk it cannot place. Three histories say what it is up against:
`written` the messages on the connection, `sizes` the chunk size that RTMP has for
each, `pieces` how `Write` cut them. Nothing keeps callers from writing what such a
peer cannot read. `CleanUpTo(n)` says that the first n messages are not of that kind.

## Runs

| Run | Shows |
|---|---|
| `parser` | order per stream, no loss, also during shutdown, a complete `Close`, of two at most one that succeeds, and the refinement of `StreamDelivery`, when streams are asked for at any time (the `MultiStream` may be refused) and one of them by nobody; every chunk reaches its reader, through read errors, unless `Close` is called or a chunk before it has no reader; `AwaitClose` returns after the parser is closed |
| `parser_close_hangs` | *violation*: `Close` waits for ever when the reader is in a send |
| `reader` | messages come out whole, in order, with their type and length, and with their message stream id where the header or the last one on any chunk stream tells it; builders and chunk sizes agree with the peer; the reader waits only when all that was sent whole is delivered; loss of the connection is reported |
| `reader_format1` | *violation*: a message with a format 1 header gets the message stream id of a message on another chunk stream |
| `reader_extended` | *violation*: the extended timestamp of a type 3 chunk is taken for payload |
| `manager` | a chunk that a gate is open for goes to one child, in order, and is not skipped, and the others go to none, with children started and closed at any time; every chunk is handled and `Manager.Close` returns, unless a chunk is for a child that somebody closes |
| `manager_close` | *violation*: `Dispatch` goes on after `Close` has returned |
| `handshake` | the parser starts only after a verified handshake and at the first chunk byte; the peer gets correct answers; loss is noticed; neither an eager nor a patient peer and the server wait for each other |
| `server` | every connection is waiting, at hand or handed out, once and in order; each is handed out in the end, errors in between or not, unless the server is closed |
| `client` | a chunk is held by exactly one goroutine of the client until its consumer has it; per consumer and chunk stream, chunks come once and in order (refinement of `StreamDelivery`, end to end); all of them come unless hindered |
| `writer` | two goroutines, the write size changed at any moment and a failing connection: up to the first message that `Write` cannot express or has not cut to the peer's chunk size, the peer stays in step and gets messages in the order of their writes and whole; a call that returns nil has its message read |
| `writer_relay` | *violation*: a frame that came with a format 3 header and is written to another client cannot be read by it |

Each violation contradicts a comment of the code, quoted under `findings`.

### What the conditions in the properties say

Where a property holds only under a condition, the condition is as narrow as TLC
lets it be, and says something about the code:

* `Delivered`: a chunk of a stream that nobody asked for (`Unread`) makes
  `Parser.Recv` wait for ever, and the chunks of all other streams with it, although
  `chunk/parser.go:10-11` has "each chunk that is sent over _any_ chunk stream" sent
  down its stream. `client.New` asks for 2, 3, 4, 5 and 8 only.
* `CloseComplete`: the streams that were asked for before `Close` was called are
  closed when it returns, whatever else is asked for meanwhile. One asked for
  later may be missed by the loop that closes them.
* `AwaitReturns`: streams asked for after `Recv` has returned are never closed.
* `OneChild`: a chunk goes to no child exactly if every gate is shut for it. Such
  chunks are those of stream 5, although `cmd/manager.go:10-12` speaks of streams 3, 4
  and 5; of stream 8 those of a message stream other than 0 and 1, and of message
  stream 1 all but commands; of stream 4 all types but those of frames and commands.
  `Dispatch` drops them without a word.
* `HeadersFilled`: the message stream id of a format 1 header is right where the last
  header on any chunk stream had the same one (`sure`). `HeadersComplete` has no such
  condition and is violated.
* `EveryChunkHandled`, `CloseReturns`: once a child is closed, the next chunk for it
  stops `Dispatch` (`Blocked`).
* `AllConsumed`: after a read error nothing more comes (`Hindered`): the error waits
  in `Parser.Recv` for a receiver that a `Client` cannot have.
* `EndToEnd`: no order between a command and a frame of chunk stream 4, which go to
  different children. `chunk/multi_stream.go` calls the channel of a `MultiStream`
  "in-order"; between chunks of different streams it is not either.
* `PeerInStep`, `Intact`, `WrittenRead`: all is well up to the first message that is not
  clean. `Write` cannot express (`Expressible`) the ids 0 and 1, and those of 320 and more,
  which this code marks with 63 and RTMP with 1, against "RTMP-compliant" at
  `chunk/basic_header.go:54`; a header that needs an earlier one to complete it, or
  whose `Length` is not that of `Data`; and messages cut in several chunks on ids of 64
  and more, whose later headers are one byte with the low six bits of the id, or with
  an extended timestamp, which the later headers do not repeat. A message is not
  well cut (`WellCut`) when its pieces are not those of the chunk size which the peer
  has by then: a client cuts at 4096 bytes (`client/client.go:30`) while RTMP starts
  with 128, so that a longer message before any Set Chunk Size is lost on the peer,
  and so is one that is under way when `SetWriteSize` is called, or between the
  announcement of a size and that call. Nothing in the code sees to that order.
* `Intact` says nothing of the bytes of a status that another status was made beside
  (`cmd/stream/status.go:63`), even for another client: they may be mixed
  when the AMF0 library leaves room behind the marshalled header, although
  `WriteStatus` returns nil.

No property speaks of `Server.Accept` after a close: the loop never returns but sends
the errors of the closed listener for ever, where `server/server.go:47-48` has `Close`
terminate "the process of accepting new connections".

### Bounds

* Parser: one single and two fan-in streams, a stream nobody reads, two callers of
  `Close` and up to 3 chunks. Two fan-in goroutines show every way of two goroutines
  overtaking each other, and three chunks fill the reader, the parser and a
  goroutine, or both goroutines and the parser, at the same time. The theorems remove these bounds.
* Reader: two chunk streams and two message streams, formats 0, 1 and 3, 3 messages of
  0 or 3 bytes, chunk sizes 1 and 2
  (real ones start at 128), a Set Chunk Size message of 2 bytes (really 4), 5
  tokens on the wire. Messages take one, two or three chunks, the last one full or
  not; a size change falls between two chunks of another message and inside its
  own message. `MaxWire` only bounds how far the peer is ahead.
* Manager: 3 chunks of five kinds: one for each child, those for the two command
  children differing in the message stream only and the frame one that does not
  parse, and two for no child, on streams that have gates: a command of message stream 2 and a
  frame type that no gate has; 2 chunks for the violation. Three chunks put one in
  each of two children and one in `Dispatch`.
* Client: 2 chunks of six kinds, two fan-in streams. Two chunks can overtake each
  other on every pair of paths; the parts are checked with more.
* Server: 6 connections; `Accept` holds one at a time, so that all its cases
  happen with two.
* Writer: two callers, 3 messages, chunk sizes 4 (for 128) and 6 (for 4096, and the one
  announced), messages of 1 to 7 bytes, which one size cuts and the other does not
  or both cut differently; ids 63 and 68 at the edges of the one- and two-byte forms,
  with an extended timestamp and with a separator that fails it. An id of 320 and a
  header that does not tell the length of `Data` are in `writer_relay` only. A failing write
  stops after 14 bytes or before the first: behind the header, in the payload.
  `MayBegin` lets only the first idle caller begin, since callers are alike.
* Handshake: two challenges and two versions, so that a wrong one exists; 2 chunk
  bytes.

`CHECK_DEADLOCK FALSE` is set where the system may stop: after a close, a panic or
the loss of the connection, or when the bound on chunks is reached.

### Fairness

Goroutines that can run do run: weak fairness of each loop. A `select` with
several ready cases chooses at random, so a case that is ready again and again is
chosen: strong fairness of taking a close. Senders on one channel wait in the order
of their arrival: strong fairness of `ToManager(id)` in `Client`, where several fan-in
goroutines send to `Dispatch`. Errors of an open listener are temporary: strong
fairness of `AcceptConn`. The consumers of streams, results and
errors keep receiving (parameter `ErrsRead` for the errors of the parser): the
README's examples range over these channels, and without a consumer the unbuffered
channels stop by design. No fairness is assumed of the peer or of calls of `Close`
or `AwaitClose`, except in `BusySpec`, where every read ends; it is used for the
violation `CloseHalts`, which is thus no matter of a silent peer.

## Proofs

### The chunk parser

`ChunkParserProofs` proves, for any sets of ids, callers and any bound on chunks
(from `IdsAssumption`: the kinds of id are disjoint and a `MultiStream` has more
than one; and `ParamAssumption`):

| Theorem | States |
|---|---|
| `TypeCorrect` | `TypeOK` |
| `Fifo` | `PerStreamFifo`: a stream hands out its own chunks in order, with no gap and no repetition |
| `Lossless` | `NothingLost`: a chunk is handed out or held |
| `OrderlyClose` | `CloseLosesNothing`: shutdown leaves chunks in fan-in goroutines only, and none when `out` is closed |
| `CompleteClose` | `CloseComplete`: after `Close`, both loops have ended and every stream that there was when it was called is closed |
| `SingleClose` | `OneCloseReturns` |
| `Implements` | `Spec => Delivery`: refinement of `StreamDelivery` |

None of the properties is inductive. Order follows from where the chunks are, so
the invariant `IInv` is about places: the chunks that a stream has handed out, the
one its fan-in goroutine holds, the one the parser holds and the one the reader
holds are places of `log` in strictly increasing order (`GotChain`, `FanChain`,
`ParserChain`, `Increasing`), and every place of `log` is one of these
(`NothingLost`). `Phases` adds which goroutines can still be running, without
which an `AwaitClose` could be thought to overtake a send. `OthersQuiet` shows that
five actions move a chunk and all others leave the chain alone; each of the five
has a lemma. `CloseInv` adds who has been told about a close (`Told`) and that the streams
there were when `Close` was called are still in the map or closed (`Asked`). For the refinement, the step that completes a chunk is
`Complete`, the receive of a reader is `HandOut`, and all other steps stutter;
that the handed-out chunk is the oldest one is where `IInv` is needed.

### The header codec

`ChunkCodecProofs` proves `HeaderRoundTrip`: for every header that the bytes can
express (`Representable`: equal format ids, an id below 65600 other than 0 and 63,
timestamp and length of 24 bits, no extended timestamp in format 3) and any bytes
behind it, `HeaderRead` of `HeaderWrite` gives the header with the fields that its
format carries, ends exactly behind it and finds it complete. It is what lets
`ChunkReader` treat headers of well-formed chunks as units. The
argument is about places: `At(s, b, n)` says that `s` is in `b` after the first `n`
bytes; `Places` and `PartOfPart` say where the parts of a concatenation are; `Split16`,
`Split24` and `Split32` that the bytes of an integer that fits make it up again;
`Reads` puts these together for one integer, `BasicReads` (three forms) and
`MessageReads` (four formats) for the parts of a header. `FieldsRead` is about all that
follows the basic header and does not depend on how that one is read, so that the proofs
about `ChunkWriter` use it for a peer that reads ids as RTMP does. There is no induction: a
header has at most 18 bytes.

### The chunk reader

`ChunkReaderProofs` proves, for any chunk streams of one-byte headers, messages,
chunk sizes and any interleaving (from `ReaderAssumption`):

| Theorem | States |
|---|---|
| `TypeCorrect` | `TypeOK` |
| `StaysInStep` | `InStep`: `Recv` finds headers where it looks for headers, payload where it looks for payload |
| `ReassemblesAll` | `Reassembled`: the chunks of a chunk stream are its messages, in order, whole, none left out |
| `FillsHeaders` | `HeadersFilled`: every chunk has the type and length of its message, and its message stream where the last header on any chunk stream has the right one |
| `BuildersAgree` | `BuildersMatch`: a builder holds the first bytes of one message, the rest is on the wire or with the peer |
| `DeliversEvery` | `EveryMessage`: a reader that waits has delivered every message that was sent whole |

All assume `~ExtLong`, that extended timestamps come on messages of one chunk only, and
`2 \notin Formats`. The run `reader_extended` shows that `InStep` is false without the
first. With format 2 the type is missing and the length is that of the last message on
any chunk stream, which puts the reader out of step when that is another one. Formats 1
and 3 interleave freely; the peer is held to RTMP's rule and to no other, and
`reader_format1` shows what `HeadersFilled` leaves out.

What the bytes on the wire mean depends on everything before them, so that no
property is inductive. `IInv` says that the wire is a row of chunks with states of
a reader between them: `q[1..n]` at the places `pos` of the wire and
`st[1..n + 1]` such that each chunk leads from the state before it to the one after
it (`Leads`: it begins the next message of its chunk stream or resumes the one under
way, and changes the chunk size if it completes a Set Chunk Size message), `Recv` is
in `st[1]` and the peer in `st[n + 1]` (`ReaderAt`, `PeerAt`). The peer's steps add
a chunk to the row, those of `Recv` take the first one off. A cut of the connection
leaves a row whose last chunks are not all on the wire; once `Recv` has read what is
left (`~Live`) there is no row any more. A second part maps the chunks received to
messages.

`EveryMessage` is about a reader that can take no step, which `Waits` spells out in
terms of the wire, since `ENABLED` is beyond the prover. Such a reader has an empty row
(`WaitsAtEnd`), so that it is where the peer is and has read what the peer has sent
(`WaitsForNone`); the map from chunks to messages is then a bijection onto the messages
that were sent whole, which makes the two counts equal (`EveryFollows`).

### The chunk writer

`ChunkWriterProofs`, for any number of callers, any messages, any chunk sizes, any
places where a write can fail and any interleaving:

| Theorem | States |
|---|---|
| `TypeCorrect` | `TypeOK` |
| `StaysInStep` | `PeerInStep`: the peer never loses its place, unless a message was written that is not clean |
| `ArrivesIntact` | `Intact`: up to such a message, the peer reads the messages in the order of their writes, each with its header, its length and, if it shared no memory, its payload |

They rest on `WriterAssumption`: headers are as the code can hold them (`IsHeader`), a
message has a size exactly if it is Set Chunk Size, and such a message is not empty and
shares no memory (`control/default_chunker.go` puts it into a new buffer for each
call). When callers write, what they write and when they call `SetWriteSize` is free.

The properties are not inductive, because they say of bytes that were read what they
should be, and nothing of the bytes that are still to come. `IInv` follows a message
from its call to the peer, in three parts:

* `Callings`. Every caller has a message of its own (`Calls`), and its buffer is that
  message as far as it is copied (`Made`), *for every chunk size that all its pieces
  suit* (`Buffers`): which one the peer will have when it gets there is not known yet. A
  buffer is described by the places of its chunks (`P`: for each payload offset at
  which a chunk begins, the bytes before it), not by a recursion over it. `Ended` says
  that nothing is copied of a message that is on the wire, so that what is clean stays
  clean; `Sized` how `sizes` goes on.
* `Wired`. There are bytes `E[i]` for every written message, which are its chunks for the
  size `sizes[i]` if it is clean (`BytesAre`); the wire is what is left of them after
  the `base` that were read (`WireIs`); and the peer has the size `sizes[i]` of the next
  message, is at the beginning of one of its chunks and has the payload before it
  (`PeerIs`). A failed write leaves a last message whose end is not on the wire, and
  nothing is written behind it. All this holds as long as the messages read and the
  next one are clean (`Ahead`): nothing is known of a peer that has met another.
* `Arrived`. What was read is what was written.

`ChunkSeen` is the heart of the reading side: at the beginning of a chunk that is all
on the wire, the peer finds its header, by `FieldsRead` or as the separator of a
later chunk, and its payload.
`TypeOK` bounds what the peer has read only while every message is clean: a
peer that misreads one can count any number of messages after it.

### The command manager

`CmdManagerProofs`, for any kinds of chunks, any children that may be closed and any
number of chunks (from `ManagerAssumption`):

| Theorem | States |
|---|---|
| `TypeCorrect` | `TypeOK` |
| `NoneIsSkipped` | `NoneSkipped`: a chunk whose gate is open is handled, worked on, or about to be sent |
| `RoutesInOrder` | `RoutedInOrder`: a child handles the chunks of its gate in order, each once |
| `EndsAfterAll` | `EndedAfterAll`: who finds `In()` closed has missed nothing |
| `OneChildGetsIt` | `OneChild`: a chunk goes to one child if a gate opens for it, else to none, whatever arrives |

The invariant `Chain` orders what a child has handled, what it works on and what
`Dispatch` is about to send it (`RoutedInOrder`, `WorkChain`, `TodoChain`), adds
`NoneSkipped`, and `EndedDone`: a consumer ends only after its child has. That the
gates exclude each other (`GatesExclusive`) is a fact about the gates alone.
Together they give the children that a chunk has gone to (`ReceiversOpen`): those whose
gate is open, for any chunk at all.

### The handshake

`HandshakeProofs`, for any challenges, versions and number of chunk bytes (from
`HandshakeAssumption`): `TypeCorrect`, `VerifiedPeer` (`OnlyVerified`),
`HandsOverExactly` (`ExactHandover`) and `AnswersPeer` (`PeerSatisfied`). `IInv` follows
every field: what the handshake took, what the parser read and what is under way
are, place by place, what the peer sent (`Flow`, `Lossless`), which is laid out by
its stage (`Layout`); each sequence has taken as many fields as its turn says and
what its `Read` accepted was right (`Progress`); and what the peer got, what is under
way to it and what the `WriteTo` has left are S0, S1 and S2 in this order (`Answer`).

### The server

`ServerProofs` proves `EachIsServedOnce` (`EachOnce`) for any number of connections (from
`ConnsAssumption`). `EachOnce` is about the concatenation of three sequences; the
invariant `Places` says of each of them which numbers it holds.

### The client

`ClientProofs` proves `HeldByOne` (`OneHolder`) for the composition, for any chunks and
streams (from `ClientAssumption`): from its last byte to its consumer a chunk is held
by exactly one goroutine of the client, and by none when the user has its outcome or
no gate opens for it. `OneHolder` counts; `IInv` says where the chunks are. `Flow`: the
reader, the parser, the fan-in goroutines, the manager and the control stream share
the chunks out. They are exclusive because what is past the parser is below what the
parser holds and that below what the reader holds (`Before`), and because of the chunk
stream ids (`FanIds`, `TakenIds`, `ControlIds`); `Somewhere` says that none is missing.
`Routes` says the same of what the manager has taken: handled by the child whose gate
is open, worked on by it, or with `Dispatch` (`Sending`, `Parsing`, `Handled`,
`Unskipped`). The invariants of `ChunkParser` and `CmdManager` are not cited, because the
composition has steps of two parts at once.

It also proves `DeliversEndToEnd` (`EndToEnd`): `Spec` implements `StreamDelivery`, with the
consumers' chunks of each chunk stream as its streams. A chunk that is complete is
`Complete`, the receive of an outcome is `HandOut` of the oldest chunk of its consumer
and chunk stream, and all other steps stutter. `IInv` says where every older chunk
is; that those of the same chunk stream cannot be behind takes one more invariant,
`InLine`: what `Dispatch` has taken of a chunk stream is in order, and its fan-in goroutine
holds a later one. The mapping selects the chunks of one chunk stream among those a
consumer has received. `Picked` does this by counting places, since the recursion of
`SelectSeq` is beyond the prover; `RankFacts` to `ChosenElements` are what follows for a
sequence that gets one more element.

### Only model-checked

* All liveness properties: fairness is beyond the prover. `WrittenRead`, that a call
  of `Write` that returns nil has its message read in the end, is one of them.
* The violations, which are counterexamples.

## Not modelled

* AMF0 encoding of commands, statuses and data: reflection in a library outside this
  repository. Whether a body unmarshals is a property of the chunk.
* The fields of control sequences and the accessors of audio and video frames
  (`cmd/data/audio.go`, `video.go`): plain values that nothing in the repository acts
  on. Worth knowing: `Audio.Rate` and `Audio.Size` compute `2^x`, which is exclusive or
  in Go.
* A parser that is closed under `control.Stream.Recv` or `Manager.Dispatch`: the loops
  then receive nil chunks from the closed channel and dereference them. No `Client`
  can get there, since its parser cannot be closed.
* An Abort Message: it is offered on `In()` like the others, and the reader keeps the
  part of the message that it aborts.
* Peers that break the protocol: a Set Chunk Size message of fewer than four bytes or
  of size 0. Write sizes of 0 or less, with which `Write` never returns.
* Deadlines: the code sets none.
* Tests, and `rtmp.go`, which only wraps `server.New`.

## Plan

1. Done: `StreamDelivery`, `ChunkParser`, `ChunkReader`, `CmdManager`, `Handshake`,
   and the proofs about `ChunkParser`.
2. Done: `ChunkCodec` and its proof, `ChunkWriter`, `ControlStream`, `Client`, `Server`.
3. Done: the proofs about `CmdManager`, `Server`, `Handshake`, `ChunkReader` and `Client`.
4. Done: the proofs about `ChunkWriter`, `EveryMessage` of `ChunkReader` and `EndToEnd`
   of `Client`. What is left are the liveness properties, which stay with TLC.
