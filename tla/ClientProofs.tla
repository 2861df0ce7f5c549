---------------------------- MODULE ClientProofs ----------------------------
(***************************************************************************)
(* Proofs about Client, for any chunks, any streams of the MultiStream and *)
(* any number of chunks: a chunk is always held by exactly one goroutine,  *)
(* and every consumer gets its chunks of a chunk stream once and in order. *)
(***************************************************************************)
EXTENDS Client, FiniteSetTheorems, TLAPS

-----------------------------------------------------------------------------
(***************************************************************************)
(* The inductive invariant.  Behind the parser a chunk is in a fan-in      *)
(* goroutine, with the manager or with the control stream; the places of   *)
(* the chunks there are below the one that the parser holds, which is      *)
(* below the one that the reader holds.  So no chunk is in two places, and *)
(* Somewhere says that each is in one.                                     *)
(***************************************************************************)
N == Len(kinds)
InReader(i)  == rpc = "sendChunk" /\ i = N
InParser(i)  == ppc = "deliver" /\ i = pcur
InFan(i)     == \E id \in NetIds : fpc[id] = "send" /\ fcur[id] = i
InManager(i) == \E n \in 1..Len(taken) : taken[n] = i
Offering     == spc \in {"sendIn", "sendErr"}
InControl(i) == \/ Offering /\ scur = i
                \/ \E n \in 1..Len(controls) : controls[n] = i
Past(i)      == InFan(i) \/ InManager(i) \/ InControl(i)

FlowTypes ==
    /\ kinds \in Seq(Kinds)
    /\ pcur \in Nat
    /\ fpc \in [NetIds -> {"recv", "send"}]
    /\ fcur \in [NetIds -> Nat]
    /\ taken \in Seq(Nat)
    /\ scur \in Nat
    /\ controls \in Seq(Nat)

Before ==
    /\ ppc = "idle" => rpc = "idle"
    /\ rpc = "sendChunk" => N # 0
    /\ ppc = "deliver" => pcur \in 1..N /\ (rpc = "sendChunk" => pcur < N)
    /\ \A i \in Nat : Past(i) =>
          /\ i \in 1..N
          /\ rpc = "sendChunk" => i < N
          /\ ppc = "deliver" => i < pcur
FanIds ==
    \A id \in NetIds : fpc[id] = "send" =>
        kinds[fcur[id]].csid = id /\ ~InManager(fcur[id])
TakenIds ==
    /\ \A n \in 1..Len(taken) : kinds[taken[n]].csid \in NetIds
    /\ \A m, n \in 1..Len(taken) : taken[m] = taken[n] => m = n
ControlIds ==
    /\ \A i \in Nat : InControl(i) => kinds[i].csid = ControlId
    /\ Offering => \A n \in 1..Len(controls) : controls[n] # scur
Somewhere == \A i \in 1..N : InReader(i) \/ InParser(i) \/ Past(i)

Flow == FlowTypes /\ Before /\ FanIds /\ TakenIds /\ ControlIds /\ Somewhere

\* What the manager has taken, by its place in taken: handled by a child, being
\* worked on by it, or about to be sent to it, and only one of these.
Busy(ch)  == cpc[ch] \in {"sendIn", "sendErr"}
Done(ch)  == {handled[ch][n] : n \in 1..Len(handled[ch])}
Kind(n)   == kinds[taken[n]]

RouteTypes ==
    /\ todo \subseteq Children
    /\ mpc = "send" <=> todo # {}
    /\ cpc \in [Children -> {"idle", "select", "sendIn", "sendErr"}]
    /\ ccur \in [Children -> Nat]
    /\ handled \in [Children -> Seq(Nat)]
Sending ==
    \A ch \in todo :
        /\ Len(taken) # 0
        /\ M!Open(ch, Kind(Len(taken)))
        /\ Busy(ch) => ccur[ch] # Len(taken)
        /\ Len(taken) \notin Done(ch)
Parsing ==
    \A ch \in Children : Busy(ch) =>
        /\ ccur[ch] \in 1..Len(taken)
        /\ M!Open(ch, Kind(ccur[ch]))
        /\ ccur[ch] \notin Done(ch)
Handled ==
    \A ch \in Children : \A n \in Done(ch) :
        n \in 1..Len(taken) /\ M!Open(ch, Kind(n))
Unskipped ==
    \A ch \in Children, n \in 1..Len(taken) : M!Open(ch, Kind(n)) =>
        \/ n \in Done(ch)
        \/ Busy(ch) /\ ccur[ch] = n
        \/ n = Len(taken) /\ ch \in todo

Routes == RouteTypes /\ Sending /\ Parsing /\ Handled /\ Unskipped

IInv == Flow /\ Routes

-----------------------------------------------------------------------------
(* What the steps of the parts do to the variables of the client.          *)

\* The parts see histories that are as long as those of the client.
LEMMA SameLengths ==
    ASSUME FlowTypes
    PROVE  /\ Len([i \in DOMAIN kinds |-> kinds[i].csid]) = N
           /\ Len([n \in DOMAIN taken |-> kinds[taken[n]]]) = Len(taken)
           /\ DOMAIN kinds = 1..N
<1>1. DOMAIN kinds = 1..N /\ N \in Nat /\ DOMAIN taken = 1..Len(taken) /\ Len(taken) \in Nat
    BY DEF FlowTypes, N
<1>2. Len([i \in 1..N |-> kinds[i].csid]) = N
    BY <1>1
<1>3. Len([n \in 1..Len(taken) |-> kinds[taken[n]]]) = Len(taken)
    BY <1>1
<1> QED BY <1>1, <1>2, <1>3

\* The steps that move no chunk behind the reader.
LEMMA HandshakeFacts ==
    ASSUME Handshake
    PROVE  /\ ppc = "idle" /\ ppc' = "select" /\ rpc' = "select"
           /\ UNCHANGED <<kinds, pcur, fpc, fcur, managerVars, controlVars>>
BY DEF Handshake, P!StartRecv, P!streamVars, P!userVars, P!fanVars

\* The reader completes a chunk.
LEMMA NewChunkFacts ==
    ASSUME NEW k, NewChunk(k)
    PROVE  /\ rpc = "reading" /\ rpc' = "sendChunk" /\ kinds' = Append(kinds, k)
           /\ UNCHANGED <<ppc, pcur, fpc, fcur, managerVars, controlVars>>
BY DEF NewChunk, P!ReadChunk, P!streamVars, P!userVars, P!fanVars

\* The reader receives part of a chunk, fails or polls its closer.
LEMMA ReaderFacts ==
    ASSUME PartOrError \/ ReaderStep
    PROVE  /\ rpc \in {"select", "reading"} /\ rpc' \in {"select", "reading", "sendErr"}
           /\ ppc = "idle" => ppc' = "idle"
           /\ UNCHANGED <<kinds, ppc, pcur, fpc, fcur, managerVars, controlVars>>
BY DEF PartOrError, ReaderStep, P!ReadPart, P!ReadError, P!ReaderPolls, P!streamVars,
       P!userVars, P!fanVars

\* The parser takes a chunk or an error.
LEMMA ParserFacts ==
    ASSUME FlowTypes, ParserStep
    PROVE  /\ ppc = "select" /\ rpc' = "select"
           /\ \/ rpc = "sendChunk" /\ ppc' = "deliver" /\ pcur' = N
              \/ rpc = "sendErr" /\ ppc' = "sendErr" /\ pcur' = pcur
           /\ UNCHANGED <<kinds, fpc, fcur, managerVars, controlVars>>
<1>1. Len([i \in DOMAIN kinds |-> kinds[i].csid]) = N
    BY SameLengths
<1> QED BY <1>1 DEF ParserStep, P!ParserTakesChunk, P!ParserTakesErr, P!streamVars,
              P!userVars, P!fanVars

\* The chunk that the parser holds passes to a fan-in goroutine.
LEMMA FanStepFacts ==
    ASSUME FlowTypes, Before, NEW id \in NetIds, FanStep(id)
    PROVE  /\ ppc = "deliver" /\ kinds[pcur].csid = id /\ fpc[id] = "recv"
           /\ ppc' = "select" /\ pcur' = pcur
           /\ fpc' = [fpc EXCEPT ![id] = "send"] /\ fcur' = [fcur EXCEPT ![id] = pcur]
           /\ UNCHANGED <<kinds, rpc, managerVars, controlVars>>
<1>1. ppc = "deliver" => pcur \in DOMAIN kinds
    BY DEF FlowTypes, Before, N
<1> QED BY <1>1 DEF FanStep, P!DeliverMulti, P!streamVars, P!userVars

\* The chunk that the parser holds passes to the control stream.
LEMMA ToControlFacts ==
    ASSUME FlowTypes, Before, ToControl
    PROVE  /\ ppc = "deliver" /\ kinds[pcur].csid = ControlId
           /\ ppc' = "select" /\ pcur' = pcur
           /\ spc = "select" /\ spc' \in {"sendIn", "sendErr"} /\ scur' = pcur
           /\ controls' = controls
           /\ UNCHANGED <<kinds, rpc, fpc, fcur, managerVars>>
<1>1. ppc = "deliver" => pcur \in DOMAIN kinds
    BY DEF FlowTypes, Before, N
<1> QED BY <1>1 DEF ToControl, P!DeliverSingle, P!streamVars, P!userVars, P!fanVars, S!Take

\* The chunk that a fan-in goroutine holds passes to Dispatch.
LEMMA ToManagerFacts ==
    ASSUME NEW id \in NetIds, ToManager(id)
    PROVE  /\ fpc[id] = "send" /\ fpc' = [fpc EXCEPT ![id] = "recv"]
           /\ taken' = Append(taken, fcur[id])
           /\ mpc = "select" /\ mpc' = (IF todo' = {} THEN "select" ELSE "send")
           /\ todo' = {ch \in Children : M!Open(ch, kinds[fcur[id]])}
           /\ UNCHANGED <<kinds, rpc, ppc, pcur, fcur, cpc, ccur, handled, controlVars>>
BY DEF ToManager, P!FanIn, P!streamVars, P!userVars, M!TakeChunk, M!Children, Children

\* The control stream starts, takes a close, or has its outcome received.
LEMMA ControlFacts ==
    ASSUME ControlStep \/ CloseControls
    PROVE  /\ \/ Offering /\ spc' = "select" /\ controls' = Append(controls, scur)
              \/ ~Offering /\ spc' \in {"select", "done"} /\ controls' = controls
              \/ spc' = spc /\ controls' = controls
           /\ scur' = scur
           /\ UNCHANGED <<parserVars, managerVars>>
BY DEF ControlStep, CloseControls, S!StartRecv, S!Outcome, S!TakeClose, S!Close, Offering

\* Dispatch starts, with its children or without.
LEMMA StartedFacts ==
    ASSUME Started
    PROVE  /\ mpc = "idle" /\ mpc' = "select" /\ todo' = todo
           /\ \/ cpc' = cpc
              \/ /\ \A ch \in Children : cpc[ch] = "idle"
                 /\ cpc' = [ch \in Children |-> "select"]
           /\ UNCHANGED <<ccur, handled, taken, parserVars, controlVars>>
BY DEF Started, M!Start, M!StartDispatch, M!Children, Children

\* What a child may do: start, take a chunk from Dispatch, or have its outcome
\* received.
Starts(ch) ==
    /\ cpc[ch] = "idle" /\ cpc' = [cpc EXCEPT ![ch] = "select"]
    /\ UNCHANGED <<mpc, todo, ccur, handled>>
Takes(ch) ==
    /\ ch \in todo /\ todo' = todo \ {ch} /\ cpc[ch] = "select"
    /\ mpc' = (IF todo' = {} THEN "select" ELSE "send")
    /\ ccur' = [ccur EXCEPT ![ch] = Len(taken)]
    /\ \E x \in {"sendIn", "sendErr"} : cpc' = [cpc EXCEPT ![ch] = x]
    /\ handled' = handled
Finishes(ch) ==
    /\ Busy(ch) /\ cpc' = [cpc EXCEPT ![ch] = "select"]
    /\ handled' = [handled EXCEPT ![ch] = Append(@, ccur[ch])]
    /\ UNCHANGED <<mpc, todo, ccur>>

\* A step of a child is one of these, and moves nothing outside the manager.
LEMMA ChildFacts ==
    ASSUME FlowTypes, NEW ch \in Children, ChildStep(ch)
    PROVE  /\ Starts(ch) \/ Takes(ch) \/ Finishes(ch)
           /\ UNCHANGED <<taken, parserVars, controlVars>>
<1>1. Len([n \in DOMAIN taken |-> kinds[taken[n]]]) = Len(taken)
    BY SameLengths
<1>2. CASE M!StartChild(ch)
    BY <1>2 DEF ChildStep, M!StartChild, Starts
<1>3. CASE M!SendTo(ch)
    BY <1>1, <1>3 DEF ChildStep, M!SendTo, M!Parsed, Takes
<1>4. CASE M!Outcome(ch)
    BY <1>4 DEF ChildStep, M!Outcome, Busy, Finishes
<1> QED BY <1>2, <1>3, <1>4 DEF ChildStep

-----------------------------------------------------------------------------
(* The chunks on their way from the reader to the manager.                 *)

\* The chunks of the connection stay what they are.
Lasting ==
    /\ kinds' \in Seq(Kinds)
    /\ N \in Nat /\ N' \in Nat /\ N <= N'
    /\ \A i \in 1..N : kinds'[i] = kinds[i]

\* They do when no chunk is completed ...
LEMMA LastingSame ==
    ASSUME FlowTypes, kinds' = kinds
    PROVE  Lasting /\ N' = N
BY DEF FlowTypes, Lasting, N

\* ... and when one more is.
LEMMA LastingMore ==
    ASSUME FlowTypes, NEW k \in Kinds, kinds' = Append(kinds, k)
    PROVE  Lasting /\ N' = N + 1
BY DEF FlowTypes, Lasting, N

\* The elements of a sequence that gets one more.
LEMMA AppendFacts ==
    ASSUME NEW s \in Seq(Nat), NEW x \in Nat
    PROVE  /\ Append(s, x) \in Seq(Nat)
           /\ Len(Append(s, x)) = Len(s) + 1
           /\ Len(s) \in Nat
           /\ \A n \in 1..Len(s) : n \in 1..(Len(s) + 1) /\ Append(s, x)[n] = s[n]
           /\ Append(s, x)[Len(s) + 1] = x
           /\ Len(s) + 1 \in 1..(Len(s) + 1)
           /\ \A n \in 1..(Len(s) + 1) : n \in 1..Len(s) \/ n = Len(s) + 1
OBVIOUS

\* What is past the parser are chunks of the connection.
LEMMA PastFacts ==
    ASSUME FlowTypes, Before
    PROVE  /\ \A id \in NetIds : fpc[id] = "send" => InFan(fcur[id]) /\ fcur[id] \in 1..N
           /\ \A n \in 1..Len(taken) : InManager(taken[n]) /\ taken[n] \in 1..N
           /\ \A i \in Nat : InControl(i) => i \in 1..N
<1>1. ASSUME NEW id \in NetIds, fpc[id] = "send" PROVE InFan(fcur[id]) /\ fcur[id] \in 1..N
  <2>1. InFan(fcur[id]) /\ fcur[id] \in Nat
      BY <1>1 DEF InFan, FlowTypes
  <2> QED BY <2>1 DEF Before, Past
<1>2. ASSUME NEW n \in 1..Len(taken) PROVE InManager(taken[n]) /\ taken[n] \in 1..N
  <2>1. InManager(taken[n]) /\ taken[n] \in Nat
      BY DEF InManager, FlowTypes
  <2> QED BY <2>1 DEF Before, Past
<1>3. \A i \in Nat : InControl(i) => i \in 1..N
    BY DEF Before, Past
<1> QED BY <1>1, <1>2, <1>3

\* As long as no chunk goes past the parser, those that are there stay where
\* they are.
LEMMA PastStays ==
    ASSUME FlowTypes, Before, FanIds, TakenIds, ControlIds, Lasting,
           UNCHANGED <<fpc, fcur, taken, spc, scur, controls>>
    PROVE  /\ \A i : Past(i)' <=> Past(i)
           /\ FanIds' /\ TakenIds' /\ ControlIds'
<1>1. \A i : /\ InFan(i)' <=> InFan(i)
             /\ InManager(i)' <=> InManager(i)
             /\ InControl(i)' <=> InControl(i)
    BY DEF InFan, InManager, InControl, Offering
<1>2. \A i : Past(i)' <=> Past(i)
    BY <1>1 DEF Past
<1>3. FanIds'
    BY <1>1, PastFacts DEF FanIds, Lasting
<1>4. TakenIds'
    BY PastFacts DEF TakenIds, Lasting
<1>5. ControlIds'
  <2>1. ASSUME NEW i \in Nat, InControl(i)' PROVE kinds'[i].csid = ControlId
    <3>1. InControl(i) /\ i \in 1..N
        BY <2>1, <1>1, PastFacts
    <3> QED BY <3>1 DEF ControlIds, Lasting
  <2>2. Offering' => \A n \in 1..Len(controls') : controls'[n] # scur'
      BY DEF ControlIds, Offering
  <2> QED BY <2>1, <2>2 DEF ControlIds
<1> QED BY <1>2, <1>3, <1>4, <1>5

\* The reader works on the next chunk (Handshake, PartOrError, ReaderStep).
LEMMA ReaderKeeps ==
    ASSUME Flow, Handshake \/ PartOrError \/ ReaderStep
    PROVE  Flow'
<1>1. FlowTypes /\ Before /\ FanIds /\ TakenIds /\ ControlIds /\ Somewhere
    BY DEF Flow
<1>2. /\ kinds' = kinds /\ pcur' = pcur /\ rpc # "sendChunk" /\ rpc' # "sendChunk"
      /\ (ppc' = "deliver" <=> ppc = "deliver") /\ (ppc' = "idle" => rpc' = "idle")
      /\ UNCHANGED <<fpc, fcur, taken, spc, scur, controls>>
  <2>1. CASE Handshake
      BY <2>1, <1>1, HandshakeFacts DEF Before, managerVars, controlVars
  <2>2. CASE PartOrError \/ ReaderStep
      BY <2>2, <1>1, ReaderFacts DEF Before, managerVars, controlVars
  <2> QED BY <2>1, <2>2
<1>3. Lasting /\ N' = N
    BY <1>1, <1>2, LastingSame
<1>4. /\ \A i : Past(i)' <=> Past(i)
      /\ FanIds' /\ TakenIds' /\ ControlIds'
    BY <1>1, <1>2, <1>3, PastStays
<1>5. FlowTypes'
    BY <1>1, <1>2 DEF FlowTypes
<1>6. Before'
    BY <1>1, <1>2, <1>3, <1>4 DEF Before
<1>7. Somewhere'
  <2>1. \A i \in 1..N : InParser(i) \/ Past(i)
      BY <1>1, <1>2 DEF Somewhere, InReader
  <2> QED BY <2>1, <1>2, <1>3, <1>4 DEF Somewhere, InParser
<1> QED BY <1>4, <1>5, <1>6, <1>7 DEF Flow

\* The reader completes a chunk, which is above all others.
LEMMA NewChunkKeeps ==
    ASSUME Flow, NEW k \in Kinds, NewChunk(k)
    PROVE  Flow'
<1>1. FlowTypes /\ Before /\ FanIds /\ TakenIds /\ ControlIds /\ Somewhere
    BY DEF Flow
<1>2. /\ kinds' = Append(kinds, k) /\ pcur' = pcur /\ rpc = "reading" /\ rpc' = "sendChunk"
      /\ ppc' = ppc
      /\ UNCHANGED <<fpc, fcur, taken, spc, scur, controls>>
    BY NewChunkFacts DEF managerVars, controlVars
<1>3. Lasting /\ N' = N + 1 /\ N \in Nat
    BY <1>1, <1>2, LastingMore DEF Lasting
<1>4. /\ \A i : Past(i)' <=> Past(i)
      /\ FanIds' /\ TakenIds' /\ ControlIds'
    BY <1>1, <1>2, <1>3, PastStays
<1>5. FlowTypes'
    BY <1>1, <1>2, <1>3 DEF FlowTypes, Lasting
<1>6. Before'
  <2>1. ppc' # "idle"
      BY <1>1, <1>2 DEF Before
  <2>2. ppc' = "deliver" => pcur' \in 1..N' /\ pcur' < N'
      BY <1>1, <1>2, <1>3 DEF Before
  <2>3. ASSUME NEW i \in Nat, Past(i)'
        PROVE  i \in 1..N' /\ i < N' /\ (ppc' = "deliver" => i < pcur')
    <3>1. i \in 1..N /\ (ppc = "deliver" => i < pcur)
        BY <2>3, <1>1, <1>4 DEF Before
    <3> QED BY <3>1, <1>2, <1>3
  <2>4. N' # 0
      BY <1>3
  <2> QED BY <2>1, <2>2, <2>3, <2>4 DEF Before
<1>7. Somewhere'
  <2> SUFFICES ASSUME NEW i \in 1..N' PROVE (InReader(i) \/ InParser(i) \/ Past(i))'
      BY DEF Somewhere
  <2>1. CASE i = N'
      BY <2>1, <1>2 DEF InReader
  <2>2. CASE i # N'
    <3>1. i \in 1..N
        BY <2>2, <1>3
    <3>2. InParser(i) \/ Past(i)
        BY <3>1, <1>1, <1>2 DEF Somewhere, InReader
    <3> QED BY <3>2, <1>2, <1>4 DEF InParser
  <2> QED BY <2>1, <2>2
<1> QED BY <1>4, <1>5, <1>6, <1>7 DEF Flow

\* The chunk passes from the reader to the parser.
LEMMA ParserKeeps ==
    ASSUME Flow, ParserStep
    PROVE  Flow'
<1>1. FlowTypes /\ Before /\ FanIds /\ TakenIds /\ ControlIds /\ Somewhere
    BY DEF Flow
<1>2. /\ kinds' = kinds /\ ppc = "select" /\ rpc' = "select"
      /\ \/ rpc = "sendChunk" /\ ppc' = "deliver" /\ pcur' = N
         \/ rpc = "sendErr" /\ ppc' = "sendErr" /\ pcur' = pcur
      /\ UNCHANGED <<fpc, fcur, taken, spc, scur, controls>>
    BY <1>1, ParserFacts DEF managerVars, controlVars
<1>3. Lasting /\ N' = N /\ N \in Nat
    BY <1>1, <1>2, LastingSame DEF Lasting
<1>4. /\ \A i : Past(i)' <=> Past(i)
      /\ FanIds' /\ TakenIds' /\ ControlIds'
    BY <1>1, <1>2, <1>3, PastStays
<1>5. FlowTypes'
    BY <1>1, <1>2, <1>3 DEF FlowTypes
<1>6. Before'
  <2>1. ppc' = "deliver" => pcur' \in 1..N'
      BY <1>1, <1>2, <1>3 DEF Before
  <2>2. ASSUME NEW i \in Nat, Past(i)'
        PROVE  i \in 1..N' /\ (ppc' = "deliver" => i < pcur')
      BY <2>2, <1>1, <1>2, <1>3, <1>4 DEF Before
  <2> QED BY <2>1, <2>2, <1>2 DEF Before
<1>7. Somewhere'
  <2> SUFFICES ASSUME NEW i \in 1..N PROVE InParser(i)' \/ Past(i)
      BY <1>3, <1>4 DEF Somewhere
  <2> QED BY <1>1, <1>2 DEF Somewhere, InReader, InParser
<1> QED BY <1>4, <1>5, <1>6, <1>7 DEF Flow

\* The chunk passes from the parser to the fan-in goroutine of its stream.
LEMMA FanStepKeeps ==
    ASSUME Flow, NEW id \in NetIds, FanStep(id)
    PROVE  Flow'
<1>1. FlowTypes /\ Before /\ FanIds /\ TakenIds /\ ControlIds /\ Somewhere
    BY DEF Flow
<1>2. /\ ppc = "deliver" /\ kinds[pcur].csid = id /\ fpc[id] = "recv"
      /\ ppc' = "select" /\ pcur' = pcur /\ rpc' = rpc /\ kinds' = kinds
      /\ fpc' = [fpc EXCEPT ![id] = "send"] /\ fcur' = [fcur EXCEPT ![id] = pcur]
      /\ UNCHANGED <<taken, spc, scur, controls>>
    BY <1>1, FanStepFacts DEF managerVars, controlVars
<1>3. N' = N /\ N \in Nat /\ pcur \in 1..N /\ (rpc = "sendChunk" => pcur < N)
    BY <1>1, <1>2 DEF N, FlowTypes, Before
<1>4. /\ fpc'[id] = "send" /\ fcur'[id] = pcur
      /\ \A d \in NetIds : d # id => fpc'[d] = fpc[d] /\ fcur'[d] = fcur[d]
    BY <1>1, <1>2 DEF FlowTypes
<1>5. \A i : /\ InFan(i)' <=> InFan(i) \/ i = pcur
             /\ InManager(i)' <=> InManager(i)
             /\ InControl(i)' <=> InControl(i)
  <2>1. \A i : InFan(i)' <=> InFan(i) \/ i = pcur
      BY <1>2, <1>4 DEF InFan
  <2>2. \A i : (InManager(i)' <=> InManager(i)) /\ (InControl(i)' <=> InControl(i))
      BY <1>2 DEF InManager, InControl, Offering
  <2> QED BY <2>1, <2>2
<1>6. \A i : Past(i)' <=> Past(i) \/ i = pcur
    BY <1>5 DEF Past
<1>7. FlowTypes'
    BY <1>1, <1>2 DEF FlowTypes
<1>8. Before'
  <2>1. ASSUME NEW i \in Nat, Past(i)' PROVE i \in 1..N /\ (rpc = "sendChunk" => i < N)
      BY <2>1, <1>1, <1>3, <1>6 DEF Before
  <2> QED BY <2>1, <1>1, <1>2, <1>3 DEF Before
<1>9. ~InManager(pcur)
  <2>1. pcur \in Nat /\ ~(pcur < pcur)
      BY <1>3
  <2> QED BY <2>1, <1>1, <1>2 DEF Before, Past
<1>10. FanIds'
  <2> SUFFICES ASSUME NEW d \in NetIds, fpc'[d] = "send"
               PROVE  kinds[fcur'[d]].csid = d /\ ~InManager(fcur'[d])
      BY <1>2, <1>5 DEF FanIds
  <2>1. CASE d = id
      BY <2>1, <1>2, <1>4, <1>9
  <2>2. CASE d # id
      BY <2>2, <1>1, <1>4 DEF FanIds
  <2> QED BY <2>1, <2>2
<1>11. TakenIds' /\ ControlIds'
    BY <1>1, <1>2, <1>5 DEF TakenIds, ControlIds, Offering
<1>12. Somewhere'
  <2> SUFFICES ASSUME NEW i \in 1..N PROVE InReader(i) \/ Past(i) \/ i = pcur
      BY <1>2, <1>3, <1>6 DEF Somewhere, InReader
  <2> QED BY <1>1 DEF Somewhere, InParser
<1> QED BY <1>7, <1>8, <1>10, <1>11, <1>12 DEF Flow

\* The chunk passes from the parser to the control stream.
LEMMA ToControlKeeps ==
    ASSUME Flow, ToControl
    PROVE  Flow'
<1>1. FlowTypes /\ Before /\ FanIds /\ TakenIds /\ ControlIds /\ Somewhere
    BY DEF Flow
<1>2. /\ ppc = "deliver" /\ kinds[pcur].csid = ControlId
      /\ ppc' = "select" /\ pcur' = pcur /\ rpc' = rpc /\ kinds' = kinds
      /\ spc = "select" /\ spc' \in {"sendIn", "sendErr"} /\ scur' = pcur
      /\ controls' = controls
      /\ UNCHANGED <<fpc, fcur, taken>>
    BY <1>1, ToControlFacts DEF managerVars
<1>3. N' = N /\ N \in Nat /\ pcur \in 1..N /\ (rpc = "sendChunk" => pcur < N)
    BY <1>1, <1>2 DEF N, FlowTypes, Before
<1>4. ~Offering /\ Offering'
    BY <1>2 DEF Offering
<1>5. \A i : /\ InFan(i)' <=> InFan(i)
             /\ InManager(i)' <=> InManager(i)
             /\ InControl(i)' <=> InControl(i) \/ i = pcur
  <2>1. \A i : InControl(i)' <=> InControl(i) \/ i = pcur
      BY <1>2, <1>4 DEF InControl
  <2>2. \A i : (InManager(i)' <=> InManager(i)) /\ (InFan(i)' <=> InFan(i))
      BY <1>2 DEF InManager, InFan
  <2> QED BY <2>1, <2>2
<1>6. \A i : Past(i)' <=> Past(i) \/ i = pcur
    BY <1>5 DEF Past
<1>7. FlowTypes'
    BY <1>1, <1>2 DEF FlowTypes
<1>8. Before'
  <2>1. ASSUME NEW i \in Nat, Past(i)' PROVE i \in 1..N /\ (rpc = "sendChunk" => i < N)
      BY <2>1, <1>1, <1>3, <1>6 DEF Before
  <2> QED BY <2>1, <1>1, <1>2, <1>3 DEF Before
<1>9. \A n \in 1..Len(controls) : controls[n] # pcur
  <2>1. pcur \in Nat /\ ~(pcur < pcur)
      BY <1>3
  <2>2. ~InControl(pcur)
      BY <2>1, <1>1, <1>2 DEF Before, Past
  <2> QED BY <2>2 DEF InControl
<1>10. FanIds' /\ TakenIds'
    BY <1>1, <1>2, <1>5 DEF FanIds, TakenIds
<1>11. ControlIds'
    BY <1>1, <1>2, <1>5, <1>9 DEF ControlIds
<1>12. Somewhere'
  <2> SUFFICES ASSUME NEW i \in 1..N PROVE InReader(i) \/ Past(i) \/ i = pcur
      BY <1>2, <1>3, <1>6 DEF Somewhere, InReader
  <2> QED BY <1>1 DEF Somewhere, InParser
<1> QED BY <1>7, <1>8, <1>10, <1>11, <1>12 DEF Flow

\* The chunk passes from a fan-in goroutine to Dispatch.
LEMMA ToManagerKeeps ==
    ASSUME Flow, NEW id \in NetIds, ToManager(id)
    PROVE  Flow'
<1>1. FlowTypes /\ Before /\ FanIds /\ TakenIds /\ ControlIds /\ Somewhere
    BY DEF Flow
<1>2. /\ fpc[id] = "send" /\ fpc' = [fpc EXCEPT ![id] = "recv"]
      /\ taken' = Append(taken, fcur[id])
      /\ kinds' = kinds /\ rpc' = rpc /\ ppc' = ppc /\ pcur' = pcur /\ fcur' = fcur
      /\ UNCHANGED <<spc, scur, controls>>
    BY ToManagerFacts DEF controlVars
<1>3. PICK x \in Nat : x = fcur[id]
    BY <1>1 DEF FlowTypes
<1>4. /\ taken' \in Seq(Nat) /\ Len(taken) \in Nat /\ Len(taken') = Len(taken) + 1
      /\ \A n \in 1..Len(taken) : n \in 1..Len(taken') /\ taken'[n] = taken[n]
      /\ Len(taken') \in 1..Len(taken') /\ taken'[Len(taken')] = x
      /\ \A n \in 1..Len(taken') : n \in 1..Len(taken) \/ n = Len(taken')
  <2>1. taken \in Seq(Nat) /\ taken' = Append(taken, x)
      BY <1>1, <1>2, <1>3 DEF FlowTypes
  <2> QED BY <2>1, AppendFacts
<1>5. N' = N /\ InFan(x) /\ x \in 1..N /\ kinds[x].csid = id /\ ~InManager(x)
    BY <1>1, <1>2, <1>3, PastFacts DEF N, FanIds
<1>6. fpc'[id] = "recv" /\ \A d \in NetIds : d # id => fpc'[d] = fpc[d]
    BY <1>1, <1>2 DEF FlowTypes
<1>7. \A i : /\ InFan(i)' => InFan(i)
             /\ InFan(i) => InFan(i)' \/ i = x
             /\ InManager(i)' <=> InManager(i) \/ i = x
             /\ InControl(i)' <=> InControl(i)
  <2>1. \A i : (InFan(i)' => InFan(i)) /\ (InFan(i) => InFan(i)' \/ i = x)
      BY <1>2, <1>3, <1>6 DEF InFan
  <2>2. \A i : InManager(i)' <=> InManager(i) \/ i = x
      BY <1>4 DEF InManager
  <2>3. \A i : InControl(i)' <=> InControl(i)
      BY <1>2 DEF InControl, Offering
  <2> QED BY <2>1, <2>2, <2>3
<1>8. \A i : Past(i)' <=> Past(i)
    BY <1>5, <1>7 DEF Past
<1>9. FlowTypes'
    BY <1>1, <1>2, <1>4 DEF FlowTypes
<1>10. Before'
    BY <1>1, <1>2, <1>5, <1>8 DEF Before
<1>11. FanIds'
  <2> SUFFICES ASSUME NEW d \in NetIds, fpc'[d] = "send"
               PROVE  /\ kinds[fcur[d]].csid = d
                      /\ ~ \E n \in 1..Len(taken') : taken'[n] = fcur[d]
      BY <1>2 DEF FanIds, InManager
  <2>1. d # id /\ fpc[d] = "send"
      BY <1>6
  <2>2. kinds[fcur[d]].csid = d /\ ~InManager(fcur[d])
      BY <2>1, <1>1 DEF FanIds
  <2>3. fcur[d] # x
      BY <2>1, <2>2, <1>5
  <2> QED BY <2>2, <2>3, <1>4 DEF InManager
<1>12. TakenIds'
  <2>1. ASSUME NEW n \in 1..Len(taken') PROVE kinds[taken'[n]].csid \in NetIds
      BY <1>1, <1>4, <1>5 DEF TakenIds
  <2>2. \A n \in 1..Len(taken) : taken[n] # x
      BY <1>5 DEF InManager
  <2>3. ASSUME NEW m \in 1..Len(taken'), NEW n \in 1..Len(taken'), taken'[m] = taken'[n]
        PROVE  m = n
      BY <2>2, <2>3, <1>1, <1>4 DEF TakenIds
  <2> QED BY <2>1, <2>3, <1>2 DEF TakenIds
<1>13. ControlIds'
    BY <1>1, <1>2, <1>7 DEF ControlIds, Offering
<1>14. Somewhere'
    BY <1>1, <1>2, <1>5, <1>8 DEF Somewhere, InReader, InParser
<1> QED BY <1>9, <1>10, <1>11, <1>12, <1>13, <1>14 DEF Flow

\* A control sequence or an error is received, or the control stream starts or
\* ends.
LEMMA ControlKeeps ==
    ASSUME Flow, ControlStep \/ CloseControls
    PROVE  Flow'
<1>1. FlowTypes /\ Before /\ FanIds /\ TakenIds /\ ControlIds /\ Somewhere
    BY DEF Flow
<1>2. /\ \/ Offering /\ spc' = "select" /\ controls' = Append(controls, scur)
         \/ ~Offering /\ spc' \in {"select", "done"} /\ controls' = controls
         \/ spc' = spc /\ controls' = controls
      /\ scur' = scur /\ kinds' = kinds /\ rpc' = rpc /\ ppc' = ppc /\ pcur' = pcur
      /\ UNCHANGED <<fpc, fcur, taken>>
    BY ControlFacts DEF parserVars, managerVars
<1>3. /\ controls' \in Seq(Nat)
      /\ \A i : InControl(i)' <=> InControl(i)
      /\ Offering' => Offering /\ controls' = controls
  <2>1. controls \in Seq(Nat) /\ scur \in Nat
      BY <1>1 DEF FlowTypes
  <2>2. CASE Offering /\ spc' = "select" /\ controls' = Append(controls, scur)
    <3>1. /\ controls' \in Seq(Nat)
          /\ Len(controls') = Len(controls) + 1
          /\ \A n \in 1..Len(controls) : n \in 1..Len(controls') /\ controls'[n] = controls[n]
          /\ Len(controls') \in 1..Len(controls') /\ controls'[Len(controls')] = scur
          /\ \A n \in 1..Len(controls') : n \in 1..Len(controls) \/ n = Len(controls')
        BY <2>1, <2>2, AppendFacts
    <3>2. ~Offering'
        BY <2>2 DEF Offering
    <3>3. \A i : InControl(i)' <=> InControl(i)
        BY <3>1, <3>2, <2>2 DEF InControl
    <3> QED BY <3>1, <3>2, <3>3
  <2>3. CASE ~Offering /\ spc' \in {"select", "done"} /\ controls' = controls
      BY <2>1, <2>3 DEF InControl, Offering
  <2>4. CASE spc' = spc /\ controls' = controls
      BY <2>1, <2>4, <1>2 DEF InControl, Offering
  <2> QED BY <2>2, <2>3, <2>4, <1>2
<1>4. \A i : (InFan(i)' <=> InFan(i)) /\ (InManager(i)' <=> InManager(i))
    BY <1>2 DEF InFan, InManager
<1>5. N' = N /\ \A i : Past(i)' <=> Past(i)
    BY <1>2, <1>3, <1>4 DEF Past, N
<1>6. FlowTypes'
    BY <1>1, <1>2, <1>3 DEF FlowTypes
<1>7. Before'
    BY <1>1, <1>2, <1>5 DEF Before
<1>8. FanIds' /\ TakenIds'
    BY <1>1, <1>2, <1>4 DEF FanIds, TakenIds
<1>9. ControlIds'
    BY <1>1, <1>2, <1>3 DEF ControlIds
<1>10. Somewhere'
    BY <1>1, <1>2, <1>5 DEF Somewhere, InReader, InParser
<1> QED BY <1>6, <1>7, <1>8, <1>9, <1>10 DEF Flow

\* A step that leaves the chunks where they are on that way keeps the flow.
LEMMA FlowStays ==
    ASSUME Flow, UNCHANGED <<kinds, rpc, ppc, pcur, fpc, fcur, taken, spc, scur, controls>>
    PROVE  Flow'
<1>1. FlowTypes /\ Before /\ FanIds /\ TakenIds /\ ControlIds /\ Somewhere
    BY DEF Flow
<1>2. Lasting /\ N' = N
    BY <1>1, LastingSame
<1>3. /\ \A i : Past(i)' <=> Past(i)
      /\ FanIds' /\ TakenIds' /\ ControlIds'
    BY <1>1, <1>2, PastStays
<1>4. FlowTypes'
    BY <1>1 DEF FlowTypes
<1>5. Before'
    BY <1>1, <1>2, <1>3 DEF Before
<1>6. Somewhere'
    BY <1>1, <1>2, <1>3 DEF Somewhere, InReader, InParser
<1> QED BY <1>3, <1>4, <1>5, <1>6 DEF Flow

-----------------------------------------------------------------------------
(* The chunks that the manager has taken.                                  *)

\* The chunks that Dispatch has taken stay what they are.
LEMMA KindsStay ==
    ASSUME Flow, Lasting, UNCHANGED taken
    PROVE  \A n \in 1..Len(taken) : Kind(n)' = Kind(n)
<1>1. \A n \in 1..Len(taken) : taken[n] \in 1..N
    BY PastFacts DEF Flow
<1> QED BY <1>1 DEF Lasting, Kind

\* A step that leaves the chunks where they are with the manager, and keeps its
\* children at work or not, keeps the routes.
LEMMA RoutesStay ==
    ASSUME Flow, Routes, Lasting, RouteTypes',
           UNCHANGED <<taken, todo, ccur, handled>>,
           \A ch \in Children : Busy(ch)' <=> Busy(ch)
    PROVE  Routes'
<1>1. RouteTypes /\ Sending /\ Parsing /\ Handled /\ Unskipped
    BY DEF Routes
<1>2. \A n \in 1..Len(taken) : Kind(n)' = Kind(n)
    BY KindsStay
<1>3. \A ch : Done(ch)' = Done(ch)
    BY DEF Done
<1>4. \A ch, n : (n \in 1..Len(taken)) => (M!Open(ch, Kind(n))' <=> M!Open(ch, Kind(n)))
    BY <1>2 DEF M!Open, M!NetConnGate, M!NetStreamGate, M!DataStreamGate,
                M!StreamIdGate, M!MessageStreamGate, M!TypeIdGate
<1>5. Len(taken) \in Nat
    BY DEF Flow, FlowTypes
<1>6. Sending'
  <2> SUFFICES ASSUME NEW ch \in todo
               PROVE  /\ Len(taken) # 0
                      /\ M!Open(ch, Kind(Len(taken)))'
                      /\ Busy(ch)' => ccur[ch] # Len(taken)
                      /\ Len(taken) \notin Done(ch)
      BY <1>3 DEF Sending
  <2>1. ch \in Children
      BY <1>1 DEF RouteTypes
  <2>2. Len(taken) # 0 /\ M!Open(ch, Kind(Len(taken))) /\ (Busy(ch) => ccur[ch] # Len(taken))
        /\ Len(taken) \notin Done(ch)
      BY <1>1 DEF Sending
  <2>3. Len(taken) \in 1..Len(taken)
      BY <2>2, <1>5
  <2> QED BY <2>1, <2>2, <2>3, <1>4
<1>7. Parsing'
  <2> SUFFICES ASSUME NEW ch \in Children, Busy(ch)
               PROVE  ccur[ch] \in 1..Len(taken) /\ M!Open(ch, Kind(ccur[ch]))'
                      /\ ccur[ch] \notin Done(ch)
      BY <1>3 DEF Parsing
  <2> QED BY <1>1, <1>4 DEF Parsing
<1>8. Handled'
    BY <1>1, <1>3, <1>4 DEF Handled
<1>9. Unskipped'
    BY <1>1, <1>3, <1>4 DEF Unskipped
<1> QED BY <1>6, <1>7, <1>8, <1>9 DEF Routes

\* Dispatch takes one more chunk, and has every child to serve whose gate is
\* open.
LEMMA ToManagerRoutes ==
    ASSUME Flow, Routes, NEW id \in NetIds, ToManager(id)
    PROVE  Routes'
<1>1. RouteTypes /\ Sending /\ Parsing /\ Handled /\ Unskipped
    BY DEF Routes
<1>2. /\ taken' = Append(taken, fcur[id])
      /\ mpc = "select" /\ mpc' = (IF todo' = {} THEN "select" ELSE "send")
      /\ todo' = {ch \in Children : M!Open(ch, kinds[fcur[id]])}
      /\ kinds' = kinds /\ cpc' = cpc /\ ccur' = ccur /\ handled' = handled
    BY ToManagerFacts
<1>3. PICK x \in Nat : x = fcur[id]
    BY DEF Flow, FlowTypes
<1>4. PICK L \in Nat : L = Len(taken)
    BY DEF Flow, FlowTypes
<1>5. /\ Len(taken') = L + 1
      /\ \A n \in 1..L : n \in 1..(L + 1) /\ taken'[n] = taken[n]
      /\ taken'[L + 1] = x
      /\ \A n \in 1..(L + 1) : n \in 1..L \/ n = L + 1
      /\ L + 1 \in 1..(L + 1) /\ L + 1 \notin 1..L
  <2>1. taken \in Seq(Nat) /\ taken' = Append(taken, x)
      BY <1>2, <1>3 DEF Flow, FlowTypes
  <2>2. L + 1 \notin 1..L
      BY <1>4
  <2> QED BY <2>1, <2>2, <1>4, AppendFacts
<1>6. todo = {}
    BY <1>1, <1>2 DEF RouteTypes
<1>7. \A ch : /\ Done(ch)' = Done(ch)
              /\ Busy(ch)' <=> Busy(ch)
    BY <1>2 DEF Done, Busy
<1>8. \A n \in 1..L : Kind(n)' = Kind(n)
    BY <1>2, <1>5 DEF Kind
<1>9. \A ch, n : (n \in 1..L) => (M!Open(ch, Kind(n))' <=> M!Open(ch, Kind(n)))
    BY <1>8 DEF M!Open, M!NetConnGate, M!NetStreamGate, M!DataStreamGate,
                M!StreamIdGate, M!MessageStreamGate, M!TypeIdGate
<1>10. \A ch \in Children : M!Open(ch, Kind(L + 1))' <=> ch \in todo'
  <2>1. Kind(L + 1)' = kinds[fcur[id]]
      BY <1>2, <1>3, <1>5 DEF Kind
  <2>2. \A ch : M!Open(ch, Kind(L + 1))' <=> M!Open(ch, kinds[fcur[id]])
      BY <2>1 DEF M!Open, M!NetConnGate, M!NetStreamGate, M!DataStreamGate,
                  M!StreamIdGate, M!MessageStreamGate, M!TypeIdGate
  <2> QED BY <2>2, <1>2
<1>11. RouteTypes'
    BY <1>1, <1>2 DEF RouteTypes
<1>12. Sending'
  <2> SUFFICES ASSUME NEW ch \in todo'
               PROVE  /\ L + 1 # 0
                      /\ M!Open(ch, Kind(L + 1))'
                      /\ Busy(ch) => ccur[ch] # L + 1
                      /\ L + 1 \notin Done(ch)
      BY <1>2, <1>5, <1>7 DEF Sending
  <2>1. ch \in Children
      BY <1>2
  <2>2. Busy(ch) => ccur[ch] # L + 1
      BY <2>1, <1>1, <1>4, <1>5 DEF Parsing
  <2>3. L + 1 \notin Done(ch)
      BY <2>1, <1>1, <1>4, <1>5 DEF Handled
  <2> QED BY <2>1, <2>2, <2>3, <1>10
<1>13. Parsing'
  <2> SUFFICES ASSUME NEW ch \in Children, Busy(ch)
               PROVE  ccur[ch] \in 1..(L + 1) /\ M!Open(ch, Kind(ccur[ch]))'
                      /\ ccur[ch] \notin Done(ch)
      BY <1>2, <1>5, <1>7 DEF Parsing
  <2>1. ccur[ch] \in 1..L /\ M!Open(ch, Kind(ccur[ch])) /\ ccur[ch] \notin Done(ch)
      BY <1>1, <1>4 DEF Parsing
  <2>2. Kind(ccur[ch])' = Kind(ccur[ch])
      BY <2>1, <1>2, <1>5 DEF Kind
  <2>3. M!Open(ch, Kind(ccur[ch]))'
      BY <2>1, <2>2 DEF M!Open, M!NetConnGate, M!NetStreamGate, M!DataStreamGate,
                        M!StreamIdGate, M!MessageStreamGate, M!TypeIdGate
  <2> QED BY <2>1, <2>3, <1>5
<1>14. Handled'
    BY <1>1, <1>4, <1>5, <1>7, <1>9 DEF Handled
<1>15. Unskipped'
  <2> SUFFICES ASSUME NEW ch \in Children, NEW n \in 1..(L + 1), M!Open(ch, Kind(n))'
               PROVE  \/ n \in Done(ch)
                      \/ Busy(ch) /\ ccur[ch] = n
                      \/ n = L + 1 /\ ch \in todo'
      BY <1>2, <1>5, <1>7 DEF Unskipped
  <2>1. CASE n \in 1..L
      BY <2>1, <1>1, <1>4, <1>6, <1>9 DEF Unskipped
  <2>2. CASE n = L + 1
      BY <2>2, <1>10
  <2> QED BY <2>1, <2>2, <1>5
<1> QED BY <1>11, <1>12, <1>13, <1>14, <1>15 DEF Routes

\* Dispatch is started: no child works on a chunk yet, or none is changed.
LEMMA StartedRoutes ==
    ASSUME Flow, Routes, Started
    PROVE  Routes'
<1>1. RouteTypes
    BY DEF Routes
<1>2. /\ mpc = "idle" /\ mpc' = "select" /\ todo' = todo
      /\ \/ cpc' = cpc
         \/ /\ \A ch \in Children : cpc[ch] = "idle"
            /\ cpc' = [ch \in Children |-> "select"]
      /\ UNCHANGED <<kinds, ccur, handled, taken>>
    BY StartedFacts DEF parserVars
<1>3. RouteTypes'
    BY <1>1, <1>2 DEF RouteTypes
<1>4. \A ch \in Children : Busy(ch)' <=> Busy(ch)
    BY <1>2 DEF Busy
<1>5. Lasting
    BY <1>2, LastingSame DEF Flow
<1> QED BY <1>2, <1>3, <1>4, <1>5, RoutesStay

\* A child starts.
LEMMA ChildStarts ==
    ASSUME Flow, Routes, NEW ch \in Children, UNCHANGED <<kinds, taken>>, Starts(ch)
    PROVE  Routes'
<1> USE DEF Starts
<1>1. RouteTypes
    BY DEF Routes
<1>2. RouteTypes'
    BY <1>1 DEF RouteTypes
<1>3. \A d \in Children : Busy(d)' <=> Busy(d)
    BY <1>1 DEF Busy, RouteTypes
<1>4. Lasting
    BY LastingSame DEF Flow
<1> QED BY <1>2, <1>3, <1>4, RoutesStay

\* A child takes the last chunk from Dispatch.
LEMMA ChildTakes ==
    ASSUME Flow, Routes, NEW ch \in Children, UNCHANGED <<kinds, taken>>, Takes(ch)
    PROVE  Routes'
<1> PICK x \in {"sendIn", "sendErr"} : cpc' = [cpc EXCEPT ![ch] = x]
    BY DEF Takes
<1>0. /\ ch \in todo /\ todo' = todo \ {ch} /\ cpc[ch] = "select"
      /\ mpc' = (IF todo' = {} THEN "select" ELSE "send")
      /\ ccur' = [ccur EXCEPT ![ch] = Len(taken)]
      /\ handled' = handled
    BY DEF Takes
<1> USE <1>0
<1>1. RouteTypes /\ Sending /\ Parsing /\ Handled /\ Unskipped
    BY DEF Routes
<1>2. PICK L \in Nat : L = Len(taken)
    BY DEF Flow, FlowTypes
<1>3. RouteTypes'
    BY <1>1, <1>2 DEF RouteTypes
<1>4. /\ Busy(ch)' /\ ~Busy(ch) /\ ccur'[ch] = L
      /\ \A d \in Children : d # ch => (Busy(d)' <=> Busy(d)) /\ ccur'[d] = ccur[d]
    BY <1>1, <1>2 DEF RouteTypes, Busy
<1>5. \A d : Done(d)' = Done(d)
    BY DEF Done
<1>6. \A d, n : M!Open(d, Kind(n))' <=> M!Open(d, Kind(n))
    BY DEF Kind, M!Open, M!NetConnGate, M!NetStreamGate, M!DataStreamGate,
           M!StreamIdGate, M!MessageStreamGate, M!TypeIdGate
<1>7. L # 0 /\ M!Open(ch, Kind(L)) /\ L \notin Done(ch) /\ L \in 1..L
    BY <1>1, <1>2 DEF Sending
<1>8. Sending'
  <2> SUFFICES ASSUME NEW d \in todo'
               PROVE  /\ L # 0
                      /\ M!Open(d, Kind(Len(taken)))'
                      /\ Busy(d)' => ccur'[d] # L
                      /\ L \notin Done(d)
      BY <1>2, <1>5 DEF Sending
  <2>1. d \in Children /\ d # ch /\ d \in todo
      BY <1>1 DEF RouteTypes
  <2>2. M!Open(d, Kind(Len(taken))) /\ (Busy(d) => ccur[d] # L) /\ L \notin Done(d)
      BY <2>1, <1>1, <1>2 DEF Sending
  <2>3. M!Open(d, Kind(Len(taken)))'
      BY <2>2 DEF Kind, M!Open, M!NetConnGate, M!NetStreamGate, M!DataStreamGate,
                  M!StreamIdGate, M!MessageStreamGate, M!TypeIdGate
  <2> QED BY <2>1, <2>2, <2>3, <1>4, <1>7
<1>9. Parsing'
  <2> SUFFICES ASSUME NEW d \in Children, Busy(d)', NEW y \in Nat, y = ccur'[d]
               PROVE  y \in 1..L /\ M!Open(d, Kind(y)) /\ y \notin Done(d)
    <3>1. \A d \in Children : ccur'[d] \in Nat
        BY <1>3 DEF RouteTypes
    <3> QED BY <3>1, <1>2, <1>5 DEF Parsing, Kind, M!Open, M!NetConnGate, M!NetStreamGate,
               M!DataStreamGate, M!StreamIdGate, M!MessageStreamGate, M!TypeIdGate
  <2>1. CASE d = ch
      BY <2>1, <1>4, <1>7
  <2>2. CASE d # ch
      BY <2>2, <1>1, <1>2, <1>4 DEF Parsing
  <2> QED BY <2>1, <2>2
<1>10. Handled'
    BY <1>1, <1>5, <1>6 DEF Handled
<1>11. Unskipped'
  <2> SUFFICES ASSUME NEW d \in Children, NEW n \in 1..L, M!Open(d, Kind(n))
               PROVE  \/ n \in Done(d)
                      \/ Busy(d)' /\ ccur'[d] = n
                      \/ n = L /\ d \in todo'
      BY <1>2, <1>5, <1>6 DEF Unskipped
  <2>1. \/ n \in Done(d)
        \/ Busy(d) /\ ccur[d] = n
        \/ n = L /\ d \in todo
      BY <1>1, <1>2 DEF Unskipped
  <2>2. CASE d = ch
      BY <2>1, <2>2, <1>4
  <2>3. CASE d # ch
      BY <2>1, <2>3, <1>4
  <2> QED BY <2>2, <2>3
<1> QED BY <1>3, <1>8, <1>9, <1>10, <1>11 DEF Routes

\* Somebody receives the outcome of a child.
LEMMA ChildDone ==
    ASSUME Flow, Routes, NEW ch \in Children, UNCHANGED <<kinds, taken>>, Finishes(ch)
    PROVE  Routes'
<1>0. /\ Busy(ch) /\ cpc' = [cpc EXCEPT ![ch] = "select"]
      /\ handled' = [handled EXCEPT ![ch] = Append(@, ccur[ch])]
      /\ UNCHANGED <<mpc, todo, ccur>>
    BY DEF Finishes
<1> USE <1>0
<1>1. RouteTypes /\ Sending /\ Parsing /\ Handled /\ Unskipped
    BY DEF Routes
<1>2. PICK L \in Nat : L = Len(taken)
    BY DEF Flow, FlowTypes
<1>3. PICK x \in Nat : x = ccur[ch]
    BY <1>1 DEF RouteTypes
<1>4. PICK s \in Seq(Nat) : s = handled[ch]
    BY <1>1 DEF RouteTypes
<1>5. /\ handled' \in [Children -> Seq(Nat)] /\ handled'[ch] = Append(s, x)
      /\ \A d \in Children : d # ch => handled'[d] = handled[d]
    BY <1>1, <1>3, <1>4 DEF RouteTypes
<1>6. RouteTypes'
    BY <1>1, <1>5 DEF RouteTypes
<1>7. /\ ~Busy(ch)'
      /\ \A d \in Children : d # ch => (Busy(d)' <=> Busy(d)) /\ Done(d)' = Done(d)
    BY <1>1, <1>5 DEF RouteTypes, Busy, Done
<1>8. \A n : n \in Done(ch)' <=> n \in Done(ch) \/ n = x
    BY <1>4, <1>5, AppendFacts DEF Done
<1>9. \A d, n : M!Open(d, Kind(n))' <=> M!Open(d, Kind(n))
    BY DEF Kind, M!Open, M!NetConnGate, M!NetStreamGate, M!DataStreamGate,
           M!StreamIdGate, M!MessageStreamGate, M!TypeIdGate
<1>10. x \in 1..L /\ M!Open(ch, Kind(x)) /\ x \notin Done(ch)
    BY <1>1, <1>2, <1>3 DEF Parsing
<1>11. Sending'
  <2> SUFFICES ASSUME NEW d \in todo
               PROVE  /\ L # 0
                      /\ M!Open(d, Kind(Len(taken)))'
                      /\ Busy(d)' => ccur[d] # L
                      /\ L \notin Done(d)'
      BY <1>2 DEF Sending
  <2>1. d \in Children
      BY <1>1 DEF RouteTypes
  <2>2. L # 0 /\ M!Open(d, Kind(Len(taken))) /\ (Busy(d) => ccur[d] # L) /\ L \notin Done(d)
      BY <1>1, <1>2 DEF Sending
  <2>3. M!Open(d, Kind(Len(taken)))'
      BY <2>2 DEF Kind, M!Open, M!NetConnGate, M!NetStreamGate, M!DataStreamGate,
                  M!StreamIdGate, M!MessageStreamGate, M!TypeIdGate
  <2>4. CASE d = ch
      BY <2>2, <2>3, <2>4, <1>3, <1>7, <1>8
  <2>5. CASE d # ch
      BY <2>1, <2>2, <2>3, <2>5, <1>7
  <2> QED BY <2>4, <2>5
<1>12. Parsing'
  <2> SUFFICES ASSUME NEW d \in Children, Busy(d)', NEW y \in Nat, y = ccur[d]
               PROVE  y \in 1..L /\ M!Open(d, Kind(y)) /\ y \notin Done(d)'
    <3>1. \A d \in Children : ccur[d] \in Nat
        BY <1>1 DEF RouteTypes
    <3> QED BY <3>1, <1>2 DEF Parsing, Kind, M!Open, M!NetConnGate, M!NetStreamGate,
               M!DataStreamGate, M!StreamIdGate, M!MessageStreamGate, M!TypeIdGate
  <2> QED BY <1>1, <1>2, <1>7 DEF Parsing
<1>13. Handled'
  <2> SUFFICES ASSUME NEW d \in Children, NEW n \in Done(d)'
               PROVE  n \in 1..L /\ M!Open(d, Kind(n))
      BY <1>2, <1>9 DEF Handled
  <2>1. CASE d = ch
      BY <2>1, <1>1, <1>2, <1>8, <1>10 DEF Handled
  <2>2. CASE d # ch
      BY <2>2, <1>1, <1>2, <1>7 DEF Handled
  <2> QED BY <2>1, <2>2
<1>14. Unskipped'
  <2> SUFFICES ASSUME NEW d \in Children, NEW n \in 1..L, M!Open(d, Kind(n))
               PROVE  \/ n \in Done(d)'
                      \/ Busy(d)' /\ ccur[d] = n
                      \/ n = L /\ d \in todo
      BY <1>2, <1>9 DEF Unskipped
  <2>1. \/ n \in Done(d)
        \/ Busy(d) /\ ccur[d] = n
        \/ n = L /\ d \in todo
      BY <1>1, <1>2 DEF Unskipped
  <2>2. CASE d = ch
      BY <2>1, <2>2, <1>3, <1>8
  <2>3. CASE d # ch
      BY <2>1, <2>3, <1>7
  <2> QED BY <2>2, <2>3
<1> QED BY <1>6, <1>11, <1>12, <1>13, <1>14 DEF Routes

-----------------------------------------------------------------------------
(* The invariant.                                                          *)

\* Before the first chunk nothing is anywhere.
LEMMA InitHolds ==
    ASSUME Init
    PROVE  IInv
<1>1. /\ kinds = <<>> /\ rpc = "idle" /\ ppc = "idle" /\ pcur = 0 /\ taken = <<>>
      /\ fpc = [id \in NetIds |-> "recv"] /\ fcur = [id \in NetIds |-> 0]
      /\ mpc = "idle" /\ todo = {} /\ spc = "idle" /\ scur = 0 /\ controls = <<>>
      /\ cpc = [ch \in Children |-> "idle"] /\ ccur = [ch \in Children |-> 0]
      /\ handled = [ch \in Children |-> <<>>]
    BY DEF Init, M!Init, S!Init, M!Children, Children
<1>2. Len(taken) = 0 /\ Len(controls) = 0 /\ N = 0 /\ ~Offering
    BY <1>1 DEF N, Offering
<1>3. \A id \in NetIds : fpc[id] # "send"
    BY <1>1
<1>4. \A i : ~Past(i)
    BY <1>2, <1>3 DEF Past, InFan, InManager, InControl
<1>5. FlowTypes /\ Before
    BY <1>1, <1>2, <1>4 DEF FlowTypes, Before
<1>6. FanIds /\ TakenIds /\ Somewhere
    BY <1>2, <1>3 DEF FanIds, TakenIds, Somewhere
<1>7. ControlIds
    BY <1>2 DEF ControlIds, InControl
<1>8. RouteTypes
    BY <1>1 DEF RouteTypes
<1>9. \A ch \in Children : ~Busy(ch) /\ Done(ch) = {}
  <2> SUFFICES ASSUME NEW ch \in Children PROVE ~Busy(ch) /\ Done(ch) = {}
      OBVIOUS
  <2>1. cpc[ch] = "idle" /\ handled[ch] = <<>>
      BY <1>1
  <2>2. 1..Len(handled[ch]) = {}
      BY <2>1
  <2> QED BY <2>1, <2>2 DEF Busy, Done
<1>10. Sending /\ Parsing /\ Handled /\ Unskipped
    BY <1>1, <1>2, <1>9 DEF Sending, Parsing, Handled, Unskipped
<1> QED BY <1>5, <1>6, <1>7, <1>8, <1>10 DEF IInv, Flow, Routes

\* The steps that are no business of the manager.
LEMMA OutsideKeeps ==
    ASSUME Flow, Routes, Lasting, UNCHANGED managerVars
    PROVE  Routes'
<1>1. RouteTypes' /\ \A ch \in Children : Busy(ch)' <=> Busy(ch)
    BY DEF Routes, RouteTypes, managerVars, Busy
<1> QED BY <1>1, RoutesStay DEF managerVars

\* Every step of every goroutine and of the user keeps the invariant.
LEMMA IInvStep == IInv /\ [Next]_vars => IInv'
<1> SUFFICES ASSUME IInv, [Next]_vars PROVE IInv'
    OBVIOUS
<1>1. Flow /\ Routes /\ FlowTypes /\ Before
    BY DEF IInv, Flow
<1>2. CASE Handshake \/ PartOrError \/ ReaderStep
  <2>1. kinds' = kinds /\ UNCHANGED managerVars
      BY <1>2, HandshakeFacts, ReaderFacts
  <2>2. Routes'
      BY <2>1, <1>1, LastingSame, OutsideKeeps
  <2> QED BY <2>2, <1>1, <1>2, ReaderKeeps DEF IInv
<1>3. ASSUME NEW k \in Kinds, NewChunk(k) PROVE IInv'
  <2>1. kinds' = Append(kinds, k) /\ UNCHANGED managerVars
      BY <1>3, NewChunkFacts
  <2>2. Routes'
      BY <2>1, <1>1, LastingMore, OutsideKeeps
  <2> QED BY <2>2, <1>1, <1>3, NewChunkKeeps DEF IInv
<1>4. CASE ParserStep
  <2>1. kinds' = kinds /\ UNCHANGED managerVars
      BY <1>1, <1>4, ParserFacts
  <2>2. Routes'
      BY <2>1, <1>1, LastingSame, OutsideKeeps
  <2> QED BY <2>2, <1>1, <1>4, ParserKeeps DEF IInv
<1>5. ASSUME NEW id \in NetIds, FanStep(id) PROVE IInv'
  <2>1. kinds' = kinds /\ UNCHANGED managerVars
      BY <1>1, <1>5, FanStepFacts
  <2>2. Routes'
      BY <2>1, <1>1, LastingSame, OutsideKeeps
  <2> QED BY <2>2, <1>1, <1>5, FanStepKeeps DEF IInv
<1>6. CASE ToControl
  <2>1. kinds' = kinds /\ UNCHANGED managerVars
      BY <1>1, <1>6, ToControlFacts
  <2>2. Routes'
      BY <2>1, <1>1, LastingSame, OutsideKeeps
  <2> QED BY <2>2, <1>1, <1>6, ToControlKeeps DEF IInv
<1>7. ASSUME NEW id \in NetIds, ToManager(id) PROVE IInv'
    BY <1>1, <1>7, ToManagerKeeps, ToManagerRoutes DEF IInv
<1>8. CASE Started
  <2>1. UNCHANGED <<kinds, rpc, ppc, pcur, fpc, fcur, taken, spc, scur, controls>>
      BY <1>8, StartedFacts DEF parserVars, controlVars
  <2> QED BY <2>1, <1>1, <1>8, FlowStays, StartedRoutes DEF IInv
<1>9. ASSUME NEW ch \in Children, ChildStep(ch) PROVE IInv'
  <2>1. UNCHANGED <<kinds, rpc, ppc, pcur, fpc, fcur, taken, spc, scur, controls>>
      BY <1>1, <1>9, ChildFacts DEF parserVars, controlVars
  <2>2. Starts(ch) \/ Takes(ch) \/ Finishes(ch)
      BY <1>1, <1>9, ChildFacts
  <2>3. UNCHANGED <<kinds, taken>>
      BY <2>1
  <2>4. Routes'
      BY <2>2, <2>3, <1>1, ChildStarts, ChildTakes, ChildDone
  <2> QED BY <2>1, <2>4, <1>1, FlowStays DEF IInv
<1>10. CASE ControlStep \/ CloseControls
  <2>1. kinds' = kinds /\ UNCHANGED managerVars
      BY <1>10, ControlFacts DEF parserVars
  <2>2. Routes'
      BY <2>1, <1>1, LastingSame, OutsideKeeps
  <2> QED BY <2>2, <1>1, <1>10, ControlKeeps DEF IInv
<1>11. CASE UNCHANGED vars
  <2>1. UNCHANGED <<kinds, rpc, ppc, pcur, fpc, fcur, taken, spc, scur, controls>>
        /\ UNCHANGED managerVars
      BY <1>11 DEF vars, parserVars, managerVars, controlVars
  <2>2. Routes'
      BY <2>1, <1>1, LastingSame, OutsideKeeps
  <2> QED BY <2>1, <2>2, <1>1, FlowStays DEF IInv
<1> QED BY <1>2, <1>3, <1>4, <1>5, <1>6, <1>7, <1>8, <1>9, <1>10, <1>11 DEF Next

\* The invariant holds in every reachable state.
THEOREM ClientInvariant == Spec => []IInv
BY InitHolds, IInvStep, PTL DEF Spec

-----------------------------------------------------------------------------
(* Exactly one goroutine holds a chunk.                                    *)

\* The gates of the three children exclude each other (Manager.Dispatch, "the set
\* of channels given is mutually exclusive").
LEMMA GatesExclusive ==
    ASSUME NEW k, NEW c \in Children, NEW d \in Children, M!Open(c, k), M!Open(d, k)
    PROVE  c = d
BY DEF Children, M!Open, M!NetConnGate, M!NetStreamGate, M!DataStreamGate,
       M!StreamIdGate, M!MessageStreamGate, M!TypeIdGate

\* No chunk is in two of the places.
LEMMA OnePlace ==
    ASSUME Flow, NEW i \in 1..N
    PROVE  /\ InReader(i) => ~InParser(i) /\ ~Past(i)
           /\ InParser(i) => ~Past(i)
           /\ InFan(i) => ~InManager(i) /\ ~InControl(i)
           /\ InManager(i) => ~InControl(i)
           /\ InControl(i) => kinds[i].csid = ControlId
           /\ InManager(i) \/ InFan(i) => kinds[i].csid \in NetIds
<1>1. FlowTypes /\ Before /\ FanIds /\ TakenIds /\ ControlIds
    BY DEF Flow
<1>2. N \in Nat /\ i \in Nat /\ pcur \in Nat
    BY <1>1 DEF FlowTypes, N
<1>3. InControl(i) => kinds[i].csid = ControlId
    BY <1>1, <1>2 DEF ControlIds
<1>4. InFan(i) => kinds[i].csid \in NetIds /\ ~InManager(i)
    BY <1>1 DEF FanIds, InFan
<1>5. InManager(i) => kinds[i].csid \in NetIds
    BY <1>1 DEF TakenIds, InManager
<1>6. InReader(i) => ~InParser(i) /\ ~Past(i)
    BY <1>1, <1>2 DEF Before, InReader, InParser
<1>7. InParser(i) => ~Past(i)
    BY <1>1, <1>2 DEF Before, InParser
<1> QED BY <1>3, <1>4, <1>5, <1>6, <1>7, ClientAssumption

\* The goroutines that hold a chunk, by the places of the invariant.
Sends(i)     == mpc = "send" /\ taken[Len(taken)] = i
Works(ch, i) == Busy(ch) /\ taken[ccur[ch]] = i

\* Holders(i), said with the places of the invariant.
LEMMA HolderFacts ==
    ASSUME Flow, NEW i \in 1..N
    PROVE  \A h : h \in Holders(i) <=>
              \/ h = "reader" /\ InReader(i)
              \/ h = "parser" /\ InParser(i)
              \/ h = "fan" /\ InFan(i)
              \/ h = "dispatch" /\ Sends(i)
              \/ h = "control" /\ Offering /\ scur = i
              \/ h \in Children /\ Works(h, i)
<1>1. P!ReaderHolds(i) <=> InReader(i)
    BY SameLengths DEF Flow, P!ReaderHolds, InReader
<1>2. P!ParserHolds(i) <=> InParser(i)
    BY DEF P!ParserHolds, InParser
<1>3. kinds[i].csid \in NetIds /\ P!FanHolds(i) <=> InFan(i)
  <2>1. DOMAIN kinds = 1..N
      BY SameLengths DEF Flow
  <2>2. P!FanHolds(i) <=> /\ kinds[i].csid \in NetIds
                          /\ fpc[kinds[i].csid] = "send" /\ fcur[kinds[i].csid] = i
      BY <2>1 DEF P!FanHolds
  <2>3. InFan(i) => fpc[kinds[i].csid] = "send" /\ fcur[kinds[i].csid] = i
                    /\ kinds[i].csid \in NetIds
      BY DEF Flow, FanIds, InFan
  <2> QED BY <2>2, <2>3 DEF InFan
<1>4. \A ch : M!Working(ch) <=> Busy(ch)
    BY DEF M!Working, Busy
<1> QED BY <1>1, <1>2, <1>3, <1>4 DEF Holders, Sends, Works, Offering, Children

\* The user has the outcome of the chunk, or Dispatch has found it is for nobody.
Gone(i) ==
    \/ i \in Range(Consumed(Dest(kinds[i])))
    \/ i \in Range(taken) /\ Dest(kinds[i]) = "nobody"

\* Who a chunk is for.
LEMMA DestFacts ==
    ASSUME NEW k
    PROVE  /\ k.csid = ControlId => Dest(k) = "control"
           /\ \A ch \in Children : k.csid \in NetIds /\ M!Open(ch, k) => Dest(k) = ch
           /\ k.csid \in NetIds /\ (\A ch \in Children : ~M!Open(ch, k)) => Dest(k) = "nobody"
           /\ k.csid \notin NetIds \cup {ControlId} => Dest(k) = "nobody"
<1>1. k.csid \in NetIds => k.csid # ControlId
    BY ClientAssumption
<1>2. k.csid = ControlId => Dest(k) = "control"
    BY <1>1 DEF Dest
<1>3. ASSUME NEW ch \in Children, k.csid \in NetIds, M!Open(ch, k) PROVE Dest(k) = ch
  <2>1. Dest(k) = CHOOSE c \in Children : M!Open(c, k)
      BY <1>1, <1>3 DEF Dest
  <2>2. Dest(k) \in Children /\ M!Open(Dest(k), k)
      BY <2>1, <1>3
  <2> QED BY <2>2, <1>3, GatesExclusive
<1>4. k.csid \in NetIds /\ (\A ch \in Children : ~M!Open(ch, k)) => Dest(k) = "nobody"
    BY <1>1 DEF Dest
<1>5. k.csid \notin NetIds \cup {ControlId} => Dest(k) = "nobody"
    BY DEF Dest
<1> QED BY <1>2, <1>3, <1>4, <1>5

\* What the user has received from whom, and what Dispatch has taken.
LEMMA ConsumedFacts ==
    ASSUME Flow, Routes, NEW i
    PROVE  /\ i \in Range(Consumed("control")) <=> \E n \in 1..Len(controls) : controls[n] = i
           /\ \A ch \in Children :
                 i \in Range(Consumed(ch)) <=> \E n \in Done(ch) : taken[n] = i
           /\ i \notin Range(Consumed("nobody"))
           /\ i \in Range(taken) <=> InManager(i)
<1>1. controls \in Seq(Nat) /\ taken \in Seq(Nat) /\ handled \in [Children -> Seq(Nat)]
    BY DEF Flow, FlowTypes, Routes, RouteTypes
<1>2. /\ Consumed("control") = controls
      /\ Consumed("nobody") = <<>>
    BY DEF Consumed, Children
<1>3. ASSUME NEW ch \in Children
      PROVE  i \in Range(Consumed(ch)) <=> \E n \in Done(ch) : taken[n] = i
  <2>1. Consumed(ch) = [n \in DOMAIN handled[ch] |-> taken[handled[ch][n]]]
      BY DEF Consumed, Children
  <2>2. DOMAIN handled[ch] = 1..Len(handled[ch])
      BY <1>1
  <2>3. Range(Consumed(ch)) = {taken[handled[ch][n]] : n \in 1..Len(handled[ch])}
      BY <2>1, <2>2 DEF Range
  <2> QED BY <2>3 DEF Done
<1>4. i \in Range(controls) <=> \E n \in 1..Len(controls) : controls[n] = i
    BY <1>1 DEF Range
<1>5. i \in Range(taken) <=> InManager(i)
    BY <1>1 DEF Range, InManager
<1>6. i \notin Range(<<>>)
    BY DEF Range
<1> QED BY <1>2, <1>3, <1>4, <1>5, <1>6

\* What is not yet with the manager or the control stream is not gone.
LEMMA NotGone ==
    ASSUME Flow, Routes, NEW i \in 1..N, ~InManager(i), ~InControl(i)
    PROVE  ~Gone(i)
<1>1. i \notin Range(taken)
    BY ConsumedFacts
<1>2. i \notin Range(Consumed("control")) /\ i \notin Range(Consumed("nobody"))
    BY ConsumedFacts DEF InControl
<1>3. \A ch \in Children : i \notin Range(Consumed(ch))
  <2>1. \A ch \in Children : \A n \in Done(ch) : taken[n] # i
      BY DEF Routes, Handled, InManager
  <2> QED BY <2>1, ConsumedFacts
<1>4. Dest(kinds[i]) \in Children \cup {"control", "nobody"}
    BY DestFacts
<1> QED BY <1>1, <1>2, <1>3, <1>4 DEF Gone

\* The chunk that Dispatch or a child holds is open to the child, which has not
\* handled it.
LEMMA ManagerFacts ==
    ASSUME Flow, Routes, NEW m \in 1..Len(taken)
    PROVE  /\ Sends(taken[m]) => m = Len(taken) /\ todo # {}
           /\ \A ch \in Children : Works(ch, taken[m]) => Busy(ch) /\ ccur[ch] = m
           /\ \A ch \in Children : (\E n \in Done(ch) : taken[n] = taken[m]) <=> m \in Done(ch)
<1>1. Len(taken) \in Nat /\ (\A a, b \in 1..Len(taken) : taken[a] = taken[b] => a = b)
    BY DEF Flow, FlowTypes, TakenIds
<1>2. Sends(taken[m]) => m = Len(taken) /\ todo # {}
  <2>1. Len(taken) \in 1..Len(taken)
      BY <1>1
  <2> QED BY <2>1, <1>1 DEF Sends, Routes, RouteTypes
<1>3. \A ch \in Children : Works(ch, taken[m]) => Busy(ch) /\ ccur[ch] = m
    BY <1>1 DEF Works, Routes, Parsing
<1>4. \A ch \in Children : (\E n \in Done(ch) : taken[n] = taken[m]) <=> m \in Done(ch)
    BY <1>1 DEF Routes, Handled
<1> QED BY <1>2, <1>3, <1>4

\* A chunk that Dispatch has taken: nobody holds it any more when no gate opens
\* for it or its child has handled it; the child holds it, or Dispatch does.
LEMMA WithManager ==
    ASSUME Flow, Routes, NEW i \in 1..N, InManager(i)
    PROVE  \/ Gone(i) /\ Holders(i) = {}
           \/ ~Gone(i) /\ \E h : Holders(i) = {h}
<1>1. PICK m \in 1..Len(taken) : taken[m] = i
    BY DEF InManager
<1>2. kinds[i].csid \in NetIds /\ kinds[i] = Kind(m)
    BY <1>1, OnePlace DEF Kind
<1>3. ~InReader(i) /\ ~InParser(i) /\ ~InFan(i) /\ ~InControl(i)
    BY OnePlace DEF Past
<1>4. \A h : h \in Holders(i) <=> \/ h = "dispatch" /\ Sends(i)
                                  \/ h \in Children /\ Works(h, i)
    BY <1>3, HolderFacts DEF InControl
<1>5. /\ Sends(i) => m = Len(taken) /\ todo # {}
      /\ \A ch \in Children : Works(ch, i) => Busy(ch) /\ ccur[ch] = m
      /\ \A ch \in Children : (\E n \in Done(ch) : taken[n] = i) <=> m \in Done(ch)
    BY <1>1, ManagerFacts
<1>6. /\ Sends(i) => \E ch \in todo : ch \in Children /\ M!Open(ch, Kind(m)) /\ m \notin Done(ch)
                                      /\ ~(Busy(ch) /\ ccur[ch] = m)
      /\ \A ch \in Children : Works(ch, i) => M!Open(ch, Kind(m)) /\ m \notin Done(ch)
    BY <1>5 DEF Routes, RouteTypes, Sending, Parsing
<1>7. CASE \A ch \in Children : ~M!Open(ch, Kind(m))
  <2>1. Dest(kinds[i]) = "nobody"
      BY <1>2, <1>7, DestFacts
  <2>2. Gone(i)
      BY <2>1, ConsumedFacts DEF Gone
  <2>3. \A h : h \notin Holders(i)
      BY <1>4, <1>6, <1>7
  <2> QED BY <2>2, <2>3
<1>8. ASSUME NEW ch \in Children, M!Open(ch, Kind(m))
      PROVE  \/ Gone(i) /\ Holders(i) = {}
             \/ ~Gone(i) /\ \E h : Holders(i) = {h}
  <2>1. \A d \in Children : M!Open(d, Kind(m)) => d = ch
      BY <1>8, GatesExclusive
  <2>2. Gone(i) <=> m \in Done(ch)
    <3>1. Dest(kinds[i]) = ch
        BY <1>2, <1>8, DestFacts
    <3>2. i \in Range(Consumed(ch)) <=> m \in Done(ch)
        BY <1>5, ConsumedFacts
    <3> QED BY <3>1, <3>2 DEF Gone, Children
  <2>3. CASE m \in Done(ch)
    <3>1. \A h : h \notin Holders(i)
        BY <2>1, <2>3, <1>4, <1>6
    <3> QED BY <3>1, <2>2, <2>3
  <2>4. CASE m \notin Done(ch) /\ Busy(ch) /\ ccur[ch] = m
    <3>1. ch \in Holders(i)
        BY <2>4, <1>1, <1>4 DEF Works
    <3>2. \A h \in Holders(i) : h = ch
        BY <2>1, <2>4, <1>4, <1>6
    <3> QED BY <3>1, <3>2, <2>2, <2>4
  <2>5. CASE m \notin Done(ch) /\ ~(Busy(ch) /\ ccur[ch] = m)
    <3>1. m = Len(taken) /\ ch \in todo
        BY <2>5, <1>8 DEF Routes, Unskipped
    <3>2. "dispatch" \in Holders(i)
        BY <3>1, <1>1, <1>4 DEF Sends, Routes, RouteTypes
    <3>3. \A h \in Holders(i) : h = "dispatch"
        BY <2>1, <2>5, <1>4, <1>5, <1>6
    <3> QED BY <3>2, <3>3, <2>2, <2>5
  <2> QED BY <2>3, <2>4, <2>5
<1> QED BY <1>7, <1>8

\* A chunk of the control stream: its goroutine holds it until the user has it.
LEMMA WithControl ==
    ASSUME Flow, Routes, NEW i \in 1..N, InControl(i)
    PROVE  \/ Gone(i) /\ Holders(i) = {}
           \/ ~Gone(i) /\ \E h : Holders(i) = {h}
<1>1. kinds[i].csid = ControlId /\ ~InReader(i) /\ ~InParser(i) /\ ~InFan(i) /\ ~InManager(i)
    BY OnePlace DEF Past
<1>2. ~Sends(i) /\ \A ch \in Children : ~Works(ch, i)
  <2>1. Sends(i) => InManager(i)
    <3>1. Sends(i) => Len(taken) # 0
        BY DEF Sends, Routes, RouteTypes, Sending
    <3>2. Len(taken) \in Nat
        BY DEF Flow, FlowTypes
    <3> QED BY <3>1, <3>2 DEF Sends, InManager
  <2>2. \A ch \in Children : Works(ch, i) => InManager(i)
      BY DEF Works, InManager, Routes, Parsing
  <2> QED BY <2>1, <2>2, <1>1
<1>3. \A h : h \in Holders(i) <=> h = "control" /\ Offering /\ scur = i
    BY <1>1, <1>2, HolderFacts
<1>4. Gone(i) <=> \E n \in 1..Len(controls) : controls[n] = i
  <2>1. Dest(kinds[i]) = "control"
      BY <1>1, DestFacts
  <2> QED BY <2>1, ConsumedFacts DEF Gone
<1>5. CASE Offering /\ scur = i
  <2>1. ~Gone(i)
      BY <1>4, <1>5 DEF Flow, ControlIds
  <2>2. Holders(i) = {"control"}
      BY <1>3, <1>5
  <2> QED BY <2>1, <2>2
<1>6. CASE ~(Offering /\ scur = i)
  <2>1. Gone(i)
      BY <1>4, <1>6 DEF InControl
  <2>2. Holders(i) = {}
      BY <1>3, <1>6
  <2> QED BY <2>1, <2>2
<1> QED BY <1>5, <1>6

\* A chunk that is neither with the manager nor with the control stream is held
\* by the reader, the parser or a fan-in goroutine.
LEMMA OnTheWay ==
    ASSUME Flow, Routes, NEW i \in 1..N, ~InManager(i), ~InControl(i)
    PROVE  ~Gone(i) /\ \E h : Holders(i) = {h}
<1>1. ~Gone(i)
    BY NotGone
<1>2. ~Sends(i) /\ \A ch \in Children : ~Works(ch, i)
  <2>1. Sends(i) => InManager(i)
    <3>1. Sends(i) => Len(taken) # 0
        BY DEF Sends, Routes, RouteTypes, Sending
    <3>2. Len(taken) \in Nat
        BY DEF Flow, FlowTypes
    <3> QED BY <3>1, <3>2 DEF Sends, InManager
  <2>2. \A ch \in Children : Works(ch, i) => InManager(i)
      BY DEF Works, InManager, Routes, Parsing
  <2> QED BY <2>1, <2>2
<1>3. \A h : h \in Holders(i) <=> \/ h = "reader" /\ InReader(i)
                                  \/ h = "parser" /\ InParser(i)
                                  \/ h = "fan" /\ InFan(i)
    BY <1>2, HolderFacts DEF InControl
<1>4. InReader(i) \/ InParser(i) \/ InFan(i)
    BY DEF Flow, Somewhere, Past
<1>5. /\ InReader(i) => ~InParser(i) /\ ~InFan(i)
      /\ InParser(i) => ~InFan(i)
    BY OnePlace DEF Past
<1>6. \E h : Holders(i) = {h}
  <2>1. CASE InReader(i)
    <3>1. Holders(i) = {"reader"}
        BY <2>1, <1>3, <1>5
    <3> QED BY <3>1
  <2>2. CASE InParser(i)
    <3>1. Holders(i) = {"parser"}
        BY <2>2, <1>3, <1>5
    <3> QED BY <3>1
  <2>3. CASE InFan(i)
    <3>1. Holders(i) = {"fan"}
        BY <2>3, <1>3, <1>5
    <3> QED BY <3>1
  <2> QED BY <2>1, <2>2, <2>3, <1>4
<1> QED BY <1>1, <1>6

\* So a chunk is held by one goroutine until it is gone, and then by none.
LEMMA HolderOf == IInv => OneHolder
<1> SUFFICES ASSUME IInv PROVE OneHolder
    OBVIOUS
<1>1. Flow /\ Routes
    BY DEF IInv
<1>2. DOMAIN kinds = 1..N
    BY <1>1, SameLengths DEF Flow
<1>3. ASSUME NEW i \in 1..N
      PROVE  Cardinality(Holders(i)) = IF Gone(i) THEN 0 ELSE 1
  <2>1. \/ Gone(i) /\ Holders(i) = {}
        \/ ~Gone(i) /\ \E h : Holders(i) = {h}
      BY <1>1, WithManager, WithControl, OnTheWay
  <2>2. Holders(i) = {} => Cardinality(Holders(i)) = 0
      BY FS_EmptySet
  <2>3. (\E h : Holders(i) = {h}) => Cardinality(Holders(i)) = 1
      BY FS_Singleton
  <2> QED BY <2>1, <2>2, <2>3
<1> QED BY <1>2, <1>3 DEF OneHolder, Gone

\* From the last byte of a chunk to its consumer exactly one goroutine of the
\* client holds it, and none when the user has its outcome or no gate opens for it,
\* for any chunks, any streams and any number of chunks (Reader.Recv, Parser.Recv,
\* MultiStream.Append, Manager.Dispatch, the loops of the children and of the control
\* stream).
THEOREM HeldByOne == Spec => []OneHolder
BY ClientInvariant, HolderOf, PTL

-----------------------------------------------------------------------------
(* The chunks of one chunk stream, among those that a consumer received.   *)

\* The rank of a place grows with it and is at most the number of places.
LEMMA RankFacts ==
    ASSUME NEW l \in Nat, NEW Q \in SUBSET (1..l)
    PROVE  /\ IsFiniteSet(Q) /\ Cardinality(Q) \in Nat
           /\ \A n \in Q : Rank(n, Q) \in 1..Cardinality(Q)
           /\ \A m, n \in Q : m < n => Rank(m, Q) < Rank(n, Q)
<1>1. IsFiniteSet(Q) /\ Cardinality(Q) \in Nat
  <2>1. IsFiniteSet(1..l)
      BY FS_Interval
  <2>2. IsFiniteSet(Q)
      BY <2>1, FS_Subset
  <2> QED BY <2>2, FS_CardinalityType
<1>2. ASSUME NEW n
      PROVE  /\ IsFiniteSet({m \in Q : m <= n}) /\ Rank(n, Q) \in Nat
             /\ Rank(n, Q) <= Cardinality(Q)
  <2>1. {m \in Q : m <= n} \in SUBSET Q
      OBVIOUS
  <2>2. IsFiniteSet({m \in Q : m <= n}) /\ Cardinality({m \in Q : m <= n}) <= Cardinality(Q)
      BY <1>1, <2>1, FS_Subset
  <2>3. Cardinality({m \in Q : m <= n}) \in Nat
      BY <2>2, FS_CardinalityType
  <2> QED BY <2>2, <2>3 DEF Rank
<1>3. ASSUME NEW n \in Q PROVE Rank(n, Q) # 0
  <2>1. n \in {m \in Q : m <= n}
      OBVIOUS
  <2>2. {m \in Q : m <= n} # {}
      BY <2>1
  <2>3. IsFiniteSet({m \in Q : m <= n})
      BY <1>2
  <2>4. Cardinality({m \in Q : m <= n}) # 0
      BY <2>2, <2>3, FS_EmptySet
  <2> QED BY <2>4 DEF Rank
<1>4. ASSUME NEW m \in Q, NEW n \in Q, m < n PROVE Rank(m, Q) < Rank(n, Q)
  <2> DEFINE A == {i \in Q : i <= m}
             B == {i \in Q : i <= n}
  <2>1. A \in SUBSET B /\ n \in B /\ n \notin A
    <3>1. Q \subseteq Nat /\ m \in Nat /\ n \in Nat
        OBVIOUS
    <3>2. \A i \in Q : i <= m => i <= n
        BY <3>1, <1>4
    <3>3. n <= n /\ ~(n <= m)
        BY <3>1, <1>4
    <3>4. A \in SUBSET B
        BY <3>2
    <3> QED BY <3>3, <3>4
  <2>2. A # B
      BY <2>1
  <2>3. IsFiniteSet(B) /\ Rank(n, Q) = Cardinality(B) /\ Rank(m, Q) = Cardinality(A)
      BY <1>2 DEF Rank
  <2>4. Rank(m, Q) \in Nat /\ Rank(n, Q) \in Nat
      BY <1>2
  <2> HIDE DEF A, B
  <2>5. Cardinality(A) <= Cardinality(B) /\ Cardinality(A) # Cardinality(B)
      BY <2>1, <2>2, <2>3, FS_Subset
  <2> QED BY <2>3, <2>4, <2>5
<1>5. ASSUME NEW n \in Q PROVE Rank(n, Q) \in 1..Cardinality(Q)
  <2>1. PICK r \in Nat : r = Rank(n, Q)
      BY <1>2
  <2>2. r <= Cardinality(Q) /\ r # 0
      BY <2>1, <1>2, <1>3
  <2> QED BY <2>1, <2>2, <1>1
<1> QED BY <1>1, <1>4, <1>5

\* Every rank is that of one place.
LEMMA RankedOnce ==
    ASSUME NEW l \in Nat, NEW Q \in SUBSET (1..l), NEW k \in 1..Cardinality(Q)
    PROVE  \E n \in Q : /\ Rank(n, Q) = k
                        /\ \A m \in Q : Rank(m, Q) = k => m = n
<1> DEFINE f == [n \in Q |-> Rank(n, Q)]
           C == Cardinality(Q)
<1>1. /\ IsFiniteSet(Q) /\ C \in Nat
      /\ \A n \in Q : Rank(n, Q) \in 1..C
      /\ \A m, n \in Q : m < n => Rank(m, Q) < Rank(n, Q)
    BY RankFacts
<1>2. \A m, n \in Q : Rank(m, Q) = Rank(n, Q) => m = n
  <2> SUFFICES ASSUME NEW m \in Q, NEW n \in Q, Rank(m, Q) = Rank(n, Q), m # n PROVE FALSE
      OBVIOUS
  <2>1. m < n \/ n < m
      OBVIOUS
  <2>2. Rank(m, Q) \in Nat /\ Rank(n, Q) \in Nat
      BY <1>1
  <2> QED BY <2>1, <2>2, <1>1
<1>3. f \in Injection(Q, 1..C)
  <2>1. f \in [Q -> 1..C]
      BY <1>1
  <2>2. \A m, n \in Q : f[m] = f[n] => m = n
      BY <1>2
  <2> QED BY <2>1, <2>2 DEF Injection, IsInjective
<1>4. IsFiniteSet(1..C) /\ Cardinality(1..C) = C
    BY <1>1, FS_Interval
<1>5. f \in Surjection(Q, 1..C)
    BY <1>1, <1>3, <1>4, FS_Injection
<1>6. \A x \in 1..C : \E n \in Q : f[n] = x
    BY <1>5 DEF Surjection
<1>7. PICK n \in Q : f[n] = k
    BY <1>6
<1> QED BY <1>7, <1>2

\* What the elements of Picked are.
LEMMA PickedFacts ==
    ASSUME NEW l \in Nat, NEW Q \in SUBSET (1..l), NEW s
    PROVE  /\ DOMAIN Picked(s, Q) = 1..Cardinality(Q)
           /\ \A n \in Q : Picked(s, Q)[Rank(n, Q)] = s[n]
           /\ \A k \in 1..Cardinality(Q) : \E n \in Q : Rank(n, Q) = k
<1>1. \A k \in 1..Cardinality(Q) : \E n \in Q : /\ Rank(n, Q) = k
                                                /\ \A m \in Q : Rank(m, Q) = k => m = n
    BY RankedOnce
<1>2. ASSUME NEW n \in Q PROVE Picked(s, Q)[Rank(n, Q)] = s[n]
  <2>1. PICK k \in 1..Cardinality(Q) : k = Rank(n, Q)
      BY RankFacts
  <2>2. \A m \in Q : Rank(m, Q) = k => m = n
      BY <1>1, <2>1
  <2>3. (CHOOSE m \in Q : Rank(m, Q) = k) = n
      BY <2>1, <2>2
  <2> QED BY <2>1, <2>3 DEF Picked
<1> QED BY <1>1, <1>2 DEF Picked

\* Places that hold the same give the same.
LEMMA PickedSame ==
    ASSUME NEW l \in Nat, NEW Q \in SUBSET (1..l), NEW s, NEW t, \A n \in Q : t[n] = s[n]
    PROVE  Picked(t, Q) = Picked(s, Q)
<1>1. ASSUME NEW k \in 1..Cardinality(Q) PROVE Picked(t, Q)[k] = Picked(s, Q)[k]
  <2>1. PICK n \in Q : Rank(n, Q) = k
      BY PickedFacts
  <2>2. Picked(t, Q)[Rank(n, Q)] = t[n] /\ Picked(s, Q)[Rank(n, Q)] = s[n]
      BY PickedFacts
  <2> QED BY <2>1, <2>2
<1>2. /\ Picked(t, Q) = [k \in 1..Cardinality(Q) |-> Picked(t, Q)[k]]
      /\ Picked(s, Q) = [k \in 1..Cardinality(Q) |-> Picked(s, Q)[k]]
    BY DEF Picked
<1> QED BY <1>1, <1>2

\* e is a place more.
OneMore(t, s, Q, e) == Picked(t, Q \cup {e}) = Append(Picked(s, Q), t[e])

\* One more place, behind the others, gives one more element at the end.
LEMMA PickedMore ==
    ASSUME NEW l \in Nat, NEW e \in Nat, e = l + 1, NEW Q \in SUBSET (1..l), NEW s, NEW t,
           \A n \in Q : t[n] = s[n],
           \A n \in Q : s[n] \in Nat, t[e] \in Nat
    PROVE  OneMore(t, s, Q, e)
<1> DEFINE R == Q \cup {e}
           C == Cardinality(Q)
           x == t[e]
<1>1. R \in SUBSET (1..e) /\ e \notin Q /\ e \in R
    OBVIOUS
<1>2. IsFiniteSet(Q) /\ C \in Nat
    BY RankFacts
<1>3. Cardinality(R) = C + 1
    BY <1>1, <1>2, FS_AddElement
<1>4. \A n \in Q : Rank(n, R) = Rank(n, Q)
  <2> SUFFICES ASSUME NEW n \in Q PROVE {m \in R : m <= n} = {m \in Q : m <= n}
      BY DEF Rank
  <2>1. ~(e <= n)
      OBVIOUS
  <2> QED BY <2>1
<1>5. Rank(e, R) = C + 1
  <2>1. \A m \in R : m <= e
      OBVIOUS
  <2>2. {m \in R : m <= e} = R
      BY <2>1
  <2> QED BY <2>2, <1>3 DEF Rank
<1>6. /\ Picked(t, R) = [k \in 1..(C + 1) |-> Picked(t, R)[k]]
      /\ Picked(s, Q) = [k \in 1..C |-> Picked(s, Q)[k]]
    BY <1>3 DEF Picked
<1> HIDE DEF R, C, x
<1>7. Picked(t, R)[C + 1] = x
  <2>1. \A i \in R : Picked(t, R)[Rank(i, R)] = t[i]
      BY <1>1, PickedFacts
  <2> QED BY <2>1, <1>1, <1>5 DEF x
<1>8. ASSUME NEW k \in 1..C
      PROVE  Picked(t, R)[k] = Picked(s, Q)[k] /\ Picked(s, Q)[k] \in Nat
  <2>1. PICK n \in Q : Rank(n, Q) = k
      BY PickedFacts DEF C
  <2>2. n \in R /\ Rank(n, R) = k
      BY <2>1, <1>4 DEF R
  <2>3. Picked(t, R)[Rank(n, R)] = t[n]
    <3>1. \A i \in R : Picked(t, R)[Rank(i, R)] = t[i]
        BY <1>1, PickedFacts
    <3> QED BY <3>1, <2>2
  <2>4. Picked(s, Q)[Rank(n, Q)] = s[n]
      BY PickedFacts
  <2> QED BY <2>1, <2>2, <2>3, <2>4
<1>9. PICK p : p = Picked(s, Q)
    OBVIOUS
<1>10. p \in [1..C -> Nat]
    BY <1>6, <1>8, <1>9
<1>11. p \in Seq(Nat) /\ Len(p) = C
    BY <1>2, <1>10
<1>12. x \in Nat
    BY DEF x
<1>13. PICK q : q = Append(p, x)
    OBVIOUS
<1>14. /\ q \in Seq(Nat) /\ Len(q) = C + 1 /\ q[C + 1] = x
       /\ \A k \in 1..C : q[k] = p[k]
    BY <1>11, <1>12, <1>13, AppendFacts
<1>15. q = [k \in 1..(C + 1) |-> q[k]]
    BY <1>14
<1>16. \A k \in 1..(C + 1) : Picked(t, R)[k] = q[k]
  <2> SUFFICES ASSUME NEW k \in 1..(C + 1), k # C + 1 PROVE Picked(t, R)[k] = q[k]
      BY <1>7, <1>14
  <2>1. k \in 1..C
      BY <1>2
  <2> QED BY <2>1, <1>8, <1>9, <1>14
<1>17. Picked(t, R) = q
    BY <1>6, <1>15, <1>16
<1> QED BY <1>17, <1>9, <1>13 DEF R, x, OneMore

\* The chunks in s that came on chunk stream c, when K are the chunks.
Chosen(K, s, c) == Picked(s, {n \in DOMAIN s : K[s[n]].csid = c})

SameChosen(L, K, s, c) == Chosen(L, s, c) = Chosen(K, s, c)

\* They stay the same when the chunks do.
LEMMA ChosenSame ==
    ASSUME NEW K, NEW L, NEW s \in Seq(Nat), NEW c, \A n \in 1..Len(s) : L[s[n]] = K[s[n]]
    PROVE  SameChosen(L, K, s, c)
<1>1. DOMAIN s = 1..Len(s)
    OBVIOUS
<1>2. {n \in DOMAIN s : L[s[n]].csid = c} = {n \in DOMAIN s : K[s[n]].csid = c}
    BY <1>1
<1> QED BY <1>2 DEF SameChosen, Chosen

MoreChosen(K, s, x, c) ==
    Chosen(K, Append(s, x), c)
      = IF K[x].csid = c THEN Append(Chosen(K, s, c), x) ELSE Chosen(K, s, c)

\* One more chunk is one more of its chunk stream.
LEMMA ChosenMore ==
    ASSUME NEW K, NEW s \in Seq(Nat), NEW x \in Nat, NEW c
    PROVE  MoreChosen(K, s, x, c)
<1> DEFINE Q == {n \in DOMAIN s : K[s[n]].csid = c}
<1>1. PICK t : t = Append(s, x)
    OBVIOUS
<1>2. PICK l \in Nat : l = Len(s)
    OBVIOUS
<1>3. /\ DOMAIN t = 1..(l + 1) /\ DOMAIN s = 1..l /\ t[l + 1] = x
      /\ \A n \in 1..l : t[n] = s[n] /\ s[n] \in Nat
    BY <1>1, <1>2, AppendFacts
<1>4. Q \in SUBSET (1..l)
    BY <1>3
<1>5. \A n \in Q : t[n] = s[n] /\ s[n] \in Nat
    BY <1>3, <1>4
<1>6. DOMAIN t = 1..l \cup {l + 1}
    BY <1>3
<1>7. CASE K[x].csid = c
  <2>1. {n \in DOMAIN t : K[t[n]].csid = c} = Q \cup {l + 1}
      BY <1>3, <1>6, <1>7
  <2> HIDE DEF Q
  <2>2. Picked(t, Q \cup {l + 1}) = Append(Picked(s, Q), t[l + 1])
    <3>1. PICK e \in Nat : e = l + 1
        OBVIOUS
    <3>2. t[e] \in Nat /\ (\A n \in Q : t[n] = s[n]) /\ (\A n \in Q : s[n] \in Nat)
        BY <3>1, <1>3, <1>5
    <3>3. OneMore(t, s, Q, e)
        BY <3>1, <3>2, <1>4, PickedMore, Zenon
    <3> QED BY <3>1, <3>3 DEF OneMore
  <2>3. Chosen(K, t, c) = Append(Picked(s, Q), x)
      BY <2>1, <2>2, <1>3 DEF Chosen
  <2> QED BY <2>3, <1>1, <1>7 DEF MoreChosen, Chosen, Q
<1>8. CASE K[x].csid # c
  <2>1. {n \in DOMAIN t : K[t[n]].csid = c} = Q
      BY <1>3, <1>6, <1>8
  <2> HIDE DEF Q
  <2>2. Picked(t, Q) = Picked(s, Q)
      BY <1>4, <1>5, PickedSame
  <2>3. Chosen(K, t, c) = Picked(s, Q)
      BY <2>1, <2>2 DEF Chosen
  <2> QED BY <2>3, <1>1, <1>8 DEF MoreChosen, Chosen, Q
<1> QED BY <1>7, <1>8

ElementsChosen(K, s, c, i) ==
    (\E k \in DOMAIN Chosen(K, s, c) : Chosen(K, s, c)[k] = i)
      <=> (K[i].csid = c /\ \E n \in 1..Len(s) : s[n] = i)

\* And they are all that came on that chunk stream.
LEMMA ChosenElements ==
    ASSUME NEW K, NEW s \in Seq(Nat), NEW c, NEW i
    PROVE  ElementsChosen(K, s, c, i)
<1> DEFINE Q == {n \in DOMAIN s : K[s[n]].csid = c}
<1>1. PICK l \in Nat : l = Len(s)
    OBVIOUS
<1>2. DOMAIN s = 1..l /\ Q \in SUBSET (1..l) /\ Chosen(K, s, c) = Picked(s, Q)
    BY <1>1 DEF Chosen
<1>3. \A n \in Q : Rank(n, Q) \in 1..Cardinality(Q)
    BY <1>2, RankFacts
<1>4. /\ DOMAIN Picked(s, Q) = 1..Cardinality(Q)
      /\ \A n \in Q : Picked(s, Q)[Rank(n, Q)] = s[n]
      /\ \A k \in 1..Cardinality(Q) : \E n \in Q : Rank(n, Q) = k
    BY <1>2, PickedFacts
<1>5. (\E n \in Q : s[n] = i) <=> (K[i].csid = c /\ \E n \in 1..Len(s) : s[n] = i)
    BY <1>1, <1>2
<1> HIDE DEF Q
<1>6. (\E k \in DOMAIN Picked(s, Q) : Picked(s, Q)[k] = i) <=> (\E n \in Q : s[n] = i)
    BY <1>3, <1>4, Zenon
<1> QED BY <1>2, <1>5, <1>6 DEF ElementsChosen

-----------------------------------------------------------------------------
(* The order within a chunk stream.                                        *)

\* What Dispatch takes of a chunk stream is in order, and what its fan-in goroutine
\* holds comes after it.
InLine ==
    /\ \A m, n \in 1..Len(taken) :
          m < n /\ Kind(m).csid = Kind(n).csid => taken[m] < taken[n]
    /\ \A id \in NetIds : fpc[id] = "send" =>
          \A n \in 1..Len(taken) : Kind(n).csid = id => taken[n] < fcur[id]

\* It stays so when neither of them gets a chunk.
LEMMA InLineStays ==
    ASSUME Flow, InLine, Lasting, UNCHANGED <<taken, fpc, fcur>>
    PROVE  InLine'
<1>1. \A n \in 1..Len(taken) : Kind(n)' = Kind(n)
    BY KindsStay
<1> QED BY <1>1 DEF InLine

\* The parser gives a chunk to a fan-in goroutine.
LEMMA FanStepInLine ==
    ASSUME Flow, InLine, NEW id \in NetIds, FanStep(id)
    PROVE  InLine'
<1>1. FlowTypes /\ Before
    BY DEF Flow
<1>2. /\ ppc = "deliver" /\ fpc' = [fpc EXCEPT ![id] = "send"]
      /\ fcur' = [fcur EXCEPT ![id] = pcur] /\ kinds' = kinds /\ taken' = taken
    BY <1>1, FanStepFacts DEF managerVars
<1>3. \A n : Kind(n)' = Kind(n)
    BY <1>2 DEF Kind
<1>4. \A n \in 1..Len(taken) : taken[n] < pcur
  <2>1. \A n \in 1..Len(taken) : Past(taken[n]) /\ taken[n] \in Nat
      BY <1>1, PastFacts DEF Past, FlowTypes
  <2> QED BY <2>1, <1>1, <1>2 DEF Before
<1>5. fpc \in [NetIds -> {"recv", "send"}] /\ fcur \in [NetIds -> Nat]
    BY <1>1 DEF FlowTypes
<1>6. \A d \in NetIds : d # id => fpc'[d] = fpc[d] /\ fcur'[d] = fcur[d]
    BY <1>2, <1>5
<1>7. fcur'[id] = pcur
    BY <1>2, <1>5
<1>8. ASSUME NEW d \in NetIds, fpc'[d] = "send", NEW n \in 1..Len(taken), Kind(n).csid = d
      PROVE  taken[n] < fcur'[d]
    BY <1>4, <1>6, <1>7, <1>8 DEF InLine
<1> QED BY <1>2, <1>3, <1>8 DEF InLine

\* A fan-in goroutine gives its chunk to Dispatch.
LEMMA ToManagerInLine ==
    ASSUME Flow, InLine, NEW id \in NetIds, ToManager(id)
    PROVE  InLine'
<1>1. FlowTypes /\ Before /\ FanIds
    BY DEF Flow
<1>2. /\ fpc[id] = "send" /\ fpc' = [fpc EXCEPT ![id] = "recv"]
      /\ taken' = Append(taken, fcur[id]) /\ kinds' = kinds /\ fcur' = fcur
    BY ToManagerFacts
<1>3. PICK x \in Nat : x = fcur[id]
    BY <1>1 DEF FlowTypes
<1>4. PICK l \in Nat : l = Len(taken)
    BY <1>1 DEF FlowTypes
<1>5. /\ Len(taken') = l + 1 /\ taken'[l + 1] = x
      /\ \A n \in 1..l : taken'[n] = taken[n]
      /\ \A n \in 1..(l + 1) : n \in 1..l \/ n = l + 1
    BY <1>1, <1>2, <1>3, <1>4, AppendFacts DEF FlowTypes
<1>6. \A n \in 1..l : Kind(n)' = Kind(n)
    BY <1>2, <1>5 DEF Kind
<1>7. Kind(l + 1)'.csid = id
    BY <1>1, <1>2, <1>3, <1>5 DEF Kind, FanIds
<1>8. \A n \in 1..l : Kind(n).csid = id => taken[n] < x
    BY <1>2, <1>3, <1>4 DEF InLine
<1>9. fpc'[id] = "recv" /\ \A d \in NetIds : d # id => fpc'[d] = fpc[d]
    BY <1>1, <1>2 DEF FlowTypes
<1>10. ASSUME NEW m \in 1..(l + 1), NEW n \in 1..(l + 1), m < n, Kind(m)'.csid = Kind(n)'.csid
       PROVE  taken'[m] < taken'[n]
  <2>1. m \in 1..l
      BY <1>10
  <2>2. CASE n \in 1..l
      BY <2>1, <2>2, <1>4, <1>5, <1>6, <1>10 DEF InLine
  <2>3. CASE n = l + 1
      BY <2>1, <2>3, <1>5, <1>6, <1>7, <1>8, <1>10
  <2> QED BY <2>2, <2>3, <1>5
<1>11. ASSUME NEW d \in NetIds, fpc'[d] = "send", NEW n \in 1..(l + 1), Kind(n)'.csid = d
       PROVE  taken'[n] < fcur'[d]
  <2>1. d # id /\ fpc[d] = "send"
      BY <1>9, <1>11
  <2>2. n \in 1..l
      BY <2>1, <1>5, <1>7, <1>11
  <2> QED BY <2>1, <2>2, <1>2, <1>4, <1>5, <1>6, <1>11 DEF InLine
<1> QED BY <1>5, <1>10, <1>11 DEF InLine

\* Every step keeps the order.
LEMMA InLineStep == IInv /\ InLine /\ [Next]_vars => InLine'
<1> SUFFICES ASSUME IInv, InLine, [Next]_vars PROVE InLine'
    OBVIOUS
<1>1. Flow /\ FlowTypes /\ Before
    BY DEF IInv, Flow
<1>2. CASE kinds' = kinds /\ UNCHANGED <<taken, fpc, fcur>>
    BY <1>1, <1>2, LastingSame, InLineStays
<1>3. CASE Handshake \/ PartOrError \/ ReaderStep
    BY <1>2, <1>3, HandshakeFacts, ReaderFacts DEF managerVars
<1>4. ASSUME NEW k \in Kinds, NewChunk(k) PROVE InLine'
  <2>1. kinds' = Append(kinds, k) /\ UNCHANGED <<taken, fpc, fcur>>
      BY <1>4, NewChunkFacts DEF managerVars
  <2> QED BY <2>1, <1>1, LastingMore, InLineStays
<1>5. CASE ParserStep
    BY <1>1, <1>2, <1>5, ParserFacts DEF managerVars
<1>6. ASSUME NEW id \in NetIds, FanStep(id) PROVE InLine'
    BY <1>1, <1>6, FanStepInLine
<1>7. CASE ToControl
    BY <1>1, <1>2, <1>7, ToControlFacts DEF managerVars
<1>8. ASSUME NEW id \in NetIds, ToManager(id) PROVE InLine'
    BY <1>1, <1>8, ToManagerInLine
<1>9. CASE Started
    BY <1>2, <1>9, StartedFacts DEF parserVars
<1>10. ASSUME NEW ch \in Children, ChildStep(ch) PROVE InLine'
    BY <1>1, <1>2, <1>10, ChildFacts DEF parserVars
<1>11. CASE ControlStep \/ CloseControls
    BY <1>2, <1>11, ControlFacts DEF parserVars, managerVars
<1>12. CASE UNCHANGED vars
    BY <1>2, <1>12 DEF vars, parserVars, managerVars
<1> QED BY <1>3, <1>4, <1>5, <1>6, <1>7, <1>8, <1>9, <1>10, <1>11, <1>12 DEF Next

\* So the order holds in every reachable state.
LEMMA InLineAlways == Spec => [](IInv /\ InLine)
<1>1. Init => InLine
  <2>1. Init => taken = <<>> /\ Len(taken) = 0
      BY DEF Init
  <2> QED BY <2>1 DEF InLine
<1> QED BY <1>1, InLineStep, ClientInvariant, PTL DEF Spec

-----------------------------------------------------------------------------
(* The refinement.                                                         *)

\* The variables of the abstract specification.
Marks == [i \in DOMAIN kinds |-> <<Dest(kinds[i]), kinds[i].csid>>]
Outs  == [x \in Dests \X Csids |-> Chosen(kinds, Consumed(x[1]), x[2])]

\* What the mapping of Client gives.
LEMMA Mapped ==
    /\ E2E!vars = <<Marks, Outs>>
    /\ E2E!Init <=> Marks = <<>> /\ Outs = [x \in Dests \X Csids |-> <<>>]
BY DEF E2E!vars, E2E!Init, Marks, Outs, OfStream, Chosen

\* What consumers have received are chunks of the connection.
LEMMA ConsumedTypes ==
    ASSUME Flow, Routes, NEW d \in Dests
    PROVE  /\ Consumed(d) \in Seq(Nat)
           /\ \A n \in 1..Len(Consumed(d)) : Consumed(d)[n] \in 1..N
<1>1. controls \in Seq(Nat) /\ taken \in Seq(Nat) /\ handled \in [Children -> Seq(Nat)]
    BY DEF Flow, FlowTypes, Routes, RouteTypes
<1>2. CASE d = "control"
  <2>1. Consumed(d) = controls
      BY <1>2 DEF Consumed, Children
  <2>2. \A n \in 1..Len(controls) : InControl(controls[n]) /\ controls[n] \in Nat
      BY <1>1 DEF InControl
  <2> QED BY <2>1, <2>2, <1>1, PastFacts DEF Flow
<1>3. CASE d = "nobody"
  <2>1. Consumed(d) = <<>>
      BY <1>3 DEF Consumed, Children
  <2> QED BY <2>1
<1>4. CASE d \in Children
  <2>1. Consumed(d) = [n \in DOMAIN handled[d] |-> taken[handled[d][n]]]
      BY <1>4 DEF Consumed, Children
  <2>2. PICK h \in Seq(Nat) : h = handled[d]
      BY <1>1, <1>4
  <2>3. \A n \in 1..Len(h) : h[n] \in 1..Len(taken)
      BY <1>4, <2>2 DEF Routes, Handled, Done
  <2>4. \A n \in 1..Len(h) : taken[h[n]] \in 1..N /\ taken[h[n]] \in Nat
      BY <2>3, <1>1, PastFacts DEF Flow
  <2>5. PICK l \in Nat : l = Len(h)
      BY <2>2
  <2>6. Consumed(d) = [n \in 1..l |-> taken[h[n]]]
      BY <2>1, <2>2, <2>5
  <2>7. Consumed(d) \in [1..l -> Nat] /\ Len(Consumed(d)) = l
      BY <2>4, <2>5, <2>6
  <2> QED BY <2>4, <2>5, <2>6, <2>7
<1> QED BY <1>2, <1>3, <1>4 DEF Dests

\* When nobody receives anything, nothing changes but for chunks that are complete.
LEMMA OutsStay ==
    ASSUME Flow, Routes, Lasting, \A d \in Dests : Consumed(d)' = Consumed(d)
    PROVE  Outs' = Outs
<1>1. ASSUME NEW d \in Dests, NEW c
      PROVE  Chosen(kinds', Consumed(d)', c) = Chosen(kinds, Consumed(d), c)
  <2>1. PICK s \in Seq(Nat) : s = Consumed(d)
      BY ConsumedTypes
  <2>2. \A n \in 1..Len(s) : kinds'[s[n]] = kinds[s[n]]
      BY <2>1, ConsumedTypes DEF Lasting
  <2>3. SameChosen(kinds', kinds, s, c)
      BY <2>2, ChosenSame, Zenon
  <2> QED BY <2>1, <2>3 DEF SameChosen
<1>2. \A x \in Dests \X Csids :
         Chosen(kinds', Consumed(x[1])', x[2]) = Chosen(kinds, Consumed(x[1]), x[2])
    BY <1>1
<1> QED BY <1>2 DEF Outs

\* A step that moves chunks between goroutines is a stutter.
LEMMA Stutters ==
    ASSUME Flow, Routes, kinds' = kinds, \A d \in Dests : Consumed(d)' = Consumed(d)
    PROVE  UNCHANGED E2E!vars
<1>1. Outs' = Outs
    BY LastingSame, OutsStay DEF Flow
<1>2. Marks' = Marks
    BY DEF Marks
<1> QED BY <1>1, <1>2 DEF E2E!vars, Marks, Outs, OfStream, Chosen

\* Where a chunk goes is one of the consumers.
LEMMA DestIsOne == \A k : Dest(k) \in Dests
BY DestFacts DEF Dests

\* A chunk that is complete is one more.
LEMMA Completes ==
    ASSUME Flow, Routes, NEW k \in Kinds, NewChunk(k)
    PROVE  E2E!Next
<1>1. kinds' = Append(kinds, k) /\ UNCHANGED <<managerVars, controlVars>>
    BY NewChunkFacts
<1>2. Lasting
    BY <1>1, LastingMore DEF Flow
<1>3. \A d \in Dests : Consumed(d)' = Consumed(d)
    BY <1>1 DEF Consumed, managerVars, controlVars
<1>4. Outs' = Outs
    BY <1>2, <1>3, OutsStay
<1> DEFINE x == <<Dest(k), k.csid>>
<1>5. x \in Dests \X Csids
    BY DestIsOne DEF Csids
<1>6. Marks' = Append(Marks, x)
  <2>1. PICK l \in Nat : l = N
      BY DEF Flow, FlowTypes, N
  <2>2. /\ DOMAIN kinds = 1..l /\ DOMAIN kinds' = 1..(l + 1) /\ kinds'[l + 1] = k
        /\ \A i \in 1..l : kinds'[i] = kinds[i]
      BY <1>1, <2>1 DEF Flow, FlowTypes, N
  <2>3. PICK p : p = Marks
      OBVIOUS
  <2>4. p = [i \in 1..l |-> <<Dest(kinds[i]), kinds[i].csid>>]
      BY <2>2, <2>3 DEF Marks
  <2>5. p \in Seq(Dests \X Csids) /\ Len(p) = l
    <3>1. \A i \in 1..l : kinds[i] \in Kinds
        BY <2>1 DEF Flow, FlowTypes, N
    <3>2. \A i \in 1..l : <<Dest(kinds[i]), kinds[i].csid>> \in Dests \X Csids
        BY <3>1, DestIsOne DEF Csids
    <3> QED BY <2>4, <3>2
  <2>6. PICK q : q = Append(p, x)
      OBVIOUS
  <2> HIDE DEF x
  <2>7. q = [i \in 1..(l + 1) |-> q[i]] /\ q[l + 1] = x /\ \A i \in 1..l : q[i] = p[i]
    <3>1. PICK X : X = Dests \X Csids
        OBVIOUS
    <3>2. p \in Seq(X) /\ Len(p) = l /\ x \in X
        BY <3>1, <2>5, <1>5
    <3>3. q \in Seq(X) /\ Len(q) = l + 1 /\ q[l + 1] = x /\ \A i \in 1..l : q[i] = p[i]
        BY <3>2, <2>6
    <3> QED BY <3>3
  <2>8. Marks' = [i \in 1..(l + 1) |-> <<Dest(kinds'[i]), kinds'[i].csid>>]
      BY <2>2 DEF Marks
  <2>9. \A i \in 1..(l + 1) : q[i] = <<Dest(kinds'[i]), kinds'[i].csid>>
    <3> SUFFICES ASSUME NEW i \in 1..(l + 1) PROVE q[i] = <<Dest(kinds'[i]), kinds'[i].csid>>
        OBVIOUS
    <3>1. CASE i \in 1..l
        BY <3>1, <2>2, <2>4, <2>7
    <3>2. CASE i = l + 1
        BY <3>2, <2>2, <2>7 DEF x
    <3> QED BY <3>1, <3>2
  <2>10. Marks' = q
      BY <2>7, <2>8, <2>9
  <2> QED BY <2>3, <2>6, <2>10
<1> HIDE DEF x
<1>7. E2E!Complete(x)
    BY <1>4, <1>6 DEF E2E!Complete, Marks, Outs, OfStream, Chosen
<1> QED BY <1>5, <1>7 DEF E2E!Next

\* A consumer that receives the oldest of its chunks of a chunk stream is handed it
\* out.
LEMMA HandsOut ==
    ASSUME Flow, Routes, kinds' = kinds, NEW d \in Dests, NEW i \in 1..N, Dest(kinds[i]) = d,
           Consumed(d)' = Append(Consumed(d), i),
           \A e \in Dests : e # d => Consumed(e)' = Consumed(e),
           \A n \in 1..Len(Consumed(d)) : Consumed(d)[n] # i,
           \A j \in 1..N :
              j < i /\ Dest(kinds[j]) = d /\ kinds[j].csid = kinds[i].csid =>
                 \E n \in 1..Len(Consumed(d)) : Consumed(d)[n] = j
    PROVE  E2E!Next
<1>1. PICK c : c = kinds[i].csid
    OBVIOUS
<1>2. PICK s \in Seq(Nat) : s = Consumed(d)
    BY ConsumedTypes
<1>3. DOMAIN kinds = 1..N /\ N \in Nat /\ i \in Nat /\ kinds[i] \in Kinds
    BY DEF Flow, FlowTypes, N
<1>4. c \in Csids
    BY <1>1, <1>3 DEF Csids
<1> DEFINE x == <<d, c>>
<1>5. x \in Dests \X Csids /\ x[1] = d /\ x[2] = c
    BY <1>4
<1>6. \A j \in 1..N : Marks[j] = <<Dest(kinds[j]), kinds[j].csid>>
    BY <1>3 DEF Marks
<1>7. Outs[x] = Chosen(kinds, s, c)
    BY <1>2, <1>5 DEF Outs
<1>8. \A j : j \in E2E!Received(x) <=> kinds[j].csid = c /\ \E n \in 1..Len(s) : s[n] = j
  <2> SUFFICES ASSUME NEW j
               PROVE  j \in E2E!Received(x)
                        <=> kinds[j].csid = c /\ \E n \in 1..Len(s) : s[n] = j
      OBVIOUS
  <2>1. E2E!Received(x) = {Outs[x][k] : k \in DOMAIN Outs[x]}
      BY DEF E2E!Received, Outs, OfStream, Chosen
  <2>2. ElementsChosen(kinds, s, c, j)
      BY ChosenElements, Zenon
  <2>3. j \in E2E!Received(x)
          <=> \E k \in DOMAIN Chosen(kinds, s, c) : Chosen(kinds, s, c)[k] = j
      BY <2>1, <1>7
  <2> QED BY <2>2, <2>3 DEF ElementsChosen
<1>9. Outs' = [Outs EXCEPT ![x] = Append(@, i)]
  <2>1. \A b : MoreChosen(kinds, s, i, b)
      BY <1>3, ChosenMore, Zenon
  <2>2. Outs' = [y \in Dests \X Csids |-> Chosen(kinds, Consumed(y[1])', y[2])]
      BY DEF Outs
  <2>3. Outs = [y \in Dests \X Csids |-> Chosen(kinds, Consumed(y[1]), y[2])]
      BY DEF Outs
  <2>4. ASSUME NEW e \in Dests, NEW b \in Csids
        PROVE  Chosen(kinds, Consumed(e)', b)
                 = IF <<e, b>> = x THEN Append(Chosen(kinds, s, c), i)
                   ELSE Chosen(kinds, Consumed(e), b)
    <3>1. CASE e # d
      <4>1. Consumed(e)' = Consumed(e)
          BY <3>1
      <4>2. <<e, b>> # x
          BY <3>1
      <4> QED BY <4>1, <4>2
    <3>2. CASE e = d
      <4>1. Chosen(kinds, Consumed(e)', b) = Chosen(kinds, Append(s, i), b)
          BY <3>2, <1>2
      <4>2. Chosen(kinds, Append(s, i), b)
               = IF kinds[i].csid = b THEN Append(Chosen(kinds, s, b), i)
                 ELSE Chosen(kinds, s, b)
          BY <2>1 DEF MoreChosen
      <4>3. <<e, b>> = x <=> kinds[i].csid = b
          BY <3>2, <1>1
      <4> QED BY <4>1, <4>2, <4>3, <3>2, <1>1, <1>2
    <3> QED BY <3>1, <3>2
  <2>5. \A y \in Dests \X Csids :
           Chosen(kinds, Consumed(y[1])', y[2])
             = IF y = x THEN Append(Chosen(kinds, s, c), i)
               ELSE Chosen(kinds, Consumed(y[1]), y[2])
      BY <2>4
  <2> HIDE DEF x
  <2> QED BY <2>2, <2>3, <2>5, <1>5, <1>7
<1>10. Marks' = Marks
    BY DEF Marks
<1>11. DOMAIN Marks = 1..N
    BY <1>3 DEF Marks
<1> HIDE DEF x
<1>12. E2E!HandOut(x, i)
  <2>1. i \in DOMAIN Marks /\ Marks[i] = x
      BY <1>1, <1>6, <1>11 DEF x
  <2>2. i \notin E2E!Received(x)
      BY <1>2, <1>8
  <2>3. \A j \in DOMAIN Marks : j < i /\ Marks[j] = x => j \in E2E!Received(x)
    <3> SUFFICES ASSUME NEW j \in 1..N, j < i, Marks[j] = x PROVE j \in E2E!Received(x)
        BY <1>11
    <3>1. Dest(kinds[j]) = d /\ kinds[j].csid = c
        BY <1>6 DEF x
    <3>2. \E n \in 1..Len(s) : s[n] = j
        BY <3>1, <1>1, <1>2
    <3> QED BY <3>1, <3>2, <1>8
  <2> QED BY <2>1, <2>2, <2>3, <1>9, <1>10
          DEF E2E!HandOut, Marks, Outs, OfStream, Chosen
<1>13. i \in DOMAIN [j \in DOMAIN kinds |-> <<Dest(kinds[j]), kinds[j].csid>>]
    BY <1>3
<1> QED BY <1>5, <1>12, <1>13 DEF E2E!Next

\* The user receives the outcome of a child.
LEMMA ChildHandsOut ==
    ASSUME Flow, Routes, InLine, NEW ch \in Children, Finishes(ch),
           UNCHANGED <<kinds, taken, controls>>
    PROVE  E2E!Next
<1>1. /\ Busy(ch) /\ handled' = [handled EXCEPT ![ch] = Append(@, ccur[ch])]
    BY DEF Finishes
<1>2. handled \in [Children -> Seq(Nat)] /\ ccur[ch] \in Nat /\ Len(taken) \in Nat
    BY DEF Routes, RouteTypes, Flow, FlowTypes
<1>3. /\ ccur[ch] \in 1..Len(taken) /\ M!Open(ch, Kind(ccur[ch])) /\ ccur[ch] \notin Done(ch)
    BY <1>1 DEF Routes, Parsing
<1>4. PICK o \in 1..Len(taken) : o = ccur[ch]
    BY <1>3
<1>5. PICK i \in 1..N : i = taken[o] /\ InManager(i)
    BY PastFacts DEF Flow
<1>6. kinds[i].csid \in NetIds /\ Dest(kinds[i]) = ch /\ Kind(o) = kinds[i]
  <2>1. kinds[i].csid \in NetIds
      BY <1>5, OnePlace
  <2> QED BY <2>1, <1>3, <1>4, <1>5, DestFacts DEF Kind
<1>7. PICK h \in Seq(Nat) : h = handled[ch]
    BY <1>2
<1>8. ch \in Dests /\ Consumed(ch) = [n \in DOMAIN h |-> taken[h[n]]]
    BY <1>7 DEF Consumed, Children, Dests
<1>9. PICK l \in Nat : l = Len(h)
    BY <1>7
<1>10. Consumed(ch)' = Append(Consumed(ch), i)
  <2>1. PICK g : g = Append(h, o)
      OBVIOUS
  <2>2. /\ DOMAIN g = 1..(l + 1) /\ DOMAIN h = 1..l /\ g[l + 1] = o
        /\ \A n \in 1..l : g[n] = h[n]
      BY <2>1, <1>4, <1>7, <1>9, <1>2, AppendFacts
  <2>3. handled'[ch] = g
      BY <1>1, <1>2, <1>4, <1>7, <2>1
  <2>4. Consumed(ch)' = [n \in 1..(l + 1) |-> taken[g[n]]]
      BY <2>2, <2>3 DEF Consumed, Children
  <2>5. PICK s \in Seq(Nat) : s = Consumed(ch)
      BY <1>8, ConsumedTypes
  <2>6. s = [n \in 1..l |-> taken[h[n]]] /\ Len(s) = l
      BY <2>2, <2>5, <1>8
  <2>7. PICK q : q = Append(s, i)
      OBVIOUS
  <2>8. q \in Seq(Nat) /\ Len(q) = l + 1 /\ q[l + 1] = i /\ \A n \in 1..l : q[n] = s[n]
      BY <2>6, <2>7, AppendFacts
  <2>9. q = [n \in 1..(l + 1) |-> q[n]]
      BY <2>8
  <2>10. \A n \in 1..(l + 1) : q[n] = taken[g[n]]
    <3> SUFFICES ASSUME NEW n \in 1..(l + 1) PROVE q[n] = taken[g[n]]
        OBVIOUS
    <3>1. CASE n \in 1..l
        BY <3>1, <2>2, <2>6, <2>8
    <3>2. CASE n = l + 1
        BY <3>2, <2>2, <2>8, <1>5
    <3> QED BY <3>1, <3>2
  <2> QED BY <2>4, <2>5, <2>7, <2>9, <2>10
<1>11. \A e \in Dests : e # ch => Consumed(e)' = Consumed(e)
    BY <1>1, <1>2 DEF Consumed, Children, Dests
<1>12. \A j : (\E n \in 1..Len(Consumed(ch)) : Consumed(ch)[n] = j)
                 <=> \E n \in Done(ch) : taken[n] = j
  <2>1. DOMAIN h = 1..l
      BY <1>7, <1>9
  <2>2. Consumed(ch) = [n \in 1..l |-> taken[h[n]]] /\ Len(Consumed(ch)) = l
      BY <2>1, <1>8
  <2> QED BY <2>2, <1>7, <1>9 DEF Done
<1>13. \A m, n \in 1..Len(taken) : taken[m] = taken[n] => m = n
    BY DEF Flow, TakenIds
<1>14. \A n \in 1..Len(Consumed(ch)) : Consumed(ch)[n] # i
  <2>1. \A n \in Done(ch) : n \in 1..Len(taken)
      BY DEF Routes, Handled
  <2>2. ~(\E n \in Done(ch) : taken[n] = i)
      BY <2>1, <1>3, <1>4, <1>5, <1>13
  <2> QED BY <2>2, <1>12
<1>15. ASSUME NEW j \in 1..N, j < i, Dest(kinds[j]) = ch, kinds[j].csid = kinds[i].csid
       PROVE  \E n \in 1..Len(Consumed(ch)) : Consumed(ch)[n] = j
  <2>1. N \in Nat /\ i \in Nat /\ j \in Nat /\ pcur \in Nat
      BY DEF Flow, FlowTypes, N
  <2>2. ~InReader(j) /\ ~InParser(j)
    <3>1. Past(i)
        BY <1>5 DEF Past
    <3>2. (rpc = "sendChunk" => i < N) /\ (ppc = "deliver" => i < pcur)
        BY <3>1, <2>1 DEF Flow, Before
    <3> QED BY <3>2, <2>1, <1>15 DEF InReader, InParser
  <2>3. ~InControl(j)
      BY <1>6, <1>15, OnePlace, ClientAssumption
  <2>4. ~InFan(j)
    <3> SUFFICES ASSUME InFan(j) PROVE FALSE
        OBVIOUS
    <3>1. PICK id \in NetIds : fpc[id] = "send" /\ fcur[id] = j
        BY DEF InFan
    <3>2. kinds[j].csid = id
        BY <3>1 DEF Flow, FanIds
    <3>3. taken[o] < fcur[id]
        BY <3>1, <3>2, <1>6, <1>15 DEF InLine
    <3> QED BY <3>1, <3>3, <2>1, <1>5, <1>15
  <2>5. InManager(j)
      BY <2>2, <2>3, <2>4 DEF Flow, Somewhere, Past
  <2>6. PICK m \in 1..Len(taken) : taken[m] = j
      BY <2>5 DEF InManager
  <2>7. m < o
    <3> SUFFICES ASSUME ~(m < o) PROVE FALSE
        OBVIOUS
    <3>1. m # o
        BY <2>1, <2>6, <1>5, <1>15
    <3>2. o < m
        BY <3>1, <1>2
    <3>3. taken[o] < taken[m]
        BY <3>2, <2>6, <1>5, <1>6, <1>15 DEF InLine, Kind
    <3> QED BY <3>3, <2>1, <2>6, <1>5, <1>15
  <2>8. M!Open(ch, Kind(m))
    <3>1. kinds[j].csid \in NetIds
        BY <1>6, <1>15
    <3>2. \E d \in Children : M!Open(d, kinds[j])
        BY <3>1, <1>15, DestFacts DEF Children
    <3>3. PICK d \in Children : M!Open(d, kinds[j])
        BY <3>2
    <3>4. d = ch
        BY <3>1, <3>3, <1>15, DestFacts
    <3> QED BY <3>3, <3>4, <2>6 DEF Kind
  <2>9. m \in Done(ch)
    <3>1. m # o /\ m # Len(taken)
        BY <2>7, <1>2
    <3> QED BY <3>1, <2>8, <1>4 DEF Routes, Unskipped
  <2> QED BY <2>6, <2>9, <1>12
<1> QED BY <1>6, <1>8, <1>10, <1>11, <1>14, <1>15, HandsOut

\* The user receives the outcome of the control stream.
LEMMA ControlHandsOut ==
    ASSUME Flow, Routes, Offering, controls' = Append(controls, scur),
           UNCHANGED <<parserVars, managerVars>>
    PROVE  E2E!Next
<1>1. controls \in Seq(Nat) /\ scur \in Nat /\ InControl(scur)
    BY DEF Flow, FlowTypes, InControl
<1>2. PICK i \in 1..N : i = scur
    BY <1>1, PastFacts DEF Flow
<1>3. kinds[i].csid = ControlId /\ Dest(kinds[i]) = "control"
    BY <1>1, <1>2, OnePlace, DestFacts
<1>4. PICK d \in Dests : d = "control"
    BY DEF Dests
<1>5. Consumed(d) = controls /\ Consumed(d)' = Append(controls, i) /\ kinds' = kinds
    BY <1>2, <1>4 DEF Consumed, Children, parserVars
<1>6. \A e \in Dests : e # d => Consumed(e)' = Consumed(e)
    BY <1>4 DEF Consumed, Children, Dests, managerVars
<1>7. \A n \in 1..Len(controls) : controls[n] # i
    BY <1>2 DEF Flow, ControlIds
<1>8. ASSUME NEW j \in 1..N, j < i, kinds[j].csid = kinds[i].csid
      PROVE  \E n \in 1..Len(controls) : controls[n] = j
  <2>1. N \in Nat /\ i \in Nat /\ j \in Nat /\ pcur \in Nat
      BY DEF Flow, FlowTypes, N
  <2>2. ~InReader(j) /\ ~InParser(j)
    <3>1. Past(i)
        BY <1>1, <1>2 DEF Past
    <3>2. (rpc = "sendChunk" => i < N) /\ (ppc = "deliver" => i < pcur)
        BY <3>1, <2>1 DEF Flow, Before
    <3> QED BY <3>2, <2>1, <1>8 DEF InReader, InParser
  <2>3. ~InFan(j) /\ ~InManager(j)
      BY <1>3, <1>8, OnePlace, ClientAssumption
  <2>4. InControl(j) /\ scur # j
      BY <2>1, <2>2, <2>3, <1>2, <1>8 DEF Flow, Somewhere, Past
  <2> QED BY <2>4 DEF InControl
<1> QED BY <1>3, <1>4, <1>5, <1>6, <1>7, <1>8, HandsOut

\* Nothing that a consumer has received changes when Dispatch takes a chunk.
LEMMA ToManagerStutters ==
    ASSUME Flow, Routes, NEW id \in NetIds, ToManager(id)
    PROVE  UNCHANGED E2E!vars
<1>1. taken' = Append(taken, fcur[id]) /\ kinds' = kinds /\ handled' = handled
      /\ controls' = controls
    BY ToManagerFacts DEF controlVars
<1>2. \A n \in 1..Len(taken) : taken'[n] = taken[n]
  <2>1. taken \in Seq(Nat) /\ fcur[id] \in Nat
      BY DEF Flow, FlowTypes
  <2> QED BY <2>1, <1>1, AppendFacts
<1>3. ASSUME NEW d \in Dests PROVE Consumed(d)' = Consumed(d)
  <2>1. CASE d \in Children
    <3>1. handled[d] \in Seq(Nat)
        BY <2>1 DEF Routes, RouteTypes
    <3>2. \A n \in DOMAIN handled[d] : handled[d][n] \in 1..Len(taken)
        BY <3>1, <2>1 DEF Routes, Handled, Done
    <3> QED BY <3>2, <2>1, <1>1, <1>2 DEF Consumed, Children
  <2>2. CASE d \in {"control", "nobody"}
      BY <2>2, <1>1 DEF Consumed, Children
  <2> QED BY <2>1, <2>2 DEF Dests
<1> QED BY <1>1, <1>3, Stutters

\* What consumers have received changes with the histories only.
LEMMA ConsumedStay ==
    ASSUME UNCHANGED <<taken, handled, controls>>
    PROVE  \A d \in Dests : Consumed(d)' = Consumed(d)
BY DEF Consumed

\* Every step of the client is a step of the abstract specification, or none.
LEMMA EndToEndStep == IInv /\ InLine /\ [Next]_vars => [E2E!Next]_(E2E!vars)
<1> SUFFICES ASSUME IInv, InLine, [Next]_vars PROVE E2E!Next \/ UNCHANGED E2E!vars
    OBVIOUS
<1>1. Flow /\ Routes /\ FlowTypes /\ Before
    BY DEF IInv, Flow
<1>2. CASE kinds' = kinds /\ UNCHANGED <<taken, handled, controls>>
    BY <1>1, <1>2, ConsumedStay, Stutters
<1>3. CASE Handshake \/ PartOrError \/ ReaderStep
    BY <1>2, <1>3, HandshakeFacts, ReaderFacts DEF managerVars, controlVars
<1>4. ASSUME NEW k \in Kinds, NewChunk(k) PROVE E2E!Next
    BY <1>1, <1>4, Completes
<1>5. CASE ParserStep
    BY <1>1, <1>2, <1>5, ParserFacts DEF managerVars, controlVars
<1>6. ASSUME NEW id \in NetIds, FanStep(id) PROVE UNCHANGED E2E!vars
  <2>1. kinds' = kinds /\ UNCHANGED <<taken, handled, controls>>
      BY <1>1, <1>6, FanStepFacts DEF managerVars, controlVars
  <2> QED BY <2>1, <1>1, ConsumedStay, Stutters
<1>7. CASE ToControl
    BY <1>1, <1>2, <1>7, ToControlFacts DEF managerVars
<1>8. ASSUME NEW id \in NetIds, ToManager(id) PROVE UNCHANGED E2E!vars
    BY <1>1, <1>8, ToManagerStutters
<1>9. CASE Started
    BY <1>2, <1>9, StartedFacts DEF parserVars, controlVars
<1>10. ASSUME NEW ch \in Children, ChildStep(ch) PROVE E2E!Next \/ UNCHANGED E2E!vars
  <2>1. UNCHANGED <<kinds, taken, controls>>
      BY <1>1, <1>10, ChildFacts DEF parserVars, controlVars
  <2>2. CASE Starts(ch) \/ Takes(ch)
      BY <2>1, <2>2, <1>2 DEF Starts, Takes
  <2>3. CASE Finishes(ch)
      BY <2>1, <2>3, <1>1, ChildHandsOut
  <2> QED BY <2>2, <2>3, <1>1, <1>10, ChildFacts
<1>11. CASE ControlStep \/ CloseControls
  <2>1. UNCHANGED <<parserVars, managerVars>>
      BY <1>11, ControlFacts
  <2>2. CASE controls' = controls
      BY <2>1, <2>2, <1>2 DEF parserVars, managerVars
  <2>3. CASE Offering /\ controls' = Append(controls, scur)
      BY <2>1, <2>3, <1>1, ControlHandsOut
  <2> QED BY <2>2, <2>3, <1>11, ControlFacts
<1>12. CASE UNCHANGED vars
    BY <1>2, <1>12 DEF vars, parserVars, managerVars, controlVars
<1> QED BY <1>3, <1>4, <1>5, <1>6, <1>7, <1>8, <1>9, <1>10, <1>11, <1>12 DEF Next

\* Nothing is complete and nothing received at first.
LEMMA EndToEndInit == Init => E2E!Init
<1> SUFFICES ASSUME Init PROVE E2E!Init
    OBVIOUS
<1>1. kinds = <<>> /\ controls = <<>> /\ handled = [ch \in Children |-> <<>>]
    BY DEF Init, M!Init, S!Init, M!Children, Children
<1>2. Marks = <<>>
  <2>1. DOMAIN kinds = {}
      BY <1>1
  <2> QED BY <2>1 DEF Marks
<1>3. ASSUME NEW d \in Dests PROVE Consumed(d) = <<>>
  <2>1. CASE d \in Children
    <3>1. Consumed(d) = [n \in DOMAIN handled[d] |-> taken[handled[d][n]]]
        BY <2>1 DEF Consumed, Children
    <3>2. DOMAIN handled[d] = {}
        BY <1>1, <2>1
    <3> QED BY <3>1, <3>2
  <2>2. CASE d \in {"control", "nobody"}
      BY <2>2, <1>1 DEF Consumed, Children
  <2> QED BY <2>1, <2>2 DEF Dests
<1>4. ASSUME NEW c PROVE Chosen(kinds, <<>>, c) = <<>>
  <2>1. {n \in DOMAIN <<>> : kinds[<<>>[n]].csid = c} = {}
      OBVIOUS
  <2>2. Chosen(kinds, <<>>, c) = [k \in 1..0 |-> <<>>[CHOOSE n \in {} : Rank(n, {}) = k]]
      BY <2>1, FS_EmptySet DEF Chosen, Picked
  <2>3. 1..0 = {}
      OBVIOUS
  <2> QED BY <2>2, <2>3
<1>5. Outs = [x \in Dests \X Csids |-> <<>>]
  <2>1. \A x \in Dests \X Csids : Chosen(kinds, Consumed(x[1]), x[2]) = <<>>
      BY <1>3, <1>4
  <2> QED BY <2>1 DEF Outs
<1> QED BY <1>2, <1>5, Mapped

\* End to end the client delivers every chunk as StreamDelivery says: each consumer
\* gets its chunks of a chunk stream once and in the order of the connection, for any
\* chunks, any streams and any number of chunks (client.New, Manager.Dispatch,
\* MultiStream.Append, control.Stream.Recv).
THEOREM DeliversEndToEnd == Spec => EndToEnd
BY EndToEndInit, EndToEndStep, InLineAlways, PTL DEF Spec, EndToEnd, E2E!Spec
=============================================================================
