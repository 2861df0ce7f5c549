---------------------------- MODULE ControlStream ----------------------------
(***************************************************************************)
(* control.Stream: Recv parses the chunks of the control chunk stream and  *)
(* offers a control sequence on In() or an error on Errs().  The channels  *)
(* are unbuffered.  Where the chunks come from is left to the module that  *)
(* uses this one; a chunk is known by its place on the connection.         *)
(***************************************************************************)
EXTENDS Naturals, Sequences

VARIABLES
    spc,       \* Recv
    scur,      \* the place of the chunk that Recv works on
    controls,  \* history: the places whose outcome was received
    scloser    \* a caller of Close
vars == <<spc, scur, controls, scloser>>

Init ==
    /\ spc = "idle"
    /\ scur = 0
    /\ controls = <<>>
    /\ scloser = "idle"

\* The control sequences that NewParser knows: Set Chunk Size, Abort Message,
\* Acknowledgement, Event, Window Acknowledgement Size, Set Peer Bandwidth.
ControlTypes == 1..6

\* Parse finds the type and Read gets all the bytes it wants.
Parses(k) == k.type \in ControlTypes /\ k.ok

\* go stream.Recv()
StartRecv ==
    /\ spc = "idle"
    /\ spc' = "select"
    /\ UNCHANGED <<scur, controls, scloser>>

\* Mutant: only what parses is kept.
TakeParsed(i, k) ==
    /\ spc = "select"
    /\ scur' = i
    /\ spc' = IF Parses(k) THEN "sendIn" ELSE "select"
    /\ UNCHANGED <<controls, scloser>>

\* Chunk k, the i-th of the connection, is received and parsed.
Take(i, k) ==
    /\ spc = "select"
    /\ scur' = i
    /\ spc' = IF Parses(k) THEN "sendIn" ELSE "sendErr"
    /\ UNCHANGED <<controls, scloser>>

\* Mutant: an error ends Recv.
OutcomeOnce ==
    /\ spc \in {"sendIn", "sendErr"}
    /\ controls' = Append(controls, scur)
    /\ spc' = IF spc = "sendIn" THEN "select" ELSE "done"
    /\ UNCHANGED <<scur, scloser>>

\* Somebody receives the control sequence or the error.
Outcome ==
    /\ spc \in {"sendIn", "sendErr"}
    /\ controls' = Append(controls, scur)
    /\ spc' = "select"
    /\ UNCHANGED <<scur, scloser>>

\* Close is called, once: Recv closes the channel that it sends on.
Close ==
    /\ scloser = "idle"
    /\ scloser' = "sending"
    /\ UNCHANGED <<spc, scur, controls>>

\* Recv receives the close, closes in, errs and closer, and returns.
TakeClose ==
    /\ spc = "select"
    /\ scloser = "sending"
    /\ spc' = "done"
    /\ scloser' = "returned"
    /\ UNCHANGED <<scur, controls>>
=============================================================================
