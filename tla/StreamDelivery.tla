--------------------------- MODULE StreamDelivery ---------------------------
(***************************************************************************)
(* What the chunk package promises to the readers of its chunk streams:    *)
(* "Each chunk that is sent over _any_ chunk stream is normalized, and     *)
(* then sent down the appropriate chunk stream" (chunk/parser.go).  A      *)
(* chunk is known by its place in the order in which the connection        *)
(* completed the chunks; every stream hands out exactly its own chunks,    *)
(* each once, in that order.  Nothing is said about the order between two  *)
(* different streams.                                                      *)
(***************************************************************************)
EXTENDS Naturals, Sequences

CONSTANT Ids           \* chunk stream ids

VARIABLES log,         \* log[i] is the chunk stream id of the i-th chunk
          got          \* got[id] is the places handed out by stream id
vars == <<log, got>>

\* The places that stream id has handed out so far.
Received(id) == {got[id][k] : k \in DOMAIN got[id]}

Init ==
    /\ log = <<>>
    /\ got = [id \in Ids |-> <<>>]

\* One more chunk is complete.
Complete(id) ==
    /\ log' = Append(log, id)
    /\ UNCHANGED got

\* Stream id hands out i, the oldest of its chunks not handed out yet.
HandOut(id, i) ==
    /\ i \in DOMAIN log
    /\ log[i] = id
    /\ i \notin Received(id)
    /\ \A j \in DOMAIN log : j < i /\ log[j] = id => j \in Received(id)
    /\ got' = [got EXCEPT ![id] = Append(@, i)]
    /\ UNCHANGED log

Next == \E id \in Ids : Complete(id) \/ \E i \in DOMAIN log : HandOut(id, i)

Spec == Init /\ [][Next]_vars
=============================================================================
