------------------------------ MODULE MCClient ------------------------------
(***************************************************************************)
(* Client with a control sequence, one that is too short, a command for    *)
(* the stream and a frame on the same chunk stream, a command on another,  *)
(* and a chunk on a stream that client.New does not ask for.               *)
(***************************************************************************)
EXTENDS Client

Kind(c, m, t, name, ok) ==
    [csid |-> c, msid |-> m, type |-> t, name |-> name, ok |-> ok]
KindSet == {Kind(2, 0, 5, "", TRUE), Kind(2, 0, 4, "", FALSE),
            Kind(4, 1, 20, "publish", TRUE), Kind(4, 1, 9, "", TRUE),
            Kind(8, 1, 20, "FCUnpublish", TRUE), Kind(6, 0, 20, "connect", TRUE)}
NetSet == {4, 8}
=============================================================================
