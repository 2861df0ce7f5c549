---------------------------- MODULE MCCmdManager ----------------------------
(***************************************************************************)
(* CmdManager with chunks for each way through the gates: a command for    *)
(* the connection, one for the stream, which differ in their message       *)
(* stream only, and a video frame without payload, which does not parse.   *)
(* No gate opens for the others: a command of a second message stream and  *)
(* an aggregate message on stream 4, which stand for media on stream 8 and *)
(* all chunks of stream 5, too.                                            *)
(***************************************************************************)
EXTENDS CmdManager

Kind(c, m, t, name, ok) ==
    [csid |-> c, msid |-> m, type |-> t, name |-> name, ok |-> ok]
KindSet == {Kind(8, 0, 20, "createStream", TRUE), Kind(8, 1, 20, "publish", TRUE),
            Kind(4, 1, 9, "", FALSE)}
           \cup {Kind(8, 2, 20, "publish", TRUE), Kind(4, 1, 22, "", TRUE)}
AllChildren == Children
NoChildren  == {}
=============================================================================
