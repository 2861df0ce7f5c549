----------------------------- MODULE MCHandshake -----------------------------
(***************************************************************************)
(* Handshake with two challenges, so that a wrong answer exists, and one   *)
(* unsupported version.                                                    *)
(***************************************************************************)
EXTENDS Handshake

NonceSet   == {1, 2}
AnyVersion == {3, 6}
=============================================================================
