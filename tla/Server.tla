------------------------------- MODULE Server -------------------------------
(***************************************************************************)
(* server.Server: the Accept goroutine between a listener and a consumer   *)
(* that selects over Clients() and Errs(), as the repository's README      *)
(* does.  Both channels are unbuffered.  A connection is known by the      *)
(* order of arrival; the client made for it by its connection.             *)
(***************************************************************************)
EXTENDS Naturals, Sequences

CONSTANT MaxConns   \* bound: connections that arrive

ASSUME ConnsAssumption == MaxConns \in Nat

VARIABLES
    arrived,  \* how many connections have arrived at the listener
    backlog,  \* those that the listener has not handed out yet
    closed,   \* is the listener closed?
    apc,      \* Accept
    conn,     \* the connection whose client Accept offers, 0 for none
    clients   \* history: the clients received from Clients()
vars == <<arrived, backlog, closed, apc, conn, clients>>

Init ==
    /\ arrived = 0
    /\ backlog = <<>>
    /\ closed = FALSE
    /\ apc = "idle"
    /\ conn = 0
    /\ clients = <<>>

-----------------------------------------------------------------------------
(* The listener, and the user of the server.                               *)

\* The network completes a connection (net.Listener).
Arrive ==
    /\ ~closed
    /\ arrived < MaxConns
    /\ arrived' = arrived + 1
    /\ backlog' = Append(backlog, arrived + 1)
    /\ UNCHANGED <<closed, apc, conn, clients>>

\* go s.Accept()
StartAccept ==
    /\ apc = "idle"
    /\ apc' = "accept"
    /\ UNCHANGED <<arrived, backlog, closed, conn, clients>>

\* Server.Close: the connections that were not accepted are gone.  A second
\* call gets an error from the listener and changes nothing.
Close ==
    /\ closed' = TRUE
    /\ backlog' = <<>>
    /\ UNCHANGED <<arrived, apc, conn, clients>>

-----------------------------------------------------------------------------
(* Accept.                                                                 *)

\* socket.Accept returns a connection, and client.New makes a client of it.
AcceptConn ==
    /\ apc = "accept"
    /\ backlog # <<>>
    /\ conn' = Head(backlog)
    /\ backlog' = Tail(backlog)
    /\ apc' = "sendClient"
    /\ UNCHANGED <<arrived, closed, clients>>

\* socket.Accept fails: now and then while the listener is open (no file
\* descriptor is free, a connection is reset), always once it is closed.
AcceptFails ==
    /\ apc = "accept"
    /\ apc' = "sendErr"
    /\ UNCHANGED <<arrived, backlog, closed, conn, clients>>

\* The consumer receives the client.
SendClient ==
    /\ apc = "sendClient"
    /\ clients' = Append(clients, conn)
    /\ conn' = 0
    /\ apc' = "accept"
    /\ UNCHANGED <<arrived, backlog, closed>>

\* Mutant: no continue after an error, a client is made of no connection.
SendErrGoesOn ==
    /\ apc = "sendErr"
    /\ apc' = "sendClient"
    /\ UNCHANGED <<arrived, backlog, closed, conn, clients>>

\* Mutant: Accept returns after an error.
SendErrReturns ==
    /\ apc = "sendErr"
    /\ apc' = "done"
    /\ UNCHANGED <<arrived, backlog, closed, conn, clients>>

\* The consumer receives the error, and Accept continues.
SendErr ==
    /\ apc = "sendErr"
    /\ apc' = "accept"
    /\ UNCHANGED <<arrived, backlog, closed, conn, clients>>

-----------------------------------------------------------------------------
Accept == AcceptConn \/ SendClient \/ SendErr \/ (closed /\ AcceptFails)
Next == Arrive \/ StartAccept \/ Close \/ AcceptFails \/ Accept

Spec == Init /\ [][Next]_vars

\* The Accept goroutine is started and runs, the consumer keeps receiving, and
\* the errors of an open listener are temporary: an Accept that finds a
\* connection again and again succeeds in the end.
FairSpec == Spec /\ WF_vars(StartAccept) /\ WF_vars(Accept) /\ SF_vars(AcceptConn)

-----------------------------------------------------------------------------
(* Properties.                                                             *)

Held == IF conn = 0 THEN <<>> ELSE <<conn>>
InOrder(s) == \A i \in DOMAIN s : s[i] = i

\* Every connection that arrives is waiting, at hand or handed out, once and in
\* the order of arrival, whatever errors come in between; a Close loses those
\* still waiting, but never the one at hand (Server.Accept).
EachOnce ==
    /\ apc = "sendClient" <=> conn # 0
    /\ InOrder(clients \o Held \o backlog)
    /\ ~closed => Len(clients \o Held \o backlog) = arrived

\* Every connection is handed out, also when Accept fails in between, unless
\* the server is closed first (Server.Accept, continue after an error).
Served ==
    \A c \in 1..MaxConns :
        (arrived >= c) ~> (closed \/ \E i \in DOMAIN clients : clients[i] = c)
=============================================================================
