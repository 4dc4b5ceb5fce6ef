--------------------------- MODULE SocketExchange ---------------------------
(***************************************************************************)
(* src/TCPIP/Windows网络编程: a server that greets one client after the other, *)
(* takes one message from it and prints that, and the client it is written *)
(* for.  The network is external: a message of Parts pieces comes piece by *)
(* piece, recv returns what there is as soon as there is some, and to      *)
(* close a socket with something unread may lose what the closer sent.     *)
(***************************************************************************)
EXTENDS Naturals, Sequences, FiniteSets

CONSTANTS Client, Parts, NoClient

ASSUME PartsAssumption == Parts \in Nat \ {0} /\ NoClient \notin Client

VARIABLES
  client,   \* where each client is
  backlog,  \* the connections not accepted yet, in order
  server,   \* where the server is
  served,   \* the client whose socket is clientSock
  greeting, \* per client: pieces of the server's message in flight, and arrived
  message,  \* the same for the client's message; lost when the connection is reset
  shown     \* what the server printed: the client and how much of its message

socketVars == <<client, backlog, server, served, greeting, message, shown>>

Silence == [flying |-> 0, there |-> 0, closed |-> FALSE, reset |-> FALSE]

SocketInit(runs) ==
  /\ client = [c \in Client |-> IF runs THEN "connect" ELSE "ended"]
  /\ backlog = <<>> /\ server = "accept" /\ served = NoClient
  /\ greeting = [c \in Client |-> Silence] /\ message = [c \in Client |-> Silence]
  /\ shown = <<>>

ClientMoves(c, from, to) == client[c] = from /\ client' = [client EXCEPT ![c] = to]

Connect(c) ==
  /\ ClientMoves(c, "connect", "recv")
  /\ backlog' = Append(backlog, c)
  /\ UNCHANGED <<server, served, greeting, message, shown>>

\* recv takes what has arrived and returns nothing only when the other side
\* has closed.
ClientReceives(c) ==
  /\ ClientMoves(c, "recv", "send")
  /\ greeting[c].there > 0 \/ (greeting[c].closed /\ greeting[c].flying = 0)
  /\ greeting' = [greeting EXCEPT ![c].there = 0]
  /\ UNCHANGED <<backlog, server, served, message, shown>>

ClientSends(c) ==
  /\ ClientMoves(c, "send", "close")
  /\ message' = [message EXCEPT ![c].flying = Parts]
  /\ UNCHANGED <<backlog, server, served, greeting, shown>>

\* Closing with a part of the greeting unread resets the connection, and what
\* the server has not taken of the message may be gone.
ClientCloses(c) ==
  /\ ClientMoves(c, "close", "ended")
  /\ \E left \in IF greeting[c].flying + greeting[c].there = 0
                 THEN {message[c]} ELSE {message[c], [Silence EXCEPT !.reset = TRUE]} :
       message' = [message EXCEPT ![c] = [left EXCEPT !.closed = TRUE]]
  /\ UNCHANGED <<backlog, server, served, greeting, shown>>

Delivered(m, n) == [m EXCEPT !.flying = @ - n, !.there = @ + n]

Deliver ==
  \E c \in Client :
    /\ \/ /\ \E n \in 1 .. greeting[c].flying : greeting' = [greeting EXCEPT ![c] = Delivered(@, n)]
          /\ UNCHANGED message
       \/ /\ \E n \in 1 .. message[c].flying : message' = [message EXCEPT ![c] = Delivered(@, n)]
          /\ UNCHANGED greeting
    /\ UNCHANGED <<client, backlog, server, served, shown>>

Accept ==
  /\ server = "accept" /\ backlog # <<>>
  /\ served' = Head(backlog) /\ backlog' = Tail(backlog)
  /\ server' = "send"
  /\ UNCHANGED <<client, greeting, message, shown>>

\* Mutant: the server listens before it speaks.
ServerSends_Second ==
  /\ server = "send" /\ message[served].there > 0
  /\ greeting' = [greeting EXCEPT ![served].flying = Parts]
  /\ server' = "recv"
  /\ UNCHANGED <<client, backlog, served, message, shown>>

ServerSends ==
  /\ server = "send"
  /\ greeting' = [greeting EXCEPT ![served].flying = Parts]
  /\ server' = "recv"
  /\ UNCHANGED <<client, backlog, served, message, shown>>

\* One recv, printed whatever it brought: the buffer is zeroed, so an empty or
\* failed recv prints nothing.
ServerReceives ==
  LET m == message[served]
  IN  /\ server = "recv"
      /\ m.there > 0 \/ (m.closed /\ m.flying = 0)
      /\ shown' = Append(shown, <<served, m.there>>)
      /\ message' = [message EXCEPT ![served].there = 0]
      /\ server' = "close"
      /\ UNCHANGED <<client, backlog, served, greeting>>

\* closesocket is for this client's socket; the listening one stays.
ServerCloses ==
  /\ server = "close"
  /\ greeting' = [greeting EXCEPT ![served].closed = TRUE]
  /\ server' = "accept" /\ served' = NoClient
  /\ UNCHANGED <<client, backlog, message, shown>>

SocketNext ==
  \/ \E c \in Client : Connect(c) \/ ClientReceives(c) \/ ClientSends(c) \/ ClientCloses(c)
  \/ Deliver \/ Accept \/ ServerSends \/ ServerReceives \/ ServerCloses

SocketFairness ==
  /\ \A c \in Client : WF_socketVars(ClientReceives(c) \/ ClientSends(c) \/ ClientCloses(c))
  /\ WF_socketVars(Deliver)
  /\ WF_socketVars(Accept \/ ServerSends \/ ServerReceives \/ ServerCloses)
=============================================================================
