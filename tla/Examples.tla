------------------------------ MODULE Examples ------------------------------
(***************************************************************************)
(* The communicating example programs side by side: a behaviour is one of  *)
(* one example, and the others do not run.                                 *)
(***************************************************************************)
EXTENDS EpollEcho, FifoRelay, SocketExchange, SequencesExt

vars == <<epollVars, fifoVars, socketVars>>

Init ==
  \E program \in {"epoll", "fifo", "sockets"} :
    EpollInit(program = "epoll") /\ FifoInit(program = "fifo") /\ SocketInit(program = "sockets")

Next ==
  \/ EpollNext /\ UNCHANGED <<fifoVars, socketVars>>
  \/ FifoNext /\ UNCHANGED <<epollVars, socketVars>>
  \/ SocketNext /\ UNCHANGED <<epollVars, fifoVars>>

Spec == Init /\ [][Next]_vars /\ EpollFairness /\ FifoFairness /\ SocketFairness

----------------------------------------------------------------------------
\* An edge-triggered epoll reports once.  The server never waits for a report
\* with bytes unread in its socket that nothing will report (server.c:41, 59-65).
NoSleepOverData == echo = "wait" /\ arrived > taken => edge

\* Whatever the client writes is printed in the end, also what came before the
\* connection was registered with epoll, and what came before the client ended.
AllPrinted == []<>(printed = sent)

\* The lines of all writers are printed in the order they were put into the
\* pipe, each once (fifo_read.cpp:21-33).
LinesInOrder ==
  /\ IsPrefix(out \o buf, put)
  /\ reader \notin {"close", "ended"} => put = out \o buf \o pipe

\* When the reader decides to leave it has printed whatever any writer put into
\* the pipe; only a writer that comes after that loses lines
\* (fifo_read.cpp:26-29).
NothingLeftBehind == [][reader = "read" /\ reader' = "close" => out = put]_vars

\* Once the last writer has gone the reader learns of it and ends, unless
\* another writer comes (fifo_read.cpp:26-30).
ReaderEndsAfterWriters ==
  reader \in {"read", "print"} /\ WriteEnds = {} ~> reader = "ended" \/ WriteEnds # {}

\* Client and server never wait for each other: every client that connects ends,
\* and the server has taken its message, or the beginning of it that was there,
\* unless the client closed with the greeting partly unread and the reset took
\* the message away (Server.cpp:34-54, Client.cpp:28-42).
EveryClientServed ==
  \A c \in Client :
    client[c] = "recv" ~>
      /\ client[c] = "ended"
      /\ \E i \in DOMAIN shown : shown[i][1] = c /\ (shown[i][2] > 0 \/ message[c].reset)
=============================================================================
