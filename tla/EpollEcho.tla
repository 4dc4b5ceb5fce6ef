----------------------------- MODULE EpollEcho -----------------------------
(***************************************************************************)
(* src/Linux/网络开发/codes/noblock_epoll: a client that sends MaxLine bytes at a  *)
(* time and a server that waits for them with an edge-triggered epoll and  *)
(* prints what it reads.  The bytes of the connection come in order, so    *)
(* they are counted, not named.                                            *)
(*                                                                         *)
(* The kernel is external: bytes arrive in pieces of any size, and epoll   *)
(* remembers, in edge, that something arrived since it last reported.      *)
(***************************************************************************)
EXTENDS Naturals, FiniteSetsExt

CONSTANTS MaxLine, MaxBytes   \* MAXLINE; the bytes after which the client stops

ASSUME MaxLineAssumption == MaxLine \in Nat /\ MaxLine >= 2

VARIABLES
  source,   \* the client: "connected", then "gone": the user stops it (a program
            \* that does not run is "idle")
  sent,     \* bytes the client has written
  arrived,  \* of those, the ones in the server's socket or read from it
  ended,    \* the end of the stream has arrived
  echo,     \* where the server is
  edge,     \* epoll has something to report
  taken,    \* bytes read
  len,      \* bytes in buf, not printed yet
  printed   \* bytes printed

epollVars == <<source, sent, arrived, ended, echo, edge, taken, len, printed>>

EpollInit(runs) ==
  /\ source = IF runs THEN "connected" ELSE "idle"
  /\ echo = IF runs THEN "accept" ELSE "idle"
  /\ ended = FALSE /\ edge = FALSE
  /\ sent = 0 /\ arrived = 0 /\ taken = 0 /\ len = 0 /\ printed = 0

\* The two lines of a round of the client's loop, written at once.
ClientWrites ==
  /\ source = "connected" /\ sent + MaxLine <= MaxBytes
  /\ sent' = sent + MaxLine
  /\ UNCHANGED <<source, arrived, ended, echo, edge, taken, len, printed>>

ClientStops ==
  /\ source = "connected"
  /\ source' = "gone"
  /\ UNCHANGED <<sent, arrived, ended, echo, edge, taken, len, printed>>

\* epoll hears of the socket only once it is registered.
Registered == echo \in {"wait", "read", "print"}

BytesArrive ==
  /\ \E n \in 1 .. sent - arrived : arrived' = arrived + n
  /\ edge' = Registered
  /\ UNCHANGED <<source, sent, ended, echo, taken, len, printed>>

EndArrives ==
  /\ source = "gone" /\ arrived = sent /\ ~ended
  /\ ended' = TRUE
  /\ edge' = Registered
  /\ UNCHANGED <<source, sent, arrived, echo, taken, len, printed>>

\* The connection is accepted and made non-blocking.
AcceptOne ==
  /\ echo = "accept"
  /\ echo' = "register"
  /\ UNCHANGED <<source, sent, arrived, ended, edge, taken, len, printed>>

\* epoll_ctl(EPOLL_CTL_ADD) reports what is there already.
Register ==
  /\ echo = "register"
  /\ echo' = "wait"
  /\ edge' = (arrived > taken \/ ended)
  /\ UNCHANGED <<source, sent, arrived, ended, taken, len, printed>>

\* epoll_wait returns, with the one descriptor there is.
EpollWait ==
  /\ echo = "wait" /\ edge
  /\ echo' = "read"
  /\ edge' = FALSE
  /\ UNCHANGED <<source, sent, arrived, ended, taken, len, printed>>

\* read: up to MaxLine / 2 bytes; 0 at the end of the stream and -1 when there
\* is nothing now, and either ends the loop.
Read ==
  /\ echo = "read"
  /\ len' = Min({arrived - taken, MaxLine \div 2})
  /\ taken' = taken + len'
  /\ echo' = IF len' > 0 THEN "print" ELSE "wait"
  /\ UNCHANGED <<source, sent, arrived, ended, edge, printed>>

\* Mutant: one read for each report.
PrintBytes_Waits ==
  /\ echo = "print"
  /\ printed' = printed + len
  /\ len' = 0
  /\ echo' = "wait"
  /\ UNCHANGED <<source, sent, arrived, ended, edge, taken>>

\* Mutant: the whole buffer is printed.
PrintBytes_Whole ==
  /\ echo = "print"
  /\ printed' = printed + MaxLine \div 2
  /\ len' = 0
  /\ echo' = "read"
  /\ UNCHANGED <<source, sent, arrived, ended, edge, taken>>

PrintBytes ==
  /\ echo = "print"
  /\ printed' = printed + len
  /\ len' = 0
  /\ echo' = "read"
  /\ UNCHANGED <<source, sent, arrived, ended, edge, taken>>

EpollNext ==
  \/ ClientWrites \/ ClientStops \/ BytesArrive \/ EndArrives
  \/ AcceptOne \/ Register \/ EpollWait \/ Read \/ PrintBytes

\* The network delivers and the server is scheduled; nobody has to write.
EpollFairness ==
  /\ WF_epollVars(BytesArrive)
  /\ WF_epollVars(AcceptOne \/ Register \/ EpollWait \/ Read \/ PrintBytes)
=============================================================================
