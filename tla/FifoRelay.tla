----------------------------- MODULE FifoRelay -----------------------------
(***************************************************************************)
(* src/Linux/Linux开发/code/fifo: writers that put what is typed at their       *)
(* terminals into a named pipe, and a reader that prints it.  The pipe and *)
(* the terminals are external: opening one end waits for the other, a read *)
(* of an empty pipe waits for a writer to put something or for the last to *)
(* leave, a write without a reader ends the writer.  What is typed is at   *)
(* most MaxLines lines for each writer; the end of the input (read returns *)
(* 0) changes nothing, since the loop goes on with an empty write.         *)
(***************************************************************************)
EXTENDS Naturals, Sequences

CONSTANTS Writer, MaxLines

VARIABLES
  exists,   \* the fifo is in the file system
  writer,   \* where each writer is
  typed,    \* the lines each has read from its terminal
  put,      \* all lines written to the pipe, in order
  pipe,     \* those in it
  reader,   \* where the reader is
  buf,      \* the lines it has read and not printed
  out       \* the lines it has printed

fifoVars == <<exists, writer, typed, put, pipe, reader, buf, out>>

FifoInit(runs) ==
  /\ exists \in IF runs THEN BOOLEAN ELSE {FALSE}
  /\ writer = [w \in Writer |-> IF runs THEN "access" ELSE "ended"]
  /\ typed = [w \in Writer |-> 0]
  /\ put = <<>> /\ pipe = <<>> /\ buf = <<>> /\ out = <<>>
  /\ reader = IF runs THEN "start" ELSE "ended"

WriterMoves(w, from, to) == writer[w] = from /\ writer' = [writer EXCEPT ![w] = to]

Access(w) ==
  /\ WriterMoves(w, "access", IF exists THEN "open" ELSE "mkfifo")
  /\ UNCHANGED <<exists, typed, put, pipe, reader, buf, out>>

\* A fifo somebody else made since is an error.
Mkfifo(w) ==
  /\ WriterMoves(w, "mkfifo", IF exists THEN "ended" ELSE "open")
  /\ exists' = TRUE
  /\ UNCHANGED <<typed, put, pipe, reader, buf, out>>

ReadEnd == {"opening", "read", "print", "close"}

\* open(O_WRONLY): each side counts as open from its call on and lets the other
\* side's call return.
Open(w) ==
  /\ WriterMoves(w, "open", IF reader \in ReadEnd THEN "copy" ELSE "opening")
  /\ reader' = IF reader = "opening" THEN "read" ELSE reader
  /\ UNCHANGED <<exists, typed, put, pipe, buf, out>>

\* A line is read from the terminal and written to the pipe.
CopyLine(w) ==
  LET n == typed[w] + 1
  IN  /\ WriterMoves(w, "copy", IF reader \in ReadEnd THEN "copy" ELSE "ended")
      /\ n <= MaxLines /\ typed' = [typed EXCEPT ![w] = n]
      /\ IF reader \in ReadEnd
         THEN pipe' = Append(pipe, <<w, n>>) /\ put' = Append(put, <<w, n>>)
         ELSE UNCHANGED <<pipe, put>>
      /\ UNCHANGED <<exists, reader, buf, out>>

\* A read error, or the user, ends a writer; that closes its end.
WriterEnds(w) ==
  /\ writer[w] \in {"opening", "copy"}
  /\ writer' = [writer EXCEPT ![w] = "ended"]
  /\ UNCHANGED <<exists, typed, put, pipe, reader, buf, out>>

WriteEnds == {w \in Writer : writer[w] \in {"opening", "copy"}}

\* Without a fifo open fails, which is not looked at: the reader goes round
\* with read and write on -1 for ever.
ReaderOpens ==
  /\ reader = "start"
  /\ reader' = IF ~exists THEN "spin" ELSE IF WriteEnds = {} THEN "opening" ELSE "read"
  /\ writer' = IF ~exists THEN writer
               ELSE [w \in Writer |-> IF writer[w] = "opening" THEN "copy" ELSE writer[w]]
  /\ UNCHANGED <<exists, typed, put, pipe, buf, out>>

\* Mutant: the end of the file is looked for before what is left is read.
ReadPipe_EndFirst ==
  /\ reader = "read"
  /\ pipe # <<>> \/ WriteEnds = {}
  /\ buf' = IF WriteEnds = {} THEN <<>> ELSE pipe
  /\ pipe' = IF WriteEnds = {} THEN pipe ELSE <<>>
  /\ reader' = IF WriteEnds = {} THEN "close" ELSE "print"
  /\ UNCHANGED <<exists, writer, typed, put, out>>

\* Mutant: 0 is no reason to stop.
ReadPipe_GoesOn ==
  /\ reader = "read"
  /\ pipe # <<>>
  /\ buf' = pipe /\ pipe' = <<>>
  /\ reader' = "print"
  /\ UNCHANGED <<exists, writer, typed, put, out>>

\* read: what is in the pipe, BUFSIZ bytes of it at most, or 0 when it is empty and
\* nobody has the other end open.
ReadPipe ==
  /\ reader = "read"
  /\ pipe # <<>> \/ WriteEnds = {}
  /\ \E n \in IF pipe = <<>> THEN {0} ELSE 1 .. Len(pipe) :
       buf' = SubSeq(pipe, 1, n) /\ pipe' = SubSeq(pipe, n + 1, Len(pipe))
  /\ reader' = IF pipe = <<>> THEN "close" ELSE "print"
  /\ UNCHANGED <<exists, writer, typed, put, out>>

\* Mutant: what was printed is printed again with the next lines.
PrintLines_Again ==
  /\ reader = "print"
  /\ out' = out \o buf
  /\ reader' = "read"
  /\ UNCHANGED <<exists, writer, typed, put, pipe, buf>>

PrintLines ==
  /\ reader = "print"
  /\ out' = out \o buf /\ buf' = <<>>
  /\ reader' = "read"
  /\ UNCHANGED <<exists, writer, typed, put, pipe>>

\* What is in the pipe when its last reader leaves is lost.
ReaderCloses ==
  /\ reader = "close"
  /\ reader' = "ended"
  /\ pipe' = <<>>
  /\ UNCHANGED <<exists, writer, typed, put, buf, out>>

FifoNext ==
  \/ \E w \in Writer : Access(w) \/ Mkfifo(w) \/ Open(w) \/ CopyLine(w) \/ WriterEnds(w)
  \/ ReaderOpens \/ ReadPipe \/ PrintLines \/ ReaderCloses

\* The processes are scheduled; nobody has to type or to end a writer.
FifoFairness ==
  /\ \A w \in Writer : WF_fifoVars(Access(w) \/ Mkfifo(w) \/ Open(w))
  /\ WF_fifoVars(ReaderOpens \/ ReadPipe \/ PrintLines \/ ReaderCloses)
=============================================================================
