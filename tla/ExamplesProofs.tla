--------------------------- MODULE ExamplesProofs ---------------------------
(***************************************************************************)
(* Theorems about the example programs, for lines of any length, any       *)
(* number of bytes, writers, lines and clients.                            *)
(***************************************************************************)
EXTENDS Examples, SequenceTheorems, TLAPS

----------------------------------------------------------------------------
(* The echo server *)

EpollType ==
  /\ sent \in Nat /\ arrived \in Nat /\ taken \in Nat
  /\ taken <= arrived
  /\ edge \in BOOLEAN

\* The edge is what the server relies on only while it waits; that it is set
\* then needs that a read that brings nothing has left nothing.
EpollInv == EpollType /\ NoSleepOverData

\* A read brings at most what is there, and nothing only when nothing is there.
LEMMA ReadBrings ==
  ASSUME NEW there \in Nat
  PROVE  /\ Min({there, MaxLine \div 2}) \in 0 .. there
         /\ Min({there, MaxLine \div 2}) = 0 => there = 0
<1> DEFINE half == MaxLine \div 2
           S == {there, half}
<1>1. half \in Nat /\ half > 0
  BY MaxLineAssumption
<1>2. PICK x \in S : \A y \in S : x =< y
  <2>1. CASE there <= half  BY <1>1, <2>1
  <2>2. CASE ~(there <= half)  BY <1>1, <2>2
  <2> QED BY <2>1, <2>2
<1>3. Min(S) \in S /\ \A y \in S : Min(S) =< y
  BY <1>2 DEF Min
<1> QED BY <1>1, <1>3

LEMMA EpollStarts == Init => EpollInv
<1> SUFFICES ASSUME NEW runs \in BOOLEAN, EpollInit(runs) PROVE EpollInv
  BY DEF Init
<1>1. echo # "wait"
  BY DEF EpollInit
<1>2. sent = 0 /\ arrived = 0 /\ taken = 0 /\ edge = FALSE
  BY Zenon DEF EpollInit
<1>3. sent \in Nat /\ arrived \in Nat /\ taken \in Nat /\ taken <= arrived
  BY <1>2
<1>4. edge \in BOOLEAN
  BY <1>2
<1> QED BY <1>1, <1>3, <1>4 DEF EpollInv, EpollType, NoSleepOverData

LEMMA EpollStep == EpollInv /\ [Next]_vars => EpollInv'
<1> SUFFICES ASSUME EpollInv, [Next]_vars PROVE EpollInv'
  OBVIOUS
<1> USE DEF EpollInv, EpollType, NoSleepOverData
<1>1. CASE UNCHANGED epollVars
  BY <1>1 DEF epollVars
<1>2. CASE EpollNext
  <2>1. CASE ClientWrites  BY <2>1, MaxLineAssumption DEF ClientWrites
  <2>2. CASE ClientStops  BY <2>2 DEF ClientStops
  <2>3. CASE BytesArrive
    <3>1. PICK n \in 1 .. sent - arrived : arrived' = arrived + n
      BY <2>3 DEF BytesArrive
    <3>2. arrived' \in Nat /\ taken <= arrived'
      BY <3>1
    <3>3. UNCHANGED <<sent, taken, echo>> /\ edge' = Registered
      BY <2>3 DEF BytesArrive
    <3>4. Registered \in BOOLEAN /\ (echo = "wait" => Registered)
      BY DEF Registered
    <3>5. edge' \in BOOLEAN /\ (echo' = "wait" => edge')
      BY <3>3, <3>4
    <3> QED BY <3>2, <3>3, <3>5
  <2>4. CASE EndArrives  BY <2>4 DEF EndArrives, Registered
  <2>5. CASE AcceptOne  BY <2>5 DEF AcceptOne
  <2>6. CASE Register  BY <2>6 DEF Register
  <2>7. CASE EpollWait  BY <2>7 DEF EpollWait
  <2>8. CASE Read
    <3>1. arrived - taken \in Nat
      OBVIOUS
    <3>2. len' \in 0 .. arrived - taken /\ (len' = 0 => arrived = taken)
      BY <2>8, <3>1, ReadBrings DEF Read
    <3> QED BY <2>8, <3>1, <3>2 DEF Read
  <2>9. CASE PrintBytes  BY <2>9 DEF PrintBytes
  <2> QED BY <1>2, <2>1, <2>2, <2>3, <2>4, <2>5, <2>6, <2>7, <2>8, <2>9 DEF EpollNext
<1> QED BY <1>1, <1>2 DEF Next, vars

\* Whatever the length of a line and the pieces in which bytes arrive, the server
\* does not wait for a report with unread bytes that nothing will report.
THEOREM NeverSleepsOverData == Spec => []NoSleepOverData
<1>1. EpollInv => NoSleepOverData
  BY DEF EpollInv
<1> QED BY <1>1, EpollStarts, EpollStep, PTL DEF Spec

----------------------------------------------------------------------------
(* The FIFO pair *)

Line == Writer \X Nat

FifoType ==
  /\ typed \in [Writer -> Nat]
  /\ put \in Seq(Line) /\ pipe \in Seq(Line) /\ buf \in Seq(Line) /\ out \in Seq(Line)

\* LinesInOrder says nothing of what an empty buffer means; that the reader's is
\* empty whenever it reads is what a new content of the pipe can be added to.
FifoInv == FifoType /\ LinesInOrder /\ (reader # "print" => buf = <<>>)

\* What is put together of two parts begins with the first.
LEMMA PrefixOfConcat ==
  ASSUME NEW S, NEW s \in Seq(S), NEW t \in Seq(S)
  PROVE  IsPrefix(s, s \o t)
<1>1. Len(s \o t) = Len(s) + Len(t) /\ Len(s) \in Nat /\ Len(t) \in Nat
  BY ConcatProperties, LenProperties
<1>2. SubSeq(s \o t, 1, Len(s)) = SubSeq(s, 1, Len(s))
  BY <1>1, SubSeqOfConcat1
<1> QED BY <1>1, <1>2 DEF IsPrefix

\* A prefix stays one when the sequence grows.
LEMMA PrefixOfAppend ==
  ASSUME NEW S, NEW s \in Seq(S), NEW t \in Seq(S), NEW e \in S, IsPrefix(s, t)
  PROVE  IsPrefix(s, Append(t, e))
<1>1. Len(s) \in Nat /\ Len(t) \in Nat /\ Len(s) <= Len(t)
  BY LenProperties DEF IsPrefix
<1>2. Append(t, e) = t \o <<e>> /\ <<e>> \in Seq(S) /\ Len(Append(t, e)) = Len(t) + 1
  BY AppendIsConcat, AppendProperties
<1>3. SubSeq(t \o <<e>>, 1, Len(s)) = SubSeq(t, 1, Len(s))
  BY <1>1, <1>2, SubSeqOfConcat1
<1> QED BY <1>1, <1>2, <1>3 DEF IsPrefix

\* What is added to the second of two parts is added to the whole.
LEMMA AppendToSecond ==
  \A s, t \in Seq(Line), e \in Line : Append(s \o t, e) = s \o Append(t, e)
<1> TAKE s, t \in Seq(Line), e \in Line
<1>1. s \o t \in Seq(Line) /\ <<e>> \in Seq(Line)
  BY ConcatProperties
<1>2. Append(s \o t, e) = (s \o t) \o <<e>> /\ Append(t, e) = t \o <<e>>
  BY <1>1, AppendIsConcat
<1>3. (s \o t) \o <<e>> = s \o (t \o <<e>>)
  BY <1>1, ConcatAssociative
<1> QED BY <1>2, <1>3

LEMMA FifoStarts == Init => FifoInv
<1> SUFFICES ASSUME NEW runs \in BOOLEAN, FifoInit(runs) PROVE FifoInv
  BY DEF Init
<1>1. /\ put = <<>> /\ pipe = <<>> /\ buf = <<>> /\ out = <<>>
      /\ typed = [w \in Writer |-> 0]
  BY DEF FifoInit
<1>2. FifoType
  BY <1>1 DEF FifoType
<1>3. out \o buf = <<>> /\ out \o buf \o pipe = <<>>
  BY <1>1, <1>2, ConcatEmptySeq DEF FifoType
<1>4. IsPrefix(<<>>, <<>>)
  BY DEF IsPrefix
<1> QED BY <1>1, <1>2, <1>3, <1>4 DEF FifoInv, LinesInOrder

\* A step that leaves the lines where they are, and does not change what the
\* reader's place says of them.
LEMMA LinesStay ==
  ASSUME FifoInv, typed' \in [Writer -> Nat], UNCHANGED <<put, pipe, buf, out>>,
         \/ reader' = reader
         \/ reader \in {"start", "opening", "read"} /\ reader' \in {"opening", "read", "spin"}
  PROVE  FifoInv'
BY DEF FifoInv, FifoType, LinesInOrder

LEMMA CopyLineStep ==
  ASSUME FifoInv, NEW w \in Writer, CopyLine(w)
  PROVE  FifoInv'
<1> DEFINE l == <<w, typed[w] + 1>>
<1>1. l \in Line /\ typed' \in [Writer -> Nat]
  BY DEF CopyLine, FifoInv, FifoType, Line
<1>2. CASE reader \notin ReadEnd
  <2>1. UNCHANGED <<put, pipe, buf, out, reader>>
    BY <1>2 DEF CopyLine
  <2> QED BY <1>1, <2>1, LinesStay
<1>3. CASE reader \in ReadEnd
  <2>1. pipe' = Append(pipe, l) /\ put' = Append(put, l) /\ UNCHANGED <<reader, buf, out>>
    BY <1>3 DEF CopyLine
  <2>2. put' \in Seq(Line) /\ pipe' \in Seq(Line)
    <3> HIDE DEF l
    <3> QED BY <1>1, <2>1, AppendProperties DEF FifoInv, FifoType
  <2>3. out \o buf \in Seq(Line)
    BY ConcatProperties DEF FifoInv, FifoType
  <2>4. IsPrefix(out \o buf, put')
    BY <1>1, <2>1, <2>3, PrefixOfAppend DEF FifoInv, FifoType, LinesInOrder
  <2>5. ASSUME put = out \o buf \o pipe PROVE put' = out \o buf \o pipe'
    <3>1. pipe \in Seq(Line)
      BY DEF FifoInv, FifoType
    <3>2. Append((out \o buf) \o pipe, l) = (out \o buf) \o Append(pipe, l)
      <4> HIDE DEF l
      <4> QED BY <1>1, <2>3, <3>1, AppendToSecond, Zenon
    <3> QED BY <2>1, <2>5, <3>2
  <2> QED BY <1>1, <2>1, <2>2, <2>4, <2>5 DEF FifoInv, FifoType, LinesInOrder
<1> QED BY <1>2, <1>3

\* A sequence is its first n elements and the others.
LEMMA SplitInTwo ==
  ASSUME NEW S, NEW s \in Seq(S), NEW n \in 0 .. Len(s)
  PROVE  /\ SubSeq(s, 1, n) \in Seq(S) /\ SubSeq(s, n + 1, Len(s)) \in Seq(S)
         /\ SubSeq(s, 1, n) \o SubSeq(s, n + 1, Len(s)) = s
<1> DEFINE one == SubSeq(s, 1, n)
           two == SubSeq(s, n + 1, Len(s))
<1>1. Len(s) \in Nat /\ n \in Nat /\ n <= Len(s) /\ (\A i \in 1 .. Len(s) : s[i] \in S)
  BY LenProperties, ElementOfSeq
<1>2. one \in Seq(S) /\ Len(one) = n /\ \A i \in 1 .. n : one[i] = s[i]
  BY <1>1, SubSeqProperties
<1>3. two \in Seq(S) /\ Len(two) = Len(s) - n /\ \A i \in 1 .. Len(s) - n : two[i] = s[n + i]
  <2>1. /\ two \in Seq(S) /\ Len(two) = IF n + 1 <= Len(s) THEN Len(s) - (n + 1) + 1 ELSE 0
        /\ \A i \in 1 .. Len(s) - (n + 1) + 1 : two[i] = s[n + 1 + i - 1]
    <3>1. n + 1 \in Int /\ Len(s) \in Int /\ \A i \in n + 1 .. Len(s) : s[i] \in S
      BY <1>1
    <3> QED BY <3>1, SubSeqProperties
  <2> HIDE DEF two
  <2> QED BY <1>1, <2>1
<1>4. one \o two \in Seq(S) /\ Len(one \o two) = Len(s)
  BY <1>1, <1>2, <1>3, ConcatProperties
<1>5. \A i \in 1 .. Len(s) : (one \o two)[i] = s[i]
  <2> HIDE DEF one, two
  <2> QED BY <1>1, <1>2, <1>3, ConcatProperties
<1>6. one \o two = s
  <2> HIDE DEF one, two
  <2> QED BY <1>4, <1>5, SeqEqual
<1> QED BY <1>2, <1>3, <1>6

\* Whatever part of the pipe a read takes, nothing is lost between the two.
LEMMA ReadPipeStep ==
  ASSUME FifoInv, ReadPipe
  PROVE  /\ FifoInv'
         /\ reader' = "close" => pipe = <<>>
<1>1. /\ put = out \o buf \o pipe /\ buf = <<>> /\ pipe \in Seq(Line) /\ out \in Seq(Line)
      /\ UNCHANGED <<put, out, typed>>
      /\ reader' = IF pipe = <<>> THEN "close" ELSE "print"
  BY DEF ReadPipe, FifoInv, FifoType, LinesInOrder
<1>2. PICK n \in 0 .. Len(pipe) : /\ buf' = SubSeq(pipe, 1, n)
                                  /\ pipe' = SubSeq(pipe, n + 1, Len(pipe))
  <2>1. Len(pipe) \in Nat
    BY <1>1, LenProperties
  <2>2. PICK n \in IF pipe = <<>> THEN {0} ELSE 1 .. Len(pipe) :
          buf' = SubSeq(pipe, 1, n) /\ pipe' = SubSeq(pipe, n + 1, Len(pipe))
    BY Zenon DEF ReadPipe
  <2>3. n \in 0 .. Len(pipe)
    BY <2>1, <2>2
  <2> QED BY <2>2, <2>3
<1>3. buf' \in Seq(Line) /\ pipe' \in Seq(Line) /\ buf' \o pipe' = pipe
  BY <1>1, <1>2, SplitInTwo
<1>4. FifoType'
  BY <1>1, <1>3 DEF FifoInv, FifoType
<1>5. put' = (out \o buf)' \o pipe'
  <2>1. put = out \o pipe
    BY <1>1, ConcatEmptySeq
  <2>2. \A s, t, u \in Seq(Line) : s \o (t \o u) = (s \o t) \o u
    BY ConcatAssociative
  <2>3. out \o (buf' \o pipe') = (out \o buf') \o pipe'
    BY <1>1, <1>3, <2>2, Zenon
  <2> QED BY <1>1, <1>3, <2>1, <2>3
<1>6. IsPrefix((out \o buf)', put')
  BY <1>1, <1>3, <1>5, ConcatProperties, PrefixOfConcat
<1>7. reader' # "print" => buf' = <<>>
  <2>1. CASE pipe = <<>>
    <3>1. n = 0
      BY <1>2, <2>1
    <3> QED BY <1>2, <2>1, <3>1
  <2>2. CASE pipe # <<>>
    BY <1>1, <2>2
  <2> QED BY <2>1, <2>2
<1> QED BY <1>1, <1>4, <1>5, <1>6, <1>7 DEF FifoInv, LinesInOrder

LEMMA PrintLinesStep ==
  ASSUME FifoInv, PrintLines
  PROVE  FifoInv'
<1>1. /\ reader = "print" /\ reader' = "read" /\ out' = out \o buf /\ buf' = <<>>
      /\ UNCHANGED <<put, pipe, typed>>
  BY DEF PrintLines
<1>2. out' \in Seq(Line) /\ out' \o buf' = out \o buf
  BY <1>1, ConcatEmptySeq, ConcatProperties DEF FifoInv, FifoType
<1> QED BY <1>1, <1>2, EmptySeq DEF FifoInv, FifoType, LinesInOrder

LEMMA FifoStep == FifoInv /\ [Next]_vars => FifoInv'
<1> SUFFICES ASSUME FifoInv, [Next]_vars PROVE FifoInv'
  OBVIOUS
<1>1. CASE UNCHANGED fifoVars
  <2>1. UNCHANGED <<put, pipe, buf, out>> /\ typed' \in [Writer -> Nat] /\ reader' = reader
    BY <1>1 DEF fifoVars, FifoInv, FifoType
  <2> QED BY <2>1, LinesStay
<1>2. CASE \E w \in Writer : Access(w) \/ Mkfifo(w) \/ Open(w) \/ WriterEnds(w)
  <2>1. UNCHANGED <<put, pipe, buf, out>> /\ typed' \in [Writer -> Nat]
    BY <1>2 DEF Access, Mkfifo, Open, WriterEnds, FifoInv, FifoType
  <2>2. \/ reader' = reader
        \/ reader \in {"start", "opening", "read"} /\ reader' \in {"opening", "read", "spin"}
    BY <1>2 DEF Access, Mkfifo, Open, WriterEnds
  <2> QED BY <2>1, <2>2, LinesStay
<1>3. CASE \E w \in Writer : CopyLine(w)
  BY <1>3, CopyLineStep
<1>4. CASE ReaderOpens
  <2>1. UNCHANGED <<put, pipe, buf, out>> /\ typed' \in [Writer -> Nat]
    BY <1>4 DEF ReaderOpens, FifoInv, FifoType
  <2>2. reader \in {"start", "opening", "read"} /\ reader' \in {"opening", "read", "spin"}
    BY <1>4 DEF ReaderOpens
  <2> QED BY <2>1, <2>2, LinesStay
<1>5. CASE ReadPipe
  BY <1>5, ReadPipeStep
<1>6. CASE PrintLines
  BY <1>6, PrintLinesStep
<1>7. CASE ReaderCloses
  BY <1>7, EmptySeq DEF ReaderCloses, FifoInv, FifoType, LinesInOrder
<1> QED BY <1>1, <1>2, <1>3, <1>4, <1>5, <1>6, <1>7 DEF Next, FifoNext, vars

\* Whoever writes, and however often, the reader prints the lines in the order in which
\* they were put into the pipe.
THEOREM PrintsInOrder == Spec => []LinesInOrder
<1>1. FifoInv => LinesInOrder
  BY DEF FifoInv
<1> QED BY <1>1, FifoStarts, FifoStep, PTL DEF Spec

\* The reader that leaves has printed all there was.
THEOREM LeavesNothing == Spec => NothingLeftBehind
<1>1. FifoInv /\ [Next]_vars => [reader = "read" /\ reader' = "close" => out = put]_vars
  <2> SUFFICES ASSUME FifoInv, [Next]_vars, reader = "read", reader' = "close"
               PROVE  out = put
    OBVIOUS
  <2>1. ReadPipe
    BY DEF Next, FifoNext, vars, fifoVars, Access, Mkfifo, Open, CopyLine, WriterEnds,
           ReaderOpens, PrintLines, ReaderCloses
  <2>2. pipe = <<>> /\ buf = <<>> /\ put = out \o buf \o pipe
    BY <2>1, ReadPipeStep DEF ReadPipe, FifoInv, LinesInOrder
  <2> QED BY <2>2, ConcatEmptySeq DEF FifoInv, FifoType
<1> QED BY <1>1, FifoStarts, FifoStep, PTL DEF Spec, NothingLeftBehind
=============================================================================
