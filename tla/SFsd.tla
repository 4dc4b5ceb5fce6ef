-------------------------------- MODULE SFsd --------------------------------
(***************************************************************************)
(* The sample file system driver's requests together, on one volume with   *)
(* one open of each stream, the worker threads that take up posted         *)
(* requests, and the call-backs of the VMM and the Cache Manager.          *)
(***************************************************************************)
EXTENDS SFsdReadWrite, SFsdFileInfo, SFsdHandle, SFsdForward, SFsdDirectory,
        SFsdCallback, FiniteSets

Running == ~panic /\ UNCHANGED panic

\* A step of the thread that runs request i, or of whoever has its IRP.
RequestStep(i) ==
  \/ /\ Running /\ UNCHANGED <<volVars, lazyWriter>>
     /\ ReadWriteStep(i) \/ FileInfoStep(i) \/ CommonDispatch(i)
  \/ /\ Running /\ UNCHANGED lazyWriter
     /\ HandleStep(i) \/ ForwardStep(i) \/ DirectoryStep(i)
  \/ Running /\ CallbackStep(i)
  \/ /\ ~panic /\ UNCHANGED lazyWriter
     /\ MissingCcb(i) \/ SetNamesEntry(i) \/ FlushStream(i) \/ VolumeAsDirectory(i)

Next ==
  \E i \in Irp :
    \/ Running /\ UNCHANGED <<volVars, lazyWriter>> /\ Dispatch(i)
    \/ Running /\ Call(i)
    \/ Running /\ UNCHANGED lazyWriter /\ CancelNotify(i)
    \/ RequestStep(i)

\* Threads that can run do run, worker threads included; nothing has to be sent.
Fairness == \A i \in Irp : WF_vars(RequestStep(i))

Spec == Init /\ [][Next]_vars /\ Fairness
-----------------------------------------------------------------------------
(* Safety *)

\* A notification for what is no directory: it is queued with the notify package and completed
\* too (dircntrl.c:408, 461), and may so be completed again.
Misdirected(i) == IsNotify(i) /\ op[i].target \in {"file", "pagefile"}

\* No request is completed twice and no context is released twice, no context is
\* released under a request that still needs it, and no thread, queue or other
\* component has a request that is over: whichever of the ways a routine
\* can end was taken, before or after a post, with or without an exception.  A misdirected
\* notification is completed twice at most, and not while it is completed and queued.
CompletedOnce ==
  \A i \in Irp :
    /\ freed[i] <= 1
    /\ completed[i] <= IF Misdirected(i) /\ i \notin notify THEN 2 ELSE 1
    /\ completed[i] > 0 <=> irp[i] = "completed"
    /\ completed[i] > 0 => pc[i] \in {"sent", "away"} /\ (i \in notify => Misdirected(i))
    /\ freed[i] = 1 => panic \/ (pc[i] = "away" /\ irp[i] \notin {"driver", "worker", "queue"})

\* Somebody can finish a request whose thread has returned: a worker, the Cache
\* Manager, a lower driver, the notify package.  This holds whatever the
\* request is, but for a write that could not wait (see PendingHasOwner) and the
\* routines the sample does not fill in.
PendingOwnedUnlessWrite ==
  \A i \in Irp :
    pc[i] = "away" /\ irp[i] = "driver" => op[i].major \in {"write", "cleanup", "close", "shutdown"}

ReliesOnSize(i) ==
  \/ IsRead(i) /\ (pc[i] = "checked" \/ (irp[i] = "disk" /\ op[i].target = "file"))
  \/ IsCallback(i) /\ pc[i] = "held"

\* read.c: "since a FCB resource has already been acquired, and since all file
\* size changes require acquisition of both FCB resources, the contents
\* of the FCB can safely be examined".  The file's sizes do not change between
\* a read's check against them and its end, nor while the VMM or the Cache Manager
\* works on the file, from a call-back that acquired to the one that releases.
SizeFixed ==
  [][\A i \in Irp : ReliesOnSize(i) => size' = size]_vars

\* A resource is held by a thread that is at work or by a noncached request
\* pending on the disk; the one thing that outlives its request, through any
\* number of posts and exceptions, is the PagingIo of a set.
ResourcesReleased ==
  \A i \in Irp, r \in Resource :
    hold[i][r] # "none" =>
      \/ pc[i] \in {"paging", "held", "checked", "opening", "storing", "looping", "taken", "releasing"}
      \/ irp[i] = "disk"
      \/ IsSet(i) /\ r = Paging(i)

\* create.c: with the volume's resource held exclusively, an open "will lock out all
\* other concurrent create/open requests".  Whoever else holds that resource, shared or
\* exclusively, finds as many opens in the volume's list as VCBOpenCount says.
OpenCountConsistent ==
  (\E i \in Irp : hold[i][Vcb] # "none" /\ pc[i] # "opening") => openCount = Cardinality(opens)

\* dircntrl.c: queries of a directory, which look for the pattern of the first one
\* in the CCB and store one if there is none, do not both find none: memory
\* for a pattern is allocated once.
PatternStoredOnce == \A s \in Stream : patterns[s] <= 1

\* fastio.c: LazyWriterThreadID, "for identification when an actual write request is
\* received", names the thread that holds the file for a lazy write and no other,
\* whoever waits for the file; it is 0 when the next lazy writer gets the file,
\* and the thread's own when it gives it back, as the two ASSERTs say.
LazyWriterHoldsFile ==
  /\ \A i \in lazyWriter : IsLazyWrite(i) /\ hold[i][Main(i)] = "exclusive"
  /\ \A i \in Irp : IsLazyWrite(i) /\ pc[i] \in {"taken", "held"} =>
       lazyWriter = IF pc[i] = "held" THEN {i} ELSE {}

\* The order in which a thread takes resources.
Rank(r) == IF r = Vcb THEN 0 ELSE IF r[2] = "main" THEN 1 ELSE 2

\* fastio.c: Main is acquired, then PagingIo, "to conform with the resource acquisition
\* described in the set file information routine".  No dispatch routine, worker
\* or call-back takes a resource while it holds one of the same or a higher rank,
\* so threads never wait for each other in a circle.
AcquiredInOrder ==
  [][\A i \in Irp : hold'[i] # hold[i] =>
       \A r \in Resource : hold[i][r] = "none" /\ hold'[i][r] # "none" =>
         \A s \in Resource : hold[i][s] # "none" => Rank(s) < Rank(r)]_vars
-----------------------------------------------------------------------------
(* What the requests are promised *)

Stage(i) ==
  CASE irp[i] = "caller" -> "new"
    [] irp[i] = "driver" -> IF pc[i] = "away" THEN "lost" ELSE "served"
    [] irp[i] = "worker" -> "worked"
    [] irp[i] = "queue" -> "waiting"
    [] irp[i] \in {"cache", "disk", "lower", "notify"} -> "given"
    [] irp[i] = "completed" -> "over"

\* A call-back is no request; a read at DISPATCH_LEVEL is a kind of its own, and a misdirected
\* notification.
KindOf(i) ==
  IF irp[i] = "caller" THEN "none"
  ELSE IF IsRead(i) /\ op[i].form = "dpc" THEN "dpc"
  ELSE IF Misdirected(i) THEN "misdirected" ELSE op[i].major

Life == INSTANCE RequestLife WITH
  Kind     <- IrpMajor \cup {"dpc", "misdirected"},
  Result   <- Status,
  Losable  <- {"write", "cleanup", "close", "shutdown"},
  Reposted <- {"dpc"},
  Repeated <- {"misdirected"},
  stage    <- [i \in Irp |-> Stage(i)],
  kind     <- [i \in Irp |-> KindOf(i)],
  answers  <- completed,
  released <- freed,
  result   <- status,
  stopped  <- panic

\* Whatever routines, workers, the Cache Manager and the drivers below do, in whatever
\* order, each request has at most one of them at a time and is answered by that one, once;
\* its context is released once and not under a routine or a worker.  The exceptions are
\* the writes that could not wait and the routines not filled in, which get lost, reads at
\* DISPATCH_LEVEL, which the worker queues again, and misdirected notifications.
LivesAsPromised == Life!Spec
-----------------------------------------------------------------------------
(* Liveness *)

\* Every request that was sent is completed, by its caller's thread or by a
\* worker, and every call-back returns.
RequestsCompleted ==
  \A i \in Irp : pc[i] # "unsent" ~> irp[i] = "completed" \/ (IsCallback(i) /\ pc[i] = "away")
-----------------------------------------------------------------------------
(* What comments say and the code does not do *)

\* write.c: a write that cannot wait is to "post the request to be processed in the
\* context of a worker thread"; whatever is pending is in somebody's hands.
PendingHasOwner ==
  \A i \in Irp : pc[i] = "away" => irp[i] # "driver"
=============================================================================
