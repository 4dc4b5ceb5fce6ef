----------------------------- MODULE SFsdProofs -----------------------------
(***************************************************************************)
(* Theorems about the sample FSD's requests, for any number of threads and *)
(* any requests: what each thread holds and owns at each place of its      *)
(* routine, and what follows about completion, resources and their order.  *)
(***************************************************************************)
EXTENDS SFsd, TLAPS

----------------------------------------------------------------------------
(* What a request has, wherever its thread is *)

IsMap(f) == f = [j \in Irp |-> f[j]]

Maps ==
  /\ IsMap(op) /\ IsMap(canBlock) /\ IsMap(pc) /\ IsMap(irp) /\ IsMap(hold) /\ IsMap(buffer)
  /\ IsMap(status) /\ IsMap(completed) /\ IsMap(freed)
  /\ \A i \in Irp : hold[i] = [r \in Resource |-> hold[i][r]]

\* The resource a routine takes first, and how.
Own(i) ==
  IF IsRead(i) \/ IsWrite(i) THEN TransferResource(i)
  ELSE IF IsCreate(i) \/ (IsFlush(i) /\ FlushesVolume(i)) THEN Vcb ELSE Main(i)

OwnMode(i) ==
  IF IsWrite(i) THEN WriteMode(i)
  ELSE IF IsRead(i) \/ IsQuery(i) \/ IsNotify(i) \/ IsReadAhead(i) THEN "shared" ELSE "exclusive"

\* Labels of a request at work, and of those with a resource.
Inside == {"held", "checked", "opening", "storing", "looping"}
AtWork == {"start", "paging"} \cup Inside

\* It holds that resource.
Owns(i) ==
  \/ pc[i] \in Inside \cup {"taken", "releasing"} /\ ~(IsSet(i) /\ op[i].target = "pagefile")
  \/ pc[i] = "paging" /\ op[i].target # "pagefile"
  \/ pc[i] = "away" /\ irp[i] = "disk" /\ op[i].target = "file"

\* The second resource, of those that take two.
OwnsPaging(i) == (IsSet(i) \/ IsSection(i)) /\ pc[i] = "held"

HoldInv(i) ==
  /\ \A r \in Resource : hold[i][r] \in Mode
  /\ \A r \in Resource : hold[i][r] # "none" =>
       \/ r = Own(i) /\ Owns(i) /\ hold[i][r] = OwnMode(i)
       \/ /\ r = Paging(i) /\ hold[i][r] = "exclusive"
          /\ OwnsPaging(i) \/ (IsSet(i) /\ pc[i] = "away")
  /\ Owns(i) => Own(i) \in Resource /\ hold[i][Own(i)] = OwnMode(i)
  /\ OwnsPaging(i) => Paging(i) \in Resource /\ hold[i][Paging(i)] = "exclusive"

\* The requests that get to a label.
Reaches(i, label) ==
  /\ IsCallback(i) => label \in {"unsent", "start", "taken", "held", "releasing", "away"}
  /\ label = "held" =>
       /\ op[i].major \in {"read", "write", "query", "set", "create", "flush", "directory"}
                            \cup CallbackMajor
       /\ IsRead(i) \/ IsWrite(i) => op[i].target \in {"volume", "file"}
       /\ IsQuery(i) \/ IsSet(i) => op[i].target \in Stream
       /\ IsFlush(i) => FlushesVolume(i) \/ op[i].target \in Stream
       /\ IsDirectory(i) => (IsLookup(i) \/ IsNotify(i)) /\ op[i].target \in Stream
  /\ label = "paging" => IsSet(i) /\ op[i].target \in Stream
  /\ label = "checked" => IsRead(i) /\ op[i].target = "file"
  /\ label \in {"opening", "looping"} => IsCreate(i)
  /\ label = "storing" => IsLookup(i) /\ op[i].target \in Stream
  /\ label \in {"taken", "releasing"} => IsSection(i) \/ IsLazyWrite(i)
  /\ label = "sent" => IsFlush(i) \/ IsIoctl(i)

LabelInv(i) ==
  /\ pc[i] \in AtWork \cup {"unsent", "taken", "releasing", "sent", "queued", "away"}
  /\ pc[i] # "unsent" => op[i] \in Sent
  /\ Reaches(i, pc[i])

\* Who has the IRP.  A call-back has none.
IrpInv(i) ==
  /\ pc[i] = "unsent" \/ IsCallback(i) => irp[i] = "caller"
  /\ pc[i] # "unsent" /\ ~IsCallback(i) =>
       /\ pc[i] \in AtWork => irp[i] \in {"driver", "worker"}
       /\ pc[i] = "queued" => irp[i] = "queue"
       /\ pc[i] = "sent" => irp[i] \in {"lower", "completed"}
       /\ pc[i] = "away" => irp[i] \in {"driver", "cache", "disk", "lower", "notify", "completed"}
       /\ pc[i] = "away" /\ irp[i] = "driver" =>
            op[i].major \in {"write", "cleanup", "close", "shutdown"}
       /\ irp[i] = "worker" => canBlock[i] = TRUE
       /\ irp[i] = "cache" => IsWrite(i)
       /\ irp[i] = "disk" => (IsRead(i) \/ IsWrite(i)) /\ op[i].target \in {"pagefile", "file"}

\* The context is released once, and only when the routine and its worker need it no more.
FreedInv(i) ==
  /\ freed[i] \in {0, 1}
  /\ freed[i] = 1 /\ ~panic => pc[i] = "away" /\ irp[i] \in {"completed", "notify", "lower"}

ValueInv(i) ==
  /\ op[i] \in Request /\ canBlock[i] \in BOOLEAN
  /\ buffer[i] \in {"user", "short", "locked"} /\ status[i] \in Status
  /\ completed[i] \in Nat

ReqInv(i) == HoldInv(i) /\ LabelInv(i) /\ IrpInv(i) /\ FreedInv(i) /\ ValueInv(i)

\* A resource that is held exclusively is held by nobody else.
Exclusion ==
  \A i, j \in Irp, r \in Resource :
    i # j /\ hold[i][r] = "exclusive" => hold[j][r] = "none"

\* What is queued for a change of a directory is nobody else's to complete, or was completed
\* with the queueing.
NotifyInv ==
  \A i \in notify : i \in Irp /\ irp[i] \in {"notify", "completed"} /\ pc[i] = "away" /\ ~IsCallback(i)

ControlInv == Maps /\ (\A i \in Irp : ReqInv(i)) /\ Exclusion /\ NotifyInv

\* How often a request was completed, by who has it, and who has what is queued for a change.
OnceInv ==
  /\ \A i \in Irp :
       IF irp[i] = "completed"
         THEN completed[i] = 1 \/ (completed[i] = 2 /\ Misdirected(i) /\ i \notin notify)
         ELSE completed[i] = 0
  /\ \A i \in notify : irp[i] = "notify" \/ Misdirected(i)
----------------------------------------------------------------------------
(* What a step does to its own request *)

\* Nothing of another request is touched.
Others(i) ==
  /\ Maps'
  /\ \A j \in Irp \ {i} :
       /\ op'[j] = op[j] /\ canBlock'[j] = canBlock[j] /\ pc'[j] = pc[j] /\ irp'[j] = irp[j]
       /\ hold'[j] = hold[j] /\ buffer'[j] = buffer[j] /\ status'[j] = status[j]
       /\ completed'[j] = completed[j] /\ freed'[j] = freed[j]

\* No resource is taken, or one is, that is granted and next in order.
Shrinks(i) == \A r \in Resource : hold'[i][r] \in {hold[i][r], "none"}

Gains(i) ==
  \E r \in Resource, mode \in {"shared", "exclusive"} :
    /\ Grants(i, r, mode)
    /\ \A s \in Resource : hold'[i][s] = IF s = r THEN mode ELSE hold[i][s]
    /\ \A s \in Resource : hold[i][s] # "none" => Rank(s) < Rank(r)

\* A completion is counted when the IRP is completed.
Counted(i) ==
  \/ completed'[i] = completed[i] /\ (irp'[i] = "completed" <=> irp[i] = "completed")
  \/ /\ completed'[i] = completed[i] + 1 /\ irp'[i] = "completed"
     /\ irp[i] # "completed" \/ i \in notify

ReqStep(i) == Others(i) /\ ReqInv(i)' /\ (Shrinks(i) \/ Gains(i)) /\ Counted(i)

Same(i) == op'[i] = op[i] /\ canBlock'[i] = canBlock[i]

\* A request that can move is not one that is queued for a change.
Moves(i) == pc[i] # "away" \/ irp[i] \in {"cache", "lower"}

\* What RequestLife sees of a step: where the request was and is, and what was done to it.
Goes(i, from, to) == Stage(i) \in from /\ Stage(i)' = to
Unanswered(i)     == completed'[i] = completed[i] /\ status'[i] = status[i]
Frees(i)          == freed[i] = 0 /\ freed'[i] = 1
Unfreed(i)        == freed'[i] = freed[i]

Lives(i) ==
  \/ /\ Goes(i, {"new"}, "served") /\ Unanswered(i) /\ Unfreed(i)
     /\ KindOf(i)' \in IrpMajor \cup {"dpc", "misdirected"}
  \/ /\ KindOf(i)' = KindOf(i) /\ Unanswered(i) /\ Unfreed(i)
     /\ \/ Stage(i)' = Stage(i)
        \/ Goes(i, {"served"}, "waiting")
        \/ Goes(i, {"worked"}, "waiting") /\ KindOf(i) = "dpc"
        \/ Goes(i, {"waiting"}, "worked")
        \/ Goes(i, {"served", "worked"}, "given")
        \/ /\ Goes(i, {"served", "worked", "given"}, "lost")
           /\ KindOf(i) \in {"write", "cleanup", "close", "shutdown"}
  \/ /\ KindOf(i)' = KindOf(i) /\ Unanswered(i) /\ Frees(i)
     /\ \/ Goes(i, {"served", "worked"}, "given")
        \/ Stage(i) \in {"given", "over"} /\ Stage(i)' = Stage(i)
  \/ /\ KindOf(i)' = KindOf(i) /\ completed'[i] = completed[i] + 1 /\ status'[i] \in Status
     /\ \/ Goes(i, {"served", "worked"}, "over") /\ Frees(i)
        \/ Goes(i, {"served", "worked", "waiting", "given"}, "over") /\ Unfreed(i)

\* The machine goes down under a routine.
Stops(i) ==
  /\ Stage(i) \in {"served", "worked"} /\ Stage(i)' = Stage(i) /\ KindOf(i)' = KindOf(i)
  /\ Unanswered(i) /\ Frees(i)

Advances(i) == ReqStep(i) /\ Moves(i) /\ Lives(i)

\* The resources and their order.
LEMMA ResourceFacts ==
  ASSUME NEW i \in Irp
  PROVE  /\ Vcb \in Resource /\ Rank(Vcb) = 0
         /\ op[i].target \in Stream => Main(i) \in Resource /\ Paging(i) \in Resource
         /\ Main(i) # Paging(i) /\ Main(i) # Vcb /\ Paging(i) # Vcb
         /\ Rank(Main(i)) = 1 /\ Rank(Paging(i)) = 2
  BY DEF Vcb, Resource, Rank, Main, Paging

\* The request decides which resource its routine takes.
LEMMA SameRequest ==
  ASSUME NEW i \in Irp, op'[i] = op[i]
  PROVE  /\ Own(i)' = Own(i) /\ OwnMode(i)' = OwnMode(i)
         /\ Main(i)' = Main(i) /\ Paging(i)' = Paging(i)
         /\ IsSet(i)' = IsSet(i) /\ IsSection(i)' = IsSection(i) /\ IsWrite(i)' = IsWrite(i)
         /\ IsRead(i)' = IsRead(i) /\ IsCallback(i)' = IsCallback(i)
         /\ \A label : Reaches(i, label)' = Reaches(i, label)
  BY DEF Own, OwnMode, Main, Paging, TransferResource, WriteMode, FlushesVolume, Reaches,
         IsRead, IsWrite, IsQuery, IsSet, IsCreate, IsFlush, IsIoctl, IsDirectory, IsLookup,
         IsNotify, IsSection, IsLazyWrite, IsReadAhead, IsCallback
\* Where a request is, by who has its IRP.
LEMMA StageFacts ==
  ASSUME NEW i \in Irp
  PROVE  /\ irp[i] = "caller" => Stage(i) = "new" /\ KindOf(i) = "none"
         /\ irp[i] = "driver" => Stage(i) = IF pc[i] = "away" THEN "lost" ELSE "served"
         /\ irp[i] = "worker" => Stage(i) = "worked"
         /\ irp[i] = "queue" => Stage(i) = "waiting"
         /\ irp[i] \in {"cache", "disk", "lower", "notify"} => Stage(i) = "given"
         /\ irp[i] = "completed" => Stage(i) = "over"
         /\ irp'[i] = "caller" => Stage(i)' = "new" /\ KindOf(i)' = "none"
         /\ irp'[i] = "driver" => Stage(i)' = IF pc'[i] = "away" THEN "lost" ELSE "served"
         /\ irp'[i] = "worker" => Stage(i)' = "worked"
         /\ irp'[i] = "queue" => Stage(i)' = "waiting"
         /\ irp'[i] \in {"cache", "disk", "lower", "notify"} => Stage(i)' = "given"
         /\ irp'[i] = "completed" => Stage(i)' = "over"
  BY DEF Stage, KindOf

\* What kind it is does not change while it is the driver's or somebody else's.
LEMMA KindKept ==
  ASSUME NEW i \in Irp, op'[i] = op[i], irp[i] = "caller" <=> irp'[i] = "caller"
  PROVE  KindOf(i)' = KindOf(i)
  BY DEF KindOf, IsRead, Misdirected, IsNotify, IsDirectory

LEMMA KindCases ==
  ASSUME NEW i \in Irp, irp[i] # "caller"
  PROVE  /\ IsRead(i) /\ op[i].form = "dpc" => KindOf(i) = "dpc"
         /\ op[i].major \in {"write", "cleanup", "close", "shutdown"} => KindOf(i) = op[i].major
  BY DEF KindOf, IsRead, Misdirected, IsNotify, IsDirectory
\* A request at work is in one routine's hands, and its context with it.
LEMMA AtWorkFacts ==
  ASSUME ~panic, NEW i \in Irp, ReqInv(i), pc[i] \in AtWork, ~IsCallback(i),
         op'[i] = op[i], irp'[i] # "caller"
  PROVE  /\ irp[i] \in {"driver", "worker"} /\ freed[i] = 0
         /\ Stage(i) = IF irp[i] = "worker" THEN "worked" ELSE "served"
         /\ KindOf(i)' = KindOf(i)
<1>1. pc[i] \notin {"unsent", "away"} /\ irp[i] \in {"driver", "worker"}
  BY DEF ReqInv, IrpInv, AtWork, Inside
<1>2. freed[i] = 0
  BY <1>1 DEF ReqInv, FreedInv
<1> QED
  BY <1>1, <1>2, StageFacts, KindKept

\* A step that the request's life does not show.
LEMMA StaysPut ==
  ASSUME NEW i \in Irp, op'[i] = op[i], irp'[i] = irp[i],
         irp[i] = "driver" => (pc[i] = "away" <=> pc'[i] = "away"),
         completed'[i] = completed[i], status'[i] = status[i], freed'[i] = freed[i]
  PROVE  Lives(i)
<1>1. Stage(i)' = Stage(i)
  BY DEF Stage
<1> QED
  BY <1>1, KindKept DEF Lives, Unanswered, Unfreed
----------------------------------------------------------------------------
(* The shapes of a step, field by field *)

\* Complete.
LEMMA CompleteFields ==
  ASSUME Maps, NEW i \in Irp, NEW s, NEW kept, Complete(i, s, kept)
  PROVE  /\ Others(i) /\ Same(i)
         /\ pc'[i] = "away" /\ irp'[i] = "completed" /\ status'[i] = s /\ buffer'[i] = buffer[i]
         /\ freed'[i] = freed[i] + 1 /\ completed'[i] = completed[i] + 1
         /\ \A r \in Resource : hold'[i][r] = IF r \in kept THEN hold[i][r] ELSE "none"
  BY DEF Maps, IsMap, Complete, Others, Same

\* PostRequest.
LEMMA PostFields ==
  ASSUME Maps, NEW i \in Irp, NEW b, PostRequest(i, b)
  PROVE  /\ Others(i) /\ Same(i)
         /\ pc'[i] = "queued" /\ irp'[i] = "queue" /\ status'[i] = status[i] /\ buffer'[i] = b
         /\ freed'[i] = freed[i] /\ completed'[i] = completed[i]
         /\ \A r \in Resource : hold'[i][r] = "none"
  BY DEF Maps, IsMap, PostRequest, Others, Same, Nothing

\* ReturnWith.
LEMMA ReturnFields ==
  ASSUME Maps, NEW i \in Irp, NEW who, NEW kept, ReturnWith(i, who, kept)
  PROVE  /\ Others(i) /\ Same(i)
         /\ pc'[i] = "away" /\ irp'[i] = who /\ status'[i] = status[i] /\ buffer'[i] = buffer[i]
         /\ freed'[i] = freed[i] /\ completed'[i] = completed[i]
         /\ \A r \in Resource : hold'[i][r] = IF r \in kept THEN hold[i][r] ELSE "none"
  BY DEF Maps, IsMap, ReturnWith, Others, Same

\* Acquire.
LEMMA AcquireFields ==
  ASSUME Maps, NEW i \in Irp, NEW r \in Resource, NEW mode, NEW label, Acquire(i, r, mode, label)
  PROVE  /\ Others(i) /\ Same(i) /\ Grants(i, r, mode)
         /\ pc'[i] = label /\ irp'[i] = irp[i] /\ status'[i] = status[i] /\ buffer'[i] = buffer[i]
         /\ freed'[i] = freed[i] /\ completed'[i] = completed[i]
         /\ \A s \in Resource : hold'[i][s] = IF s = r THEN mode ELSE hold[i][s]
  BY DEF Maps, IsMap, Acquire, Others, Same

\* The thread only gets on.
MoveTo(i, label) ==
  /\ pc' = [pc EXCEPT ![i] = label]
  /\ UNCHANGED <<op, canBlock, irp, hold, buffer, status, completed, freed>>

LEMMA MoveFields ==
  ASSUME Maps, NEW i \in Irp, NEW label, MoveTo(i, label)
  PROVE  /\ Others(i) /\ Same(i)
         /\ pc'[i] = label /\ irp'[i] = irp[i] /\ status'[i] = status[i] /\ buffer'[i] = buffer[i]
         /\ freed'[i] = freed[i] /\ completed'[i] = completed[i] /\ hold'[i] = hold[i]
  BY DEF Maps, IsMap, MoveTo, Others, Same
----------------------------------------------------------------------------
(* The shapes keep what a request has *)

\* Before the first resource, after the last, and while it waits, a request holds none.
LEMMA HoldsNothing ==
  ASSUME NEW i \in Irp, HoldInv(i), pc[i] \in {"unsent", "start", "sent", "queued"}
  PROVE  \A r \in Resource : hold[i][r] = "none"
  BY DEF HoldInv, Owns, OwnsPaging, Inside

\* A request at work that ends gives everything back but the PagingIo of a set.
LEMMA CompleteKeeps ==
  ASSUME Maps, ~panic, NEW i \in Irp, ReqInv(i), pc[i] \in AtWork, ~IsCallback(i),
         NEW s \in Status, NEW kept,
         kept = {} \/ (kept = {Paging(i)} /\ (IsQuery(i) \/ IsSet(i))),
         Complete(i, s, kept)
  PROVE  Advances(i)
<1>1. /\ Others(i) /\ Same(i)
      /\ pc'[i] = "away" /\ irp'[i] = "completed" /\ status'[i] = s /\ buffer'[i] = buffer[i]
      /\ freed'[i] = freed[i] + 1 /\ completed'[i] = completed[i] + 1
      /\ \A r \in Resource : hold'[i][r] = IF r \in kept THEN hold[i][r] ELSE "none"
  BY CompleteFields
<1>2. pc[i] \notin {"unsent", "away", "taken", "releasing"} /\ irp[i] \in {"driver", "worker"}
  BY DEF ReqInv, LabelInv, IrpInv, AtWork, Inside
<1>3. HoldInv(i)'
  <2>1. ~Owns(i)' /\ ~OwnsPaging(i)'
    BY <1>1 DEF Owns, OwnsPaging, Inside
  <2>2. \A r \in Resource : hold'[i][r] # "none" => r = Paging(i) /\ hold[i][r] = hold'[i][r]
    BY <1>1
  <2>3. \A r \in Resource : r = Paging(i) /\ hold[i][r] # "none" /\ (IsQuery(i) \/ IsSet(i)) =>
          hold[i][r] = "exclusive" /\ IsSet(i)
    BY <1>2, ResourceFacts
       DEF ReqInv, HoldInv, Own, OwnsPaging, IsRead, IsWrite, IsQuery, IsSet, IsCreate, IsFlush, IsSection
  <2> QED
    BY <1>1, <2>1, <2>2, <2>3, SameRequest DEF HoldInv, Same, Mode
<1>4. LabelInv(i)'
  BY <1>1, <1>2, SameRequest DEF ReqInv, LabelInv, Reaches, Same, AtWork, Inside
<1>5. IrpInv(i)'
  BY <1>1, <1>2, SameRequest DEF ReqInv, IrpInv, Same, AtWork, Inside
<1>6. FreedInv(i)' /\ ValueInv(i)'
  BY <1>1, <1>2 DEF ReqInv, FreedInv, ValueInv, Same
<1>7. Shrinks(i) /\ Counted(i)
  BY <1>1, <1>2 DEF Shrinks, Counted
<1>8. Lives(i)
  BY <1>1, AtWorkFacts, StageFacts DEF Lives, Goes, Frees, Same
<1> QED
  BY <1>1, <1>2, <1>3, <1>4, <1>5, <1>6, <1>7, <1>8 DEF Advances, ReqStep, ReqInv, Moves

\* A request at work that is posted gives everything back.
LEMMA PostKeeps ==
  ASSUME Maps, ~panic, NEW i \in Irp, ReqInv(i), pc[i] \in AtWork, ~IsCallback(i),
         NEW b \in {"user", "short", "locked"}, PostRequest(i, b),
         ~canBlock[i] \/ (IsRead(i) /\ op[i].form = "dpc")
  PROVE  Advances(i)
<1>1. /\ Others(i) /\ Same(i)
      /\ pc'[i] = "queued" /\ irp'[i] = "queue" /\ status'[i] = status[i] /\ buffer'[i] = b
      /\ freed'[i] = freed[i] /\ completed'[i] = completed[i]
      /\ \A r \in Resource : hold'[i][r] = "none"
  BY PostFields
<1>2. pc[i] \notin {"unsent", "away", "taken", "releasing"} /\ irp[i] \in {"driver", "worker"}
  BY DEF ReqInv, LabelInv, IrpInv, AtWork, Inside
<1>3. HoldInv(i)'
  BY <1>1 DEF HoldInv, Owns, OwnsPaging, Inside, Mode
<1>4. LabelInv(i)'
  BY <1>1, <1>2, SameRequest DEF ReqInv, LabelInv, Reaches, Same, AtWork, Inside
<1>5. IrpInv(i)'
  BY <1>1, <1>2, SameRequest DEF ReqInv, IrpInv, Same, AtWork, Inside
<1>6. FreedInv(i)' /\ ValueInv(i)'
  BY <1>1, <1>2 DEF ReqInv, FreedInv, ValueInv, Same
<1>7. Shrinks(i) /\ Counted(i)
  BY <1>1, <1>2 DEF Shrinks, Counted
<1>8. Lives(i)
  <2>1. irp[i] = "worker" => KindOf(i) = "dpc"
    BY <1>2, KindCases DEF ReqInv, IrpInv
  <2> QED
    BY <1>1, <2>1, AtWorkFacts, StageFacts DEF Lives, Goes, Unanswered, Unfreed, Same
<1> QED
  BY <1>1, <1>2, <1>3, <1>4, <1>5, <1>6, <1>7, <1>8 DEF Advances, ReqStep, ReqInv, Moves

\* Who may have the IRP when a routine returns with it, and what is kept then.
Leaves(i, who, kept) ==
  \/ /\ who = "driver" /\ op[i].major \in {"write", "cleanup", "close", "shutdown"}
     /\ kept = {}
  \/ who = "cache" /\ IsWrite(i) /\ kept = {}
  \/ /\ who = "disk" /\ (IsRead(i) \/ IsWrite(i)) /\ op[i].target = "pagefile"
     /\ kept = {}
  \/ /\ who = "disk" /\ (IsRead(i) \/ IsWrite(i)) /\ op[i].target = "file"
     /\ kept = {Own(i)} /\ pc[i] \in Inside

\* A request at work that is left pending keeps its resource for the disk only.
LEMMA ReturnKeeps ==
  ASSUME Maps, ~panic, NEW i \in Irp, ReqInv(i), pc[i] \in AtWork, ~IsCallback(i),
         NEW who, NEW kept, Leaves(i, who, kept), ReturnWith(i, who, kept)
  PROVE  Advances(i)
<1>1. /\ Others(i) /\ Same(i)
      /\ pc'[i] = "away" /\ irp'[i] = who /\ status'[i] = status[i] /\ buffer'[i] = buffer[i]
      /\ freed'[i] = freed[i] /\ completed'[i] = completed[i]
      /\ \A r \in Resource : hold'[i][r] = IF r \in kept THEN hold[i][r] ELSE "none"
  BY ReturnFields
<1>2. pc[i] \notin {"unsent", "away", "taken", "releasing"} /\ irp[i] \in {"driver", "worker"}
  BY DEF ReqInv, LabelInv, IrpInv, AtWork, Inside
<1>3. HoldInv(i)'
  <2>1. ~OwnsPaging(i)' /\ ~IsSet(i)
    BY <1>1 DEF OwnsPaging, Leaves, IsSet, IsRead, IsWrite
  <2>2. CASE kept = {}
    <3>1. ~Owns(i)'
      BY <1>1, <2>2 DEF Owns, Inside, Same, Leaves
    <3> QED
      BY <1>1, <2>1, <2>2, <3>1 DEF HoldInv, Mode
  <2>3. CASE kept = {Own(i)} /\ pc[i] \in Inside
    <3>1. Own(i) \in Resource /\ hold[i][Own(i)] = OwnMode(i) /\ OwnMode(i) \in Mode
      BY <2>1, <2>3 DEF ReqInv, HoldInv, Owns
    <3>2. Owns(i)'
      BY <1>1, <2>3 DEF Owns, Leaves, Same
    <3> QED
      BY <1>1, <2>1, <2>3, <3>1, <3>2, SameRequest DEF HoldInv, Same, Mode
  <2> QED
    BY <2>2, <2>3 DEF Leaves
<1>4. LabelInv(i)'
  BY <1>1, <1>2, SameRequest DEF ReqInv, LabelInv, Reaches, Same, AtWork, Inside
<1>5. IrpInv(i)'
  BY <1>1, <1>2, SameRequest DEF ReqInv, IrpInv, Same, AtWork, Inside, Leaves
<1>6. FreedInv(i)' /\ ValueInv(i)'
  BY <1>1, <1>2 DEF ReqInv, FreedInv, ValueInv, Same
<1>7. Shrinks(i) /\ Counted(i)
  BY <1>1, <1>2 DEF Shrinks, Counted, Leaves
<1>8. Lives(i)
  <2>1. CASE who = "driver"
    <3>1. KindOf(i) \in {"write", "cleanup", "close", "shutdown"}
      BY <1>2, <2>1, KindCases DEF Leaves, IsRead, IsWrite
    <3> QED
      BY <1>1, <2>1, <3>1, AtWorkFacts, StageFacts DEF Lives, Goes, Unanswered, Unfreed, Same
  <2>2. CASE who \in {"cache", "disk"}
    BY <1>1, <2>2, AtWorkFacts, StageFacts DEF Lives, Goes, Unanswered, Unfreed, Same
  <2> QED
    BY <2>1, <2>2 DEF Leaves
<1> QED
  BY <1>1, <1>2, <1>3, <1>4, <1>5, <1>6, <1>7, <1>8 DEF Advances, ReqStep, ReqInv, Moves

\* The first resource a routine takes.
LEMMA AcquireKeeps ==
  ASSUME Maps, ~panic, NEW i \in Irp, ReqInv(i), pc[i] = "start",
         NEW label \in {"held", "taken", "paging"}, Own(i) \in Resource,
         Reaches(i, label), ~(IsSet(i) /\ op[i].target = "pagefile"),
         label = "held" => ~IsSet(i) /\ ~IsSection(i),
         Acquire(i, Own(i), OwnMode(i), label)
  PROVE  Advances(i)
<1>0. OwnMode(i) \in {"shared", "exclusive"}
  BY DEF OwnMode, WriteMode
<1>1. /\ Others(i) /\ Same(i) /\ Grants(i, Own(i), OwnMode(i))
      /\ pc'[i] = label /\ irp'[i] = irp[i] /\ status'[i] = status[i] /\ buffer'[i] = buffer[i]
      /\ freed'[i] = freed[i] /\ completed'[i] = completed[i]
      /\ \A s \in Resource : hold'[i][s] = IF s = Own(i) THEN OwnMode(i) ELSE hold[i][s]
  BY AcquireFields
<1>2. \A r \in Resource : hold[i][r] = "none"
  BY HoldsNothing DEF ReqInv
<1>3. HoldInv(i)'
  <2>1. ~OwnsPaging(i)'
    BY <1>1, SameRequest DEF OwnsPaging, Same
  <2>2. Owns(i)'
    BY <1>1, SameRequest DEF Owns, Inside, Same, IsSet, Reaches
  <2> QED
    BY <1>0, <1>1, <1>2, <2>1, <2>2, SameRequest DEF HoldInv, Same, Mode
<1>4. LabelInv(i)'
  BY <1>1, SameRequest DEF ReqInv, LabelInv, Same, AtWork, Inside
<1>5. IrpInv(i)'
  BY <1>1, SameRequest DEF ReqInv, IrpInv, Reaches, IsSet, IsSection, IsLazyWrite, IsCallback,
                           CallbackMajor, Same, AtWork, Inside
<1>6. FreedInv(i)' /\ ValueInv(i)'
  BY <1>1 DEF ReqInv, FreedInv, ValueInv, Same
<1>7. Gains(i) /\ Counted(i)
  BY <1>0, <1>1, <1>2 DEF Gains, Counted
<1>8. Lives(i)
  BY <1>1, StaysPut DEF Same
<1> QED
  BY <1>1, <1>3, <1>4, <1>5, <1>6, <1>7, <1>8 DEF Advances, ReqStep, ReqInv, Moves

\* The second resource, PagingIo.
LEMMA AcquirePagingKeeps ==
  ASSUME Maps, ~panic, NEW i \in Irp, ReqInv(i), op[i].target \in Stream,
         (pc[i] = "paging" /\ IsSet(i)) \/ (pc[i] = "taken" /\ IsSection(i)),
         Acquire(i, Paging(i), "exclusive", "held")
  PROVE  Advances(i)
<1>0. Main(i) \in Resource /\ Paging(i) \in Resource /\ Own(i) = Main(i) /\ Own(i) # Paging(i)
  BY ResourceFacts DEF Own, IsSet, IsSection, IsRead, IsWrite, IsCreate, IsFlush
<1>1. /\ Others(i) /\ Same(i) /\ Grants(i, Paging(i), "exclusive")
      /\ pc'[i] = "held" /\ irp'[i] = irp[i] /\ status'[i] = status[i] /\ buffer'[i] = buffer[i]
      /\ freed'[i] = freed[i] /\ completed'[i] = completed[i]
      /\ \A s \in Resource : hold'[i][s] = IF s = Paging(i) THEN "exclusive" ELSE hold[i][s]
  BY <1>0, AcquireFields
<1>2. \A r \in Resource : hold[i][r] # "none" => r = Own(i)
  BY DEF ReqInv, HoldInv, OwnsPaging
<1>3. HoldInv(i)'
  <2>1. OwnsPaging(i)'
    BY <1>1, SameRequest DEF OwnsPaging, Same
  <2>2. Owns(i)' <=> Owns(i)
    BY <1>1, SameRequest DEF Owns, Inside, Same, IsSet, IsSection
  <2> QED
    BY <1>0, <1>1, <1>2, <2>1, <2>2, SameRequest DEF ReqInv, HoldInv, Same, Mode
<1>4. LabelInv(i)'
  <2>1. Reaches(i, "held")
    BY DEF Reaches, IsSet, IsSection, IsRead, IsWrite, IsQuery, IsFlush, IsDirectory, IsCallback,
           CallbackMajor
  <2> QED
    BY <1>1, <2>1, SameRequest DEF ReqInv, LabelInv, Same, AtWork, Inside
<1>5. IrpInv(i)'
  BY <1>1, SameRequest DEF ReqInv, IrpInv, IsSet, IsSection, IsCallback, CallbackMajor, Same,
                           AtWork, Inside
<1>6. FreedInv(i)' /\ ValueInv(i)'
  BY <1>1 DEF ReqInv, FreedInv, ValueInv, Same
<1>7. Gains(i) /\ Counted(i)
  BY <1>0, <1>1, <1>2, ResourceFacts DEF Gains, Counted
<1>8. Lives(i)
  BY <1>1, StaysPut DEF Same
<1> QED
  BY <1>1, <1>3, <1>4, <1>5, <1>6, <1>7, <1>8 DEF Advances, ReqStep, ReqInv, Moves

\* Steps of the thread alone.
Steps(i, label) ==
  \/ /\ pc[i] \in Inside \cup {"taken"} /\ label \in Inside \cup {"releasing"}
     /\ ~IsSet(i) /\ ~IsSection(i)
  \/ pc[i] = "start" /\ label = "paging" /\ IsSet(i) /\ op[i].target = "pagefile"
  \/ pc[i] = "start" /\ label = "away" /\ IsCallback(i)

LEMMA MoveKeeps ==
  ASSUME Maps, ~panic, NEW i \in Irp, ReqInv(i), NEW label, Reaches(i, label), Steps(i, label),
         MoveTo(i, label)
  PROVE  Advances(i)
<1>1. /\ Others(i) /\ Same(i)
      /\ pc'[i] = label /\ irp'[i] = irp[i] /\ status'[i] = status[i] /\ buffer'[i] = buffer[i]
      /\ freed'[i] = freed[i] /\ completed'[i] = completed[i] /\ hold'[i] = hold[i]
  BY MoveFields
<1>2. pc[i] \notin {"unsent", "away"} /\ (label = "away" => irp[i] = "caller")
  BY DEF Steps, Inside, ReqInv, IrpInv
<1>3. HoldInv(i)'
  <2>1. ~OwnsPaging(i) /\ ~OwnsPaging(i)'
    BY <1>1, SameRequest DEF OwnsPaging, Same, Steps, Inside
  <2>2. Owns(i)' <=> Owns(i)
    BY <1>1, <1>2, SameRequest DEF Owns, Inside, Same, Steps, IsSet
  <2> QED
    BY <1>1, <1>2, <2>1, <2>2, SameRequest DEF ReqInv, HoldInv, Same, Steps
<1>4. LabelInv(i)'
  BY <1>1, <1>2, SameRequest DEF ReqInv, LabelInv, Same, AtWork, Inside, Steps
<1>5. IrpInv(i)'
  BY <1>1, <1>2, SameRequest
     DEF ReqInv, LabelInv, Reaches, IrpInv, IsSection, IsLazyWrite, IsSet, IsCallback, CallbackMajor,
         Same, AtWork, Inside, Steps
<1>6. FreedInv(i)' /\ ValueInv(i)'
  BY <1>1, <1>2 DEF ReqInv, FreedInv, ValueInv, Same
<1>7. Shrinks(i) /\ Counted(i)
  BY <1>1, <1>2 DEF Shrinks, Counted
<1>8. Lives(i)
  BY <1>1, <1>2, StaysPut DEF Same, Steps, Inside
<1> QED
  BY <1>1, <1>2, <1>3, <1>4, <1>5, <1>6, <1>7, <1>8 DEF Advances, ReqStep, ReqInv, Moves
----------------------------------------------------------------------------
(* One lemma per group of routines *)

\* What the kinds of a request exclude.
LEMMA KindFacts ==
  ASSUME NEW i \in Irp
  PROVE  /\ IsRead(i) => ~IsWrite(i) /\ ~IsCallback(i) /\ ~IsSet(i) /\ ~IsSection(i)
         /\ IsWrite(i) => ~IsRead(i) /\ ~IsCallback(i) /\ ~IsSet(i) /\ ~IsSection(i)
         /\ IsQuery(i) => ~IsCallback(i) /\ ~IsSet(i) /\ ~IsSection(i)
         /\ IsSet(i) => ~IsCallback(i) /\ ~IsQuery(i) /\ ~IsSection(i)
         /\ IsCreate(i) => ~IsCallback(i) /\ ~IsSet(i) /\ ~IsSection(i)
         /\ IsFlush(i) => ~IsCallback(i) /\ ~IsSet(i) /\ ~IsSection(i)
         /\ IsIoctl(i) => ~IsCallback(i) /\ ~IsSet(i) /\ ~IsSection(i)
         /\ IsDirectory(i) => ~IsCallback(i) /\ ~IsSet(i) /\ ~IsSection(i)
         /\ IsSection(i) \/ IsLazyWrite(i) \/ IsReadAhead(i) <=> IsCallback(i)
         /\ IsCallback(i) => ~IsSet(i)
         /\ IsLazyWrite(i) \/ IsReadAhead(i) => ~IsSection(i)
         /\ IsLazyWrite(i) => ~IsReadAhead(i)
  BY DEF IsRead, IsWrite, IsQuery, IsSet, IsCreate, IsFlush, IsIoctl, IsDirectory, IsSection,
         IsLazyWrite, IsReadAhead, IsCallback, CallbackMajor

\* Which resource each kind of request takes first, and how.
LEMMA OwnFacts ==
  ASSUME NEW i \in Irp
  PROVE  /\ IsRead(i) => Own(i) = TransferResource(i) /\ OwnMode(i) = "shared"
         /\ IsWrite(i) => Own(i) = TransferResource(i) /\ OwnMode(i) = WriteMode(i)
         /\ (IsRead(i) \/ IsWrite(i)) /\ op[i].target \in {"volume", "file"} => Own(i) \in Resource
         /\ IsQuery(i) => Own(i) = Main(i) /\ OwnMode(i) = "shared"
         /\ IsSet(i) => Own(i) = Main(i) /\ OwnMode(i) = "exclusive"
         /\ IsCreate(i) => Own(i) = Vcb /\ OwnMode(i) = "exclusive"
         /\ IsFlush(i) => /\ Own(i) = IF FlushesVolume(i) THEN Vcb ELSE Main(i)
                          /\ OwnMode(i) = "exclusive"
         /\ IsLookup(i) => Own(i) = Main(i) /\ OwnMode(i) = "exclusive"
         /\ IsNotify(i) => Own(i) = Main(i) /\ OwnMode(i) = "shared"
         /\ IsSection(i) \/ IsLazyWrite(i) => Own(i) = Main(i) /\ OwnMode(i) = "exclusive"
         /\ IsReadAhead(i) => Own(i) = Main(i) /\ OwnMode(i) = "shared"
  BY ResourceFacts
     DEF Own, OwnMode, TransferResource, IsRead, IsWrite, IsQuery, IsSet, IsCreate, IsFlush,
         IsDirectory, IsLookup, IsNotify, IsSection, IsLazyWrite, IsReadAhead, Stream

\* SFsdCommonRead.
LEMMA ReadKeeps ==
  ASSUME Maps, ~panic, NEW i \in Irp, ReqInv(i),
         \/ ReadUnlocked(i) \/ ReadAcquire(i) \/ ReadCheck(i) \/ ReadCached(i)
         \/ ReadRaises(i) \/ ReadNonCached(i)
  PROVE  Advances(i)
<1>0. /\ IsRead(i) /\ ~IsCallback(i) /\ ~IsSet(i) /\ ~IsSection(i) /\ ~IsWrite(i)
      /\ pc[i] \in AtWork /\ buffer[i] \in {"user", "short", "locked"}
  BY KindFacts DEF ReadUnlocked, ReadAcquire, ReadCheck, ReadCached, ReadRaises, ReadNonCached,
                   AtWork, Inside, ReqInv, ValueInv
<1>1. ASSUME NEW s \in Status, Complete(i, s, {})
      PROVE  Advances(i)
  BY <1>0, <1>1, CompleteKeeps
<1>2. ASSUME PostRead(i), ~canBlock[i] \/ op[i].form = "dpc"
      PROVE  Advances(i)
  BY <1>0, <1>2, PostKeeps DEF PostRead
<1>3. CASE ReadUnlocked(i)
  <2>1. CASE ReturnWith(i, "disk", {}) /\ op[i].target = "pagefile"
    <3>1. Leaves(i, "disk", {})
      BY <1>0, <2>1 DEF Leaves
    <3> QED
      BY <1>0, <2>1, <3>1, ReturnKeeps
  <2> QED
    BY <1>1, <1>2, <1>3, <2>1 DEF ReadUnlocked, Fail, Succeed, Status
<1>4. CASE ReadAcquire(i)
  <2>1. Own(i) \in Resource /\ Own(i) = TransferResource(i) /\ OwnMode(i) = "shared" /\ pc[i] = "start"
    BY <1>0, <1>4, OwnFacts DEF ReadAcquire
  <2>2. Reaches(i, "held")
    BY <1>0, <1>4 DEF Reaches, ReadAcquire, IsRead, IsQuery, IsSet, IsFlush, IsDirectory
  <2>3. CASE Acquire(i, Own(i), OwnMode(i), "held")
    BY <1>0, <2>1, <2>2, <2>3, AcquireKeeps
  <2> QED
    BY <1>2, <1>4, <2>1, <2>3 DEF ReadAcquire, Busy
<1>5. CASE ReadCheck(i)
  <2>1. CASE MoveTo(i, "checked") /\ op[i].target # "volume"
    <3>1. Reaches(i, "checked")
      BY <1>0, <1>5, <2>1 DEF ReadCheck, Reaches, ReqInv, LabelInv
    <3>2. Steps(i, "checked")
      BY <1>0, <1>5 DEF ReadCheck, Steps, Inside
    <3> QED
      BY <2>1, <3>1, <3>2, MoveKeeps
  <2> QED
    BY <1>1, <1>5, <2>1 DEF ReadCheck, Fail, Succeed, Status, MoveTo
<1>6. CASE ReadCached(i)
  BY <1>1, <1>2, <1>6 DEF ReadCached, Status
<1>7. CASE ReadRaises(i)
  BY <1>1, <1>7 DEF ReadRaises, Raise, Status
<1>8. CASE ReadNonCached(i)
  <2>1. Leaves(i, "disk", {TransferResource(i)})
    BY <1>0, <1>8, OwnFacts DEF Leaves, ReadNonCached, ReqInv, LabelInv, Reaches, Inside
  <2> QED
    BY <1>0, <1>8, <2>1, ReturnKeeps DEF ReadNonCached
<1> QED
  BY <1>3, <1>4, <1>5, <1>6, <1>7, <1>8

\* SFsdCommonWrite, and what the Cache Manager calls for a write it deferred.
LEMMA WriteKeeps ==
  ASSUME Maps, ~panic, NEW i \in Irp, ReqInv(i),
         \/ WriteUnlocked(i) \/ WriteAcquire(i) \/ WriteVolume(i) \/ WriteCached(i)
         \/ WriteRaises(i) \/ WriteNonCached(i)
  PROVE  Advances(i)
<1>0. /\ IsWrite(i) /\ ~IsCallback(i) /\ ~IsSet(i) /\ ~IsSection(i) /\ ~IsRead(i)
      /\ pc[i] \in AtWork
  BY KindFacts DEF WriteUnlocked, WriteAcquire, WriteVolume, WriteCached, WriteRaises,
                   WriteNonCached, AtWork, Inside
<1>1. ASSUME NEW s \in Status, Complete(i, s, {})
      PROVE  Advances(i)
  BY <1>0, <1>1, CompleteKeeps
<1>2. ASSUME PostWrite(i)
      PROVE  Advances(i)
  <2>1. Leaves(i, "driver", {})
    BY <1>0 DEF Leaves, IsWrite
  <2> QED
    BY <1>0, <1>2, <2>1, ReturnKeeps DEF PostWrite
<1>3. CASE WriteUnlocked(i)
  <2>1. CASE ReturnWith(i, "disk", {}) /\ op[i].target = "pagefile"
    <3>1. Leaves(i, "disk", {})
      BY <1>0, <2>1 DEF Leaves
    <3> QED
      BY <1>0, <2>1, <3>1, ReturnKeeps
  <2>2. CASE ReturnWith(i, "cache", {})
    <3>1. Leaves(i, "cache", {})
      BY <1>0 DEF Leaves
    <3> QED
      BY <1>0, <2>2, <3>1, ReturnKeeps
  <2> QED
    BY <1>1, <1>2, <1>3, <2>1, <2>2 DEF WriteUnlocked, Fail, Succeed, Status
<1>4. CASE WriteAcquire(i)
  <2>1. Own(i) \in Resource /\ Own(i) = TransferResource(i) /\ OwnMode(i) = WriteMode(i) /\ pc[i] = "start"
    BY <1>0, <1>4, OwnFacts DEF WriteAcquire
  <2>2. Reaches(i, "held")
    BY <1>0, <1>4 DEF Reaches, WriteAcquire, IsWrite, IsQuery, IsSet, IsFlush, IsDirectory
  <2>3. CASE Acquire(i, Own(i), OwnMode(i), "held")
    BY <1>0, <2>1, <2>2, <2>3, AcquireKeeps
  <2> QED
    BY <1>2, <1>4, <2>1, <2>3 DEF WriteAcquire
<1>5. CASE WriteVolume(i)
  BY <1>1, <1>5 DEF WriteVolume, Fail, Succeed, Status
<1>6. CASE WriteCached(i)
  BY <1>1, <1>2, <1>6 DEF WriteCached, Status
<1>7. CASE WriteRaises(i)
  BY <1>1, <1>7 DEF WriteRaises, Raise, Status
<1>8. CASE WriteNonCached(i)
  <2>1. Leaves(i, "disk", {TransferResource(i)})
    BY <1>0, <1>8, OwnFacts DEF Leaves, WriteNonCached, Inside
  <2> QED
    BY <1>0, <1>1, <1>8, <2>1, ReturnKeeps DEF WriteNonCached, Fail, Status
<1> QED
  BY <1>3, <1>4, <1>5, <1>6, <1>7, <1>8

\* Steps of others with an IRP whose thread has left it: the Cache Manager calls back,
\* the driver below completes.
LEMMA AwayKeeps ==
  ASSUME Maps, ~panic, NEW i \in Irp, ReqInv(i), DeferredWriteCallBack(i) \/ LowerCompletes(i)
  PROVE  Advances(i)
<1>0. irp[i] \in {"cache", "lower"} /\ ~IsCallback(i) /\ pc[i] \in {"away", "sent"}
  BY KindFacts
     DEF DeferredWriteCallBack, LowerCompletes, ReqInv, LabelInv, IrpInv, Reaches, AtWork, Inside
<1>1. /\ Others(i) /\ Same(i)
      /\ pc'[i] = pc[i] /\ buffer'[i] = buffer[i] /\ hold'[i] = hold[i] /\ freed'[i] = freed[i]
      /\ \/ /\ irp[i] = "cache" /\ irp'[i] = "driver" /\ completed'[i] = completed[i]
            /\ status'[i] = status[i]
         \/ /\ irp[i] = "lower" /\ irp'[i] = "completed" /\ completed'[i] = completed[i] + 1
            /\ status'[i] \in Status
  BY DEF DeferredWriteCallBack, LowerCompletes, Maps, IsMap, Others, Same, FlushCompletion, Status
<1>2. HoldInv(i)'
  <2>1. ~Owns(i) /\ ~Owns(i)' /\ ~OwnsPaging(i) /\ ~OwnsPaging(i)'
    BY <1>0, <1>1 DEF Owns, OwnsPaging, Inside
  <2> QED
    BY <1>0, <1>1, <2>1, SameRequest DEF ReqInv, HoldInv, Same
<1>3. LabelInv(i)'
  BY <1>1, SameRequest DEF ReqInv, LabelInv, Same
<1>4. IrpInv(i)'
  <2>1. IsWrite(i) => op[i].major = "write"
    BY DEF IsWrite
  <2>2. irp[i] = "cache" => IsWrite(i) /\ pc[i] = "away"
    BY <1>0 DEF ReqInv, IrpInv
  <2> QED
    BY <1>0, <1>1, <2>1, <2>2, SameRequest DEF ReqInv, IrpInv, Same, AtWork, Inside
<1>5. FreedInv(i)' /\ ValueInv(i)'
  BY <1>0, <1>1 DEF ReqInv, FreedInv, ValueInv, Same, IrpInv, DeferredWriteCallBack, LowerCompletes
<1>6. Shrinks(i) /\ Counted(i)
  BY <1>1 DEF Shrinks, Counted
<1>8. Lives(i)
  <2>1. KindOf(i)' = KindOf(i) /\ Stage(i) = "given"
    BY <1>0, <1>1, StageFacts, KindKept DEF Same
  <2>2. CASE irp[i] = "cache"
    <3>1. pc[i] = "away" /\ KindOf(i) = "write"
      BY <1>0, <2>2, KindCases DEF ReqInv, LabelInv, IrpInv, IsWrite, AtWork, Inside
    <3> QED
      BY <1>1, <2>1, <2>2, <3>1, StageFacts DEF Lives, Goes, Unanswered, Unfreed
  <2>3. CASE irp[i] = "lower"
    BY <1>1, <2>1, <2>3, StageFacts DEF Lives, Goes, Unfreed
  <2> QED
    BY <1>0, <2>2, <2>3
<1> QED
  BY <1>0, <1>1, <1>2, <1>3, <1>4, <1>5, <1>6, <1>8 DEF Advances, ReqStep, ReqInv, Moves

\* SFsdCommonFileInfo, but for a set of the name.
LEMMA FileInfoKeeps ==
  ASSUME Maps, ~panic, NEW i \in Irp, ReqInv(i), FileInfoStep(i), ~SetNamesEntry(i)
  PROVE  Advances(i)
<1>0. /\ IsQuery(i) \/ IsSet(i)
      /\ ~IsCallback(i) /\ ~IsSection(i) /\ pc[i] \in AtWork
      /\ buffer[i] \in {"user", "short", "locked"}
  <2>1. IsQuery(i) \/ IsSet(i)
    BY DEF FileInfoStep, InfoOnVolume, QueryAcquire, Query, SetAcquire, SetAcquirePaging,
           SetAllocation, SetBasic, SetOther, ReqInv, LabelInv, Reaches
  <2>2. pc[i] \in AtWork
    BY DEF FileInfoStep, InfoOnVolume, QueryAcquire, Query, SetAcquire, SetAcquirePaging,
           SetAllocation, SetBasic, SetOther, AtWork, Inside
  <2> QED
    BY <2>1, <2>2, KindFacts DEF ReqInv, ValueInv
<1>1. ASSUME NEW s \in Status, Complete(i, s, KeptByInfo(i))
      PROVE  Advances(i)
  BY <1>0, <1>1, CompleteKeeps DEF KeptByInfo
<1>2. ASSUME PostInfo(i), ~canBlock[i]
      PROVE  Advances(i)
  BY <1>0, <1>2, PostKeeps DEF PostInfo
<1>3. CASE InfoOnVolume(i) \/ Query(i) \/ SetAllocation(i) \/ SetBasic(i) \/ SetOther(i)
  BY <1>1, <1>3 DEF InfoOnVolume, Query, SetAllocation, SetBasic, SetOther, EndInfo, Status
<1>4. ASSUME op[i].target \in Stream,
             NEW label \in {"held", "paging"}, pc[i] = "start",
             (label = "held" /\ IsQuery(i)) \/ (label = "paging" /\ IsSet(i)),
             ~(IsSet(i) /\ op[i].target = "pagefile"),
             Acquire(i, Main(i), IF IsQuery(i) THEN "shared" ELSE "exclusive", label)
      PROVE  Advances(i)
  <2>1. Reaches(i, label)
    BY <1>0, <1>4
       DEF Reaches, IsRead, IsWrite, IsQuery, IsSet, IsFlush, IsDirectory
  <2>2. /\ Own(i) = Main(i) /\ Own(i) \in Resource
        /\ OwnMode(i) = IF IsQuery(i) THEN "shared" ELSE "exclusive"
    BY <1>0, <1>4, OwnFacts, ResourceFacts, KindFacts
  <2> QED
    BY <1>0, <1>4, <2>1, <2>2, AcquireKeeps, KindFacts
<1>5. CASE QueryAcquire(i)
  BY <1>2, <1>4, <1>5, KindFacts DEF QueryAcquire, Busy
<1>6. CASE SetAcquire(i)
  <2>1. CASE MoveTo(i, "paging") /\ op[i].target = "pagefile"
    <3>1. Reaches(i, "paging") /\ Steps(i, "paging")
      BY <1>0, <1>6, <2>1 DEF SetAcquire, Reaches, Steps
    <3> QED
      BY <2>1, <3>1, MoveKeeps
  <2>2. CASE op[i].target # "pagefile"
    BY <1>2, <1>4, <1>6, <2>2, KindFacts DEF SetAcquire, Busy
  <2> QED
    BY <1>6, <2>1, <2>2 DEF SetAcquire, MoveTo
<1>7. CASE SetAcquirePaging(i)
  <2>1. IsSet(i) /\ op[i].target \in Stream
    BY <1>7 DEF SetAcquirePaging, ReqInv, LabelInv, Reaches
  <2> QED
    BY <1>2, <1>7, <2>1, AcquirePagingKeeps DEF SetAcquirePaging, Busy
<1> QED
  BY <1>3, <1>5, <1>6, <1>7 DEF FileInfoStep

\* SFsdCommonCreate with SFsdOpenVolume, and the routines that do nothing.
LEMMA HandleKeeps ==
  ASSUME Maps, ~panic, NEW i \in Irp, ReqInv(i), HandleStep(i)
  PROVE  Advances(i)
<1>1. CASE Cleanup(i) \/ Close(i) \/ Shutdown(i)
  <2>1. Leaves(i, "driver", {}) /\ ~IsCallback(i) /\ pc[i] \in AtWork
    BY <1>1 DEF Leaves, Cleanup, Close, Shutdown, Abandon, IsCallback, CallbackMajor, AtWork
  <2> QED
    BY <1>1, <2>1, ReturnKeeps DEF Cleanup, Close, Shutdown, Abandon
<1>2. CASE OpenDriver(i)
  <2>1. /\ Others(i) /\ Same(i) /\ pc[i] = "start" /\ ~IsCallback(i)
        /\ pc'[i] = "away" /\ irp'[i] = "completed" /\ status'[i] = "success"
        /\ completed'[i] = completed[i] + 1 /\ hold'[i] = hold[i] /\ buffer'[i] = buffer[i]
        /\ freed'[i] = freed[i]
    BY <1>2, KindFacts DEF OpenDriver, Maps, IsMap, Others, Same
  <2>2. \A r \in Resource : hold'[i][r] = "none" /\ hold[i][r] = "none"
    BY <2>1, HoldsNothing DEF ReqInv
  <2>3. HoldInv(i)'
    BY <2>1, <2>2 DEF HoldInv, Owns, OwnsPaging, Inside, Mode
  <2>4. irp[i] # "completed" /\ LabelInv(i)' /\ IrpInv(i)'
    BY <2>1, SameRequest DEF ReqInv, LabelInv, IrpInv, Reaches, Same, AtWork, Inside
  <2>5. FreedInv(i)' /\ ValueInv(i)'
    BY <2>1 DEF ReqInv, FreedInv, ValueInv, Same, Status
  <2>6. Shrinks(i) /\ Counted(i)
    BY <2>1, <2>4 DEF Shrinks, Counted
  <2>7. Lives(i)
    BY <2>1, AtWorkFacts, StageFacts DEF Lives, Goes, Unfreed, Same, AtWork, Status
  <2> QED
    BY <2>1, <2>3, <2>4, <2>5, <2>6, <2>7 DEF Advances, ReqStep, ReqInv, Moves
<1>3. CASE CreateUnlocked(i) \/ CreateAcquire(i) \/ CreateVolume(i) \/ CountOpen(i) \/ CreateStream(i)
  <2>1. /\ IsCreate(i) /\ ~IsCallback(i) /\ ~IsSet(i) /\ ~IsSection(i) /\ pc[i] \in AtWork
        /\ buffer[i] \in {"user", "short", "locked"}
    <3>1. IsCreate(i)
      BY <1>3 DEF CreateUnlocked, CreateAcquire, CreateVolume, CountOpen, CreateStream, ReqInv,
                  LabelInv, Reaches
    <3> QED
      BY <1>3, <3>1, KindFacts
         DEF CreateUnlocked, CreateAcquire, CreateVolume, CountOpen, CreateStream, ReqInv,
             ValueInv, AtWork, Inside
  <2>2. ASSUME NEW s \in Status, EndCreate(i, s)
        PROVE  Advances(i)
    BY <2>1, <2>2, CompleteKeeps DEF EndCreate
  <2>3. ASSUME NEW label \in {"opening", "looping"}, pc[i] = "held", MoveTo(i, label)
        PROVE  Advances(i)
    <3>1. Reaches(i, label) /\ Steps(i, label)
      BY <2>1, <2>3 DEF Reaches, Steps, Inside
    <3> QED
      BY <2>3, <3>1, MoveKeeps
  <2>4. CASE CreateUnlocked(i)
    BY <2>1, <2>2, <2>4, PostKeeps DEF CreateUnlocked, Status
  <2>5. CASE CreateAcquire(i)
    <3>1. Reaches(i, "held") /\ Own(i) = Vcb /\ Own(i) \in Resource /\ OwnMode(i) = "exclusive"
      BY <2>1, OwnFacts, ResourceFacts
         DEF Reaches, IsCreate, IsRead, IsWrite, IsQuery, IsSet, IsFlush, IsDirectory
    <3> QED
      BY <2>1, <2>5, <3>1, AcquireKeeps DEF CreateAcquire
  <2>6. CASE CreateVolume(i) \/ CountOpen(i) \/ CreateStream(i)
    BY <2>2, <2>3, <2>6 DEF CreateVolume, CountOpen, CreateStream, MoveTo, Status
  <2> QED
    BY <1>3, <2>4, <2>5, <2>6
<1> QED
  BY <1>1, <1>2, <1>3 DEF HandleStep

\* SFsdCommonFlush and SFsdCommonDeviceControl.
LEMMA ForwardKeeps ==
  ASSUME Maps, ~panic, NEW i \in Irp, ReqInv(i), ForwardStep(i)
  PROVE  Advances(i)
<1>1. CASE FlushPost(i)
  <2>1. ~IsCallback(i) /\ pc[i] \in AtWork /\ buffer[i] \in {"user", "short", "locked"}
    BY <1>1, KindFacts DEF FlushPost, AtWork, ReqInv, ValueInv
  <2> QED
    BY <1>1, <2>1, PostKeeps DEF FlushPost
<1>2. CASE FlushAcquire(i)
  <2>1. FlushesVolume(i) \/ op[i].target \in Stream
    BY <1>2 DEF FlushAcquire, HasCcb, FlushesVolume, ReqInv, ValueInv, Request, Target
  <2>2. Reaches(i, "held")
    BY <1>2, <2>1
       DEF FlushAcquire, Reaches, IsCreate, IsRead, IsWrite, IsQuery, IsSet, IsFlush, IsDirectory
  <2>3. /\ Own(i) = IF FlushesVolume(i) THEN Vcb ELSE Main(i)
        /\ Own(i) \in Resource /\ OwnMode(i) = "exclusive"
    BY <1>2, <2>1, OwnFacts, ResourceFacts DEF FlushAcquire
  <2> QED
    BY <1>2, <2>2, <2>3, AcquireKeeps, KindFacts DEF FlushAcquire
<1>3. CASE SendDown(i) /\ (IsFlush(i) \/ IsIoctl(i)) /\ pc[i] \in AtWork
  <2>1. /\ Others(i) /\ Same(i) /\ ~IsCallback(i)
        /\ pc'[i] = "sent" /\ irp'[i] = "lower" /\ status'[i] = status[i]
        /\ completed'[i] = completed[i] /\ buffer'[i] = buffer[i] /\ freed'[i] = freed[i]
        /\ \A r \in Resource : hold'[i][r] = "none"
    BY <1>3, KindFacts DEF SendDown, Nothing, Maps, IsMap, Others, Same
  <2>2. HoldInv(i)'
    BY <2>1 DEF HoldInv, Owns, OwnsPaging, Inside, Mode
  <2>3. irp[i] # "completed" /\ pc[i] \notin {"unsent", "away"} /\ LabelInv(i)' /\ IrpInv(i)'
    BY <1>3, <2>1, SameRequest DEF ReqInv, LabelInv, IrpInv, Reaches, Same, AtWork, Inside
  <2>4. FreedInv(i)' /\ ValueInv(i)'
    BY <2>1, <2>3 DEF ReqInv, FreedInv, ValueInv, Same
  <2>5. Shrinks(i) /\ Counted(i)
    BY <2>1, <2>3 DEF Shrinks, Counted
  <2>6. Lives(i)
    BY <1>3, <2>1, AtWorkFacts, StageFacts DEF Lives, Goes, Unanswered, Unfreed, Same
  <2> QED
    BY <2>1, <2>2, <2>3, <2>4, <2>5, <2>6 DEF Advances, ReqStep, ReqInv, Moves
<1>4. CASE ReleaseContext(i)
  <2>1. /\ Others(i) /\ Same(i) /\ pc[i] = "sent"
        /\ pc'[i] = "away" /\ irp'[i] = irp[i] /\ status'[i] = status[i]
        /\ completed'[i] = completed[i] /\ buffer'[i] = buffer[i] /\ freed'[i] = freed[i] + 1
        /\ hold'[i] = hold[i]
    BY <1>4 DEF ReleaseContext, Maps, IsMap, Others, Same
  <2>2. \A r \in Resource : hold'[i][r] = "none" /\ hold[i][r] = "none"
    BY <2>1, HoldsNothing DEF ReqInv
  <2>3. ~IsCallback(i) /\ irp[i] \in {"lower", "completed"} /\ LabelInv(i)' /\ IrpInv(i)'
    BY <2>1, SameRequest DEF ReqInv, LabelInv, IrpInv, Reaches, Same, AtWork, Inside
  <2>4. HoldInv(i)'
    BY <2>1, <2>2, <2>3 DEF HoldInv, Owns, OwnsPaging, Inside, Mode
  <2>5. FreedInv(i)' /\ ValueInv(i)'
    BY <2>1, <2>3 DEF ReqInv, FreedInv, ValueInv, Same
  <2>6. Shrinks(i) /\ Counted(i)
    BY <2>1 DEF Shrinks, Counted
  <2>7. Lives(i)
    <3>1. freed[i] = 0 /\ Stage(i) \in {"given", "over"} /\ Stage(i)' = Stage(i)
      BY <2>1, <2>3, StageFacts DEF ReqInv, FreedInv
    <3> QED
      BY <2>1, <2>3, <3>1, KindKept DEF Lives, Unanswered, Frees, Same
  <2> QED
    BY <2>1, <2>3, <2>4, <2>5, <2>6, <2>7 DEF Advances, ReqStep, ReqInv, Moves
<1> QED
  BY <1>1, <1>2, <1>3, <1>4, AwayKeeps DEF ForwardStep, FlushVolume, DeviceControl, AtWork, Inside

\* SFsdCommonDirControl.
LEMMA DirectoryKeeps ==
  ASSUME Maps, ~panic, NEW i \in Irp, ReqInv(i), DirectoryStep(i)
  PROVE  Advances(i)
<1>0. /\ IsLookup(i) \/ IsNotify(i) \/ UnknownMinor(i)
      /\ IsDirectory(i) /\ ~IsCallback(i) /\ ~IsSet(i) /\ ~IsSection(i) /\ pc[i] \in AtWork
      /\ buffer[i] \in {"user", "short", "locked"}
  <2>1. IsLookup(i) \/ IsNotify(i) \/ UnknownMinor(i)
    BY DEF DirectoryStep, LookupPost, LookupAcquire, Lookup, StorePattern, NotifyAcquire,
           NotifyChange, ReqInv, LabelInv, Reaches
  <2>2. IsDirectory(i)
    BY <2>1 DEF IsLookup, IsNotify, UnknownMinor
  <2>3. pc[i] \in AtWork
    BY DEF DirectoryStep, UnknownMinor, LookupPost, LookupAcquire, Lookup, StorePattern,
           NotifyAcquire, NotifyChange, AtWork, Inside
  <2> QED
    BY <2>1, <2>2, <2>3, KindFacts DEF ReqInv, ValueInv
<1>1. ASSUME NEW s \in Status, Complete(i, s, {})
      PROVE  Advances(i)
  BY <1>0, <1>1, CompleteKeeps
<1>2. CASE UnknownMinor(i) \/ StorePattern(i)
  BY <1>1, <1>2 DEF UnknownMinor, StorePattern, LookupStatus, Status
<1>3. CASE LookupPost(i)
  BY <1>0, <1>3, PostKeeps DEF LookupPost
<1>4. CASE LookupAcquire(i) \/ NotifyAcquire(i)
  <2>1. op[i].target \in Stream /\ (IsLookup(i) \/ IsNotify(i)) /\ pc[i] = "start"
    BY <1>4 DEF LookupAcquire, NotifyAcquire
  <2>2. Reaches(i, "held")
    BY <1>0, <2>1 DEF Reaches, IsRead, IsWrite, IsQuery, IsSet, IsFlush, IsDirectory
  <2>3. /\ Own(i) = Main(i) /\ Own(i) \in Resource
        /\ OwnMode(i) = IF IsLookup(i) THEN "exclusive" ELSE "shared"
    BY <2>1, OwnFacts, ResourceFacts DEF IsLookup, IsNotify
  <2>4. ASSUME Acquire(i, Own(i), OwnMode(i), "held")
        PROVE  Advances(i)
    BY <1>0, <2>1, <2>2, <2>3, <2>4, AcquireKeeps
  <2>5. ASSUME PostRequest(i, buffer[i]), ~canBlock[i]
        PROVE  Advances(i)
    BY <1>0, <2>5, PostKeeps
  <2>6. IsNotify(i) => ~IsLookup(i)
    BY DEF IsNotify, IsLookup
  <2> QED
    BY <1>4, <2>3, <2>4, <2>5, <2>6 DEF LookupAcquire, NotifyAcquire, Busy
<1>5. CASE Lookup(i)
  <2>1. CASE MoveTo(i, "storing")
    <3>1. Reaches(i, "storing") /\ Steps(i, "storing")
      BY <1>0, <1>5 DEF Lookup, ReqInv, LabelInv, Reaches, Steps, Inside
    <3> QED
      BY <2>1, <3>1, MoveKeeps
  <2> QED
    BY <1>1, <1>5, <2>1 DEF Lookup, LookupStatus, MoveTo, Status
<1>6. CASE NotifyChange(i)
  <2>1. CASE op[i].target # "directory"
    BY <1>1, <1>6, <2>1 DEF NotifyChange, Status
  <2>2. CASE op[i].target = "directory"
    <3>0. /\ hold' = [hold EXCEPT ![i] = Nothing] /\ freed' = [freed EXCEPT ![i] = @ + 1]
          /\ irp' = [irp EXCEPT ![i] = "notify"] /\ pc' = [pc EXCEPT ![i] = "away"]
          /\ pc[i] = "held" /\ UNCHANGED <<op, canBlock, buffer, status, completed>>
      BY <1>6, <2>2 DEF NotifyChange
    <3>1. /\ Others(i) /\ Same(i) /\ pc[i] = "held"
          /\ pc'[i] = "away" /\ irp'[i] = "notify" /\ status'[i] = status[i]
          /\ completed'[i] = completed[i] /\ buffer'[i] = buffer[i] /\ freed'[i] = freed[i] + 1
          /\ \A r \in Resource : hold'[i][r] = "none"
      BY <3>0 DEF Nothing, Maps, IsMap, Others, Same
    <3>2. HoldInv(i)'
      BY <3>1 DEF HoldInv, Owns, OwnsPaging, Inside, Mode
    <3>3. irp[i] # "completed" /\ LabelInv(i)' /\ IrpInv(i)'
      BY <1>0, <3>1, SameRequest DEF ReqInv, LabelInv, IrpInv, Reaches, Same, AtWork, Inside
    <3>4. FreedInv(i)' /\ ValueInv(i)'
      BY <3>1 DEF ReqInv, FreedInv, ValueInv, Same
    <3>5. Shrinks(i) /\ Counted(i)
      BY <3>1, <3>3 DEF Shrinks, Counted
    <3>6. Lives(i)
      BY <1>0, <3>1, AtWorkFacts, StageFacts DEF Lives, Goes, Unanswered, Frees, Same
    <3> QED
      BY <3>1, <3>2, <3>3, <3>4, <3>5, <3>6 DEF Advances, ReqStep, ReqInv, Moves
  <2> QED
    BY <2>1, <2>2
<1> QED
  BY <1>2, <1>3, <1>4, <1>5, <1>6 DEF DirectoryStep

\* A call-back gives a resource back.
LEMMA ReleaseKeeps ==
  ASSUME Maps, ~panic, NEW i \in Irp, ReqInv(i), IsCallback(i), NEW r, NEW label,
         \/ pc[i] = "held" /\ IsSection(i) /\ r = Paging(i) /\ label = "releasing"
         \/ /\ pc[i] \in {"held", "releasing"} /\ (pc[i] = "held" => IsReadAhead(i))
            /\ r = Main(i) /\ label = "away",
         Release(i, r, label)
  PROVE  Advances(i)
<1>0. /\ op[i].target \in Stream /\ ~IsSet(i) /\ Own(i) = Main(i) /\ irp[i] = "caller"
      /\ Main(i) \in Resource /\ Paging(i) \in Resource /\ Main(i) # Paging(i)
  <2>1. op[i].target = "file"
    BY SentAssumption DEF ReqInv, LabelInv, IsCallback
  <2> QED
    BY <2>1, KindFacts, OwnFacts, ResourceFacts DEF ReqInv, IrpInv, Stream
<1>1. /\ Others(i) /\ Same(i)
      /\ pc'[i] = label /\ irp'[i] = irp[i] /\ status'[i] = status[i] /\ buffer'[i] = buffer[i]
      /\ freed'[i] = freed[i] /\ completed'[i] = completed[i]
      /\ \A s \in Resource : hold'[i][s] = IF s = r THEN "none" ELSE hold[i][s]
  BY <1>0 DEF Release, Maps, IsMap, Others, Same
<1>2. ~OwnsPaging(i)'
  BY <1>1 DEF OwnsPaging
<1>3. HoldInv(i)'
  <2>1. CASE label = "releasing"
    <3>1. Owns(i) /\ Owns(i)' /\ r = Paging(i)
      BY <1>0, <1>1, <2>1, SameRequest DEF Owns, Inside, Same
    <3> QED
      BY <1>0, <1>1, <1>2, <3>1, SameRequest DEF ReqInv, HoldInv, Same, Mode
  <2>2. CASE label = "away"
    <3>1. ~Owns(i)' /\ ~OwnsPaging(i) /\ r = Main(i)
      BY <1>0, <1>1, <2>2, KindFacts DEF Owns, OwnsPaging, Inside
    <3> QED
      BY <1>0, <1>1, <1>2, <3>1, SameRequest DEF ReqInv, HoldInv, Same, Mode
  <2> QED
    BY <2>1, <2>2
<1>4. LabelInv(i)'
  BY <1>1, SameRequest, KindFacts DEF ReqInv, LabelInv, Reaches, Same, AtWork, Inside
<1>5. IrpInv(i)'
  BY <1>0, <1>1, SameRequest DEF ReqInv, IrpInv, Same
<1>6. FreedInv(i)' /\ ValueInv(i)'
  BY <1>0, <1>1 DEF ReqInv, FreedInv, ValueInv, Same
<1>7. Shrinks(i) /\ Counted(i)
  BY <1>1 DEF Shrinks, Counted
<1>8. Lives(i)
  BY <1>0, <1>1, StaysPut DEF Same
<1> QED
  BY <1>1, <1>3, <1>4, <1>5, <1>6, <1>7, <1>8 DEF Advances, ReqStep, ReqInv, Moves

\* What the VMM and the Cache Manager call.
LEMMA CallbackKeeps ==
  ASSUME Maps, ~panic, NEW i \in Irp, ReqInv(i), CallbackStep(i)
  PROVE  Advances(i)
<1>0. IsCallback(i)
  BY KindFacts
     DEF CallbackStep, AcqCreateSec, RelCreateSec, AcqLazyWrite, RelLazyWrite, AcqReadAhead, RelReadAhead
<1>1. pc[i] # "unsent" => op[i].target \in Stream /\ Own(i) = Main(i) /\ Own(i) \in Resource
  <2>1. pc[i] # "unsent" => op[i].target = "file"
    BY <1>0, SentAssumption DEF ReqInv, LabelInv, IsCallback
  <2> QED
    BY <1>0, <2>1, KindFacts, OwnFacts, ResourceFacts DEF Stream
<1>2. ASSUME pc[i] = "start", NEW label \in {"held", "taken"}, NEW mode, Acquire(i, Main(i), mode, label),
             \/ label = "taken" /\ mode = "exclusive" /\ (IsSection(i) \/ IsLazyWrite(i))
             \/ label = "held" /\ mode = "shared" /\ IsReadAhead(i)
      PROVE  Advances(i)
  <2>1. Reaches(i, label)
    BY <1>0, <1>2
       DEF Reaches, IsCallback, CallbackMajor, IsRead, IsWrite, IsQuery, IsSet, IsFlush, IsDirectory
  <2>2. mode = OwnMode(i) /\ ~IsSet(i) /\ (label = "held" => ~IsSection(i))
    BY <1>2, OwnFacts, KindFacts
  <2> QED
    BY <1>1, <1>2, <2>1, <2>2, AcquireKeeps
<1>3. ASSUME NEW label, GoTo(i, label),
             \/ pc[i] = "start" /\ label = "away"
             \/ IsLazyWrite(i) /\ <<pc[i], label>> \in {<<"taken", "held">>, <<"held", "releasing">>}
      PROVE  Advances(i)
  <2>1. Reaches(i, label) /\ Steps(i, label)
    BY <1>0, <1>3, KindFacts
       DEF Reaches, Steps, Inside, IsCallback, CallbackMajor, IsRead, IsWrite, IsQuery, IsSet,
           IsFlush, IsDirectory, IsLazyWrite
  <2>2. MoveTo(i, label)
    BY <1>3 DEF GoTo, MoveTo
  <2> QED
    BY <2>1, <2>2, MoveKeeps
<1>4. CASE AcqCreateSec(i)
  BY <1>1, <1>2, <1>4, AcquirePagingKeeps DEF AcqCreateSec
<1>5. CASE RelCreateSec(i) \/ RelReadAhead(i)
  BY <1>0, <1>5, ReleaseKeeps DEF RelCreateSec, RelReadAhead
<1>6. CASE AcqLazyWrite(i) \/ AcqReadAhead(i)
  BY <1>2, <1>3, <1>6 DEF AcqLazyWrite, AcqReadAhead, AcquireMain
<1>7. CASE RelLazyWrite(i)
  BY <1>0, <1>3, <1>7, ReleaseKeeps DEF RelLazyWrite
<1> QED
  BY <1>4, <1>5, <1>6, <1>7 DEF CallbackStep

\* A worker takes up a posted request, or completes what it has no case for.
LEMMA WorkerKeeps ==
  ASSUME Maps, ~panic, NEW i \in Irp, ReqInv(i), CommonDispatch(i)
  PROVE  Advances(i)
<1>a. /\ pc[i] = "queued" /\ canBlock' = [canBlock EXCEPT ![i] = TRUE]
      /\ UNCHANGED <<op, hold, buffer, freed>>
  BY DEF CommonDispatch
<1>b. \/ /\ pc' = [pc EXCEPT ![i] = "start"] /\ irp' = [irp EXCEPT ![i] = "worker"]
         /\ HasCase(i) /\ UNCHANGED <<status, completed>>
      \/ /\ pc' = [pc EXCEPT ![i] = "away"] /\ irp' = [irp EXCEPT ![i] = "completed"]
         /\ status' = [status EXCEPT ![i] = "unsupported"]
         /\ completed' = [completed EXCEPT ![i] = @ + 1]
  BY Zenon DEF CommonDispatch
<1>1. /\ Others(i) /\ op'[i] = op[i] /\ canBlock'[i] = TRUE /\ pc[i] = "queued"
      /\ buffer'[i] = buffer[i] /\ hold'[i] = hold[i] /\ freed'[i] = freed[i]
      /\ \/ /\ HasCase(i) /\ pc'[i] = "start" /\ irp'[i] = "worker"
            /\ completed'[i] = completed[i] /\ status'[i] = status[i]
         \/ /\ pc'[i] = "away" /\ irp'[i] = "completed" /\ completed'[i] = completed[i] + 1
            /\ status'[i] = "unsupported"
  <2>1. CASE /\ pc' = [pc EXCEPT ![i] = "start"] /\ irp' = [irp EXCEPT ![i] = "worker"]
             /\ HasCase(i) /\ UNCHANGED <<status, completed>>
    BY <1>a, <2>1 DEF Maps, IsMap, Others
  <2>2. CASE /\ pc' = [pc EXCEPT ![i] = "away"] /\ irp' = [irp EXCEPT ![i] = "completed"]
             /\ status' = [status EXCEPT ![i] = "unsupported"]
             /\ completed' = [completed EXCEPT ![i] = @ + 1]
    BY <1>a, <2>2 DEF Maps, IsMap, Others
  <2> QED
    BY <1>b, <2>1, <2>2
<1>2. \A r \in Resource : hold'[i][r] = "none" /\ hold[i][r] = "none"
  BY <1>1, HoldsNothing DEF ReqInv
<1>3. irp[i] = "queue" /\ ~IsCallback(i)
  BY <1>1 DEF ReqInv, LabelInv, Reaches, IrpInv
<1>4. HoldInv(i)'
  BY <1>1, <1>2 DEF HoldInv, Owns, OwnsPaging, Inside, Mode
<1>5. LabelInv(i)' /\ IrpInv(i)'
  BY <1>1, <1>3, SameRequest DEF ReqInv, LabelInv, Reaches, IrpInv, AtWork, Inside
<1>6. FreedInv(i)' /\ ValueInv(i)'
  <2>1. canBlock'[i] \in BOOLEAN
    BY <1>1
  <2>2. /\ op'[i] = op[i] /\ buffer'[i] = buffer[i] /\ freed'[i] = freed[i]
        /\ status'[i] \in {status[i], "unsupported"}
        /\ completed'[i] \in {completed[i], completed[i] + 1} /\ pc[i] = "queued"
    BY <1>1
  <2> QED
    BY <1>3, <2>1, <2>2 DEF ReqInv, FreedInv, ValueInv, Status
<1>7. Shrinks(i) /\ Counted(i)
  BY <1>1, <1>3 DEF Shrinks, Counted
<1>8. Lives(i)
  BY <1>1, <1>3, StageFacts, KindKept DEF Lives, Goes, Unanswered, Unfreed, Status
<1> QED
  BY <1>1, <1>4, <1>5, <1>6, <1>7, <1>8 DEF Advances, ReqStep, ReqInv, Moves

\* A request or a call-back comes in.
LEMMA ArrivalKeeps ==
  ASSUME Maps, ~panic, NEW i \in Irp, ReqInv(i), Dispatch(i) \/ Call(i)
  PROVE  Advances(i)
<1>1. PICK q \in Sent, wait \in BOOLEAN :
        /\ op' = [op EXCEPT ![i] = q] /\ canBlock' = [canBlock EXCEPT ![i] = wait]
        /\ \/ q.major \notin CallbackMajor /\ irp' = [irp EXCEPT ![i] = "driver"]
           \/ q.major \in CallbackMajor /\ irp' = irp
  <2>1. CASE Dispatch(i)
    <3>1. PICK q \in Sent :
            /\ q.major \notin CallbackMajor
            /\ op' = [op EXCEPT ![i] = q] /\ canBlock' = [canBlock EXCEPT ![i] = q.sync]
      BY <2>1 DEF Dispatch
    <3>2. irp' = [irp EXCEPT ![i] = "driver"]
      BY <2>1 DEF Dispatch
    <3>3. q.sync \in BOOLEAN
      BY SentAssumption DEF Request
    <3> QED
      BY <3>1, <3>2, <3>3
  <2>2. CASE Call(i)
    <3>1. PICK q \in Sent :
            /\ q.major \in CallbackMajor
            /\ op' = [op EXCEPT ![i] = q]
            /\ canBlock' = [canBlock EXCEPT ![i] = q.sync \/ q.major = "section"]
      BY <2>2 DEF Call
    <3>2. irp' = irp
      BY <2>2 DEF Call
    <3>3. (q.sync \/ q.major = "section") \in BOOLEAN
      OBVIOUS
    <3>4. \E wait \in BOOLEAN : canBlock' = [canBlock EXCEPT ![i] = wait]
      BY <3>1, <3>3, Zenon
    <3> QED
      BY <3>1, <3>2, <3>4
  <2> QED
    BY <2>1, <2>2
<1>2. q \in Request
  BY SentAssumption
<1>a. /\ pc[i] = "unsent" /\ pc' = [pc EXCEPT ![i] = "start"]
      /\ UNCHANGED <<hold, buffer, status, completed, freed>>
  BY DEF Dispatch, Call
<1>3. /\ Others(i) /\ op'[i] = q /\ canBlock'[i] \in BOOLEAN /\ pc[i] = "unsent" /\ pc'[i] = "start"
      /\ status'[i] = status[i] /\ buffer'[i] = buffer[i] /\ hold'[i] = hold[i]
      /\ freed'[i] = freed[i] /\ completed'[i] = completed[i]
  BY <1>1, <1>a DEF Maps, IsMap, Others
<1>4. \/ ~IsCallback(i)' /\ irp'[i] = "driver"
      \/ IsCallback(i)' /\ irp'[i] = irp[i]
  BY <1>1, <1>3 DEF IsCallback, Maps, IsMap
<1>5. irp[i] = "caller"
  BY <1>3 DEF ReqInv, IrpInv
<1>6. \A r \in Resource : hold'[i][r] = "none" /\ hold[i][r] = "none"
  BY <1>3, HoldsNothing DEF ReqInv
<1>7. HoldInv(i)'
  BY <1>3, <1>6 DEF HoldInv, Owns, OwnsPaging, Inside, Mode
<1>8. LabelInv(i)' /\ IrpInv(i)'
  BY <1>1, <1>3, <1>4, <1>5 DEF LabelInv, Reaches, IrpInv, AtWork, Inside
<1>9. FreedInv(i)' /\ ValueInv(i)'
  BY <1>2, <1>3, <1>5 DEF ReqInv, FreedInv, ValueInv
<1>10. Shrinks(i) /\ Counted(i)
  BY <1>3, <1>4, <1>5 DEF Shrinks, Counted
<1>11. Lives(i)
  <2>1. CASE irp'[i] = "driver"
    <3>1. KindOf(i)' \in IrpMajor \cup {"dpc", "misdirected"}
      BY <1>2, <1>3, <1>4, <1>5, <2>1 DEF KindOf, IsCallback, Request
    <3> QED
      BY <1>3, <1>5, <2>1, <3>1, StageFacts DEF Lives, Goes, Unanswered, Unfreed
  <2>2. CASE irp'[i] = irp[i]
    BY <1>3, <1>5, <2>2, StageFacts DEF Lives, Unanswered, Unfreed
  <2> QED
    BY <1>4, <2>1, <2>2
<1> QED
  BY <1>3, <1>7, <1>8, <1>9, <1>10, <1>11 DEF Advances, ReqStep, ReqInv, Moves

\* A notification is cancelled.
LEMMA CancelKeeps ==
  ASSUME Maps, ~panic, NEW i \in Irp, ReqInv(i), NotifyInv, CancelNotify(i)
  PROVE  ReqStep(i)
<1>1. pc[i] = "away" /\ irp[i] \in {"notify", "completed"} /\ ~IsCallback(i) /\ i \in notify
  BY DEF CancelNotify, NotifyInv
<1>2. /\ Others(i) /\ Same(i) /\ pc'[i] = pc[i] /\ irp'[i] = "completed" /\ status'[i] = "failed"
      /\ completed'[i] = completed[i] + 1 /\ hold'[i] = hold[i] /\ buffer'[i] = buffer[i]
      /\ freed'[i] = freed[i]
  BY DEF CancelNotify, Maps, IsMap, Others, Same
<1>3. HoldInv(i)'
  <2>1. ~Owns(i) /\ ~Owns(i)' /\ ~OwnsPaging(i) /\ ~OwnsPaging(i)'
    BY <1>1, <1>2 DEF Owns, OwnsPaging, Inside
  <2> QED
    BY <1>1, <1>2, <2>1, SameRequest DEF ReqInv, HoldInv, Same
<1>4. LabelInv(i)' /\ IrpInv(i)'
  BY <1>1, <1>2, SameRequest DEF ReqInv, LabelInv, IrpInv, Same, AtWork, Inside
<1>5. FreedInv(i)' /\ ValueInv(i)'
  BY <1>1, <1>2 DEF ReqInv, FreedInv, ValueInv, Same, Status
<1>6. Shrinks(i) /\ Counted(i)
  BY <1>1, <1>2 DEF Shrinks, Counted
<1> QED
  BY <1>2, <1>3, <1>4, <1>5, <1>6 DEF ReqStep, ReqInv

\* The machine goes down: only the context's release is noted.
LEMMA CrashKeeps ==
  ASSUME Maps, ~panic, NEW i \in Irp, ReqInv(i),
         MissingCcb(i) \/ SetNamesEntry(i) \/ FlushStream(i) \/ VolumeAsDirectory(i)
  PROVE  ReqStep(i) /\ Moves(i) /\ Stops(i) /\ panic' = TRUE
<1>1. Crash(i) /\ pc[i] \in {"start", "held"}
  BY DEF MissingCcb, SetNamesEntry, FlushStream, VolumeAsDirectory
<1>2. /\ Others(i) /\ Same(i) /\ pc'[i] = pc[i] /\ irp'[i] = irp[i] /\ status'[i] = status[i]
      /\ completed'[i] = completed[i] /\ hold'[i] = hold[i] /\ buffer'[i] = buffer[i]
      /\ freed'[i] = freed[i] + 1 /\ panic' = TRUE
  BY <1>1 DEF Crash, Maps, IsMap, Others, Same
<1>3. HoldInv(i)'
  <2>1. Owns(i)' = Owns(i) /\ OwnsPaging(i)' = OwnsPaging(i)
    BY <1>2, SameRequest DEF Owns, OwnsPaging, Same
  <2> QED
    BY <1>2, <2>1, SameRequest DEF ReqInv, HoldInv, Same
<1>4. LabelInv(i)' /\ IrpInv(i)'
  BY <1>2, SameRequest DEF ReqInv, LabelInv, IrpInv, Same
<1>5. FreedInv(i)' /\ ValueInv(i)'
  BY <1>1, <1>2 DEF ReqInv, FreedInv, ValueInv, Same
<1>6. Shrinks(i) /\ Counted(i)
  BY <1>2 DEF Shrinks, Counted
<1>7. Stops(i)
  <2>1. ~IsCallback(i)
    BY DEF MissingCcb, TakesCcb, SetNamesEntry, FlushStream, VolumeAsDirectory, IsSet, IsFlush,
           IsLookup, IsNotify, IsDirectory, IsCallback, CallbackMajor
  <2>2. pc[i] \in AtWork /\ irp'[i] # "caller"
    BY <1>1, <1>2, <2>1 DEF ReqInv, IrpInv, AtWork, Inside
  <2>3. /\ irp[i] \in {"driver", "worker"} /\ freed[i] = 0 /\ KindOf(i)' = KindOf(i)
        /\ Stage(i) \in {"served", "worked"}
    BY <1>2, <2>1, <2>2, AtWorkFacts DEF Same
  <2>4. Stage(i)' = Stage(i)
    BY <1>2 DEF Stage
  <2> QED
    BY <1>2, <2>3, <2>4 DEF Stops, Unanswered, Frees
<1> QED
  BY <1>1, <1>2, <1>3, <1>4, <1>5, <1>6, <1>7 DEF ReqStep, ReqInv, Moves
----------------------------------------------------------------------------
(* Any step *)

\* A step of one request leaves what the others have.
LEMMA OthersKeep ==
  ASSUME ControlInv, NEW i \in Irp, ReqStep(i), panic => panic'
  PROVE  Maps' /\ (\A j \in Irp : ReqInv(j)') /\ Exclusion'
<1>1. Maps' /\ ReqInv(i)'
  BY DEF ReqStep, Others
<1>2. ASSUME NEW j \in Irp, j # i
      PROVE  ReqInv(j)'
  <2>1. /\ op'[j] = op[j] /\ canBlock'[j] = canBlock[j] /\ pc'[j] = pc[j] /\ irp'[j] = irp[j]
        /\ hold'[j] = hold[j] /\ buffer'[j] = buffer[j] /\ status'[j] = status[j]
        /\ completed'[j] = completed[j] /\ freed'[j] = freed[j] /\ ReqInv(j)
    BY <1>2 DEF ReqStep, Others, ControlInv
  <2>2. HoldInv(j)'
    <3>1. Owns(j)' = Owns(j) /\ OwnsPaging(j)' = OwnsPaging(j)
      BY <2>1, SameRequest DEF Owns, OwnsPaging
    <3> QED
      BY <2>1, <3>1, SameRequest DEF ReqInv, HoldInv
  <2>3. LabelInv(j)' /\ IrpInv(j)'
    BY <2>1, SameRequest DEF ReqInv, LabelInv, IrpInv
  <2>4. FreedInv(j)' /\ ValueInv(j)'
    BY <2>1 DEF ReqInv, FreedInv, ValueInv
  <2> QED
    BY <2>2, <2>3, <2>4 DEF ReqInv
<1>3. Exclusion'
  <2> SUFFICES ASSUME NEW j \in Irp, NEW k \in Irp, NEW r \in Resource, j # k,
                      hold'[j][r] = "exclusive"
               PROVE  hold'[k][r] = "none"
    BY DEF Exclusion
  <2>1. \A a \in Irp \ {i} : hold'[a] = hold[a]
    BY DEF ReqStep, Others
  <2>2. hold[j][r] = "exclusive" => hold[k][r] = "none"
    BY DEF ControlInv, Exclusion
  <2>3. hold[k][r] = "exclusive" => hold[j][r] = "none"
    BY DEF ControlInv, Exclusion
  <2>4. hold[k][r] \in Mode /\ hold[j][r] \in Mode
    BY DEF ControlInv, ReqInv, HoldInv
  <2>5. CASE Shrinks(i)
    BY <2>1, <2>2, <2>5 DEF Shrinks
  <2>6. CASE Gains(i)
    BY <2>1, <2>2, <2>3, <2>4, <2>6 DEF Gains, Grants, Mode
  <2> QED
    BY <2>5, <2>6 DEF ReqStep
<1> QED
  BY <1>1, <1>2, <1>3

\* Who is queued for a change, after a step of request i.
Queues(i) ==
  \/ notify' = notify /\ Moves(i)
  \/ notify' = notify \ {i} /\ CancelNotify(i)
  \/ notify' = notify \cup {i} /\ NotifyChange(i)

\* The steps for one request.
StepOf(i) ==
  \/ Running /\ UNCHANGED <<volVars, lazyWriter>> /\ Dispatch(i)
  \/ Running /\ Call(i)
  \/ Running /\ UNCHANGED lazyWriter /\ CancelNotify(i)
  \/ RequestStep(i)

\* What the request's life sees of them.
LifeStep(i) ==
  /\ ~panic
  /\ \/ panic' = panic /\ (Lives(i) \/ CancelNotify(i))
     \/ panic' = TRUE /\ Stops(i)

LEMMA StepFacts ==
  ASSUME ControlInv, NEW i \in Irp, StepOf(i)
  PROVE  ReqStep(i) /\ Queues(i) /\ LifeStep(i)
<1>0. Maps /\ ReqInv(i) /\ NotifyInv
  BY DEF ControlInv
<1>1. CASE Running /\ UNCHANGED <<volVars, lazyWriter>> /\ Dispatch(i)
  BY <1>0, <1>1, ArrivalKeeps DEF Advances, LifeStep, Running, Queues, volVars
<1>2. CASE Running /\ Call(i)
  BY <1>0, <1>2, ArrivalKeeps DEF Advances, LifeStep, Running, Queues, volVars, Call
<1>3. CASE Running /\ UNCHANGED lazyWriter /\ CancelNotify(i)
  BY <1>0, <1>3, CancelKeeps DEF LifeStep, Running, Queues, CancelNotify
<1>4. CASE RequestStep(i)
  <2>1. CASE Running /\ UNCHANGED <<volVars, lazyWriter>> /\ ReadWriteStep(i)
    <3>1. Advances(i)
      BY <1>0, <2>1, ReadKeeps, WriteKeeps, AwayKeeps DEF Running, ReadWriteStep
    <3> QED
      BY <2>1, <3>1 DEF Advances, LifeStep, Running, Queues, volVars
  <2>2. CASE Running /\ UNCHANGED <<volVars, lazyWriter>> /\ FileInfoStep(i)
    <3>1. ~SetNamesEntry(i)
      BY <2>2 DEF Running, SetNamesEntry, Crash
    <3>2. Advances(i)
      BY <1>0, <2>2, <3>1, FileInfoKeeps DEF Running
    <3> QED
      BY <2>2, <3>2 DEF Advances, LifeStep, Running, Queues, volVars
  <2>3. CASE Running /\ UNCHANGED <<volVars, lazyWriter>> /\ CommonDispatch(i)
    BY <1>0, <2>3, WorkerKeeps DEF Advances, LifeStep, Running, Queues, volVars
  <2>4. CASE Running /\ UNCHANGED lazyWriter /\ HandleStep(i)
    <3>1. notify' = notify
      BY <2>4 DEF HandleStep, OpenDriver, CreateUnlocked, CreateAcquire, CreateVolume, CountOpen,
                  CreateStream, Cleanup, Close, Shutdown, Abandon, volVars
    <3> QED
      BY <1>0, <2>4, <3>1, HandleKeeps DEF Advances, LifeStep, Running, Queues
  <2>5. CASE Running /\ UNCHANGED lazyWriter /\ ForwardStep(i)
    <3>1. notify' = notify
      BY <2>5 DEF ForwardStep, FlushPost, FlushAcquire, FlushVolume, DeviceControl, SendDown,
                  ReleaseContext, LowerCompletes, volVars
    <3> QED
      BY <1>0, <2>5, <3>1, ForwardKeeps DEF Advances, LifeStep, Running, Queues
  <2>6. CASE Running /\ UNCHANGED lazyWriter /\ DirectoryStep(i)
    <3>1. notify' = notify \/ (notify' = notify \cup {i} /\ NotifyChange(i))
      BY <2>6 DEF DirectoryStep, UnknownMinor, LookupPost, LookupAcquire, Lookup, StorePattern,
                  NotifyAcquire, NotifyChange, volVars
    <3> QED
      BY <1>0, <2>6, <3>1, DirectoryKeeps DEF Advances, LifeStep, Running, Queues
  <2>7. CASE Running /\ CallbackStep(i)
    <3>1. notify' = notify
      BY <2>7 DEF CallbackStep, AcqCreateSec, RelCreateSec, AcqLazyWrite, RelLazyWrite, AcqReadAhead,
                  RelReadAhead, AcquireMain, GoTo, Release, volVars
    <3> QED
      BY <1>0, <2>7, <3>1, CallbackKeeps DEF Advances, LifeStep, Running, Queues
  <2>8. CASE ~panic /\ (MissingCcb(i) \/ SetNamesEntry(i) \/ FlushStream(i) \/ VolumeAsDirectory(i))
    <3>1. notify' = notify
      BY <2>8 DEF MissingCcb, SetNamesEntry, FlushStream, VolumeAsDirectory, Crash, volVars
    <3> QED
      BY <1>0, <2>8, <3>1, CrashKeeps DEF LifeStep, Queues
  <2> QED
    BY <1>4, <2>1, <2>2, <2>3, <2>4, <2>5, <2>6, <2>7, <2>8 DEF RequestStep
<1> QED
  BY <1>1, <1>2, <1>3, <1>4 DEF StepOf

\* Every step is one request's.
LEMMA StepOfOne ==
  ASSUME ControlInv, Next
  PROVE  \E i \in Irp : StepOf(i) /\ ReqStep(i) /\ Queues(i) /\ LifeStep(i)
<1>1. PICK i \in Irp : StepOf(i)
  BY DEF Next, StepOf
<1> QED
  BY <1>1, StepFacts
----------------------------------------------------------------------------
(* The invariant *)

LEMMA InitControl == Init => ControlInv
<1> SUFFICES ASSUME Init
             PROVE  ControlInv
  OBVIOUS
<1>1. Maps
  BY DEF Init, Maps, IsMap, Nothing
<1>2. \A i \in Irp : \A r \in Resource : hold[i][r] = "none"
  BY DEF Init, Nothing
<1>3. ASSUME NEW i \in Irp
      PROVE  ReqInv(i)
  <2>1. op[i] \in Request
    BY SentAssumption DEF Init
  <2>2. /\ pc[i] = "unsent" /\ irp[i] = "caller" /\ freed[i] = 0 /\ completed[i] = 0
        /\ buffer[i] = "user" /\ status[i] = "none"
    BY DEF Init
  <2>3. canBlock[i] \in BOOLEAN
    BY DEF Init
  <2>4. HoldInv(i)
    BY <1>2, <2>2 DEF HoldInv, Owns, OwnsPaging, Inside, Mode
  <2>5. LabelInv(i) /\ IrpInv(i)
    BY <2>2 DEF LabelInv, IrpInv, Reaches, AtWork, Inside
  <2>6. FreedInv(i) /\ ValueInv(i)
    BY <2>1, <2>2, <2>3 DEF FreedInv, ValueInv, Status
  <2> QED
    BY <2>4, <2>5, <2>6 DEF ReqInv
<1>4. Exclusion
  BY <1>2 DEF Exclusion
<1>5. NotifyInv
  BY DEF Init, NotifyInv
<1> QED
  BY <1>1, <1>3, <1>4, <1>5 DEF ControlInv

LEMMA StepControl == ControlInv /\ [Next]_vars => ControlInv'
<1> SUFFICES ASSUME ControlInv, [Next]_vars
             PROVE  ControlInv'
  OBVIOUS
<1>1. CASE Next
  <2>1. PICK i \in Irp : ReqStep(i) /\ Queues(i) /\ (panic => panic')
    BY <1>1, StepOfOne DEF LifeStep
  <2>2. Maps' /\ (\A j \in Irp : ReqInv(j)') /\ Exclusion'
    BY <2>1, OthersKeep
  <2>3. NotifyInv'
    <3> SUFFICES ASSUME NEW j \in notify'
                 PROVE  j \in Irp /\ irp'[j] \in {"notify", "completed"} /\ pc'[j] = "away" /\ ~IsCallback(j)'
      BY DEF NotifyInv
    <3>1. CASE j = i
      <4>1. ~(notify' = notify /\ Moves(i))
        BY <3>1 DEF ControlInv, NotifyInv, Moves
      <4>2. NotifyChange(i) \/ CancelNotify(i)
        BY <2>1, <4>1 DEF Queues
      <4>3. CASE NotifyChange(i)
        <5>1. pc'[i] = "away" /\ irp'[i] \in {"notify", "completed"} /\ op' = op
          BY <4>3 DEF NotifyChange, Complete, ControlInv, Maps, IsMap
        <5>2. IsNotify(i)
          BY <4>3 DEF NotifyChange
        <5> QED
          BY <3>1, <5>1, <5>2 DEF IsNotify, IsDirectory, IsCallback, CallbackMajor
      <4>4. CASE CancelNotify(i)
        <5>1. pc' = pc /\ op' = op /\ irp'[i] = "completed" /\ i \in notify
          BY <4>4 DEF CancelNotify, ControlInv, Maps, IsMap
        <5> QED
          BY <3>1, <5>1 DEF ControlInv, NotifyInv, IsCallback
      <4> QED
        BY <4>2, <4>3, <4>4
    <3>2. CASE j # i
      <4>1. j \in notify
        BY <2>1, <3>2 DEF Queues
      <4>2. j \in Irp
        BY <4>1 DEF ControlInv, NotifyInv
      <4>3. irp'[j] = irp[j] /\ pc'[j] = pc[j] /\ op'[j] = op[j]
        BY <2>1, <3>2, <4>2 DEF ReqStep, Others
      <4> QED
        BY <4>1, <4>2, <4>3 DEF ControlInv, NotifyInv, IsCallback
    <3> QED
      BY <3>1, <3>2
  <2> QED
    BY <2>2, <2>3 DEF ControlInv
<1>2. CASE UNCHANGED vars
  <2>1. Maps'
    BY <1>2 DEF vars, reqVars, ControlInv, Maps, IsMap
  <2>2. ASSUME NEW j \in Irp
        PROVE  ReqInv(j)'
    <3>1. /\ op' = op /\ canBlock' = canBlock /\ pc' = pc /\ irp' = irp /\ hold' = hold
          /\ buffer' = buffer /\ status' = status /\ completed' = completed /\ freed' = freed
          /\ panic' = panic /\ ReqInv(j)
      BY <1>2 DEF vars, reqVars, ControlInv
    <3>2. HoldInv(j)'
      <4>1. Owns(j)' = Owns(j) /\ OwnsPaging(j)' = OwnsPaging(j)
        BY <3>1, SameRequest DEF Owns, OwnsPaging
      <4> QED
        BY <3>1, <4>1, SameRequest DEF ReqInv, HoldInv
    <3>3. LabelInv(j)' /\ IrpInv(j)'
      BY <3>1, SameRequest DEF ReqInv, LabelInv, IrpInv
    <3>4. FreedInv(j)' /\ ValueInv(j)'
      BY <3>1 DEF ReqInv, FreedInv, ValueInv
    <3> QED
      BY <3>2, <3>3, <3>4 DEF ReqInv
  <2>3. Exclusion' /\ NotifyInv'
    BY <1>2 DEF vars, reqVars, volVars, ControlInv, Exclusion, NotifyInv, IsCallback
  <2> QED
    BY <2>1, <2>2, <2>3 DEF ControlInv
<1> QED
  BY <1>1, <1>2

\* In every state, the thread of each request holds what the place it is at says, and the IRP
\* and its context are where that place says.
THEOREM Controlled == Spec => []ControlInv
<1>1. Init => ControlInv
  BY InitControl
<1>2. ControlInv /\ [Next]_vars => ControlInv'
  BY StepControl
<1> QED
  BY <1>1, <1>2, PTL DEF Spec
----------------------------------------------------------------------------
(* What follows *)

\* read.c, write.c, fileinfo.c, dircntrl.c, fastio.c: a resource is held at a label that says
\* so, or for the disk; a set keeps PagingIo.
THEOREM Released == Spec => []ResourcesReleased
<1>1. ASSUME ControlInv
      PROVE  ResourcesReleased
  <2> SUFFICES ASSUME NEW i \in Irp, NEW r \in Resource, hold[i][r] # "none"
               PROVE  \/ pc[i] \in {"paging", "held", "checked", "opening", "storing", "looping",
                                    "taken", "releasing"}
                      \/ irp[i] = "disk"
                      \/ IsSet(i) /\ r = Paging(i)
    BY DEF ResourcesReleased
  <2>1. HoldInv(i)
    BY <1>1 DEF ControlInv, ReqInv
  <2> QED
    BY <2>1 DEF HoldInv, Owns, OwnsPaging, Inside
<1> QED
  BY <1>1, Controlled, PTL

\* Somebody has the IRP of a request whose thread has left it, but for writes that could not
\* wait and the routines that are not filled in.
THEOREM PendingOwned == Spec => []PendingOwnedUnlessWrite
<1>1. ASSUME ControlInv
      PROVE  PendingOwnedUnlessWrite
  BY <1>1, KindFacts
     DEF ControlInv, ReqInv, IrpInv, LabelInv, PendingOwnedUnlessWrite
<1> QED
  BY <1>1, Controlled, PTL

\* No thread takes a resource while it holds one of the same or a higher rank.
THEOREM InOrder == Spec => AcquiredInOrder
<1>1. ASSUME ControlInv, Next
      PROVE  \A i \in Irp : \A r \in Resource : hold[i][r] = "none" /\ hold'[i][r] # "none" =>
               \A s \in Resource : hold[i][s] # "none" => Rank(s) < Rank(r)
  <2>1. PICK j \in Irp : ReqStep(j)
    BY <1>1, StepOfOne
  <2> SUFFICES ASSUME NEW i \in Irp, NEW r \in Resource, hold[i][r] = "none", hold'[i][r] # "none",
                      NEW s \in Resource, hold[i][s] # "none"
               PROVE  Rank(s) < Rank(r)
    OBVIOUS
  <2>2. i = j
    BY <2>1 DEF ReqStep, Others
  <2>3. ~Shrinks(i)
    BY DEF Shrinks
  <2> QED
    BY <2>1, <2>2, <2>3 DEF ReqStep, Gains
<1>2. ControlInv /\ [Next]_vars =>
        [\A i \in Irp : hold'[i] # hold[i] =>
           \A r \in Resource : hold[i][r] = "none" /\ hold'[i][r] # "none" =>
             \A s \in Resource : hold[i][s] # "none" => Rank(s) < Rank(r)]_vars
  BY <1>1
<1> QED
  BY <1>2, Controlled, PTL DEF Spec, AcquiredInOrder
----------------------------------------------------------------------------
(* Completion *)

LEMMA MisdirectedKind ==
  ASSUME NEW i \in Irp, op[i] \in Request, op'[i] \in Request, irp[i] # "caller", irp'[i] # "caller",
         KindOf(i)' = KindOf(i)
  PROVE  Misdirected(i)' = Misdirected(i)
<1>1. Misdirected(i) <=> KindOf(i) = "misdirected"
  BY DEF KindOf, Misdirected, IsNotify, IsDirectory, IsRead, Request, IrpMajor, CallbackMajor
<1>2. Misdirected(i)' <=> KindOf(i)' = "misdirected"
  BY DEF KindOf, Misdirected, IsNotify, IsDirectory, IsRead, Request, IrpMajor, CallbackMajor
<1> QED
  BY <1>1, <1>2 DEF Misdirected

\* What OnceInv says of one request.
OnceOf(i) ==
  /\ IF irp[i] = "completed"
       THEN completed[i] = 1 \/ (completed[i] = 2 /\ Misdirected(i) /\ i \notin notify)
       ELSE completed[i] = 0
  /\ i \in notify => irp[i] = "notify" \/ Misdirected(i)

\* A step of a request that is not queued for a change and is not put there.
LEMMA MoveOnce ==
  ASSUME ControlInv, NEW i \in Irp, OnceOf(i), ReqStep(i), LifeStep(i),
         notify' = notify, i \notin notify
  PROVE  OnceOf(i)'
<1>1. Counted(i) /\ op[i] \in Request /\ op'[i] \in Request
  BY DEF ReqStep, ReqInv, ControlInv, ValueInv
<1>2. CASE irp[i] # "completed"
  BY <1>1, <1>2 DEF Counted, OnceOf
<1>3. CASE irp[i] = "completed"
  <2>1. completed'[i] = completed[i] /\ irp'[i] = "completed"
    BY <1>1, <1>3 DEF Counted
  <2>2. KindOf(i)' = KindOf(i)
    <3>1. ~CancelNotify(i)
      BY DEF CancelNotify
    <3>2. Stage(i) = "over"
      BY <1>3, StageFacts
    <3> QED
      BY <3>1, <3>2 DEF LifeStep, Lives, Goes, Stops
  <2> QED
    BY <1>1, <1>3, <2>1, <2>2, MisdirectedKind DEF OnceOf
<1> QED
  BY <1>2, <1>3

\* What was queued for a change is cancelled: for a second time, if it was completed already.
LEMMA CancelOnce ==
  ASSUME ControlInv, NEW i \in Irp, OnceOf(i), CancelNotify(i)
  PROVE  OnceOf(i)'
<1>1. /\ irp'[i] = "completed" /\ completed'[i] = completed[i] + 1 /\ op'[i] = op[i]
      /\ i \in notify /\ i \notin notify'
  BY DEF CancelNotify, ControlInv, Maps, IsMap
<1>2. Misdirected(i)' = Misdirected(i)
  BY <1>1 DEF Misdirected, IsNotify, IsDirectory
<1>3. completed[i] = 0 \/ (completed[i] = 1 /\ Misdirected(i))
  BY <1>1 DEF OnceOf
<1> QED
  BY <1>1, <1>2, <1>3 DEF OnceOf

\* It is queued, and completed too if there is no directory to watch.
LEMMA NotifyOnce ==
  ASSUME ControlInv, NEW i \in Irp, OnceOf(i), NotifyChange(i)
  PROVE  OnceOf(i)'
<1>1. pc[i] = "held" /\ IsNotify(i) /\ op[i].target \in Stream
  BY DEF NotifyChange, ControlInv, ReqInv, LabelInv, Reaches, IsNotify
<1>2. irp[i] # "completed" /\ completed[i] = 0
  BY <1>1 DEF ControlInv, ReqInv, IrpInv, AtWork, Inside, OnceOf, IsNotify, IsDirectory, IsCallback,
              CallbackMajor
<1>3. CASE op[i].target = "directory"
  <2>1. irp' = [irp EXCEPT ![i] = "notify"] /\ completed' = completed
    BY <1>3 DEF NotifyChange
  <2> QED
    BY <1>2, <2>1 DEF OnceOf, ControlInv, Maps, IsMap
<1>4. CASE op[i].target # "directory"
  <2>1. Complete(i, "pending", {})
    BY <1>4 DEF NotifyChange
  <2>2. irp'[i] = "completed" /\ completed'[i] = completed[i] + 1 /\ op'[i] = op[i]
    BY <2>1, CompleteFields DEF ControlInv, Same
  <2>3. Misdirected(i)'
    BY <1>1, <1>4, <2>2 DEF Misdirected, IsNotify, IsDirectory, Stream
  <2> QED
    BY <1>2, <2>2, <2>3 DEF OnceOf
<1> QED
  BY <1>3, <1>4

LEMMA StepOnce ==
  ASSUME ControlInv, OnceInv, [Next]_vars
  PROVE  OnceInv'
<1>0. \A j \in Irp : OnceOf(j)
  BY DEF OnceInv, OnceOf
<1>1. CASE Next
  <2>1. PICK i \in Irp : ReqStep(i) /\ Queues(i) /\ LifeStep(i)
    BY <1>1, StepOfOne
  <2>2. ASSUME NEW j \in Irp, j # i
        PROVE  OnceOf(j)'
    <3>1. /\ irp'[j] = irp[j] /\ completed'[j] = completed[j] /\ op'[j] = op[j]
          /\ j \in notify' <=> j \in notify
      BY <2>1, <2>2 DEF ReqStep, Others, Queues
    <3>2. Misdirected(j)' = Misdirected(j)
      BY <3>1 DEF Misdirected, IsNotify, IsDirectory
    <3> QED
      BY <1>0, <3>1, <3>2 DEF OnceOf
  <2>3. OnceOf(i)'
    <3>1. CASE notify' = notify /\ Moves(i)
      <4>1. i \notin notify
        BY <3>1 DEF Moves, ControlInv, NotifyInv
      <4> QED
        BY <1>0, <2>1, <3>1, <4>1, MoveOnce
    <3>2. CASE CancelNotify(i)
      BY <1>0, <3>2, CancelOnce
    <3>3. CASE NotifyChange(i)
      BY <1>0, <3>3, NotifyOnce
    <3> QED
      BY <2>1, <3>1, <3>2, <3>3 DEF Queues
  <2>4. \A j \in notify' : j \in Irp
    BY <1>1, StepControl DEF ControlInv, NotifyInv
  <2> QED
    BY <2>2, <2>3, <2>4 DEF OnceInv, OnceOf
<1>2. CASE UNCHANGED vars
  BY <1>2 DEF vars, reqVars, volVars, OnceInv, Misdirected, IsNotify, IsDirectory
<1> QED
  BY <1>1, <1>2

THEOREM Completions == Spec => []OnceInv
<1>1. Init => OnceInv
  BY DEF Init, OnceInv
<1>2. ControlInv /\ OnceInv /\ [Next]_vars => OnceInv'
  BY StepOnce
<1> QED
  BY <1>1, <1>2, Controlled, PTL DEF Spec

\* No request is completed twice, no context is released twice or too early, and nobody has
\* a request that is over; a notification that is misdirected is completed twice at most.
THEOREM Once == Spec => []CompletedOnce
<1>1. ASSUME ControlInv, OnceInv
      PROVE  CompletedOnce
  <2> SUFFICES ASSUME NEW i \in Irp
               PROVE  /\ freed[i] <= 1
                      /\ completed[i] <= IF Misdirected(i) /\ i \notin notify THEN 2 ELSE 1
                      /\ completed[i] > 0 <=> irp[i] = "completed"
                      /\ completed[i] > 0 => pc[i] \in {"sent", "away"} /\ (i \in notify => Misdirected(i))
                      /\ freed[i] = 1 => panic \/ (pc[i] = "away" /\ irp[i] \notin {"driver", "worker", "queue"})
    BY DEF CompletedOnce
  <2>1. LabelInv(i) /\ IrpInv(i) /\ FreedInv(i)
    BY <1>1 DEF ControlInv, ReqInv
  <2>2. OnceOf(i)
    BY <1>1 DEF OnceInv, OnceOf
  <2>3. irp[i] = "completed" => pc[i] \in {"sent", "away"}
    BY <2>1, KindFacts DEF LabelInv, IrpInv, AtWork, Inside, Reaches
  <2> QED
    BY <2>1, <2>2, <2>3 DEF FreedInv, OnceOf
<1> QED
  BY <1>1, Controlled, Completions, PTL
----------------------------------------------------------------------------
(* The abstract life of a request *)

\* RequestLife's view of all the requests, and of a step of one.
Stages == [j \in Irp |-> Stage(j)]
Kinds  == [j \in Irp |-> KindOf(j)]

LEMMA LifeFields ==
  ASSUME Maps, NEW i \in Irp, Others(i)
  PROVE  /\ Stages' = [Stages EXCEPT ![i] = Stage(i)'] /\ Stages[i] = Stage(i)
         /\ Kinds' = [Kinds EXCEPT ![i] = KindOf(i)'] /\ Kinds[i] = KindOf(i)
         /\ completed' = [completed EXCEPT ![i] = completed'[i]]
         /\ freed' = [freed EXCEPT ![i] = freed'[i]]
         /\ status' = [status EXCEPT ![i] = status'[i]]
         /\ Stage(i)' = Stage(i) => Stages' = Stages
         /\ KindOf(i)' = KindOf(i) => Kinds' = Kinds
         /\ completed'[i] = completed[i] => completed' = completed
         /\ freed'[i] = freed[i] => freed' = freed
         /\ status'[i] = status[i] => status' = status
<1>1. ASSUME NEW j \in Irp, j # i
      PROVE  Stage(j)' = Stage(j) /\ KindOf(j)' = KindOf(j)
  BY <1>1 DEF Others, Stage, KindOf, IsRead, Misdirected, IsNotify, IsDirectory
<1>2. Stages' = [Stages EXCEPT ![i] = Stage(i)'] /\ Stages[i] = Stage(i)
  BY <1>1 DEF Stages
<1>3. Kinds' = [Kinds EXCEPT ![i] = KindOf(i)'] /\ Kinds[i] = KindOf(i)
  BY <1>1 DEF Kinds
<1>4. /\ completed' = [completed EXCEPT ![i] = completed'[i]]
      /\ freed' = [freed EXCEPT ![i] = freed'[i]]
      /\ status' = [status EXCEPT ![i] = status'[i]]
  BY DEF Maps, IsMap, Others
<1>5. Stage(i)' = Stage(i) => Stages' = Stages
  BY <1>1 DEF Stages
<1>6. KindOf(i)' = KindOf(i) => Kinds' = Kinds
  BY <1>1 DEF Kinds
<1>7. /\ completed'[i] = completed[i] => completed' = completed
      /\ freed'[i] = freed[i] => freed' = freed
      /\ status'[i] = status[i] => status' = status
  BY DEF Maps, IsMap, Others
<1> QED
  BY <1>2, <1>3, <1>4, <1>5, <1>6, <1>7

\* A routine, a worker or somebody else gets on with a request.
LEMMA LifeOfMove ==
  ASSUME Maps, ~panic, panic' = panic, NEW i \in Irp, Others(i), Lives(i)
  PROVE  [Life!Next]_(Life!vars)
<1> USE LifeFields
<1> USE DEF Stages, Kinds
<1>1. CASE /\ Goes(i, {"new"}, "served") /\ Unanswered(i) /\ Unfreed(i)
           /\ KindOf(i)' \in IrpMajor \cup {"dpc", "misdirected"}
  <2>1. Life!Arrive(i)
    BY <1>1 DEF Life!Arrive, Life!Move, Goes, Unanswered, Unfreed
  <2> QED
    BY <2>1 DEF Life!Next
<1>2. CASE KindOf(i)' = KindOf(i) /\ Unanswered(i) /\ Unfreed(i) /\ Stage(i)' = Stage(i)
  BY <1>2 DEF Life!vars, Unanswered, Unfreed
<1>3. CASE /\ KindOf(i)' = KindOf(i) /\ Unanswered(i) /\ Unfreed(i)
           /\ \/ Goes(i, {"served"}, "waiting")
              \/ Goes(i, {"worked"}, "waiting") /\ KindOf(i) = "dpc"
  <2>1. Life!Post(i)
    BY <1>3 DEF Life!Post, Life!Move, Life!AtWork, Goes, Unanswered, Unfreed
  <2> QED
    BY <2>1 DEF Life!Next
<1>4. CASE KindOf(i)' = KindOf(i) /\ Unanswered(i) /\ Unfreed(i) /\ Goes(i, {"waiting"}, "worked")
  <2>1. Life!TakeUp(i)
    BY <1>4 DEF Life!TakeUp, Life!Move, Goes, Unanswered, Unfreed
  <2> QED
    BY <2>1 DEF Life!Next
<1>5. CASE /\ KindOf(i)' = KindOf(i) /\ Unanswered(i) /\ (Unfreed(i) \/ Frees(i))
           /\ Goes(i, {"served", "worked"}, "given")
  <2>1. Life!Move(i, Life!AtWork, "given") /\ completed' = completed /\ status' = status
    BY <1>5 DEF Life!Move, Life!AtWork, Goes, Unanswered
  <2>2. Life!Release(i) \/ UNCHANGED freed
    BY <1>5 DEF Life!Release, Unfreed, Frees
  <2>3. Life!Give(i)
    BY <1>5, <2>1, <2>2 DEF Life!Give
  <2> QED
    BY <2>3 DEF Life!Next
<1>6. CASE /\ KindOf(i)' = KindOf(i) /\ Unanswered(i) /\ Unfreed(i)
           /\ Goes(i, {"served", "worked", "given"}, "lost")
           /\ KindOf(i) \in {"write", "cleanup", "close", "shutdown"}
  <2>1. Life!Lose(i)
    BY <1>6 DEF Life!Lose, Life!Move, Life!AtWork, Goes, Unanswered, Unfreed
  <2> QED
    BY <2>1 DEF Life!Next
<1>7. CASE /\ KindOf(i)' = KindOf(i) /\ Unanswered(i) /\ Frees(i)
           /\ Stage(i) \in {"given", "over"} /\ Stage(i)' = Stage(i)
  <2>1. Life!Forget(i)
    BY <1>7 DEF Life!Forget, Life!Release, Unanswered, Frees
  <2> QED
    BY <2>1 DEF Life!Next
<1>8. CASE /\ KindOf(i)' = KindOf(i) /\ completed'[i] = completed[i] + 1 /\ status'[i] \in Status
           /\ \/ Goes(i, {"served", "worked"}, "over") /\ Frees(i)
              \/ Goes(i, {"served", "worked", "waiting", "given"}, "over") /\ Unfreed(i)
  <2>1. Life!Answer(i)
    BY <1>8 DEF Life!Answer, Life!Move, Life!Release, Life!AtWork, Goes, Unfreed, Frees
  <2> QED
    BY <2>1 DEF Life!Next
<1> QED
  BY <1>1, <1>2, <1>3, <1>4, <1>5, <1>6, <1>7, <1>8 DEF Lives

\* The notify package answers what it has, and what it has although it is over.
LEMMA LifeOfCancel ==
  ASSUME ControlInv, OnceInv, ~panic, panic' = panic, NEW i \in Irp, Others(i), CancelNotify(i)
  PROVE  Life!Next
<1>1. Maps /\ i \in notify /\ irp[i] \in {"notify", "completed"} /\ (irp[i] = "notify" \/ Misdirected(i))
  BY DEF CancelNotify, ControlInv, NotifyInv, OnceInv
<1>2. /\ irp'[i] = "completed" /\ completed'[i] = completed[i] + 1 /\ op'[i] = op[i]
      /\ status'[i] = "failed" /\ freed'[i] = freed[i]
  BY DEF CancelNotify, ControlInv, Maps, IsMap
<1>3. KindOf(i)' = KindOf(i) /\ Stage(i)' = "over"
  BY <1>1, <1>2, KindKept, StageFacts
<1>4. Stage(i) = "given" \/ (Stage(i) = "over" /\ KindOf(i) = "misdirected")
  BY <1>1, StageFacts DEF KindOf, Misdirected, IsNotify, IsDirectory, IsRead
<1>5. Life!Answer(i)
  BY <1>1, <1>2, <1>3, <1>4, LifeFields
     DEF Life!Answer, Life!Move, Life!Release, Life!AtWork, Stages, Kinds, Status
<1> QED
  BY <1>5 DEF Life!Next

\* An exception no handler expects stops the machine.
LEMMA LifeOfStop ==
  ASSUME Maps, ~panic, panic' = TRUE, NEW i \in Irp, Others(i), Stops(i)
  PROVE  Life!Next
<1>1. Life!Stop(i)
  BY LifeFields DEF Life!Stop, Life!Release, Life!AtWork, Stops, Unanswered, Frees, Stages, Kinds
<1> QED
  BY <1>1 DEF Life!Next

\* Every step of the driver is one of the life of one request, or does not show in it.
LEMMA LifeOfStep ==
  ASSUME ControlInv, OnceInv, [Next]_vars
  PROVE  [Life!Next]_(Life!vars)
<1>1. CASE Next
  <2>1. PICK i \in Irp : ReqStep(i) /\ LifeStep(i)
    BY <1>1, StepOfOne
  <2>2. Maps /\ Others(i) /\ ~panic
    BY <2>1 DEF ControlInv, ReqStep, LifeStep
  <2>3. CASE panic' = panic /\ Lives(i)
    BY <2>2, <2>3, LifeOfMove
  <2>4. CASE panic' = panic /\ CancelNotify(i)
    BY <2>2, <2>4, LifeOfCancel
  <2>5. CASE panic' = TRUE /\ Stops(i)
    BY <2>2, <2>5, LifeOfStop
  <2> QED
    BY <2>1, <2>3, <2>4, <2>5 DEF LifeStep
<1>2. CASE UNCHANGED vars
  BY <1>2 DEF vars, reqVars, Life!vars, Stage, KindOf, IsRead, Misdirected, IsNotify, IsDirectory
<1> QED
  BY <1>1, <1>2

\* The driver keeps what RequestLife promises of every request, with the exceptions it names.
THEOREM Promised == Spec => LivesAsPromised
<1>1. Init => Life!Init
  BY DEF Init, Life!Init, Stage, KindOf
<1> QED
  BY <1>1, LifeOfStep, Controlled, Completions, PTL DEF Spec, LivesAsPromised, Life!Spec
=============================================================================
