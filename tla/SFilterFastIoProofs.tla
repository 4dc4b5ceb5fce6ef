------------------------ MODULE SFilterFastIoProofs -------------------------
(***************************************************************************)
(* Theorems about the filter's fast I/O entries, for any number of callers *)
(* and of filter devices on the volume, and whatever each caller asks for. *)
(***************************************************************************)
EXTENDS SFilterFastIo, SequenceTheorems, TLAPS

----------------------------------------------------------------------------
(* The invariant *)

\* The file system's entry does what it is asked when it is called.
Works(e) ==
  /\ Offered(e)
  /\ target = "sample" => e.member \notin SFsdDeclines \cup SFsdSucceedsIdly

\* The devices in the stack are those between attachment and deletion, each once.
StackInv ==
  /\ stack \in Seq(Dev)
  /\ \A k \in 1 .. Len(stack) : life[stack[k]] \in {"attached", "detached"}
  /\ \A d \in Dev : life[d] \in {"attached", "detached"} => \E k \in 1 .. Len(stack) : stack[k] = d
  /\ \A k, m \in 1 .. Len(stack) : stack[k] = stack[m] => k = m

DeviceInv ==
  /\ target \in Targets /\ dying \in BOOLEAN /\ cut \in BOOLEAN /\ stray \in BOOLEAN
  /\ life \in [Dev -> {"new", "attached", "detached", "gone"}]
  /\ owner \in [Dev -> Caller \cup {Nobody}]
  /\ StackInv

IsMap(f) == f = [i \in Caller |-> f[i]]

Maps == IsMap(use) /\ IsMap(pc) /\ IsMap(giving) /\ IsMap(dev) /\ IsMap(done)

\* A device a call was routed to was attached once.
DevInv(i) ==
  /\ dev[i] \in Dev \cup {NoDev}
  /\ pc[i] \in {"enter", "looking"} => dev[i] \in Dev /\ life[dev[i]] # "new"

OnceInv(i) ==
  use[i].kind = "once" =>
    ~giving[i] /\ pc[i] # "working" /\ done[i] = IF pc[i] = "over" THEN 1 ELSE 0

LentInv(i) ==
  use[i].kind = "lent" =>
    /\ giving[i] => done[i] = IF pc[i] = "over" THEN 0 ELSE 1
    /\ ~giving[i] => done[i] = IF pc[i] = "working" THEN 1 ELSE 0

\* Some device was detached.
SomeDetached == \E d \in Dev : life[d] \in {"detached", "gone"}

\* What is held was acquired from an entry that works, whose counterpart does, too.  What is
\* not held although its entry works was asked for at a detached device.
HeldInv(i) ==
  use[i].kind = "held" =>
    /\ pc[i] # "irp" /\ done[i] \in {-1, 0, 1}
    /\ ~giving[i] /\ pc[i] # "working" => done[i] = 0
    /\ done[i] = 1 => Works(use[i].take)
    /\ done[i] = 1 /\ pc[i] = "over" => dev[i] \in Dev /\ life[dev[i]] \in {"detached", "gone"}
    /\ done[i] = -1 => pc[i] = "over" /\ SomeDetached
    /\ done[i] = 0 /\ (pc[i] = "working" \/ (giving[i] /\ pc[i] # "over")) =>
         ~Works(use[i].give) \/ SomeDetached

CallerInv(i) ==
  /\ use[i] \in Use /\ giving[i] \in BOOLEAN /\ done[i] \in {-1, 0, 1}
  /\ pc[i] \in {"idle", "route", "enter", "looking", "calling", "irp", "working", "over"}
  /\ pc[i] \in {"idle", "working"} => ~giving[i]
  /\ pc[i] = "idle" => done[i] = 0
  /\ DevInv(i) /\ OnceInv(i) /\ LentInv(i) /\ HeldInv(i)

WildInv == wild \subseteq {"FastIoReadCompressed", "FastIoWriteCompressed"}

StopInv == bugcheck \in BOOLEAN

FastIoInv == DeviceInv /\ Maps /\ (\A i \in Caller : CallerInv(i)) /\ WildInv
----------------------------------------------------------------------------
(* What the entries have in common *)

\* Each use is of one of three kinds; only what is held has entries that answer TRUE with
\* nothing to call, and what is held can be given back where it can be taken.
LEMMA UseFacts ==
  ASSUME NEW u \in Use
  PROVE  /\ u.kind \in {"once", "lent", "held"}
         /\ u.kind \in {"once", "lent"} =>
              /\ u.take.answer = FALSE /\ u.give.answer = FALSE
              /\ u.take.member \notin SFsdSucceedsIdly /\ u.give.member \notin SFsdSucceedsIdly
         /\ u.kind = "held" =>
              /\ u.take.answer = TRUE /\ u.give.answer = TRUE
              /\ u.give.member \notin SFsdDeclines /\ u.give.member # "AcquireForModWrite"
              /\ u.take.member \in SFsdTable <=> u.give.member \in SFsdTable
              /\ u.take.member \in OldMember <=> u.give.member \in OldMember
              /\ u.take.sized = u.give.sized
              /\ u.take.member \in SFsdSucceedsIdly <=> u.give.member \in SFsdSucceedsIdly
              /\ u.take.member \notin SFsdDeclines
<1> USE DEF Entry, Once, Lent, Held
<1>1. CASE u.kind = "once"
  BY <1>1
     DEF Use, SFilterFastIoCheckIfPossible, SFilterFastIoRead, SFilterFastIoWrite,
         SFilterFastIoQueryBasicInfo, SFilterFastIoQueryStdInfo, SFilterFastIoDeviceControl,
         SFilterFastIoQueryNetInfo, SFilterFastIoQueryOpen, SFsdSucceedsIdly, EmptyModWrite, EmptyCcFlush
<1>2. CASE u.kind = "lent"
  BY <1>2
     DEF Use, SFilterFastIoLock, SFilterFastIoUnlockSingle, SFilterFastIoUnlockAll,
         SFilterFastIoUnlockAllByKey, SFilterFastIoMdlRead, SFilterFastIoMdlReadComplete,
         SFilterFastIoPrepareMdlWrite, SFilterFastIoMdlWriteComplete, SFilterFastIoReadCompressed,
         SFilterFastIoMdlReadCompleteCompressed, SFilterFastIoWriteCompressed,
         SFilterFastIoMdlWriteCompleteCompressed, SFsdSucceedsIdly, EmptyModWrite, EmptyCcFlush
<1>3. CASE u.kind = "held"
  <2>1. u \in {Held(SFilterFastIoAcqCreateSec, SFilterFastIoRelCreateSec),
               Held(SFilterFastIoAcqModWrite, SFilterFastIoRelModWrite),
               Held(SFilterFastIoAcqCcFlush, SFilterFastIoRelCcFlush)}
    BY <1>3 DEF Use
  <2> USE DEF OldMember, SFsdSucceedsIdly, EmptyModWrite, EmptyCcFlush, SFsdTable, SFsdDeclines,
              DeclinesCheck, DeclinesTransfers, DeclinesQueries, DeclinesNetQuery, DeclinesLock,
              DeclinesUnlock, DeclinesMdlRead, DeclinesMdlWrite
  <2>2. CASE u = Held(SFilterFastIoAcqCreateSec, SFilterFastIoRelCreateSec)
    BY <2>2 DEF SFilterFastIoAcqCreateSec, SFilterFastIoRelCreateSec
  <2>3. CASE u = Held(SFilterFastIoAcqModWrite, SFilterFastIoRelModWrite)
    BY <2>3 DEF SFilterFastIoAcqModWrite, SFilterFastIoRelModWrite
  <2>4. CASE u = Held(SFilterFastIoAcqCcFlush, SFilterFastIoRelCcFlush)
    BY <2>4 DEF SFilterFastIoAcqCcFlush, SFilterFastIoRelCcFlush
  <2> QED
    BY <2>1, <2>2, <2>3, <2>4
<1>4. u.kind \in {"once", "lent", "held"}
  BY DEF Use
<1> QED
  BY <1>1, <1>2, <1>3, <1>4

\* Only the two entries for compressed transfers look beyond a table of the old size.
LEMMA BeyondFacts ==
  ASSUME NEW u \in Use
  PROVE  /\ BeyondTable(u.take) => u.take.member \in {"FastIoReadCompressed", "FastIoWriteCompressed"}
         /\ BeyondTable(u.give) => u.give.member \in {"FastIoReadCompressed", "FastIoWriteCompressed"}
  BY DEF Use, Entry, Once, Lent, Held, BeyondTable, OldMember,
         SFilterFastIoCheckIfPossible, SFilterFastIoRead, SFilterFastIoWrite,
         SFilterFastIoQueryBasicInfo, SFilterFastIoQueryStdInfo, SFilterFastIoDeviceControl,
         SFilterFastIoQueryNetInfo, SFilterFastIoQueryOpen,
         SFilterFastIoLock, SFilterFastIoUnlockSingle, SFilterFastIoUnlockAll,
         SFilterFastIoUnlockAllByKey, SFilterFastIoMdlRead, SFilterFastIoMdlReadComplete,
         SFilterFastIoPrepareMdlWrite, SFilterFastIoMdlWriteComplete, SFilterFastIoReadCompressed,
         SFilterFastIoMdlReadCompleteCompressed, SFilterFastIoWriteCompressed,
         SFilterFastIoMdlWriteCompleteCompressed, SFilterFastIoAcqCreateSec,
         SFilterFastIoRelCreateSec, SFilterFastIoAcqModWrite, SFilterFastIoRelModWrite,
         SFilterFastIoAcqCcFlush, SFilterFastIoRelCcFlush

\* What was acquired from an entry that works can be given back to one that does and does not decline.
LEMMA GiveWorks ==
  ASSUME NEW u \in Use, u.kind = "held", target \in Targets, Works(u.take)
  PROVE  Works(u.give) /\ ~CanDecline(u.give)
<1>1. target \in {"sample", "full", "short"}
  BY CallerAssumption
<1>2. u.give.member \in Member
  BY DEF Member
<1>3. Offered(u.give)
  BY <1>1, <1>2, UseFacts DEF Works, Offered, Table
<1>4. u.give.answer = TRUE
  BY UseFacts
<1> QED
  BY <1>1, <1>3, <1>4, UseFacts DEF Works, CanDecline

\* The other way round: what works when it is given back works when it is taken.
LEMMA TakeWorks ==
  ASSUME NEW u \in Use, u.kind = "held", target \in Targets, Works(u.give)
  PROVE  Works(u.take)
<1>1. target \in {"sample", "full", "short"}
  BY CallerAssumption
<1>2. u.take.member \in Member
  BY DEF Member
<1>3. Offered(u.take)
  BY <1>1, <1>2, UseFacts DEF Works, Offered, Table
<1> QED
  BY <1>1, <1>3, UseFacts DEF Works

\* What is not held is never passed over by an entry that does nothing.
LEMMA NoIdleSuccess ==
  ASSUME NEW u \in Use, u.kind \in {"once", "lent"}
  PROVE  /\ Offered(u.take) /\ ~CanDecline(u.take) => Works(u.take)
         /\ Offered(u.give) /\ ~CanDecline(u.give) => Works(u.give)
  BY UseFacts DEF Works, CanDecline
----------------------------------------------------------------------------
(* The devices *)

\* The invariant holds before anything is attached.
LEMMA InitInv == Init => FastIoInv
<1> SUFFICES ASSUME Init PROVE FastIoInv
  OBVIOUS
<1>1. Idle \in Use /\ Idle.kind = "once"
  BY DEF Idle, Use, Once
<1>2. StackInv
  BY DEF Init, StackInv
<1>3. DeviceInv
  BY <1>2 DEF Init, DeviceInv
<1>4. Maps
  BY DEF Init, Maps, IsMap
<1>5. ASSUME NEW i \in Caller PROVE CallerInv(i)
  BY <1>1, <1>5 DEF Init, CallerInv, DevInv, OnceInv, LentInv, HeldInv
<1>6. WildInv
  BY DEF Init, WildInv
<1> QED
  BY <1>3, <1>4, <1>5, <1>6 DEF FastIoInv

\* A device's life goes one way: once attached it is never new again, once detached it is never attached.
Ages == \A d \in Dev :
  /\ life[d] # "new" => life'[d] # "new"
  /\ life[d] \in {"detached", "gone"} => life'[d] \in {"detached", "gone"}

\* What is known of a caller that does nothing stays true.
LEMMA CallerKeeps ==
  ASSUME NEW j \in Caller, CallerInv(j), Ages, target' = target,
         use'[j] = use[j], pc'[j] = pc[j], giving'[j] = giving[j], dev'[j] = dev[j], done'[j] = done[j]
  PROVE  CallerInv(j)'
<1>1. DevInv(j)'
  BY DEF CallerInv, DevInv, Ages
<1>2. OnceInv(j)' /\ LentInv(j)'
  BY DEF CallerInv, OnceInv, LentInv
<1>3. Works(use[j].take) => Works(use[j].take)'
  BY DEF Works, Offered, Table
<1>4. HeldInv(j)'
  BY <1>3 DEF CallerInv, HeldInv, Ages, SomeDetached, Works, Offered, Table
<1> QED
  BY <1>1, <1>2, <1>4 DEF CallerInv

\* The same of all callers, when only devices change.
LEMMA CallersKeep ==
  ASSUME FastIoInv, Ages, target' = target, UNCHANGED <<use, pc, giving, dev, done, wild>>
  PROVE  Maps' /\ (\A j \in Caller : CallerInv(j)') /\ WildInv'
<1>1. Maps' /\ WildInv'
  BY DEF FastIoInv, Maps, IsMap, WildInv
<1>2. ASSUME NEW j \in Caller PROVE CallerInv(j)'
  BY <1>2, CallerKeeps DEF FastIoInv
<1> QED
  BY <1>1, <1>2

\* A new device goes on top.
LEMMA AttachKeeps ==
  ASSUME FastIoInv, NEW d \in Dev, Attach(d)
  PROVE  FastIoInv'
<1>1. /\ stack \in Seq(Dev) /\ life \in [Dev -> {"new", "attached", "detached", "gone"}]
      /\ life' = [life EXCEPT ![d] = "attached"] /\ stack' = Append(stack, d)
      /\ StackInv /\ life[d] = "new"
  BY DEF Attach, FastIoInv, DeviceInv, StackInv
<1>2. /\ stack' \in Seq(Dev) /\ Len(stack) \in Nat /\ Len(stack') = Len(stack) + 1
      /\ stack'[Len(stack) + 1] = d
      /\ \A k \in 1 .. Len(stack) : stack'[k] = stack[k] /\ stack[k] # d /\ stack[k] \in Dev
  <2>1. \A k \in 1 .. Len(stack) : stack[k] # d /\ stack[k] \in Dev
    BY <1>1 DEF StackInv
  <2> QED
    BY <1>1, <2>1, AppendProperties
<1>3. StackInv'
  <2>1. \A k \in 1 .. Len(stack') : k \in 1 .. Len(stack) \/ k = Len(stack) + 1
    BY <1>2
  <2>2. \A k \in 1 .. Len(stack') : life'[stack'[k]] \in {"attached", "detached"}
    BY <1>1, <1>2, <2>1 DEF StackInv
  <2>3. \A c \in Dev : life'[c] \in {"attached", "detached"} => \E k \in 1 .. Len(stack') : stack'[k] = c
    <3>1. Len(stack) + 1 \in 1 .. Len(stack') /\ 1 .. Len(stack) \subseteq 1 .. Len(stack')
      BY <1>2
    <3> QED
      BY <1>1, <1>2, <3>1 DEF StackInv
  <2>4. \A k, m \in 1 .. Len(stack') : stack'[k] = stack'[m] => k = m
    BY <1>1, <1>2, <2>1 DEF StackInv
  <2> QED
    BY <1>2, <2>2, <2>3, <2>4 DEF StackInv
<1>4. DeviceInv'
  BY <1>1, <1>3 DEF Attach, FastIoInv, DeviceInv
<1>5. Ages
  BY <1>1 DEF Ages
<1> QED
  BY <1>4, <1>5, CallersKeep DEF Attach, FastIoInv

\* The deletion of the volume begins.
LEMMA DeleteVolumeKeeps ==
  ASSUME FastIoInv, DeleteVolume
  PROVE  FastIoInv'
<1>1. DeviceInv'
  BY DEF DeleteVolume, FastIoInv, DeviceInv, StackInv
<1>2. Ages
  BY DEF Ages, DeleteVolume
<1> QED
  BY <1>1, <1>2, CallersKeep DEF DeleteVolume, FastIoInv

\* The lowest device is the first of the stack.
LEMMA Lowest ==
  ASSUME FastIoInv, stack # <<>>
  PROVE  /\ Head(stack) = stack[1] /\ Head(stack) \in Dev /\ Len(stack) \in Nat /\ Len(stack) # 0
         /\ 1 \in 1 .. Len(stack) /\ Len(stack) \in 1 .. Len(stack)
<1>1. stack \in Seq(Dev)
  BY DEF FastIoInv, DeviceInv, StackInv
<1> QED
  BY <1>1

\* A device stays in the stack when it is detached.
LEMMA DetachDeviceKeeps ==
  ASSUME FastIoInv, DetachDevice
  PROVE  FastIoInv'
<1>1. /\ life \in [Dev -> {"new", "attached", "detached", "gone"}] /\ StackInv
      /\ life[Head(stack)] = "attached" /\ Head(stack) \in Dev
      /\ life' = [life EXCEPT ![Head(stack)] = "detached"] /\ stack' = stack
  BY Lowest DEF DetachDevice, FastIoInv, DeviceInv
<1>2. StackInv'
  BY <1>1 DEF StackInv
<1>3. stray' \in BOOLEAN
  BY DEF DetachDevice, FastIoInv, DeviceInv
<1>4. DeviceInv'
  BY <1>1, <1>2, <1>3 DEF DetachDevice, FastIoInv, DeviceInv
<1>5. Ages
  BY <1>1 DEF Ages
<1> QED
  BY <1>4, <1>5, CallersKeep DEF DetachDevice, FastIoInv

\* A device leaves the stack when it is deleted.
LEMMA DeleteDeviceKeeps ==
  ASSUME FastIoInv, DeleteDevice
  PROVE  FastIoInv'
<1>1. /\ life \in [Dev -> {"new", "attached", "detached", "gone"}] /\ StackInv
      /\ Head(stack) \in Dev /\ Head(stack) = stack[1] /\ 1 \in 1 .. Len(stack)
      /\ life' = [life EXCEPT ![stack[1]] = "gone"] /\ life[stack[1]] = "detached"
  BY Lowest DEF DeleteDevice, FastIoInv, DeviceInv
<1>2. /\ stack' \in Seq(Dev) /\ Len(stack) \in Nat /\ Len(stack') = Len(stack) - 1
      /\ \A k \in 1 .. Len(stack') : stack'[k] = stack[k + 1] /\ stack[k + 1] \in Dev
                                      /\ k + 1 \in 1 .. Len(stack) /\ k + 1 # 1
  <2>1. stack \in Seq(Dev) /\ stack # <<>> /\ stack' = Tail(stack)
    BY DEF DeleteDevice, FastIoInv, DeviceInv, StackInv
  <2> QED
    BY <2>1, HeadTailProperties
<1>3. StackInv'
  <2>1. \A k \in 1 .. Len(stack') : life'[stack'[k]] \in {"attached", "detached"}
    BY <1>1, <1>2 DEF StackInv
  <2>2. ASSUME NEW c \in Dev, life'[c] \in {"attached", "detached"}
        PROVE  \E k \in 1 .. Len(stack') : stack'[k] = c
    <3>1. c # stack[1] /\ life[c] \in {"attached", "detached"}
      BY <1>1, <2>2
    <3>2. PICK k \in 1 .. Len(stack) : stack[k] = c
      BY <1>1, <2>2, <3>1 DEF StackInv
    <3>3. k - 1 \in 1 .. Len(stack') /\ (k - 1) + 1 = k
      BY <1>2, <3>1, <3>2
    <3> QED
      BY <1>2, <3>2, <3>3
  <2>3. ASSUME NEW k \in 1 .. Len(stack'), NEW m \in 1 .. Len(stack'), stack'[k] = stack'[m]
        PROVE  k = m
    <3>1. k + 1 = m + 1
      BY <1>1, <1>2, <2>3 DEF StackInv
    <3> QED
      BY <1>2, <2>3, <3>1
  <2> QED
    BY <1>2, <2>1, <2>2, <2>3 DEF StackInv
<1>4. DeviceInv'
  BY <1>1, <1>3 DEF DeleteDevice, FastIoInv, DeviceInv
<1>5. Ages
  BY <1>1 DEF Ages
<1> QED
  BY <1>4, <1>5, CallersKeep DEF DeleteDevice, FastIoInv
----------------------------------------------------------------------------
(* The callers *)

\* Nothing of a caller changes.
Rests(j) ==
  /\ use'[j] = use[j] /\ pc'[j] = pc[j] /\ giving'[j] = giving[j]
  /\ dev'[j] = dev[j] /\ done'[j] = done[j]

\* One caller moves, the devices and the other callers do not.
LEMMA CallerMoves ==
  ASSUME FastIoInv, NEW i \in Caller, UNCHANGED devVars, owner' \in [Dev -> Caller \cup {Nobody}],
         Maps', \A j \in Caller \ {i} : Rests(j), CallerInv(i)', WildInv'
  PROVE  FastIoInv'
<1>1. DeviceInv'
  BY DEF devVars, FastIoInv, DeviceInv, StackInv
<1>2. Ages /\ target' = target
  BY DEF Ages, devVars
<1>3. ASSUME NEW j \in Caller, j # i PROVE CallerInv(j)'
  BY <1>2, <1>3, CallerKeeps DEF Rests, FastIoInv
<1> QED
  BY <1>1, <1>3 DEF FastIoInv

\* Where a caller is after a return.
LEMMA ReturnPlace ==
  ASSUME IsMap(pc), NEW i \in Caller, NEW answer \in BOOLEAN, giving[i] \in BOOLEAN, Return(i, answer),
         use[i].kind \in {"once", "lent", "held"}
  PROVE  /\ IsMap(pc)' /\ \A j \in Caller \ {i} : pc'[j] = pc[j]
         /\ pc'[i] \in {"working", "over", "irp"}
         /\ pc'[i] = "working" <=> use[i].kind # "once" /\ ~giving[i] /\ answer
         /\ pc'[i] = "irp" <=> use[i].kind # "held" /\ ~answer
<1> DEFINE place == IF use[i].kind = "held" \/ answer
                      THEN IF use[i].kind # "once" /\ ~giving[i] /\ answer THEN "working" ELSE "over"
                      ELSE "irp"
<1>1. pc' = [pc EXCEPT ![i] = place]
  BY DEF Return, Goto
<1>2. /\ IsMap(pc)' /\ \A j \in Caller \ {i} : pc'[j] = pc[j]
      /\ pc'[i] = place
  <2> HIDE DEF place
  <2> QED
    BY <1>1 DEF IsMap
<1> QED
  BY <1>2

\* The entry that a caller's call goes to, and what it answers with nothing to call.
LEMMA EntryFacts ==
  ASSUME NEW i \in Caller, use[i] \in Use, giving[i] \in BOOLEAN
  PROVE  /\ EntryOf(i) = IF giving[i] THEN use[i].give ELSE use[i].take
         /\ use[i].kind \in {"once", "lent", "held"}
         /\ EntryOf(i).answer = (use[i].kind = "held")
         /\ BeyondTable(EntryOf(i)) =>
              EntryOf(i).member \in {"FastIoReadCompressed", "FastIoWriteCompressed"}
<1>1. EntryOf(i) = IF giving[i] THEN use[i].give ELSE use[i].take
  BY DEF EntryOf
<1>2. use[i].kind \in {"once", "lent", "held"}
  BY UseFacts
<1>3. /\ use[i].give.answer = (use[i].kind = "held")
      /\ use[i].take.answer = (use[i].kind = "held")
  BY UseFacts
<1> QED
  BY <1>1, <1>2, <1>3, BeyondFacts

\* A caller begins.
LEMMA StartKeeps ==
  ASSUME FastIoInv, NEW i \in Caller, NEW u \in UsesOf(i), Start(i, u)
  PROVE  FastIoInv'
<1>1. u \in Use /\ u.kind \in {"once", "lent", "held"}
  BY UseAssumption, UseFacts
<1>2. /\ UNCHANGED <<devVars, owner, giving, dev, done, wild>> /\ pc[i] = "idle"
      /\ use' = [use EXCEPT ![i] = u] /\ pc' = [pc EXCEPT ![i] = "route"]
  BY DEF Start, Goto
<1>3. /\ Maps' /\ \A j \in Caller \ {i} : Rests(j)
      /\ use'[i] = u /\ pc'[i] = "route" /\ giving'[i] = giving[i] /\ dev'[i] = dev[i] /\ done'[i] = done[i]
  BY <1>2 DEF FastIoInv, Maps, IsMap, Rests
<1>4. CallerInv(i)
  BY DEF FastIoInv
<1>5. done[i] = 0 /\ giving[i] = FALSE /\ dev[i] \in Dev \cup {NoDev}
  BY <1>2, <1>4 DEF CallerInv, DevInv
<1>6. CallerInv(i)'
  <2>1. done'[i] = 0 /\ ~giving'[i] /\ giving'[i] \in BOOLEAN /\ dev'[i] \in Dev \cup {NoDev}
    BY <1>3, <1>5
  <2>2. DevInv(i)' /\ OnceInv(i)' /\ LentInv(i)' /\ HeldInv(i)'
    BY <1>3, <2>1 DEF DevInv, OnceInv, LentInv, HeldInv
  <2> QED
    BY <1>1, <1>3, <2>1, <2>2 DEF CallerInv
<1>7. owner' \in [Dev -> Caller \cup {Nobody}] /\ WildInv' /\ UNCHANGED devVars
  BY <1>2 DEF FastIoInv, DeviceInv, WildInv
<1> QED
  BY <1>3, <1>6, <1>7, CallerMoves

\* A call is routed to a device that was attached once.
LEMMA RouteKeeps ==
  ASSUME FastIoInv, NEW i \in Caller, Route(i)
  PROVE  FastIoInv'
<1>1. /\ UNCHANGED <<devVars, owner, use, giving, done, wild>> /\ pc[i] = "route" /\ CallerInv(i)
      /\ Maps
  BY DEF Route, FastIoInv
<1>2. \/ pc' = [pc EXCEPT ![i] = "calling"] /\ dev' = [dev EXCEPT ![i] = NoDev]
      \/ /\ pc' = [pc EXCEPT ![i] = "enter"] /\ dev' = [dev EXCEPT ![i] = Last(stack)]
         /\ stack # <<>>
  BY DEF Route, Goto
<1>3. stack # <<>> => Last(stack) \in Dev /\ life[Last(stack)] # "new"
  <2> SUFFICES ASSUME stack # <<>> PROVE Last(stack) \in Dev /\ life[Last(stack)] # "new"
    OBVIOUS
  <2>1. Last(stack) = stack[Len(stack)] /\ Len(stack) \in 1 .. Len(stack) /\ stack \in Seq(Dev)
    BY Lowest DEF Last, FastIoInv, DeviceInv, StackInv
  <2>2. life[stack[Len(stack)]] \in {"attached", "detached"}
    BY <2>1 DEF FastIoInv, DeviceInv, StackInv
  <2> QED
    BY <2>1, <2>2
<1>4. /\ Maps' /\ \A j \in Caller \ {i} : Rests(j)
      /\ use'[i] = use[i] /\ giving'[i] = giving[i] /\ done'[i] = done[i]
      /\ \/ pc'[i] = "calling" /\ dev'[i] = NoDev
         \/ pc'[i] = "enter" /\ dev'[i] \in Dev /\ life[dev'[i]] # "new"
  <2>1. CASE pc' = [pc EXCEPT ![i] = "calling"] /\ dev' = [dev EXCEPT ![i] = NoDev]
    BY <1>1, <2>1 DEF Maps, IsMap, Rests
  <2>2. CASE /\ pc' = [pc EXCEPT ![i] = "enter"] /\ dev' = [dev EXCEPT ![i] = Last(stack)]
             /\ stack # <<>>
    BY <1>1, <1>3, <2>2 DEF Maps, IsMap, Rests
  <2> QED
    BY <1>2, <2>1, <2>2
<1>5. life' = life /\ target' = target
  BY <1>1 DEF devVars
<1>6. DevInv(i)' /\ OnceInv(i)' /\ LentInv(i)'
  BY <1>1, <1>4, <1>5 DEF CallerInv, DevInv, OnceInv, LentInv
<1>7. HeldInv(i)'
  BY <1>1, <1>4, <1>5 DEF CallerInv, HeldInv, SomeDetached, Works, Offered, Table
<1>8. CallerInv(i)'
  BY <1>1, <1>4, <1>6, <1>7 DEF CallerInv
<1>9. owner' \in [Dev -> Caller \cup {Nobody}] /\ WildInv' /\ UNCHANGED devVars
  BY <1>1 DEF FastIoInv, DeviceInv, WildInv
<1> QED
  BY <1>4, <1>8, <1>9, CallerMoves

\* A caller that was told there is nothing to call believes it only where that is true, or
\* where the device it asked is attached no more.
LEMMA TurnedAway ==
  ASSUME FastIoInv, NEW i \in Caller, pc[i] \in {"enter", "looking", "calling"}, target' = target, life' = life,
         Return(i, EntryOf(i).answer), UNCHANGED <<use, giving, dev, done>>,
         \/ dev[i] \in Dev /\ life[dev[i]] \in {"detached", "gone"}
         \/ ~Offered(EntryOf(i))
  PROVE  Maps' /\ (\A j \in Caller \ {i} : Rests(j)) /\ CallerInv(i)'
<1>1. CallerInv(i) /\ Maps /\ target \in Targets
  BY DEF FastIoInv, DeviceInv
<1>2. /\ use[i] \in Use /\ giving[i] \in BOOLEAN /\ EntryOf(i).answer = (use[i].kind = "held")
      /\ use[i].kind \in {"once", "lent", "held"} /\ EntryOf(i).answer \in BOOLEAN
  BY <1>1, EntryFacts DEF CallerInv
<1>3. /\ IsMap(pc)' /\ \A j \in Caller \ {i} : pc'[j] = pc[j]
      /\ pc'[i] \in {"working", "over", "irp"}
      /\ pc'[i] = "working" <=> use[i].kind # "once" /\ ~giving[i] /\ EntryOf(i).answer
      /\ pc'[i] = "irp" <=> use[i].kind # "held" /\ ~EntryOf(i).answer
  <2> HIDE DEF EntryOf
  <2> QED
    BY <1>1, <1>2, ReturnPlace DEF Maps
<1>4. Maps' /\ (\A j \in Caller \ {i} : Rests(j))
  BY <1>1, <1>3 DEF Maps, IsMap, Rests
<1>5. /\ use'[i] = use[i] /\ giving'[i] = giving[i] /\ done'[i] = done[i] /\ dev'[i] = dev[i]
      /\ use[i].kind # "held" => pc'[i] = "irp"
      /\ use[i].kind = "held" => pc'[i] = IF giving[i] THEN "over" ELSE "working"
  <2>1. use[i].kind # "held" => pc'[i] = "irp"
    BY <1>2, <1>3
  <2>2. use[i].kind = "held" => pc'[i] = IF giving[i] THEN "over" ELSE "working"
    <3>1. CASE giving[i]
      BY <1>2, <1>3, <3>1
    <3>2. CASE ~giving[i]
      BY <1>2, <1>3, <3>2
    <3> QED
      BY <3>1, <3>2
  <2> QED
    BY <2>1, <2>2
<1>6. DevInv(i)' /\ OnceInv(i)' /\ LentInv(i)'
  BY <1>1, <1>5 DEF CallerInv, DevInv, OnceInv, LentInv
<1>7. HeldInv(i)'
  <2> SUFFICES ASSUME use[i].kind = "held" PROVE HeldInv(i)'
    BY <1>5 DEF HeldInv
  <2>1. ~giving[i] => done[i] = 0
    BY <1>1 DEF CallerInv, HeldInv
  <2>2. done[i] = 1 => Works(use[i].take)
    BY <1>1 DEF CallerInv, HeldInv
  <2>3. giving[i] /\ done[i] = 1 => dev[i] \in Dev /\ life[dev[i]] \in {"detached", "gone"}
    <3> SUFFICES ASSUME giving[i], done[i] = 1 PROVE Offered(EntryOf(i))
      OBVIOUS
    <3>1. Works(use[i].give)
      BY <1>1, <1>2, <2>2, GiveWorks
    <3> QED
      BY <3>1 DEF Works, EntryOf
  <2>4. /\ Works(use[i].take)' <=> Works(use[i].take)
        /\ Works(use[i].give)' <=> Works(use[i].give)
        /\ SomeDetached' <=> SomeDetached
    BY <1>5 DEF Works, Offered, Table, SomeDetached
  <2>5. ~giving[i] => ~Works(use[i].give) \/ SomeDetached
    <3> SUFFICES ASSUME ~giving[i], ~SomeDetached PROVE ~Works(use[i].give)
      OBVIOUS
    <3>1. ~Offered(use[i].take)
      BY DEF SomeDetached, EntryOf
    <3> QED
      BY <1>1, <1>2, <3>1, TakeWorks DEF Works
  <2>6. done[i] \in {0, 1} /\ life'[dev'[i]] = life[dev[i]]
    BY <1>1, <1>5 DEF CallerInv, HeldInv
  <2> QED
    BY <1>1, <1>2, <1>5, <2>1, <2>2, <2>3, <2>4, <2>5, <2>6 DEF HeldInv
<1>8. CallerInv(i)'
  BY <1>1, <1>2, <1>5, <1>6, <1>7 DEF CallerInv
<1> QED
  BY <1>4, <1>8

\* The routine is entered with the extension's resource, or turns the call away.
LEMMA EnterKeeps ==
  ASSUME FastIoInv, NEW i \in Caller, Enter(i)
  PROVE  FastIoInv'
<1>1. /\ UNCHANGED <<devVars, use, giving, dev, done, wild>> /\ pc[i] = "enter"
      /\ life' = life /\ target' = target
  BY DEF Enter, devVars
<1>2. /\ CallerInv(i) /\ Maps /\ owner \in [Dev -> Caller \cup {Nobody}]
      /\ dev[i] \in Dev /\ life[dev[i]] # "new"
  BY <1>1 DEF FastIoInv, DeviceInv, CallerInv, DevInv
<1>3. WildInv' /\ UNCHANGED devVars
  BY <1>1 DEF FastIoInv, WildInv
<1>4. CASE life[dev[i]] = "gone"
  <2>1. Return(i, EntryOf(i).answer) /\ owner' = owner
    BY <1>4 DEF Enter
  <2>2. Maps' /\ (\A j \in Caller \ {i} : Rests(j)) /\ CallerInv(i)'
    BY <1>1, <1>2, <1>4, <2>1, TurnedAway
  <2>3. owner' \in [Dev -> Caller \cup {Nobody}]
    BY <1>2, <2>1
  <2> QED
    BY <1>3, <2>2, <2>3, CallerMoves
<1>5. CASE life[dev[i]] # "gone"
  <2>1. owner' = [owner EXCEPT ![dev[i]] = i] /\ pc' = [pc EXCEPT ![i] = "looking"]
    BY <1>5 DEF Enter, Goto
  <2>2. /\ Maps' /\ (\A j \in Caller \ {i} : Rests(j)) /\ pc'[i] = "looking"
        /\ use'[i] = use[i] /\ giving'[i] = giving[i] /\ dev'[i] = dev[i] /\ done'[i] = done[i]
    BY <1>1, <1>2, <2>1 DEF Maps, IsMap, Rests
  <2>3. DevInv(i)' /\ OnceInv(i)' /\ LentInv(i)'
    BY <1>1, <1>2, <2>2 DEF CallerInv, DevInv, OnceInv, LentInv
  <2>4. HeldInv(i)'
    BY <1>1, <1>2, <2>2 DEF CallerInv, HeldInv, SomeDetached, Works, Offered, Table
  <2>5. CallerInv(i)'
    BY <1>1, <1>2, <2>2, <2>3, <2>4 DEF CallerInv
  <2>6. owner' \in [Dev -> Caller \cup {Nobody}]
    BY <1>2, <2>1
  <2> QED
    BY <1>3, <2>2, <2>5, <2>6, CallerMoves
<1> QED
  BY <1>4, <1>5

\* The routine finds an entry to call, or turns the call away.
LEMMA LookKeeps ==
  ASSUME FastIoInv, NEW i \in Caller, Look(i)
  PROVE  FastIoInv'
<1> DEFINE attached == life[dev[i]] = "attached"
<1>1. /\ UNCHANGED <<devVars, use, giving, dev, done>> /\ pc[i] = "looking"
      /\ owner' = [owner EXCEPT ![dev[i]] = Nobody]
      /\ wild' = IF attached /\ BeyondTable(EntryOf(i)) THEN wild \cup {EntryOf(i).member} ELSE wild
      /\ IF attached /\ Offered(EntryOf(i)) THEN Goto(i, "calling") ELSE Return(i, EntryOf(i).answer)
  BY DEF Look
<1>2. /\ CallerInv(i) /\ Maps /\ owner \in [Dev -> Caller \cup {Nobody}]
      /\ dev[i] \in Dev /\ life[dev[i]] # "new" /\ life' = life /\ target' = target
      /\ life[dev[i]] \in {"new", "attached", "detached", "gone"}
      /\ use[i] \in Use /\ giving[i] \in BOOLEAN
  BY <1>1 DEF FastIoInv, DeviceInv, CallerInv, DevInv, devVars
<1>3. WildInv'
  <2>1. BeyondTable(EntryOf(i)) =>
          EntryOf(i).member \in {"FastIoReadCompressed", "FastIoWriteCompressed"}
    BY <1>2, EntryFacts
  <2> QED
    BY <1>1, <2>1 DEF FastIoInv, WildInv
<1>4. owner' \in [Dev -> Caller \cup {Nobody}] /\ UNCHANGED devVars
  BY <1>1, <1>2
<1>5. CASE attached /\ Offered(EntryOf(i))
  <2>1. pc' = [pc EXCEPT ![i] = "calling"]
    BY <1>1, <1>5 DEF Goto
  <2>2. /\ Maps' /\ (\A j \in Caller \ {i} : Rests(j)) /\ pc'[i] = "calling"
        /\ use'[i] = use[i] /\ giving'[i] = giving[i] /\ dev'[i] = dev[i] /\ done'[i] = done[i]
    BY <1>1, <1>2, <2>1 DEF Maps, IsMap, Rests
  <2>3. DevInv(i)' /\ OnceInv(i)' /\ LentInv(i)'
    BY <1>1, <1>2, <2>2 DEF CallerInv, DevInv, OnceInv, LentInv
  <2>4. HeldInv(i)'
    BY <1>1, <1>2, <2>2 DEF CallerInv, HeldInv, SomeDetached, Works, Offered, Table
  <2>5. CallerInv(i)'
    BY <1>1, <1>2, <2>2, <2>3, <2>4 DEF CallerInv
  <2> QED
    BY <1>3, <1>4, <2>2, <2>5, CallerMoves
<1>6. CASE ~(attached /\ Offered(EntryOf(i)))
  <2>1. Return(i, EntryOf(i).answer)
    BY <1>1, <1>6
  <2>2. \/ dev[i] \in Dev /\ life[dev[i]] \in {"detached", "gone"}
        \/ ~Offered(EntryOf(i))
    BY <1>2, <1>6
  <2>3. Maps' /\ (\A j \in Caller \ {i} : Rests(j)) /\ CallerInv(i)'
    BY <1>1, <1>2, <2>1, <2>2, TurnedAway
  <2> QED
    BY <1>3, <1>4, <2>3, CallerMoves
<1> QED
  BY <1>5, <1>6

\* Whatever the file system's entry does, its caller is left to believe what is true.
LEMMA CallKeeps ==
  ASSUME FastIoInv, NEW i \in Caller, Call(i)
  PROVE  FastIoInv'
<1> DEFINE e == EntryOf(i)
<1>1. /\ UNCHANGED <<devVars, owner, use, giving, dev, wild>> /\ pc[i] = "calling"
      /\ life' = life /\ target' = target
  BY DEF Call, devVars
<1>2. /\ CallerInv(i) /\ Maps /\ owner \in [Dev -> Caller \cup {Nobody}] /\ target \in Targets
      /\ use[i] \in Use /\ giving[i] \in BOOLEAN /\ done[i] \in {0, 1}
  <2>1. /\ CallerInv(i) /\ Maps /\ owner \in [Dev -> Caller \cup {Nobody}] /\ target \in Targets
        /\ use[i] \in Use /\ giving[i] \in BOOLEAN /\ OnceInv(i) /\ LentInv(i) /\ HeldInv(i)
    BY DEF FastIoInv, DeviceInv, CallerInv
  <2>2. use[i].kind \in {"once", "lent", "held"}
    BY <2>1, UseFacts
  <2>3. done[i] \in {0, 1}
    BY <1>1, <2>1, <2>2 DEF OnceInv, LentInv, HeldInv
  <2> QED
    BY <2>1, <2>3
<1>3. \/ Works(e) /\ Did(i) /\ Return(i, TRUE)
      \/ Offered(e) /\ CanDecline(e) /\ Return(i, FALSE) /\ done' = done
      \/ Offered(e) /\ ~Works(e) /\ ~CanDecline(e) /\ Return(i, TRUE) /\ done' = done
      \/ ~Offered(e) /\ Return(i, e.answer) /\ done' = done
  BY DEF Call, Works
<1>4. /\ e = IF giving[i] THEN use[i].give ELSE use[i].take
      /\ use[i].kind \in {"once", "lent", "held"} /\ e.answer = (use[i].kind = "held")
  BY <1>2, EntryFacts
<1>5. WildInv' /\ UNCHANGED devVars /\ owner' \in [Dev -> Caller \cup {Nobody}]
  BY <1>1, <1>2 DEF FastIoInv, WildInv
<1>6. use[i].kind = "held" /\ giving[i] /\ done[i] = 1 => Works(e) /\ ~CanDecline(e)
  <2> SUFFICES ASSUME use[i].kind = "held", giving[i], done[i] = 1 PROVE Works(e) /\ ~CanDecline(e)
    OBVIOUS
  <2>1. Works(use[i].take)
    BY <1>2 DEF CallerInv, HeldInv
  <2>2. Works(use[i].give) /\ ~CanDecline(use[i].give)
    BY <1>2, <2>1, GiveWorks
  <2> QED
    BY <1>4, <2>2
<1>7. use[i].kind \in {"once", "lent"} /\ Offered(e) /\ ~CanDecline(e) => Works(e)
  <2> HIDE DEF e
  <2>1. CASE giving[i]
    BY <1>2, <1>4, <2>1, NoIdleSuccess
  <2>2. CASE ~giving[i]
    BY <1>2, <1>4, <2>2, NoIdleSuccess
  <2> QED
    BY <2>1, <2>2
<1>8. Works(use[i].take) => Works(use[i].take)'
  BY <1>1 DEF Works, Offered, Table
<1>9. /\ use'[i] = use[i] /\ giving'[i] = giving[i] /\ dev'[i] = dev[i]
      /\ OnceInv(i) /\ LentInv(i) /\ HeldInv(i) /\ dev[i] \in Dev \cup {NoDev}
      /\ \A j \in Caller \ {i} : use'[j] = use[j] /\ giving'[j] = giving[j] /\ dev'[j] = dev[j]
  BY <1>1, <1>2 DEF CallerInv, DevInv
<1> HIDE DEF e
<1>10. CASE Works(e) /\ Did(i) /\ Return(i, TRUE)
  <2>1. /\ IsMap(pc)' /\ (\A j \in Caller \ {i} : pc'[j] = pc[j])
        /\ pc'[i] \in {"working", "over"}
        /\ pc'[i] = "working" <=> use[i].kind # "once" /\ ~giving[i]
    BY <1>2, <1>4, <1>10, ReturnPlace DEF Maps
  <2>2. /\ IsMap(done)' /\ \A j \in Caller \ {i} : done'[j] = done[j]
        /\ giving[i] => done'[i] = done[i] - 1
        /\ ~giving[i] => done'[i] = done[i] + 1
    BY <1>2, <1>10 DEF Did, Maps, IsMap
  <2>3. Maps' /\ \A j \in Caller \ {i} : Rests(j)
    BY <1>1, <1>2, <1>9, <2>1, <2>2 DEF Maps, IsMap, Rests
  <2>4. ~giving[i] => done[i] = 0 /\ done'[i] = 1
    BY <1>1, <1>2, <1>4, <1>9, <2>2 DEF OnceInv, LentInv, HeldInv
  <2>5. /\ OnceInv(i)' /\ LentInv(i)' /\ DevInv(i)'
    BY <1>1, <1>2, <1>4, <1>9, <2>1, <2>2, <2>4 DEF OnceInv, LentInv, DevInv
  <2>6. HeldInv(i)'
    <3> SUFFICES ASSUME use[i].kind = "held" PROVE HeldInv(i)'
      BY <1>9 DEF HeldInv
    <3>1. CASE giving[i]
      <4>1. pc'[i] = "over" /\ done'[i] \in {-1, 0}
        BY <1>2, <2>1, <2>2, <3>1
      <4>2. done[i] = 0 => SomeDetached
        BY <1>1, <1>4, <1>9, <1>10, <3>1 DEF HeldInv
      <4>3. done'[i] = -1 => SomeDetached'
        BY <1>1, <1>2, <2>2, <3>1, <4>2 DEF SomeDetached
      <4> QED
        BY <1>9, <3>1, <4>1, <4>3 DEF HeldInv
    <3>2. CASE ~giving[i]
      <4>1. Works(use[i].take)'
        BY <1>4, <1>8, <1>10, <3>2
      <4>2. pc'[i] = "working"
        BY <2>1, <3>2
      <4> QED
        BY <1>9, <2>4, <3>2, <4>1, <4>2 DEF HeldInv
    <3> QED
      BY <1>2, <3>1, <3>2
  <2>7. CallerInv(i)'
    BY <1>2, <1>9, <2>1, <2>2, <2>4, <2>5, <2>6 DEF CallerInv
  <2> QED
    BY <1>5, <2>3, <2>7, CallerMoves
<1>11. CASE Offered(e) /\ CanDecline(e) /\ Return(i, FALSE) /\ done' = done
  <2>1. /\ IsMap(pc)' /\ (\A j \in Caller \ {i} : pc'[j] = pc[j])
        /\ pc'[i] \in {"over", "irp"}
        /\ pc'[i] = "irp" <=> use[i].kind # "held"
    BY <1>2, <1>4, <1>11, ReturnPlace DEF Maps
  <2>2. Maps' /\ \A j \in Caller \ {i} : Rests(j)
    BY <1>1, <1>2, <1>9, <1>11, <2>1 DEF Maps, IsMap, Rests
  <2>3. OnceInv(i)' /\ LentInv(i)' /\ DevInv(i)'
    BY <1>1, <1>2, <1>4, <1>9, <1>11, <2>1 DEF OnceInv, LentInv, DevInv
  <2>4. use[i].kind = "held" => done[i] = 0
    BY <1>1, <1>2, <1>6, <1>9, <1>11 DEF HeldInv
  <2>5. HeldInv(i)'
    BY <1>4, <1>9, <1>11, <2>1, <2>4 DEF HeldInv
  <2>6. CallerInv(i)'
    BY <1>2, <1>9, <1>11, <2>1, <2>3, <2>5 DEF CallerInv
  <2> QED
    BY <1>5, <2>2, <2>6, CallerMoves
<1>12. CASE Offered(e) /\ ~Works(e) /\ ~CanDecline(e) /\ Return(i, TRUE) /\ done' = done
  <2>1. use[i].kind = "held" /\ done[i] = 0
    BY <1>1, <1>2, <1>4, <1>6, <1>7, <1>9, <1>12 DEF HeldInv
  <2>2. /\ IsMap(pc)' /\ (\A j \in Caller \ {i} : pc'[j] = pc[j])
        /\ pc'[i] \in {"working", "over"}
        /\ pc'[i] = "working" <=> ~giving[i]
    BY <1>2, <1>4, <1>12, <2>1, ReturnPlace DEF Maps
  <2>3. Maps' /\ \A j \in Caller \ {i} : Rests(j)
    BY <1>1, <1>2, <1>9, <1>12, <2>2 DEF Maps, IsMap, Rests
  <2>a. ~giving[i] => ~Works(use[i].give)'
    <3>1. ~giving[i] => ~Works(use[i].give)
      BY <1>2, <1>4, <1>12, <2>1, TakeWorks
    <3> QED
      BY <1>1, <1>9, <3>1 DEF Works, Offered, Table
  <2>4. OnceInv(i)' /\ LentInv(i)' /\ DevInv(i)' /\ HeldInv(i)'
    BY <1>1, <1>2, <1>9, <1>12, <2>1, <2>2, <2>a DEF OnceInv, LentInv, DevInv, HeldInv
  <2>5. CallerInv(i)'
    BY <1>2, <1>9, <1>12, <2>1, <2>2, <2>4 DEF CallerInv
  <2> QED
    BY <1>5, <2>3, <2>5, CallerMoves
<1>13. CASE ~Offered(e) /\ Return(i, e.answer) /\ done' = done
  <2>1. Maps' /\ (\A j \in Caller \ {i} : Rests(j)) /\ CallerInv(i)'
    BY <1>1, <1>13, TurnedAway DEF e
  <2> QED
    BY <1>5, <2>1, CallerMoves
<1> QED
  BY <1>3, <1>10, <1>11, <1>12, <1>13

\* The IRP is carried out, or denied where something was asked to be lent.
LEMMA SendIrpKeeps ==
  ASSUME FastIoInv, NEW i \in Caller, SendIrp(i)
  PROVE  FastIoInv'
<1>1. /\ UNCHANGED <<devVars, owner, use, giving, dev, wild>> /\ pc[i] = "irp"
      /\ life' = life /\ target' = target
  BY DEF SendIrp, devVars
<1>2. /\ CallerInv(i) /\ Maps /\ owner \in [Dev -> Caller \cup {Nobody}]
      /\ use[i] \in Use /\ giving[i] \in BOOLEAN /\ dev[i] \in Dev \cup {NoDev}
      /\ OnceInv(i) /\ LentInv(i) /\ use[i].kind \in {"once", "lent"}
  BY <1>1, UseFacts DEF FastIoInv, DeviceInv, CallerInv, DevInv, HeldInv
<1>3. WildInv' /\ UNCHANGED devVars /\ owner' \in [Dev -> Caller \cup {Nobody}]
  BY <1>1, <1>2 DEF FastIoInv, WildInv
<1>4. /\ use'[i] = use[i] /\ giving'[i] = giving[i] /\ dev'[i] = dev[i]
      /\ \A j \in Caller \ {i} : use'[j] = use[j] /\ giving'[j] = giving[j] /\ dev'[j] = dev[j]
  BY <1>1
<1>5. /\ giving[i] => use[i].kind = "lent" /\ done[i] = 1
      /\ ~giving[i] => done[i] = 0
  BY <1>1, <1>2 DEF OnceInv, LentInv
<1>6. CASE Did(i) /\ Goto(i, IF use[i].kind = "lent" /\ ~giving[i] THEN "working" ELSE "over")
  <2>1. /\ IsMap(done)' /\ \A j \in Caller \ {i} : done'[j] = done[j]
        /\ giving[i] => done'[i] = 0
        /\ ~giving[i] => done'[i] = 1
    BY <1>2, <1>5, <1>6 DEF Did, Maps, IsMap
  <2>2. /\ IsMap(pc)' /\ \A j \in Caller \ {i} : pc'[j] = pc[j]
        /\ pc'[i] \in {"working", "over"}
        /\ pc'[i] = "working" <=> use[i].kind = "lent" /\ ~giving[i]
    BY <1>2, <1>6 DEF Goto, Maps, IsMap
  <2>3. Maps' /\ \A j \in Caller \ {i} : Rests(j)
    BY <1>1, <1>2, <1>4, <2>1, <2>2 DEF Maps, IsMap, Rests
  <2>4. OnceInv(i)' /\ LentInv(i)' /\ DevInv(i)' /\ HeldInv(i)'
    BY <1>2, <1>4, <1>5, <2>1, <2>2 DEF OnceInv, LentInv, DevInv, HeldInv
  <2>5. CallerInv(i)'
    BY <1>2, <1>4, <1>5, <2>1, <2>2, <2>4 DEF CallerInv
  <2> QED
    BY <1>3, <2>3, <2>5, CallerMoves
<1>7. CASE use[i].kind = "lent" /\ ~giving[i] /\ Goto(i, "over") /\ done' = done
  <2>1. /\ IsMap(pc)' /\ pc'[i] = "over" /\ \A j \in Caller \ {i} : pc'[j] = pc[j]
    BY <1>2, <1>7 DEF Goto, Maps, IsMap
  <2>2. Maps' /\ \A j \in Caller \ {i} : Rests(j)
    BY <1>1, <1>2, <1>4, <1>7, <2>1 DEF Maps, IsMap, Rests
  <2>3. OnceInv(i)' /\ LentInv(i)' /\ DevInv(i)' /\ HeldInv(i)'
    BY <1>2, <1>4, <1>5, <1>7, <2>1 DEF OnceInv, LentInv, DevInv, HeldInv
  <2>4. CallerInv(i)'
    BY <1>2, <1>4, <1>5, <1>7, <2>1, <2>3 DEF CallerInv
  <2> QED
    BY <1>3, <2>2, <2>4, CallerMoves
<1> QED
  BY <1>6, <1>7 DEF SendIrp

\* The caller begins to give back what it has.
LEMMA FinishKeeps ==
  ASSUME FastIoInv, NEW i \in Caller, Finish(i)
  PROVE  FastIoInv'
<1>1. /\ UNCHANGED <<devVars, owner, use, dev, done, wild>> /\ pc[i] = "working"
      /\ life' = life /\ target' = target
      /\ giving' = [giving EXCEPT ![i] = TRUE] /\ pc' = [pc EXCEPT ![i] = "route"]
  BY DEF Finish, devVars, Goto
<1>2. /\ CallerInv(i) /\ Maps /\ owner \in [Dev -> Caller \cup {Nobody}]
      /\ use[i] \in Use /\ ~giving[i] /\ dev[i] \in Dev \cup {NoDev} /\ done[i] \in {0, 1}
      /\ OnceInv(i) /\ LentInv(i) /\ HeldInv(i)
  BY <1>1, UseFacts DEF FastIoInv, DeviceInv, CallerInv, DevInv, OnceInv, LentInv, HeldInv
<1>3. WildInv' /\ UNCHANGED devVars /\ owner' \in [Dev -> Caller \cup {Nobody}]
  BY <1>1, <1>2 DEF FastIoInv, WildInv
<1>4. /\ Maps' /\ (\A j \in Caller \ {i} : Rests(j))
      /\ pc'[i] = "route" /\ giving'[i] = TRUE
      /\ use'[i] = use[i] /\ dev'[i] = dev[i] /\ done'[i] = done[i]
  BY <1>1, <1>2 DEF Maps, IsMap, Rests
<1>5. OnceInv(i)' /\ LentInv(i)' /\ DevInv(i)'
  BY <1>1, <1>2, <1>4 DEF OnceInv, LentInv, DevInv
<1>6. HeldInv(i)'
  BY <1>1, <1>2, <1>4 DEF HeldInv, SomeDetached, Works, Offered, Table
<1>7. CallerInv(i)'
  BY <1>2, <1>4, <1>5, <1>6 DEF CallerInv
<1> QED
  BY <1>3, <1>4, <1>7, CallerMoves
----------------------------------------------------------------------------
(* The theorems *)

\* Nothing the invariant speaks about changes: the system stops.
LEMMA NothingMoves ==
  ASSUME FastIoInv, UNCHANGED <<devVars, owner, use, pc, giving, dev, done, wild>>
  PROVE  FastIoInv'
<1>1. DeviceInv'
  BY DEF devVars, FastIoInv, DeviceInv, StackInv
<1>2. Ages /\ target' = target
  BY DEF Ages, devVars
<1> QED
  BY <1>1, <1>2, CallersKeep DEF FastIoInv

\* Every step keeps the invariant.
LEMMA StepKeeps == FastIoInv /\ [Next]_vars => FastIoInv'
<1> SUFFICES ASSUME FastIoInv, [Next]_vars PROVE FastIoInv'
  OBVIOUS
<1>1. CASE Environment
  <2>1. ASSUME NEW i \in Caller, NEW u \in UsesOf(i), Start(i, u) PROVE FastIoInv'
    BY <2>1, StartKeeps
  <2> QED
    BY <1>1, <2>1, AttachKeeps, DeleteVolumeKeeps DEF Environment
<1>2. ASSUME NEW i \in Caller, CallStep(i) PROVE FastIoInv'
  <2>1. CASE TouchDeleted(i)
    BY <2>1, NothingMoves DEF TouchDeleted
  <2> QED
    BY <1>2, <2>1, RouteKeeps, EnterKeeps, LookKeeps, CallKeeps, SendIrpKeeps, FinishKeeps
       DEF CallStep
<1>3. CASE Detach \/ Delete
  BY <1>3, DetachDeviceKeeps, DeleteDeviceKeeps DEF Detach, Delete
<1>4. CASE UNCHANGED vars
  BY <1>4, NothingMoves DEF vars
<1> QED
  BY <1>1, <1>2, <1>3, <1>4 DEF Next

\* In every state of every behaviour the devices are in the order of their lives, and what the
\* file system has done for each caller is what the place of its call says: for any number of
\* callers and of devices, with any of the three tables.  A call that touches a deleted
\* extension (fastio.c:149-152) ends the behaviour: nothing is said of what follows it.
THEOREM Believed == Spec => []FastIoInv
<1> QED
  BY InitInv, StepKeeps, PTL DEF Spec

\* What the invariant says of a stack and of the table are the parts of TypeOK that are no types.
LEMMA Types == FastIoInv /\ StopInv => TypeOK
<1> SUFFICES ASSUME FastIoInv, StopInv PROVE TypeOK
  OBVIOUS
<1>1. DeviceInv /\ StackInv /\ Maps /\ WildInv /\ \A i \in Caller : CallerInv(i)
  BY DEF FastIoInv, DeviceInv
<1>2. ToSet(stack) = {d \in Dev : life[d] \in {"attached", "detached"}} /\ IsInjective(stack)
  <2>1. stack \in Seq(Dev) /\ DOMAIN stack = 1 .. Len(stack)
        /\ \A k \in 1 .. Len(stack) : stack[k] \in Dev
    BY <1>1 DEF StackInv
  <2>2. ToSet(stack) = {d \in Dev : life[d] \in {"attached", "detached"}}
    BY <1>1, <2>1 DEF ToSet, StackInv
  <2>3. IsInjective(stack)
    BY <1>1, <2>1 DEF IsInjective, StackInv
  <2> QED
    BY <2>2, <2>3
<1>3. \A i \in Caller :
        /\ use[i] \in Use /\ giving[i] \in BOOLEAN /\ done[i] \in -1 .. 2
        /\ pc[i] \in {"idle", "route", "enter", "looking", "calling", "irp", "working", "over"}
        /\ dev[i] \in Dev \cup {NoDev}
  BY <1>1 DEF CallerInv, DevInv
<1>4. /\ use \in [Caller -> Use] /\ giving \in [Caller -> BOOLEAN] /\ done \in [Caller -> -1 .. 2]
      /\ pc \in [Caller -> {"idle", "route", "enter", "looking", "calling", "irp", "working", "over"}]
      /\ dev \in [Caller -> Dev \cup {NoDev}]
  BY <1>1, <1>3 DEF Maps, IsMap
<1>5. wild \subseteq Member
  <2>1. /\ Lent(SFilterFastIoReadCompressed, SFilterFastIoMdlReadCompleteCompressed) \in Use
        /\ Lent(SFilterFastIoWriteCompressed, SFilterFastIoMdlWriteCompleteCompressed) \in Use
    BY DEF Use
  <2>2. {"FastIoReadCompressed", "FastIoWriteCompressed"} \subseteq Member
    BY <2>1 DEF Member, Lent, Entry, SFilterFastIoReadCompressed, SFilterFastIoWriteCompressed
  <2> QED
    BY <1>1, <2>2 DEF WildInv
<1>6. {dying, cut, stray, bugcheck} \subseteq BOOLEAN
  BY <1>1 DEF DeviceInv, StopInv
<1> QED
  BY <1>1, <1>2, <1>4, <1>5, <1>6 DEF TypeOK, DeviceInv

\* A read, write, query or control is carried out once, and a lock or an MDL is lent while
\* the caller works with it and returned when it is done, whether each of its two calls found
\* a device attached, detached, with its node type cleared, or none (fastio.c:155).  Calls that
\* use a deleted extension do not come to an end in the model.
THEOREM NobodyMisled == Spec => []DoneAsBelieved
<1>1. FastIoInv /\ StopInv => DoneAsBelieved
  <2> SUFFICES ASSUME FastIoInv, StopInv PROVE DoneAsBelieved
    OBVIOUS
  <2>1. CarriedOutOnce
    BY DEF FastIoInv, CallerInv, OnceInv, CarriedOutOnce
  <2>2. LentAsBelieved
    BY DEF FastIoInv, CallerInv, LentInv, LentAsBelieved
  <2> QED
    BY <2>1, <2>2, Types DEF DoneAsBelieved
<1>2. Init => StopInv
  BY DEF Init, StopInv
<1>3. StopInv /\ [Next]_vars => StopInv'
  BY DEF Next, Environment, Detach, Delete, CallStep, Running, TouchDeleted, vars, StopInv
<1> QED
  BY <1>1, <1>2, <1>3, Believed, PTL DEF Spec

\* A resource that was acquired for a section, the modified page writer or a flush is lost
\* only with the device that its release was routed to (fastio.c:812), and one that was not
\* acquired is released only where a device had been detached (fastio.c:758).
THEOREM LostWithDevice == Spec => []ReleasedUnlessDetached
<1>1. FastIoInv => ReleasedUnlessDetached
  <2> SUFFICES ASSUME FastIoInv, NEW i \in Caller
               PROVE  /\ Lost(i) => dev[i] # NoDev /\ life[dev[i]] \in {"detached", "gone"}
                      /\ Unowned(i) => SomeDetached
    BY DEF ReleasedUnlessDetached, SomeDetached
  <2>1. CallerInv(i) /\ done[i] \in {-1, 0, 1}
    BY DEF FastIoInv, CallerInv
  <2>2. ASSUME Lost(i) PROVE dev[i] \in Dev /\ life[dev[i]] \in {"detached", "gone"}
    BY <2>1, <2>2 DEF CallerInv, HeldInv, Lost
  <2>3. ASSUME Unowned(i) PROVE SomeDetached
    BY <2>1, <2>3 DEF CallerInv, HeldInv, Unowned
  <2> QED
    BY <2>2, <2>3, CallerAssumption
<1> QED
  BY <1>1, Believed, PTL

\* Only the routines for compressed transfers read a table beyond its end (fastio.c:909).
THEOREM WithinTable == Spec => []ReadsWithinTable
<1>1. FastIoInv => ReadsWithinTable
  BY DEF FastIoInv, WildInv, ReadsWithinTable
<1> QED
  BY <1>1, Believed, PTL
=============================================================================
