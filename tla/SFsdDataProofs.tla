--------------------------- MODULE SFsdDataProofs ---------------------------
(***************************************************************************)
(* Theorems about what the requests of the sample FSD share: the file's    *)
(* sizes, the volume's opens and their count, the search patterns, the     *)
(* lazy writer's thread.  All rest on what SFsdProofs shows a thread holds *)
(* at each place of its routine.                                           *)
(***************************************************************************)
EXTENDS SFsdProofs, FiniteSetTheorems

----------------------------------------------------------------------------
(* Invariants *)

DataTypes ==
  /\ size \in [file : 0..MaxSize, valid : 0..MaxSize, allocation : 0..MaxSize]
  /\ cached \in BOOLEAN /\ ccb \subseteq CcbFlag
  /\ notify \subseteq Irp /\ panic \in BOOLEAN

Opening == {i \in Irp : pc[i] = "opening"}

\* The open that is in the list and not yet counted is the one whose thread has the volume.
OpenInv ==
  /\ IsFiniteSet(opens) /\ openCount \in Nat
  /\ \A i \in opens : i \in Irp /\ pc[i] \in {"opening", "away"}
  /\ Opening \subseteq opens
  /\ Cardinality(opens) = IF Opening = {} THEN openCount ELSE openCount + 1

\* Whoever is about to store a pattern still finds none.
PatternInv ==
  /\ patterns \in [Stream -> {0, 1}]
  /\ \A i \in Irp : pc[i] = "storing" => patterns[op[i].target] = 0

\* The thread that is noted is the one that works.
LazyInv ==
  lazyWriter = {i \in Irp : IsLazyWrite(i) /\ pc[i] = "held"}
----------------------------------------------------------------------------
(* Which steps touch them *)

\* A step of request i that touches none of the volume's data and no label with a claim on it.
Quiet(i) ==
  /\ UNCHANGED <<opens, openCount, patterns, lazyWriter>>
  /\ pc[i] \notin {"opening", "storing"} /\ pc'[i] \notin {"opening", "storing"}
  /\ pc[i] = "away" => pc'[i] = "away"
  /\ ~(IsLazyWrite(i) /\ pc[i] = "held") /\ ~(IsLazyWrite(i)' /\ pc'[i] = "held")

Opens(i) ==
  /\ IsCreate(i) /\ pc[i] = "held" /\ pc' = [pc EXCEPT ![i] = "opening"]
  /\ opens' = opens \cup {i}
  /\ UNCHANGED <<op, openCount, patterns, lazyWriter>>

Counts(i) ==
  /\ pc[i] = "opening" /\ pc' = [pc EXCEPT ![i] = "away"]
  /\ openCount' = openCount + 1
  /\ UNCHANGED <<op, opens, patterns, lazyWriter>>

Misses(i) ==
  /\ IsLookup(i) /\ pc[i] = "held" /\ pc' = [pc EXCEPT ![i] = "storing"]
  /\ patterns[op[i].target] = 0
  /\ UNCHANGED <<op, opens, openCount, patterns, lazyWriter>>

Stores(i) ==
  /\ pc[i] = "storing" /\ pc' = [pc EXCEPT ![i] = "away"]
  /\ patterns' = [patterns EXCEPT ![op[i].target] = @ + 1]
  /\ UNCHANGED <<op, opens, openCount, lazyWriter>>

Notes(i) ==
  /\ IsLazyWrite(i) /\ pc[i] = "taken" /\ pc' = [pc EXCEPT ![i] = "held"]
  /\ lazyWriter' = {i}
  /\ UNCHANGED <<op, opens, openCount, patterns>>

Forgets(i) ==
  /\ IsLazyWrite(i) /\ pc[i] = "held" /\ pc' = [pc EXCEPT ![i] = "releasing"]
  /\ lazyWriter' = {}
  /\ UNCHANGED <<op, opens, openCount, patterns>>

DataStep(i) ==
  Quiet(i) \/ Opens(i) \/ Counts(i) \/ Misses(i) \/ Stores(i) \/ Notes(i) \/ Forgets(i)

\* The steps of a request that is no call-back keep it one.
LEMMA NoLazyWrite ==
  ASSUME NEW i \in Irp, ~IsCallback(i), op' = op
  PROVE  ~IsLazyWrite(i) /\ ~IsLazyWrite(i)'
  BY KindFacts DEF IsCallback, IsLazyWrite, CallbackMajor

LEMMA ReadWriteQuiet ==
  ASSUME Maps, NEW i \in Irp, ReqInv(i), ReadWriteStep(i), UNCHANGED <<volVars, lazyWriter>>
  PROVE  Quiet(i)
<1>1. ASSUME NEW label \in {"away", "queued", "held", "checked"}, pc' = [pc EXCEPT ![i] = label],
             pc[i] \in {"start", "held", "checked"}, op' = op, ~IsCallback(i)
      PROVE  Quiet(i)
  <2>1. pc'[i] = label
    BY <1>1 DEF Maps, IsMap
  <2> QED
    BY <1>1, <2>1, NoLazyWrite DEF Quiet, volVars
<1>2. ASSUME IsRead(i) \/ IsWrite(i), pc[i] \in {"start", "held", "checked"},
             \/ \E s, kept : Complete(i, s, kept)
             \/ \E b : PostRequest(i, b)
             \/ \E who, kept : ReturnWith(i, who, kept)
             \/ \E r, mode : Acquire(i, r, mode, "held")
             \/ pc' = [pc EXCEPT ![i] = "checked"] /\ op' = op
      PROVE  Quiet(i)
  <2>1. ~IsCallback(i)
    BY <1>2, KindFacts
  <2> QED
    BY <1>1, <1>2, <2>1 DEF Complete, PostRequest, ReturnWith, Acquire
<1>3. CASE ReadUnlocked(i) \/ ReadAcquire(i) \/ ReadCheck(i)
  BY <1>2, <1>3 DEF ReadUnlocked, ReadAcquire, ReadCheck, Fail, Succeed, PostRead
<1>4. CASE ReadCached(i) \/ ReadRaises(i) \/ ReadNonCached(i)
  BY <1>2, <1>4 DEF ReadCached, ReadRaises, ReadNonCached, Raise, PostRead
<1>5. CASE WriteUnlocked(i) \/ WriteAcquire(i) \/ WriteVolume(i)
  BY <1>2, <1>5 DEF WriteUnlocked, WriteAcquire, WriteVolume, Fail, Succeed, PostWrite
<1>6. CASE WriteCached(i) \/ WriteRaises(i) \/ WriteNonCached(i)
  BY <1>2, <1>6 DEF WriteCached, WriteRaises, WriteNonCached, Raise, Fail, PostWrite
<1>7. CASE DeferredWriteCallBack(i)
  <2>1. irp[i] = "cache" /\ pc' = pc /\ op' = op
    BY <1>7 DEF DeferredWriteCallBack
  <2>2. pc[i] = "away"
    BY <2>1, KindFacts DEF ReqInv, LabelInv, IrpInv, AtWork, Inside, Reaches
  <2> QED
    BY <2>1, <2>2 DEF Quiet, volVars
<1> QED
  BY <1>3, <1>4, <1>5, <1>6, <1>7 DEF ReadWriteStep

LEMMA FileInfoQuiet ==
  ASSUME Maps, NEW i \in Irp, ReqInv(i), FileInfoStep(i), ~SetNamesEntry(i),
         UNCHANGED <<volVars, lazyWriter>>
  PROVE  Quiet(i)
<1>1. IsQuery(i) \/ IsSet(i)
  BY DEF FileInfoStep, InfoOnVolume, QueryAcquire, Query, SetAcquire, SetAcquirePaging,
         SetAllocation, SetBasic, SetOther, ReqInv, LabelInv, Reaches
<1>2. ~IsCallback(i)
  BY <1>1, KindFacts
<1>3. ASSUME NEW label \in {"away", "queued", "held", "paging"}, pc' = [pc EXCEPT ![i] = label],
             pc[i] \in {"start", "held", "paging"}, op' = op
      PROVE  Quiet(i)
  <2>1. pc'[i] = label
    BY <1>3 DEF Maps, IsMap
  <2> QED
    BY <1>2, <1>3, <2>1, NoLazyWrite DEF Quiet, volVars
<1>4. ASSUME pc[i] \in {"start", "held", "paging"},
             \/ \E s, kept : Complete(i, s, kept)
             \/ \E b : PostRequest(i, b)
             \/ \E r, mode : \E label \in {"held", "paging"} : Acquire(i, r, mode, label)
             \/ pc' = [pc EXCEPT ![i] = "paging"] /\ op' = op
      PROVE  Quiet(i)
  BY <1>3, <1>4 DEF Complete, PostRequest, Acquire
<1>5. CASE InfoOnVolume(i) \/ QueryAcquire(i) \/ Query(i)
  BY <1>4, <1>5 DEF InfoOnVolume, QueryAcquire, Query, EndInfo, PostInfo
<1>6. CASE SetAcquire(i) \/ SetAcquirePaging(i)
  BY <1>4, <1>6 DEF SetAcquire, SetAcquirePaging, PostInfo
<1>7. CASE SetAllocation(i) \/ SetBasic(i) \/ SetOther(i)
  BY <1>4, <1>7 DEF SetAllocation, SetBasic, SetOther, EndInfo
<1> QED
  BY <1>5, <1>6, <1>7 DEF FileInfoStep

LEMMA HandleData ==
  ASSUME Maps, NEW i \in Irp, ReqInv(i), HandleStep(i), UNCHANGED lazyWriter
  PROVE  DataStep(i)
<1>1. ASSUME NEW label \in {"away", "queued", "held", "looping"}, pc' = [pc EXCEPT ![i] = label],
             pc[i] \in {"start", "held"}, op' = op, ~IsCallback(i), UNCHANGED volVars
      PROVE  Quiet(i)
  <2>1. pc'[i] = label
    BY <1>1 DEF Maps, IsMap
  <2> QED
    BY <1>1, <2>1, NoLazyWrite DEF Quiet, volVars
<1>2. ASSUME IsCreate(i), pc[i] \in {"start", "held"}, UNCHANGED volVars,
             \/ \E s : EndCreate(i, s)
             \/ \E b : PostRequest(i, b)
             \/ \E r, mode : Acquire(i, r, mode, "held")
             \/ pc' = [pc EXCEPT ![i] = "looping"] /\ op' = op
             \/ pc' = [pc EXCEPT ![i] = "away"] /\ op' = op
      PROVE  Quiet(i)
  <2>1. ~IsCallback(i)
    BY <1>2, KindFacts
  <2> QED
    BY <1>1, <1>2, <2>1 DEF EndCreate, Complete, PostRequest, Acquire
<1>3. CASE OpenDriver(i) \/ CreateUnlocked(i) \/ CreateAcquire(i) \/ CreateStream(i)
  BY <1>2, <1>3 DEF OpenDriver, CreateUnlocked, CreateAcquire, CreateStream, volVars, DataStep
<1>4. CASE CreateVolume(i)
  BY <1>2, <1>4 DEF CreateVolume, DataStep, Opens
<1>5. CASE CountOpen(i)
  BY <1>5 DEF CountOpen, EndCreate, Complete, DataStep, Counts
<1>6. CASE Cleanup(i) \/ Close(i) \/ Shutdown(i)
  <2>1. ~IsCallback(i)
    BY <1>6 DEF Cleanup, Close, Shutdown, IsCallback, CallbackMajor
  <2> QED
    BY <1>1, <1>6, <2>1 DEF Cleanup, Close, Shutdown, Abandon, ReturnWith, DataStep
<1> QED
  BY <1>3, <1>4, <1>5, <1>6 DEF HandleStep

LEMMA ForwardQuiet ==
  ASSUME Maps, NEW i \in Irp, ReqInv(i), ForwardStep(i), UNCHANGED lazyWriter
  PROVE  Quiet(i)
<1>1. op' = op /\ UNCHANGED volVars
  BY DEF ForwardStep, FlushPost, FlushAcquire, FlushVolume, DeviceControl, SendDown,
         ReleaseContext, LowerCompletes, PostRequest, Acquire
<1>2. CASE LowerCompletes(i)
  <2>1. irp[i] = "lower" /\ pc' = pc
    BY <1>2 DEF LowerCompletes
  <2>2. pc[i] \in {"sent", "away"}
    BY <2>1, KindFacts DEF ReqInv, LabelInv, IrpInv, AtWork, Inside, Reaches
  <2> QED
    BY <1>1, <2>1, <2>2 DEF Quiet, volVars, IsLazyWrite
<1>3. CASE FlushPost(i) \/ FlushAcquire(i) \/ FlushVolume(i) \/ DeviceControl(i) \/ ReleaseContext(i)
  <2>1. IsFlush(i) \/ IsIoctl(i)
    BY <1>3 DEF FlushPost, FlushAcquire, FlushVolume, DeviceControl, ReleaseContext, ReqInv,
                LabelInv, Reaches
  <2>2. ~IsCallback(i)
    BY <2>1, KindFacts
  <2>3. PICK label \in {"away", "queued", "held", "sent"} : pc' = [pc EXCEPT ![i] = label]
    BY <1>3 DEF FlushPost, FlushAcquire, FlushVolume, DeviceControl, ReleaseContext, SendDown,
                PostRequest, Acquire
  <2>4. pc[i] \in {"start", "held", "sent"}
    BY <1>3 DEF FlushPost, FlushAcquire, FlushVolume, DeviceControl, ReleaseContext
  <2>5. pc'[i] = label
    BY <2>3 DEF Maps, IsMap
  <2> QED
    BY <1>1, <2>2, <2>4, <2>5, NoLazyWrite DEF Quiet, volVars
<1> QED
  BY <1>2, <1>3 DEF ForwardStep

LEMMA DirectoryData ==
  ASSUME Maps, NEW i \in Irp, ReqInv(i), DirectoryStep(i), UNCHANGED lazyWriter
  PROVE  DataStep(i)
<1>1. ASSUME IsDirectory(i), pc[i] \in {"start", "held"}, UNCHANGED <<opens, openCount, patterns>>,
             \/ \E s, kept : Complete(i, s, kept)
             \/ \E b : PostRequest(i, b)
             \/ \E r, mode : Acquire(i, r, mode, "held")
             \/ pc' = [pc EXCEPT ![i] = "away"] /\ op' = op
      PROVE  Quiet(i)
  <2>1. ~IsCallback(i) /\ op' = op
    BY <1>1, KindFacts DEF Complete, PostRequest, Acquire
  <2>2. PICK label \in {"away", "queued", "held"} : pc' = [pc EXCEPT ![i] = label]
    BY <1>1 DEF Complete, PostRequest, Acquire
  <2>3. pc'[i] = label
    BY <2>2 DEF Maps, IsMap
  <2> QED
    BY <1>1, <2>1, <2>3, NoLazyWrite DEF Quiet
<1>2. CASE UnknownMinor(i) \/ LookupPost(i) \/ LookupAcquire(i) \/ NotifyAcquire(i)
  BY <1>1, <1>2
     DEF UnknownMinor, LookupPost, LookupAcquire, NotifyAcquire, IsLookup, IsNotify, volVars, DataStep
<1>3. CASE Lookup(i)
  <2>1. CASE Complete(i, LookupStatus(i), {})
    BY <1>1, <1>3, <2>1 DEF Lookup, IsLookup, volVars, DataStep
  <2>2. CASE patterns[op[i].target] = 0 /\ pc' = [pc EXCEPT ![i] = "storing"] /\ op' = op
    BY <1>3, <2>2 DEF Lookup, volVars, DataStep, Misses
  <2> QED
    BY <1>3, <2>1, <2>2 DEF Lookup
<1>4. CASE StorePattern(i)
  BY <1>4 DEF StorePattern, Complete, DataStep, Stores
<1>5. CASE NotifyChange(i)
  <2>1. CASE op[i].target = "directory"
    <3>1. pc' = [pc EXCEPT ![i] = "away"] /\ op' = op
      BY <1>5, <2>1 DEF NotifyChange
    <3> QED
      BY <1>1, <1>5, <3>1 DEF NotifyChange, IsNotify, DataStep
  <2>2. CASE op[i].target # "directory"
    <3>1. Complete(i, "pending", {})
      BY <1>5, <2>2 DEF NotifyChange
    <3> QED
      BY <1>1, <1>5, <3>1 DEF NotifyChange, IsNotify, DataStep
  <2> QED
    BY <2>1, <2>2
<1> QED
  BY <1>2, <1>3, <1>4, <1>5 DEF DirectoryStep

LEMMA CallbackData ==
  ASSUME Maps, NEW i \in Irp, ReqInv(i), CallbackStep(i)
  PROVE  DataStep(i)
<1>1. ASSUME NEW label, pc' = [pc EXCEPT ![i] = label], op' = op,
             UNCHANGED <<volVars, lazyWriter>>, pc[i] \in {"start", "taken", "held", "releasing"},
             label \in {"taken", "held", "releasing", "away"},
             ~(IsLazyWrite(i) /\ (pc[i] = "held" \/ label = "held"))
      PROVE  DataStep(i)
  <2>1. pc'[i] = label
    BY <1>1 DEF Maps, IsMap
  <2>2. IsLazyWrite(i)' = IsLazyWrite(i)
    BY <1>1 DEF IsLazyWrite
  <2> QED
    BY <1>1, <2>1, <2>2 DEF Quiet, volVars, DataStep
<1>2. CASE AcqCreateSec(i) \/ RelCreateSec(i)
  <2>1. ~IsLazyWrite(i)
    BY <1>2, KindFacts DEF AcqCreateSec, RelCreateSec
  <2> QED
    BY <1>1, <1>2, <2>1 DEF AcqCreateSec, RelCreateSec, Acquire, Release
<1>3. CASE AcqReadAhead(i) \/ RelReadAhead(i)
  <2>1. ~IsLazyWrite(i)
    BY <1>3, KindFacts DEF AcqReadAhead, RelReadAhead
  <2> QED
    BY <1>1, <1>3, <2>1 DEF AcqReadAhead, RelReadAhead, AcquireMain, GoTo, Acquire, Release
<1>4. CASE AcqLazyWrite(i)
  <2>1. CASE pc[i] = "start" /\ AcquireMain(i, "exclusive", "taken") /\ UNCHANGED lazyWriter
    BY <1>1, <2>1 DEF AcquireMain, GoTo, Acquire
  <2>2. CASE pc[i] = "taken" /\ lazyWriter' = {i} /\ GoTo(i, "held")
    BY <1>4, <2>2 DEF AcqLazyWrite, GoTo, volVars, DataStep, Notes
  <2> QED
    BY <1>4, <2>1, <2>2 DEF AcqLazyWrite
<1>5. CASE RelLazyWrite(i)
  <2>1. CASE pc[i] = "held" /\ lazyWriter' = {} /\ GoTo(i, "releasing")
    BY <1>5, <2>1 DEF RelLazyWrite, GoTo, volVars, DataStep, Forgets
  <2>2. CASE pc[i] = "releasing" /\ Release(i, Main(i), "away") /\ UNCHANGED lazyWriter
    BY <1>1, <2>2 DEF Release
  <2> QED
    BY <1>5, <2>1, <2>2 DEF RelLazyWrite
<1> QED
  BY <1>2, <1>3, <1>4, <1>5 DEF CallbackStep

\* Arrivals, workers, cancellations and crashes.
LEMMA OtherQuiet ==
  ASSUME Maps, NEW i \in Irp, ReqInv(i), NotifyInv, UNCHANGED <<opens, openCount, patterns, lazyWriter>>,
         \/ Dispatch(i) \/ Call(i) \/ CommonDispatch(i) \/ CancelNotify(i)
         \/ MissingCcb(i) \/ SetNamesEntry(i) \/ FlushStream(i) \/ VolumeAsDirectory(i)
  PROVE  Quiet(i)
<1>1. CASE Dispatch(i) \/ Call(i)
  <2>1. pc[i] = "unsent" /\ pc' = [pc EXCEPT ![i] = "start"]
    BY <1>1 DEF Dispatch, Call
  <2> QED
    BY <2>1 DEF Quiet, Maps, IsMap
<1>2. CASE CommonDispatch(i)
  <2>1. pc[i] = "queued" /\ (pc' = [pc EXCEPT ![i] = "start"] \/ pc' = [pc EXCEPT ![i] = "away"])
    BY <1>2 DEF CommonDispatch
  <2> QED
    BY <2>1 DEF Quiet, Maps, IsMap
<1>3. CASE CancelNotify(i)
  <2>1. pc' = pc /\ i \in notify
    BY <1>3 DEF CancelNotify
  <2> QED
    BY <2>1 DEF NotifyInv, Quiet
<1>4. CASE MissingCcb(i) \/ SetNamesEntry(i) \/ FlushStream(i) \/ VolumeAsDirectory(i)
  <2>1. ~IsLazyWrite(i)
    BY <1>4, KindFacts DEF MissingCcb, TakesCcb, IsCallback, SetNamesEntry, FlushStream, VolumeAsDirectory, IsLookup,
           IsNotify
  <2>2. pc' = pc /\ op' = op /\ pc[i] \in {"start", "held"}
    BY <1>4 DEF MissingCcb, SetNamesEntry, FlushStream, VolumeAsDirectory, Crash
  <2> QED
    BY <2>1, <2>2 DEF Quiet, IsLazyWrite
<1> QED
  BY <1>1, <1>2, <1>3, <1>4

LEMMA DataStepFacts ==
  ASSUME ControlInv, NEW i \in Irp, StepOf(i)
  PROVE  DataStep(i)
<1>0. Maps /\ ReqInv(i) /\ NotifyInv
  BY DEF ControlInv
<1>1. CASE Running /\ UNCHANGED <<volVars, lazyWriter>> /\ Dispatch(i)
  BY <1>0, <1>1, OtherQuiet DEF volVars, DataStep
<1>2. CASE Running /\ Call(i)
  BY <1>0, <1>2, OtherQuiet DEF Call, volVars, DataStep
<1>3. CASE Running /\ UNCHANGED lazyWriter /\ CancelNotify(i)
  BY <1>0, <1>3, OtherQuiet DEF CancelNotify, DataStep
<1>4. CASE Running /\ UNCHANGED <<volVars, lazyWriter>> /\ ReadWriteStep(i)
  BY <1>0, <1>4, ReadWriteQuiet DEF DataStep
<1>5. CASE Running /\ UNCHANGED <<volVars, lazyWriter>> /\ FileInfoStep(i)
  <2>1. ~SetNamesEntry(i)
    BY <1>5 DEF Running, SetNamesEntry, Crash
  <2> QED
    BY <1>0, <1>5, <2>1, FileInfoQuiet DEF DataStep
<1>6. CASE Running /\ UNCHANGED <<volVars, lazyWriter>> /\ CommonDispatch(i)
  BY <1>0, <1>6, OtherQuiet DEF volVars, DataStep
<1>7. CASE Running /\ UNCHANGED lazyWriter /\ (HandleStep(i) \/ ForwardStep(i) \/ DirectoryStep(i))
  BY <1>0, <1>7, HandleData, ForwardQuiet, DirectoryData DEF DataStep
<1>8. CASE Running /\ CallbackStep(i)
  BY <1>0, <1>8, CallbackData
<1>9. CASE ~panic /\ UNCHANGED lazyWriter /\ (MissingCcb(i) \/ SetNamesEntry(i) \/ FlushStream(i) \/ VolumeAsDirectory(i))
  <2>1. UNCHANGED <<opens, openCount, patterns>>
    BY <1>9 DEF MissingCcb, SetNamesEntry, FlushStream, VolumeAsDirectory, Crash, volVars
  <2> QED
    BY <1>0, <1>9, <2>1, OtherQuiet DEF DataStep
<1> QED
  BY <1>1, <1>2, <1>3, <1>4, <1>5, <1>6, <1>7, <1>8, <1>9 DEF StepOf, RequestStep
----------------------------------------------------------------------------
(* What they are protected by *)

LEMMA Protected ==
  ASSUME ControlInv, NEW i \in Irp
  PROVE  /\ pc[i] = "opening" \/ (IsCreate(i) /\ pc[i] = "held") =>
              Vcb \in Resource /\ hold[i][Vcb] = "exclusive"
         /\ pc[i] = "storing" \/ (IsLookup(i) /\ pc[i] = "held") =>
              /\ IsLookup(i) /\ op[i].target \in Stream
              /\ Main(i) \in Resource /\ hold[i][Main(i)] = "exclusive"
         /\ IsLazyWrite(i) /\ pc[i] \in {"taken", "held"} =>
              /\ op[i].target = "file"
              /\ Main(i) \in Resource /\ hold[i][Main(i)] = "exclusive"
<1>1. HoldInv(i) /\ LabelInv(i)
  BY DEF ControlInv, ReqInv
<1>2. pc[i] \in Inside \cup {"taken"} /\ ~IsSet(i) =>
        Own(i) \in Resource /\ hold[i][Own(i)] = OwnMode(i)
  BY <1>1 DEF HoldInv, Owns
<1>3. CASE pc[i] = "opening" \/ (IsCreate(i) /\ pc[i] = "held")
  <2>1. IsCreate(i)
    BY <1>1, <1>3 DEF LabelInv, Reaches
  <2> QED
    BY <1>2, <1>3, <2>1, OwnFacts, KindFacts
       DEF Inside, IsLookup, IsDirectory, IsCreate, IsLazyWrite
<1>4. CASE pc[i] = "storing" \/ (IsLookup(i) /\ pc[i] = "held")
  <2>1. IsLookup(i) /\ op[i].target \in Stream
    BY <1>1, <1>4 DEF LabelInv, Reaches, IsLookup
  <2> QED
    BY <1>2, <1>4, <2>1, OwnFacts, KindFacts
       DEF Inside, IsLookup, IsDirectory, IsCreate, IsLazyWrite
<1>5. CASE IsLazyWrite(i) /\ pc[i] \in {"taken", "held"}
  <2>1. op[i].target = "file"
    BY <1>1, <1>5, SentAssumption DEF LabelInv, IsLazyWrite, CallbackMajor
  <2> QED
    BY <1>2, <1>5, <2>1, OwnFacts, KindFacts
       DEF Inside, IsLookup, IsDirectory, IsCreate, IsLazyWrite
<1> QED
  BY <1>3, <1>4, <1>5

\* Two threads that hold a resource exclusively are one.
LEMMA Alone ==
  ASSUME ControlInv, NEW i \in Irp, NEW j \in Irp, NEW r \in Resource,
         hold[i][r] = "exclusive", hold[j][r] # "none"
  PROVE  i = j
  BY DEF ControlInv, Exclusion
----------------------------------------------------------------------------
(* The volume's opens *)

LEMMA InitOpens == Init => OpenInv
<1> SUFFICES ASSUME Init
             PROVE  OpenInv
  OBVIOUS
<1>1. opens = {} /\ openCount = 0 /\ Opening = {}
  BY DEF Init, Opening
<1> QED
  BY <1>1, FS_EmptySet DEF OpenInv

LEMMA StepOpens ==
  ASSUME ControlInv, OpenInv, [Next]_vars
  PROVE  OpenInv'
<1>1. CASE Next
  <2>1. PICK i \in Irp : ReqStep(i) /\ DataStep(i)
    BY <1>1, StepOfOne, DataStepFacts
  <2>2. \A j \in Irp \ {i} : pc'[j] = pc[j]
    BY <2>1 DEF ReqStep, Others
  <2>3. IsMap(pc)
    BY DEF ControlInv, Maps
  <2>4. CASE Quiet(i)
    <3>1. opens' = opens /\ openCount' = openCount /\ Opening' = Opening
      BY <2>2, <2>4 DEF Quiet, Opening
    <3>2. \A j \in opens : j \in Irp /\ pc'[j] \in {"opening", "away"}
      BY <2>2, <2>4 DEF Quiet, OpenInv
    <3> QED
      BY <3>1, <3>2 DEF OpenInv
  <2>5. CASE Opens(i)
    <3>1. Opening = {}
      BY <2>5, Protected, Alone DEF Opens, Opening
    <3>2. pc'[i] = "opening" /\ opens' = opens \cup {i} /\ openCount' = openCount /\ i \notin opens
      BY <2>3, <2>5 DEF Opens, OpenInv, IsMap
    <3>3. Opening' = {i}
      BY <2>2, <3>1, <3>2 DEF Opening
    <3>4. IsFiniteSet(opens') /\ Cardinality(opens') = openCount + 1
      BY <3>1, <3>2, FS_AddElement DEF OpenInv
    <3>5. \A j \in opens' : j \in Irp /\ pc'[j] \in {"opening", "away"}
      BY <2>2, <3>2 DEF OpenInv
    <3> QED
      BY <3>2, <3>3, <3>4, <3>5 DEF OpenInv
  <2>6. CASE Counts(i)
    <3>1. Opening = {i}
      BY <2>6, Protected, Alone DEF Counts, Opening
    <3>2. pc'[i] = "away" /\ opens' = opens /\ openCount' = openCount + 1
      BY <2>3, <2>6 DEF Counts, IsMap
    <3>3. Opening' = {}
      BY <2>2, <3>1, <3>2 DEF Opening
    <3>4. \A j \in opens' : j \in Irp /\ pc'[j] \in {"opening", "away"}
      BY <2>2, <3>2 DEF OpenInv
    <3> QED
      BY <3>1, <3>2, <3>3, <3>4 DEF OpenInv
  <2>7. CASE Misses(i) \/ Stores(i) \/ Notes(i) \/ Forgets(i)
    <3>1. /\ opens' = opens /\ openCount' = openCount
          /\ pc[i] \notin {"opening", "away"} /\ pc'[i] # "opening"
      BY <2>3, <2>7 DEF Misses, Stores, Notes, Forgets, IsMap
    <3>2. Opening' = Opening
      BY <2>2, <3>1 DEF Opening
    <3>3. \A j \in opens' : j \in Irp /\ pc'[j] \in {"opening", "away"}
      BY <2>2, <3>1 DEF OpenInv
    <3> QED
      BY <3>1, <3>2, <3>3 DEF OpenInv
  <2> QED
    BY <2>1, <2>4, <2>5, <2>6, <2>7 DEF DataStep
<1>2. CASE UNCHANGED vars
  BY <1>2 DEF vars, reqVars, volVars, OpenInv, Opening
<1> QED
  BY <1>1, <1>2

\* create.c: whoever holds the volume's resource, and is not the open in progress itself,
\* finds as many opens in the list as VCBOpenCount says.
THEOREM OpensCounted == Spec => []OpenCountConsistent
<1>1. Init => OpenInv
  BY InitOpens
<1>2. ControlInv /\ OpenInv /\ [Next]_vars => OpenInv'
  BY StepOpens
<1>3. ASSUME ControlInv, OpenInv
      PROVE  OpenCountConsistent
  <2> SUFFICES ASSUME NEW i \in Irp, hold[i][Vcb] # "none", pc[i] # "opening"
               PROVE  openCount = Cardinality(opens)
    BY DEF OpenCountConsistent
  <2>1. Opening = {}
    BY <1>3, Protected, Alone DEF Opening
  <2> QED
    BY <1>3, <2>1 DEF OpenInv
<1> QED
  BY <1>1, <1>2, <1>3, Controlled, PTL DEF Spec
----------------------------------------------------------------------------
(* Search patterns *)

LEMMA InitPatterns == Init => PatternInv
  BY DEF Init, PatternInv

LEMMA StepPatterns ==
  ASSUME ControlInv, PatternInv, [Next]_vars
  PROVE  PatternInv'
<1>1. CASE Next
  <2>1. PICK i \in Irp : ReqStep(i) /\ DataStep(i)
    BY <1>1, StepOfOne, DataStepFacts
  <2>2. \A j \in Irp \ {i} : pc'[j] = pc[j] /\ op'[j] = op[j]
    BY <2>1 DEF ReqStep, Others
  <2>3. IsMap(pc)
    BY DEF ControlInv, Maps
  <2>4. CASE Quiet(i) \/ Opens(i) \/ Counts(i) \/ Notes(i) \/ Forgets(i)
    <3>1. patterns' = patterns /\ pc'[i] # "storing"
      BY <2>3, <2>4 DEF Quiet, Opens, Counts, Notes, Forgets, IsMap
    <3> QED
      BY <2>2, <3>1 DEF PatternInv
  <2>5. CASE Misses(i)
    BY <2>2, <2>5 DEF Misses, PatternInv
  <2>6. CASE Stores(i)
    <3>1. op[i].target \in Stream /\ patterns[op[i].target] = 0
      BY <2>6, Protected DEF Stores, PatternInv
    <3>2. /\ patterns' \in [Stream -> {0, 1}]
          /\ \A s \in Stream : s # op[i].target => patterns'[s] = patterns[s]
      BY <2>6, <3>1 DEF Stores, PatternInv
    <3>3. pc'[i] = "away"
      BY <2>3, <2>6 DEF Stores, IsMap
    <3>4. ASSUME NEW j \in Irp, j # i, pc[j] = "storing"
          PROVE  op[j].target \in Stream /\ op[j].target # op[i].target
      <4>1. /\ Main(i) \in Resource /\ hold[i][Main(i)] = "exclusive"
            /\ hold[j][Main(j)] = "exclusive" /\ op[j].target \in Stream
        BY <2>6, <3>4, Protected DEF Stores
      <4>2. op[j].target = op[i].target => Main(j) = Main(i)
        BY DEF Main
      <4> QED
        BY <3>4, <4>1, <4>2, Alone
    <3>5. ASSUME NEW j \in Irp, pc'[j] = "storing"
          PROVE  patterns'[op'[j].target] = 0
      <4>1. j # i /\ pc[j] = "storing" /\ op'[j] = op[j]
        BY <2>2, <3>3, <3>5
      <4> QED
        BY <3>2, <3>4, <4>1 DEF PatternInv
    <3> QED
      BY <3>2, <3>5 DEF PatternInv
  <2> QED
    BY <2>1, <2>4, <2>5, <2>6 DEF DataStep
<1>2. CASE UNCHANGED vars
  BY <1>2 DEF vars, reqVars, volVars, PatternInv
<1> QED
  BY <1>1, <1>2

\* dircntrl.c: memory for a pattern is allocated once for the CCB of a stream.
THEOREM PatternsOnce == Spec => []PatternStoredOnce
<1>1. Init => PatternInv
  BY InitPatterns
<1>2. ControlInv /\ PatternInv /\ [Next]_vars => PatternInv'
  BY StepPatterns
<1>3. PatternInv => PatternStoredOnce
  BY DEF PatternInv, PatternStoredOnce
<1> QED
  BY <1>1, <1>2, <1>3, Controlled, PTL DEF Spec
----------------------------------------------------------------------------
(* The lazy writer's thread *)

LEMMA StepLazy ==
  ASSUME ControlInv, LazyInv, [Next]_vars
  PROVE  LazyInv'
<1>1. CASE Next
  <2>1. PICK i \in Irp : ReqStep(i) /\ DataStep(i)
    BY <1>1, StepOfOne, DataStepFacts
  <2>2. \A j \in Irp \ {i} : pc'[j] = pc[j] /\ IsLazyWrite(j)' = IsLazyWrite(j)
    BY <2>1 DEF ReqStep, Others, IsLazyWrite
  <2>3. IsMap(pc)
    BY DEF ControlInv, Maps
  <2>4. CASE Quiet(i)
    BY <2>2, <2>4 DEF Quiet, LazyInv
  <2>5. CASE Opens(i) \/ Counts(i) \/ Misses(i) \/ Stores(i)
    <3>1. /\ lazyWriter' = lazyWriter /\ pc'[i] # "held" /\ op' = op
          /\ pc[i] # "held" \/ ~IsLazyWrite(i)
      BY <2>3, <2>5 DEF Opens, Counts, Misses, Stores, IsMap, IsCreate, IsLookup, IsDirectory, IsLazyWrite
    <3> QED
      BY <2>2, <3>1 DEF LazyInv
  <2>6. ASSUME NEW j \in Irp, NEW k \in Irp,
               IsLazyWrite(j) /\ pc[j] \in {"taken", "held"},
               IsLazyWrite(k) /\ pc[k] \in {"taken", "held"}
        PROVE  j = k
    <3>1. /\ op[j].target = "file" /\ op[k].target = "file" /\ Main(j) \in Resource
          /\ hold[j][Main(j)] = "exclusive" /\ hold[k][Main(k)] = "exclusive"
      BY <2>6, Protected
    <3> QED
      BY <3>1, Alone DEF Main
  <2>7. CASE Notes(i)
    <3>1. lazyWriter' = {i} /\ pc'[i] = "held" /\ IsLazyWrite(i)' /\ IsLazyWrite(i) /\ pc[i] = "taken"
      BY <2>3, <2>7 DEF Notes, IsMap, IsLazyWrite
    <3>2. \A j \in Irp \ {i} : ~(IsLazyWrite(j) /\ pc[j] = "held")
      BY <2>6, <3>1
    <3> QED
      BY <2>2, <3>1, <3>2 DEF LazyInv
  <2>8. CASE Forgets(i)
    <3>1. lazyWriter' = {} /\ pc'[i] = "releasing" /\ IsLazyWrite(i) /\ pc[i] = "held"
      BY <2>3, <2>8 DEF Forgets, IsMap
    <3>2. \A j \in Irp \ {i} : ~(IsLazyWrite(j) /\ pc[j] = "held")
      BY <2>6, <3>1
    <3> QED
      BY <2>2, <3>1, <3>2 DEF LazyInv
  <2> QED
    BY <2>1, <2>4, <2>5, <2>7, <2>8 DEF DataStep
<1>2. CASE UNCHANGED vars
  BY <1>2 DEF vars, reqVars, LazyInv, IsLazyWrite
<1> QED
  BY <1>1, <1>2

\* fastio.c: LazyWriterThreadID names the thread that has the file for a lazy write, and no other.
THEOREM LazyWriterNamed == Spec => []LazyWriterHoldsFile
<1>1. Init => LazyInv
  BY DEF Init, LazyInv
<1>2. ControlInv /\ LazyInv /\ [Next]_vars => LazyInv'
  BY StepLazy
<1>3. ASSUME ControlInv, LazyInv
      PROVE  LazyWriterHoldsFile
  <2>1. \A i \in lazyWriter : IsLazyWrite(i) /\ hold[i][Main(i)] = "exclusive"
    BY <1>3, Protected DEF LazyInv
  <2>2. ASSUME NEW i \in Irp, NEW j \in Irp,
               IsLazyWrite(i) /\ pc[i] \in {"taken", "held"}, IsLazyWrite(j) /\ pc[j] = "held"
        PROVE  i = j
    <3>1. /\ op[i].target = "file" /\ op[j].target = "file" /\ Main(i) \in Resource
          /\ hold[i][Main(i)] = "exclusive" /\ hold[j][Main(j)] = "exclusive"
      BY <1>3, <2>2, Protected
    <3> QED
      BY <1>3, <3>1, Alone DEF Main
  <2>3. ASSUME NEW i \in Irp, IsLazyWrite(i), pc[i] \in {"taken", "held"}
        PROVE  lazyWriter = IF pc[i] = "held" THEN {i} ELSE {}
    BY <1>3, <2>2, <2>3 DEF LazyInv
  <2> QED
    BY <2>1, <2>3 DEF LazyWriterHoldsFile
<1> QED
  BY <1>1, <1>2, <1>3, Controlled, PTL DEF Spec
----------------------------------------------------------------------------
(* The file's sizes *)

\* Only a set of the allocation changes them.
Resizes(i) ==
  /\ pc[i] = "held" /\ IsSet(i) /\ op[i].target = "file"
  /\ size' = NewSizes(op[i].at)

FileStep(i) ==
  /\ size' = size \/ Resizes(i)
  /\ cached' = cached \/ cached' = TRUE
  /\ \E flags \in SUBSET CcbFlag : ccb' = ccb \cup flags

LEMMA FileUnchanged ==
  ASSUME NEW i \in Irp, UNCHANGED fileVars
  PROVE  FileStep(i)
<1>1. size' = size /\ cached' = cached /\ ccb' = ccb \cup {}
  BY DEF fileVars
<1>2. {} \in SUBSET CcbFlag
  OBVIOUS
<1> QED
  BY <1>1, <1>2, Zenon DEF FileStep

LEMMA ReadWriteFile ==
  ASSUME NEW i \in Irp, ReadWriteStep(i)
  PROVE  FileStep(i)
<1>1. CASE UNCHANGED fileVars
  BY <1>1, FileUnchanged
<1>2. ASSUME NEW flag \in CcbFlag, size' = size, cached' = cached \/ cached' = TRUE,
             ccb' = ccb \/ Remember(i, flag)
      PROVE  FileStep(i)
  <2>1. ccb' = ccb \cup {} \/ ccb' = ccb \cup {flag}
    BY <1>2 DEF Remember
  <2>2. {} \in SUBSET CcbFlag /\ {flag} \in SUBSET CcbFlag
    OBVIOUS
  <2>3. \E flags \in SUBSET CcbFlag : ccb' = ccb \cup flags
    BY <2>1, <2>2, Zenon
  <2> QED
    BY <1>2, <2>3, Zenon DEF FileStep
<1>3. "ACCESSED" \in CcbFlag /\ "MODIFIED" \in CcbFlag
  BY DEF CcbFlag
<1>4. CASE ReadUnlocked(i) \/ ReadAcquire(i) \/ ReadCheck(i) \/ ReadNonCached(i)
  BY <1>1, <1>2, <1>3, <1>4
     DEF ReadUnlocked, ReadAcquire, ReadCheck, ReadNonCached, Fail, Succeed, PostRead
<1>5. CASE ReadCached(i) \/ ReadRaises(i)
  <2>1. /\ size' = size /\ cached' \in {cached, TRUE}
        /\ ccb' = ccb \/ Remember(i, "ACCESSED")
    BY <1>5 DEF ReadCached, ReadRaises, Raise, PostRead
  <2>2. cached' = cached \/ cached' = TRUE
    BY <2>1, Zenon
  <2> QED
    BY <1>2, <1>3, <2>1, <2>2
<1>6. CASE WriteUnlocked(i) \/ WriteAcquire(i) \/ WriteVolume(i) \/ WriteNonCached(i)
  BY <1>1, <1>2, <1>3, <1>6
     DEF WriteUnlocked, WriteAcquire, WriteVolume, WriteNonCached, Fail, Succeed, PostWrite
<1>7. CASE WriteCached(i) \/ WriteRaises(i)
  <2>1. /\ size' = size /\ cached' \in {cached, TRUE}
        /\ ccb' = ccb \/ Remember(i, "MODIFIED")
    BY <1>7 DEF WriteCached, WriteRaises, Raise, PostWrite
  <2>2. cached' = cached \/ cached' = TRUE
    BY <2>1, Zenon
  <2> QED
    BY <1>2, <1>3, <2>1, <2>2
<1>8. CASE DeferredWriteCallBack(i)
  BY <1>1, <1>8 DEF DeferredWriteCallBack
<1> QED
  BY <1>4, <1>5, <1>6, <1>7, <1>8 DEF ReadWriteStep

LEMMA FileInfoFile ==
  ASSUME NEW i \in Irp, FileInfoStep(i)
  PROVE  FileStep(i)
<1>0. CASE UNCHANGED fileVars
  BY <1>0, FileUnchanged
<1>1. CASE InfoOnVolume(i) \/ QueryAcquire(i) \/ Query(i) \/ SetNamesEntry(i) \/ SetAcquire(i)
           \/ SetAcquirePaging(i) \/ SetOther(i)
  BY <1>0, <1>1 DEF InfoOnVolume, QueryAcquire, Query, SetNamesEntry, SetAcquire, SetAcquirePaging,
                    SetOther, EndInfo, PostInfo, Crash
<1>2. CASE SetAllocation(i)
  <2>1. CASE size' = NewSizes(op[i].at) /\ UNCHANGED <<cached, ccb>>
    <3>1. Resizes(i)
      BY <1>2, <2>1 DEF SetAllocation, Resizes
    <3>2. ccb' = ccb \cup {} /\ {} \in SUBSET CcbFlag /\ cached' = cached
      BY <2>1
    <3> QED
      BY <3>1, <3>2, Zenon DEF FileStep
  <2>2. CASE UNCHANGED fileVars
    BY <2>2, FileUnchanged
  <2> QED
    BY <1>2, <2>1, <2>2 DEF SetAllocation, EndInfo
<1>3. CASE SetBasic(i)
  <2>1. size' = size /\ cached' = cached
    BY <1>3 DEF SetBasic
  <2>2. \E flags \in SUBSET CcbFlag : ccb' = ccb \cup flags
    <3>1. {{}, {"CREATE_TIME_SET"}} \subseteq SUBSET CcbFlag
      BY DEF CcbFlag
    <3>2. \E flag \in {{}, {"CREATE_TIME_SET"}} : ccb' = ccb \cup flag
      BY <1>3 DEF SetBasic
    <3> QED
      BY <3>1, <3>2, Zenon
  <2> QED
    BY <2>1, <2>2, Zenon DEF FileStep
<1> QED
  BY <1>1, <1>2, <1>3 DEF FileInfoStep

LEMMA FileStepFacts ==
  ASSUME NEW i \in Irp, StepOf(i)
  PROVE  FileStep(i)
<1>0. CASE UNCHANGED fileVars
  BY <1>0, FileUnchanged
<1>1. CASE Dispatch(i) \/ Call(i) \/ CommonDispatch(i) \/ CancelNotify(i)
  BY <1>0, <1>1 DEF Dispatch, Call, CommonDispatch, CancelNotify
<1>2. CASE HandleStep(i)
  BY <1>0, <1>2 DEF HandleStep, OpenDriver, CreateUnlocked, CreateAcquire, CreateVolume, CountOpen,
                    CreateStream, Cleanup, Close, Shutdown, Abandon
<1>3. CASE ForwardStep(i)
  BY <1>0, <1>3 DEF ForwardStep, FlushPost, FlushAcquire, FlushVolume, DeviceControl, SendDown,
                    ReleaseContext, LowerCompletes
<1>4. CASE DirectoryStep(i)
  BY <1>0, <1>4 DEF DirectoryStep, UnknownMinor, LookupPost, LookupAcquire, Lookup, StorePattern,
                    NotifyAcquire, NotifyChange
<1>5. CASE CallbackStep(i)
  BY <1>0, <1>5 DEF CallbackStep, AcqCreateSec, RelCreateSec, AcqLazyWrite, RelLazyWrite,
                    AcqReadAhead, RelReadAhead, AcquireMain, GoTo, Release
<1>6. CASE MissingCcb(i) \/ SetNamesEntry(i) \/ FlushStream(i) \/ VolumeAsDirectory(i)
  BY <1>0, <1>6 DEF MissingCcb, SetNamesEntry, FlushStream, VolumeAsDirectory, Crash
<1> QED
  BY <1>1, <1>2, <1>3, <1>4, <1>5, <1>6, ReadWriteFile, FileInfoFile DEF StepOf, RequestStep

\* read.c: the file's sizes do not change under a read that has checked them, nor under the
\* VMM or the Cache Manager while they have the file.
THEOREM SizesFixed == Spec => SizeFixed
<1>1. ASSUME ControlInv, Next, NEW i \in Irp, ReliesOnSize(i)
      PROVE  size' = size
  <2>1. PICK j \in Irp : StepOf(j)
    BY <1>1, StepOfOne
  <2>2. CASE Resizes(j)
    <3>1. /\ hold[j][<<"file", "main">>] = "exclusive"
          /\ hold[j][<<"file", "paging">>] = "exclusive"
      <4>1. HoldInv(j) /\ Owns(j) /\ OwnsPaging(j)
        BY <1>1, <2>2 DEF ControlInv, ReqInv, Resizes, Owns, OwnsPaging, Inside
      <4> QED
        BY <2>2, <4>1, OwnFacts DEF HoldInv, Resizes, Main, Paging
    <3>2. /\ op[i].target = "file" /\ Owns(i) /\ i # j
          /\ Own(i) \in {<<"file", "main">>, <<"file", "paging">>}
      <4>1. ReqInv(i)
        BY <1>1 DEF ControlInv
      <4>2. CASE IsRead(i) /\ pc[i] = "checked"
        BY <2>2, <4>1, <4>2, OwnFacts, KindFacts
           DEF ReqInv, LabelInv, Reaches, Owns, Inside, TransferResource, Main, Paging, Resizes
      <4>3. CASE IsRead(i) /\ irp[i] = "disk" /\ op[i].target = "file"
        <5>1. pc[i] = "away"
          BY <4>1, <4>3, KindFacts DEF ReqInv, LabelInv, IrpInv, AtWork, Inside, Reaches
        <5> QED
          BY <2>2, <4>3, <5>1, OwnFacts, KindFacts DEF Owns, TransferResource, Main, Paging, Resizes
      <4>4. CASE IsCallback(i) /\ pc[i] = "held"
        <5>1. op[i].target = "file"
          BY <4>1, <4>4, SentAssumption DEF ReqInv, LabelInv, IsCallback
        <5> QED
          BY <2>2, <4>4, <5>1, OwnFacts, KindFacts DEF Owns, Inside, Main, Resizes
      <4> QED
        BY <1>1, <4>2, <4>3, <4>4 DEF ReliesOnSize
    <3>3. Own(i) \in Resource /\ hold[i][Own(i)] # "none"
      BY <1>1, <3>2 DEF ControlInv, ReqInv, HoldInv, OwnMode, WriteMode
    <3> QED
      BY <1>1, <3>1, <3>2, <3>3, Alone
  <2> QED
    BY <2>1, <2>2, FileStepFacts DEF FileStep
<1>2. ControlInv /\ [Next]_vars => [\A i \in Irp : ReliesOnSize(i) => size' = size]_vars
  BY <1>1
<1> QED
  BY <1>2, Controlled, PTL DEF Spec, SizeFixed
----------------------------------------------------------------------------
(* Types *)

LEMMA SizesTyped ==
  ASSUME NEW i \in Irp, op[i] \in Request, Resizes(i) \/ size' = size,
         size \in [file : 0..MaxSize, valid : 0..MaxSize, allocation : 0..MaxSize]
  PROVE  size' \in [file : 0..MaxSize, valid : 0..MaxSize, allocation : 0..MaxSize]
<1>1. op[i].at \in 0..MaxSize
  BY DEF Request
<1> QED
  BY <1>1 DEF Resizes, NewSizes, Truncated

LEMMA StepTypes ==
  ASSUME ControlInv, DataTypes, [Next]_vars
  PROVE  DataTypes'
<1>1. CASE Next
  <2>1. PICK i \in Irp : StepOf(i) /\ Queues(i) /\ FileStep(i)
    BY <1>1, StepOfOne, FileStepFacts
  <2>2. op[i] \in Request
    BY DEF ControlInv, ReqInv, ValueInv
  <2>3. size' \in [file : 0..MaxSize, valid : 0..MaxSize, allocation : 0..MaxSize]
    BY <2>1, <2>2, SizesTyped DEF FileStep, DataTypes
  <2>4. cached' \in BOOLEAN
    BY <2>1, Zenon DEF FileStep, DataTypes
  <2>5. ccb' \subseteq CcbFlag
    BY <2>1 DEF FileStep, DataTypes
  <2>6. notify' \subseteq Irp
    BY <2>1 DEF Queues, DataTypes
  <2>7. panic' \in BOOLEAN
    <3>1. panic' = panic \/ panic' = TRUE
      BY <2>1, Zenon
         DEF StepOf, RequestStep, Running, MissingCcb, SetNamesEntry, FlushStream, VolumeAsDirectory, Crash
    <3> QED
      BY <3>1, Zenon DEF DataTypes
  <2> QED
    BY <2>3, <2>4, <2>5, <2>6, <2>7 DEF DataTypes
<1>2. CASE UNCHANGED vars
  BY <1>2 DEF vars, fileVars, volVars, DataTypes
<1> QED
  BY <1>1, <1>2

\* The parts of the type invariant.
LEMMA TypesFollow ==
  ASSUME ControlInv, DataTypes, OpenInv, PatternInv, LazyInv
  PROVE  TypeOK
<1>1. Maps /\ \A i \in Irp : HoldInv(i) /\ LabelInv(i) /\ IrpInv(i) /\ FreedInv(i) /\ ValueInv(i)
  BY DEF ControlInv, ReqInv
<1>2. op \in [Irp -> Request] /\ buffer \in [Irp -> {"user", "short", "locked"}]
  BY <1>1 DEF Maps, IsMap, ValueInv
<1>3. canBlock \in [Irp -> BOOLEAN]
  BY <1>1 DEF Maps, IsMap, ValueInv
<1>4. status \in [Irp -> Status] /\ completed \in [Irp -> Nat] /\ freed \in [Irp -> Nat]
  BY <1>1 DEF Maps, IsMap, ValueInv, FreedInv
<1>5. pc \in [Irp -> {"unsent", "start", "paging", "held", "checked", "opening", "storing",
                      "looping", "taken", "releasing", "sent", "queued", "away"}]
  BY <1>1 DEF Maps, IsMap, LabelInv, AtWork, Inside
<1>6. irp \in [Irp -> {"caller", "driver", "worker", "queue", "cache", "disk", "lower",
                       "notify", "completed"}]
  <2>1. ASSUME NEW i \in Irp
        PROVE  irp[i] \in {"caller", "driver", "worker", "queue", "cache", "disk", "lower",
                           "notify", "completed"}
    BY <1>1, KindFacts DEF LabelInv, IrpInv, AtWork, Inside, Reaches
  <2> QED
    BY <1>1, <2>1 DEF Maps, IsMap
<1>7. hold \in [Irp -> [Resource -> Mode]]
  BY <1>1 DEF Maps, IsMap, HoldInv
<1>8. opens \subseteq Irp /\ openCount \in Nat /\ lazyWriter \subseteq Irp /\ patterns \in [Stream -> Nat]
  BY DEF OpenInv, LazyInv, PatternInv
<1> QED
  BY <1>2, <1>3, <1>4, <1>5, <1>6, <1>7, <1>8 DEF TypeOK, DataTypes

\* Every variable keeps its type.
THEOREM Typed == Spec => []TypeOK
<1>1. Init => DataTypes /\ OpenInv /\ PatternInv /\ LazyInv
  <2>1. Init => DataTypes
    BY DEF Init, DataTypes
  <2> QED
    BY <2>1, InitOpens, InitPatterns DEF Init, LazyInv
<1>2. ControlInv /\ DataTypes /\ [Next]_vars => DataTypes'
  BY StepTypes
<1>3. ControlInv /\ OpenInv /\ [Next]_vars => OpenInv'
  BY StepOpens
<1>4. ControlInv /\ PatternInv /\ [Next]_vars => PatternInv'
  BY StepPatterns
<1>5. ControlInv /\ LazyInv /\ [Next]_vars => LazyInv'
  BY StepLazy
<1>6. ControlInv /\ DataTypes /\ OpenInv /\ PatternInv /\ LazyInv => TypeOK
  BY TypesFollow
<1> QED
  BY <1>1, <1>2, <1>3, <1>4, <1>5, <1>6, Controlled, PTL DEF Spec
=============================================================================
