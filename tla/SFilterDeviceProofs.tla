------------------------ MODULE SFilterDeviceProofs ------------------------
(***************************************************************************)
(* Theorems about SFilterDevice, for any number of requests, file system   *)
(* drivers and volumes.                                                    *)
(***************************************************************************)
EXTENDS SFilterDevice, FiniteSetTheorems, TLAPS

(* The inductive invariant *)

Leaving == {"delete", "uninit", "remove", "done"}

\* A request that was sent has a device, a mount past its completion a volume.
Located ==
  \A i \in Irp :
    /\ pc[i] # "unsent" => dev[i] \in Dev
    /\ pc[i] \in {"queued", "attaching", "unmark"} => vol[i] \in VolumeDev
    /\ pc[i] = "unmark" => attach[vol[i]] = "attached"

\* A filter device is created once, for the one mount that brought up its
\* volume.
CreatedOnce ==
  /\ \A i, j \in Irp : i # j /\ vol[i] = vol[j] => vol[i] = NoDev
  /\ \A i \in Irp :
       vol[i] # NoDev =>
         pc[i] \in {"queued", "attaching", "unmark", "decrement", "test", "signal", "done"}
  /\ \A i \in Irp : pc[i] = "queued" => attach[vol[i]] = "none"
  /\ \A v \in VolumeDev : attach[v] # "none" => \E i \in Irp : vol[i] = v

\* Requests and detaches reach a filter device only once it is on the stack.
Reached ==
  /\ attach[ControlDev] = "none" /\ detach[ControlDev] = "idle" /\ ~Attached(ControlDev)
  /\ \A d \in stack : d = ControlDev \/ attach[d] \in {"joined", "attached"}
  /\ \A i \in Irp : dev[i] \in {NoDev, ControlDev} \/ attach[dev[i]] \in {"joined", "attached"}
  /\ \A d \in Dev : attach[d] \in {"none", "created", "rejected"} => detach[d] = "idle"
  /\ \A d \in Dev : attach[d] = "joined" => detach[d] \in {"idle", "acquire"}

\* What it means to be attached, at each stage of an attach and a detach.
AttachedWhen ==
  \A d \in Dev :
    /\ attach[d] \in {"none", "created", "joined", "rejected"} => ~Attached(d)
    /\ attach[d] = "joined" => d \in stack
    /\ attach[d] = "attached" /\ detach[d] \notin Leaving => Attached(d) /\ d \in stack
    /\ Attached(d) /\ detach[d] \in Leaving => d \in VolumeDev
    /\ Attached(d) /\ detach[d] \notin Leaving => d \in present
    /\ attach[d] \in {"created", "joined", "rejected"} => d \in present
    /\ detach[d] \in {"acquire", "wait", "detach"} => Attached(d) \/ attach[d] = "joined"

\* The resource is held by the thread that is between acquire and release.
Held ==
  /\ \A i \in Irp : pc[i] \in {"count", "clear", "refuse"} => owner[dev[i]] = i
  /\ \A d \in Dev :
       /\ attach[d] \in {"created", "joined", "rejected"} => owner[d] = Attacher
       /\ detach[d] \in {"detach", "delete"} => owner[d] = Detacher

\* A request is counted only while its device is attached and not draining.
Counted ==
  \A i \in Irp :
    pc[i] \in {"count", "clear"} =>
      Attached(dev[i]) /\ (detach[dev[i]] \in {"idle", "acquire", "wait"} \/ Revived(dev[i]))

\* What the macros make of the increments and decrements.
CountKept ==
  \A d \in Dev : outstanding[d] = IF UpdatesOperand THEN balance[d] ELSE 0

IInv ==
  /\ TypeOK /\ Located /\ CreatedOnce /\ Reached /\ AttachedWhen /\ Held /\ Counted
  /\ CountsBalance /\ CountKept

-----------------------------------------------------------------------------
(* Type correctness *)

\* The sets of devices are parts of Dev, and apart.
LEMMA DevFacts ==
  /\ VolumeDev \subseteq Dev /\ FsdDev \subseteq Dev /\ ControlDev \in Dev
  /\ NoDev \notin Dev /\ ControlDev \notin FsdDev \cup VolumeDev
  /\ FsdDev \cap VolumeDev = {}
BY DeviceAssumption DEF Dev

\* IoCreateDevice with SFilterInitDevExtension, or its failure, keeps the types.
LEMMA CreateType ==
  ASSUME TypeOK, NEW d \in Dev, CreateFilterDevice(d) \/ CreateFails(d)
  PROVE  /\ present' \subseteq Dev
         /\ flags' \in [Dev -> SUBSET Flag]
         /\ owner' \in [Dev -> Irp \cup {Attacher, Detacher, Nobody}]
         /\ outstanding' \in [Dev -> Int]
         /\ balance' \in [Dev -> Int]
         /\ event' \in [Dev -> BOOLEAN]
         /\ attach' \in [Dev -> AttachLabel]
<1>2. CASE CreateFilterDevice(d)
  BY <1>2 DEF CreateFilterDevice, TypeOK, AttachLabel
<1>3. CASE CreateFails(d)
  BY <1>3 DEF CreateFails, TypeOK, AttachLabel, extVars
<1> QED
  BY <1>2, <1>3

\* Every step of every thread keeps the types; a request that runs is at a device.
LEMMA TypeStep ==
  TypeOK /\ Located /\ [Next]_vars => TypeOK'
<1> SUFFICES ASSUME TypeOK, Located, [Next]_vars
             PROVE TypeOK'
  OBVIOUS
<1> USE DevFacts, ThreadAssumption, MacroAssumption, SentAssumption
<1>1. ASSUME Running, NEW d \in Dev, IoAttach(d)
     PROVE TypeOK'
  BY <1>1
     DEF IoAttach, Running, TypeOK, Located, vars, objVars, extVars, reqVars, Kind,
         Flag, PcLabel, AttachLabel, DetachLabel, Answer
<1>2. ASSUME Running, NEW d \in Dev, FinishAttach(d)
     PROVE TypeOK'
  BY <1>2
     DEF FinishAttach, Running, TypeOK, Located, vars, objVars, extVars, reqVars, Kind,
         Flag, PcLabel, AttachLabel, DetachLabel, Answer
<1>3. ASSUME Running, NEW d \in Dev, DetachTest(d)
     PROVE TypeOK'
  BY <1>3
     DEF DetachTest, Running, TypeOK, Located, vars, objVars, extVars, reqVars, Kind,
         Flag, PcLabel, AttachLabel, DetachLabel, Answer
<1>4. ASSUME Running, NEW d \in Dev, DetachWait(d)
     PROVE TypeOK'
  BY <1>4
     DEF DetachWait, Running, TypeOK, Located, vars, objVars, extVars, reqVars, Kind,
         Flag, PcLabel, AttachLabel, DetachLabel, Answer
<1>5. ASSUME Running, NEW d \in Dev, DetachDevice(d)
     PROVE TypeOK'
  BY <1>5
     DEF DetachDevice, Running, TypeOK, Located, vars, objVars, extVars, reqVars, Kind,
         Flag, PcLabel, AttachLabel, DetachLabel, Answer
<1>6. ASSUME Running, NEW d \in Dev, DeleteDevExtension(d)
     PROVE TypeOK'
  BY <1>6
     DEF DeleteDevExtension, Running, TypeOK, Located, vars, objVars, extVars, reqVars,
         Kind, Flag, PcLabel, AttachLabel, DetachLabel, Answer
<1>7. ASSUME Running, NEW d \in Dev, DeleteResource(d)
     PROVE TypeOK'
  BY <1>7
     DEF DeleteResource, Running, TypeOK, Located, vars, objVars, extVars, reqVars,
         Kind, Flag, PcLabel, AttachLabel, DetachLabel, Answer
<1>8. ASSUME Running, NEW d \in Dev, DeleteDevice(d)
     PROVE TypeOK'
  BY <1>8
     DEF DeleteDevice, Running, TypeOK, Located, vars, objVars, extVars, reqVars, Kind,
         Flag, PcLabel, AttachLabel, DetachLabel, Answer
<1>9. ASSUME Running, NEW d \in Dev, FSDNotification(d)
     PROVE TypeOK'
  <2>1. CreateFilterDevice(d) \/ CreateFails(d)
    BY <1>9 DEF FSDNotification
  <2> QED
    BY <1>9, <2>1, CreateType DEF FSDNotification, Running, TypeOK, reqVars
<1>10. ASSUME Running, NEW d \in Dev, FastIoDetachDevice(d)
     PROVE TypeOK'
  BY <1>10
     DEF FastIoDetachDevice, Running, TypeOK, Located, vars, objVars, extVars, reqVars,
         Kind, Flag, PcLabel, AttachLabel, DetachLabel, Answer
<1>11. ASSUME Running, NEW i \in Irp, NEW d \in Dev, NEW k \in SentKind, Send(i, d, k)
     PROVE TypeOK'
  BY <1>11
     DEF Send, EntryLabel, Goto, Running, TypeOK, Located, vars, objVars, extVars,
         reqVars, Kind, Flag, PcLabel, AttachLabel, DetachLabel, Answer
<1>12. ASSUME Running, NEW i \in Irp, StrayCompletion(i)
     PROVE TypeOK'
  BY <1>12
     DEF StrayCompletion, Running, TypeOK, Located, vars, objVars, extVars, reqVars,
         Kind, Flag, PcLabel, AttachLabel, DetachLabel, Answer
<1>13. ASSUME Running, NEW i \in Irp, Precheck(i)
     PROVE TypeOK'
  BY <1>13
     DEF Precheck, RefuseWith, Refusal, Answered, Goto, Running, TypeOK, Located, vars,
         objVars, extVars, reqVars, Kind, Flag, PcLabel, AttachLabel, DetachLabel,
         Answer
<1>14. ASSUME Running, NEW i \in Irp, DefaultDispatch(i)
     PROVE TypeOK'
  BY <1>14
     DEF DefaultDispatch, RefuseWith, Answered, Goto, Running, TypeOK, Located, vars,
         objVars, extVars, reqVars, Kind, Flag, PcLabel, AttachLabel, DetachLabel,
         Answer
<1>15. ASSUME Running, NEW i \in Irp, MountDispatch(i)
     PROVE TypeOK'
  BY <1>15
     DEF MountDispatch, RefuseWith, Answered, Goto, Running, TypeOK, Located, vars,
         objVars, extVars, reqVars, Kind, Flag, PcLabel, AttachLabel, DetachLabel,
         Answer
<1>16. ASSUME Running, NEW i \in Irp, Count(i)
     PROVE TypeOK'
  BY <1>16
     DEF Count, AddTo, AddToCount, Goto, Running, TypeOK, Located, vars, objVars, extVars, reqVars,
         Kind, Flag, PcLabel, AttachLabel, DetachLabel, Answer
<1>17. ASSUME Running, NEW i \in Irp, ClearEvent(i)
     PROVE TypeOK'
  BY <1>17
     DEF ClearEvent, Goto, Running, TypeOK, Located, vars, objVars, extVars, reqVars,
         Kind, Flag, PcLabel, AttachLabel, DetachLabel, Answer
<1>18. ASSUME Running, NEW i \in Irp, CallDriver(i)
     PROVE TypeOK'
  BY <1>18
     DEF CallDriver, Goto, Running, TypeOK, Located, vars, objVars, extVars, reqVars,
         Kind, Flag, PcLabel, AttachLabel, DetachLabel, Answer
<1>19. ASSUME Running, NEW i \in Irp, Refuse(i)
     PROVE TypeOK'
  BY <1>19
     DEF Refuse, Goto, Running, TypeOK, Located, vars, objVars, extVars, reqVars, Kind,
         Flag, PcLabel, AttachLabel, DetachLabel, Answer
<1>22. ASSUME Running, NEW i \in Irp, Completion(i)
     PROVE TypeOK'
  BY <1>22
     DEF Completion, Goto, Running, TypeOK, Located, vars, objVars, extVars, reqVars,
         Kind, Flag, PcLabel, AttachLabel, DetachLabel, Answer
<1>23. ASSUME Running, NEW i \in Irp, MountAttach(i)
     PROVE TypeOK'
  <2>1. vol[i] \in Dev /\ (CreateFilterDevice(vol[i]) \/ CreateFails(vol[i]))
    BY <1>23 DEF MountAttach, Located
  <2>2. pc' \in [Irp -> PcLabel]
    BY <1>23 DEF MountAttach, Goto, TypeOK, PcLabel
  <2> QED
    BY <1>23, <2>1, <2>2, CreateType DEF MountAttach, Running, TypeOK
<1>24. ASSUME Running, NEW i \in Irp, MountAttached(i)
     PROVE TypeOK'
  BY <1>24
     DEF MountAttached, Goto, Running, TypeOK, Located, vars, objVars, extVars,
         reqVars, Kind, Flag, PcLabel, AttachLabel, DetachLabel, Answer
<1>25. ASSUME Running, NEW i \in Irp, UnmarkFsd(i)
     PROVE TypeOK'
  BY <1>25
     DEF UnmarkFsd, FlagsSince, Goto, Running, TypeOK, Located, vars, objVars, extVars, reqVars,
         Kind, Flag, PcLabel, AttachLabel, DetachLabel, Answer
<1>26. ASSUME Running, NEW i \in Irp, Decrement(i)
     PROVE TypeOK'
  BY <1>26
     DEF Decrement, AddTo, AddToCount, Goto, Running, TypeOK, Located, vars, objVars, extVars,
         reqVars, Kind, Flag, PcLabel, AttachLabel, DetachLabel, Answer
<1>27. ASSUME Running, NEW i \in Irp, TestZero(i)
     PROVE TypeOK'
  BY <1>27
     DEF TestZero, Goto, Running, TypeOK, Located, vars, objVars, extVars, reqVars,
         Kind, Flag, PcLabel, AttachLabel, DetachLabel, Answer
<1>28. ASSUME Running, NEW i \in Irp, SetEvent(i)
     PROVE TypeOK'
  BY <1>28
     DEF SetEvent, Goto, Running, TypeOK, Located, vars, objVars, extVars, reqVars,
         Kind, Flag, PcLabel, AttachLabel, DetachLabel, Answer
<1>29. ASSUME NEW i \in Irp, TouchDeleted(i)
     PROVE TypeOK'
  BY <1>29
     DEF TouchDeleted, TypeOK, Located, vars, objVars, extVars, reqVars, Kind, Flag,
         PcLabel, AttachLabel, DetachLabel, Answer
<1>30. ASSUME UNCHANGED vars
     PROVE TypeOK'
  BY <1>30
     DEF TypeOK, Located, vars, objVars, extVars, reqVars, Kind, Flag, PcLabel,
         AttachLabel, DetachLabel, Answer
<1> QED
  BY <1>1, <1>2, <1>3, <1>4, <1>5, <1>6, <1>7, <1>8, <1>9, <1>10, <1>11, <1>12, <1>13,
      <1>14, <1>15, <1>16, <1>17, <1>18, <1>19, <1>22, <1>23, <1>24,
      <1>25, <1>26, <1>27, <1>28, <1>29, <1>30
     DEF Next, Environment, DeviceStep, RequestStep
-----------------------------------------------------------------------------
(* The inductive invariant is preserved *)

Shape == Located /\ CreatedOnce /\ Reached /\ AttachedWhen /\ Held /\ Counted

\* The requests inside a device can be counted.
LEMMA InsideFinite ==
  ASSUME NEW d
  PROVE  IsFiniteSet(Inside(d)) /\ Cardinality(Inside(d)) \in Nat
<1>1. Inside(d) \subseteq Irp
  BY DEF Inside
<1> QED
  BY <1>1, ThreadAssumption, FS_Subset, FS_CardinalityType

\* Every step keeps what is known of devices, owners and counted requests.
LEMMA ShapeStep ==
  TypeOK /\ Shape /\ [Next]_vars => Shape'
<1> SUFFICES ASSUME TypeOK, Shape, [Next]_vars
             PROVE Shape'
  OBVIOUS
<1> USE DevFacts, ThreadAssumption, MacroAssumption
<1>1. ASSUME Running, NEW d \in Dev, IoAttach(d)
     PROVE Shape'
  BY <1>1
     DEF IoAttach, Running, Shape, TypeOK, Located, CreatedOnce, Reached, AttachedWhen,
         Held, Counted, Attached, CanAcquire, ResourceReady, Revived, Detached, CountedLabel, Leaving,
         vars, objVars, extVars, reqVars
<1>2. ASSUME Running, NEW d \in Dev, FinishAttach(d)
     PROVE Shape'
  <2>1. /\ attach[d] \in {"joined", "rejected"} /\ ~Attached(d)
        /\ UNCHANGED <<present, stack, pc, dev, vol>>
        /\ detach[d] \in {"idle", "acquire"} /\ d \in Dev /\ d # ControlDev
    BY <1>2 DEF FinishAttach, objVars, reqVars, Shape, Reached, AttachedWhen
  <2>2. \A e \in Dev : e # d => /\ flags'[e] = flags[e] /\ owner'[e] = owner[e]
                                /\ attach'[e] = attach[e] /\ detach'[e] = detach[e]
    BY <1>2 DEF FinishAttach, TypeOK
  <2>3. /\ flags'[d] = Flag /\ owner'[d] = Nobody
        /\ \/ attach[d] = "joined" /\ attach'[d] = "attached" /\ detach'[d] = detach[d]
           \/ attach[d] = "rejected" /\ attach'[d] = "failed" /\ detach'[d] = "acquire"
    BY <1>2, <2>1 DEF FinishAttach, TypeOK
  <2>4. Located' /\ CreatedOnce'
    BY <2>1, <2>2, <2>3 DEF Shape, Located, CreatedOnce
  <2>5. Reached'
    BY <2>1, <2>2, <2>3 DEF Shape, Reached, Attached, TypeOK
  <2>6. AttachedWhen'
    BY <2>1, <2>2, <2>3 DEF Shape, AttachedWhen, Attached, Leaving, Flag
  <2>7. \A i \in Irp : pc[i] \in {"count", "clear", "refuse"} => dev[i] \in Dev /\ dev[i] # d
    BY <2>1 DEF Shape, Held, Located, TypeOK
  <2>8. Held'
    BY <2>1, <2>2, <2>3, <2>7 DEF Shape, Held
  <2>9. Counted'
    BY <2>1, <2>2, <2>7 DEF Shape, Counted, Revived, Detached, Attached
  <2> QED
    BY <2>4, <2>5, <2>6, <2>8, <2>9 DEF Shape
<1>3. ASSUME Running, NEW d \in Dev, DetachTest(d)
     PROVE Shape'
  <2> QED
    BY <1>3
       DEF DetachTest, Running, Shape, TypeOK, Located, CreatedOnce, Reached,
           AttachedWhen, Held, Counted, Attached, CanAcquire, ResourceReady, Revived, Detached,
           CountedLabel, Leaving, objVars, extVars, reqVars
<1>4. ASSUME Running, NEW d \in Dev, DetachWait(d)
     PROVE Shape'
  BY <1>4
     DEF DetachWait, Running, Shape, TypeOK, Located, CreatedOnce, Reached,
         AttachedWhen, Held, Counted, Attached, CanAcquire, ResourceReady, Revived, Detached,
         CountedLabel, Leaving, vars, objVars, extVars, reqVars
<1>5. ASSUME Running, NEW d \in Dev, DetachDevice(d)
     PROVE Shape'
  BY <1>5
     DEF DetachDevice, Running, Shape, TypeOK, Located, CreatedOnce, Reached,
         AttachedWhen, Held, Counted, Attached, CanAcquire, ResourceReady, Revived, Detached,
         CountedLabel, Leaving, vars, objVars, extVars, reqVars
<1>6. ASSUME Running, NEW d \in Dev, DeleteDevExtension(d)
     PROVE Shape'
  BY <1>6
     DEF DeleteDevExtension, Running, Shape, TypeOK, Located, CreatedOnce, Reached,
         AttachedWhen, Held, Counted, Attached, CanAcquire, ResourceReady, Revived, Detached,
         CountedLabel, Leaving, vars, objVars, extVars, reqVars
<1>7. ASSUME Running, NEW d \in Dev, DeleteResource(d)
     PROVE Shape'
  BY <1>7
     DEF DeleteResource, Running, Shape, TypeOK, Located, CreatedOnce, Reached,
         AttachedWhen, Held, Counted, Attached, CanAcquire, ResourceReady, Revived, Detached,
         CountedLabel, Leaving, vars, objVars, extVars, reqVars
<1>8. ASSUME Running, NEW d \in Dev, DeleteDevice(d)
     PROVE Shape'
  BY <1>8
     DEF DeleteDevice, Running, Shape, TypeOK, Located, CreatedOnce, Reached,
         AttachedWhen, Held, Counted, Attached, CanAcquire, ResourceReady, Revived, Detached,
         CountedLabel, Leaving, vars, objVars, extVars, reqVars
<1>9. ASSUME Running, NEW d \in Dev, FSDNotification(d)
     PROVE Shape'
  BY <1>9
     DEF FSDNotification, CreateFilterDevice, CreateFails, Running, Shape, TypeOK,
         Located, CreatedOnce, Reached, AttachedWhen, Held, Counted, Attached,
         CanAcquire, ResourceReady, Revived, Detached, CountedLabel, Leaving, vars, objVars, extVars,
         reqVars
<1>10. ASSUME Running, NEW d \in Dev, FastIoDetachDevice(d)
     PROVE Shape'
  BY <1>10
     DEF FastIoDetachDevice, Running, Shape, TypeOK, Located, CreatedOnce, Reached,
         AttachedWhen, Held, Counted, Attached, CanAcquire, ResourceReady, Revived, Detached,
         CountedLabel, Leaving, vars, objVars, extVars, reqVars
<1>11. ASSUME Running, NEW i \in Irp, NEW d \in Dev, NEW k \in SentKind, Send(i, d, k)
     PROVE Shape'
  BY <1>11, SentAssumption
     DEF Kind, Send, EntryLabel, Goto, Running, Shape, TypeOK, Located, CreatedOnce, Reached,
         AttachedWhen, Held, Counted, Attached, CanAcquire, ResourceReady, Revived, Detached,
         CountedLabel, Leaving, vars, objVars, extVars, reqVars
<1>12. ASSUME Running, NEW i \in Irp, StrayCompletion(i)
     PROVE Shape'
  BY <1>12
     DEF StrayCompletion, Running, Shape, TypeOK, Located, CreatedOnce, Reached,
         AttachedWhen, Held, Counted, Attached, CanAcquire, ResourceReady, Revived, Detached,
         CountedLabel, Leaving, vars, objVars, extVars, reqVars
<1>13. ASSUME Running, NEW i \in Irp, Precheck(i)
     PROVE Shape'
  BY <1>13
     DEF Precheck, RefuseWith, Refusal, Answered, Goto, Running, Shape, TypeOK,
         Located, CreatedOnce, Reached, AttachedWhen, Held, Counted, Attached,
         CanAcquire, ResourceReady, Revived, Detached, CountedLabel, Leaving, vars, objVars, extVars,
         reqVars
<1>14. ASSUME Running, NEW i \in Irp, DefaultDispatch(i)
     PROVE Shape'
  <2>1. UNCHANGED <<objVars, flags, attach, detach, dev, vol>>
    BY <1>14 DEF DefaultDispatch
  <2>2. /\ pc' = [pc EXCEPT ![i] = "count"] \/ pc' = [pc EXCEPT ![i] = "refuse"]
        /\ pc[i] = "dispatch" /\ owner[dev[i]] = Nobody /\ detach[dev[i]] # "remove"
        /\ dev[i] \in present /\ owner' = [owner EXCEPT ![dev[i]] = i]
        /\ pc' = [pc EXCEPT ![i] = "count"] => Attached(dev[i])
    BY <1>14, <2>1 DEF DefaultDispatch, RefuseWith, Goto, CanAcquire, ResourceReady, TypeOK
  <2>3. Located' /\ CreatedOnce' /\ Reached'
    BY <2>1, <2>2 DEF Shape, TypeOK, Located, CreatedOnce, Reached, Attached, objVars
  <2>4. AttachedWhen'
    BY <2>1, <2>2 DEF Shape, TypeOK, AttachedWhen, Attached, objVars, Leaving
  <2>5. Held'
    BY <2>1, <2>2 DEF Shape, TypeOK, Located, Held
  <2>6. dev[i] \in Dev /\ detach[dev[i]] \notin {"detach", "delete"}
    BY <2>2 DEF Shape, Located, Held
  <2>7. Attached(dev[i]) => detach[dev[i]] \in {"idle", "acquire", "wait"} \/ Revived(dev[i])
    BY <2>6 DEF Shape, AttachedWhen, TypeOK, DetachLabel, Revived, Detached, Leaving
  <2>8. Counted'
    BY <2>1, <2>2, <2>7 DEF Shape, TypeOK, Counted, Attached, Revived, Detached
  <2> QED
    BY <2>3, <2>4, <2>5, <2>8 DEF Shape
<1>15. ASSUME Running, NEW i \in Irp, MountDispatch(i)
     PROVE Shape'
  <2>1. UNCHANGED <<objVars, flags, attach, detach, dev, vol>>
    BY <1>15 DEF MountDispatch
  <2>2. /\ pc' = [pc EXCEPT ![i] = "count"] \/ pc' = [pc EXCEPT ![i] = "refuse"]
        /\ pc[i] = "mount" /\ owner[dev[i]] = Nobody /\ detach[dev[i]] # "remove"
        /\ dev[i] \in present /\ owner' = [owner EXCEPT ![dev[i]] = i]
        /\ pc' = [pc EXCEPT ![i] = "count"] => Attached(dev[i])
    BY <1>15, <2>1 DEF MountDispatch, RefuseWith, Goto, CanAcquire, ResourceReady, TypeOK
  <2>3. Located' /\ CreatedOnce' /\ Reached'
    BY <2>1, <2>2 DEF Shape, TypeOK, Located, CreatedOnce, Reached, Attached, objVars
  <2>4. AttachedWhen'
    BY <2>1, <2>2 DEF Shape, TypeOK, AttachedWhen, Attached, objVars, Leaving
  <2>5. Held'
    BY <2>1, <2>2 DEF Shape, TypeOK, Located, Held
  <2>6. dev[i] \in Dev /\ detach[dev[i]] \notin {"detach", "delete"}
    BY <2>2 DEF Shape, Located, Held
  <2>7. Attached(dev[i]) => detach[dev[i]] \in {"idle", "acquire", "wait"} \/ Revived(dev[i])
    BY <2>6 DEF Shape, AttachedWhen, TypeOK, DetachLabel, Revived, Detached, Leaving
  <2>8. Counted'
    BY <2>1, <2>2, <2>7 DEF Shape, TypeOK, Counted, Attached, Revived, Detached
  <2> QED
    BY <2>3, <2>4, <2>5, <2>8 DEF Shape
<1>16. ASSUME Running, NEW i \in Irp, Count(i)
     PROVE Shape'
  BY <1>16
     DEF Count, AddTo, AddToCount, Goto, Running, Shape, TypeOK, DetachLabel, Located, CreatedOnce,
         Reached, AttachedWhen, Held, Counted, Attached, Revived, Detached, Leaving,
         objVars, extVars, reqVars
<1>17. ASSUME Running, NEW i \in Irp, ClearEvent(i)
     PROVE Shape'
  BY <1>17
     DEF ClearEvent, Goto, Running, Shape, TypeOK, Located, CreatedOnce, Reached,
         AttachedWhen, Held, Counted, Attached, CanAcquire, ResourceReady, Revived, Detached,
         CountedLabel, Leaving, vars, objVars, extVars, reqVars
<1>18. ASSUME Running, NEW i \in Irp, CallDriver(i)
     PROVE Shape'
  BY <1>18
     DEF CallDriver, Goto, Running, Shape, TypeOK, Located, CreatedOnce, Reached,
         AttachedWhen, Held, Counted, Attached, CanAcquire, ResourceReady, Revived, Detached,
         CountedLabel, Leaving, vars, objVars, extVars, reqVars
<1>19. ASSUME Running, NEW i \in Irp, Refuse(i)
     PROVE Shape'
  BY <1>19
     DEF Refuse, Goto, Running, Shape, TypeOK, Located, CreatedOnce, Reached,
         AttachedWhen, Held, Counted, Attached, CanAcquire, ResourceReady, Revived, Detached,
         CountedLabel, Leaving, vars, objVars, extVars, reqVars
<1>22. ASSUME Running, NEW i \in Irp, Completion(i)
     PROVE Shape'
  <2>1. Located'
    BY <1>22
       DEF Completion, Goto, Located, CreatedOnce, Reached, AttachedWhen, Held,
           Counted, Shape, Running, TypeOK, Attached, CanAcquire, ResourceReady, Revived, Detached,
           CountedLabel, Leaving, objVars, extVars, reqVars
  <2>2. CreatedOnce'
    <3>1. CASE Goto(i, "decrement") /\ UNCHANGED vol
      BY <1>22, <3>1 DEF Completion, Goto, Shape, CreatedOnce, TypeOK, extVars
    <3>2. ASSUME NEW v \in VolumeDev, \A j \in Irp : vol[j] # v,
                 vol' = [vol EXCEPT ![i] = v], Goto(i, "queued"), UNCHANGED attach
          PROVE CreatedOnce'
      <4>1. attach[v] = "none"
        BY <3>2 DEF Shape, CreatedOnce
      <4>2. \A j \in Irp : vol'[j] = (IF j = i THEN v ELSE vol[j])
        BY <3>2 DEF TypeOK
      <4>3. \A j \in Irp : pc'[j] = (IF j = i THEN "queued" ELSE pc[j])
        BY <3>2 DEF TypeOK, Goto
      <4>4. vol[i] = NoDev
        BY <1>22 DEF Completion, Shape, CreatedOnce
      <4> QED
        BY <3>2, <4>1, <4>2, <4>3, <4>4 DEF Shape, CreatedOnce
    <3> QED
      BY <1>22, <3>1, <3>2 DEF Completion
  <2>3. Reached'
    BY <1>22
       DEF Completion, Goto, Located, CreatedOnce, Reached, AttachedWhen, Held,
           Counted, Shape, Running, TypeOK, Attached, CanAcquire, ResourceReady, Revived, Detached,
           CountedLabel, Leaving, objVars, extVars, reqVars
  <2>4. AttachedWhen'
    BY <1>22
       DEF Completion, Goto, Located, CreatedOnce, Reached, AttachedWhen, Held,
           Counted, Shape, Running, TypeOK, Attached, CanAcquire, ResourceReady, Revived, Detached,
           CountedLabel, Leaving, objVars, extVars, reqVars
  <2>5. Held'
    BY <1>22
       DEF Completion, Goto, Located, CreatedOnce, Reached, AttachedWhen, Held,
           Counted, Shape, Running, TypeOK, Attached, CanAcquire, ResourceReady, Revived, Detached,
           CountedLabel, Leaving, objVars, extVars, reqVars
  <2>6. Counted'
    BY <1>22
       DEF Completion, Goto, Located, CreatedOnce, Reached, AttachedWhen, Held,
           Counted, Shape, Running, TypeOK, Attached, CanAcquire, ResourceReady, Revived, Detached,
           CountedLabel, Leaving, objVars, extVars, reqVars
  <2> QED
    BY <2>1, <2>2, <2>3, <2>4, <2>5, <2>6 DEF Shape
<1>23. ASSUME Running, NEW i \in Irp, MountAttach(i)
     PROVE Shape'
  <2>1. Located'
    BY <1>23
       DEF MountAttach, CreateFilterDevice, CreateFails, Goto, Located, CreatedOnce,
           Reached, AttachedWhen, Held, Counted, Shape, Running, TypeOK, Attached,
           CanAcquire, ResourceReady, Revived, Detached, CountedLabel, Leaving, objVars, extVars, reqVars
  <2>2. CreatedOnce'
    BY <1>23
       DEF MountAttach, CreateFilterDevice, CreateFails, Goto, Located, CreatedOnce,
           Reached, AttachedWhen, Held, Counted, Shape, Running, TypeOK, Attached,
           CanAcquire, ResourceReady, Revived, Detached, CountedLabel, Leaving, objVars, extVars, reqVars
  <2>3. Reached'
    BY <1>23
       DEF MountAttach, CreateFilterDevice, CreateFails, Goto, Located, CreatedOnce,
           Reached, AttachedWhen, Held, Counted, Shape, Running, TypeOK, Attached,
           CanAcquire, ResourceReady, Revived, Detached, CountedLabel, Leaving, objVars, extVars, reqVars
  <2>4. AttachedWhen'
    BY <1>23
       DEF MountAttach, CreateFilterDevice, CreateFails, Goto, Located, CreatedOnce,
           Reached, AttachedWhen, Held, Counted, Shape, Running, TypeOK, Attached,
           CanAcquire, ResourceReady, Revived, Detached, CountedLabel, Leaving, objVars, extVars, reqVars
  <2>5. Held'
    BY <1>23
       DEF MountAttach, CreateFilterDevice, CreateFails, Goto, Located, CreatedOnce,
           Reached, AttachedWhen, Held, Counted, Shape, Running, TypeOK, Attached,
           CanAcquire, ResourceReady, Revived, Detached, CountedLabel, Leaving, objVars, extVars, reqVars
  <2>6. Counted'
    <3>1. vol[i] \in Dev /\ attach[vol[i]] = "none" /\ vol[i] # ControlDev
      BY <1>23 DEF MountAttach, Shape, Located, CreatedOnce
    <3>2. \A j \in Irp : pc[j] # "unsent" => dev[j] \in Dev /\ dev[j] # vol[i]
      BY <3>1 DEF Shape, Reached, Located
    <3>3. \A d \in Dev : d # vol[i] => flags'[d] = flags[d]
      BY <1>23, <3>1 DEF MountAttach, CreateFilterDevice, CreateFails, TypeOK, extVars
    <3>4. \A j \in Irp : pc'[j] \in {"count", "clear"} => pc'[j] = pc[j]
      BY <1>23 DEF MountAttach, Goto, TypeOK
    <3>6. UNCHANGED <<dev, detach>>
      BY <1>23 DEF MountAttach
    <3> QED
      BY <3>2, <3>3, <3>4, <3>6 DEF Shape, Counted, Attached, Revived, Detached
  <2> QED
    BY <2>1, <2>2, <2>3, <2>4, <2>5, <2>6 DEF Shape
<1>24. ASSUME Running, NEW i \in Irp, MountAttached(i)
     PROVE Shape'
  <2>1. /\ UNCHANGED <<objVars, flags, owner, attach, detach, dev, vol>>
        /\ pc[i] = "attaching"
        /\ \/ pc' = [pc EXCEPT ![i] = "unmark"] /\ attach[vol[i]] = "attached"
           \/ pc' = [pc EXCEPT ![i] = "decrement"]
    BY <1>24 DEF MountAttached, Goto, extVars
  <2>2. Located' /\ CreatedOnce' /\ Reached'
    BY <2>1 DEF Shape, TypeOK, Located, CreatedOnce, Reached, Attached, objVars
  <2>3. AttachedWhen' /\ Held'
    BY <2>1 DEF Shape, TypeOK, AttachedWhen, Held, Attached, objVars
  <2>4. Counted'
    BY <2>1 DEF Shape, TypeOK, Counted, Attached, Revived, Detached
  <2> QED
    BY <2>2, <2>3, <2>4 DEF Shape
<1>25. ASSUME Running, NEW i \in Irp, UnmarkFsd(i)
     PROVE Shape'
  BY <1>25
     DEF UnmarkFsd, FlagsSince, Goto, Running, Shape, TypeOK, Located, CreatedOnce, Reached,
         AttachedWhen, Held, Counted, Attached, CanAcquire, ResourceReady, Revived, Detached,
         CountedLabel, Leaving, vars, objVars, extVars, reqVars
<1>26. ASSUME Running, NEW i \in Irp, Decrement(i)
     PROVE Shape'
  BY <1>26
     DEF Decrement, AddTo, AddToCount, Goto, Running, Shape, TypeOK, Located, CreatedOnce, Reached,
         AttachedWhen, Held, Counted, Attached, CanAcquire, ResourceReady, Revived, Detached,
         CountedLabel, Leaving, vars, objVars, extVars, reqVars
<1>27. ASSUME Running, NEW i \in Irp, TestZero(i)
     PROVE Shape'
  BY <1>27
     DEF TestZero, Goto, Running, Shape, TypeOK, Located, CreatedOnce, Reached,
         AttachedWhen, Held, Counted, Attached, CanAcquire, ResourceReady, Revived, Detached,
         CountedLabel, Leaving, vars, objVars, extVars, reqVars
<1>28. ASSUME Running, NEW i \in Irp, SetEvent(i)
     PROVE Shape'
  BY <1>28
     DEF SetEvent, Goto, Running, Shape, TypeOK, Located, CreatedOnce, Reached,
         AttachedWhen, Held, Counted, Attached, CanAcquire, ResourceReady, Revived, Detached,
         CountedLabel, Leaving, vars, objVars, extVars, reqVars
<1>29. ASSUME NEW i \in Irp, TouchDeleted(i)
     PROVE Shape'
  BY <1>29
     DEF TouchDeleted, Shape, TypeOK, Located, CreatedOnce, Reached, AttachedWhen,
         Held, Counted, Attached, CanAcquire, ResourceReady, Revived, Detached, CountedLabel, Leaving,
         vars, objVars, extVars, reqVars
<1>30. ASSUME UNCHANGED vars
     PROVE Shape'
  BY <1>30
     DEF Shape, TypeOK, Located, CreatedOnce, Reached, AttachedWhen, Held, Counted,
         Attached, CanAcquire, ResourceReady, Revived, Detached, CountedLabel, Leaving, vars, objVars,
         extVars, reqVars
<1> QED
  BY <1>1, <1>2, <1>3, <1>4, <1>5, <1>6, <1>7, <1>8, <1>9, <1>10, <1>11, <1>12, <1>13,
      <1>14, <1>15, <1>16, <1>17, <1>18, <1>19, <1>22, <1>23, <1>24,
      <1>25, <1>26, <1>27, <1>28, <1>29, <1>30
     DEF Next, Environment, DeviceStep, RequestStep
-----------------------------------------------------------------------------
(* The count is exact *)

\* One step of requests leaves the set of counted requests of a device alone.
SameInside ==
  \A d \in Dev, i \in Irp :
    (dev'[i] = d /\ pc'[i] \in CountedLabel) <=> (dev[i] = d /\ pc[i] \in CountedLabel)

\* A step that changes neither a count nor who is inside keeps the counts exact.
LEMMA ExactWhenSame ==
  ASSUME CountsBalance, SameInside, UNCHANGED balance
  PROVE  CountsBalance'
<1>1. \A d \in Dev : Inside(d)' = Inside(d)
  BY DEF SameInside, Inside
<1> QED
  BY <1>1 DEF CountsBalance

\* A device under creation has had no request yet.
LEMMA NothingInsideNew ==
  ASSUME Reached, NEW d \in Dev, d # ControlDev, attach[d] = "none"
  PROVE  Inside(d) = {}
BY DevFacts DEF Inside, Reached

\* A new extension starts its count at 0 with nobody inside.
LEMMA ExactWhenCreated ==
  ASSUME TypeOK, CountsBalance, Reached, SameInside,
         NEW d \in Dev, d # ControlDev, attach[d] = "none",
         CreateFilterDevice(d) \/ CreateFails(d)
  PROVE  CountsBalance'
<1>1. \A x \in Dev : Inside(x)' = Inside(x)
  BY DEF SameInside, Inside
<1>2. CASE CreateFails(d)
  BY <1>2, ExactWhenSame DEF CreateFails, extVars
<1>3. CASE CreateFilterDevice(d)
  <2>1. Cardinality(Inside(d)) = 0
    BY NothingInsideNew, FS_EmptySet
  <2>2. \A x \in Dev : balance'[x] = (IF x = d THEN 0 ELSE balance[x])
    BY <1>3 DEF CreateFilterDevice, TypeOK
  <2> QED
    BY <1>1, <2>1, <2>2 DEF CountsBalance
<1> QED
  BY <1>2, <1>3

\* The count moves with the set of requests inside: only Count and Decrement change either.
LEMMA ExactStep ==
  ASSUME TypeOK, Shape, CountsBalance, [Next]_vars
  PROVE  CountsBalance'
<1> USE DevFacts, ThreadAssumption
<1>1. ASSUME Running, NEW i \in Irp, Count(i)
      PROVE  CountsBalance'
  <2>0. PICK D \in Dev : dev[i] = D
    BY <1>1 DEF Count, Shape, Located
  <2>1. i \notin Inside(D)
    BY <1>1, <2>0 DEF Count, Inside, CountedLabel
  <2>2. /\ \A x \in Dev : balance'[x] = (IF x = D THEN balance[D] + 1 ELSE balance[x])
        /\ \A j \in Irp : pc'[j] = (IF j = i THEN "clear" ELSE pc[j])
    BY <1>1, <2>0 DEF Count, Goto, AddTo, AddToCount, TypeOK
  <2>3. /\ Inside(D)' = Inside(D) \cup {i}
        /\ \A x \in Dev : x # D => Inside(x)' = Inside(x)
    BY <1>1, <2>0, <2>1, <2>2 DEF Count, Inside, CountedLabel
  <2>4. Cardinality(Inside(D) \cup {i}) = Cardinality(Inside(D)) + 1
    BY <2>1, InsideFinite, FS_AddElement
  <2> QED
    BY <2>1, <2>2, <2>3, <2>4 DEF CountsBalance
<1>2. ASSUME Running, NEW i \in Irp, Decrement(i)
      PROVE  CountsBalance'
  <2>0. PICK D \in Dev : dev[i] = D
    BY <1>2 DEF Decrement, Shape, Located
  <2>1. i \in Inside(D)
    BY <1>2, <2>0 DEF Decrement, Inside, CountedLabel
  <2>2. /\ \A x \in Dev : balance'[x] = (IF x = D THEN balance[D] - 1 ELSE balance[x])
        /\ \A j \in Irp : pc'[j] = (IF j = i THEN "test" ELSE pc[j])
    BY <1>2, <2>0 DEF Decrement, Goto, AddTo, AddToCount, TypeOK
  <2>3. /\ Inside(D)' = Inside(D) \ {i}
        /\ \A x \in Dev : x # D => Inside(x)' = Inside(x)
    BY <1>2, <2>0, <2>1, <2>2 DEF Decrement, Inside, CountedLabel
  <2>4. Cardinality(Inside(D) \ {i}) = Cardinality(Inside(D)) - 1
    BY <2>1, InsideFinite, FS_RemoveElement
  <2> QED
    BY <2>1, <2>2, <2>3, <2>4 DEF CountsBalance
<1>3. ASSUME Running, NEW d \in Dev, FSDNotification(d)
      PROVE  CountsBalance'
  <2>1. SameInside
    BY <1>3 DEF FSDNotification, SameInside, reqVars
  <2> QED
    BY <1>3, <2>1, ExactWhenCreated DEF FSDNotification, Shape
<1>4. ASSUME Running, NEW i \in Irp, MountAttach(i)
      PROVE  CountsBalance'
  <2>1. SameInside
    BY <1>4 DEF MountAttach, Goto, TypeOK, SameInside, CountedLabel
  <2>2. vol[i] \in Dev /\ vol[i] # ControlDev /\ attach[vol[i]] = "none"
    BY <1>4 DEF MountAttach, Shape, Located, CreatedOnce
  <2> QED
    BY <1>4, <2>1, <2>2, ExactWhenCreated DEF MountAttach, Shape
<1>5. ASSUME NEW i \in Irp,
             \/ Precheck(i) \/ DefaultDispatch(i) \/ MountDispatch(i) \/ ClearEvent(i)
             \/ CallDriver(i) \/ Refuse(i)
             \/ StrayCompletion(i)
      PROVE  CountsBalance'
  <2>1. SameInside /\ UNCHANGED balance
    BY <1>5
       DEF Precheck, DefaultDispatch, MountDispatch, ClearEvent, CallDriver, Refuse, StrayCompletion, RefuseWith, Goto, TypeOK, SameInside,
           CountedLabel, extVars
  <2> QED
    BY <2>1, ExactWhenSame
<1>6. ASSUME NEW i \in Irp,
             \/ Completion(i) \/ MountAttached(i) \/ UnmarkFsd(i) \/ TestZero(i)
             \/ SetEvent(i) \/ TouchDeleted(i)
             \/ \E d \in Dev, k \in SentKind : Send(i, d, k)
      PROVE  CountsBalance'
  <2>1. CASE \E d \in Dev, k \in SentKind : Send(i, d, k)
    <3>1. SameInside /\ UNCHANGED balance
      BY <2>1, SentAssumption
         DEF Kind, Send, EntryLabel, Goto, TypeOK, SameInside, CountedLabel, extVars
    <3> QED
      BY <3>1, ExactWhenSame
  <2>2. CASE ~ \E d \in Dev, k \in SentKind : Send(i, d, k)
    <3>1. SameInside /\ UNCHANGED balance
      BY <1>6, <2>2
         DEF Completion, MountAttached, UnmarkFsd, TestZero, SetEvent, TouchDeleted,
             Goto, TypeOK, SameInside, CountedLabel, extVars, reqVars
    <3> QED
      BY <3>1, ExactWhenSame
  <2> QED
    BY <2>1, <2>2
<1>7. ASSUME NEW d \in Dev, FastIoDetachDevice(d) \/ DeviceStep(d)
      PROVE  CountsBalance'
  <2>1. SameInside /\ UNCHANGED balance
    BY <1>7
       DEF FastIoDetachDevice, DeviceStep, IoAttach, FinishAttach, DetachTest, DetachWait,
           DetachDevice, DeleteDevExtension, DeleteResource, DeleteDevice, SameInside,
           extVars, reqVars
  <2> QED
    BY <2>1, ExactWhenSame
<1>8. ASSUME UNCHANGED vars
      PROVE  CountsBalance'
  BY <1>8, ExactWhenSame DEF vars, extVars, reqVars, SameInside
<1> QED
  BY <1>1, <1>2, <1>3, <1>4, <1>5, <1>6, <1>7, <1>8
     DEF Next, Environment, RequestStep
-----------------------------------------------------------------------------
(* The invariant and what follows from it *)

\* With only the control device present the invariant holds.
LEMMA InitIInv == Init => IInv
<1> SUFFICES ASSUME Init
             PROVE  IInv
  OBVIOUS
<1> USE DevFacts, ThreadAssumption, MacroAssumption
<1>1. TypeOK
  <2>1. /\ "none" \in AttachLabel /\ "idle" \in DetachLabel /\ "unsent" \in PcLabel
        /\ "default" \in Kind /\ "none" \in Answer
    BY DEF AttachLabel, DetachLabel, PcLabel, Kind, Answer
  <2>2. flags \in [Dev -> SUBSET Flag]
    BY DEF Init
  <2>3. present \subseteq Dev /\ stack \subseteq Dev
    BY DEF Init
  <2>4. /\ owner \in [Dev -> Irp \cup {Attacher, Detacher, Nobody}]
        /\ outstanding \in [Dev -> Int]
        /\ balance \in [Dev -> Int]
        /\ event \in [Dev -> BOOLEAN]
    BY DEF Init
  <2>5. attach \in [Dev -> AttachLabel] /\ detach \in [Dev -> DetachLabel]
    BY <2>1 DEF Init
  <2>6. /\ pc \in [Irp -> PcLabel] /\ kind \in [Irp -> Kind]
        /\ answer \in [Irp -> Answer]
    BY <2>1 DEF Init
  <2>7. /\ dev \in [Irp -> Dev \cup {NoDev}] /\ vol \in [Irp -> VolumeDev \cup {NoDev}]
        /\ stray \in [Irp -> BOOLEAN] /\ bugcheck \in BOOLEAN
    BY DEF Init
  <2> QED
    BY <2>2, <2>3, <2>4, <2>5, <2>6, <2>7 DEF TypeOK
<1>2. \A d \in Dev : ~Attached(d)
  BY DEF Init, Attached
<1>5. Located /\ CreatedOnce /\ Counted /\ CountKept
  BY DEF Init, Located, CreatedOnce, Counted, CountKept
<1>6. Reached
  BY <1>2 DEF Init, Reached
<1>8. AttachedWhen
  BY <1>2 DEF Init, AttachedWhen, Leaving
<1>7. Held
  BY DEF Init, Held
<1>3. \A d \in Dev : Inside(d) = {}
  BY DEF Init, Inside, CountedLabel
<1>4. CountsBalance
  BY <1>3, FS_EmptySet DEF Init, CountsBalance
<1> QED
  BY <1>1, <1>4, <1>5, <1>6, <1>7, <1>8 DEF IInv

\* What the macros store follows from what they are asked to add.
LEMMA CountKeptStep ==
  ASSUME TypeOK, Shape, CountKept, [Next]_vars
  PROVE  CountKept'
<1> USE DevFacts
<1>1. ASSUME NEW d \in Dev, NEW k \in Int, AddToCount(d, k)
      PROVE  CountKept'
  BY <1>1, MacroAssumption DEF AddToCount, AddTo, CountKept, TypeOK
<1>2. ASSUME NEW d \in Dev, CreateFilterDevice(d) \/ CreateFails(d)
      PROVE  CountKept'
  BY <1>2 DEF CreateFilterDevice, CreateFails, CountKept, TypeOK, extVars
<1>3. ASSUME UNCHANGED <<outstanding, balance>>
      PROVE  CountKept'
  BY <1>3 DEF CountKept
<1>4. ASSUME NEW i \in Irp, Count(i) \/ Decrement(i) \/ MountAttach(i)
      PROVE  CountKept'
  <2>1. pc[i] \in {"count", "decrement"} => dev[i] \in Dev
    BY DEF Shape, Located
  <2>2. pc[i] = "queued" => vol[i] \in Dev
    BY DEF Shape, Located
  <2> QED
    BY <1>1, <1>2, <1>4, <2>1, <2>2 DEF Count, Decrement, MountAttach
<1>5. ASSUME NEW i \in Irp, RequestStep(i), ~Count(i), ~Decrement(i), ~MountAttach(i)
      PROVE  UNCHANGED <<outstanding, balance>>
  BY <1>5
     DEF RequestStep, Precheck, DefaultDispatch, MountDispatch, ClearEvent, CallDriver, Refuse,
         Completion, MountAttached, UnmarkFsd, TestZero, SetEvent, TouchDeleted, extVars
<1>6. ASSUME NEW d \in Dev, DeviceStep(d)
      PROVE  UNCHANGED <<outstanding, balance>>
  BY <1>6
     DEF DeviceStep, IoAttach, FinishAttach, DetachTest, DetachWait, DetachDevice,
         DeleteDevExtension, DeleteResource, DeleteDevice, extVars
<1>7. ASSUME Environment
      PROVE  CountKept'
  BY <1>2, <1>3, <1>7
     DEF Environment, FSDNotification, FastIoDetachDevice, StrayCompletion, Send, extVars
<1> QED
  BY <1>3, <1>4, <1>5, <1>6, <1>7 DEF Next, vars, extVars

\* Every step keeps the invariant.
LEMMA NextIInv == IInv /\ [Next]_vars => IInv'
BY TypeStep, ShapeStep, ExactStep, CountKeptStep DEF IInv, Shape

\* The invariant holds in every reachable state.
LEMMA Invariance == Spec => []IInv
BY InitIInv, NextIInv, PTL DEF Spec

\* The state of the driver always has its type: no step leaves a label, a flag
\* or a count outside the sets the source uses.
THEOREM TypeCorrect == Spec => []TypeOK
<1>1. IInv => TypeOK
  BY DEF IInv
<1> QED
  BY <1>1, Invariance, PTL

\* Between the look at ATTACHED and the release of the resource, a request that
\* is being counted keeps its device attached, on the stack and in memory,
\* unless the device was revived.  Nothing is assumed of the macros.
THEOREM DeviceHeldWhileCounted == Spec => []CountedWhileAttached
<1>1. IInv => CountedWhileAttached
  <2> SUFFICES ASSUME IInv, NEW i \in Irp, pc[i] \in {"count", "clear"}
               PROVE  /\ Attached(dev[i])
                      /\ Revived(dev[i]) \/ (dev[i] \in present \cap stack /\ ~Detached(dev[i]))
    BY DEF CountedWhileAttached
  <2>1. dev[i] \in Dev
    BY DEF IInv, Located
  <2>2. Attached(dev[i]) /\ (detach[dev[i]] \in {"idle", "acquire", "wait"} \/ Revived(dev[i]))
    BY DEF IInv, Counted
  <2>3. attach[dev[i]] \in {"joined", "attached"}
    BY <2>1, <2>2, DevFacts DEF IInv, Reached
  <2> QED
    BY <2>1, <2>2, <2>3 DEF IInv, AttachedWhen, Detached, Leaving
<1> QED
  BY <1>1, Invariance, PTL

\* The increments less the decrements are the requests with a completion still
\* to come, whatever drivers below do with our routine and whatever the macros
\* store.
THEOREM IncrementsMatchRequests == Spec => []CountsBalance
<1>1. IInv => CountsBalance
  BY DEF IInv
<1> QED
  BY <1>1, Invariance, PTL
-----------------------------------------------------------------------------
(* Refusals *)

\* A request not yet sent has no answer; a refused one came too late.
RefusedInv ==
  /\ RefusedOnlyAfterDetach
  /\ \A i \in Irp : pc[i] = "unsent" => answer[i] # "refused"

\* A thread that got the resource of a device that is not attached is at the
\* control device or comes after a detach.
LEMMA FreeAndNotAttached ==
  ASSUME IInv, NEW i \in Irp, pc[i] # "unsent", ~Attached(dev[i]),
         owner[dev[i]] = Nobody
  PROVE  dev[i] = ControlDev \/ detach[dev[i]] \in Leaving
<1>1. dev[i] \in Dev
  BY DEF IInv, Located
<1>2. CASE dev[i] # ControlDev
  <2>1. attach[dev[i]] \in {"joined", "attached"}
    BY <1>1, <1>2, DevFacts DEF IInv, Reached
  <2>2. attach[dev[i]] # "joined"
    BY <1>1, <1>2, ThreadAssumption DEF IInv, Held
  <2> QED
    BY <1>1, <2>1, <2>2 DEF IInv, AttachedWhen
<1> QED
  BY <1>2

\* A detach past the point of detaching never goes back.
LEMMA LeavingStep ==
  ASSUME IInv, [Next]_vars, NEW d \in Dev, detach[d] \in Leaving
  PROVE  detach'[d] \in Leaving
<1> USE DevFacts
<1>1. ASSUME NEW e \in Dev, DeviceStep(e)
      PROVE  detach'[d] \in Leaving
  BY <1>1
     DEF DeviceStep, IoAttach, FinishAttach, DetachTest, DetachWait, DetachDevice,
         DeleteDevExtension, DeleteResource, DeleteDevice, Leaving, IInv, TypeOK, Reached
<1>2. ASSUME NEW i \in Irp, RequestStep(i)
      PROVE  UNCHANGED detach
  BY <1>2
     DEF RequestStep, Precheck, DefaultDispatch, MountDispatch, Count, ClearEvent, CallDriver,
         Refuse, Completion, MountAttach, MountAttached, UnmarkFsd,
         Decrement, TestZero, SetEvent, TouchDeleted
<1>3. ASSUME Environment
      PROVE  detach'[d] \in Leaving
  BY <1>3
     DEF Environment, FSDNotification, FastIoDetachDevice, StrayCompletion, Send, Leaving,
         IInv, TypeOK
<1> QED
  BY <1>1, <1>2, <1>3 DEF Next, vars

\* The answer "refused" was given before, or is given in this step by a thread
\* that has just seen, with the resource in hand, that the device is not attached.
RefusedNow(i) ==
  /\ pc[i] # "unsent" /\ pc'[i] # "unsent" /\ dev'[i] = dev[i]
  /\ \/ answer[i] = "refused"
     \/ ~Attached(dev[i]) /\ owner[dev[i]] = Nobody

\* An answer of "refused" comes from a dispatch routine that saw ATTACHED clear.
LEMMA RefusedOnce ==
  ASSUME IInv, RefusedInv, [Next]_vars, NEW i \in Irp, answer'[i] = "refused"
  PROVE  RefusedNow(i)
<1> USE DEF IInv, TypeOK, RefusedInv, RefusedNow
<1>1. ASSUME NEW j \in Irp, Precheck(j)
      PROVE  RefusedNow(i)
  BY <1>1 DEF Precheck, RefuseWith, Refusal, Answered, Goto, CanAcquire
<1>2. ASSUME NEW j \in Irp, DefaultDispatch(j)
      PROVE  RefusedNow(i)
  BY <1>2 DEF DefaultDispatch, RefuseWith, Answered, Goto, CanAcquire
<1>3. ASSUME NEW j \in Irp, MountDispatch(j)
      PROVE  RefusedNow(i)
  BY <1>3 DEF MountDispatch, RefuseWith, Answered, Goto, CanAcquire
<1>6. ASSUME NEW j \in Irp,
             \/ Count(j) \/ ClearEvent(j) \/ CallDriver(j) \/ Refuse(j) \/ Completion(j)
             \/ MountAttach(j) \/ MountAttached(j) \/ UnmarkFsd(j) \/ Decrement(j)
             \/ TestZero(j) \/ SetEvent(j) \/ StrayCompletion(j) \/ TouchDeleted(j)
      PROVE  RefusedNow(i)
  BY <1>6
     DEF Count, ClearEvent, CallDriver, Refuse, Completion, MountAttach, MountAttached,
         UnmarkFsd, Decrement, TestZero, SetEvent, StrayCompletion, TouchDeleted, Goto,
         reqVars
<1>7. ASSUME NEW j \in Irp, NEW d \in Dev, NEW k \in SentKind, Send(j, d, k)
      PROVE  RefusedNow(i)
  BY <1>7 DEF Send, Goto
<1>8. ASSUME UNCHANGED reqVars
      PROVE  RefusedNow(i)
  BY <1>8 DEF reqVars
<1>9. ASSUME NEW d \in Dev, FSDNotification(d) \/ FastIoDetachDevice(d) \/ DeviceStep(d)
      PROVE  UNCHANGED reqVars
  BY <1>9
     DEF FSDNotification, FastIoDetachDevice, DeviceStep, IoAttach, FinishAttach, DetachTest,
         DetachWait, DetachDevice, DeleteDevExtension, DeleteResource, DeleteDevice
<1> QED
  BY <1>1, <1>2, <1>3, <1>6, <1>7, <1>8, <1>9
     DEF Next, Environment, RequestStep, vars

\* Every step keeps the detaches ahead of the refusals.
LEMMA RefusedStep ==
  IInv /\ RefusedInv /\ [Next]_vars => RefusedInv'
<1> SUFFICES ASSUME IInv, RefusedInv, [Next]_vars, NEW i \in Irp, answer'[i] = "refused"
             PROVE  /\ dev'[i] = ControlDev \/ detach'[dev'[i]] \in Leaving
                    /\ pc'[i] # "unsent"
  BY DEF RefusedInv, RefusedOnlyAfterDetach, Detached, Leaving
<1>1. RefusedNow(i)
  BY RefusedOnce
<1>2. dev[i] \in Dev
  BY <1>1 DEF RefusedNow, IInv, Located
<1>3. dev[i] = ControlDev \/ detach[dev[i]] \in Leaving
  BY <1>1, FreeAndNotAttached
     DEF RefusedNow, RefusedInv, RefusedOnlyAfterDetach, Detached, Leaving
<1> QED
  BY <1>1, <1>2, <1>3, LeavingStep DEF RefusedNow

\* No request is turned away because it came before the attach was finished:
\* one that is refused was overtaken by a detach of its device.
THEOREM RefusedLate == Spec => []RefusedOnlyAfterDetach
<1>1. Init => RefusedInv
  BY DEF Init, RefusedInv, RefusedOnlyAfterDetach
<1>2. IInv /\ RefusedInv /\ [Next]_vars => RefusedInv'
  BY RefusedStep
<1>3. RefusedInv => RefusedOnlyAfterDetach
  BY DEF RefusedInv
<1> QED
  BY <1>1, <1>2, <1>3, Invariance, PTL DEF Spec
-----------------------------------------------------------------------------
(* Wake-ups *)

\* Someone who will still signal the event of device d, or decide not to
\* because of another such request.
Wakers(d) == {i \in Irp : dev[i] = d /\ pc[i] \in CountedLabel \cup {"test", "signal"}}

\* A count that is not 0 leaves somebody who will wake a sleeping detach.
LEMMA SomeoneInside ==
  ASSUME CountsBalance, CountKept, NEW d \in Dev, outstanding[d] # 0
  PROVE  Wakers(d) # {}
<1>1. Inside(d) # {}
  BY FS_EmptySet DEF CountsBalance, CountKept
<1> QED
  BY <1>1 DEF Inside, Wakers

\* Every step keeps a waker for each detach that sleeps on a cleared event.
LEMMA WakeupStep ==
  ASSUME IInv, NoLostWakeup, [Next]_vars
  PROVE  NoLostWakeup'
<1> SUFFICES ASSUME NEW d \in Dev, detach'[d] = "wait", ~event'[d], Wakers(d)' = {}
             PROVE  FALSE
  BY DEF NoLostWakeup, Wakers
<1> USE DEF IInv, TypeOK
<1>0. detach[d] = "wait" /\ ~event[d] => Wakers(d) # {}
  BY DEF NoLostWakeup, Wakers
<1>1. ASSUME NEW e \in Dev, DetachTest(e)
      PROVE  FALSE
  <2>1. Wakers(d)' = Wakers(d)
    BY <1>1 DEF DetachTest, Wakers, reqVars
  <2>2. CASE outstanding[d] # 0
    BY <2>1, <2>2, SomeoneInside
  <2>3. CASE outstanding[d] = 0
    BY <1>0, <1>1, <2>1, <2>3 DEF DetachTest
  <2> QED
    BY <2>2, <2>3
<1>2. ASSUME NEW e \in Dev,
             \/ IoAttach(e) \/ FinishAttach(e) \/ DetachWait(e) \/ DetachDevice(e)
             \/ DeleteDevExtension(e) \/ DeleteResource(e) \/ DeleteDevice(e)
             \/ FastIoDetachDevice(e)
      PROVE  FALSE
  <2>1. detach[d] = "wait" /\ event'[d] = event[d] /\ UNCHANGED reqVars
    BY <1>2
       DEF IoAttach, FinishAttach, DetachWait, DetachDevice, DeleteDevExtension,
           DeleteResource, DeleteDevice, FastIoDetachDevice, extVars
  <2>2. Wakers(d)' = Wakers(d)
    BY <2>1 DEF Wakers, reqVars
  <2> QED
    BY <1>0, <2>1, <2>2
<1>3. ASSUME NEW e \in Dev, FSDNotification(e)
      PROVE  FALSE
  <2>1. detach[d] = "wait" /\ Wakers(d)' = Wakers(d) /\ attach[e] = "none"
    BY <1>3 DEF FSDNotification, Wakers, reqVars
  <2>2. d # e
    BY <2>1 DEF Reached
  <2>3. event'[d] = event[d]
    BY <1>3, <2>2 DEF FSDNotification, CreateFilterDevice, CreateFails, extVars
  <2> QED
    BY <1>0, <2>1, <2>3
<1>4. ASSUME NEW i \in Irp, MountAttach(i)
      PROVE  FALSE
  <2>1. detach[d] = "wait" /\ attach[vol[i]] = "none" /\ vol[i] \in Dev
    BY <1>4, DevFacts DEF MountAttach, CreatedOnce, Located
  <2>2. d # vol[i]
    BY <2>1 DEF Reached
  <2>3. event'[d] = event[d]
    BY <1>4, <2>2 DEF MountAttach, CreateFilterDevice, CreateFails, extVars
  <2>4. Wakers(d) \subseteq Wakers(d)'
    BY <1>4 DEF MountAttach, Goto, Wakers, CountedLabel
  <2> QED
    BY <1>0, <2>1, <2>3, <2>4
\* Clearing the event: the thread that clears it is itself one to signal it.
<1>5. ASSUME NEW i \in Irp, ClearEvent(i)
      PROVE  FALSE
  <2>1. detach[d] = "wait" /\ (dev[i] # d => event'[d] = event[d])
    BY <1>5 DEF ClearEvent
  <2>2. dev[i] = d => i \in Wakers(d)'
    BY <1>5 DEF ClearEvent, Goto, Wakers, CountedLabel
  <2>3. Wakers(d) \subseteq Wakers(d)'
    BY <1>5 DEF ClearEvent, Goto, Wakers, CountedLabel
  <2> QED
    BY <1>0, <2>1, <2>2, <2>3
\* Going away without signalling: the count was not zero, so another is inside.
<1>6. ASSUME NEW i \in Irp, TestZero(i)
      PROVE  FALSE
  <2>1. detach[d] = "wait" /\ event' = event
    BY <1>6 DEF TestZero, extVars
  <2>2. CASE dev[i] = d /\ outstanding[d] # 0
    <3>1. PICK j \in Inside(d) : TRUE
      BY <2>2, FS_EmptySet DEF CountsBalance, CountKept
    <3>2. j # i
      BY <1>6, <3>1 DEF TestZero, Inside, CountedLabel
    <3>3. j \in Wakers(d)'
      BY <1>6, <3>1, <3>2 DEF TestZero, Goto, Inside, Wakers
    <3> QED
      BY <3>3
  <2>3. CASE ~(dev[i] = d /\ outstanding[d] # 0)
    <3>1. Wakers(d) \subseteq Wakers(d)'
      BY <1>6, <2>3 DEF TestZero, Goto, Wakers
    <3> QED
      BY <1>0, <2>1, <3>1
  <2> QED
    BY <2>2, <2>3
<1>7. ASSUME NEW i \in Irp, SetEvent(i)
      PROVE  FALSE
  <2>1. detach[d] = "wait" /\ dev[i] # d /\ event'[d] = event[d]
    BY <1>7 DEF SetEvent, Located
  <2>2. Wakers(d) \subseteq Wakers(d)'
    BY <1>7, <2>1 DEF SetEvent, Goto, Wakers
  <2> QED
    BY <1>0, <2>1, <2>2
<1>8. ASSUME NEW i \in Irp,
             \/ Precheck(i) \/ DefaultDispatch(i) \/ MountDispatch(i) \/ Count(i)
             \/ CallDriver(i) \/ Refuse(i)
      PROVE  FALSE
  <2>1. detach[d] = "wait" /\ event' = event
    BY <1>8
       DEF Precheck, DefaultDispatch, MountDispatch, Count, CallDriver, Refuse, extVars
  <2>2. Wakers(d) \subseteq Wakers(d)'
    BY <1>8
       DEF Precheck, DefaultDispatch, MountDispatch, Count, CallDriver, Refuse, RefuseWith, Goto, Wakers, CountedLabel
  <2> QED
    BY <1>0, <2>1, <2>2
<1>9. ASSUME NEW i \in Irp,
             \/ Completion(i) \/ MountAttached(i) \/ UnmarkFsd(i) \/ Decrement(i)
             \/ StrayCompletion(i) \/ TouchDeleted(i)
      PROVE  FALSE
  <2>1. detach[d] = "wait" /\ event' = event
    BY <1>9
       DEF Completion, MountAttached, UnmarkFsd, Decrement, StrayCompletion, TouchDeleted,
           extVars
  <2>2. Wakers(d) \subseteq Wakers(d)'
    BY <1>9
       DEF Completion, MountAttached, UnmarkFsd, Decrement, StrayCompletion, TouchDeleted,
           Goto, Wakers, CountedLabel, reqVars
  <2> QED
    BY <1>0, <2>1, <2>2
<1>10. ASSUME NEW i \in Irp, NEW e \in Dev, NEW k \in SentKind, Send(i, e, k)
       PROVE  FALSE
  <2>1. detach[d] = "wait" /\ event' = event
    BY <1>10 DEF Send, extVars
  <2>2. Wakers(d) \subseteq Wakers(d)'
    BY <1>10 DEF Send, Goto, Wakers, CountedLabel
  <2> QED
    BY <1>0, <2>1, <2>2
<1>11. ASSUME UNCHANGED vars
       PROVE  FALSE
  <2>1. detach[d] = "wait" /\ event' = event /\ Wakers(d)' = Wakers(d)
    BY <1>11 DEF vars, extVars, reqVars, Wakers
  <2> QED
    BY <1>0, <2>1
<1> QED
  BY <1>1, <1>2, <1>3, <1>4, <1>5, <1>6, <1>7, <1>8, <1>9, <1>10, <1>11
     DEF Next, Environment, DeviceStep, RequestStep

\* A detach that sleeps on an unsignalled event is never forgotten: some request
\* has yet to reach the place that signals it.  Macros that drop the sum let no
\* detach sleep; for macros that store it the exact count is what matters.
THEOREM WakeupNotLost == Spec => []NoLostWakeup
<1>1. Init => NoLostWakeup
  BY DEF Init, NoLostWakeup
<1>2. IInv /\ NoLostWakeup /\ [Next]_vars => NoLostWakeup'
  BY WakeupStep
<1> QED
  BY <1>1, <1>2, Invariance, PTL DEF Spec
-----------------------------------------------------------------------------
(* The mark of a file system driver's own device object *)

MarkedFsd(d) == "ATTACHED_FSD" \in flags[d]
MountOver    == {"decrement", "test", "signal", "done"}

\* The mark is set when an attach is finished, so the mount waits for that.
MarkInv ==
  /\ \A d \in Dev : detach[d] \in Leaving \/ attach[d] \in {"none", "created"} => ~MarkedFsd(d)
  /\ \A i \in Irp : pc[i] \in MountOver /\ vol[i] # NoDev =>
       /\ attach[vol[i]] \in {"attached", "failed"}
       /\ ~MarkedFsd(vol[i]) \/ detach[vol[i]] = "detach"

\* Every step keeps the mark away from the volume of a mount that is over.
LEMMA MarkStep ==
  IInv /\ MarkInv /\ [Next]_vars => MarkInv'
<1> SUFFICES ASSUME IInv, MarkInv, [Next]_vars
             PROVE  MarkInv'
  OBVIOUS
<1> USE DevFacts DEF IInv, MarkInv, MarkedFsd, MountOver
<1>1. ASSUME NEW d \in Dev, IoAttach(d) \/ FastIoDetachDevice(d) \/ DetachTest(d)
                            \/ DetachWait(d) \/ DeleteDevice(d)
      PROVE  MarkInv'
  <2>1. CASE IoAttach(d)
    <3>1. \A e \in Dev :
            \/ attach'[e] = attach[e]
            \/ attach[e] = "created" /\ attach'[e] \in {"joined", "rejected"}
      BY <2>1 DEF IoAttach, TypeOK
    <3>2. UNCHANGED <<flags, detach, pc, vol>>
      BY <2>1 DEF IoAttach, extVars, reqVars
    <3> QED
      BY <3>1, <3>2 DEF Located, TypeOK
  <2>2. CASE FastIoDetachDevice(d) \/ DetachWait(d)
    BY <2>2 DEF FastIoDetachDevice, DetachWait, TypeOK, Leaving, extVars, reqVars
  <2>3. CASE DetachTest(d) \/ DeleteDevice(d)
    BY <2>3 DEF DetachTest, DeleteDevice, TypeOK, Leaving, extVars, reqVars
  <2> QED
    BY <1>1, <2>1, <2>2, <2>3
<1>2. ASSUME NEW d \in Dev, FinishAttach(d)
      PROVE  MarkInv'
  <2>1. attach[d] \in {"joined", "rejected"} /\ detach[d] \in {"idle", "acquire"}
    BY <1>2 DEF FinishAttach, Reached
  <2>2. \A e \in Dev : e # d => flags'[e] = flags[e] /\ attach'[e] = attach[e]
                                /\ detach'[e] = detach[e]
    BY <1>2 DEF FinishAttach, TypeOK
  <2>3. attach'[d] \in {"attached", "failed"} /\ detach'[d] \in {"idle", "acquire"}
    BY <1>2, <2>1 DEF FinishAttach, TypeOK
  <2>4. UNCHANGED <<pc, vol>>
    BY <1>2 DEF FinishAttach, reqVars
  <2> QED
    BY <2>1, <2>2, <2>3, <2>4 DEF TypeOK, Leaving, Located
<1>3. ASSUME NEW d \in Dev, DetachDevice(d) \/ DeleteDevExtension(d) \/ DeleteResource(d)
      PROVE  MarkInv'
  <2>1. CASE DetachDevice(d)
    BY <2>1 DEF DetachDevice, TypeOK, Leaving, Located, reqVars
  <2>2. CASE DeleteDevExtension(d) \/ DeleteResource(d)
    <3>1. /\ detach[d] \in Leaving /\ detach'[d] \in Leaving
          /\ \A e \in Dev : e # d => detach'[e] = detach[e]
          /\ UNCHANGED <<flags, attach, pc, vol>>
      BY <2>2 DEF DeleteDevExtension, DeleteResource, TypeOK, Leaving, extVars, reqVars
    <3> QED
      BY <3>1 DEF Leaving, TypeOK
  <2> QED
    BY <1>3, <2>1, <2>2
<1>4. ASSUME NEW d \in Dev, FSDNotification(d)
      PROVE  MarkInv'
  <2>1. d \in FsdDev /\ attach[d] = "none" /\ ~MarkedFsd(d)
    BY <1>4 DEF FSDNotification
  <2>2. /\ \A e \in Dev : e # d => flags'[e] = flags[e] /\ attach'[e] = attach[e]
        /\ ~MarkedFsd(d)' /\ UNCHANGED <<pc, vol, detach>>
    BY <1>4, <2>1
       DEF FSDNotification, CreateFilterDevice, CreateFails, TypeOK, extVars, reqVars
  <2>3. \A j \in Irp : vol[j] # NoDev => vol[j] \in Dev /\ vol[j] # d
    BY <2>1 DEF TypeOK
  <2>4. \A j \in Irp : pc[j] = "unmark" => vol[j] # NoDev
    BY DEF Located
  <2> QED
    BY <2>1, <2>2, <2>3, <2>4
<1>5. ASSUME NEW i \in Irp, MountAttach(i)
      PROVE  MarkInv'
  <2> DEFINE v == vol[i]
  <2>1. pc[i] = "queued" /\ vol[i] \in VolumeDev /\ attach[vol[i]] = "none"
        /\ detach[vol[i]] = "idle" /\ ~MarkedFsd(vol[i])
    BY <1>5 DEF MountAttach, Located, CreatedOnce, Reached
  <2>2. \A j \in Irp : j # i /\ vol[j] # NoDev => vol[j] # vol[i]
    BY <2>1 DEF CreatedOnce
  <2>3. /\ \A e \in Dev : e # vol[i] => flags'[e] = flags[e] /\ attach'[e] = attach[e]
        /\ ~MarkedFsd(vol[i])' /\ UNCHANGED <<vol, detach>>
        /\ \A j \in Irp : j # i => pc'[j] = pc[j]
        /\ \/ attach'[vol[i]] = "created" /\ pc'[i] = "attaching"
           \/ attach'[vol[i]] = "failed" /\ pc'[i] = "decrement"
    BY <1>5, <2>1 DEF MountAttach, CreateFilterDevice, CreateFails, Goto, TypeOK, extVars
  <2> QED
    BY <2>1, <2>2, <2>3 DEF TypeOK, Leaving, Located
<1>6. ASSUME NEW i \in Irp, MountAttached(i) \/ UnmarkFsd(i)
      PROVE  MarkInv'
  BY <1>6 DEF MountAttached, UnmarkFsd, Goto, TypeOK, Located, CreatedOnce, Leaving, extVars
<1>7. ASSUME NEW i \in Irp, Completion(i)
      PROVE  MarkInv'
  BY <1>7 DEF Completion, Goto, TypeOK, CreatedOnce, extVars
<1>8. ASSUME NEW i \in Irp, Decrement(i) \/ TestZero(i) \/ SetEvent(i)
      PROVE  MarkInv'
  BY <1>8 DEF Decrement, TestZero, SetEvent, Goto, TypeOK, extVars
<1>9. ASSUME NEW i \in Irp,
             \/ Precheck(i) \/ DefaultDispatch(i) \/ MountDispatch(i) \/ Count(i)
             \/ ClearEvent(i) \/ CallDriver(i) \/ Refuse(i)
      PROVE  MarkInv'
  <2>1. UNCHANGED <<flags, attach, detach, vol>> /\ vol[i] = NoDev
    BY <1>9
       DEF Precheck, DefaultDispatch, MountDispatch, Count, ClearEvent, CallDriver, Refuse, CreatedOnce, extVars
  <2>2. \A j \in Irp : j # i => pc'[j] = pc[j]
    BY <1>9
       DEF Precheck, DefaultDispatch, MountDispatch, Count, ClearEvent, CallDriver, Refuse, RefuseWith, Goto, TypeOK
  <2>3. pc'[i] # "unmark"
    BY <1>9
       DEF Precheck, DefaultDispatch, MountDispatch, Count, ClearEvent, CallDriver, Refuse, RefuseWith, Goto, TypeOK
  <2> QED
    BY <2>1, <2>2, <2>3
<1>10. ASSUME NEW i \in Irp, NEW d \in Dev, NEW k \in SentKind, Send(i, d, k)
       PROVE  MarkInv'
  BY <1>10 DEF Send, EntryLabel, Goto, TypeOK, CreatedOnce, extVars
<1>11. ASSUME NEW i \in Irp, StrayCompletion(i) \/ TouchDeleted(i)
       PROVE  MarkInv'
  BY <1>11 DEF StrayCompletion, TouchDeleted, extVars, reqVars
<1>12. ASSUME UNCHANGED vars
       PROVE  MarkInv'
  BY <1>12 DEF vars, extVars, reqVars
<1> QED
  BY <1>1, <1>2, <1>3, <1>4, <1>5, <1>6, <1>7, <1>8, <1>9, <1>10, <1>11, <1>12
     DEF Next, Environment, DeviceStep, RequestStep

\* Once a mount request is over, the volume it brought up is not taken for a
\* file system driver's own device, although the worker clears the mark
\* without the resource that the attaching code sets it under.
THEOREM VolumesUnmarked == Spec => []VolumeNotMarkedFsd
<1>1. Init => MarkInv
  BY DEF Init, MarkInv, MarkedFsd, MountOver, Leaving
<1>2. IInv /\ MarkInv /\ [Next]_vars => MarkInv'
  BY MarkStep
<1>3. MarkInv => VolumeNotMarkedFsd
  BY DEF MarkInv, VolumeNotMarkedFsd, MarkedFsd, MountOver
<1> QED
  BY <1>1, <1>2, <1>3, Invariance, PTL DEF Spec
=============================================================================
