------------------------- MODULE SFilterGateProofs -------------------------
(***************************************************************************)
(* The filter's device objects implement the gates of Rundown.             *)
(***************************************************************************)
EXTENDS SFilterDeviceProofs

\* What the mapping sees of a device.
LEMMA GateValue ==
  ASSUME AttachedWhen, NEW d \in Dev
  PROVE  /\ Attached(d) /\ detach[d] \in Leaving => GateState[d] = "reopened"
         /\ Attached(d) /\ detach[d] \notin Leaving => GateState[d] = "open"
         /\ ~Attached(d) /\ detach[d] \in Leaving => GateState[d] = "closed"
         /\ ~Attached(d) /\ detach[d] \notin Leaving => GateState[d] = "shut"
BY DEF GateState, Revived, Detached, Leaving, AttachedWhen

\* The gates cannot tell a step that leaves attachment and counted requests alone.
LEMMA GatesStutter ==
  ASSUME SameInside,
         \A d \in Dev : (Attached(d)' <=> Attached(d))
                        /\ (detach'[d] \in Leaving <=> detach[d] \in Leaving)
  PROVE  UNCHANGED <<GateState, InsideSets>>
<1>1. \A d \in Dev : Inside(d)' = Inside(d)
  BY DEF SameInside, Inside
<1>2. UNCHANGED InsideSets
  BY <1>1 DEF InsideSets
<1>3. UNCHANGED GateState
  BY DEF GateState, Revived, Detached, Leaving
<1> QED
  BY <1>2, <1>3

\* A device whose gate opens.
LEMMA GatesOpen ==
  ASSUME AttachedWhen, SameInside, NEW d \in Dev,
         ~Attached(d), detach[d] \notin Leaving, Attached(d)',
         \A e \in Dev : e # d => (Attached(e)' <=> Attached(e)),
         \A e \in Dev : detach'[e] \in Leaving <=> detach[e] \in Leaving
  PROVE  Gates!Open(d)
<1>1. \A e \in Dev : Inside(e)' = Inside(e)
  BY DEF SameInside, Inside
<1>2. UNCHANGED InsideSets
  BY <1>1 DEF InsideSets
<1>3. GateState[d] = "shut"
  BY GateValue
<1>4. GateState' = [GateState EXCEPT ![d] = "open"]
  BY DEF GateState, Revived, Detached, Leaving
<1> QED
  BY <1>2, <1>3, <1>4 DEF Gates!Open, Gates!Move

\* A device whose gate closes.
LEMMA GatesClose ==
  ASSUME AttachedWhen, SameInside, NEW d \in Dev,
         Attached(d), detach[d] \notin Leaving, ~Attached(d)', detach'[d] \in Leaving,
         \A e \in Dev : e # d => (Attached(e)' <=> Attached(e)) /\ detach'[e] = detach[e]
  PROVE  Gates!Close(d)
<1>1. \A e \in Dev : Inside(e)' = Inside(e)
  BY DEF SameInside, Inside
<1>2. UNCHANGED InsideSets
  BY <1>1 DEF InsideSets
<1>3. GateState[d] = "open"
  BY GateValue
<1>4. GateState' = [GateState EXCEPT ![d] = "closed"]
  BY DEF GateState, Revived, Detached, Leaving
<1> QED
  BY <1>2, <1>3, <1>4 DEF Gates!Close, Gates!Move

\* A volume's device that the mount worker's write marks attached again.
LEMMA GatesReopen ==
  ASSUME AttachedWhen, SameInside, NEW d \in VolumeDev,
         ~Attached(d), detach[d] \in Leaving, Attached(d)', UNCHANGED detach,
         \A e \in Dev : e # d => (Attached(e)' <=> Attached(e))
  PROVE  Gates!Reopen(d)
<1>0. d \in Dev
  BY DevFacts
<1>1. \A e \in Dev : Inside(e)' = Inside(e)
  BY DEF SameInside, Inside
<1>2. UNCHANGED InsideSets
  BY <1>1 DEF InsideSets
<1>3. GateState[d] = "closed"
  BY <1>0, GateValue
<1>4. GateState' = [GateState EXCEPT ![d] = "reopened"]
  BY <1>0 DEF GateState, Revived, Detached, Leaving
<1> QED
  BY <1>2, <1>3, <1>4 DEF Gates!Reopen, Gates!Move

\* The step of the gates that each step of the filter is.
GateStep == [Gates!Next]_<<GateState, InsideSets>>

\* A step that moves no gate is allowed by the abstract specification.
LEMMA StutterIsStep ==
  ASSUME SameInside,
         \A d \in Dev : (Attached(d)' <=> Attached(d))
                        /\ (detach'[d] \in Leaving <=> detach[d] \in Leaving)
  PROVE  GateStep
BY GatesStutter DEF GateStep

\* Attaching opens the gate, detaching closes it, and no other step of those threads moves it.
LEMMA DeviceStepMaps ==
  ASSUME IInv, NEW d \in Dev, DeviceStep(d)
  PROVE  GateStep
<1> USE DEF IInv, TypeOK
<1>1. SameInside
  BY DEF DeviceStep, IoAttach, FinishAttach, DetachTest, DetachWait, DetachDevice,
         DeleteDevExtension, DeleteResource, DeleteDevice, SameInside, reqVars
<1>2. CASE FinishAttach(d)
  <2>1. ~Attached(d) /\ detach[d] \in {"idle", "acquire"}
    BY <1>2 DEF FinishAttach, Reached, AttachedWhen
  <2>2. Attached(d)' /\ \A e \in Dev : e # d => (Attached(e)' <=> Attached(e))
    BY <1>2 DEF FinishAttach, Attached, Flag
  <2>3. \A e \in Dev : detach'[e] \in Leaving <=> detach[e] \in Leaving
    BY <1>2, <2>1 DEF FinishAttach, Leaving
  <2>4. Gates!Open(d)
    BY <1>1, <2>1, <2>2, <2>3, GatesOpen DEF Leaving
  <2> QED
    BY <2>4 DEF Gates!Next, GateStep
<1>3. CASE DetachDevice(d)
  <2>1. Attached(d) /\ detach[d] \notin Leaving
    BY <1>3 DEF DetachDevice, Reached, AttachedWhen, Leaving
  <2>2. /\ ~Attached(d)' /\ detach'[d] \in Leaving
        /\ \A e \in Dev : e # d => (Attached(e)' <=> Attached(e)) /\ detach'[e] = detach[e]
    BY <1>3 DEF DetachDevice, Attached, Leaving
  <2>3. Gates!Close(d)
    BY <1>1, <2>1, <2>2, GatesClose
  <2> QED
    BY <2>3 DEF Gates!Next, GateStep
<1>4. CASE IoAttach(d) \/ DetachTest(d) \/ DetachWait(d)
  <2>1. \A e \in Dev : /\ Attached(e)' <=> Attached(e)
                       /\ detach'[e] \in Leaving <=> detach[e] \in Leaving
    BY <1>4 DEF IoAttach, DetachTest, DetachWait, Attached, Leaving, extVars
  <2> QED
    BY <1>1, <2>1, StutterIsStep
<1>5. CASE DeleteDevExtension(d) \/ DeleteResource(d) \/ DeleteDevice(d)
  <2>1. \A e \in Dev : /\ Attached(e)' <=> Attached(e)
                       /\ detach'[e] \in Leaving <=> detach[e] \in Leaving
    BY <1>5 DEF DeleteDevExtension, DeleteResource, DeleteDevice, Attached, Leaving, extVars
  <2> QED
    BY <1>1, <2>1, StutterIsStep
<1> QED
  BY <1>2, <1>3, <1>4, <1>5 DEF DeviceStep

\* Counting a request is its entry.
LEMMA CountMaps ==
  ASSUME IInv, NEW i \in Irp, Count(i)
  PROVE  GateStep
<1> USE DEF IInv, TypeOK
<1>1. PICK d \in Dev : dev[i] = d
  BY DEF Count, Located
<1>2. Attached(d) /\ i \notin Inside(d)
  BY <1>1 DEF Count, Counted, Inside, CountedLabel
<1>3. GateState' = GateState /\ GateState[d] \in {"open", "reopened"}
  BY <1>2, GateValue DEF Count, GateState, Attached, Revived, Detached
<1>4. /\ Inside(d)' = Inside(d) \cup {i}
      /\ \A e \in Dev : e # d => Inside(e)' = Inside(e)
  BY <1>1 DEF Count, Goto, Inside, CountedLabel
<1>5. InsideSets' = [InsideSets EXCEPT ![d] = @ \cup {i}]
  BY <1>4 DEF InsideSets
<1>6. Gates!Enter(d, i)
  BY <1>2, <1>3, <1>5 DEF Gates!Enter, InsideSets
<1> QED
  BY <1>6 DEF Gates!Next, GateStep

\* The decrement in the completion routine is its way out.
LEMMA DecrementMaps ==
  ASSUME IInv, NEW i \in Irp, Decrement(i)
  PROVE  GateStep
<1> USE DEF IInv, TypeOK
<1>1. PICK d \in Dev : dev[i] = d
  BY DEF Decrement, Located
<1>2. i \in Inside(d)
  BY <1>1 DEF Decrement, Inside, CountedLabel
<1>3. GateState' = GateState
  BY DEF Decrement, GateState, Attached, Revived, Detached
<1>4. /\ Inside(d)' = Inside(d) \ {i}
      /\ \A e \in Dev : e # d => Inside(e)' = Inside(e)
  BY <1>1 DEF Decrement, Goto, Inside, CountedLabel
<1>5. InsideSets' = [InsideSets EXCEPT ![d] = @ \ {i}]
  BY <1>4 DEF InsideSets
<1>6. Gates!Leave(d, i)
  BY <1>2, <1>3, <1>5 DEF Gates!Leave, InsideSets
<1> QED
  BY <1>6 DEF Gates!Next, GateStep

\* Any other step of a request, and what other drivers do, does not move a gate.
LEMMA OthersMap ==
  ASSUME IInv, [Next]_vars,
         \A d \in Dev : ~DeviceStep(d), \A i \in Irp : ~Count(i) /\ ~Decrement(i)
  PROVE  GateStep
<1> USE DevFacts DEF IInv, TypeOK
<1>1. ASSUME NEW i \in Irp,
             \/ Precheck(i) \/ DefaultDispatch(i) \/ MountDispatch(i) \/ ClearEvent(i)
             \/ CallDriver(i) \/ Refuse(i)
             \/ StrayCompletion(i) \/ TouchDeleted(i)
      PROVE  GateStep
  <2>1. SameInside /\ UNCHANGED <<flags, detach>>
    BY <1>1
       DEF Precheck, DefaultDispatch, MountDispatch, ClearEvent, CallDriver, Refuse,
           StrayCompletion, TouchDeleted, RefuseWith, Goto, SameInside,
           CountedLabel, extVars, reqVars
  <2> QED
    BY <2>1, StutterIsStep DEF Attached
<1>2. ASSUME NEW i \in Irp,
             Completion(i) \/ MountAttached(i) \/ TestZero(i) \/ SetEvent(i)
      PROVE  GateStep
  <2>1. SameInside /\ UNCHANGED <<flags, detach>>
    BY <1>2
       DEF Completion, MountAttached, TestZero, SetEvent, Goto, SameInside, CountedLabel,
           extVars
  <2> QED
    BY <2>1, StutterIsStep DEF Attached
<1>3. ASSUME NEW i \in Irp, UnmarkFsd(i)
      PROVE  GateStep
  <2>1. SameInside /\ UNCHANGED detach
    BY <1>3 DEF UnmarkFsd, Goto, SameInside, CountedLabel
  <2>2. PICK v \in VolumeDev : vol[i] = v
    BY <1>3 DEF UnmarkFsd, Located
  <2>3. /\ Attached(v) => Attached(v)'
        /\ \A d \in Dev : d # v => (Attached(d)' <=> Attached(d))
    BY <1>3, <2>2 DEF UnmarkFsd, FlagsSince, Attached
  <2>4. CASE ~Attached(v) /\ Attached(v)'
    <3>1. detach[v] \in Leaving
      BY <1>3, <2>2, <2>4 DEF UnmarkFsd, Located, AttachedWhen
    <3>2. Gates!Reopen(v)
      BY <2>1, <2>3, <2>4, <3>1, GatesReopen
    <3> QED
      BY <3>2 DEF Gates!Next, GateStep
  <2>5. CASE Attached(v)' <=> Attached(v)
    BY <2>1, <2>3, <2>5, StutterIsStep
  <2> QED
    BY <2>3, <2>4, <2>5
<1>4. ASSUME NEW i \in Irp, NEW d \in Dev, NEW k \in SentKind, Send(i, d, k)
      PROVE  GateStep
  <2>1. SameInside /\ UNCHANGED <<flags, detach>>
    BY <1>4, SentAssumption
       DEF Kind, Send, EntryLabel, Goto, SameInside, CountedLabel, extVars
  <2> QED
    BY <2>1, StutterIsStep DEF Attached
<1>5. ASSUME NEW d \in Dev, attach[d] = "none", CreateFilterDevice(d) \/ CreateFails(d),
             SameInside, UNCHANGED detach
      PROVE  GateStep
  <2>1. ~Attached(d)
    BY <1>5 DEF AttachedWhen
  <2>2. \A e \in Dev : Attached(e)' <=> Attached(e)
    BY <1>5, <2>1 DEF CreateFilterDevice, CreateFails, Attached, extVars
  <2> QED
    BY <1>5, <2>2, StutterIsStep
<1>6. ASSUME NEW d \in Dev, FSDNotification(d)
      PROVE  GateStep
  <2>1. SameInside
    BY <1>6 DEF FSDNotification, SameInside, reqVars
  <2> QED
    BY <1>5, <1>6, <2>1 DEF FSDNotification
<1>7. ASSUME NEW i \in Irp, MountAttach(i)
      PROVE  GateStep
  <2>1. SameInside
    BY <1>7 DEF MountAttach, Goto, SameInside, CountedLabel
  <2>2. vol[i] \in Dev /\ attach[vol[i]] = "none"
    BY <1>7 DEF MountAttach, Located, CreatedOnce
  <2> QED
    BY <1>5, <1>7, <2>1, <2>2 DEF MountAttach
<1>8. ASSUME NEW d \in Dev, FastIoDetachDevice(d)
      PROVE  GateStep
  <2>1. SameInside /\ UNCHANGED flags
    BY <1>8 DEF FastIoDetachDevice, SameInside, extVars, reqVars
  <2>2. \A e \in Dev : detach'[e] \in Leaving <=> detach[e] \in Leaving
    BY <1>8 DEF FastIoDetachDevice, Leaving
  <2> QED
    BY <2>1, <2>2, StutterIsStep DEF Attached
<1>9. ASSUME UNCHANGED vars
      PROVE  GateStep
  <2>1. SameInside /\ UNCHANGED <<flags, detach>>
    BY <1>9 DEF vars, extVars, reqVars, SameInside
  <2> QED
    BY <2>1, StutterIsStep DEF Attached
<1> QED
  BY <1>1, <1>2, <1>3, <1>4, <1>6, <1>7, <1>8, <1>9
     DEF Next, Environment, RequestStep

\* Before anything is attached all gates are shut.
LEMMA InitMaps == Init => Gates!Init
<1> SUFFICES ASSUME Init
             PROVE  Gates!Init
  OBVIOUS
<1>1. \A d \in Dev : ~Attached(d) /\ detach[d] \notin Leaving
  BY DEF Init, Attached, Leaving
<1>2. \A d \in Dev : Inside(d) = {}
  BY DEF Init, Inside, CountedLabel
<1> QED
  BY <1>1, <1>2 DEF Gates!Init, GateState, InsideSets, Revived, Detached, Leaving

\* Every behaviour of the filter is one of the gates: requests are counted only
\* for devices that are attached, no device is attached again once it has been
\* detached, and only that of a volume can come to say it is.  Nothing is
\* assumed of the macros.
THEOREM FilterImplementsGates == Spec => DevicesAreGates
<1>1. IInv /\ [Next]_vars => [Gates!Next]_<<GateState, InsideSets>>
  BY DeviceStepMaps, CountMaps, DecrementMaps, OthersMap DEF GateStep
<1> QED
  BY <1>1, InitMaps, Invariance, PTL DEF Spec, Gates!Spec, DevicesAreGates
=============================================================================
