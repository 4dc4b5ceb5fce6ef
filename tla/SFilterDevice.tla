--------------------------- MODULE SFilterDevice ---------------------------
(***************************************************************************)
(* The device objects of the sample filter driver (filter-high): how they  *)
(* are attached on top of a file system driver's device objects, how IRPs  *)
(* pass through them, and how they are detached and deleted while requests *)
(* are still about.  (SFilterFastIo has the fast I/O calls.)               *)
(*                                                                         *)
(* Every IRP, every attach and every detach is a thread of its own.  A     *)
(* step of the model is the code between two points at which another       *)
(* thread can interfere: a release of the extension's resource, a          *)
(* spin-lock section, an operation on the event, a call into another       *)
(* driver.  Critical sections of the global resource are single steps.     *)
(***************************************************************************)
EXTENDS Integers, FiniteSets

CONSTANTS
  Irp,         \* the requests of one behaviour, each sent at most once
  FsdDev,      \* filter devices for the device objects of file system drivers
  VolumeDev,   \* filter devices for volumes that mount requests bring up
  ControlDev,  \* the driver's own device object (SFilterGlobalData)
  NoDev,       \* no device object
  Attacher,    \* the thread inside SFilterAttachTarget, as a resource owner
  Detacher,    \* the thread inside SFilterDetachTarget, as a resource owner
  Nobody,      \* the owner of a free resource
  SentKind,    \* the kinds of request that are sent
  UpdatesOperand  \* does RtlLargeIntegerAdd/Subtract store into its operand?

Dev == FsdDev \cup VolumeDev \cup {ControlDev}

ASSUME DeviceAssumption ==
  /\ FsdDev \cap VolumeDev = {}
  /\ ControlDev \notin FsdDev \cup VolumeDev
  /\ NoDev \notin Dev

ASSUME ThreadAssumption ==
  /\ IsFiniteSet(Irp)
  /\ {Attacher, Detacher, Nobody} \cap Irp = {}
  /\ Attacher # Detacher /\ Attacher # Nobody /\ Detacher # Nobody

ASSUME MacroAssumption == UpdatesOperand \in BOOLEAN

\* The kinds of request: most major functions; create, cleanup and close; file
\* system control; a mount.
Kind == {"default", "open", "fsctrl", "mount"}
ASSUME SentAssumption == SentKind \subseteq Kind

\* Two more flags, for the resource and for the list of all devices, say no more
\* than how far the detach is.
Flag == {"ATTACHED", "ATTACHED_FSD"}
-----------------------------------------------------------------------------
VARIABLES
  present,      \* device objects created and not yet deleted
  stack,        \* filter devices the I/O manager routes requests to
  flags,        \* DeviceExtensionFlags
  owner,        \* who holds DeviceExtensionResource
  outstanding,  \* OutstandingIoRequests
  balance,      \* history: increments made of it, less the decrements
  event,        \* IoInProgressEvent is signalled
  attach,       \* progress of SFilterAttachTarget, per filter device
  detach,       \* progress of SFilterDetachTarget, per filter device
  pc,           \* progress of each request
  kind,         \* what kind of request it is
  dev,          \* the filter device it was sent to
  vol,          \* the filter device for the volume it mounted
  stray,        \* while it is below: our completion routine was called for another device
  answer,       \* how the filter answered it
  bugcheck      \* a thread touched a deleted extension: the system has stopped

extVars  == <<flags, owner, outstanding, balance, event>>
objVars  == <<present, stack>>
reqVars  == <<pc, kind, dev, vol, stray, answer>>
vars     == <<objVars, extVars, attach, detach, reqVars, bugcheck>>

AttachLabel == {"none", "created", "joined", "rejected", "attached", "failed"}
DetachLabel == {"idle", "acquire", "wait", "detach", "delete", "uninit", "remove", "done"}
PcLabel     == {"unsent", "precheck", "dispatch", "mount", "count",
                "clear", "call", "below", "queued", "attaching",
                "unmark", "decrement", "test", "signal", "refuse", "done"}
Answer      == {"none", "refused", "failed", "succeeded", "forwarded"}

TypeOK ==
  /\ present \subseteq Dev
  /\ stack \subseteq Dev
  /\ flags \in [Dev -> SUBSET Flag]
  /\ owner \in [Dev -> Irp \cup {Attacher, Detacher, Nobody}]
  /\ outstanding \in [Dev -> Int]
  /\ balance \in [Dev -> Int]
  /\ event \in [Dev -> BOOLEAN]
  /\ attach \in [Dev -> AttachLabel]
  /\ detach \in [Dev -> DetachLabel]
  /\ pc \in [Irp -> PcLabel]
  /\ kind \in [Irp -> Kind]
  /\ dev \in [Irp -> Dev \cup {NoDev}]
  /\ vol \in [Irp -> VolumeDev \cup {NoDev}]
  /\ stray \in [Irp -> BOOLEAN]
  /\ answer \in [Irp -> Answer]
  /\ bugcheck \in BOOLEAN

Init ==
  /\ present = {ControlDev}
  /\ stack = {ControlDev}
  /\ flags = [d \in Dev |-> {}]
  /\ owner = [d \in Dev |-> Nobody]
  /\ outstanding = [d \in Dev |-> 0]
  /\ balance = [d \in Dev |-> 0]
  /\ event = [d \in Dev |-> FALSE]
  /\ attach = [d \in Dev |-> "none"]
  /\ detach = [d \in Dev |-> "idle"]
  /\ pc = [i \in Irp |-> "unsent"]
  /\ kind = [i \in Irp |-> "default"]
  /\ dev = [i \in Irp |-> NoDev]
  /\ vol = [i \in Irp |-> NoDev]
  /\ stray = [i \in Irp |-> FALSE]
  /\ answer = [i \in Irp |-> "none"]
  /\ bugcheck = FALSE
-----------------------------------------------------------------------------
(* Helpers *)

Attached(d)      == "ATTACHED" \in flags[d]
ResourceReady(d) == d \in present /\ detach[d] # "remove"
CanAcquire(d)    == owner[d] = Nobody /\ ResourceReady(d)

\* SFilterDetachTarget is past its wait and has cleared the flag.
Detached(d) == detach[d] \in {"delete", "uninit", "remove", "done"}

\* A device that says attached again (see UnmarkFsd).
Revived(d) == d \in VolumeDev /\ Detached(d) /\ Attached(d)

\* The value a counter has after the increment or decrement macro.  The
\* routine the macros call returns the result; whether it also stores it
\* into the operand is the constant.
AddTo(n, k) == IF UpdatesOperand THEN n + k ELSE n
AddToCount(d, k) ==
  /\ outstanding' = [outstanding EXCEPT ![d] = AddTo(@, k)]
  /\ balance' = [balance EXCEPT ![d] = @ + k]

\* Requests with our completion routine set, not yet accounted for by it.
CountedLabel == {"clear", "call", "below", "queued", "attaching", "unmark", "decrement"}
Inside(d) == {i \in Irp : dev[i] = d /\ pc[i] \in CountedLabel}

Goto(i, label) == pc' = [pc EXCEPT ![i] = label]
Answered(i, a) == answer' = [answer EXCEPT ![i] = a]

\* Mutant: the request is completed with the status of one that is not.
Refusal_Pending(i) == IF dev[i] = ControlDev /\ kind[i] = "open" THEN "pending" ELSE "refused"

\* The answer for a request the filter does not pass on.
Refusal(i) == IF dev[i] = ControlDev /\ kind[i] = "open" THEN "succeeded" ELSE "refused"
-----------------------------------------------------------------------------
(* Attaching: SFilterAttachTarget *)

\* Mutant: the resource is not held while the device is being attached.
CreateFilterDevice_Open(d) ==
  /\ present' = present \cup {d}
  /\ flags' = [flags EXCEPT ![d] = {}]
  /\ owner' = [owner EXCEPT ![d] = Nobody]
  /\ outstanding' = [outstanding EXCEPT ![d] = 0]
  /\ balance' = [balance EXCEPT ![d] = 0]
  /\ event' = [event EXCEPT ![d] = FALSE]
  /\ attach' = [attach EXCEPT ![d] = "created"]

\* IoCreateDevice and SFilterInitDevExtension; the new extension's resource
\* is taken before anyone can reach the device.
CreateFilterDevice(d) ==
  /\ present' = present \cup {d}
  /\ flags' = [flags EXCEPT ![d] = {}]
  /\ owner' = [owner EXCEPT ![d] = Attacher]
  /\ outstanding' = [outstanding EXCEPT ![d] = 0]
  /\ balance' = [balance EXCEPT ![d] = 0]
  /\ event' = [event EXCEPT ![d] = FALSE]
  /\ attach' = [attach EXCEPT ![d] = "created"]

CreateFails(d) ==
  /\ attach' = [attach EXCEPT ![d] = "failed"]
  /\ UNCHANGED <<present, extVars>>

\* SFilterFSDNotification: a file system driver has registered.
FSDNotification(d) ==
  /\ d \in FsdDev /\ attach[d] = "none"
  /\ CreateFilterDevice(d) \/ CreateFails(d)
  /\ UNCHANGED <<stack, detach, reqVars>>

\* IoAttachDeviceByPointer, which may fail.
IoAttach(d) ==
  /\ attach[d] = "created"
  /\ \/ /\ stack' = stack \cup {d}
        /\ attach' = [attach EXCEPT ![d] = "joined"]
     \/ /\ attach' = [attach EXCEPT ![d] = "rejected"]
        /\ UNCHANGED stack
  /\ UNCHANGED <<present, extVars, detach, reqVars>>

\* The extension is marked attached whatever IoAttachDeviceByPointer said (the
\* ASSERT is compiled out of a free build); on failure the finally block
\* then calls SFilterDetachTarget.
FinishAttach(d) ==
  /\ attach[d] \in {"joined", "rejected"}
  /\ flags' = [flags EXCEPT ![d] = Flag]
  /\ owner' = [owner EXCEPT ![d] = Nobody]
  /\ IF attach[d] = "joined"
       THEN attach' = [attach EXCEPT ![d] = "attached"] /\ UNCHANGED detach
       ELSE /\ attach' = [attach EXCEPT ![d] = "failed"]
            /\ detach' = [detach EXCEPT ![d] = "acquire"]
  /\ UNCHANGED <<objVars, outstanding, balance, event, reqVars>>
-----------------------------------------------------------------------------
(* Detaching: SFilterDetachTarget *)

\* SFilterFastIoDetachDevice: the device object below is being deleted.
FastIoDetachDevice(d) ==
  /\ d \in stack \ {ControlDev} /\ detach[d] = "idle"
  /\ detach' = [detach EXCEPT ![d] = "acquire"]
  /\ UNCHANGED <<objVars, extVars, attach, reqVars>>

\* Mutant: the resource is given back before the device is detached.
DetachTest_Released(d) ==
  /\ detach[d] = "acquire" /\ CanAcquire(d)
  /\ detach' = [detach EXCEPT ![d] = IF outstanding[d] = 0 THEN "detach" ELSE "wait"]
  /\ UNCHANGED <<objVars, extVars, attach, reqVars>>

\* Take the resource and look at the count; give it back if requests are out.
DetachTest(d) ==
  /\ detach[d] = "acquire" /\ CanAcquire(d)
  /\ IF outstanding[d] = 0
       THEN /\ owner' = [owner EXCEPT ![d] = Detacher]
            /\ detach' = [detach EXCEPT ![d] = "detach"]
       ELSE detach' = [detach EXCEPT ![d] = "wait"] /\ UNCHANGED owner
  /\ UNCHANGED <<objVars, flags, outstanding, balance, event, attach, reqVars>>

\* KeWaitForSingleObject on a notification event: the event stays signalled.
DetachWait(d) ==
  /\ detach[d] = "wait" /\ event[d]
  /\ detach' = [detach EXCEPT ![d] = "acquire"]
  /\ UNCHANGED <<objVars, extVars, attach, reqVars>>

\* IoDetachDevice if the extension says attached, and the flags cleared.
DetachDevice(d) ==
  /\ detach[d] = "detach"
  /\ stack' = IF Attached(d) THEN stack \ {d} ELSE stack
  /\ flags' = [flags EXCEPT ![d] = {}]
  /\ detach' = [detach EXCEPT ![d] = "delete"]
  /\ UNCHANGED <<present, owner, outstanding, balance, event, attach, reqVars>>

\* SFilterDeleteDevExtension, first half: off the global list, resource released.
DeleteDevExtension(d) ==
  /\ detach[d] = "delete"
  /\ owner' = [owner EXCEPT ![d] = Nobody]
  /\ detach' = [detach EXCEPT ![d] = "uninit"]
  /\ UNCHANGED <<objVars, flags, outstanding, balance, event, attach, reqVars>>

\* SFilterDeleteDevExtension, second half: ExDeleteResourceLite.
DeleteResource(d) ==
  /\ detach[d] = "uninit"
  /\ detach' = [detach EXCEPT ![d] = "remove"]
  /\ UNCHANGED <<objVars, extVars, attach, reqVars>>

\* IoDeleteDevice: the extension's memory goes with the device object.
DeleteDevice(d) ==
  /\ detach[d] = "remove"
  /\ present' = present \ {d}
  /\ event' = [event EXCEPT ![d] = FALSE]
  /\ detach' = [detach EXCEPT ![d] = "done"]
  /\ UNCHANGED <<stack, flags, owner, outstanding, balance, attach, reqVars>>
-----------------------------------------------------------------------------
(* Requests on the way down *)

EntryLabel(k) ==
  CASE k = "default" -> "dispatch"
    [] k \in {"open", "fsctrl"} -> "precheck"
    [] k = "mount" -> "mount"

\* The I/O manager calls a dispatch routine of the device on top of the stack;
\* nothing keeps the device from being deleted meanwhile.
Send(i, d, k) ==
  /\ pc[i] = "unsent" /\ d \in stack
  /\ Goto(i, EntryLabel(k))
  /\ kind' = [kind EXCEPT ![i] = k]
  /\ dev' = [dev EXCEPT ![i] = d]
  /\ UNCHANGED <<objVars, extVars, attach, detach, vol, stray, answer>>

\* The thread holds the resource and will complete the request itself.
RefuseWith(i, a) ==
  /\ owner' = [owner EXCEPT ![dev[i]] = i]
  /\ Goto(i, "refuse")
  /\ Answered(i, a)

\* SFilterCreate, SFilterCleanupOrClose, SFilterFSControl: look at the
\* extension, release it, and start over in SFilterDefaultDispatch.
Precheck(i) ==
  /\ pc[i] = "precheck" /\ CanAcquire(dev[i])
  /\ IF Attached(dev[i])
       THEN Goto(i, "dispatch") /\ UNCHANGED <<owner, answer>>
       ELSE RefuseWith(i, Refusal(i))
  /\ UNCHANGED <<objVars, flags, outstanding, balance, event, attach, detach, kind, dev, vol, stray>>

\* Mutant: the resource is released before the request is counted.
DefaultDispatch_Released(i) ==
  /\ pc[i] = "dispatch" /\ CanAcquire(dev[i])
  /\ IF Attached(dev[i])
       THEN Goto(i, "count") /\ Answered(i, "forwarded") /\ UNCHANGED owner
       ELSE RefuseWith(i, "refused")
  /\ UNCHANGED <<objVars, flags, outstanding, balance, event, attach, detach, kind, dev, vol, stray>>

\* SFilterDefaultDispatch up to the increment of the count.  The request may
\* have no stack location left for the driver below.
DefaultDispatch(i) ==
  /\ pc[i] = "dispatch" /\ CanAcquire(dev[i])
  /\ IF Attached(dev[i])
       THEN \/ /\ owner' = [owner EXCEPT ![dev[i]] = i]
               /\ Goto(i, "count")
               /\ Answered(i, "forwarded")
            \/ RefuseWith(i, "failed")
       ELSE RefuseWith(i, "refused")
  /\ UNCHANGED <<objVars, flags, outstanding, balance, event, attach, detach, kind, dev, vol, stray>>

\* SFilterFSControl for IRP_MN_MOUNT_VOLUME up to the increment of the count.
\* Besides, there may be no memory for what the completion needs.
MountDispatch(i) ==
  /\ pc[i] = "mount" /\ CanAcquire(dev[i])
  /\ IF Attached(dev[i])
       THEN \/ /\ owner' = [owner EXCEPT ![dev[i]] = i]
               /\ Goto(i, "count")
               /\ Answered(i, "forwarded")
            \/ RefuseWith(i, "failed")
       ELSE RefuseWith(i, "refused")
  /\ UNCHANGED <<objVars, flags, outstanding, balance, event, attach, detach, kind, dev, vol, stray>>

\* SFilterIncrementLargeInteger, with the resource held.
Count(i) ==
  /\ pc[i] = "count" /\ dev[i] \in present
  /\ AddToCount(dev[i], 1)
  /\ Goto(i, "clear")
  /\ UNCHANGED <<objVars, flags, owner, event, attach, detach, kind, dev, vol, stray, answer>>

\* KeClearEvent, then the resource is released.
ClearEvent(i) ==
  /\ pc[i] = "clear" /\ ResourceReady(dev[i])
  /\ event' = [event EXCEPT ![dev[i]] = FALSE]
  /\ owner' = [owner EXCEPT ![dev[i]] = Nobody]
  /\ Goto(i, "call")
  /\ UNCHANGED <<objVars, flags, outstanding, balance, attach, detach, kind, dev, vol, stray, answer>>

\* IoCallDriver on the target.
CallDriver(i) ==
  /\ pc[i] = "call"
  /\ Goto(i, "below")
  /\ UNCHANGED <<objVars, extVars, attach, detach, kind, dev, vol, stray, answer>>

\* Mutant: the resource is kept when the request is completed.
Refuse_Kept(i) ==
  /\ pc[i] = "refuse" /\ ResourceReady(dev[i])
  /\ Goto(i, "done")
  /\ UNCHANGED <<objVars, extVars, attach, detach, kind, dev, vol, stray, answer>>

\* The finally block of a dispatch routine that completes the request itself.
Refuse(i) ==
  /\ pc[i] = "refuse" /\ ResourceReady(dev[i])
  /\ owner' = [owner EXCEPT ![dev[i]] = Nobody]
  /\ Goto(i, "done")
  /\ UNCHANGED <<objVars, flags, outstanding, balance, event, attach, detach, kind, dev, vol, stray, answer>>
-----------------------------------------------------------------------------
(* Requests on the way up *)

\* Mutant: the routine does not compare the device object with its own.
StrayCompletion_Accepted(i) ==
  /\ pc[i] = "below" /\ dev[i] \in present /\ ~stray[i]
  /\ stray' = [stray EXCEPT ![i] = TRUE]
  /\ AddToCount(dev[i], -1)
  /\ UNCHANGED <<objVars, flags, owner, event, attach, detach, pc, kind, dev, vol, answer>>

\* A driver below copied our stack location as it stood, completion routine
\* included: the routine is called for that driver's device object, sees
\* that it is not its own and returns at once.
StrayCompletion(i) ==
  /\ pc[i] = "below" /\ dev[i] \in present /\ ~stray[i]
  /\ stray' = [stray EXCEPT ![i] = TRUE]
  /\ UNCHANGED <<objVars, extVars, attach, detach, pc, kind, dev, vol, answer>>

\* The target completes the request: SFilterDefaultCompletion or
\* SFilterMountVolumeCompletion, which hands a mount that succeeded to a
\* worker.  VolumeDev bounds the number of mounts that succeed.
Completion(i) ==
  /\ pc[i] = "below" /\ dev[i] \in present
  /\ \/ Goto(i, "decrement") /\ UNCHANGED vol
     \/ \E v \in VolumeDev :
          /\ kind[i] = "mount" /\ \A j \in Irp : vol[j] # v
          /\ vol' = [vol EXCEPT ![i] = v]
          /\ Goto(i, "queued")
  /\ stray' = [stray EXCEPT ![i] = FALSE]
  /\ UNCHANGED <<objVars, extVars, attach, detach, kind, dev, answer>>

\* SFilterMountAttach in a worker thread, calling SFilterAttachTarget.
MountAttach(i) ==
  /\ pc[i] = "queued"
  /\ \/ CreateFilterDevice(vol[i]) /\ Goto(i, "attaching")
     \/ CreateFails(vol[i]) /\ Goto(i, "decrement")
  /\ UNCHANGED <<stack, detach, kind, dev, vol, stray, answer>>

MountAttached(i) ==
  /\ pc[i] = "attaching"
  /\ \/ attach[vol[i]] = "attached" /\ Goto(i, "unmark")
     \/ attach[vol[i]] = "failed" /\ detach[vol[i]] = "done" /\ Goto(i, "decrement")
  /\ UNCHANGED <<objVars, extVars, attach, detach, kind, dev, vol, stray, answer>>

\* Mutant: the mark stays.
UnmarkFsd_Kept(i) ==
  /\ pc[i] = "unmark" /\ vol[i] \in present
  /\ Goto(i, "decrement")
  /\ UNCHANGED <<objVars, extVars, attach, detach, kind, dev, vol, stray, answer>>

\* What the flags have been since the device was attached.
FlagsSince(d) == {Flag, flags[d]}

\* The worker clears ATTACHED_FSD in the new extension by a read, an "and" and a
\* write, without its resource: a change a detach makes in between is undone,
\* or the worker's is, when it is the detach that wrote back what it had read.
UnmarkFsd(i) ==
  /\ pc[i] = "unmark" /\ vol[i] \in present
  /\ \/ \E old \in FlagsSince(vol[i]) : flags' = [flags EXCEPT ![vol[i]] = old \ {"ATTACHED_FSD"}]
     \/ detach[vol[i]] = "detach" /\ UNCHANGED flags
  /\ Goto(i, "decrement")
  /\ UNCHANGED <<objVars, owner, outstanding, balance, event, attach, detach, kind, dev, vol, stray, answer>>

\* SFilterDecrementLargeInteger.
Decrement(i) ==
  /\ pc[i] = "decrement" /\ dev[i] \in present
  /\ AddToCount(dev[i], -1)
  /\ Goto(i, "test")
  /\ UNCHANGED <<objVars, flags, owner, event, attach, detach, kind, dev, vol, stray, answer>>

\* Mutant: the test is made for the value before the decrement.
TestZero_Early(i) ==
  /\ pc[i] = "test" /\ dev[i] \in present
  /\ Goto(i, IF outstanding[dev[i]] = 1 THEN "signal" ELSE "done")
  /\ UNCHANGED <<objVars, extVars, attach, detach, kind, dev, vol, stray, answer>>

\* SFilterIsLargeIntegerZero, in a spin-lock section of its own.
TestZero(i) ==
  /\ pc[i] = "test" /\ dev[i] \in present
  /\ Goto(i, IF outstanding[dev[i]] = 0 THEN "signal" ELSE "done")
  /\ UNCHANGED <<objVars, extVars, attach, detach, kind, dev, vol, stray, answer>>

\* Mutant: the event is cleared instead.
SetEvent_Cleared(i) ==
  /\ pc[i] = "signal" /\ dev[i] \in present
  /\ event' = [event EXCEPT ![dev[i]] = FALSE]
  /\ Goto(i, "done")
  /\ UNCHANGED <<objVars, flags, owner, outstanding, balance, attach, detach, kind, dev, vol, stray, answer>>

\* KeSetEvent; the request then completes upwards.
SetEvent(i) ==
  /\ pc[i] = "signal" /\ dev[i] \in present
  /\ event' = [event EXCEPT ![dev[i]] = TRUE]
  /\ Goto(i, "done")
  /\ UNCHANGED <<objVars, flags, owner, outstanding, balance, attach, detach, kind, dev, vol, stray, answer>>

\* The next thing the thread does reads or writes a deleted resource or the
\* memory of a deleted device object.
TouchesDeleted(i) ==
  \/ /\ pc[i] \in {"precheck", "dispatch", "mount", "clear", "refuse"}
     /\ ~ResourceReady(dev[i])
  \/ /\ pc[i] \in {"count", "below", "decrement", "test", "signal"}
     /\ dev[i] \notin present
  \/ pc[i] = "unmark" /\ vol[i] \notin present

\* What follows is undefined; the model stops there, as a bug check does.
TouchDeleted(i) ==
  /\ TouchesDeleted(i)
  /\ bugcheck' = TRUE
  /\ UNCHANGED <<objVars, extVars, attach, detach, reqVars>>
-----------------------------------------------------------------------------
Running == ~bugcheck /\ UNCHANGED bugcheck

DeviceStep(d) ==
  /\ Running
  /\ \/ IoAttach(d) \/ FinishAttach(d)
     \/ DetachTest(d) \/ DetachWait(d) \/ DetachDevice(d)
     \/ DeleteDevExtension(d) \/ DeleteResource(d) \/ DeleteDevice(d)

RequestStep(i) ==
  \/ /\ Running
     /\ \/ Precheck(i) \/ DefaultDispatch(i) \/ MountDispatch(i) \/ Count(i)
        \/ ClearEvent(i) \/ CallDriver(i) \/ Refuse(i)
        \/ Completion(i) \/ MountAttach(i)
        \/ MountAttached(i) \/ UnmarkFsd(i)
        \/ Decrement(i) \/ TestZero(i) \/ SetEvent(i)
  \/ ~bugcheck /\ TouchDeleted(i)

\* What other drivers and the I/O manager may do, and need not.
Environment ==
  /\ Running
  /\ \/ \E d \in Dev : FSDNotification(d) \/ FastIoDetachDevice(d)
     \/ \E i \in Irp : StrayCompletion(i)
     \/ \E i \in Irp, d \in Dev, k \in SentKind : Send(i, d, k)

Next ==
  \/ Environment
  \/ \E d \in Dev : DeviceStep(d)
  \/ \E i \in Irp : RequestStep(i)

\* A thread that can run does run, the target completes what it is given
\* and the system worker threads serve their queue.  Nothing forces a file
\* system driver to register or to delete its device, nor a request to be sent.
Fairness ==
  /\ \A d \in Dev : WF_vars(DeviceStep(d))
  /\ \A i \in Irp : WF_vars(RequestStep(i))

Spec == Init /\ [][Next]_vars /\ Fairness
-----------------------------------------------------------------------------
(* Safety *)

\* From the moment a request has found its device attached until it has been
\* counted and the resource given back, no detach gets past its wait: the
\* device stays attached, on the stack and in memory (dispatch.c:68-128).  What
\* happens to it afterwards is another matter, see DetachAwaitsRequests; and
\* nothing holds a detach back from a device that is revived.
CountedWhileAttached ==
  \A i \in Irp : pc[i] \in {"count", "clear"} =>
    /\ Attached(dev[i])
    /\ Revived(dev[i]) \/ (dev[i] \in present \cap stack /\ ~Detached(dev[i]))

\* The increments of OutstandingIoRequests, less the decrements, are the
\* requests for which a completion routine is set (the comment of the field in
\* struct.h), also when a driver below makes that routine run twice
\* (dispatch.c:206-209).  What the macros make of them is another matter.
CountsBalance ==
  \A d \in Dev : balance[d] = Cardinality(Inside(d))

\* A detaching thread asleep on an unsignalled event has someone left to wake
\* it: a counted request, or a completion on its way to KeSetEvent.
NoLostWakeup ==
  \A d \in Dev :
    detach[d] = "wait" /\ ~event[d] =>
      \E i \in Irp : dev[i] = d /\ pc[i] \in CountedLabel \cup {"test", "signal"}

\* A request routed to a filter device is turned away as "not attached" only
\* after the device was detached, never because it came while the device
\* was still being attached.
RefusedOnlyAfterDetach ==
  \A i \in Irp :
    answer[i] = "refused" =>
      dev[i] = ControlDev \/ Detached(dev[i])

\* Once its mount request is over, a volume's filter device is not marked as
\* attached to a file system driver's own device object, whatever a detach does
\* to the flags at the same time (fsctrl.c:366-371; attach.c:194-199); for the
\* time between its two writes that detach may bring the mark back.
VolumeNotMarkedFsd ==
  \A i \in Irp :
    pc[i] \in {"decrement", "test", "signal", "done"} /\ vol[i] # NoDev =>
      "ATTACHED_FSD" \notin flags[vol[i]] \/ detach[vol[i]] = "detach"
-----------------------------------------------------------------------------
(* Refinement *)

\* A filter device is a gate, open while the extension says attached; the
\* requests inside are those the completion routine has to account for.
GateState ==
  [d \in Dev |->
     IF Revived(d) THEN "reopened"
     ELSE IF Detached(d) THEN "closed" ELSE IF Attached(d) THEN "open" ELSE "shut"]
InsideSets == [d \in Dev |-> Inside(d)]

Gates ==
  INSTANCE Rundown
    WITH Gate <- Dev, Shared <- VolumeDev, Guest <- Irp, gate <- GateState, inside <- InsideSets

\* The filter's devices are gates: no request is counted for a device that is
\* not attached yet or has been detached, a detached device is not attached
\* again, and only that of a volume can come to say so.
DevicesAreGates == Gates!Spec
-----------------------------------------------------------------------------
(* Liveness *)

\* Every detach comes to its end, however many requests slipped in before it.
DetachTerminates ==
  \A d \in Dev : detach[d] = "acquire" ~> detach[d] = "done" \/ bugcheck

\* Every request that was sent leaves the filter again.
RequestsAnswered ==
  \A i \in Irp : pc[i] # "unsent" ~> pc[i] = "done" \/ bugcheck
-----------------------------------------------------------------------------
(* What the comments promise and the code does not keep *)

\* attach.c: a detach waits until all IRP-based requests have been completed.
DetachAwaitsRequests ==
  [][\A d \in Dev : detach[d] = "detach" /\ detach'[d] = "delete" => Inside(d) = {}]_vars
=============================================================================
