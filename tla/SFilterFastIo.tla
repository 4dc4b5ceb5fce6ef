--------------------------- MODULE SFilterFastIo ----------------------------
(***************************************************************************)
(* The filter driver's fast I/O entries (filter-high/src/fastio.c): calls  *)
(* of the I/O manager, the VMM and the Cache Manager that go through the   *)
(* filter devices on a volume to the file system's own entries, while      *)
(* devices are attached and detached.                                      *)
(*                                                                         *)
(* Each of the 26 entries is a record of what distinguishes it; what they  *)
(* have in common are the actions Enter, Look and Call.                    *)
(***************************************************************************)
EXTENDS Integers, Sequences, SequencesExt, SFsdFastIo

CONSTANTS
  Caller,  \* threads
  Dev,     \* the filter's device objects for the volume; a second one after a remount
  NoDev,   \* the file system is called without a filter
  Nobody,  \* the owner of a free resource
  Targets, \* the file systems: "sample", "full" or "short", see Table
  UsesOf(_) \* what each caller may do, of the set Use

ASSUME CallerAssumption ==
  /\ Nobody \notin Caller /\ NoDev \notin Dev
  /\ Targets \subseteq {"sample", "full", "short"}

\* What an entry calls, whether it looks at SizeOfFastIoDispatch before, and what it answers
\* if there is nothing to call.
Entry(member, sized, answer) == [member |-> member, sized |-> sized, answer |-> answer]

SFilterFastIoCheckIfPossible           == Entry("FastIoCheckIfPossible", FALSE, FALSE)
SFilterFastIoRead                      == Entry("FastIoRead", FALSE, FALSE)
SFilterFastIoWrite                     == Entry("FastIoWrite", FALSE, FALSE)
SFilterFastIoQueryBasicInfo            == Entry("FastIoQueryBasicInfo", FALSE, FALSE)
SFilterFastIoQueryStdInfo              == Entry("FastIoQueryStandardInfo", FALSE, FALSE)
SFilterFastIoLock                      == Entry("FastIoLock", FALSE, FALSE)
SFilterFastIoUnlockSingle              == Entry("FastIoUnlockSingle", FALSE, FALSE)
SFilterFastIoUnlockAll                 == Entry("FastIoUnlockAll", FALSE, FALSE)
SFilterFastIoUnlockAllByKey            == Entry("FastIoUnlockAllByKey", FALSE, FALSE)
SFilterFastIoDeviceControl             == Entry("FastIoDeviceControl", FALSE, FALSE)
SFilterFastIoAcqCreateSec              == Entry("AcquireFileForNtCreateSection", FALSE, TRUE)
SFilterFastIoRelCreateSec_Sized        == Entry("ReleaseFileForNtCreateSection", TRUE, TRUE)  \* mutant
SFilterFastIoRelCreateSec              == Entry("ReleaseFileForNtCreateSection", FALSE, TRUE)
SFilterFastIoQueryNetInfo              == Entry("FastIoQueryNetworkOpenInfo", TRUE, FALSE)
SFilterFastIoMdlRead_Unsized           == Entry("MdlRead", FALSE, FALSE)  \* mutant
SFilterFastIoMdlRead                   == Entry("MdlRead", TRUE, FALSE)
SFilterFastIoMdlReadComplete           == Entry("MdlReadComplete", TRUE, FALSE)
SFilterFastIoPrepareMdlWrite           == Entry("PrepareMdlWrite", TRUE, FALSE)
SFilterFastIoMdlWriteComplete_Assumed  == Entry("MdlWriteComplete", TRUE, TRUE)  \* mutant
SFilterFastIoMdlWriteComplete          == Entry("MdlWriteComplete", TRUE, FALSE)
SFilterFastIoReadCompressed            == Entry("FastIoReadCompressed", FALSE, FALSE)
SFilterFastIoWriteCompressed           == Entry("FastIoWriteCompressed", FALSE, FALSE)
SFilterFastIoMdlReadCompleteCompressed == Entry("MdlReadCompleteCompressed", TRUE, FALSE)
SFilterFastIoMdlWriteCompleteCompressed == Entry("MdlWriteCompleteCompressed", TRUE, FALSE)
SFilterFastIoAcqModWrite               == Entry("AcquireForModWrite", TRUE, TRUE)
SFilterFastIoRelModWrite               == Entry("ReleaseForModWrite", TRUE, TRUE)
SFilterFastIoAcqCcFlush                == Entry("AcquireForCcFlush", TRUE, TRUE)
SFilterFastIoRelCcFlush                == Entry("ReleaseForCcFlush", TRUE, TRUE)
SFilterFastIoQueryOpen                 == Entry("FastIoQueryOpen", TRUE, FALSE)
-----------------------------------------------------------------------------
(* What callers use the entries for: a single call; something lent, by the *)
(* fast path or by an IRP, and returned the same way; something held,      *)
(* which has no other way.                                                 *)

Once(e)            == [kind |-> "once", take |-> e, give |-> e]
Lent(taken, given) == [kind |-> "lent", take |-> taken, give |-> given]
Held(taken, given) == [kind |-> "held", take |-> taken, give |-> given]

Use ==
  {Once(SFilterFastIoCheckIfPossible), Once(SFilterFastIoRead), Once(SFilterFastIoWrite),
   Once(SFilterFastIoQueryBasicInfo), Once(SFilterFastIoQueryStdInfo),
   Once(SFilterFastIoDeviceControl), Once(SFilterFastIoQueryNetInfo),
   Once(SFilterFastIoQueryOpen),
   Lent(SFilterFastIoLock, SFilterFastIoUnlockSingle),
   Lent(SFilterFastIoLock, SFilterFastIoUnlockAll),
   Lent(SFilterFastIoLock, SFilterFastIoUnlockAllByKey),
   Lent(SFilterFastIoMdlRead, SFilterFastIoMdlReadComplete),
   Lent(SFilterFastIoPrepareMdlWrite, SFilterFastIoMdlWriteComplete),
   Lent(SFilterFastIoReadCompressed, SFilterFastIoMdlReadCompleteCompressed),
   Lent(SFilterFastIoWriteCompressed, SFilterFastIoMdlWriteCompleteCompressed),
   Held(SFilterFastIoAcqCreateSec, SFilterFastIoRelCreateSec),
   Held(SFilterFastIoAcqModWrite, SFilterFastIoRelModWrite),
   Held(SFilterFastIoAcqCcFlush, SFilterFastIoRelCcFlush)}

ASSUME UseAssumption == \A i \in Caller : UsesOf(i) \subseteq Use

Member == {u.take.member : u \in Use} \cup {u.give.member : u \in Use}

\* Members of the table as version 3.51 of the system has it.
OldMember ==
  {"FastIoCheckIfPossible", "FastIoRead", "FastIoWrite", "FastIoQueryBasicInfo",
   "FastIoQueryStandardInfo", "FastIoLock", "FastIoUnlockSingle", "FastIoUnlockAll",
   "FastIoUnlockAllByKey", "FastIoDeviceControl", "AcquireFileForNtCreateSection",
   "ReleaseFileForNtCreateSection"}

\* The file system's table: the sample FSD's, one with all members, a short one.
Table(t) == CASE t = "sample" -> SFsdTable [] t = "full" -> Member [] t = "short" -> OldMember
-----------------------------------------------------------------------------
VARIABLES
  target,  \* whose table is below
  dying,   \* the file system is deleting the volume's device object
  stack,   \* filter devices not yet deleted, from the bottom
  cut,     \* nothing is attached to the volume any more, whatever is in stack
  life,    \* of each filter device: "new", "attached", "detached" or "gone"
  owner,   \* who holds DeviceExtensionResource
  use,     \* what each caller does
  pc,      \* how far its current call is
  giving,  \* the call returns what the first one took
  dev,     \* the device the call was routed to
  done,    \* how often the file system has done, and not undone, what the caller asked:
           \* negative when it undid what it had not done
  wild,    \* members that were read beyond the end of a table
  stray,   \* IoDetachDevice was called for a device that nothing was attached to
  bugcheck \* a routine used a deleted extension: the system has stopped

devVars == <<target, dying, stack, cut, life, stray>>
vars == <<devVars, owner, use, pc, giving, dev, done, wild, bugcheck>>

Idle == Once(SFilterFastIoRead)

Init ==
  /\ target \in Targets
  /\ dying = FALSE /\ cut = FALSE /\ stray = FALSE
  /\ stack = <<>> /\ life = [d \in Dev |-> "new"]
  /\ owner = [d \in Dev |-> Nobody]
  /\ use = [i \in Caller |-> Idle]
  /\ pc = [i \in Caller |-> "idle"]
  /\ giving = [i \in Caller |-> FALSE]
  /\ dev = [i \in Caller |-> NoDev]
  /\ done = [i \in Caller |-> 0]
  /\ wild = {} /\ bugcheck = FALSE

TypeOK ==
  /\ target \in Targets
  /\ {dying, cut, stray, bugcheck} \subseteq BOOLEAN
  /\ ToSet(stack) = {d \in Dev : life[d] \in {"attached", "detached"}} /\ IsInjective(stack)
  /\ life \in [Dev -> {"new", "attached", "detached", "gone"}]
  /\ owner \in [Dev -> Caller \cup {Nobody}]
  /\ use \in [Caller -> Use]
  /\ pc \in [Caller -> {"idle", "route", "enter", "looking", "calling", "irp", "working", "over"}]
  /\ giving \in [Caller -> BOOLEAN]
  /\ dev \in [Caller -> Dev \cup {NoDev}]
  /\ done \in [Caller -> -1 .. 2]
  /\ wild \subseteq Member
-----------------------------------------------------------------------------
(* Devices come and go. *)

\* SFilterAttachTarget, which SFilterMountAttach calls after each mount of the volume, a
\* remount included: the new device goes on top of the stack, the target it notes is the
\* volume's device itself.
Attach(d) ==
  /\ life[d] = "new" /\ ~dying
  /\ stack' = Append(stack, d)
  /\ life' = [life EXCEPT ![d] = "attached"]
  /\ UNCHANGED <<target, dying, cut, stray, owner, use, pc, giving, dev, done, wild>>

DeleteVolume ==
  /\ ~dying /\ dying' = TRUE
  /\ UNCHANGED <<target, stack, cut, life, stray, owner, use, pc, giving, dev, done, wild>>

\* SFilterFastIoDetachDevice is called for what is attached to a device object that is being
\* deleted.  SFilterDetachTarget calls IoDetachDevice for the volume, which was noted as the
\* target, and clears the flag ATTACHED.
DetachDevice ==
  /\ dying /\ stack # <<>> /\ life[Head(stack)] = "attached"
  /\ owner[Head(stack)] = Nobody
  /\ stray' = (stray \/ cut)
  /\ cut' = TRUE
  /\ life' = [life EXCEPT ![Head(stack)] = "detached"]
  /\ UNCHANGED <<target, dying, stack, owner, use, pc, giving, dev, done, wild>>

\* The resource is released, the node type set to 0, the resource deleted and with it the
\* device, which leads to a detach of the device above it.  A routine may be anywhere.
DeleteDevice ==
  /\ stack # <<>> /\ life[Head(stack)] = "detached"
  /\ life' = [life EXCEPT ![Head(stack)] = "gone"]
  /\ stack' = Tail(stack)
  /\ UNCHANGED <<target, dying, cut, stray, owner, use, pc, giving, dev, done, wild>>
-----------------------------------------------------------------------------
(* A call through the filter *)

EntryOf(i) == IF giving[i] THEN use[i].give ELSE use[i].take

Goto(i, label) == pc' = [pc EXCEPT ![i] = label]

\* The call returned: what the caller does next depends on what it is told.
Return(i, answer) ==
  Goto(i, IF use[i].kind = "held" \/ answer
            THEN IF use[i].kind # "once" /\ ~giving[i] /\ answer THEN "working" ELSE "over"
            ELSE "irp")

Start(i, u) ==
  /\ pc[i] = "idle" /\ ~dying
  /\ use' = [use EXCEPT ![i] = u]
  /\ Goto(i, "route")
  /\ UNCHANGED <<devVars, owner, giving, dev, done, wild>>

\* The device on top of the stack is asked, or the file system itself.
Route(i) ==
  /\ pc[i] = "route"
  /\ IF cut \/ stack = <<>>
       THEN Goto(i, "calling") /\ dev' = [dev EXCEPT ![i] = NoDev]
       ELSE Goto(i, "enter") /\ dev' = [dev EXCEPT ![i] = Last(stack)]
  /\ UNCHANGED <<devVars, owner, use, giving, done, wild>>

\* The routine looks at the node type, which was set to 0 before the device was deleted, and
\* acquires the extension's resource.
Enter(i) ==
  /\ pc[i] = "enter"
  /\ IF life[dev[i]] = "gone"
       THEN Return(i, EntryOf(i).answer) /\ UNCHANGED owner
       ELSE /\ owner[dev[i]] = Nobody
            /\ owner' = [owner EXCEPT ![dev[i]] = i]
            /\ Goto(i, "looking")
  /\ UNCHANGED <<devVars, use, giving, dev, done, wild>>

\* What the routine finds in the target's table.  It reads beyond a table of the old size
\* unless it looks at the size first.
Offered(e) == e.member \in Table(target) /\ (e.sized => target # "short")
BeyondTable(e) == target = "short" /\ e.member \notin OldMember /\ ~e.sized

\* Mutant: the resource is kept if there is nothing to call.
Look_Kept(i) ==
  /\ pc[i] = "looking"
  /\ IF life[dev[i]] = "attached" /\ Offered(EntryOf(i))
       THEN Goto(i, "calling") /\ owner' = [owner EXCEPT ![dev[i]] = Nobody]
       ELSE Return(i, EntryOf(i).answer) /\ UNCHANGED owner
  /\ UNCHANGED <<devVars, use, giving, dev, done, wild>>

\* With the resource held, the routine finds out what to call, and releases the resource.
Look(i) ==
  /\ pc[i] = "looking" /\ life[dev[i]] # "gone"
  /\ owner' = [owner EXCEPT ![dev[i]] = Nobody]
  /\ LET attached == life[dev[i]] = "attached"
         e == EntryOf(i)
     IN /\ wild' = IF attached /\ BeyondTable(e) THEN wild \cup {e.member} ELSE wild
        /\ IF attached /\ Offered(e) THEN Goto(i, "calling") ELSE Return(i, e.answer)
  /\ UNCHANGED <<devVars, use, giving, dev, done>>
-----------------------------------------------------------------------------
(* The file system's side: an entry does what it is asked, or declines.    *)

\* What a release undoes need not have been done: an acquisition may have been dropped at a
\* detached device.
Did(i) == done' = [done EXCEPT ![i] = IF giving[i] THEN @ - 1 ELSE @ + 1]

\* Resources for a section, the modified page writer or a flush exclude each other.
Excluded(i) == \E j \in Caller \ {i} : use[j].kind = "held" /\ done[j] > 0

CanDecline(e) ==
  \/ target # "sample" /\ ~e.answer
  \/ target = "sample" /\ e.member \in SFsdDeclines
  \/ target # "sample" /\ e.member = "AcquireForModWrite"

\* To call the target most routines read its device object out of the extension, the two for
\* sections do not.  They have released the resource, and nobody counts them.
ReadsExtension(i) ==
  /\ dev[i] # NoDev
  /\ EntryOf(i).member \notin {"AcquireFileForNtCreateSection", "ReleaseFileForNtCreateSection"}

\* The entry of the target is called, without the resource and uncounted; what it returns is
\* returned.  A caller that found no filter device calls what there is.
Call(i) ==
  /\ pc[i] = "calling"
  /\ ReadsExtension(i) => life[dev[i]] # "gone"
  /\ LET e == EntryOf(i)
         works == target = "sample" => e.member \notin SFsdDeclines \cup SFsdSucceedsIdly
     IN \/ /\ Offered(e) /\ works
           /\ use[i].kind = "held" /\ ~giving[i] => ~Excluded(i)
           /\ Did(i) /\ Return(i, TRUE)
        \/ /\ Offered(e) /\ CanDecline(e)
           /\ Return(i, FALSE) /\ UNCHANGED done
        \/ /\ Offered(e) /\ ~works /\ ~CanDecline(e)
           /\ Return(i, TRUE) /\ UNCHANGED done
        \/ /\ ~Offered(e)
           /\ Return(i, e.answer) /\ UNCHANGED done
  /\ UNCHANGED <<devVars, owner, use, giving, dev, wild>>

\* After a FALSE the caller sends an IRP, or calls the Cache Manager to return an MDL.  What
\* is asked for may be denied.
SendIrp(i) ==
  /\ pc[i] = "irp"
  /\ \/ Did(i) /\ Goto(i, IF use[i].kind = "lent" /\ ~giving[i] THEN "working" ELSE "over")
     \/ /\ use[i].kind = "lent" /\ ~giving[i]
        /\ Goto(i, "over") /\ UNCHANGED done
  /\ UNCHANGED <<devVars, owner, use, giving, dev, wild>>

\* The caller has finished with what it was lent or holds.
Finish(i) ==
  /\ pc[i] = "working"
  /\ giving' = [giving EXCEPT ![i] = TRUE]
  /\ Goto(i, "route")
  /\ UNCHANGED <<devVars, owner, use, dev, done, wild>>
-----------------------------------------------------------------------------
\* A routine looks at the node type, reads the flags and releases the resource, or reads the
\* target's device object, in an extension that was deleted.  What follows is undefined; the
\* model stops there, as a bug check does.
TouchDeleted(i) ==
  /\ ~bugcheck /\ bugcheck' = TRUE
  /\ pc[i] \in {"enter", "looking"} \/ (pc[i] = "calling" /\ ReadsExtension(i))
  /\ life[dev[i]] = "gone"
  /\ UNCHANGED <<devVars, owner, use, pc, giving, dev, done, wild>>

Running == ~bugcheck /\ UNCHANGED bugcheck

CallStep(i) ==
  \/ /\ Running
     /\ Route(i) \/ Enter(i) \/ Look(i) \/ Call(i) \/ SendIrp(i) \/ Finish(i)
  \/ TouchDeleted(i)

Detach == Running /\ DetachDevice
Delete == Running /\ DeleteDevice

\* What the file system and the callers may do, and need not.
Environment ==
  /\ Running
  /\ \/ DeleteVolume
     \/ \E d \in Dev : Attach(d)
     \/ \E i \in Caller, u \in Use : u \in UsesOf(i) /\ Start(i, u)

Next == Environment \/ Detach \/ Delete \/ \E i \in Caller : CallStep(i)

\* A thread that can go on does; nobody has to begin anything.
Fairness ==
  /\ \A i \in Caller : WF_vars(CallStep(i))
  /\ WF_vars(Detach) /\ WF_vars(Delete)

Spec == Init /\ [][Next]_vars /\ Fairness
-----------------------------------------------------------------------------
(* Properties *)

\* A read, write, query or control is carried out once: by the file system's fast path, or by
\* the IRP that follows a FALSE (fastio.c:155).
CarriedOutOnce ==
  \A i \in Caller : pc[i] = "over" /\ use[i].kind = "once" => done[i] = 1

\* A lock or an MDL is lent by the file system while the caller works with it, and returned
\* when it is done, whichever of the calls went through a filter device, and whether that was
\* still attached when it looked.  (A call that uses a deleted extension has no end.)
LentAsBelieved ==
  \A i \in Caller : use[i].kind = "lent" =>
    /\ pc[i] = "working" => done[i] = 1
    /\ pc[i] = "over" => done[i] = 0

\* No caller is misled: what it believes to be done is done, once.
DoneAsBelieved == TypeOK /\ CarriedOutOnce /\ LentAsBelieved

\* A file system's resource that was acquired for a section, the modified page writer or a
\* flush is released, unless the device that the release was routed to was detached before it
\* looked: then the routine does nothing and nobody knows (fastio.c:812).  And none is released
\* that was not acquired, unless the acquisition met a detached device (fastio.c:758).
Lost(i)    == pc[i] = "over" /\ use[i].kind = "held" /\ done[i] > 0
Unowned(i) == use[i].kind = "held" /\ done[i] < 0

ReleasedUnlessDetached ==
  \A i \in Caller :
    /\ Lost(i) => dev[i] # NoDev /\ life[dev[i]] \in {"detached", "gone"}
    /\ Unowned(i) => \E d \in Dev : life[d] \in {"detached", "gone"}

\* No routine looks at a member of the target's table that a table of the old size does not
\* have, "we should perform the check regardless" (fastio.c:909).  The two for compressed
\* transfers do, see the README.
ReadsWithinTable == wild \subseteq {"FastIoReadCompressed", "FastIoWriteCompressed"}

\* Each call returns and each bracket is closed, unless a release was lost or the system has
\* stopped: no routine calls the target with the extension's resource held (fastio.c:755).
CallsEnd ==
  \A i \in Caller :
    pc[i] = "route" ~> pc[i] = "over" \/ bugcheck \/ \E j \in Caller : Lost(j)

\* "Detach if attached" (attach.c:193): IoDetachDevice is called for a device something is
\* attached to.
DetachesAttachment == ~stray
=============================================================================
