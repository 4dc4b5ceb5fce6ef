----------------------------- MODULE SFsdHandle -----------------------------
(***************************************************************************)
(* SFsdCommonCreate with SFsdOpenVolume, and the routines that should undo *)
(* it.  The sample opens volumes; of streams, it only gets as far as the   *)
(* root directory.  No code locks the volume.                              *)
(***************************************************************************)
EXTENDS SFsdRequest

IsCreate(i) == op[i].major = "create"

\* The finally block.  It completes the request before it gives the volume back.
EndCreate(i, s) == Complete(i, s, {})

\* An open of the driver's own device, before there is an IRP context.
OpenDriver(i) ==
  /\ pc[i] = "start" /\ IsCreate(i) /\ op[i].target = "driver"
  /\ pc' = [pc EXCEPT ![i] = "away"]
  /\ irp' = [irp EXCEPT ![i] = "completed"]
  /\ status' = [status EXCEPT ![i] = "success"]
  /\ completed' = [completed EXCEPT ![i] = @ + 1]
  /\ UNCHANGED <<op, canBlock, hold, buffer, freed, fileVars, volVars>>

\* A create that cannot block is posted; one for more than 4 GB is refused.
CreateUnlocked(i) ==
  /\ pc[i] = "start" /\ IsCreate(i) /\ op[i].target # "driver"
  /\ IF canBlock[i] THEN EndCreate(i, "invalid") ELSE PostRequest(i, buffer[i])
  /\ UNCHANGED <<fileVars, volVars>>

\* Mutant: opens do not lock each other out.
CreateAcquire_Shared(i) ==
  /\ pc[i] = "start" /\ IsCreate(i) /\ op[i].target # "driver" /\ canBlock[i]
  /\ Acquire(i, Vcb, "shared", "held")
  /\ UNCHANGED <<fileVars, volVars>>

CreateAcquire(i) ==
  /\ pc[i] = "start" /\ IsCreate(i) /\ op[i].target # "driver" /\ canBlock[i]
  /\ Acquire(i, Vcb, "exclusive", "held")
  /\ UNCHANGED <<fileVars, volVars>>

\* The disposition is made a truth value (&&) where it should be masked:
\* 1, which any other but 0 becomes, is FILE_OPEN, 0 is FILE_SUPERSEDE.
RequestedDisposition(i) == IF op[i].class = "supersede" THEN "supersede" ELSE "open"

\* Options that make no sense for a volume; a disposition that would create one;
\* or the open, whose CCB is added to the volume's list.
CreateVolume(i) ==
  /\ pc[i] = "held" /\ IsCreate(i) /\ op[i].target = "volume"
  /\ \/ EndCreate(i, "invalid") /\ UNCHANGED volVars
     \/ RequestedDisposition(i) # "open" /\ EndCreate(i, "failed") /\ UNCHANGED volVars
     \/ /\ RequestedDisposition(i) = "open"
        /\ opens' = opens \cup {i}
        /\ pc' = [pc EXCEPT ![i] = "opening"]
        /\ UNCHANGED <<op, canBlock, irp, hold, buffer, status, completed, freed,
                       openCount, notify, patterns>>
  /\ UNCHANGED fileVars

\* The open is counted, the request completed.
CountOpen(i) ==
  /\ pc[i] = "opening"
  /\ openCount' = openCount + 1
  /\ EndCreate(i, "success")
  /\ UNCHANGED <<fileVars, opens, notify, patterns>>

\* Names are checked; the root is opened without a CCB; the loop over the
\* components of any other name has no body and no end.
CreateStream(i) ==
  /\ pc[i] = "held" /\ IsCreate(i) /\ op[i].target \in Stream
  /\ \/ EndCreate(i, "invalid")
     \/ op[i].form = "root" /\ RequestedDisposition(i) = "open" /\ EndCreate(i, "success")
     \/ /\ op[i].form # "root"
        /\ pc' = [pc EXCEPT ![i] = "looping"]
        /\ UNCHANGED <<op, canBlock, irp, hold, buffer, status, completed, freed>>
  /\ UNCHANGED <<fileVars, volVars>>
-----------------------------------------------------------------------------
(* Routines whose work is described in comments only: they return success,  *)
(* the IRP stays with the driver and its context is not released.           *)

Abandon(i) == pc[i] = "start" /\ ReturnWith(i, "driver", {}) /\ UNCHANGED <<fileVars, volVars>>

Cleanup(i)  == op[i].major = "cleanup" /\ HasCcb(i) /\ Abandon(i)
Close(i)    == op[i].major = "close"   /\ HasCcb(i) /\ Abandon(i)
Shutdown(i) == op[i].major = "shutdown" /\ Abandon(i)

HandleStep(i) ==
  \/ OpenDriver(i) \/ CreateUnlocked(i) \/ CreateAcquire(i) \/ CreateVolume(i)
  \/ CountOpen(i) \/ CreateStream(i)
  \/ Cleanup(i) \/ Close(i) \/ Shutdown(i)
=============================================================================
