---------------------------- MODULE SFsdForward ----------------------------
(***************************************************************************)
(* Requests that go on to the driver below, with a completion routine:     *)
(* SFsdCommonFlush and SFsdCommonDeviceControl.                            *)
(***************************************************************************)
EXTENDS SFsdRequest

IsFlush(i) == op[i].major = "flush"
IsIoctl(i) == op[i].major = "ioctl"

\* The whole volume is flushed if it or its root directory is named.
FlushesVolume(i) == op[i].target = "volume" \/ op[i].form = "root"

\* IoCallDriver: the IRP is somebody else's now, its context still the routine's.
SendDown(i) ==
  /\ hold' = [hold EXCEPT ![i] = Nothing]
  /\ irp' = [irp EXCEPT ![i] = "lower"]
  /\ pc' = [pc EXCEPT ![i] = "sent"]
  /\ UNCHANGED <<op, canBlock, buffer, status, completed, freed, fileVars, volVars>>

\* The finally block.
ReleaseContext(i) ==
  /\ pc[i] = "sent"
  /\ freed' = [freed EXCEPT ![i] = @ + 1]
  /\ pc' = [pc EXCEPT ![i] = "away"]
  /\ UNCHANGED <<op, canBlock, irp, hold, buffer, status, completed, fileVars, volVars>>

\* SFsdFlushCompletion: a driver below that knows no flush does no harm.
FlushCompletion(s) == IF s = "unsupported" THEN "success" ELSE s

\* The driver below is done, and the completion routine called.
LowerCompletes(i) ==
  /\ irp[i] = "lower"
  /\ irp' = [irp EXCEPT ![i] = "completed"]
  /\ completed' = [completed EXCEPT ![i] = @ + 1]
  /\ \E s \in {"success", "failed", "unsupported"} :
       status' = [status EXCEPT ![i] = IF IsFlush(i) THEN FlushCompletion(s) ELSE s]
  /\ UNCHANGED <<op, canBlock, pc, hold, buffer, freed, fileVars, volVars>>
-----------------------------------------------------------------------------
FlushPost(i) ==
  /\ pc[i] = "start" /\ IsFlush(i) /\ HasCcb(i) /\ ~canBlock[i]
  /\ PostRequest(i, buffer[i])
  /\ UNCHANGED <<fileVars, volVars>>

FlushAcquire(i) ==
  /\ pc[i] = "start" /\ IsFlush(i) /\ HasCcb(i) /\ canBlock[i]
  /\ FlushesVolume(i) \/ op[i].target # "directory"
  /\ Acquire(i, IF FlushesVolume(i) THEN Vcb ELSE Main(i), "exclusive", "held")
  /\ UNCHANGED <<fileVars, volVars>>

\* SFsdFlushLogicalVolume, where the walk through the FCBs is left out.
FlushVolume(i) == pc[i] = "held" /\ IsFlush(i) /\ FlushesVolume(i) /\ SendDown(i)

\* For a file, after CcFlushCache, and for a directory, PtrVCB is still a null
\* pointer when the request is to be sent on.
FlushStream(i) ==
  /\ IsFlush(i) /\ HasCcb(i) /\ ~FlushesVolume(i) /\ canBlock[i]
  /\ pc[i] = IF op[i].target = "directory" THEN "start" ELSE "held"
  /\ Crash(i)

DeviceControl(i) == pc[i] = "start" /\ IsIoctl(i) /\ HasCcb(i) /\ SendDown(i)

ForwardStep(i) ==
  \/ FlushPost(i) \/ FlushAcquire(i) \/ FlushVolume(i) \/ DeviceControl(i)
  \/ ReleaseContext(i) \/ LowerCompletes(i)
=============================================================================
