--------------------------- MODULE SFsdReadWrite ---------------------------
(***************************************************************************)
(* SFsdCommonRead and SFsdCommonWrite.  Lower-level drivers are never      *)
(* called by the sample: a noncached request stays pending.                *)
(***************************************************************************)
EXTENDS SFsdRequest

IsRead(i)   == op[i].major = "read"
IsWrite(i)  == op[i].major = "write"
Transfer(i) == op[i].form \in {"normal", "mdl"}

TransferResource(i) ==
  IF op[i].target = "volume" THEN Vcb ELSE IF op[i].paging THEN Paging(i) ELSE Main(i)

\* The finally block when the routine completes the request itself: the CCB
\* remembers a transfer that was not paging I/O, unless RC is an error.
Remember(i, flag) == ccb' = IF op[i].paging THEN ccb ELSE ccb \cup {flag}

Succeed(i, flag) ==
  Complete(i, "success", {}) /\ Remember(i, flag) /\ UNCHANGED <<size, cached>>
Fail(i, s) == Complete(i, s, {}) /\ UNCHANGED fileVars

\* Mutant: the finally block completes the request too, as if no exception were noted.
Raise_Unnoted(i, flag) ==
  /\ completed' = [completed EXCEPT ![i] = @ + 2]
  /\ freed' = [freed EXCEPT ![i] = @ + 2]
  /\ hold' = [hold EXCEPT ![i] = Nothing]
  /\ status' = [status EXCEPT ![i] = "raised"]
  /\ irp' = [irp EXCEPT ![i] = "completed"]
  /\ pc' = [pc EXCEPT ![i] = "away"]
  /\ Remember(i, flag)
  /\ UNCHANGED <<op, canBlock, buffer, size, cached>>

\* A Cache Manager routine raised an expected exception.  RC still is
\* STATUS_SUCCESS when the finally block runs; the exception handler
\* completes the request.
Raise(i, flag) ==
  /\ cached' \in {cached, TRUE}
  /\ Complete(i, "raised", {}) /\ Remember(i, flag) /\ UNCHANGED size
-----------------------------------------------------------------------------
(* SFsdCommonRead *)

\* Mutant: the resource is given back and nothing is posted, as for a write.
PostRead_Lost(i) == ReturnWith(i, "driver", {}) /\ UNCHANGED <<size, ccb>>

\* The PostRequest branch locks the caller's buffer, unless an MDL is there
\* already; if that fails, the request is posted all the same.  For a request at
\* DISPATCH_LEVEL the length is not known yet.
PostRead(i) ==
  \E b \in {"user", "short", "locked"} :
    /\ IF buffer[i] # "user" \/ op[i].form = "mdl" THEN b = buffer[i]
       ELSE b \in {"user", IF op[i].form = "dpc" THEN "short" ELSE "locked"}
    /\ PostRequest(i, b)
    /\ UNCHANGED <<size, ccb>>

\* What is decided before a resource is taken.
ReadUnlocked(i) ==
  /\ pc[i] = "start" /\ IsRead(i)
  /\ \/ /\ op[i].form = "complete"
        /\ Complete(i, "success", {}) /\ UNCHANGED fileVars
     \/ op[i].form = "dpc" /\ PostRead(i) /\ UNCHANGED cached
     \/ op[i].form = "empty" /\ HasCcb(i) /\ Succeed(i, "ACCESSED")
     \/ /\ Transfer(i) /\ op[i].target = "pagefile"
        /\ ReturnWith(i, "disk", {}) /\ UNCHANGED fileVars
     \/ Transfer(i) /\ op[i].target = "directory" /\ Fail(i, "invalid")
     \/ /\ Transfer(i) /\ op[i].target = "file" /\ op[i].nocache /\ cached
        /\ Fail(i, "failed")

ReadAcquire(i) ==
  /\ pc[i] = "start" /\ IsRead(i)
  /\ Transfer(i) /\ op[i].target \in {"volume", "file"}
  /\ \/ Acquire(i, TransferResource(i), "shared", "held") /\ UNCHANGED fileVars
     \/ Busy(i, TransferResource(i), "shared") /\ PostRead(i) /\ UNCHANGED cached

\* A read of the volume locks the buffer, a read of the file checks its
\* offset against the file size.
ReadCheck(i) ==
  /\ pc[i] = "held" /\ IsRead(i)
  /\ IF op[i].target = "volume"
       THEN Succeed(i, "ACCESSED") \/ Fail(i, "failed")
       ELSE IF op[i].at > size.file
              THEN Fail(i, "end_of_file")
              ELSE /\ pc' = [pc EXCEPT ![i] = "checked"]
                   /\ UNCHANGED <<op, canBlock, irp, hold, buffer, status, completed, freed, fileVars>>

ReadCached(i) ==
  /\ pc[i] = "checked" /\ IsRead(i) /\ ~op[i].nocache
  /\ cached' = TRUE
  /\ \/ Complete(i, "success", {}) /\ Remember(i, "ACCESSED") /\ UNCHANGED size
     \/ Complete(i, "failed", {}) /\ UNCHANGED <<size, ccb>>
     \/ op[i].form = "normal" /\ ~canBlock[i] /\ PostRead(i)

ReadRaises(i) == pc[i] = "checked" /\ IsRead(i) /\ ~op[i].nocache /\ Raise(i, "ACCESSED")

\* The resource stays with the request, for the completion routine.
ReadNonCached(i) ==
  /\ pc[i] = "checked" /\ IsRead(i) /\ op[i].nocache
  /\ ReturnWith(i, "disk", {TransferResource(i)})
  /\ UNCHANGED fileVars
-----------------------------------------------------------------------------
(* SFsdCommonWrite *)

\* The PostRequest branch gives the resource back and posts nothing.
PostWrite(i) == ReturnWith(i, "driver", {}) /\ UNCHANGED <<size, ccb>>

\* CcCanIWrite says no to a cached write that cannot wait; this is asked
\* before the target is looked at, except for the volume.
Deferred(i) ==
  /\ Transfer(i) /\ op[i].target \notin {"volume", "driver"}
  /\ ~op[i].nocache /\ ~canBlock[i]

WriteUnlocked(i) ==
  /\ pc[i] = "start" /\ IsWrite(i)
  /\ \/ /\ op[i].form = "complete"
        /\ Complete(i, "success", {}) /\ UNCHANGED fileVars
     \/ op[i].form = "dpc" /\ PostWrite(i) /\ UNCHANGED cached
     \/ op[i].form = "empty" /\ HasCcb(i) /\ Succeed(i, "MODIFIED")
     \/ Deferred(i) /\ ReturnWith(i, "cache", {}) /\ UNCHANGED fileVars
     \/ /\ Transfer(i) /\ op[i].target = "pagefile"
        /\ ReturnWith(i, "disk", {}) /\ UNCHANGED fileVars
     \/ Transfer(i) /\ op[i].target = "directory" /\ Fail(i, "invalid")

\* The volume is taken shared, a file exclusively.
WriteMode(i) == IF op[i].target = "volume" THEN "shared" ELSE "exclusive"

WriteAcquire(i) ==
  /\ pc[i] = "start" /\ IsWrite(i)
  /\ Transfer(i) /\ op[i].target \in {"volume", "file"}
  /\ \/ Acquire(i, TransferResource(i), WriteMode(i), "held") /\ UNCHANGED fileVars
     \/ Busy(i, TransferResource(i), WriteMode(i)) /\ PostWrite(i) /\ UNCHANGED cached

WriteVolume(i) ==
  /\ pc[i] = "held" /\ IsWrite(i) /\ op[i].target = "volume"
  /\ Succeed(i, "MODIFIED") \/ Fail(i, "failed")

WriteCached(i) ==
  /\ pc[i] = "held" /\ IsWrite(i) /\ op[i].target = "file" /\ ~op[i].nocache
  /\ cached' = TRUE
  /\ \/ Complete(i, "success", {}) /\ Remember(i, "MODIFIED") /\ UNCHANGED size
     \/ op[i].form = "mdl" /\ Complete(i, "failed", {}) /\ UNCHANGED <<size, ccb>>
     \/ op[i].form = "normal" /\ ~canBlock[i] /\ PostWrite(i)

WriteRaises(i) ==
  /\ pc[i] = "held" /\ IsWrite(i) /\ op[i].target = "file" /\ ~op[i].nocache
  /\ Raise(i, "MODIFIED")

\* Cached data is flushed first, which may fail.
WriteNonCached(i) ==
  /\ pc[i] = "held" /\ IsWrite(i) /\ op[i].target = "file" /\ op[i].nocache
  /\ \/ ~op[i].paging /\ cached /\ Fail(i, "failed")
     \/ ReturnWith(i, "disk", {TransferResource(i)}) /\ UNCHANGED fileVars

\* SFsdDeferredWriteCallBack, whose body is empty.
DeferredWriteCallBack(i) ==
  /\ irp[i] = "cache"
  /\ irp' = [irp EXCEPT ![i] = "driver"]
  /\ UNCHANGED <<op, canBlock, pc, hold, buffer, status, completed, freed, fileVars>>
-----------------------------------------------------------------------------
ReadWriteStep(i) ==
  \/ ReadUnlocked(i) \/ ReadAcquire(i) \/ ReadCheck(i) \/ ReadCached(i)
  \/ ReadRaises(i) \/ ReadNonCached(i)
  \/ WriteUnlocked(i) \/ WriteAcquire(i) \/ WriteVolume(i) \/ WriteCached(i)
  \/ WriteRaises(i) \/ WriteNonCached(i) \/ DeferredWriteCallBack(i)
=============================================================================
