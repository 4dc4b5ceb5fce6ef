--------------------------- MODULE SFsdDirectory ---------------------------
(***************************************************************************)
(* SFsdCommonDirControl: queries of a directory, and notifications of      *)
(* changes, which the notify package of the system keeps until there is    *)
(* one.  The sample never reports a change.                                *)
(***************************************************************************)
EXTENDS SFsdRequest

IsDirectory(i) == op[i].major = "directory"
IsLookup(i) == IsDirectory(i) /\ op[i].form = "query"
IsNotify(i) == IsDirectory(i) /\ op[i].form = "notify"

UnknownMinor(i) ==
  /\ pc[i] = "start" /\ IsDirectory(i) /\ HasCcb(i) /\ ~IsLookup(i) /\ ~IsNotify(i)
  /\ Complete(i, "unsupported", {})
  /\ UNCHANGED <<fileVars, volVars>>

\* A volume's control block is used as a file's: both take for a resource
\* what is none.
VolumeAsDirectory(i) ==
  /\ pc[i] = "start" /\ op[i].target = "volume"
  /\ (IsLookup(i) /\ canBlock[i]) \/ IsNotify(i)
  /\ Crash(i)

\* The buffer is locked, as far as that succeeds, for a length not yet read.
LookupPost(i) ==
  /\ pc[i] = "start" /\ IsLookup(i) /\ HasCcb(i) /\ ~canBlock[i]
  /\ \E b \in {"user", "short"} : PostRequest(i, b)
  /\ UNCHANGED <<fileVars, volVars>>

\* Mutant: "not mandatory, however, and your FSD could choose to acquire the
\* resource shared for increased parallelism" (dircntrl.c:219).
LookupAcquire_Shared(i) ==
  /\ pc[i] = "start" /\ IsLookup(i) /\ canBlock[i] /\ op[i].target \in Stream
  /\ Acquire(i, Main(i), "shared", "held")
  /\ UNCHANGED <<fileVars, volVars>>

LookupAcquire(i) ==
  /\ pc[i] = "start" /\ IsLookup(i) /\ canBlock[i] /\ op[i].target \in Stream
  /\ Acquire(i, Main(i), "exclusive", "held")
  /\ UNCHANGED <<fileVars, volVars>>

\* Something that is no directory has been found out but is not turned away
\* until the end.
LookupStatus(i) == IF op[i].target = "directory" THEN "success" ELSE "invalid"

\* Is there a pattern in the CCB?  If not and the caller has one (the test in
\* the code is the wrong way round, but it asks for both), memory is allocated.
Lookup(i) ==
  /\ pc[i] = "held" /\ IsLookup(i)
  /\ \/ Complete(i, LookupStatus(i), {})
     \/ /\ patterns[op[i].target] = 0
        /\ pc' = [pc EXCEPT ![i] = "storing"]
        /\ UNCHANGED <<op, canBlock, irp, hold, buffer, status, completed, freed>>
  /\ UNCHANGED <<fileVars, volVars>>

StorePattern(i) ==
  /\ pc[i] = "storing"
  /\ patterns' = [patterns EXCEPT ![op[i].target] = @ + 1]
  /\ Complete(i, LookupStatus(i), {})
  /\ UNCHANGED <<fileVars, opens, openCount, notify>>
-----------------------------------------------------------------------------
NotifyAcquire(i) ==
  /\ pc[i] = "start" /\ IsNotify(i) /\ op[i].target \in Stream
  /\ \/ Acquire(i, Main(i), "shared", "held")
     \/ Busy(i, Main(i), "shared") /\ PostRequest(i, buffer[i])
  /\ UNCHANGED <<fileVars, volVars>>

\* The IRP is queued.  If it is not for a directory it is completed, too.
NotifyChange(i) ==
  /\ pc[i] = "held" /\ IsNotify(i)
  /\ notify' = notify \cup {i}
  /\ IF op[i].target = "directory"
       THEN /\ hold' = [hold EXCEPT ![i] = Nothing]
            /\ freed' = [freed EXCEPT ![i] = @ + 1]
            /\ irp' = [irp EXCEPT ![i] = "notify"]
            /\ pc' = [pc EXCEPT ![i] = "away"]
            /\ UNCHANGED <<op, canBlock, buffer, status, completed>>
       ELSE Complete(i, "pending", {})
  /\ UNCHANGED <<fileVars, opens, openCount, patterns>>

\* The notify package completes a request that is cancelled.
CancelNotify(i) ==
  /\ i \in notify
  /\ notify' = notify \ {i}
  /\ irp' = [irp EXCEPT ![i] = "completed"]
  /\ completed' = [completed EXCEPT ![i] = @ + 1]
  /\ status' = [status EXCEPT ![i] = "failed"]
  /\ UNCHANGED <<op, canBlock, pc, hold, buffer, freed, fileVars, opens, openCount, patterns>>

DirectoryStep(i) ==
  \/ UnknownMinor(i) \/ LookupPost(i) \/ LookupAcquire(i) \/ Lookup(i) \/ StorePattern(i)
  \/ NotifyAcquire(i) \/ NotifyChange(i)
=============================================================================
