---------------------------- MODULE SFsdCallback ----------------------------
(***************************************************************************)
(* What the virtual memory manager and the Cache Manager call before and   *)
(* after they work on a file: section creation, lazy write and read ahead  *)
(* (filesys/src/fastio.c).  A call-back has no IRP; "held" is the time     *)
(* between the call that acquires and the one that releases.               *)
(***************************************************************************)
EXTENDS SFsdRequest

IsSection(i)   == op[i].major = "section"
IsLazyWrite(i) == op[i].major = "lazywrite"
IsReadAhead(i) == op[i].major = "readahead"
IsCallback(i)  == op[i].major \in CallbackMajor

\* The Cache Manager knows the CCB it passes once caching was initiated; it
\* says whether to wait.  A section is created waiting.
Call(i) ==
  /\ pc[i] = "unsent"
  /\ \E q \in Sent :
       /\ q.major \in CallbackMajor
       /\ q.major # "section" => cached
       /\ op' = [op EXCEPT ![i] = q]
       /\ canBlock' = [canBlock EXCEPT ![i] = q.sync \/ q.major = "section"]
  /\ pc' = [pc EXCEPT ![i] = "start"]
  /\ UNCHANGED <<irp, hold, buffer, status, completed, freed, fileVars, volVars, lazyWriter>>

GoTo(i, label) ==
  /\ pc' = [pc EXCEPT ![i] = label]
  /\ UNCHANGED <<op, canBlock, irp, hold, buffer, status, completed, freed, fileVars, volVars>>

Release(i, r, label) ==
  /\ hold' = [hold EXCEPT ![i][r] = "none"]
  /\ pc' = [pc EXCEPT ![i] = label]
  /\ UNCHANGED <<op, canBlock, irp, buffer, status, completed, freed, fileVars, volVars>>

\* The resource of a file, waited for or not; without it the call returns FALSE.
AcquireMain(i, mode, label) ==
  \/ Acquire(i, Main(i), mode, label) /\ UNCHANGED <<fileVars, volVars>>
  \/ Busy(i, Main(i), mode) /\ GoTo(i, "away")
-----------------------------------------------------------------------------
\* Mutant: PagingIo is taken before Main.
AcqCreateSec_Reversed(i) ==
  /\ IsSection(i)
  /\ UNCHANGED <<fileVars, volVars, lazyWriter>>
  /\ \/ pc[i] = "start" /\ Acquire(i, Paging(i), "exclusive", "taken")
     \/ pc[i] = "taken" /\ Acquire(i, Main(i), "exclusive", "held")

\* SFsdFastIoAcqCreateSec
AcqCreateSec(i) ==
  /\ IsSection(i)
  /\ UNCHANGED <<fileVars, volVars, lazyWriter>>
  /\ \/ pc[i] = "start" /\ Acquire(i, Main(i), "exclusive", "taken")
     \/ pc[i] = "taken" /\ Acquire(i, Paging(i), "exclusive", "held")

\* SFsdFastIoRelCreateSec
RelCreateSec(i) ==
  /\ IsSection(i) /\ UNCHANGED lazyWriter
  /\ \/ pc[i] = "held" /\ Release(i, Paging(i), "releasing")
     \/ pc[i] = "releasing" /\ Release(i, Main(i), "away")

\* SFsdAcqLazyWrite
AcqLazyWrite(i) ==
  /\ IsLazyWrite(i)
  /\ \/ pc[i] = "start" /\ AcquireMain(i, "exclusive", "taken") /\ UNCHANGED lazyWriter
     \/ pc[i] = "taken" /\ lazyWriter' = {i} /\ GoTo(i, "held")

\* Mutant: the file is given back before the thread is forgotten.
RelLazyWrite_Late(i) ==
  /\ IsLazyWrite(i)
  /\ \/ pc[i] = "held" /\ Release(i, Main(i), "releasing") /\ UNCHANGED lazyWriter
     \/ pc[i] = "releasing" /\ lazyWriter' = {} /\ GoTo(i, "away")

\* SFsdRelLazyWrite
RelLazyWrite(i) ==
  /\ IsLazyWrite(i)
  /\ \/ pc[i] = "held" /\ lazyWriter' = {} /\ GoTo(i, "releasing")
     \/ pc[i] = "releasing" /\ Release(i, Main(i), "away") /\ UNCHANGED lazyWriter

\* Mutant: the call returns TRUE whether the file was acquired or not.
AcqReadAhead_Ignored(i) ==
  /\ pc[i] = "start" /\ IsReadAhead(i) /\ UNCHANGED lazyWriter
  /\ \/ Acquire(i, Main(i), "shared", "held") /\ UNCHANGED <<fileVars, volVars>>
     \/ Busy(i, Main(i), "shared") /\ GoTo(i, "held")

\* SFsdAcqReadAhead
AcqReadAhead(i) ==
  /\ pc[i] = "start" /\ IsReadAhead(i) /\ UNCHANGED lazyWriter
  /\ AcquireMain(i, "shared", "held")

\* SFsdRelReadAhead
RelReadAhead(i) ==
  /\ pc[i] = "held" /\ IsReadAhead(i) /\ UNCHANGED lazyWriter
  /\ Release(i, Main(i), "away")

CallbackStep(i) ==
  \/ AcqCreateSec(i) \/ RelCreateSec(i)
  \/ AcqLazyWrite(i) \/ RelLazyWrite(i)
  \/ AcqReadAhead(i) \/ RelReadAhead(i)
=============================================================================
