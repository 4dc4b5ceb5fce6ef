--------------------------- MODULE SFsdFileInfo ---------------------------
(***************************************************************************)
(* SFsdCommonFileInfo: query and set file information.                     *)
(***************************************************************************)
EXTENDS SFsdRequest

IsQuery(i) == op[i].major = "query"
IsSet(i)   == op[i].major = "set"
\* Classes for which the volume's resource is to be taken first.
NamesEntry(i) == op[i].class = "disposition"

\* The finally block gives back Main; PagingIoResourceAcquired was never set, so
\* PagingIo stays with the thread.
KeptByInfo(i) == {Paging(i)}

EndInfo(i, s) == Complete(i, s, KeptByInfo(i)) /\ UNCHANGED fileVars
PostInfo(i)    == PostRequest(i, buffer[i]) /\ UNCHANGED fileVars

\* A query or set on a volume handle is refused.
InfoOnVolume(i) ==
  /\ pc[i] = "start" /\ (IsQuery(i) \/ IsSet(i)) /\ op[i].target = "volume"
  /\ EndInfo(i, "invalid")

QueryAcquire(i) ==
  /\ pc[i] = "start" /\ IsQuery(i) /\ op[i].target \in Stream \ {"pagefile"}
  /\ \/ Acquire(i, Main(i), "shared", "held") /\ UNCHANGED fileVars
     \/ Busy(i, Main(i), "shared") /\ PostInfo(i)

Query(i) ==
  /\ IsQuery(i)
  /\ pc[i] = IF op[i].target = "pagefile" THEN "start" ELSE "held"
  /\ \/ op[i].class \in {"basic", "position", "other"} /\ EndInfo(i, "success")
     \/ op[i].class \in {"disposition", "allocation", "other"} /\ EndInfo(i, "invalid")

\* PtrVCB is still a null pointer when the volume's resource is asked for.
SetNamesEntry(i) ==
  /\ pc[i] = "start" /\ IsSet(i) /\ op[i].target \in Stream /\ NamesEntry(i)
  /\ Crash(i)

SetAcquire(i) ==
  /\ pc[i] = "start" /\ IsSet(i) /\ op[i].target \in Stream /\ ~NamesEntry(i)
  /\ IF op[i].target = "pagefile"
       THEN /\ pc' = [pc EXCEPT ![i] = "paging"]
            /\ UNCHANGED <<op, canBlock, irp, hold, buffer, status, completed, freed, fileVars>>
       ELSE \/ Acquire(i, Main(i), "exclusive", "paging") /\ UNCHANGED fileVars
            \/ Busy(i, Main(i), "exclusive") /\ PostInfo(i)

SetAcquirePaging(i) ==
  /\ pc[i] = "paging"
  /\ \/ Acquire(i, Paging(i), "exclusive", "held") /\ UNCHANGED fileVars
     \/ Busy(i, Paging(i), "exclusive") /\ PostInfo(i)
-----------------------------------------------------------------------------
\* Mutant: what is taken away is stored.
Truncated_Difference(s, new) == IF s < new THEN s - new ELSE s

\* SFsdSetAllocationInformation: a size is replaced when it is less than
\* the new allocation size and the file is being truncated.
Truncated(s, new) == IF s < new THEN new ELSE s

NewSizes(new) ==
  IF size.allocation > new
    THEN [allocation |-> new, file |-> Truncated(size.file, new), valid |-> Truncated(size.valid, new)]
    ELSE [size EXCEPT !.allocation = new]

\* Shrinking a mapped file may be refused; CcSetFileSizes may raise.
SetAllocation(i) ==
  /\ pc[i] = "held" /\ IsSet(i) /\ op[i].class = "allocation" /\ op[i].target = "file"
  /\ \/ /\ size.allocation # op[i].at
        /\ size' = NewSizes(op[i].at)
        /\ \E s \in {"success", "raised"} : Complete(i, s, KeptByInfo(i))
        /\ UNCHANGED <<cached, ccb>>
     \/ size.allocation = op[i].at /\ EndInfo(i, "success")
     \/ size.allocation > op[i].at /\ EndInfo(i, "failed")

\* A new creation time is remembered in the CCB.
SetBasic(i) ==
  /\ pc[i] = "held" /\ IsSet(i) /\ op[i].class = "basic"
  /\ \E flag \in {{}, {"CREATE_TIME_SET"}} : ccb' = ccb \cup flag
  /\ Complete(i, "success", KeptByInfo(i))
  /\ UNCHANGED <<size, cached>>

\* The file position, which may be misaligned; any other class, whether the
\* switch has a case for it or not; the allocation of another stream.
SetOther(i) ==
  /\ pc[i] = "held" /\ IsSet(i)
  /\ \/ op[i].class = "position" /\ \E s \in {"success", "invalid"} : EndInfo(i, s)
     \/ op[i].class = "other" /\ \E s \in {"success", "invalid"} : EndInfo(i, s)
     \/ /\ op[i].class = "allocation" /\ op[i].target # "file"
        /\ \E s \in {"success", "failed", "raised"} : EndInfo(i, s)

FileInfoStep(i) ==
  \/ InfoOnVolume(i) \/ QueryAcquire(i) \/ Query(i)
  \/ SetNamesEntry(i) \/ SetAcquire(i) \/ SetAcquirePaging(i)
  \/ SetAllocation(i) \/ SetBasic(i) \/ SetOther(i)
=============================================================================
