---------------------------- MODULE SFsdRequest ----------------------------
(***************************************************************************)
(* The life of an I/O request in the sample file system driver (filesys):  *)
(* a dispatch routine allocates an IRP context, a common routine takes the *)
(* resources of the volume or file stream it is for, and the request is    *)
(* completed, handed to somebody else, or posted to a worker thread that   *)
(* calls the common routine again.  What the VMM and the Cache Manager     *)
(* call before they work on a file competes for the same resources.        *)
(*                                                                         *)
(* This module has the state and the steps the common routines share; the  *)
(* routines themselves are in the modules that extend it.  Every request   *)
(* has a thread of its own, its caller's or a worker's.                    *)
(***************************************************************************)
EXTENDS Integers

CONSTANTS
  Irp,      \* requests, each sent at most once
  Sent,     \* the requests that are sent
  MaxSize   \* bound on byte offsets and file sizes

Stream   == {"directory", "file", "pagefile"}
Target   == Stream \cup {"volume", "driver"}
Vcb      == <<"volume", "vcb">>
Resource == {Vcb} \cup (Stream \X {"main", "paging"})
Mode     == {"none", "shared", "exclusive"}
IrpMajor == {"read", "write", "query", "set", "create", "cleanup", "close", "shutdown",
             "flush", "directory", "ioctl"}
CallbackMajor == {"section", "lazywrite", "readahead"}

\* What the stack location and the IRP say.  form is the minor function, "empty" for
\* a transfer of length 0, "root" if the directory is the root; class is the
\* information class of a query or set, the disposition of a create;
\* at is the byte offset, or the allocation size to set; sync is
\* IoIsOperationSynchronous.  A call-back has a major of its own, and sync is Wait.
Request ==
  [major   : IrpMajor \cup CallbackMajor,
   target  : Target,
   form    : {"normal", "dpc", "mdl", "complete", "empty", "root", "query", "notify"},
   class   : {"basic", "position", "disposition", "allocation", "other",
              "supersede", "open", "overwrite"},
   paging  : BOOLEAN,
   nocache : BOOLEAN,
   sync    : BOOLEAN,
   at      : 0..MaxSize]

ASSUME SizeAssumption == MaxSize \in Nat
\* What the VMM and the Cache Manager call is for the one file that has sizes here.
ASSUME SentAssumption ==
  /\ Sent \subseteq Request /\ Sent # {}
  /\ \A q \in Sent : q.major \in CallbackMajor => q.target = "file"
-----------------------------------------------------------------------------
VARIABLES
  op,         \* the request
  canBlock,   \* SFSD_IRP_CONTEXT_CAN_BLOCK
  pc,         \* where its thread is
  irp,        \* who has the IRP
  hold,       \* how its thread holds each resource
  buffer,     \* how the caller's buffer can be reached
  status,     \* what it was completed with
  completed,  \* times IoCompleteRequest was called for it
  freed,      \* times its IRP context was released
  size,       \* sizes in the file's common FCB header
  cached,     \* caching was initiated on the file
  ccb,        \* CCBFlags of the open file
  opens,      \* VolumeOpenListHead: opens of the volume, by request
  openCount,  \* VCBOpenCount
  notify,     \* NextNotifyIRP: requests queued for changes to a directory
  patterns,   \* search patterns allocated for the CCB of each stream
  lazyWriter, \* LazyWriterThreadID of the file, {} for 0
  panic       \* the system has stopped

reqVars  == <<op, canBlock, pc, irp, hold, buffer, status, completed, freed>>
fileVars == <<size, cached, ccb>>
volVars  == <<opens, openCount, notify, patterns>>
vars     == <<reqVars, fileVars, volVars, lazyWriter, panic>>

CcbFlag == {"ACCESSED", "MODIFIED", "CREATE_TIME_SET"}
\* "unsupported" is STATUS_INVALID_DEVICE_REQUEST, "pending" STATUS_PENDING.
Status  == {"none", "success", "end_of_file", "invalid", "failed", "raised", "unsupported", "pending"}

TypeOK ==
  /\ op \in [Irp -> Request]
  /\ canBlock \in [Irp -> BOOLEAN]
  /\ pc \in [Irp -> {"unsent", "start", "paging", "held", "checked", "opening", "storing",
                     "looping", "taken", "releasing", "sent", "queued", "away"}]
  /\ irp \in [Irp -> {"caller", "driver", "worker", "queue", "cache", "disk", "lower",
                      "notify", "completed"}]
  /\ hold \in [Irp -> [Resource -> Mode]]
  /\ buffer \in [Irp -> {"user", "short", "locked"}]
  /\ status \in [Irp -> Status]
  /\ completed \in [Irp -> Nat]
  /\ freed \in [Irp -> Nat]
  /\ size \in [file : 0..MaxSize, valid : 0..MaxSize, allocation : 0..MaxSize]
  /\ cached \in BOOLEAN
  /\ ccb \in SUBSET CcbFlag
  /\ opens \subseteq Irp
  /\ openCount \in Nat
  /\ notify \subseteq Irp
  /\ patterns \in [Stream -> Nat]
  /\ lazyWriter \subseteq Irp
  /\ panic \in BOOLEAN

Nothing == [r \in Resource |-> "none"]

\* A file's valid data length is not kept: it is as large as it can be.
Init ==
  /\ op \in [Irp -> {CHOOSE q \in Sent : TRUE}]
  /\ canBlock = [i \in Irp |-> FALSE]
  /\ pc = [i \in Irp |-> "unsent"]
  /\ irp = [i \in Irp |-> "caller"]
  /\ hold = [i \in Irp |-> Nothing]
  /\ buffer = [i \in Irp |-> "user"]
  /\ status = [i \in Irp |-> "none"]
  /\ completed = [i \in Irp |-> 0]
  /\ freed = [i \in Irp |-> 0]
  /\ size \in [file : 0..MaxSize, valid : 0..MaxSize, allocation : 0..MaxSize]
  /\ size.file <= size.allocation
  /\ size.valid = MaxSize
  /\ cached \in BOOLEAN
  /\ ccb = {}
  /\ opens = {} /\ openCount = 0
  /\ notify = {}
  /\ patterns = [s \in Stream |-> 0]
  /\ lazyWriter = {}
  /\ panic = FALSE
-----------------------------------------------------------------------------
(* Resources: ExAcquireResourceSharedLite, ExAcquireResourceExclusiveLite *)

Main(i)   == <<op[i].target, "main">>
Paging(i) == <<op[i].target, "paging">>

Grants(i, r, mode) ==
  \A j \in Irp \ {i} :
    IF mode = "exclusive" THEN hold[j][r] = "none" ELSE hold[j][r] # "exclusive"

Acquire(i, r, mode, label) ==
  /\ Grants(i, r, mode)
  /\ hold' = [hold EXCEPT ![i][r] = mode]
  /\ pc' = [pc EXCEPT ![i] = label]
  /\ UNCHANGED <<op, canBlock, irp, buffer, status, completed, freed>>

\* The acquisition was asked not to wait and failed.
Busy(i, r, mode) == ~canBlock[i] /\ ~Grants(i, r, mode)
-----------------------------------------------------------------------------
(* How a common routine ends *)

\* The IRP context is released, the IRP completed.  kept: resources the
\* routine does not give back.
Complete(i, s, kept) ==
  /\ hold' = [hold EXCEPT ![i] = [r \in Resource |-> IF r \in kept THEN @[r] ELSE "none"]]
  /\ freed' = [freed EXCEPT ![i] = @ + 1]
  /\ completed' = [completed EXCEPT ![i] = @ + 1]
  /\ status' = [status EXCEPT ![i] = s]
  /\ irp' = [irp EXCEPT ![i] = "completed"]
  /\ pc' = [pc EXCEPT ![i] = "away"]
  /\ UNCHANGED <<op, canBlock, buffer>>

\* Mutant: what was acquired stays with the thread.
PostRequest_Kept(i, b) ==
  /\ buffer' = [buffer EXCEPT ![i] = b]
  /\ irp' = [irp EXCEPT ![i] = "queue"]
  /\ pc' = [pc EXCEPT ![i] = "queued"]
  /\ UNCHANGED <<op, canBlock, hold, status, completed, freed>>

\* SFsdPostRequest, with whatever was acquired given back; b is how the
\* worker will find the caller's buffer.
PostRequest(i, b) ==
  /\ hold' = [hold EXCEPT ![i] = Nothing]
  /\ buffer' = [buffer EXCEPT ![i] = b]
  /\ irp' = [irp EXCEPT ![i] = "queue"]
  /\ pc' = [pc EXCEPT ![i] = "queued"]
  /\ UNCHANGED <<op, canBlock, status, completed, freed>>

\* The routine returns with the IRP in somebody's hands, or in nobody's
\* when it stays with the driver; kept as above.
ReturnWith(i, who, kept) ==
  /\ hold' = [hold EXCEPT ![i] = [r \in Resource |-> IF r \in kept THEN @[r] ELSE "none"]]
  /\ irp' = [irp EXCEPT ![i] = who]
  /\ pc' = [pc EXCEPT ![i] = "away"]
  /\ UNCHANGED <<op, canBlock, buffer, status, completed, freed>>

\* An access violation: the exception filter frees the context and lets the
\* exception pass, which brings the machine down.
Crash(i) ==
  /\ panic' = TRUE
  /\ freed' = [freed EXCEPT ![i] = @ + 1]
  /\ UNCHANGED <<op, canBlock, pc, irp, hold, buffer, status, completed, fileVars, volVars>>
-----------------------------------------------------------------------------
(* How a common routine begins *)

\* A dispatch routine: SFsdAllocateIrpContext, then the common routine.
Dispatch(i) ==
  /\ pc[i] = "unsent"
  /\ \E q \in Sent :
       /\ q.major \notin CallbackMajor
       /\ op' = [op EXCEPT ![i] = q]
       /\ canBlock' = [canBlock EXCEPT ![i] = q.sync]
  /\ pc' = [pc EXCEPT ![i] = "start"]
  /\ irp' = [irp EXCEPT ![i] = "driver"]
  /\ UNCHANGED <<hold, buffer, status, completed, freed, fileVars>>

\* The CCB of the file object, which an open of the driver's own device leaves null.
HasCcb(i) == op[i].target # "driver"

\* Creates and shutdowns look for no CCB; the end of an MDL transfer and a DPC come before it.
TakesCcb(i) ==
  /\ op[i].major \notin {"create", "shutdown"} \cup CallbackMajor
  /\ op[i].major \in {"read", "write"} => op[i].form \notin {"complete", "dpc"}

\* Every other routine begins with PtrCCB->PtrFCB.
MissingCcb(i) == pc[i] = "start" /\ TakesCcb(i) /\ ~HasCcb(i) /\ Crash(i)

\* Requests that have a case in the worker's switch.
HasCase(i) == op[i].major \in {"create", "read"}

\* Mutant: the worker does not note that its thread may block.
CommonDispatch_CannotBlock(i) ==
  /\ pc[i] = "queued" /\ HasCase(i)
  /\ pc' = [pc EXCEPT ![i] = "start"]
  /\ irp' = [irp EXCEPT ![i] = "worker"]
  /\ UNCHANGED <<op, canBlock, hold, buffer, status, completed, freed, fileVars>>

\* SFsdCommonDispatch in a worker thread; the default completes the IRP and keeps the context.
CommonDispatch(i) ==
  /\ pc[i] = "queued"
  /\ canBlock' = [canBlock EXCEPT ![i] = TRUE]
  /\ IF HasCase(i)
       THEN /\ pc' = [pc EXCEPT ![i] = "start"]
            /\ irp' = [irp EXCEPT ![i] = "worker"]
            /\ UNCHANGED <<status, completed>>
       ELSE /\ pc' = [pc EXCEPT ![i] = "away"]
            /\ irp' = [irp EXCEPT ![i] = "completed"]
            /\ status' = [status EXCEPT ![i] = "unsupported"]
            /\ completed' = [completed EXCEPT ![i] = @ + 1]
  /\ UNCHANGED <<op, hold, buffer, freed, fileVars>>
=============================================================================
