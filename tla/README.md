# A verification project for the repository's drivers and example programs

The repository is a collection of notes with code in between.  Its programs are

| Where | What | Lines |
|---|---|---|
| `Windows Driver Development/Windows NT File System Internals/filter-high` | a filter driver that attaches to file system drivers and mounted volumes | ~3100 |
| `.../filesys` | a sample file system driver (FSD): dispatch routines, worker thread, Cache Manager and memory zones | ~9200 |
| `.../fsrec` | a file system recognizer that loads the FSD on demand | ~600 |
| `LeetCode/code/*/test/test/test.cpp` | 17 solutions to programming exercises | ~900 |
| `Linux/网络开发/codes`, `Linux/Linux开发/code/fifo`, `TCPIP/Windows网络编程` | epoll, FIFO and socket examples | ~480 |

The three drivers are the repository's own core logic: they are concurrent, they
share reference counts, events, resources and flags between threads they do not
schedule, and almost none of that can be reached by a test.  This project models the
filter driver's devices and fast I/O, the FSD's request processing and memory zones, the
loading and unloading of all three drivers, the exercises and the examples; the
plan at the end says what follows.  Paths of sections 2 to 6 are relative to
`src/Windows Driver Development/Windows NT File System Internals/`, those of section 7 to
`src/LeetCode/code/`, and those of section 8 to `src/`.

| Section | Modules | Runs |
|---|---|---|
| 2 filter devices | `Rundown`, `SFilterDevice`, `SFilterDeviceMC`, proofs | `sfilter`, `sfilter_counting`, `sfilter_detach_waits` |
| 3 FSD requests | `RequestLife`, `SFsdRequest`, `SFsdReadWrite`, `SFsdFileInfo`, `SFsdHandle`, `SFsdForward`, `SFsdDirectory`, `SFsdCallback`, `SFsd`, `SFsdMC`, `SFsdProofs`, `SFsdDataProofs` | `fsd`, `fsd_live`, `fsd_lost_write` |
| 4 FSD memory | `Allocator`, `SFsdZone`, `SFsdZoneMC`, proofs | `zone` |
| 5 fast I/O | `SFsdFastIo`, `SFilterFastIo`, `SFilterFastIoMC`, `SFilterFastIoProofs` | `fastio`, `fastio_remount` |
| 6 loading | `DriverLoad`, `IoManager`, `SFilterEntry`, `SFsdEntry`, `SFsRec`, `Drivers`, `DriversMC`, `DriversProofs` | `loading`, `loading_zones` |
| 7 exercises | `Strings`, `LinkedLists`, `Solutions`, `Programs` | `programs` |
| 8 examples | `EpollEcho`, `FifoRelay`, `SocketExchange`, `Examples`, `ExamplesProofs`, `Programs` | `programs` |

## 1. Inventory

### 1.1 Filter driver (`filter-high`)

*State.*  Per filter device object a `SFilterDeviceExtension` (`inc/struct.h`): the
target device, `DeviceExtensionFlags` (resource initialised, inserted in the global
list, attached, attached to an FSD), an `ERESOURCE`, the count
`OutstandingIoRequests` with its spin lock, and the notification event
`IoInProgressEvent`.  Globally: the list of extensions under `GlobalDataResource`.

*Operations.*  `SFilterAttachTarget`, `SFilterDetachTarget`,
`SFilterDeleteDevExtension` (attach.c, misc.c); `SFilterDefaultDispatch` and
`SFilterDefaultCompletion` (dispatch.c), `SFilterCreate` (create.c),
`SFilterCleanupOrClose` (close.c), `SFilterFSControl` with
`SFilterMountVolumeCompletion` and the worker `SFilterMountAttach` (fsctrl.c), 26 fast
I/O entry points and the fast detach (fastio.c), `SFilterFSDNotification`, `DriverEntry`.

*Interactions.*  The I/O manager calls dispatch and fast I/O routines in any thread; lower
drivers call completion routines in any thread; the FSD below calls
`SFilterFastIoDetachDevice` when its device goes; a mount that succeeds queues a
work item.  The extension's resource, its spin lock and its event are what these
threads share.

*Hard.*  A detach must not pass a request that is still below; it counts
requests, sleeps on an event which every new request clears, and deletes the
memory that all of the others use.

*Correct if* no detach gets past a request that has found its device attached and is being
counted; each request is counted and discounted once; a sleeping detach is woken;
requests are turned away only after a detach; a device for a mounted volume does not keep
the mark of one for an FSD; what a caller asks by fast I/O takes place once, and what it
acquires through a filter is released through it; a load that fails leaves nothing behind.

### 1.2 Sample FSD (`filesys`)

| Component | State | Operations |
|---|---|---|
| Requests (misc.c) | an IRP context per request: flags `CAN_BLOCK`, `NOT_FROM_ZONE`, `EXCEPTION`, ... | allocate, release, `SFsdPostRequest`, `SFsdCommonDispatch`, exception filter and handler |
| Read and write (read.c, write.c) | FCB header sizes, `MainResource`, `PagingIoResource`, `VCBResource`, CCB flags, caller's buffer or MDL | `SFsdCommonRead`, `SFsdCommonWrite`, deferred write call-back |
| File information (fileinfo.c) | the same, and the sizes of a set request | `SFsdCommonFileInfo` and its routines per class |
| Create (create.c) | FCB, CCB, VCB lists and counts, share access | `SFsdCommonCreate`, `SFsdOpenVolume` |
| Cleanup, close, shutdown | the counts create took | one common routine each |
| Flush, directory and device control | notify lists, forwarded IRPs | one common routine each, `SFsdFlushCompletion` |
| Zones (misc.c) | four zones, a spin lock | initialise, allocate, release, destroy |
| Call-backs (fastio.c) | the same resources, `LazyWriterThreadID` | acquire and release for lazy write, read ahead, section creation |
| `DriverEntry` (sfsdinit.c) | what was initialised so far | initialisation with unwinding |

*Interactions.*  A dispatch routine allocates a context and calls the common routine;
when the common routine may not wait it posts the request, and a worker
calls the common routine again through `SFsdCommonDispatch`.  The Cache Manager
is called with resources held; it may refuse, fail, raise an exception, or call back later.

*Hard.*  Every common routine has one `finally` block for a dozen ways to end:
completed, posted, left pending, exception; and what one of them forgets shows only
in the next request.  File sizes are checked in one place and used in
another.

*Correct if* each request is completed once and its context released once; a pending
request is in somebody's hands; resources do not outlive the work they protect;
sizes do not change under a reader that checked them; posted requests are carried out; all requests
are completed in the end.

### 1.3 Recognizer (`fsrec`)

*State*: `DidLoadFail`, the registered device objects.  *Operations*: mount and load
requests (`SFsRecFsControl`), driver entry and unload.  *Interactions*: the I/O manager asks
it to mount each new volume, it loads the FSD and then withdraws.  *Hard*: two load requests
at once; a load that fails.  *Correct if* it withdraws for the FSD only, and every mount ends.

### 1.4 Other programs

The LeetCode solutions are pure functions over strings, arrays, linked lists and a tree: correct if they
compute what the exercise asks for, at the boundaries too.  The socket, FIFO and epoll examples are pairs of
small loops over system calls, hard where bytes come in pieces and peers come and go between two calls: correct if they lose
and repeat nothing and do not wait for each other.  The rest of the repository is prose.

`PROJECT.json` lists each component with its status, and under `hazards` the
places where this code can go wrong in a way that a test would hardly reach.

## 2. The filter driver's devices

### 2.1 Modules

* `Rundown` is the abstract specification: what the filter promises of each device object.
  A gate is shut, opens once, guests enter while it is open and leave when they like, and it
  closes for good, but that some gates may be lifted once more by somebody else.  That it
  closes only when no guest is inside is not part of it: that is what the comments promise and
  the code does not keep (`sfilter_detach_waits`).
* `SFilterDevice` is the driver.  An IRP, an attach, a detach and a mount worker are threads;
  a step is the code between two points at which another thread can interfere:
  a release of the extension's resource, a spin-lock section, an operation on
  the event, a call into another driver.
* `SFilterDeviceMC` has the sets of requests; `SFilterDeviceProofs` and
  `SFilterGateProofs` have the theorems.

### 2.2 Correspondence

| Model | Code |
|---|---|
| `flags`, `owner`, `outstanding`, `event` | the extension's fields |
| `present`, `stack` | device objects in memory; devices the I/O manager routes to |
| `attach[d]`, `detach[d]`, `pc[i]` | how far a thread is |
| `balance[d]` | history: the increments made of the count, less the decrements |
| `inside`: `Inside(d)` | requests whose completion routine has not yet decremented |
| `CreateFilterDevice`, `IoAttach`, `FinishAttach` | `SFilterAttachTarget`, in three parts |
| `DetachTest`, `DetachWait`, `DetachDevice` | the loop of `SFilterDetachTarget` and what follows it |
| `DeleteDevExtension`, `DeleteResource`, `DeleteDevice` | `SFilterDeleteDevExtension`, `IoDeleteDevice` |
| `Precheck` | the first look of create, cleanup/close and file system control |
| `DefaultDispatch`/`MountDispatch`, `Count`, `ClearEvent`, `CallDriver` | a dispatch routine, cut at the count and the event |
| `Refuse` | its `finally` block when it completes the request itself |
| `Completion`, `StrayCompletion` | a completion routine is called, for our device or for another |
| `MountAttach`, `MountAttached`, `UnmarkFsd` | `SFilterMountAttach` |
| `Decrement`, `TestZero`, `SetEvent` | the end of `SFilterDefaultCompletion` and of the worker |
| `TouchDeleted` | a thread reads or writes a deleted resource or extension |

`UpdatesOperand` is the one modelling constant that stands for a fact outside
the repository.  The macros `SFilterIncrementLargeInteger` and `SFilterDecrementLargeInteger` (sfilter.h:81-96) call
`RtlLargeIntegerAdd`/`Subtract` and discard the result, while the FSD of the same author
*assigns* it (`filesys/src/read.c:436`, `write.c:471`), which is how
the routine is declared: it returns the sum.  `FALSE` is the
program as written; `TRUE` is what the comment at sfilter.h:78 says of the macros.  All theorems are
about both.  `sfilter` and `sfilter_detach_waits` are runs of the program as written.  With `FALSE` no detach ever
sleeps, so what the code does around the macros for a detach that sleeps (event, wait, signal) is checked with
`TRUE`, in the run `sfilter_counting`.

`balance` records what the macros were asked to do, whatever they made of it.  `UnmarkFsd` is the mount worker's
`DeviceExtensionFlags &= ~...` without the resource (fsctrl.c:370): the value it writes may be one it read before a detach
cleared `ATTACHED` (a device that says attached again: `Revived`), and its own change may be overwritten by that detach.

### 2.3 Assumptions about the environment

The control device is there from the beginning to the end; a filter device is attached
at most once (`VolumeDev` bounds the successful mounts); sections under the global resource are
one step; a fast I/O call is not
counted, as the comment at misc.c:68-69 acknowledges (section 5 has these calls).  After a thread touched deleted memory
anything could happen, so the model stops there (`bugcheck`), and the properties
are about the steps before it.

### 2.4 Runs

| Run | Instance | Shows |
|---|---|---|
| `sfilter` | 2 requests, 1 FSD device, 1 volume device, all four kinds, the macros as written, fair threads | types, `CountedWhileAttached`, `CountsBalance`, `RefusedOnlyAfterDetach`, `VolumeNotMarkedFsd`; `DevicesAreGates`: the devices implement `Rundown`; `RequestsAnswered` |
| `sfilter_counting` | the same with macros that store the sum | `NoLostWakeup`, `DetachTerminates` |
| `sfilter_detach_waits` | the count as written | violated: a detach goes ahead with requests out |

*Bounds.*  A race on the count needs one request that leaves and one that enters between
the decrement, the test for zero and the signal, which is the case where the event is
cleared and set out of turn: two requests.  What a third would add is covered by the proofs, which are
for any number.  One FSD device and one volume
device exercise every flag; the devices do not interact but through the mount
worker, which connects exactly these two.  Requests are sent once each, so no counter
needs a bound.  No symmetry is used, since liveness is checked with the rest.  Deadlock is not checked:
all requests may have been sent and answered.

*Fairness.*  Every thread that can take a step takes one (weak fairness per
thread), which is what a preemptive scheduler gives.  Acquiring the resource needs
no more, since the requests of a behaviour are finite in number and leave it alone
in the end.  Nothing is assumed of who sends, attaches or detaches.  Drivers below
complete what they are sent.

*Other disagreements seen in this model,* which no run isolates: after the decrement, a completion
routine reads the count and signals the event without the resource (dispatch.c:221), when a detach may have deleted
both, where dispatch.c:229-230 reasons only about requests that come in; a request that
reached its device before a detach waits for a resource that the detach deletes
(dispatch.c:68, misc.c:131, while dispatch.c:28 promises a refusal); the mount worker
clears a flag without the resource (fsctrl.c:370), which struct.h:72 says synchronizes
access to the extension, so that a detach's clearing of `ATTACHED` may be lost (`DevicesAreGates` has the exception);
an attach that failed is marked attached all the same (attach.c:84, 105), so the detach in its
`finally` block (120-123) calls `IoDetachDevice` for an attachment never made, where attach.c:193 says "Detach if
attached".

### 2.5 Proofs

`SFilterDeviceProofs` proves for every set of requests and devices the run's safety
invariants, `SFilterGateProofs` that every step maps to a step of `Rundown` or a
stutter.  They rest on the module's assumptions only: devices and threads are distinct,
requests are finite in number.

None of the invariants is inductive.  That increments and requests match says nothing of who may hold
the resource between the increment and the release; that a request which is being counted holds
the device depends on the detach not being the owner.  The inductive invariant is

    IInv == TypeOK /\ Located /\ CreatedOnce /\ Reached /\ AttachedWhen
            /\ Held /\ Counted /\ CountsBalance /\ CountKept

where `Located` says a request that was sent is at a device, `CreatedOnce` that a mount
worker's device is its own, `Reached` that a device that was reached had been created,
`AttachedWhen` what the flag `ATTACHED` says of the progress of attach and detach, `Held`
which thread owns a resource at which label, `Counted` that a device at which a request is being
counted is attached and its detach is not beyond the test (or it is a revived one), and `CountKept` what the macros make of
`balance`: the number itself, or 0.  The step of each action is split by conjunct.  `CountsBalance` is where finite sets
enter: the number of requests inside changes by one with `Count` and `Decrement` and with no other action.  `NoLostWakeup`
is inductive together with `IInv`, and `RefusedOnlyAfterDetach` together with `IInv` and the fact that
an unsent request has no answer.  In `SFilterGateProofs`, `GatesReopen` is the one step of the mapping that the lost update needs.

Proved: `TypeCorrect`, `DeviceHeldWhileCounted`, `IncrementsMatchRequests`, `RefusedLate`, `WakeupNotLost`,
`VolumesUnmarked`, `FilterImplementsGates`.  Only model-checked: the liveness properties, which are
out of the prover's reach.

## 3. The FSD's requests

### 3.1 Modules

* `RequestLife` is the abstract specification: what a file system driver owes each request it is sent.  A request
  is in one place, and who has it there hands it on or answers it, once; its context is released once and not under a
  routine or a worker.  What this driver does otherwise has to be named as a constant: the kinds of request that
  get lost, that a worker posts again, that are answered again.
* `SFsdRequest`: the state of a request, resources, the ways a common routine ends
  (`Complete`, `PostRequest`, `ReturnWith`, `Crash`) and how it begins (`Dispatch`, `CommonDispatch`).
* On top of it the common routines: `SFsdReadWrite`, `SFsdFileInfo`, `SFsdHandle` (create, and the
  empty cleanup, close and shutdown), `SFsdForward` (flush and device control, which go on to the
  driver below), `SFsdDirectory` (queries and notifications).
* `SFsdCallback`: what the VMM calls around the creation of a section and the Cache Manager around a
  lazy write and a read ahead.
* `SFsd`: all of them together, the specification and the properties.
* `SFsdMC`: the sets of requests the runs send.
* `SFsdProofs` has the theorems about what one request does, `SFsdDataProofs` those about what the requests share.

### 3.2 Correspondence

A request is a record of what its stack location says: major function, target (the
volume, a directory, a file, a page file, the driver's own device), minor function, information class
or disposition, paging, noncached, synchronous, byte offset.  A call-back is another kind of record, whose
thread competes for the resources and which has no IRP.

| Model | Code |
|---|---|
| `pc` "start" / "held" / "checked" | at the top of the common routine / has its resource / a read passed the size check |
| `pc` "paging" | a set that has Main and not yet PagingIo |
| `pc` "opening" | an open of the volume whose CCB is in the list and not yet counted |
| `pc` "storing" | a query of a directory that found no search pattern |
| `pc` "looping" | an open of a stream, in the loop of create.c:540 |
| `pc` "taken" / "held" / "releasing" | a call-back has its first resource / has returned to the VMM or Cache Manager / gave the first thing back |
| `pc` "sent" | the IRP is with the driver below, its context still to be released |
| `pc` "queued" | in the worker's queue |
| `pc` "away" | the thread returned |
| `irp` | who has the IRP: the driver, a worker, the queue, the Cache Manager, a lower driver, the notify package, or nobody any more |
| `hold[i][r]` | how the thread holds `MainResource`, `PagingIoResource` of a target, or `VCBResource` |
| `size`, `cached`, `ccb` | the common FCB header, `CcInitializeCacheMap` was called, `CCBFlags` |
| `lazyWriter` | `LazyWriterThreadID`, {} for 0 |
| `opens`, `openCount`, `notify` | the VCB's list of opens, `VCBOpenCount`, `NextNotifyIRP` |
| `patterns` | allocations for `DirectorySearchPattern` of the open stream |
| `buffer` | the user's address, an MDL for too few bytes, or an MDL |
| `ReadUnlocked` ... `ReadNonCached` | `SFsdCommonRead`, cut where another thread can interfere |
| `WriteUnlocked` ... `WriteNonCached` | `SFsdCommonWrite` |
| `InfoOnVolume`, `QueryAcquire`, `Query`, `SetAcquire`, `SetAcquirePaging`, `SetAllocation`, `SetBasic`, `SetOther` | `SFsdCommonFileInfo` |
| `OpenDriver`, `CreateUnlocked` ... `CreateStream`, `CountOpen` | `SFsdCreate`, `SFsdCommonCreate`, `SFsdOpenVolume` |
| `FlushPost`, `FlushAcquire`, `FlushVolume`, `DeviceControl`, `ReleaseContext`, `LowerCompletes` | `SFsdCommonFlush`, `SFsdCommonDeviceControl`, their completion routines |
| `LookupPost` ... `StorePattern`, `NotifyAcquire`, `NotifyChange` | `SFsdQueryDirectory`, `SFsdNotifyChangeDirectory` |
| `AcqCreateSec`, `RelCreateSec`, `AcqLazyWrite`, `RelLazyWrite`, `AcqReadAhead`, `RelReadAhead` | the routines of fastio.c of those names, cut at each acquisition, release and store |
| `HasCcb`, `TakesCcb`, `MissingCcb` | a handle on the driver's own device, which has no CCB, and the routines that go through it at once |
| `SetNamesEntry`, `FlushStream`, `VolumeAsDirectory` | the other paths through a null or a wrong control block |
| `Stage(i)`, `KindOf(i)` | what `RequestLife` sees of `irp`, `pc` and `op` |
| `Raise` | an exception out of a Cache Manager routine: filter, `finally` block, handler |

*The environment.*  `Grants` is the resource package, without recursive acquisition.  The
Cache Manager (external) may do what is asked, fail, find the data absent if the
caller cannot wait, or raise an exception that the filter expects.  Reads and writes never reach
a lower driver in the sample, so a noncached transfer stays pending on the "disk" with its
resource held; what flush and device control send down is completed there with any status.  The notify package
(external) completes a queued request when it is cancelled; that it might raise
is left out.  One volume, one open of each stream, with one CCB.  Left out: data, file position,
top-level IRP bookkeeping, paging I/O from inside a Cache Manager call or a lazy writer's (it is a request of
its own thread here), the order of resources across the requests of one thread, the fast I/O entries, which are empty
and return FALSE, and the empty call-backs for CcFlush and the modified page writer, the volume lock flag,
which nothing sets, and the moment between the completion of a create and the release of the
volume.

### 3.3 Runs

| Run | Requests | Shows |
|---|---|---|
| `fsd` | 2 requests or call-backs of any kind, sizes 0..2 | types, `CompletedOnce`, `ResourcesReleased`, `SizeFixed`, `OpenCountConsistent`, `PatternStoredOnce`, `LazyWriterHoldsFile`, `AcquiredInOrder` |
| `fsd_live` | 2 cached transfers, queries, opens, flushes of the volume, device controls, directory queries, misdirected notifications or call-backs, waiting or not | `RequestsCompleted`; `LivesAsPromised`: the driver implements `RequestLife` |
| `fsd_lost_write` | writes of files that cannot wait | violated: a write is neither completed nor posted, see `findings` in `PROJECT.json` |

*Bounds.*  All resource conflicts are between two requests; a request visits the
worker at most twice.  Sizes 0..2 have a file size strictly between 0 and the
allocation, and offsets below, at and above it; the valid data length, which this driver does not keep (misc.c:724-727),
is the largest of them.  In `fsd_live` the
requests that are known not to end are left out on purpose: sets (PagingIo is
never released, so the next one waits for ever), writes that cannot wait (lost), reads at
DISPATCH_LEVEL (posted for ever), noncached transfers (never completed by the
sample), opens of streams (an endless loop), cleanup, close and shutdown (not filled in), and notifications for a directory, which may
wait for ever.  What holds without them is what this run shows.  `fsd` leaves out no kind of
request (of those that differ in nothing the driver looks at, one stands for all), and its properties say where an exception is needed: a notification for a file is completed twice (see
below), a pending write may be nobody's, a read at DISPATCH_LEVEL is posted by the worker,
the PagingIo of a set stays.  `LivesAsPromised` is checked in `fsd_live`, since comparing each step with `RequestLife` doubles
the time of a run; with all the requests of `fsd` and sizes 0..1 it was checked, too (380,291 states), and the theorem is for
every kind.  Deadlock is not checked: when
all requests are over nothing is left to do.

*Fairness.*  Weak fairness for each request's thread, worker threads, Cache Manager and lower
drivers included; nothing has to be sent or cancelled.  Waiters of a
resource are finite in number and each acquires once, so weak fairness is enough.

*Other disagreements seen in this model,* which no run isolates:

* `PagingIoResourceAcquired` is not set after the acquisition of fileinfo.c:312, so the `finally` block (fileinfo.c:394)
  leaves PagingIo acquired, where fileinfo.c:310-311 says "I will go ahead and block out all paging-IO read/write operations
  at this time (for convenience)": the next set waits for it with Main held;
* a notification for a file is queued (dircntrl.c:435) with the status overwritten, and completed while it is in the queue
  (461), where dircntrl.c:406 says "We will only allow notify requests on directories";
* a read at DISPATCH_LEVEL is posted, and posted again by the worker that takes it up, for ever (read.c:144,
  which looks at the minor function and not at the level);
* a read is posted even if its buffer could not be locked, and a directory query's buffer is locked for
  a length not read yet (read.c:424, dircntrl.c:342; misc.c:1011 asks for a locked buffer);
* the worker has cases for create and read only, so a query, set, flush or directory request that was
  posted is completed with `STATUS_INVALID_DEVICE_REQUEST`, and its context is kept (misc.c:1108; misc.c:1045
  says that the routine invokes "the appropriate FSD dispatch routine");
* a read that ends in an exception is remembered in the CCB as a successful one (read.c:442);
* the comparisons of fileinfo.c:778 and 783 are the wrong way round: when the allocation shrinks, a file size above it is
  kept and one below it is raised, where fileinfo.c:773-774 says "If we decreased the allocation size to less than the
  current file size, modify the file size value";
* a write to the volume takes `VCBResource` shared where the comment says exclusively (write.c:192-193);
* marking a file for deletion takes a resource through a null pointer (fileinfo.c:285), a flush of a file or
  directory calls a driver through one (flush.c:202);
* the disposition of a create is reduced to a truth value by `&&` (create.c:240), so that a create or an
  overwrite of the volume is taken for an open, where create.c:381 says "cannot create a new volume";
* an open of the driver's own device returns inside the file system, without `FsRtlExitFileSystem` (create.c:67);
* create.c:52-55 says that such an open is there "so as to be able to send an IOCTL to the FSD", but the routine for device
  control begins with the CCB (devcntrl.c:133-135), which this open does not make: the IOCTL brings the machine down.

### 3.4 Proofs

Proved for any number of threads, requests of any kind and sizes: every property of the run `fsd`, and `LivesAsPromised`.  The
assumptions are those of `SFsdRequest`: `MaxSize` is a number, requests are well formed, and call-backs are for the one file
with sizes.  Nothing is assumed of what a handle on the driver's own device, a volume or a file is used for.

`ResourcesReleased` is not inductive: it does not say which resource a thread has when it is about to release one, nor that
it has one at all.  The inductive invariant says for each place of a routine what is there:

    ControlInv == Maps /\ (\A i \in Irp : ReqInv(i)) /\ Exclusion /\ NotifyInv
    ReqInv(i)  == HoldInv(i) /\ LabelInv(i) /\ IrpInv(i) /\ FreedInv(i) /\ ValueInv(i)

`HoldInv` says that a thread holds its own resource (`Own`, in mode `OwnMode`) exactly at the labels of `Owns`, PagingIo
exactly at those of `OwnsPaging`, or for ever after a set; `LabelInv` which requests come to a label (`Reaches`);
`IrpInv` who has the IRP there; `FreedInv` that the context is gone only when the thread and its worker are through;
`Exclusion` that the exclusive holder of a resource is alone, and `NotifyInv` that a queued notification is in nobody else's hands.
`IrpInv` has also what keeps a worker from posting a request again: in its hands, a request may block.  There is
a lemma for each way a routine begins or ends (`CompleteKeeps`, `PostKeeps`, `ReturnKeeps`, `AcquireKeeps`,
`ReleaseKeeps`, ...), and one for each routine, which says which of these ways its steps take.

| Theorem | How it follows |
|---|---|
| `Controlled` | `ControlInv` is inductive |
| `Released`, `PendingOwned` | parts of `ReqInv` |
| `InOrder` | a step that takes a resource (`Gains`) takes the first at "start" with nothing held, the second at "paging" or "taken" with Main held |
| `Once` | with `OnceInv`: the completions of a request are counted by who has it; a notification that is queued and completed can be completed once more, and then is queued no more |
| `Promised` | with `ControlInv` and `OnceInv`: each way a step can go is an action of `RequestLife` for its request or a stutter |
| `OpensCounted` | with `OpenInv`: at most one open is in the list and not counted, because it has the volume exclusively; cardinalities by the finite-set theorems |
| `PatternsOnce`, `LazyWriterNamed` | with `PatternInv`, `LazyInv`: who is about to store found nothing, and the resource is held exclusively in between |
| `SizesFixed` | who changes a size holds Main or PagingIo exclusively (`FileStep`), which excludes those who rely on it |
| `Typed` | the values of `ReqInv` and `DataTypes` |

Steps are classified once by what they do to the shared data (`DataStep`: `Opens`, `Counts`, `Misses`,
`Stores`, `Notes`, `Forgets` or `Quiet`), so that each of the data invariants has a case for each class and not for each action.  If a
query of a directory took Main shared, the step of `PatternInv` would not be provable.

*The refinement.*  What a step does to its own request is proved once per shape: `Advances(i)` is that `ReqInv` is kept
(`ReqStep`), that the request was not queued for a change (`Moves`), and that its life goes on (`Lives`).  `Lives` says in the
vocabulary of `RequestLife` which stage is left, which is reached, and whether the request was answered and its context released; the
lemmas `CompleteKeeps`, `PostKeeps`, ... prove it along with the rest, `CrashKeeps` has `Stops` in its place, and the notify
package's answer is in neither.  `LifeOfMove`, `LifeOfStop` and `LifeOfCancel` then go from one request
to the functions over all of them, which `Others` allows: nothing of another request is touched.  Two places need
the invariant rather than the action: that a request is not posted by a worker unless it is a read at DISPATCH_LEVEL (the
worker's request may block, and every other post is of one that may not), and that what the notify package completes
is either its own or a misdirected notification.

## 4. The FSD's memory

### 4.1 Modules and correspondence

`Allocator` is the abstract specification: a structure that is handed out is not in use for
anything.  `SFsdZone` is misc.c's five pairs of allocation and release routines,
`SFsdZoneMC` its instance, `SFsdZoneProofs` the theorems.

| Model | Code |
|---|---|
| `zone[k]`, `pool` | the free list of a `ZONE_HEADER`; what `ExAllocatePool` can give |
| `lock` | `ZoneAllocationSpinLock` |
| `marked` | the structures in whose flag word `NOT_FROM_ZONE` is set |
| `users[k][b]` | how often a block is in use as a structure of kind `k` |
| `Allocate`, `LookAtZone`, `TakeFromZone`, `TakeFromPool`, `Initialise` | `SFsdAllocateObjectName` and the four like it |
| `Release`, `LockZone`, `LinkBlock`, `PutToZone`, `PutToPool` | `SFsdReleaseObjectName` and the four like it |

Reading a list's head and writing it are two steps, as the zone macros do it; only the spin lock
keeps them together.  A zone's memory is not cleared when the zone is made, so `marked` starts
as any set of its blocks.  Who uses a structure may be any thread: contexts are often released by a
worker.  No fairness is stated: spin locks are not fair, and nothing is claimed about progress.

### 4.2 Runs

| Run | Instance | Shows |
|---|---|---|
| `zone` | 3 threads, IRP contexts and byte locks, 2 blocks each, 1 block of pool | types, `BlocksConserved`, `ReturnedWhereTaken`, `ZonesAllocate`; no deadlock |

*Bounds.*  Three threads are two that interfere and one that waits; two blocks are a list that is
neither full nor empty after a step; one block of pool is the fall-back and its end, where the
driver stops the machine.

*Other disagreements:* `SFsdAllocateByteLocks` clears as many bytes as a pointer has (misc.c:831), so `FileLockFlags`
(struct.h:87-98) keeps what was in the memory, and if `NOT_FROM_ZONE` was set there a block of the zone is given to
`ExFreePool` (misc.c:867), where misc.c:830 says "zero out the allocated memory block"; the run has it: a
block of the byte locks' zone comes to the pool.  `ReturnedWhereTaken` names this exception and says that nothing else goes
astray: no block of the pool into a zone, no other kind's block to the pool.  `DefaultZoneSizeInNumStructs` (struct.h:456) is not set by any
code (sfsdinit.c:79-84 only says that it could be read from the registry), so the
zones of the sample are made with no room for a structure; the model has the size as a parameter.

### 4.3 Proofs

`SFsdZoneProofs` proves, for any threads, kinds, zone sizes and pool, the three invariants and
that the routines implement `Allocator`.  The inductive invariant `IInv` says who has the lock
at which label (`Owner`), what a thread at each label carries (`Carries`), that the list it read
is the zone's list for as long as it has the lock (`Current`), that a structure
has one user (`SingleUser`), and that each block is in exactly one place: a list, the pool, a
user's hands, a thread's (`BlocksConserved`).  Each action moves one block from a place to
another or none, and one lemma about such moves carries the step.  `ReturnedWhereTaken` needs
that the flag tells where a structure in use came from (`Origin`), but for the blocks of byte locks in which it was
left (`Strayed`); such a block is marked for as long as it is in the pool, since no one else can have it (`Alone`).

## 5. Fast I/O through the filter

### 5.1 Modules and correspondence

`SFsdFastIo` is the sample FSD's table and what its unfilled entries do.  `SFilterFastIo` is the
filter's 26 entries, between callers above and a file system below; `SFilterFastIoMC` says who
calls what.

| Model | Code |
|---|---|
| `Entry(member, sized, answer)` | what sets one `SFilterFastIo...` routine apart: the member of the target's table it calls, whether it looks at `SizeOfFastIoDispatch`, the initial value of `RC` (`TRUE` also stands for a routine without result) |
| `Enter`, `Look`, `Call` | what they share: node type and resource; the flag `ATTACHED` and the table; the call below, after the release |
| `life[d]`, `owner[d]` | the extension: attached or not, deleted; its resource |
| `stack`, `cut` | filter devices in memory, from the bottom; `IoDetachDevice` was called for the volume |
| `Attach`, `DetachDevice`, `DeleteDevice` | `SFilterAttachTarget`, `SFilterDetachTarget` called by `SFilterFastIoDetachDevice` |
| `wild` | table members read beyond the end of an older, shorter table |
| `done[i]` | external: how often the file system has done, and not undone, what caller `i` asked |
| `use[i]`, `giving[i]` | a single call; something lent and returned (locks, MDLs), by an IRP after a `FALSE`; something held (sections, modified page writer, flush), for which there is no IRP |

Whether a call is worth its answer depends on both drivers together: the caller acts on what it is told, the
next call may meet a device that was detached in between.  The three file systems are the sample
(declines, or succeeds without doing anything), one with a full table and one with a table of the
old size.

*Assumptions.*  The check of the node type and the acquisition that follows are one step.  A routine that looks at the node
type of a deleted extension may still find none there (misc.c:127) and return; any other use of one, also the read of
`TargetDeviceObject` after the resource was released (fastio.c:149-152), is `TouchDeleted`: what follows is undefined, and the
model stops there (`bugcheck`).  `Call` with a target read from the extension needs the extension (`ReadsExtension`; the routines for
sections have the target already).  Nothing in the code prevents the use of a deleted extension, so no property says that it
does not happen; the properties are about the calls that come to an end.  A
filter device is detached only when the file system deletes the volume.  That a detach waits for counted IRPs is
left to section 2, since fast I/O is not counted.  A stray `IoDetachDevice` is recorded and the model goes on.
Callers and file system are external and behave as the interface demands: what was not lent is not returned.  But a caller
cannot know that its acquisition was dropped at a detached device, so `done` can become -1: a release of what is not owned.

### 5.2 Runs

| Run | Instance | Shows |
|---|---|---|
| `fastio` | a caller of any of the 18 uses and one that creates sections, two filter devices, three tables | `DoneAsBelieved` (types, `CarriedOutOnce`, `LentAsBelieved`), `ReleasedUnlessDetached`, `ReadsWithinTable`, `CallsEnd` |
| `fastio_remount` | the same | violated: the second filter device of a volume detaches what is not attached |

*Bounds.*  Two callers are what exclusive resources and the extension's resource need to conflict; each does one thing,
and the other is the one that competes for what is held.  Two devices are a volume that was mounted twice.

*Fairness.*  Weak, for each caller's thread and for the detach once the volume is being deleted.

*Other disagreements,* which no run isolates:

* `SFilterFastIoReadCompressed` and `SFilterFastIoWriteCompressed` do not check `SizeOfFastIoDispatch` (fastio.c:1244, 1315),
  where the other routines for members of the larger table do, since "we should perform the check regardless" (909);
  `ReadsWithinTable` makes this exception;
* a release that meets a detached device is dropped, and the file system's resource stays acquired (fastio.c:812);
  `ReleasedUnlessDetached` and `CallsEnd` make this exception; an acquisition that meets one is dropped, too, and its caller
  goes on (fastio.c:758), so that its release may be of a resource it does not own;
* fastio.c:149-152 reads the target out of the extension after the release of its resource, when the device may be gone;
* the routines for the modified page writer and for flushes return `STATUS_SUCCESS` with nothing acquired if there is
  nothing to call (fastio.c:1489); so do the sample FSD's own;
* the routines for sections take the extension of whatever device is on top, which may be another
  driver's (fastio.c:739-741);
* filters between a device and its target are passed by (attach.c:103), where fastio.c:79-80 says "we may have layered
  ourselves over a filter driver";
* `SFilterFastIoQueryOpen` changes the device object of the IRP's stack location, which is left out.

### 5.3 Proofs

`SFilterFastIoProofs` proves the three safety properties of the run for any callers, filter devices and uses, with any of the
three tables.  They are about the end of a call and not inductive.  The inductive invariant `FastIoInv` (checked
with TLC on the run's instance first) has

* `DeviceInv`: `StackInv` says that the stack has the devices between attachment and deletion, each once;
* `DevInv`: a device that a call was routed to was attached once, so that one that is not attached is detached or gone for ever;
* `OnceInv`, `LentInv`: at each place of a call what the file system has done, as a function of the place;
* `HeldInv`: what is held was acquired from an entry that works (`Works`), and if it is left, then with a device that is
  detached or gone; what is to be released and was not acquired had met a device that was detached (`SomeDetached`);
* `WildInv`: the members that were read beyond the end of a table.

What the entries have in common is proved by going through the 18 uses (`UseFacts`): where nothing is there to call, only
the entries for sections, the modified page writer and flushes answer `TRUE`; these have no other way, and if the
acquisition found an entry that works then so does the release (`GiveWorks`), since it is in the same table and
looks at the size when the acquisition does (`TakeWorks` is the other direction).  This is the argument why only a device can lose a resource.  `TurnedAway` covers the returns
without a call, from `Enter`, `Look` and `Call` alike.  With an entry that answers `TRUE` for a `MdlWriteComplete`
that did not take place, `UseFacts` fails.

## 6. Loading the drivers

### 6.1 Modules and correspondence

`DriverLoad` is the abstract specification: a load sets up everything or leaves nothing behind.
`IoManager` has what the three drivers share and the vocabulary of their entry routines, `SFilterEntry`,
`SFsdEntry` and `SFsRec` the routines, `Drivers` all together.

| Model | Code |
|---|---|
| `pc[d]` | the next call of the entry routine that can fail, or the next step of its `finally` block |
| `held[d]` | what exists: memory of the zones, directories, devices, links, registrations, list entries |
| `data[d]` | the flags and pointers of `SFilterGlobalData`, `SFsdGlobalData` that the `finally` block goes by |
| `FilterEnter` ... `RegisterFsRegistrationChange`, `UndoSymbolicLink` ... `FilterUndoResource` | `DriverEntry` of sfilinit.c and its `finally` block |
| `FsdEnter` ... `FsdRegister`, `FsdUndoDevice` ... `FsdUndoResource` | `DriverEntry` of sfsdinit.c |
| `AllocateZones`, `InitializeZoneHeaders`, `DestroyPartialZones`, `SFsdDestroyZones` | `SFsdInitializeZones`, `SFsdDestroyZones` |
| `RecEnter` ... `RecUndoDevice`, `SFsRecUnload` | `DriverEntry` and `SFsRecUnload` of sfsrec.c |
| `FsControlMount`, `FsControlLoad`, `LoadReturned` | `SFsRecFsControl`, cut around `ZwLoadDriver` |
| `mount[m]`, `asked[m]`, `StartMount`, `MountAnswered` | external: the I/O manager asks each registered file system in turn and starts over after a load |
| `FSDNotification` | `SFilterFSDNotification`, called by a registration |

*Assumptions.*  Two loads of the FSD do not run at once (the system serialises them; the second is told that the image is
loaded already); a driver is not unloaded while a request is inside it; a filter that is loaded later is not told of file systems
that are there already; what the pool makes of a null pointer is recorded and left open.  `Recognised` are the
volumes that the recognizer's verification accepts.

### 6.2 Runs

| Run | Instance | Shows |
|---|---|---|
| `loading` | each driver loaded once by the system, the FSD any number of times by two mounts, any step may fail | `NothingDangles` (types, `OrderedTeardown`, `NoDeletedDevice`), `SomeoneAnswers`; `EntriesAllOrNothing`: the entry routines implement `DriverLoad`; `MountsAnswered` |
| `loading_zones` | the same | violated: zones never allocated are given to the pool |

*Bounds.*  Two mounts are two load requests at once, or one after another's failure; `MaxLoads = 1` has the system load a
driver before, after or between the mounts.  `MaxLoads = 2` was also run, for a filter driver whose first load failed.

*Fairness.*  Weak, for each entry routine and each mount.  Nobody has to load anything.

*Other disagreements,* which no run isolates:

* `SFilterCreateDirectory` means to make the directories temporary but passes the handle's address
  (misc.c:181), so they outlive their handles, where sfilinit.c:85-86 and 179 speak of deleting them; a load after a failed
  one finds the names taken and fails;
* two load requests unregister the recognizer twice, and its unload once more (sfsrec.c:229, 141); in the model the second has no effect;
* the recognizer's verification is commented out (sfsrec.c:212), so that the sample recognizes nothing: `Recognised`
  is empty for it;
* the FSD has no routine for file system control (sfsdinit.c:242), so no mount succeeds in the end; `SFsdInitializeVCB` is called by
  nobody.

### 6.3 Proofs

`DriversProofs` proves `NothingDangles`, `SomeoneAnswers` and `EntriesAllOrNothing` for any number of mounts and of loads by
the system.  What must be known for them is how `data`, by which a `finally` block goes, and `held`, what
exists, agree at each label; the inductive invariant is

    DriversInv == Maps /\ FilterInv /\ FsdInv /\ RecInv /\ MountInv /\ RestInv

For the filter they are the same but for the link, whose flag is left set; for the FSD one flag stands for four zones, and is set
only when all of them are there, so while they are made the routine that makes them has to undo them; the
recognizer's registration may be gone only if the FSD is in.  `MountInv` says that a mount which has the FSD loaded keeps the
recognizer in memory.  `EntriesImplement` maps each step of an entry routine, of an unload and of a withdrawal to an action of
`DriverLoad` or a stutter, one driver at a time, since a step concerns one of them.

## 7. Exercises

`Strings` and `LinkedLists` are the 17 functions as operators; a `while` or `for` loop is a recursive operator whose parameters
are the loop's variables.  Memory is a pair of functions `next` and `val` from nodes to fields, so that relinking in the wrong order loses nodes
in the model as well.  `Solutions` has an input as its state, which grows step by step to each input within the bounds,
and the properties compare each function with a definition that does not look at how it works.

| Definition | Promise checked |
|---|---|
| `AtoiSaturates` | 8: the number the text begins with, cut to the range of int |
| `PalindromesFound`, `FirstMatchFound`, `PrefixIsLongest`, `LettersCounted`, `SaysWhatWasThere`, `ZerosMoved`, `ClashesSeen` (together `StringsAnswered`) | 125 and 234, 28, 14, 242 and 387, 38, 283, 36 |
| `NothingLostInReversal`, `RemovesNth`, `ValueDeleted`, `MergeKeepsNodes`, `CycleFound`, `DepthIsLongestPath` (together `ListsAnswered`) | 206 and 344, 19 (three ways), 237, 21, 141, 104 |

The run is `programs`, which it shares with section 8.

*Bounds.*  `IntMax` is 127: its last digit is the 7 of INT_MAX, which is what the code's literals depend on, and texts of 5
characters reach beyond it on both sides.  Texts are over ten characters, of which each is there for a
case (blank, both signs, digits at the limit, letters in both cases); two texts of up to four letters have every
overlap of a needle with itself; rings of up to eight nodes every way and cycle; boards two digits, which is what a
clash needs; trees four levels.  The functions are called within what their exercises promise: lower case letters where letters are
counted, sorted lists to merge, `n` at most the length.  `CountAndSay` is read back: `countAndSay(n + 1)` must say what `countAndSay(n)` is.  Left out: main functions and printing, null
arguments, memory management, and with it the 128 bytes exercise 14 reserves for a prefix of any length.

## 8. Examples

`EpollEcho`, `FifoRelay` and `SocketExchange` are one pair of programs each with its kernel or network; `Examples`
puts them side by side.

| Model | Code |
|---|---|
| `ClientWrites`; `AcceptOne`, `Register`, `EpollWait`, `Read`, `PrintBytes` | loops of `noblock_epoll/client.c` and `server.c` |
| `sent`, `arrived`, `taken`, `printed` | bytes, in order, hence counted: written, at the server's socket, read, printed |
| `edge` | external: what an edge-triggered epoll has to report |
| `Access`, `Mkfifo`, `Open`, `CopyLine`, `WriterEnds`; `ReaderOpens`, `ReadPipe`, `PrintLines`, `ReaderCloses` | `fifo_write.cpp`; `fifo_read.cpp` |
| `put`, `pipe`, `buf`, `out` | lines: all that were written, in the pipe, in the reader's buffer, printed |
| `Connect` ... `ClientCloses`; `Accept` ... `ServerCloses` | `Client.cpp`; `Server.cpp` of `Windows网络编程` |
| `greeting[c]`, `message[c]` | pieces of each side's message in flight and arrived, and whether its sender has closed |

*The environment.*  Bytes arrive in pieces of any size, before or after the registration with epoll; opening one end of a pipe waits for the
other; a line is a write below the pipe's atomic size, and a read brings any part of what is in the pipe, from its
beginning (fifo_read.cpp:22 asks for `BUFSIZ` bytes; lines are not split, since only the order matters);
closing a socket with something unread resets the connection and may lose what its
owner sent (`reset`).

The run `programs` has them beside the exercises of section 7 (a behaviour is one or the other) and shows `NoSleepOverData`
and `AllPrinted` (epoll), `LinesInOrder`, `NothingLeftBehind` and `ReaderEndsAfterWriters` (FIFO),
`EveryClientServed` (sockets).

*Bounds.*  Lines of ten bytes make the server's reads of `MAXLINE/2` cut across lines and arrivals; three lines are a
report that comes while an earlier one is being read.  Two writers, two lines each, are a writer that comes or goes at any
point of the reader's loop.  Two clients are one served and one waiting (three were also run); three pieces are a message
of which a part has arrived.

*Fairness.*  Weak, for each process and for the network.  Nobody has to type, write, connect or end.

*What the programs do not promise,* which no property claims: a reader started before the FIFO exists goes round with descriptor -1 for
ever (fifo_read.cpp:15-22); of two writers that both find no FIFO, the one whose `mkfifo` comes second gives up
(fifo_write.cpp:14-23); the end of its input does not end a writer (40-49); lines put into the pipe between the reader's 0 and its `close` are
lost; one `recv` may take only a part of a message; the socket server serves one client at a time.

*Disagreement.*  The flow in the comment of `Server.cpp:70-71` is to receive the client's data (7), then to send (8); the
code sends first (`Server.cpp:42`, 46).  The client receives before it sends, in its code and in its comment (`Client.cpp:32`, 39;
55-56), so the two comments together describe a pair that waits for each other for ever.  This is the change `ServerSends_Second`, with
which `EveryClientServed` is violated; the code does not deadlock.  `EveryClientServed` asks that something of the message was taken;
its exception are connections which the client's close reset.

*What is proved* (`ExamplesProofs`), for every `MaxLine` of at least 2 and any sets of writers and clients:
`NoSleepOverData`, `LinesInOrder` and `NothingLeftBehind`.  The first is inductive with the counts' order
(`EpollInv`): the step that matters is the read that brings nothing, after which the server waits, and it
needs that a read of at least one byte brings nothing only when nothing is there (`ReadBrings`, where `MaxLine >= 2` is
used).  A read takes any beginning of the pipe (`SplitInTwo`).  `LinesInOrder` is not inductive: it says nothing of the buffer when the reader is about to read into it, so `FifoInv`
adds that the buffer is empty unless it is being printed; a step is then a matter of associativity (`CopyLineStep`,
`ReadPipeStep`, `PrintLinesStep`).  `NothingLeftBehind` follows from `FifoInv` at the one step that leaves the loop.

## 9. What is not modelled

* The FSD beyond its unfinished parts: what follows the endless loop of create.c:540, `SFsdInitializeFCB` and
  `SFsdInitializeVCB`, which nobody calls, deletion on close, which is never reached.  There is no code path to them.
* Data, file positions, top-level IRP bookkeeping, the contents of volumes and directories; exceptions raised by the notify package.
* `tcp_udp_common_port/main.cpp`, an echo server on two transports: after its TCP client has left it goes
  round with `n = 0` and accepts nobody else.
* Notes and pictures.

Liveness (`DetachTerminates`, `RequestsAnswered`, `RequestsCompleted`, `CallsEnd`, `MountsAnswered`, and those of the examples) is only
model-checked, being out of the prover's reach; so are the exercises, whose operators are recursive.  All other properties of passing runs
are theorems, too.

## 10. Plan

1. **Done**: all drivers and programs above, with the gate, request, allocator and load specifications.
2. **Done**: proofs of every safety property, action property and refinement that a passing run checks, but for the exercises.
3. **Done**: `RequestLife`, the abstract life of a request, with `ControlInv` and `OnceInv` as the refinement's invariant.
   `LivesAsPromised` says in one statement what `CompletedOnce` and `PendingOwnedUnlessWrite` say in parts; the latter is left as a
   theorem.
