----------------------------- MODULE SFsdFastIo -----------------------------
(***************************************************************************)
(* The fast I/O table of the sample FSD (filesys/src/fastio.c): what it    *)
(* offers, and what the entries do that are left to be filled in.  Section *)
(* creation has entries that work; SFsdCallback has them in detail.        *)
(***************************************************************************)

\* The members of the table that SFsdInitializeFunctionPointers sets.  Nothing is offered
\* for device control, for compressed data, or to query a file while it is opened.
SFsdTable ==
  {"FastIoCheckIfPossible", "FastIoRead", "FastIoWrite", "FastIoQueryBasicInfo",
   "FastIoQueryStandardInfo", "FastIoLock", "FastIoUnlockSingle", "FastIoUnlockAll",
   "FastIoUnlockAllByKey", "AcquireFileForNtCreateSection", "ReleaseFileForNtCreateSection",
   "FastIoQueryNetworkOpenInfo", "AcquireForModWrite", "ReleaseForModWrite",
   "AcquireForCcFlush", "ReleaseForCcFlush", "MdlRead", "MdlReadComplete", "PrepareMdlWrite",
   "MdlWriteComplete"}

\* Entries that do nothing and return FALSE.  The check whether fast I/O is possible looks
\* at the kind of file, and says no to each.
DeclinesCheck     == {"FastIoCheckIfPossible"}
DeclinesTransfers == {"FastIoRead", "FastIoWrite"}
DeclinesQueries   == {"FastIoQueryBasicInfo", "FastIoQueryStandardInfo"}
DeclinesNetQuery  == {"FastIoQueryNetworkOpenInfo"}
DeclinesLock      == {"FastIoLock"}
DeclinesUnlock    == {"FastIoUnlockSingle", "FastIoUnlockAll", "FastIoUnlockAllByKey"}
DeclinesMdlRead   == {"MdlRead", "MdlReadComplete"}
DeclinesMdlWrite  == {"PrepareMdlWrite", "MdlWriteComplete"}

SFsdDeclines ==
  UNION {DeclinesCheck, DeclinesTransfers, DeclinesQueries, DeclinesNetQuery, DeclinesLock,
         DeclinesUnlock, DeclinesMdlRead, DeclinesMdlWrite}

\* Entries that do nothing and return STATUS_SUCCESS: no resource is acquired for the
\* modified page writer or for a flush of the cache.
EmptyModWrite == {"AcquireForModWrite", "ReleaseForModWrite"}
EmptyCcFlush  == {"AcquireForCcFlush", "ReleaseForCcFlush"}

SFsdSucceedsIdly == EmptyModWrite \cup EmptyCcFlush
=============================================================================
