------------------------------- MODULE SFsdMC -------------------------------
EXTENDS SFsd, TLC

Symmetry == Permutations(Irp)

\* A request with the fields that matter for its major function.
Transfers(major, targets, forms, pagings, nocaches, syncs) ==
  [major : {major}, target : targets, form : forms, class : {"other"},
   paging : pagings, nocache : nocaches, sync : syncs, at : {1}]
Infos(major, targets, classes, syncs, ats) ==
  [major : {major}, target : targets, form : {"normal"}, class : classes,
   paging : {FALSE}, nocache : {FALSE}, sync : syncs, at : ats]
Others(major, targets, forms, classes, syncs) ==
  [major : {major}, target : targets, form : forms, class : classes,
   paging : {FALSE}, nocache : {FALSE}, sync : syncs, at : {0}]

Reads(syncs) ==
  Transfers("read", {"file"}, {"normal"}, BOOLEAN, BOOLEAN, syncs)
  \cup Transfers("read", {"file"}, {"mdl"}, {FALSE}, {FALSE}, syncs)
  \cup Transfers("read", {"file"}, {"complete", "empty"}, {FALSE}, {FALSE}, {TRUE})
  \cup Transfers("read", {"file"}, {"dpc"}, {FALSE}, {FALSE}, syncs)
  \cup Transfers("read", {"volume"}, {"normal"}, {FALSE}, {FALSE}, syncs)
  \cup Transfers("read", {"directory", "pagefile"}, {"normal"}, {FALSE}, {FALSE}, {TRUE})
Writes ==
  Transfers("write", {"file"}, {"normal"}, BOOLEAN, BOOLEAN, {TRUE})
  \cup Transfers("write", {"file"}, {"mdl"}, {FALSE}, {FALSE}, {TRUE})
  \cup Transfers("write", {"file"}, {"complete", "empty"}, {FALSE}, {FALSE}, {TRUE})
  \cup Transfers("write", {"volume", "directory", "pagefile"}, {"normal"}, {FALSE}, {FALSE}, {TRUE})
Queries ==
  Infos("query", Target \ {"driver"}, {"basic"}, {TRUE}, {0})
  \cup Infos("query", {"file"}, {"allocation"}, {TRUE}, {0})
Sets ==
  Infos("set", Target \ {"driver"}, {"basic"}, {TRUE}, {0})
  \cup Infos("set", {"file"}, {"position"}, {TRUE}, {0})
  \cup Infos("set", {"directory"}, {"other"}, {TRUE}, {0})
Allocations == Infos("set", {"file"}, {"allocation"}, {TRUE}, 0..MaxSize)
Dispositions == Infos("set", {"file"}, {"disposition"}, {TRUE}, {0})

\* Reads; writes and queries that can wait.
Unset == Reads(BOOLEAN) \cup Writes \cup Queries
\* Cached transfers and queries that end without another driver's help.
Cached ==
  Transfers("read", {"file", "directory", "volume"}, {"normal"}, {FALSE}, {FALSE}, BOOLEAN)
  \cup Transfers("read", {"file"}, {"mdl", "complete", "empty"}, {FALSE}, {FALSE}, BOOLEAN)
  \cup Transfers("write", {"file", "volume"}, {"normal"}, {FALSE}, {FALSE}, {TRUE})
  \cup Infos("query", {"file"}, {"basic"}, BOOLEAN, {0})
\* Writes that cannot wait, with a request they may have to wait for.
AsyncWrites ==
  Transfers("write", {"volume", "file"}, {"normal"}, {FALSE}, BOOLEAN, {FALSE})
  \cup Transfers("read", {"file"}, {"normal"}, {FALSE}, {FALSE}, {TRUE})
\* Queries and sets that cannot wait, against sets that can.
AsyncInfos ==
  Infos("query", {"file"}, {"basic"}, {FALSE}, {0}) \cup Infos("set", {"file"}, {"basic"}, BOOLEAN, {0})
\* Opens of the volume and the root, and of the driver itself.
Opens(syncs) ==
  Others("create", {"volume"}, {"normal"}, {"supersede", "open"}, syncs)
  \cup Others("create", {"directory"}, {"root"}, {"supersede", "open"}, syncs)
  \cup Others("create", {"driver"}, {"normal"}, {"open"}, {TRUE})
\* An open of a file, which does not end, and what the sample leaves open.
Unfinished ==
  Others("create", {"file"}, {"normal"}, {"open"}, {TRUE})
  \cup UNION {Others(m, {"file"}, {"normal"}, {"other"}, {TRUE}) : m \in {"cleanup", "close", "shutdown"}}
Flushes(targets, syncs) == Others("flush", targets, {"normal"}, {"other"}, syncs)
RootFlushes(syncs) == Others("flush", {"directory"}, {"root"}, {"other"}, syncs)
Ioctls(targets) == Others("ioctl", targets, {"normal"}, {"other"}, {TRUE})
Lookups(targets, syncs) == Others("directory", targets, {"query"}, {"other"}, syncs)
Notifies(targets, syncs) == Others("directory", targets, {"notify"}, {"other"}, syncs)
Minors == Others("directory", {"directory"}, {"normal"}, {"other"}, {TRUE})
\* What the VMM and the Cache Manager call.
Callbacks ==
  Others("section", {"file"}, {"normal"}, {"other"}, {TRUE})
  \cup Others("lazywrite", {"file"}, {"normal"}, {"other"}, BOOLEAN)
  \cup Others("readahead", {"file"}, {"normal"}, {"other"}, BOOLEAN)
\* Cached transfers, queries, and requests of the other kinds that end; misdirected
\* notifications do, and may be answered again.
Ending ==
  Cached \cup Opens(BOOLEAN) \cup Flushes({"volume"}, BOOLEAN) \cup RootFlushes({TRUE})
  \cup Ioctls({"file"}) \cup Lookups({"directory"}, BOOLEAN) \cup Notifies({"file"}, {TRUE})
  \cup Callbacks
\* On a handle that has no CCB; two of them are done with before it is missed.
OnDriver ==
  Others("cleanup", {"driver"}, {"normal"}, {"other"}, {TRUE}) \cup Ioctls({"driver"})
  \cup Transfers("read", {"driver"}, {"complete", "dpc"}, {FALSE}, {FALSE}, {TRUE})
\* All of them; the ones that differ in a field nobody looks at are left out.
Anything ==
  Unset \cup Sets \cup Allocations \cup Dispositions \cup AsyncWrites \cup AsyncInfos
  \cup Transfers("write", {"file"}, {"dpc"}, {FALSE}, {FALSE}, {FALSE})
  \cup Infos("set", {"directory"}, {"allocation"}, {TRUE}, {0})
  \cup Infos("query", {"file"}, {"other"}, {TRUE}, {0})
  \cup Opens(BOOLEAN) \cup Unfinished
  \cup Flushes({"volume", "file", "directory"}, {TRUE}) \cup RootFlushes({TRUE})
  \cup Flushes({"file"}, {FALSE})
  \cup Ioctls({"volume", "file"}) \cup Minors
  \cup Lookups({"directory", "file", "volume"}, BOOLEAN)
  \cup Notifies({"directory", "file"}, BOOLEAN) \cup Notifies({"volume"}, {TRUE})
  \cup OnDriver \cup Callbacks
=============================================================================
