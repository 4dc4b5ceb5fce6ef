------------------------------ MODULE Drivers -------------------------------
(***************************************************************************)
(* The filter driver, the FSD and its recognizer as they are loaded and    *)
(* unloaded together, while volumes are mounted.                           *)
(***************************************************************************)
EXTENDS SFilterEntry, SFsRec

TypeOK ==
  /\ DOMAIN pc = Driver
  /\ \A d \in Driver : pc[d] \in EntryLabel(d) \cup UnwindLabel(d) \cup {"out", "in"}
  /\ \A d \in Driver : held[d] \subseteq AssetOf(d)
  /\ \A d \in Driver : data[d] \subseteq AssetOf(d) \cup {"zones"}
  /\ loads \in [Driver -> 0 .. MaxLoads]
  /\ permanent \subseteq {"directory", "dosDirectory"}
  /\ attached \subseteq FileSystem
  /\ strayFree \in BOOLEAN
  /\ loader \in Mount \cup {System}
  /\ mount \in [Mount -> {"idle", "asking", "required", "loading", "loaded", "loadFailed",
                          "answered"}]
  /\ asked \in [Mount -> SUBSET FileSystem]
  /\ didLoadFail \in BOOLEAN

Init == IoInit

Next ==
  \/ FilterEnter \/ FilterStep
  \/ FsdEnter \/ FsdStep
  \/ RecEnter \/ RecStep \/ SFsRecUnload
  \/ \E m \in Mount : StartMount(m) \/ MountStep(m)

Spec == Init /\ [][Next]_vars

\* A thread inside an entry routine or a mount goes on.  Nobody has to load or unload
\* anything, or to mount.
Fairness ==
  /\ WF_vars(FilterStep) /\ WF_vars(FsdStep) /\ WF_vars(RecStep)
  /\ \A m \in Mount : WF_vars(MountStep(m))

FairSpec == Spec /\ Fairness
-----------------------------------------------------------------------------
(* Properties *)

\* A load is all or nothing for each of the three drivers: whichever step fails, the
\* finally blocks of sfilinit.c:162, sfsdinit.c:153 and sfsrec.c:111 take down all that
\* was set up before.  The directories' names are the exception, see the README.
Phase(d) ==
  CASE pc[d] \in {"out", "in"} -> pc[d]
    [] pc[d] \in EntryLabel(d)  -> "entering"
    [] pc[d] \in UnwindLabel(d) -> "unwinding"

Loads ==
  INSTANCE DriverLoad WITH Asset <- [d \in Driver |-> AssetOf(d)],
                           phase <- [d \in Driver |-> Phase(d)]

EntriesAllOrNothing == Loads!Spec

\* The finally blocks take things down in an order in which nothing that is still
\* there needs what is gone: an extension is in the list that the global resource
\* protects, a link, a registration or a notification leads to a device (sfilinit.c:160-195).
OrderedTeardown ==
  /\ "extension" \in held["filter"] => {"resource", "device"} \subseteq held["filter"]
  /\ {"link", "notification"} \cap held["filter"] # {} => "device" \in held["filter"]
  /\ "device" \in held["fsd"] => Zone \subseteq held["fsd"]

\* No file system that is asked to mount, and none that a filter device is attached to,
\* has a deleted device object (sfsrec.c:139, fastio.c:830).
NoDeletedDevice == \A f \in Registered \cup attached : "device" \in held[f]

\* Nothing that exists needs what is gone: neither in a driver while its entry routine is
\* undone nor between drivers while one is unloaded.
NothingDangles == TypeOK /\ OrderedTeardown /\ NoDeletedDevice

\* While the recognizer is loaded a volume is asked for by it or by the FSD: it withdraws for
\* the FSD only, even if two requests load at once (sfsrec.c:225).
SomeoneAnswers == pc["rec"] = "in" => Registered # {}

\* The pool gets back only what came from it: "free up any memory we might have reserved"
\* (sfsdinit.c:166).
FreesOnlyAllocated == ~strayFree

\* Every mount ends: a load that failed is not tried again, and a recognizer whose FSD is
\* loaded does not ask for it again (sfsrec.c:191, 229).
MountsAnswered == \A m \in Mount : mount[m] = "asking" ~> mount[m] = "answered"
=============================================================================
