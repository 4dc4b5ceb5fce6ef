----------------------------- MODULE IoManager ------------------------------
(***************************************************************************)
(* What the three drivers of the sample share while they are loaded: the   *)
(* objects that exist on behalf of each, the file systems registered with  *)
(* the I/O manager, and the mount requests that go to them.                *)
(*                                                                         *)
(* The I/O manager itself is no part of the repository; it is modelled by  *)
(* what the drivers rely on.                                               *)
(***************************************************************************)
EXTENDS Naturals, Sequences, FiniteSets

CONSTANTS
  Mount,       \* mount requests, each of a volume of its own
  Recognised,  \* those whose volume the recognizer's verification accepts
  System,      \* who loads a driver without a mount request
  MaxLoads     \* how often the system loads each driver

Driver == {"filter", "fsd", "rec"}
FileSystem == {"fsd", "rec"}

ASSUME MountAssumption ==
  Recognised \subseteq Mount /\ System \notin Mount /\ MaxLoads \in Nat

Zone == {"ObjectNameZone", "CCBZone", "FCBZone", "ByteLockZone", "IrpContextZone"}

\* What exists on behalf of each driver when it is loaded.
AssetOf(d) ==
  CASE d = "filter" -> {"resource", "directory", "dosDirectory", "device", "extension",
                        "link", "notification"}
    [] d = "fsd"    -> {"resource", "device", "registration"} \cup Zone
    [] d = "rec"    -> {"device", "registration"}
-----------------------------------------------------------------------------
VARIABLES
  pc,           \* where each driver's entry routine is; "out", "in"
  held,         \* what exists on behalf of each driver
  data,         \* what the driver's global data says: flags and pointers
  loads,        \* how often the system has loaded each driver
  permanent,    \* directory names that outlive their handles
  attached,     \* file systems a filter device is attached to
  strayFree,    \* ExFreePool was called for memory never allocated
  loader,       \* who waits for the FSD's entry routine
  mount,        \* progress of each mount request
  asked,        \* file systems that have turned the request down
  didLoadFail   \* DidLoadFail of the recognizer's device extension

entryVars == <<pc, held, data>>
mountVars == <<mount, asked>>
vars == <<entryVars, loads, permanent, attached, strayFree, loader, mountVars, didLoadFail>>

\* The entry routines up to their success, and their finally blocks.
EntryLabel(d) ==
  CASE d = "filter" -> {"directory", "dosDirectory", "device", "extension", "link", "notification"}
    [] d = "fsd"    -> {"zones", "headers", "device", "registration"}
    [] d = "rec"    -> {"device", "registration"}

UnwindLabel(d) ==
  CASE d = "filter" -> {"undoLink", "undoExtension", "undoDevice", "undoDirectory",
                        "undoDosDirectory", "undoResource"}
    [] d = "fsd"    -> {"destroy", "undoDevice", "undoZones", "undoResource"}
    [] d = "rec"    -> {"undoDevice"}

IoInit ==
  /\ pc = [d \in Driver |-> "out"]
  /\ held = [d \in Driver |-> {}]
  /\ data = [d \in Driver |-> {}]
  /\ loads = [d \in Driver |-> 0]
  /\ permanent = {}
  /\ attached = {}
  /\ strayFree = FALSE
  /\ loader = System
  /\ mount = [m \in Mount |-> "idle"]
  /\ asked = [m \in Mount |-> {}]
  /\ didLoadFail = FALSE
-----------------------------------------------------------------------------
(* The entry routines' common vocabulary.                                  *)

Registered == {f \in FileSystem : "registration" \in held[f]}

Goto(d, label) == pc' = [pc EXCEPT ![d] = label]

\* A step of an entry routine that made the asset, and noted it.
Made(d, asset, next) ==
  /\ held' = [held EXCEPT ![d] = @ \cup {asset}]
  /\ data' = [data EXCEPT ![d] = @ \cup {asset}]
  /\ Goto(d, next)

\* A step that failed: the routine goes on in its finally block.
Failed(d, unwind) == Goto(d, unwind) /\ UNCHANGED <<held, data>>

\* A step of a finally block, for what the global data says was made.
Unmake(d, asset, next) ==
  /\ IF asset \in data[d]
       THEN /\ held' = [held EXCEPT ![d] = @ \ {asset}]
            /\ data' = [data EXCEPT ![d] = @ \ {asset}]
       ELSE UNCHANGED <<held, data>>
  /\ Goto(d, next)

\* The system loads a driver, a bounded number of times.
SystemLoads(d) ==
  /\ pc[d] = "out"
  /\ loads[d] < MaxLoads
  /\ loads' = [loads EXCEPT ![d] = @ + 1]

\* IoRegisterFileSystem calls who asked to be notified: SFilterFSDNotification
\* attaches a filter device to the file system's, which may fail.  For a file system that
\* unregisters the routine does nothing.
FSDNotification(f) ==
  \/ UNCHANGED attached
  \/ pc["filter"] = "in" /\ attached' = attached \cup {f}
=============================================================================
