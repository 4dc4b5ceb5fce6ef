----------------------------- MODULE SFsdEntry ------------------------------
(***************************************************************************)
(* DriverEntry of the sample FSD (sfsdinit.c) with the zones it            *)
(* initialises and destroys (misc.c).                                      *)
(***************************************************************************)
EXTENDS IoManager

\* The order in which SFsdInitializeZones allocates the zones' memory.
ZoneOrder == <<"ObjectNameZone", "CCBZone", "FCBZone", "ByteLockZone", "IrpContextZone">>

fsdElse == <<loads, permanent, attached, loader, mountVars, didLoadFail>>

\* The global data is zeroed and the global resource initialised.
FsdStart ==
  /\ pc["fsd"] = "out"
  /\ data' = [data EXCEPT !["fsd"] = {"resource"}]
  /\ held' = [held EXCEPT !["fsd"] = @ \cup {"resource"}]
  /\ Goto("fsd", "zones")

\* The system loads the FSD, without a mount request.
FsdEnter ==
  /\ SystemLoads("fsd")
  /\ FsdStart
  /\ loader' = System
  /\ UNCHANGED <<permanent, attached, strayFree, mountVars, didLoadFail>>

\* ExAllocatePool for one zone after the other, up to the first that fails.
AllocateZones ==
  /\ pc["fsd"] = "zones"
  /\ \E n \in 0 .. Len(ZoneOrder) :
       /\ held' = [held EXCEPT !["fsd"] = @ \cup {ZoneOrder[k] : k \in 1 .. n}]
       /\ Goto("fsd", IF n = Len(ZoneOrder) THEN "headers" ELSE "destroy")
  /\ UNCHANGED <<data, strayFree, fsdElse>>

\* ExInitializeZone for each of them; if all succeed the flag ZONES_INITIALIZED is set.
InitializeZoneHeaders ==
  /\ pc["fsd"] = "headers"
  /\ \/ /\ data' = [data EXCEPT !["fsd"] = @ \cup {"zones"}]
        /\ Goto("fsd", "device")
        /\ UNCHANGED held
     \/ Failed("fsd", "destroy")
  /\ UNCHANGED <<strayFree, fsdElse>>

\* Mutant: the last zone is forgotten.
SFsdDestroyZones_Short ==
  /\ strayFree' = (strayFree \/ ~(Zone \subseteq held["fsd"]))
  /\ held' = [held EXCEPT !["fsd"] = @ \ (Zone \ {"IrpContextZone"})]
  /\ data' = [data EXCEPT !["fsd"] = @ \ {"zones"}]

\* ExFreePool for all five zones, whether they were allocated or not.  What the pool makes
\* of a null pointer is not the driver's; it is recorded.
SFsdDestroyZones ==
  /\ strayFree' = (strayFree \/ ~(Zone \subseteq held["fsd"]))
  /\ held' = [held EXCEPT !["fsd"] = @ \ Zone]
  /\ data' = [data EXCEPT !["fsd"] = @ \ {"zones"}]

\* The finally block of SFsdInitializeZones after a failure.
DestroyPartialZones ==
  /\ pc["fsd"] = "destroy"
  /\ SFsdDestroyZones
  /\ Goto("fsd", "undoDevice")
  /\ UNCHANGED fsdElse

FsdCreateDevice ==
  /\ pc["fsd"] = "device"
  /\ Made("fsd", "device", "registration") \/ Failed("fsd", "undoDevice")
  /\ UNCHANGED <<strayFree, fsdElse>>

\* Who waits for the entry routine is told.
ReturnToLoader(result) ==
  mount' = IF loader = System THEN mount ELSE [mount EXCEPT ![loader] = result]

\* IoRegisterFileSystem, the last step; an exception out of it is caught and ends the
\* routine as a failure.
FsdRegister ==
  /\ pc["fsd"] = "registration"
  /\ \/ /\ Made("fsd", "registration", "in")
        /\ FSDNotification("fsd")
        /\ ReturnToLoader("loaded")
     \/ Failed("fsd", "undoDevice") /\ UNCHANGED <<attached, mount>>
  /\ UNCHANGED <<loads, permanent, strayFree, loader, asked, didLoadFail>>

FsdUndoDevice ==
  /\ pc["fsd"] = "undoDevice"
  /\ Unmake("fsd", "device", "undoZones")
  /\ UNCHANGED <<strayFree, fsdElse>>

FsdUndoZones ==
  /\ pc["fsd"] = "undoZones"
  /\ IF "zones" \in data["fsd"] THEN SFsdDestroyZones ELSE UNCHANGED <<held, data, strayFree>>
  /\ Goto("fsd", "undoResource")
  /\ UNCHANGED fsdElse

FsdUndoResource ==
  /\ pc["fsd"] = "undoResource"
  /\ Unmake("fsd", "resource", "out")
  /\ ReturnToLoader("loadFailed")
  /\ UNCHANGED <<loads, permanent, attached, strayFree, loader, asked, didLoadFail>>

FsdStep ==
  \/ AllocateZones \/ InitializeZoneHeaders \/ DestroyPartialZones \/ FsdCreateDevice
  \/ FsdRegister \/ FsdUndoDevice \/ FsdUndoZones \/ FsdUndoResource
=============================================================================
