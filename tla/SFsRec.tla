------------------------------- MODULE SFsRec -------------------------------
(***************************************************************************)
(* The file system recognizer (fsrec/src/sfsrec.c): its entry and unload   *)
(* routines, and the mount and load requests it answers until the FSD      *)
(* itself is loaded.                                                       *)
(***************************************************************************)
EXTENDS SFsdEntry

\* DriverEntry looks for the FSD's device object first; if it is there, or cannot be told,
\* the recognizer is not needed and the routine fails.
RecEnter ==
  /\ SystemLoads("rec")
  /\ \/ "device" \notin held["fsd"] /\ Goto("rec", "device")
     \/ UNCHANGED pc
  /\ UNCHANGED <<held, data, permanent, attached, strayFree, loader, mountVars, didLoadFail>>

RecCreateDevice ==
  /\ pc["rec"] = "device"
  /\ Made("rec", "device", "registration") \/ Failed("rec", "undoDevice")
  /\ UNCHANGED <<loads, permanent, attached, strayFree, loader, mountVars, didLoadFail>>

\* The device extension is initialised and the device registered, unless the call raises.
RecRegister ==
  /\ pc["rec"] = "registration"
  /\ didLoadFail' = FALSE
  /\ \/ /\ Made("rec", "registration", "in")
        /\ FSDNotification("rec")
     \/ Failed("rec", "undoDevice") /\ UNCHANGED attached
  /\ UNCHANGED <<loads, permanent, strayFree, loader, mountVars>>

\* The finally block.
RecUndoDevice ==
  /\ pc["rec"] = "undoDevice"
  /\ Unmake("rec", "device", "out")
  /\ UNCHANGED <<loads, permanent, attached, strayFree, loader, mountVars, didLoadFail>>

\* A mount request that the recognizer answers with FS_DRIVER_REQUIRED holds it in memory.
InRecognizer == {m \in Mount : mount[m] \in {"required", "loading", "loaded", "loadFailed"}}

\* Mutant: the device is deleted without being unregistered.
SFsRecUnload_KeepsRegistration ==
  /\ pc["rec"] = "in"
  /\ InRecognizer = {}
  /\ held' = [held EXCEPT !["rec"] = @ \ {"device"}]
  /\ data' = [data EXCEPT !["rec"] = {}]
  /\ attached' = attached \ {"rec"}
  /\ Goto("rec", "out")
  /\ UNCHANGED <<loads, permanent, strayFree, loader, mountVars, didLoadFail>>

\* Unregisters the device and deletes it; a filter device attached to it is detached by
\* the I/O manager.
SFsRecUnload ==
  /\ pc["rec"] = "in"
  /\ InRecognizer = {}
  /\ held' = [held EXCEPT !["rec"] = {}]
  /\ data' = [data EXCEPT !["rec"] = {}]
  /\ attached' = attached \ {"rec"}
  /\ Goto("rec", "out")
  /\ UNCHANGED <<loads, permanent, strayFree, loader, mountVars, didLoadFail>>
-----------------------------------------------------------------------------
(* The I/O manager mounts a volume: it asks each registered file system in *)
(* turn, and loads one if a recognizer says so.                            *)

mountElse == <<entryVars, loads, permanent, attached, strayFree, loader, didLoadFail>>

Become(m, label) == mount' = [mount EXCEPT ![m] = label]

StartMount(m) ==
  /\ mount[m] = "idle"
  /\ Become(m, "asking")
  /\ UNCHANGED <<asked, mountElse>>

\* IRP_MN_MOUNT_VOLUME in SFsRecFsControl.  After a failed load, and for a volume that is
\* not the FSD's, the request is turned down with UNRECOGNIZED_VOLUME.
FsControlMount(m) ==
  /\ mount[m] = "asking"
  /\ "rec" \in Registered \ asked[m]
  /\ IF didLoadFail \/ m \notin Recognised
       THEN asked' = [asked EXCEPT ![m] = @ \cup {"rec"}] /\ UNCHANGED mount
       ELSE Become(m, "required") /\ UNCHANGED asked
  /\ UNCHANGED mountElse

\* The FSD has no routine for file system control: the I/O manager's default turns the
\* request down.
FsdHasNoFsControl(m) ==
  /\ mount[m] = "asking"
  /\ "fsd" \in Registered \ asked[m]
  /\ asked' = [asked EXCEPT ![m] = @ \cup {"fsd"}]
  /\ UNCHANGED <<mount, mountElse>>

\* Nobody is left to be asked.
MountAnswered(m) ==
  /\ mount[m] = "asking"
  /\ Registered \subseteq asked[m]
  /\ Become(m, "answered")
  /\ UNCHANGED <<asked, mountElse>>

\* IRP_MN_LOAD_FILE_SYSTEM: ZwLoadDriver, one load at a time.
FsControlLoad(m) ==
  /\ mount[m] = "required"
  /\ \/ /\ FsdStart
        /\ loader' = m
        /\ Become(m, "loading")
     \/ /\ pc["fsd"] = "in"
        /\ Become(m, "loaded")
        /\ UNCHANGED <<entryVars, loader>>
  /\ UNCHANGED <<loads, permanent, attached, strayFree, asked, didLoadFail>>

\* Mutant: a failed load is not remembered.
LoadReturned_Forgetful(m) ==
  /\ mount[m] \in {"loaded", "loadFailed"}
  /\ held' = IF mount[m] = "loaded" THEN [held EXCEPT !["rec"] = @ \ {"registration"}] ELSE held
  /\ Become(m, "asking")
  /\ asked' = [asked EXCEPT ![m] = {}]
  /\ UNCHANGED <<pc, data, loads, permanent, attached, strayFree, loader, didLoadFail>>

\* Mutant: the recognizer withdraws whatever came of the load.
LoadReturned_Withdraws(m) ==
  /\ mount[m] \in {"loaded", "loadFailed"}
  /\ didLoadFail' = (didLoadFail \/ mount[m] = "loadFailed")
  /\ held' = [held EXCEPT !["rec"] = @ \ {"registration"}]
  /\ Become(m, "asking")
  /\ asked' = [asked EXCEPT ![m] = {}]
  /\ UNCHANGED <<pc, data, loads, permanent, attached, strayFree, loader>>

\* ZwLoadDriver has returned.  A failure is remembered; after a success, or if the image
\* was loaded already, the recognizer is unregistered, twice if two requests get here.  The
\* I/O manager then starts over with the mount.
LoadReturned(m) ==
  /\ mount[m] \in {"loaded", "loadFailed"}
  /\ didLoadFail' = (didLoadFail \/ mount[m] = "loadFailed")
  /\ held' = IF mount[m] = "loaded" THEN [held EXCEPT !["rec"] = @ \ {"registration"}] ELSE held
  /\ Become(m, "asking")
  /\ asked' = [asked EXCEPT ![m] = {}]
  /\ UNCHANGED <<pc, data, loads, permanent, attached, strayFree, loader>>

MountStep(m) ==
  \/ FsControlMount(m) \/ FsdHasNoFsControl(m) \/ MountAnswered(m)
  \/ FsControlLoad(m) \/ LoadReturned(m)

RecStep == RecCreateDevice \/ RecRegister \/ RecUndoDevice
=============================================================================
