---------------------------- MODULE SFilterEntry ----------------------------
(***************************************************************************)
(* DriverEntry of the filter driver (sfilinit.c), step by step: what it    *)
(* sets up and what its finally block takes down when a step failed.       *)
(***************************************************************************)
EXTENDS IoManager

filterElse == <<loads, permanent, attached, strayFree, loader, mountVars, didLoadFail>>

\* The routine up to its first step that can fail: the global data is zeroed and the
\* global resource initialised.
FilterEnter ==
  /\ SystemLoads("filter")
  /\ data' = [data EXCEPT !["filter"] = {"resource"}]
  /\ held' = [held EXCEPT !["filter"] = @ \cup {"resource"}]
  /\ Goto("filter", "directory")
  /\ UNCHANGED <<permanent, attached, strayFree, loader, mountVars, didLoadFail>>

\* SFilterCreateDirectory: the directory is created as a permanent object.  The call that
\* should make it temporary is given the address of the handle and has no effect.
\* A name that exists already is refused.
CreateDirectory(asset, next) ==
  /\ pc["filter"] = asset
  /\ \/ /\ asset \notin permanent
        /\ permanent' = permanent \cup {asset}
        /\ Made("filter", asset, next)
     \/ /\ Failed("filter", "undoLink")
        /\ UNCHANGED permanent
  /\ UNCHANGED <<loads, attached, strayFree, loader, mountVars, didLoadFail>>

FilterCreateDevice ==
  /\ pc["filter"] = "device"
  /\ Made("filter", "device", "extension") \/ Failed("filter", "undoLink")
  /\ UNCHANGED filterElse

\* SFilterInitDevExtension inserts the extension in the global list, under the global
\* resource.
FilterInitDevExtension ==
  /\ pc["filter"] = "extension"
  /\ Made("filter", "extension", "link")
  /\ UNCHANGED filterElse

CreateSymbolicLink ==
  /\ pc["filter"] = "link"
  /\ Made("filter", "link", "notification") \/ Failed("filter", "undoLink")
  /\ UNCHANGED filterElse

\* IoRegisterFsRegistrationChange; if it succeeds so does the routine.
RegisterFsRegistrationChange ==
  /\ pc["filter"] = "notification"
  /\ Made("filter", "notification", "in") \/ Failed("filter", "undoLink")
  /\ UNCHANGED filterElse

\* The flag that says the link was made is left as it is.
UndoSymbolicLink ==
  /\ pc["filter"] = "undoLink"
  /\ held' = IF "link" \in data["filter"] THEN [held EXCEPT !["filter"] = @ \ {"link"}] ELSE held
  /\ Goto("filter", "undoExtension")
  /\ UNCHANGED <<data, filterElse>>

\* SFilterDeleteDevExtension takes the extension out of the list, under the global
\* resource.
UndoDevExtension ==
  /\ pc["filter"] = "undoExtension"
  /\ Unmake("filter", "extension", "undoDevice")
  /\ UNCHANGED filterElse

FilterUndoDevice ==
  /\ pc["filter"] = "undoDevice"
  /\ Unmake("filter", "device", "undoDirectory")
  /\ UNCHANGED filterElse

\* ZwClose of a directory handle: the name of a permanent directory stays.
CloseDirectory(label, asset, next) ==
  /\ pc["filter"] = label
  /\ Unmake("filter", asset, next)
  /\ UNCHANGED filterElse

FilterUndoResource ==
  /\ pc["filter"] = "undoResource"
  /\ Unmake("filter", "resource", "out")
  /\ UNCHANGED filterElse

FilterStep ==
  \/ CreateDirectory("directory", "dosDirectory") \/ CreateDirectory("dosDirectory", "device")
  \/ FilterCreateDevice \/ FilterInitDevExtension \/ CreateSymbolicLink
  \/ RegisterFsRegistrationChange
  \/ UndoSymbolicLink \/ UndoDevExtension \/ FilterUndoDevice
  \/ CloseDirectory("undoDirectory", "directory", "undoDosDirectory")
  \/ CloseDirectory("undoDosDirectory", "dosDirectory", "undoResource")
  \/ FilterUndoResource
=============================================================================
