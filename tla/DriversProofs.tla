--------------------------- MODULE DriversProofs ---------------------------
(***************************************************************************)
(* Theorems about the loading of the three drivers, for any number of      *)
(* mount requests and of loads by the system: whichever step of an entry   *)
(* routine fails, its finally block takes down what was set up, and        *)
(* nothing that exists needs what is gone.                                 *)
(***************************************************************************)
EXTENDS Drivers, TLAPS

Place(d) == EntryLabel(d) \cup UnwindLabel(d) \cup {"out", "in"}

Progress == {"idle", "asking", "required", "loading", "loaded", "loadFailed", "answered"}

IsMap(f) == f = [d \in Driver |-> f[d]]

Maps == IsMap(pc) /\ IsMap(held) /\ IsMap(data)

----------------------------------------------------------------------------
(* What each driver has at each label of its entry routine *)

\* Of the filter driver, up to its success.
FilterMade(l) ==
  CASE l = "directory"    -> {"resource"}
    [] l = "dosDirectory" -> {"resource", "directory"}
    [] l = "device"       -> {"resource", "directory", "dosDirectory"}
    [] l = "extension"    -> {"resource", "directory", "dosDirectory", "device"}
    [] l = "link"         -> {"resource", "directory", "dosDirectory", "device", "extension"}
    [] l = "notification" -> AssetOf("filter") \ {"notification"}
    [] l = "in"           -> AssetOf("filter")

\* At most, while it is undone.
FilterLeft(l) ==
  CASE l = "undoLink"         -> AssetOf("filter") \ {"notification"}
    [] l = "undoExtension"    -> {"resource", "directory", "dosDirectory", "device", "extension"}
    [] l = "undoDevice"       -> {"resource", "directory", "dosDirectory", "device"}
    [] l = "undoDirectory"    -> {"resource", "directory", "dosDirectory"}
    [] l = "undoDosDirectory" -> {"resource", "dosDirectory"}
    [] l = "undoResource"     -> {"resource"}

\* The finally block goes by the global data: it says what exists, but for the link, whose
\* flag is left as it is.
FilterInv ==
  /\ pc["filter"] \in Place("filter") /\ data["filter"] \subseteq AssetOf("filter")
  /\ pc["filter"] = "out" => held["filter"] = {}
  /\ pc["filter"] \in EntryLabel("filter") \cup {"in"} =>
       held["filter"] = FilterMade(pc["filter"]) /\ data["filter"] = held["filter"]
  /\ pc["filter"] \in UnwindLabel("filter") =>
       /\ held["filter"] \subseteq FilterLeft(pc["filter"])
       /\ "resource" \in held["filter"]
       /\ {"extension", "link"} \cap held["filter"] # {} => "device" \in held["filter"]
       /\ held["filter"] = IF pc["filter"] = "undoLink" THEN data["filter"]
                                                         ELSE data["filter"] \ {"link"}

\* The FSD's flag for the zones is set once all of them are there; until then the routine that
\* makes them undoes them.
FsdInv ==
  /\ pc["fsd"] \in Place("fsd") /\ data["fsd"] \subseteq AssetOf("fsd") \cup {"zones"}
  /\ pc["fsd"] = "out" => held["fsd"] = {}
  /\ pc["fsd"] = "zones" => held["fsd"] = {"resource"} /\ data["fsd"] = {"resource"}
  /\ pc["fsd"] = "headers" => held["fsd"] = {"resource"} \cup Zone /\ data["fsd"] = {"resource"}
  /\ pc["fsd"] = "destroy" =>
       /\ held["fsd"] \subseteq {"resource"} \cup Zone /\ "resource" \in held["fsd"]
       /\ data["fsd"] = {"resource"}
  /\ pc["fsd"] \in {"device", "registration", "in"} =>
       /\ Zone \subseteq held["fsd"]
       /\ data["fsd"] = (held["fsd"] \ Zone) \cup {"zones"}
       /\ held["fsd"] \ Zone = CASE pc["fsd"] = "device"       -> {"resource"}
                                 [] pc["fsd"] = "registration" -> {"resource", "device"}
                                 [] pc["fsd"] = "in" -> {"resource", "device", "registration"}
  /\ pc["fsd"] \in {"undoDevice", "undoZones", "undoResource"} =>
       /\ "resource" \in held["fsd"]
       /\ held["fsd"] \subseteq {"resource"}
                          \cup (IF pc["fsd"] = "undoDevice" THEN {"device"} ELSE {})
                          \cup (IF pc["fsd"] # "undoResource" THEN Zone ELSE {})
       /\ "device" \in held["fsd"] => "zones" \in data["fsd"]
       /\ IF "zones" \in data["fsd"] THEN Zone \subseteq held["fsd"] ELSE held["fsd"] \cap Zone = {}
       /\ data["fsd"] \ {"zones"} = held["fsd"] \ Zone

\* The recognizer, which withdraws for the FSD.
RecInv ==
  /\ pc["rec"] \in Place("rec")
  /\ pc["rec"] \in {"out", "device"} => held["rec"] = {} /\ data["rec"] = {}
  /\ pc["rec"] = "registration" => held["rec"] = {"device"} /\ data["rec"] = {"device"}
  /\ pc["rec"] = "undoDevice" => held["rec"] \subseteq {"device"} /\ data["rec"] = held["rec"]
  /\ pc["rec"] = "in" =>
       /\ {"device"} \subseteq held["rec"] /\ held["rec"] \subseteq AssetOf("rec")
       /\ data["rec"] = AssetOf("rec")
       /\ "registration" \in held["rec"] \/ pc["fsd"] = "in"

\* A mount request holds the recognizer in memory while it has it load the FSD.
MountInv ==
  /\ loader \in Mount \cup {System}
  /\ mount \in [Mount -> Progress]
  /\ \A f \in attached : f \in FileSystem /\ pc[f] = "in"
  /\ InRecognizer # {} => pc["rec"] = "in"
  /\ \A m \in Mount : mount[m] = "loaded" => pc["fsd"] = "in"
  /\ pc["fsd"] \notin {"out", "in"} /\ loader # System => mount[loader] = "loading"

\* The rest of the type invariant, which nothing depends on.
RestInv ==
  /\ loads \in [Driver -> 0 .. MaxLoads]
  /\ permanent \subseteq {"directory", "dosDirectory"}
  /\ strayFree \in BOOLEAN
  /\ asked \in [Mount -> SUBSET FileSystem]
  /\ didLoadFail \in BOOLEAN

DriversInv == Maps /\ FilterInv /\ FsdInv /\ RecInv /\ MountInv /\ RestInv

----------------------------------------------------------------------------
(* A step concerns one driver *)

Only(d) ==
  /\ Maps'
  /\ \A e \in Driver \ {d} : UNCHANGED <<pc[e], held[e], data[e]>>

\* Driver d goes on, back, or stays where it is, and has more, less or the same.
Advance(d) ==
  \/ UNCHANGED <<pc[d], held[d]>>
  \/ pc[d] = "out" /\ pc'[d] \in EntryLabel(d)
  \/ pc[d] \in EntryLabel(d) /\ pc'[d] \in EntryLabel(d) \cup UnwindLabel(d) /\ held[d] \subseteq held'[d]
  \/ pc[d] \in EntryLabel(d) /\ pc'[d] = "in" /\ held'[d] = AssetOf(d)
  \/ pc[d] \in UnwindLabel(d) /\ pc'[d] \in UnwindLabel(d) /\ held'[d] \subseteq held[d]
  \/ pc[d] \in UnwindLabel(d) \cup {"in"} /\ pc'[d] = "out" /\ held'[d] = {}
  \/ pc[d] = "in" /\ pc'[d] = "in" /\ held'[d] \subseteq held[d]

LEMMA InitInv == Init => DriversInv
<1> SUFFICES ASSUME Init PROVE DriversInv
  OBVIOUS
<1> USE DEF Init, IoInit
<1>1. Maps  BY DEF Maps, IsMap
<1>2. FilterInv  BY DEF FilterInv, Place, Driver, EntryLabel, UnwindLabel
<1>3. FsdInv  BY DEF FsdInv, Place, Driver, EntryLabel, UnwindLabel
<1>4. RecInv  BY DEF RecInv, Place, Driver, EntryLabel, UnwindLabel
<1>5. MountInv
  BY DEF MountInv, Progress, InRecognizer, Driver
<1>6. RestInv
  <2>1. loads \in [Driver -> 0 .. MaxLoads]
    BY MountAssumption
  <2>2. strayFree \in BOOLEAN /\ didLoadFail \in BOOLEAN
    BY Zenon
  <2> QED BY <2>1, <2>2 DEF RestInv
<1> QED BY <1>1, <1>2, <1>3, <1>4, <1>5, <1>6 DEF DriversInv

\* An entry routine's vocabulary, for one driver: where it goes and what it has.
LEMMA GotoStep ==
  ASSUME NEW d \in Driver, NEW l, Maps, Goto(d, l)
  PROVE  IsMap(pc') /\ pc'[d] = l /\ \A e \in Driver \ {d} : pc'[e] = pc[e]
BY DEF Maps, IsMap, Goto

LEMMA MadeStep ==
  ASSUME NEW d \in Driver, NEW asset, NEW l, Maps, Made(d, asset, l)
  PROVE  /\ Only(d) /\ pc'[d] = l
         /\ held'[d] = held[d] \cup {asset} /\ data'[d] = data[d] \cup {asset}
BY DEF Maps, IsMap, Goto, Made, Only

LEMMA FailedStep ==
  ASSUME NEW d \in Driver, NEW l, Maps, Failed(d, l)
  PROVE  Only(d) /\ pc'[d] = l /\ held'[d] = held[d] /\ data'[d] = data[d]
BY DEF Maps, IsMap, Goto, Failed, Only

LEMMA UnmakeStep ==
  ASSUME NEW d \in Driver, NEW asset, NEW l, Maps, Unmake(d, asset, l)
  PROVE  /\ Only(d) /\ pc'[d] = l
         /\ held'[d] = (IF asset \in data[d] THEN held[d] \ {asset} ELSE held[d])
         /\ data'[d] = data[d] \ {asset}
<1>1. CASE asset \in data[d]
  BY <1>1 DEF Maps, IsMap, Goto, Unmake, Only
<1>2. CASE asset \notin data[d]
  BY <1>2 DEF Maps, IsMap, Goto, Unmake, Only
<1> QED BY <1>1, <1>2


LEMMA FilterLabels ==
  /\ "filter" \in Driver
  /\ EntryLabel("filter") = {"directory", "dosDirectory", "device", "extension", "link",
                             "notification"}
  /\ UnwindLabel("filter") = {"undoLink", "undoExtension", "undoDevice", "undoDirectory",
                              "undoDosDirectory", "undoResource"}
  /\ AssetOf("filter") = {"resource", "directory", "dosDirectory", "device", "extension", "link",
                          "notification"}
BY DEF Driver, EntryLabel, UnwindLabel, AssetOf

LEMMA FilterSteps ==
  ASSUME Maps, FilterInv, FilterEnter \/ FilterStep
  PROVE  FilterInv' /\ Only("filter") /\ Advance("filter")
<1> USE FilterLabels DEF FilterInv, Advance, Place, FilterMade, FilterLeft
<1>1. CASE FilterEnter
  <2>1. /\ pc["filter"] = "out" /\ pc'["filter"] = "directory"
        /\ held'["filter"] = held["filter"] \cup {"resource"} /\ data'["filter"] = {"resource"}
        /\ Only("filter")
    BY <1>1 DEF FilterEnter, SystemLoads, Goto, Maps, IsMap, Only
  <2> QED BY <2>1
<1>2. ASSUME NEW l, NEW asset, NEW next,
             <<l, asset, next>> \in {<<"directory", "directory", "dosDirectory">>,
                                     <<"dosDirectory", "dosDirectory", "device">>,
                                     <<"device", "device", "extension">>,
                                     <<"extension", "extension", "link">>,
                                     <<"link", "link", "notification">>,
                                     <<"notification", "notification", "in">>},
             pc["filter"] = l, Made("filter", asset, next) \/ Failed("filter", "undoLink")
      PROVE  FilterInv' /\ Only("filter") /\ Advance("filter")
  <2>1. CASE Made("filter", asset, next)
    <3>1. /\ Only("filter") /\ pc'["filter"] = next
          /\ held'["filter"] = held["filter"] \cup {asset}
          /\ data'["filter"] = data["filter"] \cup {asset}
      BY <2>1, MadeStep
    <3> QED BY <1>2, <3>1
  <2>2. CASE Failed("filter", "undoLink")
    <3>1. /\ Only("filter") /\ pc'["filter"] = "undoLink"
          /\ held'["filter"] = held["filter"] /\ data'["filter"] = data["filter"]
      BY <2>2, FailedStep
    <3> QED BY <1>2, <3>1
  <2> QED BY <1>2, <2>1, <2>2
<1>3. CASE \/ CreateDirectory("directory", "dosDirectory") \/ CreateDirectory("dosDirectory", "device")
           \/ FilterCreateDevice \/ FilterInitDevExtension \/ CreateSymbolicLink
           \/ RegisterFsRegistrationChange
  <2> HIDE DEF FilterInv, Advance
  <2> QED
    BY <1>2, <1>3 DEF CreateDirectory, FilterCreateDevice, FilterInitDevExtension, CreateSymbolicLink,
                      RegisterFsRegistrationChange
<1>4. CASE UndoSymbolicLink
  <2>1. /\ pc["filter"] = "undoLink" /\ pc'["filter"] = "undoExtension" /\ Only("filter")
        /\ data'["filter"] = data["filter"]
        /\ held'["filter"] = IF "link" \in data["filter"] THEN held["filter"] \ {"link"}
                                                           ELSE held["filter"]
    BY <1>4 DEF UndoSymbolicLink, Goto, Maps, IsMap, Only
  <2> QED BY <2>1
<1>5. ASSUME NEW l, NEW asset, NEW next,
             <<l, asset, next>> \in {<<"undoExtension", "extension", "undoDevice">>,
                                     <<"undoDevice", "device", "undoDirectory">>,
                                     <<"undoDirectory", "directory", "undoDosDirectory">>,
                                     <<"undoDosDirectory", "dosDirectory", "undoResource">>,
                                     <<"undoResource", "resource", "out">>},
             pc["filter"] = l, Unmake("filter", asset, next)
      PROVE  FilterInv' /\ Only("filter") /\ Advance("filter")
  <2>1. /\ Only("filter") /\ pc'["filter"] = next
        /\ held'["filter"] = (IF asset \in data["filter"] THEN held["filter"] \ {asset}
                                                           ELSE held["filter"])
        /\ data'["filter"] = data["filter"] \ {asset}
    BY <1>5, UnmakeStep
  <2>2. held'["filter"] = held["filter"] \ {asset}
    BY <1>5, <2>1
  <2> QED BY <1>5, <2>1, <2>2
<1>6. CASE \/ UndoDevExtension \/ FilterUndoDevice \/ FilterUndoResource
           \/ CloseDirectory("undoDirectory", "directory", "undoDosDirectory")
           \/ CloseDirectory("undoDosDirectory", "dosDirectory", "undoResource")
  <2> HIDE DEF FilterInv, Advance
  <2> QED
    BY <1>5, <1>6 DEF UndoDevExtension, FilterUndoDevice, CloseDirectory, FilterUndoResource
<1> QED BY <1>1, <1>3, <1>4, <1>6 DEF FilterStep

LEMMA FsdLabels ==
  /\ "fsd" \in Driver
  /\ EntryLabel("fsd") = {"zones", "headers", "device", "registration"}
  /\ UnwindLabel("fsd") = {"destroy", "undoDevice", "undoZones", "undoResource"}
  /\ AssetOf("fsd") = {"resource", "device", "registration"} \cup Zone
  /\ \A x \in {"resource", "device", "registration", "zones"} : x \notin Zone
BY DEF Driver, EntryLabel, UnwindLabel, AssetOf, Zone

LEMMA FsdSteps ==
  ASSUME Maps, FsdInv, FsdStart \/ FsdStep
  PROVE  FsdInv' /\ Only("fsd") /\ Advance("fsd")
<1> USE FsdLabels DEF FsdInv, Advance, Place
<1>1. CASE FsdStart
  <2>1. /\ pc["fsd"] = "out" /\ pc'["fsd"] = "zones"
        /\ held'["fsd"] = held["fsd"] \cup {"resource"} /\ data'["fsd"] = {"resource"}
        /\ Only("fsd")
    BY <1>1 DEF FsdStart, Goto, Maps, IsMap, Only
  <2> QED BY <2>1
<1>2. CASE AllocateZones
  <2>1. PICK n \in 0 .. Len(ZoneOrder) :
          /\ held' = [held EXCEPT !["fsd"] = @ \cup {ZoneOrder[k] : k \in 1 .. n}]
          /\ Goto("fsd", IF n = Len(ZoneOrder) THEN "headers" ELSE "destroy")
    BY <1>2 DEF AllocateZones
  <2>2. Len(ZoneOrder) = 5 /\ {ZoneOrder[k] : k \in 1 .. 5} = Zone
    BY DEF ZoneOrder, Zone
  <2>3. {ZoneOrder[k] : k \in 1 .. n} \subseteq Zone
    BY <2>1, <2>2
  <2>4. /\ pc["fsd"] = "zones" /\ pc'["fsd"] = (IF n = 5 THEN "headers" ELSE "destroy")
        /\ held'["fsd"] = held["fsd"] \cup {ZoneOrder[k] : k \in 1 .. n}
        /\ data'["fsd"] = data["fsd"] /\ Only("fsd")
    BY <1>2, <2>1, <2>2 DEF AllocateZones, Goto, Maps, IsMap, Only
  <2>5. CASE n = 5
    BY <2>2, <2>4, <2>5
  <2>6. CASE n # 5
    BY <2>3, <2>4, <2>6
  <2> QED BY <2>5, <2>6
<1>3. CASE InitializeZoneHeaders
  <2>1. CASE Failed("fsd", "destroy")
    <3>1. /\ Only("fsd") /\ pc["fsd"] = "headers" /\ pc'["fsd"] = "destroy"
          /\ held'["fsd"] = held["fsd"] /\ data'["fsd"] = data["fsd"]
      BY <1>3, <2>1, FailedStep DEF InitializeZoneHeaders
    <3> QED BY <3>1
  <2>2. CASE ~Failed("fsd", "destroy")
    <3>1. /\ Only("fsd") /\ pc["fsd"] = "headers" /\ pc'["fsd"] = "device"
          /\ held'["fsd"] = held["fsd"] /\ data'["fsd"] = data["fsd"] \cup {"zones"}
      BY <1>3, <2>2 DEF InitializeZoneHeaders, Goto, Maps, IsMap, Only
    <3> QED BY <3>1
  <2> QED BY <2>1, <2>2
<1>4. CASE DestroyPartialZones
  <2>1. /\ pc["fsd"] = "destroy" /\ pc'["fsd"] = "undoDevice" /\ Only("fsd")
        /\ held'["fsd"] = held["fsd"] \ Zone /\ data'["fsd"] = data["fsd"] \ {"zones"}
    BY <1>4 DEF DestroyPartialZones, SFsdDestroyZones, Goto, Maps, IsMap, Only
  <2> QED BY <2>1
<1>5. CASE FsdCreateDevice
  <2>1. CASE Made("fsd", "device", "registration")
    <3>1. /\ pc["fsd"] = "device" /\ pc'["fsd"] = "registration" /\ Only("fsd")
          /\ held'["fsd"] = held["fsd"] \cup {"device"} /\ data'["fsd"] = data["fsd"] \cup {"device"}
      BY <1>5, <2>1, MadeStep DEF FsdCreateDevice
    <3> QED BY <3>1
  <2>2. CASE Failed("fsd", "undoDevice")
    <3>1. /\ pc["fsd"] = "device" /\ pc'["fsd"] = "undoDevice" /\ Only("fsd")
          /\ held'["fsd"] = held["fsd"] /\ data'["fsd"] = data["fsd"]
      BY <1>5, <2>2, FailedStep DEF FsdCreateDevice
    <3> QED BY <3>1
  <2> QED BY <1>5, <2>1, <2>2 DEF FsdCreateDevice
<1>6. CASE FsdRegister
  <2>1. CASE Made("fsd", "registration", "in")
    <3>1. /\ pc["fsd"] = "registration" /\ pc'["fsd"] = "in" /\ Only("fsd")
          /\ held'["fsd"] = held["fsd"] \cup {"registration"}
          /\ data'["fsd"] = data["fsd"] \cup {"registration"}
      BY <1>6, <2>1, MadeStep DEF FsdRegister
    <3> QED BY <3>1
  <2>2. CASE Failed("fsd", "undoDevice")
    <3>1. /\ pc["fsd"] = "registration" /\ pc'["fsd"] = "undoDevice" /\ Only("fsd")
          /\ held'["fsd"] = held["fsd"] /\ data'["fsd"] = data["fsd"]
      BY <1>6, <2>2, FailedStep DEF FsdRegister
    <3> QED BY <3>1
  <2> QED BY <1>6, <2>1, <2>2 DEF FsdRegister
<1>7. CASE FsdUndoDevice
  <2>1. /\ pc["fsd"] = "undoDevice" /\ pc'["fsd"] = "undoZones" /\ Only("fsd")
        /\ held'["fsd"] = (IF "device" \in data["fsd"] THEN held["fsd"] \ {"device"} ELSE held["fsd"])
        /\ data'["fsd"] = data["fsd"] \ {"device"}
    BY <1>7, UnmakeStep DEF FsdUndoDevice
  <2>2. held'["fsd"] = held["fsd"] \ {"device"}
    BY <2>1
  <2> QED BY <2>1, <2>2
<1>8. CASE FsdUndoZones
  <2>1. CASE "zones" \in data["fsd"]
    <3>1. /\ pc["fsd"] = "undoZones" /\ pc'["fsd"] = "undoResource" /\ Only("fsd")
          /\ held'["fsd"] = held["fsd"] \ Zone /\ data'["fsd"] = data["fsd"] \ {"zones"}
      BY <1>8, <2>1 DEF FsdUndoZones, SFsdDestroyZones, Goto, Maps, IsMap, Only
    <3> QED BY <3>1
  <2>2. CASE "zones" \notin data["fsd"]
    <3>1. /\ pc["fsd"] = "undoZones" /\ pc'["fsd"] = "undoResource" /\ Only("fsd")
          /\ held'["fsd"] = held["fsd"] /\ data'["fsd"] = data["fsd"]
      BY <1>8, <2>2 DEF FsdUndoZones, Goto, Maps, IsMap, Only
    <3> QED BY <2>2, <3>1
  <2> QED BY <2>1, <2>2
<1>9. CASE FsdUndoResource
  <2>1. /\ pc["fsd"] = "undoResource" /\ pc'["fsd"] = "out" /\ Only("fsd")
        /\ held'["fsd"] = (IF "resource" \in data["fsd"] THEN held["fsd"] \ {"resource"}
                                                          ELSE held["fsd"])
        /\ data'["fsd"] = data["fsd"] \ {"resource"}
    BY <1>9, UnmakeStep DEF FsdUndoResource
  <2> QED BY <2>1
<1> QED BY <1>1, <1>2, <1>3, <1>4, <1>5, <1>6, <1>7, <1>8, <1>9 DEF FsdStep

LEMMA RecLabels ==
  /\ "rec" \in Driver
  /\ EntryLabel("rec") = {"device", "registration"}
  /\ UnwindLabel("rec") = {"undoDevice"}
  /\ AssetOf("rec") = {"device", "registration"}
BY DEF Driver, EntryLabel, UnwindLabel, AssetOf

LEMMA RecSteps ==
  ASSUME Maps, RecInv, RecEnter \/ RecStep \/ SFsRecUnload
  PROVE  RecInv' /\ Only("rec") /\ Advance("rec")
<1> USE RecLabels, FsdLabels DEF RecInv, Advance, Place
<1>1. CASE RecEnter
  <2>1. /\ pc["rec"] = "out" /\ pc'["rec"] \in {"out", "device"} /\ Only("rec")
        /\ held'["rec"] = held["rec"] /\ data'["rec"] = data["rec"]
    BY <1>1 DEF RecEnter, SystemLoads, Goto, Maps, IsMap, Only
  <2> QED BY <2>1
<1>2. CASE RecCreateDevice
  <2>1. CASE Made("rec", "device", "registration")
    <3>1. /\ pc["rec"] = "device" /\ pc'["rec"] = "registration" /\ Only("rec")
          /\ held'["rec"] = held["rec"] \cup {"device"} /\ data'["rec"] = data["rec"] \cup {"device"}
      BY <1>2, <2>1, MadeStep DEF RecCreateDevice
    <3> QED BY <3>1
  <2>2. CASE Failed("rec", "undoDevice")
    <3>1. /\ pc["rec"] = "device" /\ pc'["rec"] = "undoDevice" /\ Only("rec")
          /\ held'["rec"] = held["rec"] /\ data'["rec"] = data["rec"]
      BY <1>2, <2>2, FailedStep DEF RecCreateDevice
    <3> QED BY <3>1
  <2> QED BY <1>2, <2>1, <2>2 DEF RecCreateDevice
<1>3. CASE RecRegister
  <2>1. CASE Made("rec", "registration", "in")
    <3>1. /\ pc["rec"] = "registration" /\ pc'["rec"] = "in" /\ Only("rec")
          /\ held'["rec"] = held["rec"] \cup {"registration"}
          /\ data'["rec"] = data["rec"] \cup {"registration"}
      BY <1>3, <2>1, MadeStep DEF RecRegister
    <3> QED BY <3>1
  <2>2. CASE Failed("rec", "undoDevice")
    <3>1. /\ pc["rec"] = "registration" /\ pc'["rec"] = "undoDevice" /\ Only("rec")
          /\ held'["rec"] = held["rec"] /\ data'["rec"] = data["rec"]
      BY <1>3, <2>2, FailedStep DEF RecRegister
    <3> QED BY <3>1
  <2> QED BY <1>3, <2>1, <2>2 DEF RecRegister
<1>4. CASE RecUndoDevice
  <2>1. /\ pc["rec"] = "undoDevice" /\ pc'["rec"] = "out" /\ Only("rec")
        /\ held'["rec"] = (IF "device" \in data["rec"] THEN held["rec"] \ {"device"} ELSE held["rec"])
        /\ data'["rec"] = data["rec"] \ {"device"}
    BY <1>4, UnmakeStep DEF RecUndoDevice
  <2> QED BY <2>1
<1>5. CASE SFsRecUnload
  <2>1. /\ pc["rec"] = "in" /\ pc'["rec"] = "out" /\ Only("rec")
        /\ held'["rec"] = {} /\ data'["rec"] = {}
    BY <1>5 DEF SFsRecUnload, Goto, Maps, IsMap, Only
  <2> QED BY <2>1
<1> QED BY <1>1, <1>2, <1>3, <1>4, <1>5 DEF RecStep

\* What nothing happens to.
LEMMA FilterStays ==
  ASSUME FilterInv, UNCHANGED <<pc["filter"], held["filter"], data["filter"]>>
  PROVE  FilterInv'
BY DEF FilterInv

LEMMA FsdStays ==
  ASSUME FsdInv, UNCHANGED <<pc["fsd"], held["fsd"], data["fsd"]>>
  PROVE  FsdInv'
BY DEF FsdInv

LEMMA RecStays ==
  ASSUME RecInv, UNCHANGED <<pc["rec"], held["rec"], data["rec"]>>,
         pc["fsd"] = "in" => pc'["fsd"] = "in"
  PROVE  RecInv'
BY DEF RecInv

\* The mounts are the same, and so is whatever they rely on.
LEMMA MountsStay ==
  ASSUME MountInv, UNCHANGED mount, loader' \in Mount \cup {System},
         \A f \in attached' : f \in FileSystem /\ pc'[f] = "in",
         pc["rec"] = "in" => pc'["rec"] = "in" \/ InRecognizer = {},
         pc["fsd"] = "in" => pc'["fsd"] = "in",
         pc'["fsd"] \notin {"out", "in"} =>
           loader' = System \/ (loader' = loader /\ pc["fsd"] \notin {"out", "in"})
  PROVE  MountInv'
BY DEF MountInv, InRecognizer

----------------------------------------------------------------------------
(* The invariant is inductive *)

LEMMA FilterKeeps ==
  ASSUME DriversInv, FilterEnter \/ FilterStep
  PROVE  Maps' /\ FilterInv' /\ FsdInv' /\ RecInv' /\ MountInv'
<1> USE DEF DriversInv
<1>1. FilterInv' /\ Only("filter")
  BY FilterSteps
<1>2. UNCHANGED <<pc["fsd"], held["fsd"], data["fsd"], pc["rec"], held["rec"], data["rec"]>>
  BY <1>1 DEF Only, Driver
<1>3. UNCHANGED <<mount, loader, attached>>
  BY DEF FilterEnter, FilterStep, CreateDirectory, FilterCreateDevice, FilterInitDevExtension,
         CreateSymbolicLink, RegisterFsRegistrationChange, UndoSymbolicLink, UndoDevExtension,
         FilterUndoDevice, CloseDirectory, FilterUndoResource, filterElse, mountVars
<1>4. MountInv'
  BY <1>2, <1>3, MountsStay DEF MountInv, FileSystem
<1> QED BY <1>1, <1>2, <1>4, FsdStays, RecStays DEF Only

LEMMA FsdKeeps ==
  ASSUME DriversInv, FsdEnter \/ FsdStep
  PROVE  Maps' /\ FilterInv' /\ FsdInv' /\ RecInv' /\ MountInv'
<1> USE FsdLabels DEF DriversInv
<1>1. FsdInv' /\ Only("fsd")
  BY FsdSteps DEF FsdEnter
<1>2. /\ UNCHANGED <<pc["filter"], held["filter"], data["filter"], pc["rec"], held["rec"], data["rec"]>>
      /\ Maps'
  BY <1>1 DEF Only, Driver
<1>3. pc["fsd"] # "in" /\ \A m \in Mount : mount[m] # "loaded"
  BY DEF MountInv, FsdEnter, SystemLoads, FsdStart, FsdStep, AllocateZones, InitializeZoneHeaders,
         DestroyPartialZones, FsdCreateDevice, FsdRegister, FsdUndoDevice, FsdUndoZones,
         FsdUndoResource
<1>4. MountInv'
  <2>1. CASE FsdEnter
    <3>1. loader' = System /\ UNCHANGED <<mount, attached>>
      BY <2>1 DEF FsdEnter, mountVars
    <3> QED BY <1>2, <1>3, <3>1, MountsStay DEF MountInv, FileSystem
  <2>2. CASE \/ AllocateZones \/ InitializeZoneHeaders \/ DestroyPartialZones \/ FsdCreateDevice
             \/ FsdUndoDevice \/ FsdUndoZones \/ (FsdRegister /\ Failed("fsd", "undoDevice"))
    <3>1. UNCHANGED <<loader, mount, attached>> /\ pc["fsd"] \notin {"out", "in"}
      BY <2>2 DEF AllocateZones, InitializeZoneHeaders, DestroyPartialZones, FsdCreateDevice,
                  FsdUndoDevice, FsdUndoZones, FsdRegister, Failed, Goto, Made, fsdElse, mountVars,
                  Maps, IsMap
    <3> QED BY <1>2, <1>3, <3>1, MountsStay DEF MountInv, FileSystem
  <2>3. CASE FsdRegister /\ ~Failed("fsd", "undoDevice")
    <3>1. /\ pc["fsd"] = "registration" /\ pc'["fsd"] = "in" /\ loader' = loader
          /\ ReturnToLoader("loaded") /\ FSDNotification("fsd")
      BY <2>3, MadeStep DEF FsdRegister
    <3>2. \A f \in attached' : f \in FileSystem /\ pc'[f] = "in"
      BY <1>2, <1>3, <3>1 DEF MountInv, FSDNotification, FileSystem
    <3>3. mount' \in [Mount -> Progress] /\ InRecognizer' = InRecognizer
      BY <3>1 DEF ReturnToLoader, MountInv, Progress, InRecognizer
    <3> QED BY <1>2, <3>1, <3>2, <3>3 DEF MountInv
  <2>4. CASE FsdUndoResource
    <3>1. /\ pc["fsd"] = "undoResource" /\ pc'["fsd"] = "out"
          /\ UNCHANGED <<loader, attached>> /\ ReturnToLoader("loadFailed")
      BY <2>4, UnmakeStep DEF FsdUndoResource
    <3>2. mount' \in [Mount -> Progress] /\ InRecognizer' = InRecognizer
          /\ \A m \in Mount : mount'[m] # "loaded"
      BY <1>3, <3>1 DEF ReturnToLoader, MountInv, Progress, InRecognizer
    <3> QED BY <1>2, <1>3, <3>1, <3>2 DEF MountInv, FileSystem
  <2> QED BY <2>1, <2>2, <2>3, <2>4 DEF FsdStep
<1> QED BY <1>1, <1>2, <1>3, <1>4, FilterStays, RecStays

LEMMA RecKeeps ==
  ASSUME DriversInv, RecEnter \/ RecStep \/ SFsRecUnload
  PROVE  Maps' /\ FilterInv' /\ FsdInv' /\ RecInv' /\ MountInv'
<1> USE RecLabels DEF DriversInv
<1>1. RecInv' /\ Only("rec")
  BY RecSteps
<1>2. /\ Maps'
      /\ UNCHANGED <<pc["filter"], held["filter"], data["filter"], pc["fsd"], held["fsd"], data["fsd"]>>
  BY <1>1 DEF Only, Driver
<1>3. UNCHANGED <<mount, loader>>
  BY DEF RecEnter, RecStep, RecCreateDevice, RecRegister, RecUndoDevice, SFsRecUnload, mountVars
<1>4. pc["rec"] = "in" => InRecognizer = {}
  BY DEF RecEnter, SystemLoads, RecStep, RecCreateDevice, RecRegister, RecUndoDevice, SFsRecUnload
<1>5. \A f \in attached' : f \in FileSystem /\ pc'[f] = "in"
  <2>1. CASE RecRegister /\ ~Failed("rec", "undoDevice")
    <3>1. pc'["rec"] = "in" /\ FSDNotification("rec")
      BY <2>1, MadeStep DEF RecRegister
    <3> QED BY <1>2, <3>1 DEF MountInv, FSDNotification, FileSystem
  <2>2. CASE SFsRecUnload
    BY <1>2, <2>2 DEF SFsRecUnload, MountInv, FileSystem
  <2>3. CASE RecEnter \/ RecCreateDevice \/ RecUndoDevice \/ (RecRegister /\ Failed("rec", "undoDevice"))
    <3>1. UNCHANGED attached /\ pc["rec"] # "in"
      BY <2>3 DEF RecEnter, SystemLoads, RecCreateDevice, RecRegister, RecUndoDevice, Made, Failed,
                  Goto, Maps, IsMap
    <3> QED BY <1>2, <3>1 DEF MountInv, FileSystem
  <2> QED BY <2>1, <2>2, <2>3 DEF RecStep
<1>6. MountInv'
  BY <1>2, <1>3, <1>4, <1>5, MountsStay DEF MountInv
<1> QED BY <1>1, <1>2, <1>6, FilterStays, FsdStays

LEMMA MountKeeps ==
  ASSUME DriversInv, NEW m \in Mount, StartMount(m) \/ MountStep(m)
  PROVE  Maps' /\ FilterInv' /\ FsdInv' /\ RecInv' /\ MountInv'
<1> USE DEF DriversInv
<1>1. CASE StartMount(m) \/ FsdHasNoFsControl(m) \/ MountAnswered(m) \/ FsControlMount(m)
  <2>1. UNCHANGED <<pc, held, data, loader, attached>>
    BY <1>1 DEF StartMount, FsdHasNoFsControl, MountAnswered, FsControlMount, mountElse, entryVars
  <2>2. mount[m] \in {"idle", "asking"} /\ (mount' = mount \/ Become(m, "asking")
        \/ Become(m, "answered") \/ (Become(m, "required") /\ "rec" \in Registered))
    BY <1>1 DEF StartMount, FsdHasNoFsControl, MountAnswered, FsControlMount
  <2>3. "rec" \in Registered => pc["rec"] = "in"
    BY RecLabels DEF RecInv, Registered, Place
  <2>4. MountInv'
    BY <2>1, <2>2, <2>3 DEF MountInv, Become, Progress, InRecognizer
  <2> QED BY <2>1, <2>4, FilterStays, FsdStays, RecStays DEF Maps
<1>2. CASE FsControlLoad(m)
  <2>1. /\ mount[m] = "required" /\ m \in InRecognizer /\ pc["rec"] = "in"
        /\ UNCHANGED attached
    BY <1>2 DEF FsControlLoad, MountInv, InRecognizer
  <2>2. CASE FsdStart /\ loader' = m /\ Become(m, "loading")
    <3>1. FsdInv' /\ Only("fsd")
      BY <2>2, FsdSteps
    <3>2. /\ UNCHANGED <<pc["filter"], held["filter"], data["filter"]>>
          /\ UNCHANGED <<pc["rec"], held["rec"], data["rec"]>>
          /\ pc["fsd"] = "out" /\ Maps'
      BY <2>2, <3>1 DEF Only, Driver, FsdStart
    <3>3. mount' \in [Mount -> Progress] /\ mount'[m] = "loading"
          /\ \A n \in Mount : mount'[n] # "loaded"
      BY <2>2, <3>2 DEF MountInv, Become, Progress
    <3>4. MountInv'
      BY <2>1, <2>2, <3>2, <3>3 DEF MountInv, FileSystem
    <3> QED BY <3>1, <3>2, <3>4, FilterStays, RecStays
  <2>3. CASE pc["fsd"] = "in" /\ Become(m, "loaded") /\ UNCHANGED <<entryVars, loader>>
    <3>1. MountInv'
      BY <2>1, <2>3 DEF MountInv, Become, Progress, entryVars
    <3> QED BY <2>3, <3>1, FilterStays, FsdStays, RecStays DEF Maps, entryVars
  <2> QED BY <1>2, <2>2, <2>3 DEF FsControlLoad
<1>3. CASE LoadReturned(m)
  <2>1. /\ mount[m] \in {"loaded", "loadFailed"} /\ Become(m, "asking")
        /\ UNCHANGED <<pc, data, attached, loader>>
        /\ pc["rec"] = "in"
    BY <1>3 DEF LoadReturned, MountInv, InRecognizer
  <2>2. MountInv'
    BY <2>1 DEF MountInv, Become, Progress, InRecognizer
  <2>3. /\ held'["filter"] = held["filter"] /\ held'["fsd"] = held["fsd"] /\ IsMap(held')
        /\ \/ held'["rec"] = held["rec"]
           \/ held'["rec"] = held["rec"] \ {"registration"} /\ mount[m] = "loaded"
    BY <1>3, RecLabels, FsdLabels DEF LoadReturned, Maps, IsMap, Driver
  <2>4. RecInv'
    BY <2>1, <2>3, RecLabels DEF RecInv, MountInv, Place
  <2> QED BY <2>1, <2>2, <2>3, <2>4, FilterStays, FsdStays DEF Maps
<1> QED BY <1>1, <1>2, <1>3 DEF MountStep

LEMMA RestKeeps ==
  ASSUME DriversInv, [Next]_vars
  PROVE  RestInv'
<1> USE DEF DriversInv, RestInv
<1> DEFINE Elsewhere == UNCHANGED <<loads, permanent, strayFree, asked, didLoadFail>>
<1>1. CASE FilterEnter \/ FsdEnter \/ RecEnter
  <2>1. \E d \in Driver : SystemLoads(d)
    BY <1>1, FilterLabels, FsdLabels, RecLabels DEF FilterEnter, FsdEnter, RecEnter
  <2>2. loads' \in [Driver -> 0 .. MaxLoads]
    BY <2>1, MountAssumption DEF SystemLoads
  <2>3. UNCHANGED <<permanent, strayFree, asked, didLoadFail>>
    BY <1>1 DEF FilterEnter, FsdEnter, RecEnter, mountVars
  <2> QED BY <2>2, <2>3
<1>2. CASE FilterStep
  <2>1. UNCHANGED <<loads, strayFree, asked, didLoadFail>>
    BY <1>2 DEF FilterStep, CreateDirectory, FilterCreateDevice, FilterInitDevExtension,
         CreateSymbolicLink, RegisterFsRegistrationChange, UndoSymbolicLink, UndoDevExtension,
         FilterUndoDevice, CloseDirectory, FilterUndoResource, filterElse, mountVars
  <2>2. permanent' \subseteq permanent \cup {"directory", "dosDirectory"}
    BY <1>2 DEF FilterStep, CreateDirectory, FilterCreateDevice, FilterInitDevExtension,
         CreateSymbolicLink, RegisterFsRegistrationChange, UndoSymbolicLink, UndoDevExtension,
         FilterUndoDevice, CloseDirectory, FilterUndoResource, filterElse
  <2> QED BY <2>1, <2>2
<1>3. CASE FsdStep
  <2>1. UNCHANGED <<loads, permanent, asked, didLoadFail>>
    BY <1>3 DEF FsdStep, AllocateZones, InitializeZoneHeaders, DestroyPartialZones, FsdCreateDevice,
         FsdUndoDevice, FsdUndoZones, FsdRegister, FsdUndoResource, fsdElse, mountVars
  <2>2. UNCHANGED strayFree \/ SFsdDestroyZones
    BY <1>3 DEF FsdStep, AllocateZones, InitializeZoneHeaders, DestroyPartialZones, FsdCreateDevice,
         FsdUndoDevice, FsdUndoZones, FsdRegister, FsdUndoResource
  <2>3. strayFree' \in BOOLEAN
    BY <2>2, Zenon DEF SFsdDestroyZones
  <2> QED BY <2>1, <2>3
<1>4. CASE RecStep \/ SFsRecUnload
  BY <1>4 DEF RecStep, RecCreateDevice, RecRegister, RecUndoDevice, SFsRecUnload, mountVars
<1>5. ASSUME NEW m \in Mount, StartMount(m) \/ MountStep(m)
      PROVE  RestInv'
  <2>1. UNCHANGED <<loads, permanent, strayFree>>
    BY <1>5 DEF StartMount, MountStep, FsControlMount, FsdHasNoFsControl, MountAnswered,
         FsControlLoad, LoadReturned, mountElse
  <2>2. \E S \in SUBSET FileSystem : asked' = asked \/ asked' = [asked EXCEPT ![m] = S]
    <3>1. \A S \in {{}, asked[m] \cup {"rec"}, asked[m] \cup {"fsd"}} : S \in SUBSET FileSystem
      BY <1>5 DEF FileSystem
    <3>2. \/ asked' = asked
          \/ \E S \in {{}, asked[m] \cup {"rec"}, asked[m] \cup {"fsd"}} :
               asked' = [asked EXCEPT ![m] = S]
      BY <1>5 DEF StartMount, MountStep, FsControlMount, FsdHasNoFsControl, MountAnswered,
           FsControlLoad, LoadReturned
    <3> QED BY <3>1, <3>2
  <2>3. asked' \in [Mount -> SUBSET FileSystem]
    BY <2>2
  <2>4. didLoadFail' = didLoadFail \/ didLoadFail' = (didLoadFail \/ mount[m] = "loadFailed")
    BY <1>5 DEF StartMount, MountStep, FsControlMount, FsdHasNoFsControl, MountAnswered,
         FsControlLoad, LoadReturned, mountElse
  <2>5. didLoadFail' \in BOOLEAN
    BY <2>4, Zenon
  <2> QED BY <2>1, <2>3, <2>5
<1>6. CASE UNCHANGED vars
  BY <1>6 DEF vars, mountVars
<1> QED BY <1>1, <1>2, <1>3, <1>4, <1>5, <1>6 DEF Next

LEMMA StepInv == DriversInv /\ [Next]_vars => DriversInv'
<1> SUFFICES ASSUME DriversInv, [Next]_vars PROVE DriversInv'
  OBVIOUS
<1>1. Maps' /\ FilterInv' /\ FsdInv' /\ RecInv' /\ MountInv'
  <2>1. CASE UNCHANGED vars
    <3>1. UNCHANGED <<pc, held, data, mount, loader, attached>>
      BY <2>1 DEF vars, entryVars, mountVars
    <3>2. MountInv'
      BY <3>1 DEF DriversInv, MountInv, InRecognizer
    <3> QED BY <3>1, <3>2, FilterStays, FsdStays, RecStays DEF DriversInv, Maps
  <2> QED BY <2>1, FilterKeeps, FsdKeeps, RecKeeps, MountKeeps DEF Next
<1>2. RestInv'
  BY RestKeeps
<1> QED BY <1>1, <1>2 DEF DriversInv

LEMMA InvTypeOK == DriversInv => TypeOK
<1> SUFFICES ASSUME DriversInv PROVE TypeOK
  OBVIOUS
<1> USE DEF DriversInv
<1>1. DOMAIN pc = Driver
  BY DEF Maps, IsMap
<1>2. \A d \in Driver : pc[d] \in Place(d)
  BY DEF FilterInv, FsdInv, RecInv, Driver
<1>3. held["filter"] \subseteq AssetOf("filter") /\ data["filter"] \subseteq AssetOf("filter")
  BY FilterLabels DEF FilterInv, Place, FilterMade, FilterLeft
<1>4. held["fsd"] \subseteq AssetOf("fsd") /\ data["fsd"] \subseteq AssetOf("fsd") \cup {"zones"}
  BY FsdLabels DEF FsdInv, Place
<1>5. held["rec"] \subseteq AssetOf("rec") /\ data["rec"] \subseteq AssetOf("rec")
  BY RecLabels DEF RecInv, Place
<1>6. \A d \in Driver : held[d] \subseteq AssetOf(d) /\ data[d] \subseteq AssetOf(d) \cup {"zones"}
  BY <1>3, <1>4, <1>5 DEF Driver
<1>7. attached \subseteq FileSystem /\ loader \in Mount \cup {System} /\ mount \in [Mount -> Progress]
  BY DEF MountInv
<1> QED BY <1>1, <1>2, <1>6, <1>7 DEF TypeOK, RestInv, Progress, Place

\* Nothing that exists needs what is gone, however many mounts and loads there are.
THEOREM NeverDangles == Spec => []NothingDangles
<1>1. ASSUME DriversInv PROVE NothingDangles
  <2> USE <1>1 DEF DriversInv
  <2>1. /\ "extension" \in held["filter"] => {"resource", "device"} \subseteq held["filter"]
        /\ {"link", "notification"} \cap held["filter"] # {} => "device" \in held["filter"]
    BY FilterLabels DEF FilterInv, Place, FilterMade, FilterLeft
  <2>2. "device" \in held["fsd"] => Zone \subseteq held["fsd"]
    BY FsdLabels DEF FsdInv, Place
  <2>3. /\ "registration" \in held["fsd"] \/ pc["fsd"] = "in" => "device" \in held["fsd"]
        /\ "registration" \in held["rec"] \/ pc["rec"] = "in" => "device" \in held["rec"]
    BY FsdLabels, RecLabels DEF FsdInv, RecInv, Place
  <2>4. NoDeletedDevice
    BY <2>3 DEF NoDeletedDevice, Registered, FileSystem, MountInv
  <2> QED BY <2>1, <2>2, <2>4, InvTypeOK DEF NothingDangles, OrderedTeardown
<1> QED BY <1>1, InitInv, StepInv, PTL DEF Spec

\* The recognizer withdraws for the FSD only, whichever of several mounts has it loaded.
THEOREM AlwaysAnswered == Spec => []SomeoneAnswers
<1>1. ASSUME DriversInv PROVE SomeoneAnswers
  <2>1. pc["rec"] = "in" => "registration" \in held["rec"] \/ pc["fsd"] = "in"
    BY <1>1 DEF DriversInv, RecInv
  <2>2. pc["fsd"] = "in" => "registration" \in held["fsd"]
    BY <1>1, FsdLabels DEF DriversInv, FsdInv, Place
  <2> QED BY <2>1, <2>2 DEF SomeoneAnswers, Registered, FileSystem
<1> QED BY <1>1, InitInv, StepInv, PTL DEF Spec

----------------------------------------------------------------------------
(* The entry routines implement DriverLoad *)

\* The place of a driver's routine says which phase it is in.
LEMMA Phases ==
  ASSUME NEW d \in Driver
  PROVE  /\ pc[d] \in {"out", "in"} => Phase(d) = pc[d]
         /\ pc[d] \in EntryLabel(d) => Phase(d) = "entering"
         /\ pc[d] \in UnwindLabel(d) => Phase(d) = "unwinding"
<1>1. CASE d = "filter"  BY <1>1, FilterLabels DEF Phase
<1>2. CASE d = "fsd"     BY <1>2, FsdLabels DEF Phase
<1>3. CASE d = "rec"     BY <1>3, RecLabels DEF Phase
<1> QED BY <1>1, <1>2, <1>3 DEF Driver

LEMMA PhasesNext ==
  ASSUME NEW d \in Driver
  PROVE  /\ pc'[d] \in {"out", "in"} => Phase(d)' = pc'[d]
         /\ pc'[d] \in EntryLabel(d) => Phase(d)' = "entering"
         /\ pc'[d] \in UnwindLabel(d) => Phase(d)' = "unwinding"
<1>1. CASE d = "filter"  BY <1>1, FilterLabels DEF Phase
<1>2. CASE d = "fsd"     BY <1>2, FsdLabels DEF Phase
<1>3. CASE d = "rec"     BY <1>3, RecLabels DEF Phase
<1> QED BY <1>1, <1>2, <1>3 DEF Driver

\* What one driver does is a move of its own.
LEMMA OnlyMoves ==
  ASSUME NEW d \in Driver, Maps, Only(d), held'[d] \subseteq AssetOf(d)
  PROVE  Loads!Move(d, Phase(d), Phase(d)')
<1>1. \A e \in Driver \ {d} : Phase(e)' = Phase(e)
  BY DEF Only, Phase
<1>2. [e \in Driver |-> Phase(e)]' = [[e \in Driver |-> Phase(e)] EXCEPT ![d] = Phase(d)']
  BY <1>1
<1>3. held' = [held EXCEPT ![d] = held'[d]]
  BY DEF Only, Maps, IsMap
<1> QED BY <1>2, <1>3 DEF Loads!Move

LEMMA AdvanceIsStep ==
  ASSUME NEW d \in Driver, Maps, Only(d), Advance(d), held'[d] \subseteq AssetOf(d)
  PROVE  [Loads!Next]_Loads!vars
<1>1. Loads!Move(d, Phase(d), Phase(d)')
  BY OnlyMoves
<1> USE <1>1, Phases, PhasesNext
<1>2. CASE UNCHANGED <<pc[d], held[d]>>
  <2>1. Phase(d)' = Phase(d)
    BY <1>2 DEF Phase
  <2>2. UNCHANGED <<[e \in Driver |-> Phase(e)], held>>
    BY <1>1, <1>2, <2>1 DEF Loads!Move, Maps, IsMap
  <2> QED BY <2>2 DEF Loads!vars
<1>3. CASE pc[d] = "out" /\ pc'[d] \in EntryLabel(d)
  <2>1. Loads!Enter(d)
    BY <1>3 DEF Loads!Enter
  <2> QED BY <2>1 DEF Loads!Next
<1>4. CASE pc[d] \in EntryLabel(d) /\ pc'[d] \in EntryLabel(d) \cup UnwindLabel(d) /\ held[d] \subseteq held'[d]
  <2>1. Loads!SetUp(d) \/ Loads!Break(d)
    BY <1>4 DEF Loads!SetUp, Loads!Break
  <2> QED BY <2>1 DEF Loads!Next
<1>5. CASE pc[d] \in EntryLabel(d) /\ pc'[d] = "in" /\ held'[d] = AssetOf(d)
  <2>1. Loads!Succeed(d)
    BY <1>5 DEF Loads!Succeed
  <2> QED BY <2>1 DEF Loads!Next
<1>6. CASE pc[d] \in UnwindLabel(d) /\ pc'[d] \in UnwindLabel(d) /\ held'[d] \subseteq held[d]
  <2>1. Loads!Undo(d)
    BY <1>6 DEF Loads!Undo
  <2> QED BY <2>1 DEF Loads!Next
<1>7. CASE pc[d] \in UnwindLabel(d) \cup {"in"} /\ pc'[d] = "out" /\ held'[d] = {}
  <2>1. Loads!Fail(d) \/ Loads!Unload(d)
    BY <1>7 DEF Loads!Fail, Loads!Unload
  <2> QED BY <2>1 DEF Loads!Next
<1>8. CASE pc[d] = "in" /\ pc'[d] = "in" /\ held'[d] \subseteq held[d]
  <2>1. Loads!GiveUp(d)
    BY <1>8 DEF Loads!GiveUp
  <2> QED BY <2>1 DEF Loads!Next
<1> QED BY <1>2, <1>3, <1>4, <1>5, <1>6, <1>7, <1>8 DEF Advance

LEMMA StepRefines ==
  ASSUME DriversInv, DriversInv', [Next]_vars
  PROVE  [Loads!Next]_Loads!vars
<1>1. Maps /\ \A d \in Driver : held'[d] \subseteq AssetOf(d)
  <2>1. TypeOK'
    BY InvTypeOK, PTL
  <2> QED BY <2>1 DEF DriversInv, TypeOK
<1>2. ASSUME UNCHANGED <<pc, held>> PROVE UNCHANGED Loads!vars
  BY <1>2 DEF Loads!vars, Phase
<1>3. CASE FilterEnter \/ FilterStep
  BY <1>1, <1>3, FilterLabels, FilterSteps, AdvanceIsStep DEF DriversInv
<1>4. CASE FsdEnter \/ FsdStep
  BY <1>1, <1>4, FsdLabels, FsdSteps, AdvanceIsStep DEF DriversInv, FsdEnter
<1>5. CASE RecEnter \/ RecStep \/ SFsRecUnload
  BY <1>1, <1>5, RecLabels, RecSteps, AdvanceIsStep DEF DriversInv
<1>6. ASSUME NEW m \in Mount, StartMount(m) \/ MountStep(m)
      PROVE  [Loads!Next]_Loads!vars
  <2>1. CASE StartMount(m) \/ FsdHasNoFsControl(m) \/ MountAnswered(m) \/ FsControlMount(m)
    BY <1>2, <2>1 DEF StartMount, FsdHasNoFsControl, MountAnswered, FsControlMount, mountElse, entryVars
  <2>2. CASE FsControlLoad(m)
    <3>1. CASE FsdStart
      BY <1>1, <3>1, FsdLabels, FsdSteps, AdvanceIsStep DEF DriversInv
    <3> QED BY <1>2, <2>2, <3>1 DEF FsControlLoad, entryVars
  <2>3. CASE LoadReturned(m)
    <3>1. pc["rec"] = "in" /\ pc' = pc /\ data' = data
      BY <2>3 DEF LoadReturned, DriversInv, MountInv, InRecognizer
    <3>2. held' = held \/ held' = [held EXCEPT !["rec"] = @ \ {"registration"}]
      BY <2>3 DEF LoadReturned
    <3>3. Only("rec") /\ Advance("rec")
      BY <1>1, <3>1, <3>2, RecLabels DEF Maps, IsMap, Only, Advance
    <3> QED BY <1>1, <3>3, RecLabels, AdvanceIsStep
  <2> QED BY <1>6, <2>1, <2>2, <2>3 DEF MountStep
<1>7. CASE UNCHANGED vars
  BY <1>2, <1>7 DEF vars, entryVars
<1> QED BY <1>3, <1>4, <1>5, <1>6, <1>7 DEF Next

\* Whichever step of an entry routine fails, the driver has all it needs or nothing: the
\* three drivers' routines implement DriverLoad.
THEOREM EntriesImplement == Spec => EntriesAllOrNothing
<1>1. Init => Loads!Init
  <2> SUFFICES ASSUME Init PROVE Loads!Init
    OBVIOUS
  <2>1. \A d \in Driver : Phase(d) = "out"
    BY Phases DEF Init, IoInit
  <2> QED BY <2>1 DEF Loads!Init, Init, IoInit
<1>2. DriversInv /\ DriversInv' /\ [Next]_vars => [Loads!Next]_Loads!vars
  BY StepRefines
<1> QED BY <1>1, <1>2, InitInv, StepInv, PTL DEF Spec, EntriesAllOrNothing, Loads!Spec
=============================================================================
