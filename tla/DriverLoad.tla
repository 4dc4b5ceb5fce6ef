----------------------------- MODULE DriverLoad -----------------------------
(***************************************************************************)
(* What the entry routines of drivers promise to the rest of the system: a *)
(* load succeeds with everything the driver needs set up, or it fails and  *)
(* leaves nothing behind.                                                  *)
(***************************************************************************)
CONSTANTS
  Driver,
  Asset     \* what each has when it is loaded: memory, names, devices, registrations

VARIABLES
  phase,  \* of each driver: "out", "entering", "unwinding" or "in"
  held    \* the assets of each that exist

vars == <<phase, held>>

Init == phase = [d \in Driver |-> "out"] /\ held = [d \in Driver |-> {}]

\* Driver d goes from one phase to another; the others stay as they are.
Move(d, from, to) ==
  /\ phase[d] = from
  /\ phase' = [phase EXCEPT ![d] = to]
  /\ held' = [held EXCEPT ![d] = held'[d]]
  /\ held'[d] \subseteq Asset[d]

Enter(d)   == Move(d, "out", "entering")
SetUp(d)   == Move(d, "entering", "entering") /\ held[d] \subseteq held'[d]
Succeed(d) == Move(d, "entering", "in") /\ held'[d] = Asset[d]
Break(d)   == Move(d, "entering", "unwinding") /\ held[d] \subseteq held'[d]
Undo(d)    == Move(d, "unwinding", "unwinding") /\ held'[d] \subseteq held[d]
Fail(d)    == Move(d, "unwinding", "out") /\ held'[d] = {}

\* A loaded driver may give up what it no longer needs, and is unloaded as a whole.
GiveUp(d)  == Move(d, "in", "in") /\ held'[d] \subseteq held[d]
Unload(d)  == Move(d, "in", "out") /\ held'[d] = {}

Next ==
  \E d \in Driver :
    Enter(d) \/ SetUp(d) \/ Succeed(d) \/ Break(d) \/ Undo(d) \/ Fail(d) \/ GiveUp(d) \/ Unload(d)

Spec == Init /\ [][Next]_vars
=============================================================================
