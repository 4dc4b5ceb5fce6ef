------------------------------- MODULE Rundown -------------------------------
(***************************************************************************)
(* What the filter driver keeps about each of its device objects: a gate   *)
(* that opens once and closes for good, and that requests enter only while *)
(* it is open, each to leave when it likes.  Some gates are shared with    *)
(* somebody who may lift a closed one once more.                           *)
(***************************************************************************)
CONSTANTS Gate, Shared, Guest

VARIABLES
  gate,    \* "shut", "open", "closed" or "reopened"
  inside   \* the guests that went in and have not come out

TypeOK ==
  /\ gate \in [Gate -> {"shut", "open", "closed", "reopened"}]
  /\ inside \in [Gate -> SUBSET Guest]

Init ==
  /\ gate = [g \in Gate |-> "shut"]
  /\ inside = [g \in Gate |-> {}]

Move(g, from, to) ==
  /\ gate[g] = from /\ gate' = [gate EXCEPT ![g] = to]
  /\ UNCHANGED inside

Open(g) == Move(g, "shut", "open")

Close(g) == Move(g, "open", "closed")

Reopen(g) == g \in Shared /\ Move(g, "closed", "reopened")

Enter(g, x) ==
  /\ gate[g] \in {"open", "reopened"} /\ x \notin inside[g]
  /\ inside' = [inside EXCEPT ![g] = @ \cup {x}]
  /\ UNCHANGED gate

Leave(g, x) ==
  /\ x \in inside[g]
  /\ inside' = [inside EXCEPT ![g] = @ \ {x}]
  /\ UNCHANGED gate

Next ==
  \E g \in Gate :
    \/ Open(g) \/ Close(g) \/ Reopen(g)
    \/ \E x \in Guest : Enter(g, x) \/ Leave(g, x)

Spec == Init /\ [][Next]_<<gate, inside>>
=============================================================================
