----------------------------- MODULE Allocator -----------------------------
(***************************************************************************)
(* What the allocation routines of the sample FSD promise their callers,   *)
(* whatever the memory comes from: a structure that is handed out is not   *)
(* in use, for any purpose, and it stays with its user until it is given   *)
(* back.                                                                   *)
(***************************************************************************)
EXTENDS Naturals

CONSTANTS Kinds, Memory

VARIABLE users   \* how many users each structure has, as a structure of which kind

Init == users = [k \in Kinds |-> [m \in Memory |-> 0]]

Allocate(k, m) ==
  /\ \A j \in Kinds : users[j][m] = 0
  /\ users' = [users EXCEPT ![k][m] = 1]

Release(k, m) ==
  /\ users[k][m] = 1
  /\ users' = [users EXCEPT ![k][m] = 0]

Next == \E k \in Kinds, m \in Memory : Allocate(k, m) \/ Release(k, m)

Spec == Init /\ [][Next]_users
=============================================================================
