-------------------------- MODULE SFilterFastIoMC ---------------------------
(***************************************************************************)
(* Two callers for TLC: one does anything, the other competes with it for  *)
(* what is held exclusively.                                               *)
(***************************************************************************)
EXTENDS SFilterFastIo

CONSTANTS c1, c2

Callers == {c1, c2}

Uses(i) == IF i = c1 THEN Use ELSE {u \in Use : u.take = SFilterFastIoAcqCreateSec}
=============================================================================
