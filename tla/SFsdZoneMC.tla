----------------------------- MODULE SFsdZoneMC -----------------------------
(* Values for checking SFsdZone with TLC. *)
EXTENDS SFsdZone, TLC

ThreadSymmetry == Permutations(Thread)
=============================================================================
