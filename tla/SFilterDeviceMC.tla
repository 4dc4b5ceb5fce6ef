-------------------------- MODULE SFilterDeviceMC --------------------------
(***************************************************************************)
(* Small instances of SFilterDevice for TLC: one file system driver, one   *)
(* volume, a few requests.  No symmetry is used, since the runs check      *)
(* liveness, too.                                                          *)
(***************************************************************************)
EXTENDS SFilterDevice

\* Every way a request can come to a filter device.
EveryKind == {"default", "open", "fsctrl", "mount"}
=============================================================================
