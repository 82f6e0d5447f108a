---------------------------- MODULE MCUpgradeLock ----------------------------
(* UpgradeLock for TLC.  Processes are alike, except the anonymous ones. *)
EXTENDS UpgradeLock

CONSTANTS p1, p2, p3

ThreeProcs == {p1, p2, p3}
None == {}
=============================================================================
