----------------------------- MODULE MCBuildLock -----------------------------
(* Small instances of BuildLock for TLC: the processes are model values. *)
EXTENDS BuildLock

CONSTANTS p1, p2, p3
=============================================================================
