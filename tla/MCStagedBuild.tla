---------------------------- MODULE MCStagedBuild ----------------------------
(* Small instances of StagedBuild for TLC. *)
EXTENDS StagedBuild, TLC

CONSTANTS p1, p2, c1, c2

OwnCases == p1 :> c1 @@ p2 :> c2
OneCase == p1 :> c1 @@ p2 :> c1
=============================================================================
