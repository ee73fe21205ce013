-------------------------- MODULE MCProgressReports --------------------------
(* Instances of ProgressReports for TLC.                                   *)
EXTENDS ProgressReports, TLC

CONSTANTS r1, r2, w1
PoolOf  == w1 :> r1
LimitOf == r1 :> 12 @@ r2 :> 0
=============================================================================
