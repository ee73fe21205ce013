---------------------------- MODULE MCWorkshopRun ----------------------------
EXTENDS WorkshopRun

(* Two issues of one file and one of another.                              *)
TwoFiles == [i \in Issues |-> IF i < 3 THEN "f" ELSE "g"]

=============================================================================
