---------------------------- MODULE MCModelArena ----------------------------
(* Instances of ModelArena for TLC.                                        *)
EXTENDS ModelArena
=============================================================================
