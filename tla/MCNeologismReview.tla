-------------------------- MODULE MCNeologismReview --------------------------
(* Instances of NeologismReview for TLC.                                   *)
EXTENDS NeologismReview, TLC

Alike == Permutations(Terms) \cup Permutations(Requests)
=============================================================================
