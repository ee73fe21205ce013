-------------------------- MODULE MCWorkshopAssets ---------------------------
(* Two workspaces and two requests that meet at their versions.            *)
EXTENDS WorkshopAssets, TLC

Symmetry == Permutations(Spaces) \cup Permutations(Requests)
=============================================================================
