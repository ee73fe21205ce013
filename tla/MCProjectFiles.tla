--------------------------- MODULE MCProjectFiles ----------------------------
(***************************************************************************)
(* Two source folders, one translation folder and one note; two handlers   *)
(* and a run's worker.                                                     *)
(***************************************************************************)
EXTENDS ProjectFiles, TLC

(* Handlers are alike, and so are windows. *)
Symmetry == Permutations(Handlers) \cup Permutations(Windows)
=============================================================================
