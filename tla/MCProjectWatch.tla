---------------------------- MODULE MCProjectWatch ---------------------------
EXTENDS ProjectWatch, TLC

Symmetry == Permutations(Watches) \cup Permutations(Files) \cup Permutations(Scanners)
=============================================================================
