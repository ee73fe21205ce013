------------------------- MODULE MCIncrementalUpdate ------------------------
EXTENDS IncrementalUpdate, TLC

(* Two files of one entry each.                                            *)
OneEach == [e \in Entries |-> e]
OwnName == <<"first", "second">>
OwnKey  == [e \in Entries |-> e]

(* Texts and languages are only compared.                                  *)
Alternatives == Permutations(Texts) \cup Permutations(Langs)

=============================================================================
