--------------------------- MODULE MCBatchStream ---------------------------
(* Instances of BatchStream for TLC: file sizes and base names.            *)
EXTENDS BatchStream

SizeMixed == <<2, 0, 1, 1>>
OwnNames  == <<"a", "b", "c", "d">>

(* Two folders hold a file of the same name.                               *)
SharedName == <<"a", "b", "a", "c">>

NamingsAll == {OwnNames, SharedName}
=============================================================================
