---------------------------- MODULE FileDelivery ----------------------------
(***************************************************************************)
(* What process_files_stream promises the loop that writes the output: it  *)
(* hands over every file once, when all of its batches are in, with those  *)
(* batches and no others, in the order of the file, marked failed if a     *)
(* batch could not be translated.                                          *)
(***************************************************************************)
EXTENDS Naturals, Sequences

CONSTANT Size   \* file -> number of its batches; the files are 1..Len(Size)

VARIABLES
  owed,   \* the files it owes: none if the caller's files share names
  out     \* what was handed over, in order

Files    == DOMAIN Size
Whole(f) == [i \in 1..Size[f] |-> <<f, i>>]
Handed   == {out[k].file : k \in DOMAIN out}

Init == owed \in {Files, {}} /\ out = <<>>

Deliver(f, failed) ==
  /\ f \in owed \ Handed
  /\ failed => Size[f] > 0
  /\ out' = Append(out, [file |-> f, parts |-> Whole(f), failed |-> failed])
  /\ UNCHANGED owed

Next == \E f \in Files, failed \in BOOLEAN : Deliver(f, failed)

Safety == Init /\ [][Next]_<<owed, out>>

(* Every file that is owed is handed over in the end.                      *)
Spec == Safety /\ WF_<<owed, out>>(Next)
=============================================================================
