------------------------------ MODULE EntryList ------------------------------
(***************************************************************************)
(* What a loop of entries promises the code around it: it is a list.  What  *)
(* one writes is appended, what was written is what one reads once the loop *)
(* is closed, whatever is found good, and a list that was written is never  *)
(* turned away.                                                             *)
(***************************************************************************)
EXTENDS Integers, Sequences

CONSTANT Entries

VARIABLES
  list,  \* the entries
  phase  \* "none": there is no loop; "open"; "closed": it has its length

vars == <<list, phase>>

Init == list = <<>> /\ phase = "none"

Begin == phase = "none" /\ phase' = "open" /\ UNCHANGED list

Add ==
  /\ phase # "none" /\ UNCHANGED phase
  /\ list' \in Seq(Entries) /\ Len(list') = Len(list) + 1
  /\ SubSeq(list', 1, Len(list)) = list

Finish == phase = "open" /\ phase' = "closed" /\ UNCHANGED list

(* A loop that comes from elsewhere, found good. *)
Accept == phase = "none" /\ phase' = "closed" /\ list' \in Seq(Entries)

Next == Begin \/ Add \/ Finish \/ Accept

Spec == Init /\ [][Next]_vars
=============================================================================
