----------------------------- MODULE SectionPipe -----------------------------
(***************************************************************************)
(* What the transport of PSI sections promises, whatever the packets: a    *)
(* lossy pipe of whole sections.  Sections enter in order; what comes out  *)
(* is a subsequence of them, each one whole, in the same order, and at     *)
(* most once.                                                              *)
(***************************************************************************)
EXTENDS Naturals, Sequences

CONSTANT N     \* how many sections are sent

VARIABLES
  content, \* the bytes of each section
  entered, \* how many sections have entered the pipe
  leftAs,  \* the number of the last section that came out, 0 before any
  out      \* the bytes that came out, section by section

vars == <<content, entered, leftAs, out>>

Init == DOMAIN content = 1 .. N /\ entered = 0 /\ leftAs = 0 /\ out = <<>>

Enter ==
  /\ entered < N
  /\ entered' = entered + 1
  /\ UNCHANGED <<content, leftAs, out>>

(* Sections leftAs + 1 .. k - 1 are lost, section k comes out. *)
Leave(k) ==
  /\ leftAs' = k
  /\ out' = Append(out, content[k])
  /\ UNCHANGED <<content, entered>>

Next == Enter \/ \E k \in leftAs + 1 .. entered : Leave(k)

Spec == Init /\ [][Next]_vars
=============================================================================
