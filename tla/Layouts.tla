------------------------------- MODULE Layouts -------------------------------
(***************************************************************************)
(* The structures of the header files as records of independent fields.      *)
(*                                                                           *)
(* A program builds a structure in a buffer whose content is unknown (the    *)
(* library allocates nothing and clears nothing): it calls X_init when there *)
(* is one, then the setters in an order of its own, each as often as it      *)
(* likes.  Or it receives one, has X_validate look at the length it          *)
(* declares, and then reads it with the getters and patches it with the      *)
(* setters.  Setters share bytes: every one of them must keep what its       *)
(* neighbours stored, whatever came before.                                  *)
(***************************************************************************)
EXTENDS Structures

CONSTANTS Described,  \* the structures: a set of pairs <<name, structure>>
          MaxCalls    \* setter calls in one life of a buffer

ASSUME MaxCallsAssumption == MaxCalls \in Nat
VARIABLES kind,     \* the structure in the buffer, one of Described
          stage,    \* "raw", "built" by X_init, or "received"
          mem,      \* the bits of the buffer
          written,  \* the fields whose setter has been called
          kept,     \* those of them no other setter rewrote on purpose since
          calls,    \* setter calls so far
          declared  \* the length a received structure declares

vars == <<kind, stage, mem, written, kept, calls, declared>>

(* kind is a pair <<name, structure>>.                                        *)
Layout == kind[2]
Fields == Layout.fields

Blank == [p \in 0 .. 8 * Layout.bytes - 1 |-> Old]
Initialised ==
  LET init == Layout.init
  IN  [p \in DOMAIN Blank |->
         IF <<p, One>> \in init THEN One ELSE IF <<p, Zero>> \in init THEN Zero ELSE Old]

(* The buffer before the first setter.                                       *)
Start == IF stage = "built" THEN Initialised ELSE Blank

Init ==
  /\ kind \in Described
  /\ stage = "raw"
  /\ mem = Blank
  /\ written = {}
  /\ kept = {}
  /\ calls = 0
  /\ declared = 0

(* X_init(p)                                                                 *)
Initialise ==
  /\ stage = "raw"
  /\ Layout.init # {}
  /\ stage' = "built"
  /\ mem' = Initialised
  /\ UNCHANGED <<kind, written, kept, calls, declared>>

(* X_validate(p) returns true.  The shortest length it lets through is the   *)
(* worst one for the getters that follow.                                    *)
Receive ==
  /\ stage = "raw"
  /\ calls = 0
  /\ \E rule \in Layout.accepts : declared' = rule.least
  /\ stage' = "received"
  /\ UNCHANGED <<kind, mem, written, kept, calls>>

(* X_set_f(p, value)                                                         *)
Set(f) ==
  /\ Footprint(f) # {}
  /\ mem' = Write(f, mem)
  /\ written' = written \cup {f.name} \cup f.rewrites
  /\ kept' = (kept \cup {f.name}) \ f.rewrites

(* A program that has an initialiser uses it before it calls a setter.        *)
Call(f) ==
  /\ calls < MaxCalls
  /\ stage = "raw" => Layout.init = {}
  /\ Set(f)
  /\ calls' = calls + 1
  /\ UNCHANGED <<kind, stage, declared>>

Next == Initialise \/ Receive \/ \E f \in Fields : Call(f)

Spec == Init /\ [][Next]_vars

-----------------------------------------------------------------------------
(* Properties                                                                *)

(* No setter writes outside the size the header gives for its structure, and *)
(* a buffer bit is a constant, a leftover or a bit of some field's value.    *)
TypeOK ==
  /\ kind \in Described
  /\ stage \in {"raw", "built", "received"}
  /\ DOMAIN mem = 0 .. 8 * Layout.bytes - 1
  /\ \A p \in DOMAIN mem :
       mem[p] \notin {Zero, One, Old, Mixed} =>
         \E f \in Fields : p \in DOMAIN f.put /\ mem[p] = Bit(f.name, f.put[p])
  /\ written \subseteq {f.name : f \in Fields}
  /\ kept \subseteq written
  /\ calls \in 0 .. MaxCalls
  /\ declared = 0 \/ \E rule \in Layout.accepts : Accepts(rule, declared)

(* A structure behaves like a record: whatever setters ran, in whatever      *)
(* order, a getter returns what its own setter stored last, and a field      *)
(* nobody set still reads as X_init, or the sender, left it.                 *)
ActsAsRecord ==
  \A f \in {g \in Fields : g.name \notin Layout.fragile} :
    /\ f.name \in kept => Read(f, mem) = Asked(f)
    /\ f.name \notin written => Read(f, mem) = Read(f, Start)

(* What is left of the buffer's old content in a structure being built       *)
(* belongs to a field whose setter is still to come: once the caller has set *)
(* every field, nothing undefined goes out, the open bits apart.             *)
NothingStale ==
  stage # "received" =>
    \A p \in DOMAIN mem :
      mem[p] = Old => \/ p \in Layout.open
                      \/ stage = "raw" /\ Layout.init # {}
                      \/ \E f \in Fields : p \in Footprint(f) /\ f.name \notin kept

(* A structure X_init has just made declares a length X_validate accepts.    *)
Number(bits) ==
  LET value[k \in 0 .. Len(bits)] ==
        IF k = 0 THEN 0 ELSE 2 * value[k - 1] + (IF mem[bits[k]] = One THEN 1 ELSE 0)
  IN  value[Len(bits)]

FreshIsAccepted ==
  LET bits == Layout.length
  IN  /\ stage = "built" /\ written = {}
      /\ bits # <<>> /\ \A k \in DOMAIN bits : mem[bits[k]] # Old
      => \A rule \in Layout.accepts : Accepts(rule, Number(bits))

(* Every getter of a structure X_validate let through reads inside what the  *)
(* structure declares, those apart whose presence the reader must test.  The *)
(* print functions rely on it: they call X_validate, then every getter.      *)
AcceptedIsReadable ==
  stage = "received" =>
    \A f \in {g \in Fields : g.name \notin Layout.further} :
      \A p \in Sources(f) : p < 8 * (Layout.head + declared)

(* The three parties to the length of a structure agree on it: what X_init   *)
(* declares, what X_validate asks for, and what the getters read.            *)
LengthsAgree == FreshIsAccepted /\ AcceptedIsReadable

(* The table of the structure satisfies the condition under which the three  *)
(* first properties hold for every number of calls (LayoutProofs).           *)
KindIsWellMade == WellMade(Layout)

=============================================================================
