------------------------------ MODULE PsiTable ------------------------------
(***************************************************************************)
(* Gathering of the sections of one PSI table, as src/mpeg/psi/psi.h and   *)
(* the table handlers of src/examples/dvb_print_si.c do it.                *)
(*                                                                         *)
(* A table handler keeps two arrays of PSI_TABLE_MAX_SECTIONS pointers:    *)
(* next, filled by psi_table_section one section at a time, and current,   *)
(* the table in force.  When next is whole it is compared with current     *)
(* (an identical table is dropped), validated, and then switched in.  The  *)
(* two loops over the sections use a uint8_t counter, so they are modelled *)
(* one iteration at a time.                                                *)
(*                                                                         *)
(* The handlers of the CAT, TSDT, NIT, SDT, AIT and of each bouquet's BAT  *)
(* have this shape, and so has the part of handle_pat before the programs  *)
(* are walked.                                                             *)
(***************************************************************************)
EXTENDS Integers, FiniteSets

CONSTANTS
  MaxSections, \* PSI_TABLE_MAX_SECTIONS: slots of a table
  Width,       \* 2^8: the loop counters are uint8_t
  MaxLast,     \* largest last_section_number that is received
  Versions,    \* version_number values
  Exts,        \* table_id_extension values
  Keys,        \* what the entries of a section are about (a TS, a service)
  Corrupt,     \* the body of a section whose CRC does not match
  NULL         \* an empty slot

ASSUME SizesAssumption ==
  /\ MaxSections \in Nat \ {0}
  /\ Width \in Nat \ {0}
  /\ MaxLast \in Nat
  /\ MaxLast < MaxSections

Idx == 0 .. MaxSections - 1

(***************************************************************************)
(* A section, after psi_validate and the table's own section validation.   *)
(* Its content is abstracted to body: the key its entries carry, or        *)
(* Corrupt.  A section number above last_section_number is legal input:    *)
(* nothing rejects it.                                                     *)
(***************************************************************************)
Section == [num  : Idx, last : 0 .. MaxLast, ver : Versions, ext : Exts,
            body : Keys \cup {Corrupt}]

ASSUME NullAssumption == NULL \notin Section

Table == [Idx -> Section \cup {NULL}]

VARIABLES
  next,    \* pp_next_xxx_sections
  current, \* pp_current_xxx_sections
  pc,      \* where the handler is: idle (waiting for a section), compare, validate
  idx,     \* the uint8_t loop counter
  live     \* sections allocated and not freed (malloc minus free)

vars == <<next, current, pc, idx, live>>

(* psi_table_init: no section. *)
EmptyTable == [i \in Idx |-> NULL]

(* psi_table_validate: only slot 0 is looked at. *)
TableValid(t) == t[0] # NULL

(* How many blocks free() gives back over the slots S of t (free(NULL) is  *)
(* a no-op).                                                               *)
Blocks(t, S) == Cardinality({i \in S : t[i] # NULL})

(***************************************************************************)
(* psi_table_section: the section is stored in the slot of its number      *)
(* whatever its last_section_number, and the table is whole when slots 0   *)
(* to last_section_number all hold sections of the same last section,      *)
(* version and extension as the one just stored.                           *)
(***************************************************************************)
Stored(t, s) == [t EXCEPT ![s.num] = s]

SameTable(p, s) == p.last = s.last /\ p.ver = s.ver /\ p.ext = s.ext

(* Slip: a section counts whatever its version. *)
CompleteAnyVersion(t, s) ==
  \A i \in 0 .. s.last : t[i] # NULL /\ t[i].last = s.last /\ t[i].ext = s.ext

(* Slip: only a table's last section makes it whole. *)
CompleteAtLast(t, s) ==
  s.num = s.last /\ \A i \in 0 .. s.last : t[i] # NULL /\ SameTable(t[i], s)

Complete(t, s) == \A i \in 0 .. s.last : t[i] # NULL /\ SameTable(t[i], s)

Trimmed(t, s) == [i \in Idx |-> IF i <= s.last THEN t[i] ELSE NULL]

Spurious(s) == {i \in Idx : i > s.last}

(* One section of a whole table passes xxx_table_validate: its CRC is good *)
(* and no earlier section already has the same key.                        *)
SectionOk(t, i) ==
  /\ t[i].body # Corrupt
  /\ \A j \in 0 .. i - 1 : t[j].body # t[i].body

-----------------------------------------------------------------------------

Init ==
  /\ next = EmptyTable
  /\ current = EmptyTable
  /\ pc = "idle"
  /\ idx = 0
  /\ live = 0

(* A section that leaves the next table partial: psi_table_section returns *)
(* false and the handler waits for more.                                   *)
ReceivePartial(s) ==
  /\ pc = "idle"
  /\ ~ Complete(Stored(next, s), s)
  /\ next' = Stored(next, s)
  /\ live' = live + 1 - Blocks(next, {s.num})
  /\ UNCHANGED <<current, pc, idx>>

(* Slip: the comparison with the current table is forgotten. *)
ReceiveUncompared(s) ==
  /\ pc = "idle"
  /\ Complete(Stored(next, s), s)
  /\ next' = Trimmed(Stored(next, s), s)
  /\ live' = live + 1 - Blocks(next, {s.num}) - Blocks(Stored(next, s), Spurious(s))
  /\ pc' = "validate"
  /\ idx' = 0
  /\ UNCHANGED current

(* A section that makes the next table whole: the slots beyond its last    *)
(* section are freed, and the handler starts comparing if there is a       *)
(* current table with the same number of sections.                         *)
ReceiveWhole(s) ==
  /\ pc = "idle"
  /\ Complete(Stored(next, s), s)
  /\ next' = Trimmed(Stored(next, s), s)
  /\ live' = live + 1 - Blocks(next, {s.num}) - Blocks(Stored(next, s), Spurious(s))
  /\ pc' = IF TableValid(current) /\ current[0].last = s.last
             THEN "compare" ELSE "validate"
  /\ idx' = 0
  /\ UNCHANGED current

Receive == \E s \in Section : ReceivePartial(s) \/ ReceiveWhole(s)

(* psi_table_free and psi_table_init of the next table. *)
DropNext ==
  /\ next' = EmptyTable
  /\ live' = live - Blocks(next, Idx)
  /\ pc' = "idle"
  /\ UNCHANGED <<current, idx>>

(* psi_table_compare found a section that differs (psi_compare). *)
CompareDiffers ==
  /\ pc = "compare"
  /\ idx <= current[0].last
  /\ current[idx] # next[idx]
  /\ pc' = "validate"
  /\ idx' = 0
  /\ UNCHANGED <<next, current, live>>

CompareNext ==
  /\ pc = "compare"
  /\ idx <= current[0].last
  /\ current[idx] = next[idx]
  /\ idx' = (idx + 1) % Width
  /\ UNCHANGED <<next, current, pc, live>>

(* Every section compared equal: the shortcut of the handlers. *)
DropIdentical ==
  /\ pc = "compare"
  /\ idx > current[0].last
  /\ DropNext

(* Slip: the counter is not moved past a section that was found good. *)
ValidateStuck ==
  /\ pc = "validate"
  /\ idx <= next[0].last
  /\ SectionOk(next, idx)
  /\ UNCHANGED vars

ValidateNext ==
  /\ pc = "validate"
  /\ idx <= next[0].last
  /\ SectionOk(next, idx)
  /\ idx' = (idx + 1) % Width
  /\ UNCHANGED <<next, current, pc, live>>

DropInvalid ==
  /\ pc = "validate"
  /\ idx <= next[0].last
  /\ ~ SectionOk(next, idx)
  /\ DropNext

(* Slip: the sections of the old table are not freed. *)
SwitchLeaking ==
  /\ pc = "validate"
  /\ idx > next[0].last
  /\ current' = next
  /\ next' = EmptyTable
  /\ pc' = "idle"
  /\ UNCHANGED <<idx, live>>

(* "Switch tables.": the old sections are freed, the new ones are current. *)
Switch ==
  /\ pc = "validate"
  /\ idx > next[0].last
  /\ current' = next
  /\ next' = EmptyTable
  /\ live' = live - Blocks(current, Idx)
  /\ pc' = "idle"
  /\ UNCHANGED idx

Handle ==
  \/ CompareDiffers \/ CompareNext \/ DropIdentical
  \/ ValidateNext \/ DropInvalid \/ Switch

Next == Receive \/ Handle

Spec == Init /\ [][Next]_vars

(* The handler is one thread: once it has a whole table it runs on. *)
FairSpec == Spec /\ WF_vars(Handle)

-----------------------------------------------------------------------------

TypeOK ==
  /\ next \in Table
  /\ current \in Table
  /\ pc \in {"idle", "compare", "validate"}
  /\ idx \in 0 .. Width - 1
  /\ live \in Int

(* Slots 0 to last of t hold, each in its place, sections of one and the   *)
(* same version, extension and last section, and no other slot is in use.  *)
Whole(t) ==
  /\ t[0] # NULL
  /\ \A i \in Idx :
       IF i <= t[0].last
         THEN t[i] # NULL /\ t[i].num = i /\ SameTable(t[i], t[0])
         ELSE t[i] = NULL

(* The table in force is never a patchwork: it is absent, or whole (one    *)
(* version, one extension, no hole, no leftover of a longer table) and it  *)
(* passed validation (handle_nit and the other "Switch tables." handlers). *)
CurrentWhole ==
  \/ current = EmptyTable
  \/ Whole(current) /\ \A i \in 0 .. current[0].last : SectionOk(current, i)

(* Between two sections the next table never already holds a whole table:  *)
(* psi_table_section only checks for the table of the section it stores,   *)
(* so a whole table left there would be missed.                            *)
NextPartial ==
  pc = "idle" => \A i \in Idx : next[i] # NULL => ~ Complete(next, next[i])

(* The inductive invariant behind the two properties above: every section  *)
(* of next sits in the slot of its number, and while the handler runs next *)
(* is whole, its first idx sections are validated, a comparison is made    *)
(* with a table of the same length, and only news gets to validation.      *)
HandlerInv ==
  /\ \A i \in Idx : next[i] # NULL => next[i].num = i
  /\ pc # "idle" => Whole(next)
  /\ pc = "compare" => TableValid(current) /\ current[0].last = next[0].last
  /\ pc = "validate" => /\ current # next
                        /\ \A i \in Idx : i < idx => SectionOk(next, i)

(* No section is leaked, and none is freed twice: what is allocated is     *)
(* exactly what the two tables own (psi_table_section, psi_table_free,     *)
(* psi_table_copy and psi_table_init in the handlers).                     *)
NoLeak == live = Blocks(next, Idx) + Blocks(current, Idx)

(* A table is switched in (and reported) only when it differs from the one *)
(* in force: repetitions of a carousel take the "Identical" shortcut.      *)
SwitchIsNews == [][Switch => current' # current]_vars

(* The handler always gets back to reading packets: the loops of           *)
(* psi_table_compare and xxx_table_validate end.                           *)
HandlerReturns == pc # "idle" ~> pc = "idle"
=============================================================================
