--------------------------- MODULE PsiTableProofs ---------------------------
(***************************************************************************)
(* Proofs about PsiTable, for every number of slots, every counter width   *)
(* and every set of versions, extensions and keys.                         *)
(***************************************************************************)
EXTENDS PsiTable, FiniteSetTheorems, TLAPS

(* SameTable is symmetric and transitive. *)
LEMMA SameTableEquiv ==
  ASSUME NEW p \in Section, NEW q \in Section, NEW r \in Section,
         SameTable(p, q), SameTable(q, r)
  PROVE  SameTable(q, p) /\ SameTable(p, r)
BY DEF SameTable

(* The fields of a section have the types of its domain. *)
LEMMA SectionFields ==
  ASSUME NEW s \in Section
  PROVE  /\ s.num \in Idx
         /\ s.last \in 0 .. MaxLast
         /\ 0 .. s.last \subseteq Idx
         /\ 0 \in 0 .. s.last
BY SizesAssumption DEF Section, Idx

(* Storing and trimming keep the type of a table. *)
LEMMA TableTypes ==
  ASSUME NEW t \in Table, NEW s \in Section
  PROVE  Stored(t, s) \in Table /\ Trimmed(t, s) \in Table /\ EmptyTable \in Table
BY SectionFields DEF Stored, Trimmed, EmptyTable, Table

(* A count of blocks is a natural number. *)
LEMMA BlocksType ==
  ASSUME NEW t \in Table, NEW S \in SUBSET Idx
  PROVE  /\ IsFiniteSet({i \in S : t[i] # NULL})
         /\ Blocks(t, S) \in Nat
<1>1. IsFiniteSet(Idx)
  BY FS_Interval, SizesAssumption DEF Idx
<1>2. {i \in S : t[i] # NULL} \in SUBSET Idx
  OBVIOUS
<1>3. IsFiniteSet({i \in S : t[i] # NULL})
  BY <1>1, <1>2, FS_Subset
<1>4. QED
  BY <1>3, FS_CardinalityType DEF Blocks

-----------------------------------------------------------------------------

(* Type correctness: the handler keeps its arrays, program counter, loop   *)
(* counter and allocation count in their types.                            *)
THEOREM TypeCorrect == Spec => []TypeOK
<1> USE SizesAssumption
<1>1. Init => TypeOK
  BY DEF Init, TypeOK, EmptyTable, Table, Idx
<1>2. TypeOK /\ [Next]_vars => TypeOK'
  <2> SUFFICES ASSUME TypeOK, [Next]_vars
               PROVE  TypeOK'
    OBVIOUS
  <2>1. ASSUME NEW s \in Section, ReceivePartial(s)
        PROVE  TypeOK'
    <3>1. Stored(next, s) \in Table
      BY TableTypes DEF TypeOK
    <3>2. Blocks(next, {s.num}) \in Nat
      BY BlocksType, SectionFields DEF TypeOK
    <3> QED
      BY <2>1, <3>1, <3>2 DEF TypeOK, ReceivePartial
  <2>2. ASSUME NEW s \in Section, ReceiveWhole(s)
        PROVE  TypeOK'
    <3>1. Stored(next, s) \in Table
      BY TableTypes DEF TypeOK
    <3>2. Trimmed(Stored(next, s), s) \in Table
      BY <3>1, TableTypes
    <3>3. Blocks(next, {s.num}) \in Nat /\ Blocks(Stored(next, s), Spurious(s)) \in Nat
      BY <3>1, BlocksType, SectionFields DEF TypeOK, Spurious
    <3> QED
      BY <2>2, <3>2, <3>3 DEF TypeOK, ReceiveWhole
  <2>3. ASSUME DropNext
        PROVE  TypeOK'
    <3>1. Blocks(next, Idx) \in Nat
      BY BlocksType DEF TypeOK
    <3>2. EmptyTable \in Table
      BY DEF EmptyTable, Table
    <3> QED
      BY <2>3, <3>1, <3>2 DEF TypeOK, DropNext
  <2>4. CASE CompareDiffers
    BY <2>4 DEF TypeOK, CompareDiffers
  <2>5. CASE CompareNext
    BY <2>5 DEF TypeOK, CompareNext
  <2>6. CASE DropIdentical
    BY <2>3, <2>6 DEF DropIdentical
  <2>7. CASE ValidateNext
    BY <2>7 DEF TypeOK, ValidateNext
  <2>8. CASE DropInvalid
    BY <2>3, <2>8 DEF DropInvalid
  <2>9. CASE Switch
    <3>1. Blocks(current, Idx) \in Nat
      BY BlocksType DEF TypeOK
    <3>2. EmptyTable \in Table
      BY DEF EmptyTable, Table
    <3> QED
      BY <2>9, <3>1, <3>2 DEF TypeOK, Switch
  <2>10. CASE UNCHANGED vars
    BY <2>10 DEF TypeOK, vars
  <2> QED
    BY <2>1, <2>2, <2>4, <2>5, <2>6, <2>7, <2>8, <2>9, <2>10
       DEF Next, Receive, Handle
<1> QED
  BY <1>1, <1>2, PTL DEF Spec

-----------------------------------------------------------------------------

(* psi_table_section, when it says that the table is whole, leaves a whole *)
(* table: in place, of one version and extension, with nothing beyond.     *)
LEMMA TrimmedIsWhole ==
  ASSUME NEW t \in Table, NEW s \in Section,
         \A i \in Idx : t[i] # NULL => t[i].num = i,
         Complete(t, s)
  PROVE  Whole(Trimmed(t, s)) /\ Trimmed(t, s)[0].last = s.last
<1> DEFINE w == Trimmed(t, s)
<1>1. /\ 0 \in Idx /\ s.last \in Nat /\ 0 .. s.last \subseteq Idx
  BY SectionFields, SizesAssumption DEF Section, Idx
<1>2. \A i \in Idx : i <= s.last => w[i] = t[i] /\ t[i] # NULL /\ SameTable(t[i], s)
  BY <1>1 DEF Trimmed, Complete, Idx
<1>3. \A i \in Idx : ~(i <= s.last) => w[i] = NULL
  BY DEF Trimmed
<1>4. w[0] # NULL /\ SameTable(w[0], s) /\ w[0].last = s.last
  BY <1>1, <1>2 DEF SameTable
<1>5. ASSUME NEW i \in Idx, i <= s.last
      PROVE  w[i] # NULL /\ w[i].num = i /\ SameTable(w[i], w[0])
  BY <1>2, <1>4, <1>5 DEF SameTable
<1> QED
  BY <1>3, <1>4, <1>5 DEF Whole

(* Storing a section that completes nothing leaves a partial table: the    *)
(* only table that can become whole is that of the section stored.         *)
LEMMA StoredIsPartial ==
  ASSUME NEW t \in Table, NEW s \in Section,
         \A i \in Idx : t[i] # NULL => ~ Complete(t, t[i]),
         ~ Complete(Stored(t, s), s)
  PROVE  \A i \in Idx : Stored(t, s)[i] # NULL
                          => ~ Complete(Stored(t, s), Stored(t, s)[i])
<1> DEFINE u == Stored(t, s)
<1> SUFFICES ASSUME NEW i \in Idx, u[i] # NULL, Complete(u, u[i])
             PROVE  FALSE
  OBVIOUS
<1>1. u \in Table /\ u[s.num] = s /\ \A j \in Idx : j # s.num => u[j] = t[j]
  BY TableTypes, SectionFields DEF Stored, Table
<1>2. u[i] \in Section
  BY <1>1 DEF Table
<1>3. 0 .. u[i].last \subseteq Idx
  BY <1>2, SectionFields
<1>4. ~ SameTable(u[i], s)
  BY DEF Complete, SameTable
<1>5. s.num \notin 0 .. u[i].last
  BY <1>1, <1>4 DEF Complete, SameTable
<1>6. i # s.num
  BY <1>1, <1>4 DEF SameTable
<1>7. u[i] = t[i]
  BY <1>1, <1>6
<1>8. \A j \in 0 .. u[i].last : u[j] = t[j]
  BY <1>1, <1>3, <1>5
<1>9. Complete(t, t[i])
  BY <1>7, <1>8 DEF Complete
<1> QED
  BY <1>7, <1>9

IInv == TypeOK /\ HandlerInv /\ CurrentWhole /\ NextPartial

(* The three facts that make IInv inductive, and what follows from it: the *)
(* table in force is never a patchwork of two tables, and next never hides *)
(* a whole one (psi_table_section with the switch of the table handlers).  *)
THEOREM TableSafety == Spec => []IInv
<1> USE SizesAssumption
<1>1. Init => IInv
  BY DEF Init, IInv, TypeOK, HandlerInv, CurrentWhole, NextPartial, EmptyTable,
         Table, Idx
<1>2. IInv /\ TypeOK' /\ [Next]_vars => IInv'
  <2> SUFFICES ASSUME IInv, TypeOK', [Next]_vars
               PROVE  HandlerInv' /\ CurrentWhole' /\ NextPartial'
    BY DEF IInv
  <2> USE DEF IInv
  <2>1. ASSUME NEW s \in Section, ReceivePartial(s)
        PROVE  HandlerInv' /\ CurrentWhole' /\ NextPartial'
    <3>1. HandlerInv'
      BY <2>1, SectionFields DEF ReceivePartial, HandlerInv, TypeOK, Stored, Table
    <3>2. CurrentWhole'
      BY <2>1 DEF ReceivePartial, CurrentWhole, EmptyTable
    <3>3. NextPartial'
      BY <2>1, StoredIsPartial DEF ReceivePartial, NextPartial, TypeOK
    <3> QED
      BY <3>1, <3>2, <3>3
  <2>2. ASSUME NEW s \in Section, ReceiveWhole(s)
        PROVE  HandlerInv' /\ CurrentWhole' /\ NextPartial'
    <3> DEFINE u == Stored(next, s)
    <3>1. u \in Table
      BY TableTypes DEF TypeOK
    <3>2. \A i \in Idx : u[i] # NULL => u[i].num = i
      BY SectionFields DEF HandlerInv, TypeOK, Stored, Table
    <3>3. Whole(next') /\ next'[0].last = s.last
      BY <2>2, <3>1, <3>2, TrimmedIsWhole DEF ReceiveWhole
    <3>4. \A i \in Idx : next'[i] # NULL => next'[i].num = i
      BY <2>2, <3>2 DEF ReceiveWhole, Trimmed
    <3>5. pc' \in {"compare", "validate"} /\ idx' = 0 /\ current' = current
      BY <2>2 DEF ReceiveWhole
    <3>6. pc' = "compare" => TableValid(current) /\ current[0].last = s.last
      BY <2>2 DEF ReceiveWhole
    <3>7. pc' = "validate" => current # next'
      BY <2>2, <3>3 DEF ReceiveWhole, TableValid, Whole
    <3>8. HandlerInv'
      BY <3>3, <3>4, <3>5, <3>6, <3>7 DEF HandlerInv, TableValid, Idx, Whole
    <3>9. CurrentWhole'
      BY <3>5 DEF CurrentWhole, EmptyTable
    <3> QED
      BY <3>5, <3>8, <3>9 DEF NextPartial
  <2>3. ASSUME DropNext
        PROVE  HandlerInv' /\ CurrentWhole' /\ NextPartial'
    BY <2>3 DEF DropNext, HandlerInv, CurrentWhole, NextPartial, EmptyTable
  <2>4. CASE CompareDiffers
    BY <2>4 DEF CompareDiffers, HandlerInv, CurrentWhole, NextPartial, EmptyTable, Idx, Whole
  <2>5. CASE CompareNext
    BY <2>5 DEF CompareNext, HandlerInv, CurrentWhole, NextPartial, EmptyTable, Whole, TableValid
  <2>6. CASE DropIdentical
    BY <2>3, <2>6 DEF DropIdentical
  <2>7. CASE ValidateNext
    <3>1. \A i \in Idx : i < idx' => SectionOk(next, i)
      BY <2>7 DEF ValidateNext, HandlerInv, TypeOK, Idx
    <3> QED
      BY <2>7, <3>1 DEF ValidateNext, HandlerInv, CurrentWhole, NextPartial,
                        EmptyTable, Whole, SectionOk
  <2>8. CASE DropInvalid
    BY <2>3, <2>8 DEF DropInvalid
  <2>9. CASE Switch
    <3>1. Whole(next) /\ \A i \in Idx : i < idx => SectionOk(next, i)
      BY <2>9 DEF Switch, HandlerInv
    <3>2. next[0] \in Section
      BY <3>1 DEF Whole, TypeOK, Table, Idx
    <3>3. \A i \in 0 .. next[0].last : SectionOk(next, i)
      BY <2>9, <3>1, <3>2, SectionFields DEF Switch, TypeOK, Idx
    <3>4. CurrentWhole'
      BY <2>9, <3>1, <3>3 DEF Switch, CurrentWhole, Whole, SectionOk
    <3> QED
      BY <2>9, <3>4 DEF Switch, HandlerInv, NextPartial, EmptyTable
  <2>10. CASE UNCHANGED vars
    BY <2>10 DEF vars, HandlerInv, CurrentWhole, NextPartial, EmptyTable, Whole,
                 TableValid, SectionOk
  <2> QED
    BY <2>1, <2>2, <2>4, <2>5, <2>6, <2>7, <2>8, <2>9, <2>10
       DEF Next, Receive, Handle
<1> QED
  BY <1>1, <1>2, TypeCorrect, PTL DEF Spec

(* The table in force is absent or whole and validated: psi_table_section  *)
(* and the handlers never switch in a mixture.                             *)
THEOREM CurrentIsWhole == Spec => []CurrentWhole
BY TableSafety, PTL DEF IInv

(* Between two sections psi_table_section leaves no whole table in next:   *)
(* it looks only for the table of the section that it stores.              *)
THEOREM NextIsPartial == Spec => []NextPartial
BY TableSafety, PTL DEF IInv

(* "Switch tables." happens only for a table that differs from the one in  *)
(* force.                                                                  *)
THEOREM SwitchesAreNews == Spec => SwitchIsNews
<1>1. IInv /\ [Next]_vars => [Switch => current' # current]_vars
  BY DEF IInv, HandlerInv, Switch
<1> QED
  BY <1>1, TableSafety, PTL DEF Spec, SwitchIsNews

-----------------------------------------------------------------------------

(* Storing a section adds one block and gives back the one it replaces.    *)
LEMMA BlocksStored ==
  ASSUME NEW t \in Table, NEW s \in Section
  PROVE  Blocks(Stored(t, s), Idx) = Blocks(t, Idx) + 1 - Blocks(t, {s.num})
<1> DEFINE used == {i \in Idx : t[i] # NULL}
           at == {i \in {s.num} : t[i] # NULL}
<1>1. s.num \in Idx /\ s # NULL
  BY SectionFields, NullAssumption
<1>2. {i \in Idx : Stored(t, s)[i] # NULL} = used \cup {s.num}
  BY <1>1 DEF Stored, Table
<1>3. IsFiniteSet(used) /\ Cardinality(used) \in Nat
  BY BlocksType, FS_CardinalityType
<1>4. Cardinality(used \cup {s.num})
        = IF s.num \in used THEN Cardinality(used) ELSE Cardinality(used) + 1
  BY <1>3, FS_AddElement
<1>5. Cardinality(at) = IF s.num \in used THEN 1 ELSE 0
  <2>1. CASE s.num \in used
    <3>1. at = {s.num}
      BY <2>1
    <3> QED
      BY <2>1, <3>1, FS_Singleton
  <2>2. CASE s.num \notin used
    <3>1. at = {}
      BY <1>1, <2>2
    <3> QED
      BY <2>2, <3>1, FS_EmptySet
  <2> QED
    BY <2>1, <2>2
<1>6. Blocks(Stored(t, s), Idx) = Cardinality(used \cup {s.num})
  BY <1>2 DEF Blocks
<1>7. Blocks(t, Idx) = Cardinality(used) /\ Blocks(t, {s.num}) = Cardinality(at)
  BY DEF Blocks
<1> HIDE DEF used, at
<1> QED
  BY <1>3, <1>4, <1>5, <1>6, <1>7

(* Trimming a table gives back the blocks of its spurious slots.           *)
LEMMA BlocksTrimmed ==
  ASSUME NEW t \in Table, NEW s \in Section
  PROVE  Blocks(Trimmed(t, s), Idx) = Blocks(t, Idx) - Blocks(t, Spurious(s))
<1> DEFINE used == {i \in Idx : t[i] # NULL}
           cut == {i \in Spurious(s) : t[i] # NULL}
<1>1. {i \in Idx : Trimmed(t, s)[i] # NULL} = used \ cut
  BY SectionFields, SizesAssumption DEF Trimmed, Spurious, Idx
<1>2. IsFiniteSet(used) /\ used \cap cut = cut
  BY BlocksType DEF Spurious
<1>3. Cardinality(used \ cut) = Cardinality(used) - Cardinality(used \cap cut)
  BY <1>2, FS_Difference
<1> QED
  BY <1>1, <1>2, <1>3 DEF Blocks

(* An empty table owns no block. *)
LEMMA BlocksEmpty == Blocks(EmptyTable, Idx) = 0
<1>1. {i \in Idx : EmptyTable[i] # NULL} = {}
  BY DEF EmptyTable
<1> QED
  BY <1>1, FS_EmptySet DEF Blocks

(* No section is leaked or freed twice by psi_table_section, the shortcut, *)
(* the rejection or the switch of a table handler.                         *)
THEOREM NoSectionLeaks == Spec => []NoLeak
<1>1. Init => NoLeak
  BY BlocksEmpty DEF Init, NoLeak
<1>2. TypeOK /\ NoLeak /\ [Next]_vars => NoLeak'
  <2> SUFFICES ASSUME TypeOK, NoLeak, [Next]_vars
               PROVE  NoLeak'
    OBVIOUS
  <2>1. Blocks(next, Idx) \in Nat /\ Blocks(current, Idx) \in Nat /\ live \in Int
    BY BlocksType DEF TypeOK
  <2>2. ASSUME NEW s \in Section, ReceivePartial(s)
        PROVE  NoLeak'
    <3>1. Blocks(next, {s.num}) \in Nat
      BY BlocksType, SectionFields DEF TypeOK
    <3>2. Blocks(Stored(next, s), Idx) = Blocks(next, Idx) + 1 - Blocks(next, {s.num})
      BY BlocksStored DEF TypeOK
    <3> QED
      BY <2>1, <2>2, <3>1, <3>2 DEF NoLeak, ReceivePartial
  <2>3. ASSUME NEW s \in Section, ReceiveWhole(s)
        PROVE  NoLeak'
    <3> DEFINE u == Stored(next, s)
    <3>1. u \in Table
      BY TableTypes DEF TypeOK
    <3>2. Blocks(next, {s.num}) \in Nat /\ Blocks(u, Spurious(s)) \in Nat
      BY <3>1, BlocksType, SectionFields DEF TypeOK, Spurious
    <3>3. Blocks(u, Idx) = Blocks(next, Idx) + 1 - Blocks(next, {s.num})
      BY BlocksStored DEF TypeOK
    <3>4. Blocks(Trimmed(u, s), Idx) = Blocks(u, Idx) - Blocks(u, Spurious(s))
      BY <3>1, BlocksTrimmed
    <3>5. /\ next' = Trimmed(u, s) /\ current' = current
          /\ live' = live + 1 - Blocks(next, {s.num}) - Blocks(u, Spurious(s))
      BY <2>3 DEF ReceiveWhole
    <3> HIDE DEF u
    <3> QED
      BY <2>1, <3>2, <3>3, <3>4, <3>5 DEF NoLeak
  <2>4. ASSUME DropNext
        PROVE  NoLeak'
    BY <2>1, <2>4, BlocksEmpty DEF DropNext, NoLeak
  <2>5. CASE Switch
    BY <2>1, <2>5, BlocksEmpty DEF Switch, NoLeak
  <2>6. CASE UNCHANGED <<next, current, live>>
    BY <2>6 DEF NoLeak
  <2>7. CompareDiffers \/ CompareNext \/ ValidateNext \/ UNCHANGED vars
          => UNCHANGED <<next, current, live>>
    BY DEF CompareDiffers, CompareNext, ValidateNext, vars
  <2> QED
    BY <2>2, <2>3, <2>4, <2>5, <2>6, <2>7
       DEF Next, Receive, Handle, DropIdentical, DropInvalid
<1> QED
  BY <1>1, <1>2, TypeCorrect, PTL DEF Spec
=============================================================================
