------------------------ MODULE ServiceTrackerProofs ------------------------
(***************************************************************************)
(* Proofs about ServiceTracker and PcrPrinter, for all PATs, PMTs and EITs *)
(* that may be on air, all PIDs and an array of any size: the programs of  *)
(* the PAT are known by their PIDs, and the reasons to read a PID are      *)
(* counted once each.                                                      *)
(***************************************************************************)
EXTENDS PcrPrinter, Modular, FunctionTheorems, TLAPS

(* The service sid is entered, and its first entry has that PID. *)
KnownAs(sid, pid) ==
  Matching(sid) # {} /\ slots[Least(Matching(sid))].pid = pid

(* What is left of a walk is of the table that is walked. *)
TodoOfPat ==
  pc = "add" => /\ Once(todo)
                /\ \A i \in DOMAIN todo : \E j \in DOMAIN pat : todo[i] = pat[j]

(* The programs that the walk has passed are known by the PIDs of the new  *)
(* PAT, those it has not got to by the PIDs of the old one.                *)
PassedKnown ==
  pc # "undefined" =>
    \A i \in DOMAIN pat : pat[i].sid # 0 /\ pat[i].sid \notin Waiting =>
      KnownAs(pat[i].sid, pat[i].pid)
WaitingKnown ==
  pc = "add" =>
    \A i \in DOMAIN old : old[i].sid # 0 /\ old[i].sid \in Waiting =>
      KnownAs(old[i].sid, old[i].pid)

(* A PMT selects finitely many streams. *)
PmtsFinite ==
  \A i \in DOMAIN slots : slots[i].pmt # NULL => IsFiniteSet(slots[i].pmt.es)

(* The inductive invariant. *)
IInv == /\ TypeOK /\ Once(pat) /\ Once(old) /\ TodoOfPat
        /\ PassedKnown /\ WaitingKnown /\ PmtsFinite

-----------------------------------------------------------------------------
(* Tables and the array.                                                   *)

LEMMA LeastIsIn ==
  ASSUME NEW S \in SUBSET Nat, S # {}
  PROVE  Least(S) \in S /\ \A j \in S : Least(S) <= j
<1>1. \E i \in S : \A j \in S : i <= j
  BY HasLeast
<1> QED
  BY <1>1 DEF Least

(* The program of a table that has some number, where there is only one. *)
LEMMA PidOfEntry ==
  ASSUME NEW t \in Seq(Program), Once(t), NEW i \in DOMAIN t
  PROVE  Lists(t, t[i].sid) /\ PidIn(t, t[i].sid) = t[i].pid
<1>1. i \in Entries(t, t[i].sid)
  BY DEF Entries
<1>2. \A j \in Entries(t, t[i].sid) : j = i
  BY DEF Entries, Once
<1>3. Entries(t, t[i].sid) = {i} /\ i \in Nat
  BY <1>1, <1>2
<1>4. Least({i}) = i
  BY <1>3, LeastIsIn
<1> QED
  BY <1>3, <1>4 DEF Lists, PidIn

(* A table has an entry for each number it lists. *)
LEMMA EntryOfListed ==
  ASSUME NEW t, NEW sid, Lists(t, sid)
  PROVE  \E i \in DOMAIN t : t[i].sid = sid
BY DEF Lists, Entries

LEMMA HeadAndTail ==
  ASSUME NEW S, NEW t \in Seq(S), t # <<>>
  PROVE  /\ Head(t) = t[1] /\ 1 \in DOMAIN t /\ Head(t) \in S
         /\ Tail(t) \in Seq(S)
         /\ \A i \in DOMAIN Tail(t) : i + 1 \in DOMAIN t /\ Tail(t)[i] = t[i + 1]
         /\ \A i \in DOMAIN t : i = 1 \/ (i - 1 \in DOMAIN Tail(t) /\ Tail(t)[i - 1] = t[i])
OBVIOUS

LEMMA MatchingIsIn ==
  ASSUME slots \in Seq(Slot), NEW sid
  PROVE  /\ Matching(sid) \in SUBSET Nat /\ Matching(sid) \subseteq DOMAIN slots
         /\ Matching(sid) # {} => Least(Matching(sid)) \in Matching(sid)
<1>1. Matching(sid) \in SUBSET Nat /\ Matching(sid) \subseteq DOMAIN slots
  BY DEF Matching
<1> QED
  BY <1>1, LeastIsIn

(* A service stays known by its PID as long as its entries stay its own    *)
(* and no other becomes its own.                                           *)
LEMMA StaysKnown ==
  ASSUME slots \in Seq(Slot), NEW sid, NEW pid, KnownAs(sid, pid),
         Matching(sid)' = Matching(sid),
         \A i \in Matching(sid) : slots'[i].pid = slots[i].pid
  PROVE  KnownAs(sid, pid)'
<1>1. Least(Matching(sid)) \in Matching(sid)
  BY MatchingIsIn DEF KnownAs
<1> QED
  BY <1>1 DEF KnownAs

-----------------------------------------------------------------------------
(* Changes of the array.                                                   *)

(* Where a program is placed: in an entry of its own or one not in use,    *)
(* the first of these, or after the end.                                   *)
LEMMA PlacedAt ==
  ASSUME slots \in Seq(Slot), NEW g \in Program
  PROVE  /\ Placed(g) \in Seq(Slot)
         /\ \E k \in Nat :
              /\ DOMAIN Placed(g) = DOMAIN slots \cup {k}
              /\ \A j \in Matching(g.sid) \cup Matching(0) : k <= j
              /\ k \in DOMAIN slots =>
                   /\ slots[k].sid \in {0, g.sid}
                   /\ Placed(g)[k] = [slots[k] EXCEPT !.sid = g.sid, !.pid = g.pid]
              /\ k \notin DOMAIN slots =>
                   /\ Placed(g)[k] = NewSlot(g.sid, g.pid)
                   /\ Matching(g.sid) = {} /\ Matching(0) = {}
              /\ \A j \in DOMAIN slots \ {k} : Placed(g)[j] = slots[j]
<1> DEFINE found == Matching(g.sid) \cup Matching(0)
<1>0. g.sid \in Sids /\ g.pid \in Pids
  BY DEF Program
<1>1. NewSlot(g.sid, g.pid) \in Slot
  BY <1>0 DEF NewSlot, Slot, NoEits
<1>2. found \in SUBSET Nat /\ found \subseteq DOMAIN slots
  BY MatchingIsIn
<1>3. CASE found = {}
  <2>1. Placed(g) = Append(slots, NewSlot(g.sid, g.pid))
    BY <1>3 DEF Placed
  <2> DEFINE k == Len(slots) + 1
  <2>2. /\ Placed(g) \in Seq(Slot) /\ k \in Nat /\ k \notin DOMAIN slots
        /\ DOMAIN Placed(g) = DOMAIN slots \cup {k}
        /\ Placed(g)[k] = NewSlot(g.sid, g.pid)
        /\ \A j \in DOMAIN slots \ {k} : Placed(g)[j] = slots[j]
    <3>1. /\ Placed(g) \in Seq(Slot) /\ DOMAIN Placed(g) = 1 .. Len(slots) + 1
          /\ Placed(g)[Len(slots) + 1] = NewSlot(g.sid, g.pid)
          /\ \A j \in 1 .. Len(slots) : Placed(g)[j] = slots[j]
      BY <1>1, <2>1
    <3>2. Len(slots) \in Nat /\ DOMAIN slots = 1 .. Len(slots)
      OBVIOUS
    <3> QED
      BY <3>1, <3>2
  <2> QED
    BY <1>3, <2>2
<1>4. CASE found # {}
  <2> DEFINE k == Least(found)
             s == [slots[k] EXCEPT !.sid = g.sid, !.pid = g.pid]
  <2>1. k \in found /\ \A j \in found : k <= j
    BY <1>2, <1>4, LeastIsIn
  <2>2. k \in DOMAIN slots /\ k \in Nat /\ slots[k].sid \in {0, g.sid}
    BY <1>2, <2>1 DEF Matching
  <2>3. slots[k] \in Slot /\ s \in Slot
    <3>1. slots[k] \in Slot
      BY <2>2
    <3> HIDE DEF k
    <3> QED
      BY <1>0, <3>1 DEF Slot
  <2>4. Placed(g) = [slots EXCEPT ![k] = s]
    <3>1. Placed(g) = [slots EXCEPT ![k].sid = g.sid, ![k].pid = g.pid]
      BY <1>4 DEF Placed
    <3> HIDE DEF k
    <3> QED
      BY <2>2, <2>3, <3>1 DEF Slot
  <2> HIDE DEF k, s
  <2>5. /\ Placed(g) \in Seq(Slot) /\ DOMAIN Placed(g) = DOMAIN slots /\ Placed(g)[k] = s
        /\ \A j \in DOMAIN slots \ {k} : Placed(g)[j] = slots[j]
    BY <2>2, <2>3, <2>4
  <2>6. DOMAIN Placed(g) = DOMAIN slots \cup {k}
    BY <2>2, <2>5
  <2>7. Placed(g)[k] = [slots[k] EXCEPT !.sid = g.sid, !.pid = g.pid]
    BY <2>5 DEF s
  <2> HIDE DEF found
  <2> QED
    BY <2>1, <2>2, <2>5, <2>6, <2>7 DEF found
<1> QED
  BY <1>3, <1>4

-----------------------------------------------------------------------------
(* The streams that PMTs select.                                           *)

LEMMA FiniteImage ==
  ASSUME NEW S, IsFiniteSet(S), NEW f, DOMAIN f = S
  PROVE  IsFiniteSet({f[x] : x \in S})
<1> DEFINE T == {f[x] : x \in S}
           g == [x \in S |-> f[x]]
<1>1. g \in Surjection(S, T)
  BY DEF Surjection
<1> QED
  BY <1>1, FS_Surjection

LEMMA FiniteDomain ==
  ASSUME NEW S, NEW t \in Seq(S)
  PROVE  IsFiniteSet(DOMAIN t)
<1>1. DOMAIN t = 1 .. Len(t) /\ 1 \in Int /\ Len(t) \in Int
  OBVIOUS
<1> QED
  BY <1>1, FS_Interval

(* What the PMT in entry i gives for reasons. *)
EsOf(i, pmt, p) ==
  IF pmt = NULL THEN {} ELSE {<<i, e>> : e \in {d \in pmt.es : d.pid = p}}

LEMMA EsOfCounted ==
  ASSUME NEW pmt, pmt # NULL => IsFiniteSet(pmt.es), NEW i, NEW p
  PROVE  /\ IsFiniteSet(EsOf(i, pmt, p))
         /\ Cardinality(EsOf(i, pmt, p)) = EsOn(pmt, p)
         /\ EsOn(pmt, p) \in Nat
<1>1. CASE pmt = NULL
  BY <1>1, FS_EmptySet DEF EsOf, EsOn
<1>2. CASE pmt # NULL
  <2> DEFINE D == {d \in pmt.es : d.pid = p}
             f == [e \in D |-> <<i, e>>]
  <2>1. IsFiniteSet(D)
    BY <1>2, FS_Subset
  <2>2. EsOf(i, pmt, p) = {<<i, e>> : e \in D} /\ EsOn(pmt, p) = Cardinality(D)
    BY <1>2 DEF EsOf, EsOn
  <2>3. f \in Bijection(D, {<<i, e>> : e \in D})
    BY DEF Bijection, Injection, IsInjective, Surjection
  <2> HIDE DEF D, f
  <2>4. ExistsBijection(D, EsOf(i, pmt, p))
    BY <2>2, <2>3 DEF ExistsBijection
  <2> QED
    BY <2>1, <2>2, <2>4, FS_Bijection, FS_CardinalityType
<1> QED
  BY <1>1, <1>2

LEMMA EsReasonsAre ==
  ASSUME NEW p
  PROVE  EsReasons(p) = UNION {EsOf(j, slots[j].pmt, p) : j \in DOMAIN slots}
BY DEF EsReasons, EsOf

LEMMA EsFinite ==
  ASSUME slots \in Seq(Slot), PmtsFinite, NEW p
  PROVE  IsFiniteSet(EsReasons(p))
<1> DEFINE D == DOMAIN slots
           f == [j \in D |-> EsOf(j, slots[j].pmt, p)]
<1>1. IsFiniteSet({f[j] : j \in D})
  <2>1. IsFiniteSet(D) /\ DOMAIN f = D
    BY FiniteDomain
  <2> HIDE DEF D, f
  <2> QED
    BY <2>1, FiniteImage
<1>2. \A j \in D : IsFiniteSet(f[j])
  BY EsOfCounted DEF PmtsFinite
<1>3. IsFiniteSet(UNION {f[j] : j \in D})
  <2> HIDE DEF D, f
  <2> QED
    BY <1>1, <1>2, FS_UNION
<1>4. {f[j] : j \in D} = {EsOf(j, slots[j].pmt, p) : j \in DOMAIN slots}
  OBVIOUS
<1> QED
  BY <1>3, <1>4, EsReasonsAre

(* A new PMT in one entry is the only difference. *)
LEMMA EsReplaced ==
  ASSUME slots \in Seq(Slot), PmtsFinite, slots' \in Seq(Slot), PmtsFinite', NEW p,
         NEW i \in DOMAIN slots', NEW was,
         DOMAIN slots' = DOMAIN slots \cup {i},
         \A j \in DOMAIN slots \ {i} : slots'[j].pmt = slots[j].pmt,
         was = IF i \in DOMAIN slots THEN slots[i].pmt ELSE NULL
  PROVE  /\ Cardinality(EsReasons(p)') =
              Cardinality(EsReasons(p)) - EsOn(was, p) + EsOn(slots'[i].pmt, p)
         /\ EsOn(was, p) \in Nat /\ EsOn(slots'[i].pmt, p) \in Nat
<1> DEFINE R == UNION {EsOf(j, slots[j].pmt, p) : j \in DOMAIN slots \ {i}}
           A == EsOf(i, was, p)
           B == EsOf(i, slots'[i].pmt, p)
           W == EsReasons(p)
           N == EsReasons(p)'
<1>1. W = R \cup A
  <2>1. CASE i \in DOMAIN slots
    <3>1. {EsOf(j, slots[j].pmt, p) : j \in DOMAIN slots}
            = {EsOf(j, slots[j].pmt, p) : j \in DOMAIN slots \ {i}} \cup {A}
      BY <2>1
    <3> QED
      BY <3>1, EsReasonsAre
  <2>2. CASE i \notin DOMAIN slots
    <3>1. A = {} /\ DOMAIN slots \ {i} = DOMAIN slots
      BY <2>2 DEF EsOf
    <3> QED
      BY <3>1, EsReasonsAre
  <2> QED
    BY <2>1, <2>2
<1>2. N = R \cup B
  <2>1. N = UNION {EsOf(j, slots'[j].pmt, p) : j \in DOMAIN slots'}
    BY DEF EsReasons, EsOf
  <2>2. {EsOf(j, slots'[j].pmt, p) : j \in DOMAIN slots'}
          = {EsOf(j, slots[j].pmt, p) : j \in DOMAIN slots \ {i}} \cup {B}
    OBVIOUS
  <2> QED
    BY <2>1, <2>2
<1>3. R \cap A = {} /\ R \cap B = {}
  BY DEF EsOf
<1>4. IsFiniteSet(W)
  BY EsFinite
<1>5. /\ IsFiniteSet(A) /\ Cardinality(A) = EsOn(was, p) /\ EsOn(was, p) \in Nat
      /\ IsFiniteSet(B) /\ Cardinality(B) = EsOn(slots'[i].pmt, p)
      /\ EsOn(slots'[i].pmt, p) \in Nat
  BY EsOfCounted DEF PmtsFinite
<1> HIDE DEF R, A, B, W, N
<1>6. IsFiniteSet(R)
  BY <1>1, <1>4, FS_Subset
<1>7. /\ Cardinality(W) = Cardinality(R) + Cardinality(A) - Cardinality(R \cap A)
      /\ Cardinality(N) = Cardinality(R) + Cardinality(B) - Cardinality(R \cap B)
  BY <1>1, <1>2, <1>5, <1>6, FS_Union
<1>8. Cardinality({}) = 0 /\ Cardinality(R) \in Nat
  BY <1>6, FS_EmptySet, FS_CardinalityType
<1>9. /\ Cardinality(W) = Cardinality(R) + EsOn(was, p)
      /\ Cardinality(N) = Cardinality(R) + EsOn(slots'[i].pmt, p)
  <2>1. Cardinality(R \cap A) = 0 /\ Cardinality(R \cap B) = 0
    BY <1>3, <1>8
  <2> QED
    BY ONLY <1>5, <1>7, <1>8, <2>1
<1>10. Cardinality(N) = Cardinality(W) - EsOn(was, p) + EsOn(slots'[i].pmt, p)
  BY <1>5, <1>8, <1>9
<1> QED
  BY <1>5, <1>10 DEF W, N

(* Without a new PMT nothing changes. *)
LEMMA EsKept ==
  ASSUME NEW p, DOMAIN slots \subseteq DOMAIN slots',
         \A j \in DOMAIN slots : slots'[j].pmt = slots[j].pmt,
         \A j \in DOMAIN slots' \ DOMAIN slots : slots'[j].pmt = NULL
  PROVE  EsReasons(p)' = EsReasons(p)
BY DEF EsReasons

-----------------------------------------------------------------------------
(* The walks.                                                              *)

LEMMA WaitingTail ==
  ASSUME pc = "add", todo \in Seq(Program), todo # <<>>, Once(todo),
         pc' = "add", todo' = Tail(todo)
  PROVE  /\ Waiting' = Waiting \ {Head(todo).sid} /\ Head(todo).sid \in Waiting
         /\ Once(todo')
         /\ \A i \in DOMAIN todo' : \E j \in DOMAIN todo : todo'[i] = todo[j]
<1>1. /\ Head(todo) = todo[1] /\ 1 \in DOMAIN todo
      /\ \A i \in DOMAIN todo' : i + 1 \in DOMAIN todo /\ todo'[i] = todo[i + 1]
      /\ \A i \in DOMAIN todo : i = 1 \/ (i - 1 \in DOMAIN todo' /\ todo'[i - 1] = todo[i])
  BY HeadAndTail
<1>2. DOMAIN todo \subseteq Nat /\ DOMAIN todo' \subseteq Nat \ {0}
  BY todo' \in Seq(Program)
<1>3. \A i \in DOMAIN todo' : todo'[i].sid # todo[1].sid
  BY <1>1, <1>2 DEF Once
<1>4. Once(todo')
  <2> SUFFICES ASSUME NEW i \in DOMAIN todo', NEW j \in DOMAIN todo',
                      todo'[i].sid = todo'[j].sid
               PROVE  i = j
    BY DEF Once
  <2>1. i + 1 = j + 1
    BY <1>1 DEF Once
  <2> QED
    BY <1>2, <2>1
<1>5. Waiting' = {todo'[i].sid : i \in DOMAIN todo'}
  BY DEF Waiting
<1>6. Waiting = {todo[i].sid : i \in DOMAIN todo}
  BY DEF Waiting
<1>7. Waiting' = Waiting \ {todo[1].sid}
  <2>1. ASSUME NEW i \in DOMAIN todo'
        PROVE  todo'[i].sid \in Waiting \ {todo[1].sid}
    BY <1>1, <1>3, <1>6
  <2>2. ASSUME NEW i \in DOMAIN todo, todo[i].sid # todo[1].sid
        PROVE  todo[i].sid \in Waiting'
    <3>1. i - 1 \in DOMAIN todo' /\ todo'[i - 1] = todo[i]
      BY <1>1, <2>2
    <3> QED
      BY <1>5, <3>1
  <2> QED
    BY <1>5, <1>6, <2>1, <2>2
<1>8. \A i \in DOMAIN todo' : \E j \in DOMAIN todo : todo'[i] = todo[j]
  BY <1>1
<1> QED
  BY <1>1, <1>4, <1>6, <1>7, <1>8

(* The program that the walk has got to is the one the PAT has. *)
LEMMA HeadIsOfPat ==
  ASSUME IInv, pc = "add", todo # <<>>, NEW i \in DOMAIN pat, pat[i].sid = Head(todo).sid
  PROVE  pat[i] = Head(todo)
<1>1. Head(todo) = todo[1] /\ 1 \in DOMAIN todo
  BY HeadAndTail DEF IInv, TypeOK
<1>2. PICK j \in DOMAIN pat : Head(todo) = pat[j]
  BY <1>1 DEF IInv, TodoOfPat
<1> QED
  BY <1>2 DEF IInv, Once

LEMMA SkipAddKeepsIInv ==
  ASSUME IInv, SkipAdd
  PROVE  IInv'
<1> DEFINE g == Head(todo)
<1>1. /\ pc = "add" /\ todo # <<>> /\ Same(g) /\ todo' = Tail(todo)
      /\ UNCHANGED <<air, changes, pat, old, pc, slots, refs>>
  BY DEF SkipAdd
<1>2. todo \in Seq(Program) /\ Once(todo) /\ todo' \in Seq(Program)
  BY <1>1, HeadAndTail DEF IInv, TypeOK, TodoOfPat
<1>3. TypeOK' /\ (Once(pat) /\ Once(old) /\ PmtsFinite)'
  BY <1>1, <1>2 DEF IInv, TypeOK, Once, PmtsFinite
<1>4. /\ Waiting' = Waiting \ {g.sid} /\ g.sid \in Waiting /\ Once(todo')
      /\ \A i \in DOMAIN todo' : \E j \in DOMAIN todo : todo'[i] = todo[j]
  BY <1>1, <1>2, WaitingTail
<1> HIDE DEF g
<1>5. TodoOfPat'
  BY <1>1, <1>4 DEF IInv, TodoOfPat
<1>6. \A sid, pid : KnownAs(sid, pid)' <=> KnownAs(sid, pid)
  BY <1>1 DEF KnownAs, Matching
<1>7. WaitingKnown'
  BY <1>1, <1>4, <1>6 DEF IInv, WaitingKnown
<1>8. PassedKnown'
  <2> SUFFICES ASSUME NEW i \in DOMAIN pat, pat[i].sid # 0, pat[i].sid \notin Waiting'
               PROVE  KnownAs(pat[i].sid, pat[i].pid)
    BY <1>1, <1>6 DEF PassedKnown
  <2>1. CASE pat[i].sid \notin Waiting
    BY <1>1, <2>1 DEF IInv, PassedKnown
  <2>2. CASE pat[i].sid = g.sid
    <3>1. pat[i] = g
      BY <1>1, <2>2, HeadIsOfPat DEF g
    <3>2. Lists(old, g.sid) /\ PidIn(old, g.sid) = g.pid
      BY <1>1, <2>2 DEF Same
    <3>3. PICK j \in DOMAIN old : old[j].sid = g.sid
      BY <3>2, EntryOfListed
    <3>4. PidIn(old, g.sid) = old[j].pid
      BY <3>3, PidOfEntry DEF IInv, TypeOK
    <3>5. KnownAs(old[j].sid, old[j].pid)
      BY <1>1, <1>4, <2>2, <3>3 DEF IInv, WaitingKnown
    <3> QED
      BY <3>1, <3>2, <3>3, <3>4, <3>5
  <2> QED
    BY <1>4, <2>1, <2>2
<1> QED
  BY <1>3, <1>5, <1>7, <1>8 DEF IInv

(* A program that is placed is known by its PID, and the others as before. *)
LEMMA PlacedKnown ==
  ASSUME slots \in Seq(Slot), NEW g \in Program, g.sid # 0, slots' = Placed(g)
  PROVE  /\ KnownAs(g.sid, g.pid)'
         /\ \A sid, pid : sid \notin {0, g.sid} /\ KnownAs(sid, pid) => KnownAs(sid, pid)'
<1>1. PICK k \in Nat :
        /\ DOMAIN slots' = DOMAIN slots \cup {k}
        /\ \A j \in Matching(g.sid) \cup Matching(0) : k <= j
        /\ k \in DOMAIN slots =>
             /\ slots[k].sid \in {0, g.sid}
             /\ slots'[k] = [slots[k] EXCEPT !.sid = g.sid, !.pid = g.pid]
        /\ k \notin DOMAIN slots =>
             /\ slots'[k] = NewSlot(g.sid, g.pid)
             /\ Matching(g.sid) = {} /\ Matching(0) = {}
        /\ \A j \in DOMAIN slots \ {k} : slots'[j] = slots[j]
  BY PlacedAt
<1>2. slots'[k].sid = g.sid /\ slots'[k].pid = g.pid
  <2>1. CASE k \in DOMAIN slots
    <3>1. slots[k] \in Slot
      BY <2>1
    <3> QED
      BY <1>1, <2>1, <3>1 DEF Slot
  <2>2. CASE k \notin DOMAIN slots
    BY <1>1, <2>2 DEF NewSlot
  <2> QED
    BY <2>1, <2>2
<1>3. KnownAs(g.sid, g.pid)'
  <2>1. k \in Matching(g.sid)'
    BY <1>1, <1>2 DEF Matching
  <2>2. \A j \in Matching(g.sid)' : j = k \/ j \in Matching(g.sid)
    BY <1>1 DEF Matching
  <2>3. Matching(g.sid)' \in SUBSET Nat /\ \A j \in Matching(g.sid)' : k <= j
    <3>1. Matching(g.sid) \in SUBSET Nat
      BY MatchingIsIn
    <3> QED
      BY <1>1, <2>2, <3>1
  <2>4. Least(Matching(g.sid)') \in Matching(g.sid)' /\ Least(Matching(g.sid)') <= k
    BY <2>1, <2>3, LeastIsIn
  <2>5. Least(Matching(g.sid)') = k
    BY <2>3, <2>4
  <2> QED
    BY <1>2, <2>1, <2>5 DEF KnownAs
<1>4. ASSUME NEW sid, NEW pid, sid \notin {0, g.sid}, KnownAs(sid, pid)
      PROVE  KnownAs(sid, pid)'
  <2>1. Matching(sid)' = Matching(sid)
    BY <1>1, <1>2, <1>4 DEF Matching
  <2>2. \A i \in Matching(sid) : slots'[i].pid = slots[i].pid
    BY <1>1, <1>4 DEF Matching
  <2> QED
    BY <1>4, <2>1, <2>2, StaysKnown
<1> QED
  BY <1>3, <1>4

LEMMA AddProgramKeepsIInv ==
  ASSUME IInv, AddProgram
  PROVE  IInv'
<1>0. PICK g : g = Head(todo)
  OBVIOUS
<1>1. /\ pc = "add" /\ todo # <<>> /\ ~ Same(g) /\ todo' = Tail(todo)
      /\ Len(Placed(g)) <= MaxSlots /\ slots' = Placed(g) /\ refs' = Counted(g)
      /\ UNCHANGED <<air, changes, pat, old, pc>>
  BY <1>0 DEF AddProgram
<1>2. /\ todo \in Seq(Program) /\ Once(todo) /\ todo' \in Seq(Program) /\ g \in Program
      /\ slots \in Seq(Slot) /\ refs \in [Pids -> Int]
  BY <1>0, <1>1, HeadAndTail DEF IInv, TypeOK, TodoOfPat
<1>3. g.sid # 0
  BY <1>1 DEF Same
<1>4. /\ Waiting' = Waiting \ {g.sid} /\ g.sid \in Waiting /\ Once(todo')
      /\ \A i \in DOMAIN todo' : \E j \in DOMAIN todo : todo'[i] = todo[j]
  BY <1>0, <1>1, <1>2, WaitingTail
<1>5. /\ KnownAs(g.sid, g.pid)'
      /\ \A sid, pid : sid \notin {0, g.sid} /\ KnownAs(sid, pid) => KnownAs(sid, pid)'
  BY <1>1, <1>2, <1>3, PlacedKnown
<1>6. TypeOK'
  <2>1. slots' \in Seq(Slot)
    BY <1>1, <1>2, PlacedAt
  <2>2. refs' \in [Pids -> Int]
    BY <1>1, <1>2 DEF Counted, One
  <2> QED
    BY <1>1, <1>2, <2>1, <2>2 DEF IInv, TypeOK
<1>7. TodoOfPat' /\ Once(pat)' /\ Once(old)'
  BY <1>1, <1>4 DEF IInv, TodoOfPat, Once
<1>8. WaitingKnown'
  BY <1>1, <1>4, <1>5 DEF IInv, WaitingKnown
<1>9. PassedKnown'
  <2> SUFFICES ASSUME NEW i \in DOMAIN pat, pat[i].sid # 0, pat[i].sid \notin Waiting'
               PROVE  KnownAs(pat[i].sid, pat[i].pid)'
    BY <1>1 DEF PassedKnown
  <2>1. CASE pat[i].sid # g.sid
    BY <1>1, <1>4, <1>5, <2>1 DEF IInv, PassedKnown
  <2>2. CASE pat[i].sid = g.sid
    BY <1>0, <1>1, <1>5, <2>2, HeadIsOfPat
  <2> QED
    BY <2>1, <2>2
<1>10. PmtsFinite'
  <2>1. PICK k \in Nat :
          /\ DOMAIN slots' = DOMAIN slots \cup {k}
          /\ k \in DOMAIN slots =>
               slots'[k] = [slots[k] EXCEPT !.sid = g.sid, !.pid = g.pid]
          /\ k \notin DOMAIN slots => slots'[k] = NewSlot(g.sid, g.pid)
          /\ \A j \in DOMAIN slots \ {k} : slots'[j] = slots[j]
    BY <1>1, <1>2, PlacedAt
  <2>2. \A j \in DOMAIN slots : slots[j] \in Slot
    BY <1>2
  <2>3. k \in DOMAIN slots => slots'[k].pmt = slots[k].pmt
    BY <2>1, <2>2 DEF Slot
  <2>4. k \notin DOMAIN slots => slots'[k].pmt = NULL
    BY <2>1 DEF NewSlot
  <2> QED
    BY <2>1, <2>3, <2>4 DEF IInv, PmtsFinite
<1> QED
  BY <1>6, <1>7, <1>8, <1>9, <1>10 DEF IInv

(* Steps that leave the array and the tables alone. *)
LEMMA KnownUnchanged ==
  ASSUME UNCHANGED slots
  PROVE  \A sid, pid : KnownAs(sid, pid)' <=> KnownAs(sid, pid)
BY DEF KnownAs, Matching

LEMMA ReceivePatKeepsIInv ==
  ASSUME IInv, ReceivePat
  PROVE  IInv'
<1>1. air.pat \in Seq(Program) /\ Once(air.pat)
  BY TrackerAssumption DEF IInv, TypeOK
<1>2. TypeOK'
  BY <1>1 DEF ReceivePat, IInv, TypeOK
<1>3. Once(pat)' /\ Once(old)' /\ TodoOfPat' /\ PmtsFinite'
  BY <1>1 DEF ReceivePat, IInv, Once, TodoOfPat, PmtsFinite
<1>4. Waiting = {} /\ Waiting' = {pat'[i].sid : i \in DOMAIN pat'}
  BY DEF ReceivePat, Waiting
<1>5. PassedKnown'
  BY <1>4 DEF PassedKnown
<1>6. WaitingKnown'
  BY <1>4, KnownUnchanged DEF ReceivePat, IInv, PassedKnown, WaitingKnown
<1> QED
  BY <1>2, <1>3, <1>5, <1>6 DEF IInv

LEMMA AddDoneKeepsIInv ==
  ASSUME IInv, AddDone
  PROVE  IInv'
<1>1. TypeOK' /\ Once(pat)' /\ Once(old)' /\ TodoOfPat' /\ PmtsFinite' /\ WaitingKnown'
  BY DEF AddDone, IInv, TypeOK, Once, TodoOfPat, PmtsFinite, WaitingKnown
<1>2. Waiting = {} /\ Waiting' = {}
  BY DEF AddDone, Waiting
<1>3. PassedKnown'
  BY <1>2, KnownUnchanged DEF AddDone, IInv, PassedKnown
<1> QED
  BY <1>1, <1>3 DEF IInv

(* Steps that leave the array and the PAT alone, and are not of the first walk. *)
LEMMA SteadyKeepsIInv ==
  ASSUME IInv, pc \notin {"add", "undefined"}, pc' # "add", UNCHANGED <<pat, slots>>,
         TypeOK', Once(old)'
  PROVE  IInv'
<1>1. Once(pat)' /\ TodoOfPat' /\ PmtsFinite' /\ WaitingKnown'
  BY DEF IInv, Once, TodoOfPat, PmtsFinite, WaitingKnown
<1>2. Waiting = {} /\ Waiting' = {}
  BY DEF Waiting
<1>3. PassedKnown'
  BY <1>2, KnownUnchanged DEF IInv, PassedKnown
<1> QED
  BY <1>1, <1>3 DEF IInv

LEMMA QuietKeepsIInv ==
  ASSUME IInv, SkipRemove \/ RemoveUndefined \/ RemoveDone
  PROVE  IInv'
<1>1. CASE SkipRemove
  <2>1. todo' \in Seq(Program)
    BY <1>1, HeadAndTail DEF SkipRemove, IInv, TypeOK
  <2>2. TypeOK' /\ Once(old)'
    BY <1>1, <2>1 DEF SkipRemove, IInv, TypeOK, Once
  <2> QED
    BY <1>1, <2>2, SteadyKeepsIInv DEF SkipRemove
<1>2. CASE RemoveUndefined
  <2>1. TypeOK' /\ Once(old)'
    BY <1>2 DEF RemoveUndefined, IInv, TypeOK, Once
  <2> QED
    BY <1>2, <2>1, SteadyKeepsIInv DEF RemoveUndefined
<1>3. CASE RemoveDone
  <2>1. TypeOK' /\ Once(old)'
    BY <1>3 DEF RemoveDone, IInv, TypeOK, Once
  <2> QED
    BY <1>3, <2>1, SteadyKeepsIInv DEF RemoveDone
<1> QED
  BY <1>1, <1>2, <1>3

(* The array when the first entry of a service is given up, with or        *)
(* without its PMT: the services that are still listed stay known.         *)
LEMMA GivenUpKnown ==
  ASSUME slots \in Seq(Slot), NEW sid, NEW i \in Matching(sid),
         DOMAIN slots' = DOMAIN slots, slots'[i].sid = 0,
         \A j \in DOMAIN slots \ {i} : slots'[j].sid = slots[j].sid,
         \A j \in DOMAIN slots : slots'[j].pid = slots[j].pid
  PROVE  \A h, pid : h \notin {0, sid} /\ KnownAs(h, pid) => KnownAs(h, pid)'
<1> SUFFICES ASSUME NEW h, NEW pid, h \notin {0, sid}, KnownAs(h, pid)
             PROVE  KnownAs(h, pid)'
  OBVIOUS
<1>1. i \in DOMAIN slots /\ slots[i].sid = sid
  BY DEF Matching
<1>2. Matching(h)' = Matching(h)
  BY <1>1 DEF Matching
<1>3. \A j \in Matching(h) : slots'[j].pid = slots[j].pid
  BY DEF Matching
<1> QED
  BY <1>2, <1>3, StaysKnown

(* The programs of the PAT stay known when one that it does not list goes. *)
LEMMA RemovalKeepsPassed ==
  ASSUME IInv, pc = "remove", UNCHANGED <<pc, pat>>, NEW sid, ~ Lists(pat, sid),
         \A h, pid : h \notin {0, sid} /\ KnownAs(h, pid) => KnownAs(h, pid)'
  PROVE  PassedKnown' /\ WaitingKnown' /\ TodoOfPat'
<1>1. \A i \in DOMAIN pat : pat[i].sid # sid
  BY PidOfEntry DEF IInv, TypeOK
<1>2. Waiting = {} /\ Waiting' = {}
  BY DEF Waiting
<1>3. PassedKnown'
  BY <1>1, <1>2 DEF IInv, PassedKnown
<1> QED
  BY <1>3 DEF WaitingKnown, TodoOfPat

(* What RemoveProgram does to the array. *)
LEMMA FreedAt ==
  ASSUME slots \in Seq(Slot), NEW i \in DOMAIN slots, NEW k \in DOMAIN slots,
         slots' = [[slots EXCEPT ![i] = Freed(i)] EXCEPT ![k].eit = NoEits]
  PROVE  /\ slots' \in Seq(Slot) /\ DOMAIN slots' = DOMAIN slots
         /\ Len(slots') = Len(slots)
         /\ slots'[i].sid = 0 /\ slots'[i].pmt = NULL
         /\ \A j \in DOMAIN slots \ {i} :
              slots'[j].sid = slots[j].sid /\ slots'[j].pmt = slots[j].pmt
         /\ \A j \in DOMAIN slots : slots'[j].pid = slots[j].pid
<1>1. slots[i] \in Slot /\ slots[k] \in Slot
  OBVIOUS
<1>2. Freed(i) \in Slot /\ Freed(i).sid = 0 /\ Freed(i).pmt = NULL /\ Freed(i).pid = slots[i].pid
  BY <1>1, TrackerAssumption DEF Freed, Slot
<1> DEFINE s == [slots EXCEPT ![i] = Freed(i)]
<1>3. /\ s \in Seq(Slot) /\ DOMAIN s = DOMAIN slots /\ s[i] = Freed(i)
      /\ \A j \in DOMAIN slots \ {i} : s[j] = slots[j]
  BY <1>2
<1>4. slots' = [s EXCEPT ![k].eit = NoEits]
  OBVIOUS
<1> HIDE DEF s
<1>5. s[k] \in Slot /\ NoEits \in [EitNums -> Eit \cup {NULL}]
  BY <1>3 DEF NoEits
<1>6. slots' = [s EXCEPT ![k] = [s[k] EXCEPT !.eit = NoEits]]
  BY <1>4
<1>7. [s[k] EXCEPT !.eit = NoEits] \in Slot
  BY <1>5 DEF Slot
<1>8. /\ slots' \in Seq(Slot) /\ DOMAIN slots' = DOMAIN slots /\ Len(slots') = Len(slots)
      /\ \A j \in DOMAIN slots : slots'[j].sid = s[j].sid /\ slots'[j].pid = s[j].pid
                                 /\ slots'[j].pmt = s[j].pmt
  <2>1. slots' \in Seq(Slot) /\ DOMAIN slots' = DOMAIN slots
    <3> DEFINE v == [s[k] EXCEPT !.eit = NoEits]
    <3>1. slots' = [s EXCEPT ![k] = v] /\ v \in Slot /\ k \in DOMAIN s
      BY <1>3, <1>6, <1>7
    <3> HIDE DEF v
    <3>2. slots' \in Seq(Slot) /\ DOMAIN slots' = DOMAIN s
      BY ONLY <1>3, <3>1
    <3> QED
      BY <1>3, <3>2
  <2>2. Len(slots') = Len(slots)
    BY <2>1
  <2>3. \A j \in DOMAIN slots : j # k => slots'[j] = s[j]
    BY <1>3, <1>6
  <2>4. slots'[k] = [s[k] EXCEPT !.eit = NoEits]
    BY <1>3, <1>6
  <2>5. /\ slots'[k].sid = s[k].sid /\ slots'[k].pid = s[k].pid
        /\ slots'[k].pmt = s[k].pmt
    BY <1>5, <2>4 DEF Slot
  <2> QED
    BY <2>1, <2>2, <2>3, <2>5
<1> QED
  BY <1>2, <1>3, <1>8

LEMMA RemoveProgramKeepsIInv ==
  ASSUME IInv, RemoveProgram
  PROVE  IInv'
<1>0. PICK g, i : g = Head(todo) /\ i = Least(Matching(g.sid))
  OBVIOUS
<1>1. /\ pc = "remove" /\ todo # <<>>
      /\ g.sid # 0 /\ ~ Lists(pat, g.sid) /\ Matching(g.sid) # {}
      /\ g.sec + 1 \in DOMAIN slots
      /\ slots' = [[slots EXCEPT ![i] = Freed(i)] EXCEPT ![g.sec + 1].eit = NoEits]
      /\ refs' = [p \in Pids |-> refs[p] - EsOn(slots[i].pmt, p)]
      /\ todo' = Tail(todo)
      /\ UNCHANGED <<air, changes, pat, old, pc>>
  BY <1>0 DEF RemoveProgram
<1>2. slots \in Seq(Slot) /\ refs \in [Pids -> Int] /\ todo' \in Seq(Program)
  BY <1>1, HeadAndTail DEF IInv, TypeOK
<1>3. i \in Matching(g.sid) /\ i \in DOMAIN slots
  BY <1>0, <1>1, <1>2, MatchingIsIn
<1>4. /\ slots' \in Seq(Slot) /\ DOMAIN slots' = DOMAIN slots
      /\ Len(slots') = Len(slots)
      /\ slots'[i].sid = 0 /\ slots'[i].pmt = NULL
      /\ \A j \in DOMAIN slots \ {i} :
           slots'[j].sid = slots[j].sid /\ slots'[j].pmt = slots[j].pmt
      /\ \A j \in DOMAIN slots : slots'[j].pid = slots[j].pid
  BY <1>1, <1>2, <1>3, FreedAt
<1>5. \A h, pid : h \notin {0, g.sid} /\ KnownAs(h, pid) => KnownAs(h, pid)'
  BY <1>2, <1>3, <1>4, GivenUpKnown
<1>6. PassedKnown' /\ WaitingKnown' /\ TodoOfPat'
  BY <1>1, <1>5, RemovalKeepsPassed
<1>7. PmtsFinite'
  BY <1>4 DEF IInv, PmtsFinite
<1>8. \A p \in Pids : EsOn(slots[i].pmt, p) \in Int
  BY <1>3, EsOfCounted DEF IInv, PmtsFinite
<1>9. TypeOK'
  <2>1. refs' \in [Pids -> Int]
    BY <1>1, <1>2, <1>8
  <2> QED
    BY <1>1, <1>2, <1>4, <2>1 DEF IInv, TypeOK
<1> QED
  BY <1>1, <1>6, <1>7, <1>9 DEF IInv, Once

-----------------------------------------------------------------------------
(* PMTs and EITs.                                                          *)

(* The entry of a service, which is its first one or a new one. *)
LEMMA EntryAt ==
  ASSUME slots \in Seq(Slot), NEW sid \in Sids, NEW pid \in Pids \cup {NoPid}
  PROVE  /\ WithEntry(sid, pid) \in Seq(Slot)
         /\ EntryOf(sid) \in Nat
         /\ DOMAIN WithEntry(sid, pid) = DOMAIN slots \cup {EntryOf(sid)}
         /\ \A j \in DOMAIN slots : WithEntry(sid, pid)[j] = slots[j]
         /\ EntryOf(sid) \notin DOMAIN slots =>
              /\ WithEntry(sid, pid)[EntryOf(sid)] = NewSlot(sid, pid)
              /\ sid = 0 \/ Matching(sid) = {}
<1>1. CASE Known(sid)
  <2>1. EntryOf(sid) \in Matching(sid) /\ WithEntry(sid, pid) = slots
    BY <1>1, MatchingIsIn DEF Known, EntryOf, WithEntry
  <2>2. EntryOf(sid) \in DOMAIN slots /\ EntryOf(sid) \in Nat
    BY <2>1, MatchingIsIn
  <2> QED
    BY <2>1, <2>2
<1>2. CASE ~ Known(sid)
  <2>1. NewSlot(sid, pid) \in Slot
    BY DEF NewSlot, Slot, NoEits
  <2>2. EntryOf(sid) = Len(slots) + 1 /\ WithEntry(sid, pid) = Append(slots, NewSlot(sid, pid))
    BY <1>2 DEF EntryOf, WithEntry
  <2>3. /\ Append(slots, NewSlot(sid, pid)) \in Seq(Slot)
        /\ DOMAIN Append(slots, NewSlot(sid, pid)) = 1 .. Len(slots) + 1
        /\ Append(slots, NewSlot(sid, pid))[Len(slots) + 1] = NewSlot(sid, pid)
        /\ \A j \in 1 .. Len(slots) : Append(slots, NewSlot(sid, pid))[j] = slots[j]
    BY <2>1
  <2>4. /\ DOMAIN slots = 1 .. Len(slots) /\ Len(slots) \in Nat
        /\ 1 .. Len(slots) + 1 = DOMAIN slots \cup {Len(slots) + 1}
    OBVIOUS
  <2> QED
    BY <1>2, <2>2, <2>3, <2>4 DEF Known
<1> QED
  BY <1>1, <1>2

(* Whatever is entered into it, the services that are known stay so. *)
LEMMA EntryKeepsKnown ==
  ASSUME slots \in Seq(Slot), NEW i, DOMAIN slots' = DOMAIN slots \cup {i},
         \A j \in DOMAIN slots : slots'[j].sid = slots[j].sid /\ slots'[j].pid = slots[j].pid,
         i \notin DOMAIN slots => slots'[i].sid = 0 \/ Matching(slots'[i].sid) = {}
  PROVE  \A h, pid : h # 0 /\ KnownAs(h, pid) => KnownAs(h, pid)'
<1> SUFFICES ASSUME NEW h, NEW pid, h # 0, KnownAs(h, pid)
             PROVE  KnownAs(h, pid)'
  OBVIOUS
<1>1. Matching(h) # {}
  BY DEF KnownAs
<1>2. Matching(h)' = Matching(h)
  BY <1>1 DEF Matching
<1>3. \A j \in Matching(h) : slots'[j].pid = slots[j].pid
  BY DEF Matching
<1> QED
  BY <1>2, <1>3, StaysKnown

LEMMA EntryKeepsTables ==
  ASSUME IInv, pc = "idle", UNCHANGED <<pc, pat, old, todo>>,
         \A h, pid : h # 0 /\ KnownAs(h, pid) => KnownAs(h, pid)'
  PROVE  Once(pat)' /\ Once(old)' /\ TodoOfPat' /\ PassedKnown' /\ WaitingKnown'
<1>1. Waiting = {} /\ Waiting' = {}
  BY DEF Waiting
<1> QED
  BY <1>1 DEF IInv, Once, TodoOfPat, PassedKnown, WaitingKnown

(* What ReceivePmt does to the array. *)
LEMMA PmtEntered ==
  ASSUME IInv, NEW m \in AllPmts, ReceivePmt(m)
  PROVE  \E i \in Nat :
           /\ slots' \in Seq(Slot) /\ Len(slots') <= MaxSlots
           /\ DOMAIN slots' = DOMAIN slots \cup {i}
           /\ \A j \in DOMAIN slots : slots'[j].sid = slots[j].sid /\ slots'[j].pid = slots[j].pid
           /\ \A j \in DOMAIN slots \ {i} : slots'[j].pmt = slots[j].pmt
           /\ slots'[i].pmt = m.pmt
           /\ i \notin DOMAIN slots => slots'[i].sid = 0 \/ Matching(slots'[i].sid) = {}
           /\ refs' = Selected(IF i \in DOMAIN slots THEN slots[i].pmt ELSE NULL, m.pmt)
<1> DEFINE s == WithEntry(m.pmt.sid, m.pid)
           i == EntryOf(m.pmt.sid)
           v == [s[i] EXCEPT !.pmt = m.pmt]
<1>1. /\ Len(s) <= MaxSlots /\ slots' = [s EXCEPT ![i].pmt = m.pmt]
      /\ refs' = Selected(s[i].pmt, m.pmt)
  BY DEF ReceivePmt
<1>2. m.pid \in Pids /\ m.pmt \in Pmt /\ m.pmt.sid \in Sids /\ slots \in Seq(Slot)
  BY TrackerAssumption DEF AllPmts, Pmt, IInv, TypeOK
<1>3. /\ s \in Seq(Slot) /\ i \in Nat /\ DOMAIN s = DOMAIN slots \cup {i}
      /\ \A j \in DOMAIN slots : s[j] = slots[j]
      /\ i \notin DOMAIN slots => /\ s[i] = NewSlot(m.pmt.sid, m.pid)
                                  /\ m.pmt.sid = 0 \/ Matching(m.pmt.sid) = {}
  BY <1>2, EntryAt
<1> HIDE DEF s, i
<1>4. s[i] \in Slot /\ v \in Slot /\ v.pmt = m.pmt /\ v.sid = s[i].sid /\ v.pid = s[i].pid
  <2>1. s[i] \in Slot
    <3>1. s \in Seq(Slot) /\ i \in DOMAIN s
      BY <1>3
    <3> QED
      BY ONLY <3>1
  <2> QED
    BY <1>2, <2>1 DEF Slot
<1>5. slots' = [s EXCEPT ![i] = v]
  BY <1>1
<1> HIDE DEF v
<1>6. /\ slots' \in Seq(Slot) /\ DOMAIN slots' = DOMAIN s /\ slots'[i] = v
      /\ \A j \in DOMAIN s \ {i} : slots'[j] = s[j]
      /\ Len(slots') = Len(s)
  BY ONLY <1>3, <1>4, <1>5
<1>7. \A j \in DOMAIN slots : slots'[j].sid = slots[j].sid /\ slots'[j].pid = slots[j].pid
  BY <1>3, <1>4, <1>6
<1>8. \A j \in DOMAIN slots \ {i} : slots'[j].pmt = slots[j].pmt
  BY <1>3, <1>6
<1>9. i \notin DOMAIN slots => slots'[i].sid = 0 \/ Matching(slots'[i].sid) = {}
  BY SMTT(30), <1>3, <1>4, <1>6 DEF NewSlot
<1>10. s[i].pmt = IF i \in DOMAIN slots THEN slots[i].pmt ELSE NULL
  BY <1>3 DEF NewSlot
<1> QED
  BY <1>1, <1>3, <1>4, <1>6, <1>7, <1>8, <1>9, <1>10

LEMMA ReceivePmtKeepsIInv ==
  ASSUME IInv, NEW m \in AllPmts, ReceivePmt(m)
  PROVE  IInv'
<1>1. PICK i \in Nat :
        /\ slots' \in Seq(Slot) /\ Len(slots') <= MaxSlots
        /\ DOMAIN slots' = DOMAIN slots \cup {i}
        /\ \A j \in DOMAIN slots : slots'[j].sid = slots[j].sid /\ slots'[j].pid = slots[j].pid
        /\ \A j \in DOMAIN slots \ {i} : slots'[j].pmt = slots[j].pmt
        /\ slots'[i].pmt = m.pmt
        /\ i \notin DOMAIN slots => slots'[i].sid = 0 \/ Matching(slots'[i].sid) = {}
        /\ refs' = Selected(IF i \in DOMAIN slots THEN slots[i].pmt ELSE NULL, m.pmt)
  BY PmtEntered
<1>2. pc = "idle" /\ UNCHANGED <<air, changes, pat, old, todo, pc>>
  BY DEF ReceivePmt
<1>3. slots \in Seq(Slot) /\ refs \in [Pids -> Int]
  BY DEF IInv, TypeOK
<1>4. m.pmt # NULL /\ IsFiniteSet(m.pmt.es)
  BY TrackerAssumption DEF AllPmts
<1>5. \A h, pid : h # 0 /\ KnownAs(h, pid) => KnownAs(h, pid)'
  BY <1>1, <1>3, EntryKeepsKnown
<1>6. Once(pat)' /\ Once(old)' /\ TodoOfPat' /\ PassedKnown' /\ WaitingKnown'
  BY <1>2, <1>5, EntryKeepsTables
<1>7. PmtsFinite'
  BY <1>1, <1>4 DEF IInv, PmtsFinite
<1>8. refs' \in [Pids -> Int]
  <2> DEFINE was == IF i \in DOMAIN slots THEN slots[i].pmt ELSE NULL
  <2>1. was # NULL => IsFiniteSet(was.es)
    BY DEF IInv, PmtsFinite
  <2> HIDE DEF was
  <2>2. \A p : EsOn(was, p) \in Int /\ EsOn(m.pmt, p) \in Int
    BY <1>4, <2>1, EsOfCounted
  <2> QED
    BY <1>1, <1>3, <2>2 DEF Selected, was
<1>9. TypeOK'
  BY <1>1, <1>2, <1>8 DEF IInv, TypeOK
<1> QED
  BY <1>6, <1>7, <1>9 DEF IInv

(* What ReceiveEit does to the array. *)
LEMMA EitEntered ==
  ASSUME IInv, NEW e \in AllEits, ReceiveEit(e)
  PROVE  \E i \in Nat :
           /\ slots' \in Seq(Slot) /\ Len(slots') <= MaxSlots
           /\ DOMAIN slots' = DOMAIN slots \cup {i}
           /\ \A j \in DOMAIN slots : /\ slots'[j].sid = slots[j].sid
                                      /\ slots'[j].pid = slots[j].pid
                                      /\ slots'[j].pmt = slots[j].pmt
           /\ i \notin DOMAIN slots => /\ slots'[i].sid = 0 \/ Matching(slots'[i].sid) = {}
                                       /\ slots'[i].pmt = NULL
<1> DEFINE s == WithEntry(e.sid, NoPid)
           i == EntryOf(e.sid)
           v == [s[i] EXCEPT !.eit = [s[i].eit EXCEPT ![e.num] = e]]
<1>1. Len(s) <= MaxSlots /\ slots' = [s EXCEPT ![i].eit[e.num] = e]
  BY DEF ReceiveEit
<1>2. e \in Eit /\ e.sid \in Sids /\ slots \in Seq(Slot)
  BY TrackerAssumption DEF AllEits, Eit, IInv, TypeOK
<1>3. /\ s \in Seq(Slot) /\ i \in Nat /\ DOMAIN s = DOMAIN slots \cup {i}
      /\ \A j \in DOMAIN slots : s[j] = slots[j]
      /\ i \notin DOMAIN slots => /\ s[i] = NewSlot(e.sid, NoPid)
                                  /\ e.sid = 0 \/ Matching(e.sid) = {}
  BY <1>2, EntryAt
<1> HIDE DEF s, i
<1>4. s[i] \in Slot
  <2>1. s \in Seq(Slot) /\ i \in DOMAIN s
    BY <1>3
  <2> QED
    BY ONLY <2>1
<1>5. /\ v \in Slot /\ v.pmt = s[i].pmt /\ v.sid = s[i].sid /\ v.pid = s[i].pid
  <2> DEFINE w == [s[i].eit EXCEPT ![e.num] = e]
  <2>1. w \in [EitNums -> Eit \cup {NULL}]
    BY <1>2, <1>4 DEF Slot
  <2> HIDE DEF w
  <2> QED
    BY <1>4, <2>1 DEF Slot, w
<1>6. slots' = [s EXCEPT ![i] = v]
  BY <1>1
<1> HIDE DEF v
<1>7. /\ slots' \in Seq(Slot) /\ DOMAIN slots' = DOMAIN s /\ slots'[i] = v
      /\ \A j \in DOMAIN s \ {i} : slots'[j] = s[j]
      /\ Len(slots') = Len(s)
  BY ONLY <1>3, <1>5, <1>6
<1>8. \A j \in DOMAIN slots : /\ slots'[j].sid = slots[j].sid
                              /\ slots'[j].pid = slots[j].pid
                              /\ slots'[j].pmt = slots[j].pmt
  BY <1>3, <1>5, <1>7
<1>9. i \notin DOMAIN slots => /\ slots'[i].sid = 0 \/ Matching(slots'[i].sid) = {}
                               /\ slots'[i].pmt = NULL
  BY SMTT(30), <1>3, <1>5, <1>7 DEF NewSlot
<1> QED
  BY <1>1, <1>3, <1>7, <1>8, <1>9

LEMMA ReceiveEitKeepsIInv ==
  ASSUME IInv, NEW e \in AllEits, ReceiveEit(e)
  PROVE  IInv'
<1>1. PICK i \in Nat :
        /\ slots' \in Seq(Slot) /\ Len(slots') <= MaxSlots
        /\ DOMAIN slots' = DOMAIN slots \cup {i}
        /\ \A j \in DOMAIN slots : /\ slots'[j].sid = slots[j].sid
                                   /\ slots'[j].pid = slots[j].pid
                                   /\ slots'[j].pmt = slots[j].pmt
        /\ i \notin DOMAIN slots => /\ slots'[i].sid = 0 \/ Matching(slots'[i].sid) = {}
                                    /\ slots'[i].pmt = NULL
  BY EitEntered
<1>2. pc = "idle" /\ UNCHANGED <<air, changes, pat, old, todo, pc, refs>>
  BY DEF ReceiveEit
<1>3. slots \in Seq(Slot)
  BY DEF IInv, TypeOK
<1>4. \A h, pid : h # 0 /\ KnownAs(h, pid) => KnownAs(h, pid)'
  BY <1>1, <1>3, EntryKeepsKnown
<1>5. Once(pat)' /\ Once(old)' /\ TodoOfPat' /\ PassedKnown' /\ WaitingKnown'
  BY <1>2, <1>4, EntryKeepsTables
<1>6. PmtsFinite'
  BY <1>1 DEF IInv, PmtsFinite
<1>7. TypeOK'
  BY <1>1, <1>2 DEF IInv, TypeOK
<1> QED
  BY <1>5, <1>6, <1>7 DEF IInv

LEMMA ChangeKeepsIInv ==
  ASSUME IInv, Change
  PROVE  IInv'
<1>1. TypeOK'
  BY TrackerAssumption DEF Change, IInv, TypeOK
<1>2. Waiting' = Waiting
  BY DEF Change, Waiting
<1>3. Once(pat)' /\ Once(old)' /\ TodoOfPat' /\ PmtsFinite'
  BY DEF Change, IInv, Once, TodoOfPat, PmtsFinite
<1>4. PassedKnown' /\ WaitingKnown'
  BY <1>2, KnownUnchanged DEF Change, IInv, PassedKnown, WaitingKnown
<1> QED
  BY <1>1, <1>3, <1>4 DEF IInv

-----------------------------------------------------------------------------
(* The invariant holds in every state of both programs.                    *)

LEMMA InitIInv ==
  ASSUME Init \/ PcrInit
  PROVE  IInv
<1>1. TypeOK
  <2>1. refs \in [Pids -> Int]
    BY DEF Init, PcrInit, One
  <2>2. <<>> \in Seq(Program) /\ <<>> \in Seq(Slot) /\ Len(<<>>) = 0 /\ MaxSlots \in Nat
    BY TrackerAssumption
  <2>3. /\ air \in Airs /\ changes = 0 /\ pc = "idle" /\ slots = <<>>
        /\ pat = <<>> /\ old = <<>> /\ todo = <<>>
    BY DEF Init, PcrInit
  <2> QED
    BY <2>1, <2>2, <2>3, TrackerAssumption DEF TypeOK
<1>2. Once(pat) /\ Once(old) /\ TodoOfPat /\ PassedKnown /\ WaitingKnown /\ PmtsFinite
  BY DEF Init, PcrInit, Once, TodoOfPat, PassedKnown, WaitingKnown, PmtsFinite
<1> QED
  BY <1>1, <1>2 DEF IInv

LEMMA StutterKeepsIInv ==
  ASSUME IInv, UNCHANGED vars
  PROVE  IInv'
<1>1. Waiting' = Waiting
  BY DEF vars, Waiting
<1>2. TypeOK' /\ Once(pat)' /\ Once(old)' /\ TodoOfPat' /\ PmtsFinite'
  BY DEF vars, IInv, TypeOK, Once, TodoOfPat, PmtsFinite
<1>3. PassedKnown' /\ WaitingKnown'
  BY <1>1, KnownUnchanged DEF vars, IInv, PassedKnown, WaitingKnown
<1> QED
  BY <1>2, <1>3 DEF IInv

LEMMA StepKeepsIInv ==
  ASSUME IInv, [Next]_vars
  PROVE  IInv'
<1>1. CASE UNCHANGED vars
  BY <1>1, StutterKeepsIInv
<1>2. CASE Walk
  BY <1>2, SkipAddKeepsIInv, AddProgramKeepsIInv, AddDoneKeepsIInv, QuietKeepsIInv,
     RemoveProgramKeepsIInv DEF Walk
<1> QED
  BY <1>1, <1>2, ChangeKeepsIInv, ReceivePatKeepsIInv, ReceivePmtKeepsIInv,
     ReceiveEitKeepsIInv DEF Next

(* What GiveUpProgram does to the array. *)
LEMMA GivenUpAt ==
  ASSUME IInv, GiveUpProgram
  PROVE  \E sid, i :
           /\ ~ Lists(pat, sid) /\ i \in Matching(sid)
           /\ slots' \in Seq(Slot) /\ Len(slots') = Len(slots) /\ DOMAIN slots' = DOMAIN slots
           /\ slots'[i].sid = 0
           /\ \A j \in DOMAIN slots \ {i} : slots'[j].sid = slots[j].sid
           /\ \A j \in DOMAIN slots : /\ slots'[j].pid = slots[j].pid
                                      /\ slots'[j].pmt = slots[j].pmt
<1>0. PICK sid, i : sid = Head(todo).sid /\ i = Least(Matching(sid))
  OBVIOUS
<1>1. /\ ~ Lists(pat, sid) /\ Matching(sid) # {}
      /\ slots' = [slots EXCEPT ![i].sid = 0]
  BY <1>0 DEF GiveUpProgram
<1>2. slots \in Seq(Slot)
  BY DEF IInv, TypeOK
<1>3. i \in Matching(sid) /\ i \in DOMAIN slots
  BY <1>0, <1>1, <1>2, MatchingIsIn
<1> DEFINE v == [slots[i] EXCEPT !.sid = 0]
<1>4. v \in Slot /\ v.sid = 0 /\ v.pid = slots[i].pid /\ v.pmt = slots[i].pmt
  <2>1. slots[i] \in Slot
    BY <1>2, <1>3
  <2> QED
    BY <2>1, TrackerAssumption DEF Slot
<1>5. slots' = [slots EXCEPT ![i] = v]
  BY <1>1
<1> HIDE DEF v
<1>6. /\ slots' \in Seq(Slot) /\ DOMAIN slots' = DOMAIN slots /\ slots'[i] = v
      /\ \A j \in DOMAIN slots \ {i} : slots'[j] = slots[j]
      /\ Len(slots') = Len(slots)
  BY ONLY <1>2, <1>3, <1>4, <1>5
<1> QED
  BY <1>1, <1>3, <1>4, <1>6

LEMMA GiveUpKeepsIInv ==
  ASSUME IInv, GiveUpProgram
  PROVE  IInv'
<1>1. PICK sid, i :
        /\ ~ Lists(pat, sid) /\ i \in Matching(sid)
        /\ slots' \in Seq(Slot) /\ Len(slots') = Len(slots) /\ DOMAIN slots' = DOMAIN slots
        /\ slots'[i].sid = 0
        /\ \A j \in DOMAIN slots \ {i} : slots'[j].sid = slots[j].sid
        /\ \A j \in DOMAIN slots : /\ slots'[j].pid = slots[j].pid
                                   /\ slots'[j].pmt = slots[j].pmt
  BY GivenUpAt
<1>2. /\ pc = "remove" /\ todo # <<>> /\ todo' = Tail(todo)
      /\ UNCHANGED <<air, changes, pat, old, pc, refs>>
  BY DEF GiveUpProgram
<1>3. slots \in Seq(Slot) /\ todo' \in Seq(Program)
  BY <1>2, HeadAndTail DEF IInv, TypeOK
<1>4. \A h, pid : h \notin {0, sid} /\ KnownAs(h, pid) => KnownAs(h, pid)'
  BY <1>1, <1>3, GivenUpKnown
<1>5. PassedKnown' /\ WaitingKnown' /\ TodoOfPat'
  BY <1>1, <1>2, <1>4, RemovalKeepsPassed
<1>6. PmtsFinite'
  BY <1>1 DEF IInv, PmtsFinite
<1>7. TypeOK'
  BY <1>1, <1>2, <1>3 DEF IInv, TypeOK
<1> QED
  BY <1>2, <1>5, <1>6, <1>7 DEF IInv, Once

LEMMA PcrStepKeepsIInv ==
  ASSUME IInv, [PcrNext]_pcrVars
  PROVE  IInv'
<1>1. CASE UNCHANGED vars
  BY <1>1, StutterKeepsIInv
<1>2. CASE HandlePat
  BY <1>2, ReceivePatKeepsIInv, SkipAddKeepsIInv, AddProgramKeepsIInv, AddDoneKeepsIInv,
     QuietKeepsIInv, GiveUpKeepsIInv DEF HandlePat
<1> QED
  BY <1>1, <1>2, ChangeKeepsIInv DEF PcrNext, pcrVars

-----------------------------------------------------------------------------
(* The reasons that PATs give.                                             *)

LEMMA ProgramNumbers ==
  ASSUME NEW t \in Seq(Program), NEW i \in DOMAIN t
  PROVE  t[i].sid \in Sids
<1>1. t[i] \in Program
  OBVIOUS
<1> QED
  BY <1>1 DEF Program

LEMMA PmtReasonsAre ==
  ASSUME IInv, NEW p, NEW h
  PROVE  h \in PmtReasons(p) <=>
           /\ h # 0
           /\ \/ h \notin Waiting /\ \E i \in DOMAIN pat : pat[i].pid = p /\ pat[i].sid = h
              \/ h \in Waiting /\ \E i \in DOMAIN old : old[i].pid = p /\ old[i].sid = h
<1>1. \A i \in DOMAIN pat : pat[i].sid \in Sids
  BY ProgramNumbers DEF IInv, TypeOK
<1> QED
  BY <1>1 DEF PmtReasons, Programs

LEMMA ProgramsFinite ==
  ASSUME NEW t \in Seq(Program), NEW p, NEW sids
  PROVE  IsFiniteSet(Programs(t, p, sids))
<1> DEFINE f == [i \in DOMAIN t |-> t[i].sid]
           T == {f[i] : i \in DOMAIN t}
<1>1. IsFiniteSet(T)
  <2>1. IsFiniteSet(DOMAIN t) /\ DOMAIN f = DOMAIN t
    BY FiniteDomain
  <2> HIDE DEF f
  <2> QED
    BY <2>1, FiniteImage
<1>2. Programs(t, p, sids) \subseteq T
  BY DEF Programs
<1> HIDE DEF T
<1> QED
  BY <1>1, <1>2, FS_Subset

LEMMA PmtReasonsFinite ==
  ASSUME IInv, NEW p
  PROVE  IsFiniteSet(PmtReasons(p)) /\ Cardinality(PmtReasons(p)) \in Nat
<1>1. pat \in Seq(Program) /\ old \in Seq(Program)
  BY DEF IInv, TypeOK
<1>2. IsFiniteSet(PmtReasons(p))
  BY <1>1, ProgramsFinite, FS_Union DEF PmtReasons
<1> QED
  BY <1>2, FS_CardinalityType

LEMMA EsReasonsFinite ==
  ASSUME IInv, NEW p
  PROVE  IsFiniteSet(EsReasons(p)) /\ Cardinality(EsReasons(p)) \in Nat
<1>1. IsFiniteSet(EsReasons(p))
  BY EsFinite DEF IInv, TypeOK
<1> QED
  BY <1>1, FS_CardinalityType

(* One program of a table more, or fewer. *)
LEMMA OneMember ==
  ASSUME NEW S, IsFiniteSet(S), NEW T, NEW x, \A y : y # x => (y \in T <=> y \in S)
  PROVE  Cardinality(T) = Cardinality(S) - One(x \in S) + One(x \in T)
<1>1. IsFiniteSet(S \ {x}) /\ Cardinality(S) \in Nat
  BY FS_RemoveElement, FS_CardinalityType
<1>2. Cardinality(S \ {x}) = Cardinality(S) - One(x \in S)
  <2>1. Cardinality(S \ {x}) = IF x \in S THEN Cardinality(S) - 1 ELSE Cardinality(S)
    BY FS_RemoveElement
  <2> QED
    BY <1>1, <2>1 DEF One
<1>3. CASE x \in T
  <2>1. T = (S \ {x}) \cup {x}
    BY <1>3
  <2>2. Cardinality((S \ {x}) \cup {x}) = Cardinality(S \ {x}) + 1
    BY <1>1, FS_AddElement
  <2> QED
    BY <1>1, <1>2, <1>3, <2>1, <2>2 DEF One
<1>4. CASE x \notin T
  <2>1. T = S \ {x}
    BY <1>4
  <2> QED
    BY <1>1, <1>2, <1>4, <2>1 DEF One
<1> QED
  BY <1>3, <1>4

(* What moves when the first walk goes on: one program, from where the old *)
(* PAT had it to where the new one has it.                                 *)
LEMMA WalkMovesOne ==
  ASSUME IInv, pc = "add", UNCHANGED <<pc, pat, old>>, NEW p \in Pids,
         todo # <<>>, todo' = Tail(todo), NEW g, g = Head(todo), g.sid # 0
  PROVE  Cardinality(PmtReasons(p)') =
           Cardinality(PmtReasons(p)) - One(Lists(old, g.sid) /\ PidIn(old, g.sid) = p)
                                      + One(p = g.pid)
<1>1. /\ Waiting' = Waiting \ {g.sid} /\ g.sid \in Waiting
  BY WaitingTail DEF IInv, TypeOK, TodoOfPat
<1>2. g.sid \in PmtReasons(p) <=> Lists(old, g.sid) /\ PidIn(old, g.sid) = p
  <2>1. g.sid \in PmtReasons(p) <=> \E i \in DOMAIN old : old[i].pid = p /\ old[i].sid = g.sid
    BY <1>1, PmtReasonsAre
  <2>2. \A i \in DOMAIN old : Lists(old, old[i].sid) /\ PidIn(old, old[i].sid) = old[i].pid
    BY PidOfEntry DEF IInv, TypeOK
  <2> QED
    BY <2>1, <2>2, EntryOfListed
<1>3. \A h : h \in PmtReasons(p)' <=>
           /\ h # 0
           /\ \/ h \notin Waiting' /\ \E i \in DOMAIN pat : pat[i].pid = p /\ pat[i].sid = h
              \/ h \in Waiting' /\ \E i \in DOMAIN old : old[i].pid = p /\ old[i].sid = h
  <2>1. \A i \in DOMAIN pat : pat[i].sid \in Sids
    BY ProgramNumbers DEF IInv, TypeOK
  <2> QED
    BY <2>1 DEF PmtReasons, Programs
<1>4. g.sid \in PmtReasons(p)' <=> p = g.pid
  <2>1. PICK j \in DOMAIN pat : pat[j] = g
    BY HeadAndTail DEF IInv, TypeOK, TodoOfPat
  <2>2. \A i \in DOMAIN pat : pat[i].sid = g.sid => pat[i] = g
    BY HeadIsOfPat
  <2> QED
    BY <1>1, <1>3, <2>1, <2>2
<1>5. \A h : h # g.sid => (h \in PmtReasons(p)' <=> h \in PmtReasons(p))
  BY <1>1, <1>3, PmtReasonsAre
<1> DEFINE S == PmtReasons(p)
           T == PmtReasons(p)'
<1>6. IsFiniteSet(S)
  BY PmtReasonsFinite
<1> HIDE DEF S, T
<1>7. Cardinality(T) = Cardinality(S) - One(g.sid \in S) + One(g.sid \in T)
  BY <1>5, <1>6, OneMember DEF S, T
<1> QED
  BY <1>2, <1>4, <1>7 DEF S, T, One

-----------------------------------------------------------------------------
(* The count of a PID.                                                     *)

(* Steps that switch no PAT in count every reason that comes or goes. *)
LEMMA Balanced ==
  ASSUME IInv, UNCHANGED pat, NEW p \in Pids, NEW c \in Int, NEW d \in Int,
         Cardinality(PmtReasons(p)') = Cardinality(PmtReasons(p)) + c,
         Cardinality(EsReasons(p)') = Cardinality(EsReasons(p)) + d,
         refs'[p] = refs[p] + c + d
  PROVE  Excess(p)' = Excess(p) + Cardinality(Withdrawn(p))
<1>1. \A i \in DOMAIN pat : Lists(pat, pat[i].sid)
  BY PidOfEntry DEF IInv, TypeOK
<1>2. Withdrawn(p) = {}
  BY <1>1 DEF Withdrawn
<1>3. Cardinality(Withdrawn(p)) = 0
  BY <1>2, FS_EmptySet
<1>4. Cardinality(PmtReasons(p)) \in Int /\ Cardinality(EsReasons(p)) \in Int /\ refs[p] \in Int
  BY PmtReasonsFinite, EsReasonsFinite DEF IInv, TypeOK
<1>5. PICK o \in Int : o = One(p \in FixedPids)
  BY DEF One
<1>6. Excess(p)' = refs'[p] - o - Cardinality(PmtReasons(p)') - Cardinality(EsReasons(p)')
  BY <1>5 DEF Excess
<1>7. Excess(p) = refs[p] - o - Cardinality(PmtReasons(p)) - Cardinality(EsReasons(p))
  BY <1>5 DEF Excess
<1>8. PICK a \in Int, b \in Int, r \in Int :
        a = Cardinality(PmtReasons(p)) /\ b = Cardinality(EsReasons(p)) /\ r = refs[p]
  BY <1>4
<1>9. Excess(p)' = (r + c + d) - o - (a + c) - (b + d) /\ Excess(p) = r - o - a - b
  BY <1>6, <1>7, <1>8
<1>10. Excess(p)' = Excess(p) /\ Excess(p) \in Int
  BY ONLY <1>9, a \in Int, b \in Int, r \in Int, o \in Int, c \in Int, d \in Int
<1> QED
  BY <1>3, <1>10

(* A PAT that is switched in takes away the reasons it leaves out. *)
LEMMA PatExact ==
  ASSUME IInv, ReceivePat, NEW p \in Pids
  PROVE  Excess(p)' = Excess(p) + Cardinality(Withdrawn(p))
<1> DEFINE S == PmtReasons(p)
           T == PmtReasons(p)'
           W == Withdrawn(p)
           f == [i \in W |-> pat[i].sid]
<1>1. /\ pc = "idle" /\ old' = pat /\ pc' = "add" /\ todo' = pat' /\ UNCHANGED <<slots, refs>>
      /\ pat' = air.pat
  BY DEF ReceivePat
<1>2. Waiting = {} /\ Waiting' = {pat'[i].sid : i \in DOMAIN pat'}
  BY <1>1 DEF Waiting
<1>3. \A h : h \in S <=> h # 0 /\ \E i \in DOMAIN pat : pat[i].pid = p /\ pat[i].sid = h
  BY <1>2, PmtReasonsAre
<1>4. \A h : h \in T <=> h \in S /\ h \in Waiting'
  <2>1. \A h : h \in T <=>
          /\ h # 0
          /\ \/ h \notin Waiting' /\ h \in Sids /\ \E i \in DOMAIN pat' : pat'[i].pid = p /\ pat'[i].sid = h
             \/ h \in Waiting' /\ \E i \in DOMAIN pat : pat[i].pid = p /\ pat[i].sid = h
    BY <1>1 DEF PmtReasons, Programs
  <2> QED
    BY <1>2, <1>3, <2>1
<1>5. \A h : h \in Waiting' <=> Lists(pat', h)
  BY <1>2 DEF Lists, Entries
<1>6. \A i : i \in W <=> i \in DOMAIN pat /\ pat[i].sid \in S \ T /\ pat[i].pid = p
  BY <1>3, <1>4, <1>5 DEF Withdrawn
<1>7. \A i, j \in DOMAIN pat : pat[i].sid = pat[j].sid => i = j
  BY DEF IInv, Once
<1>8. f \in Bijection(W, S \ T)
  <2> HIDE DEF S, T, W
  <2>1. f \in [W -> S \ T]
    BY <1>6
  <2>2. \A i, j \in W : f[i] = f[j] => i = j
    BY <1>6, <1>7
  <2>3. \A h \in S \ T : \E i \in W : f[i] = h
    BY <1>3, <1>6
  <2> QED
    BY <2>1, <2>2, <2>3 DEF Bijection, Injection, IsInjective, Surjection
<1>9. IsFiniteSet(S) /\ Cardinality(S) \in Nat
  BY PmtReasonsFinite
<1>10. IsFiniteSet(W)
  <2>1. IsFiniteSet(DOMAIN pat)
    BY FiniteDomain DEF IInv, TypeOK
  <2> QED
    BY <2>1, FS_Subset DEF Withdrawn
<1> HIDE DEF S, T, W, f
<1>11. ExistsBijection(W, S \ T)
  BY <1>8 DEF ExistsBijection
<1>12. Cardinality(S \ T) = Cardinality(W)
  BY <1>10, <1>11, FS_Bijection
<1>13. Cardinality(S \ T) = Cardinality(S) - Cardinality(T) /\ T \subseteq S
  <2>1. Cardinality(S \ T) = Cardinality(S) - Cardinality(S \cap T)
    BY <1>9, FS_Difference
  <2>2. S \cap T = T /\ T \subseteq S
    BY <1>4
  <2> QED
    BY <2>1, <2>2
<1>14. Cardinality(T) \in Nat /\ Cardinality(W) \in Nat
  BY <1>9, <1>10, <1>13, FS_Subset, FS_CardinalityType
<1>15. Cardinality(T) = Cardinality(S) - Cardinality(W)
  BY <1>9, <1>12, <1>13, <1>14
<1>16. EsReasons(p)' = EsReasons(p)
  BY <1>1 DEF EsReasons
<1>17. PICK o \in Int : o = One(p \in FixedPids)
  BY DEF One
<1>18. PICK b \in Int, r \in Int : b = Cardinality(EsReasons(p)) /\ r = refs[p]
  BY EsReasonsFinite DEF IInv, TypeOK
<1>19. Excess(p)' = r - o - Cardinality(T) - b /\ Excess(p) = r - o - Cardinality(S) - b
  BY <1>1, <1>16, <1>17, <1>18 DEF Excess, S, T
<1> QED
  <2>1. Excess(p)' = Excess(p) + Cardinality(W)
    BY ONLY <1>9, <1>14, <1>15, <1>19, b \in Int, r \in Int, o \in Int
  <2> QED
    BY <2>1 DEF W

LEMMA ReasonsUnmoved ==
  ASSUME IInv, NEW p, UNCHANGED pat, Waiting' = {} /\ Waiting = {}
  PROVE  PmtReasons(p)' = PmtReasons(p)
BY DEF PmtReasons, Programs

(* Steps after which there are as many reasons as before. *)
LEMMA SteadyExact ==
  ASSUME IInv, NEW p \in Pids, UNCHANGED <<pat, refs>>,
         Cardinality(PmtReasons(p)') = Cardinality(PmtReasons(p)),
         EsReasons(p)' = EsReasons(p)
  PROVE  Excess(p)' = Excess(p) + Cardinality(Withdrawn(p))
<1>1. /\ Cardinality(PmtReasons(p)) \in Int /\ Cardinality(EsReasons(p)) \in Int
      /\ refs[p] \in Int
  BY PmtReasonsFinite, EsReasonsFinite DEF IInv, TypeOK
<1>2. PICK z \in Int : z = 0
  OBVIOUS
<1>3. /\ Cardinality(PmtReasons(p)') = Cardinality(PmtReasons(p)) + z
      /\ Cardinality(EsReasons(p)') = Cardinality(EsReasons(p)) + z
      /\ refs'[p] = refs[p] + z + z
  BY <1>1, <1>2
<1> QED
  BY <1>3, Balanced

LEMMA SkipAddExact ==
  ASSUME IInv, SkipAdd, NEW p \in Pids
  PROVE  Excess(p)' = Excess(p) + Cardinality(Withdrawn(p))
<1>0. PICK g : g = Head(todo)
  OBVIOUS
<1>1. /\ pc = "add" /\ todo # <<>> /\ Same(g) /\ todo' = Tail(todo)
      /\ UNCHANGED <<air, changes, pat, old, pc, slots, refs>>
  BY <1>0 DEF SkipAdd
<1>2. EsReasons(p)' = EsReasons(p)
  BY <1>1 DEF EsReasons
<1>3. /\ Cardinality(PmtReasons(p)) \in Int /\ Cardinality(EsReasons(p)) \in Int
      /\ refs[p] \in Int
  BY PmtReasonsFinite, EsReasonsFinite DEF IInv, TypeOK
<1>4. Cardinality(PmtReasons(p)') = Cardinality(PmtReasons(p))
  <2>1. CASE g.sid = 0
    <3>1. Waiting' = Waiting \ {0}
      BY <1>0, <1>1, <2>1, WaitingTail DEF IInv, TypeOK, TodoOfPat
    <3>2. Waiting' \ {0} = Waiting \ {0} /\ (Sids \ {0}) \ Waiting' = (Sids \ {0}) \ Waiting
      BY <3>1
    <3>3. PmtReasons(p)' = PmtReasons(p)
      BY <1>1, <3>2 DEF PmtReasons, Programs
    <3> QED
      BY <3>3
  <2>2. CASE g.sid # 0
    <3>1. Lists(old, g.sid) /\ PidIn(old, g.sid) = g.pid
      BY <1>1, <2>2 DEF Same
    <3>2. Cardinality(PmtReasons(p)') =
            Cardinality(PmtReasons(p)) - One(Lists(old, g.sid) /\ PidIn(old, g.sid) = p)
                                       + One(p = g.pid)
      BY <1>0, <1>1, <2>2, WalkMovesOne
    <3>3. CASE p = g.pid
      BY <1>3, <3>1, <3>2, <3>3 DEF One
    <3>4. CASE p # g.pid
      BY <1>3, <3>1, <3>2, <3>4 DEF One
    <3> QED
      BY <3>3, <3>4
  <2> QED
    BY <2>1, <2>2
<1> QED
  BY <1>1, <1>2, <1>4, SteadyExact

LEMMA AddProgramExact ==
  ASSUME IInv, AddProgram, NEW p \in Pids
  PROVE  Excess(p)' = Excess(p) + Cardinality(Withdrawn(p))
<1>0. PICK g : g = Head(todo)
  OBVIOUS
<1>1. /\ pc = "add" /\ todo # <<>> /\ ~ Same(g) /\ todo' = Tail(todo)
      /\ slots' = Placed(g) /\ refs' = Counted(g)
      /\ UNCHANGED <<air, changes, pat, old, pc>>
  BY <1>0 DEF AddProgram
<1>2. g \in Program /\ slots \in Seq(Slot) /\ refs[p] \in Int /\ g.sid # 0
  BY <1>0, <1>1, HeadAndTail DEF IInv, TypeOK, Same
<1>3. EsReasons(p)' = EsReasons(p)
  <2>1. PICK k \in Nat :
          /\ DOMAIN slots' = DOMAIN slots \cup {k}
          /\ k \in DOMAIN slots =>
               slots'[k] = [slots[k] EXCEPT !.sid = g.sid, !.pid = g.pid]
          /\ k \notin DOMAIN slots => slots'[k] = NewSlot(g.sid, g.pid)
          /\ \A j \in DOMAIN slots \ {k} : slots'[j] = slots[j]
    BY <1>1, <1>2, PlacedAt
  <2>2. \A j \in DOMAIN slots : slots[j] \in Slot
    BY <1>2
  <2>3. k \in DOMAIN slots => slots'[k].pmt = slots[k].pmt
    BY <2>1, <2>2 DEF Slot
  <2>4. k \notin DOMAIN slots => slots'[k].pmt = NULL
    BY <2>1 DEF NewSlot
  <2> QED
    BY <2>1, <2>3, <2>4, EsKept
<1>4. PICK c \in Int : c = One(p = g.pid) - One(Lists(old, g.sid) /\ PidIn(old, g.sid) = p)
  BY DEF One
<1>5. Cardinality(PmtReasons(p)) \in Int /\ Cardinality(EsReasons(p)) \in Int
  BY PmtReasonsFinite, EsReasonsFinite
<1>6. PICK a \in Int, b \in Int :
        a = One(p = g.pid) /\ b = One(Lists(old, g.sid) /\ PidIn(old, g.sid) = p)
  BY DEF One
<1>7. Cardinality(PmtReasons(p)') = Cardinality(PmtReasons(p)) + c
  <2>1. Cardinality(PmtReasons(p)') = Cardinality(PmtReasons(p)) - b + a
    BY <1>0, <1>1, <1>2, <1>6, WalkMovesOne
  <2> QED
    BY <1>4, <1>5, <1>6, <2>1
<1>8. PICK z \in Int : z = 0
  OBVIOUS
<1>9. refs'[p] = refs[p] + c + z
  <2>1. refs'[p] = refs[p] - b + a
    BY <1>1, <1>6 DEF Counted
  <2> QED
    BY <1>2, <1>4, <1>6, <1>8, <2>1
<1>10. Cardinality(EsReasons(p)') = Cardinality(EsReasons(p)) + z
  BY <1>3, <1>5, <1>8
<1> QED
  BY <1>1, <1>7, <1>9, <1>10, Balanced

LEMMA QuietExact ==
  ASSUME IInv, NEW p \in Pids,
         \/ AddDone \/ SkipRemove \/ RemoveUndefined \/ RemoveDone
         \/ Change \/ UNCHANGED vars
  PROVE  Excess(p)' = Excess(p) + Cardinality(Withdrawn(p))
<1>1. UNCHANGED <<pat, slots, refs>>
  BY DEF AddDone, SkipRemove, RemoveUndefined, RemoveDone, Change, vars
<1>2. EsReasons(p)' = EsReasons(p)
  BY <1>1 DEF EsReasons
<1>3. PmtReasons(p)' = PmtReasons(p)
  <2>1. CASE Change \/ UNCHANGED vars
    BY <2>1 DEF Change, vars, PmtReasons, Programs, Waiting
  <2>2. CASE AddDone \/ SkipRemove \/ RemoveUndefined \/ RemoveDone
    <3>1. Waiting' = {} /\ Waiting = {}
      BY <2>2 DEF AddDone, SkipRemove, RemoveUndefined, RemoveDone, Waiting
    <3> QED
      BY <1>1, <3>1, ReasonsUnmoved
  <2> QED
    BY <2>1, <2>2
<1> QED
  BY <1>1, <1>2, <1>3, SteadyExact

(* Steps that replace the PMT of one entry and leave the tables alone. *)
LEMMA PmtExact ==
  ASSUME IInv, IInv', NEW p \in Pids, UNCHANGED pat, Waiting = {}, Waiting' = {},
         NEW i \in DOMAIN slots', DOMAIN slots' = DOMAIN slots \cup {i}, NEW was,
         \A j \in DOMAIN slots \ {i} : slots'[j].pmt = slots[j].pmt,
         was = IF i \in DOMAIN slots THEN slots[i].pmt ELSE NULL,
         refs'[p] = refs[p] - EsOn(was, p) + EsOn(slots'[i].pmt, p)
  PROVE  Excess(p)' = Excess(p) + Cardinality(Withdrawn(p))
<1>1. slots \in Seq(Slot) /\ slots' \in Seq(Slot) /\ PmtsFinite /\ PmtsFinite'
  BY DEF IInv, TypeOK
<1>2. /\ Cardinality(EsReasons(p)') =
           Cardinality(EsReasons(p)) - EsOn(was, p) + EsOn(slots'[i].pmt, p)
      /\ EsOn(was, p) \in Nat /\ EsOn(slots'[i].pmt, p) \in Nat
  BY <1>1, EsReplaced
<1>3. /\ Cardinality(PmtReasons(p)) \in Int /\ Cardinality(EsReasons(p)) \in Int
      /\ refs[p] \in Int
  BY PmtReasonsFinite, EsReasonsFinite DEF IInv, TypeOK
<1>4. PICK z \in Int, d \in Int : z = 0 /\ d = EsOn(slots'[i].pmt, p) - EsOn(was, p)
  BY <1>2
<1>5. Cardinality(PmtReasons(p)') = Cardinality(PmtReasons(p)) + z
  BY <1>3, <1>4, ReasonsUnmoved
<1>6. /\ Cardinality(EsReasons(p)') = Cardinality(EsReasons(p)) + d
      /\ refs'[p] = refs[p] + z + d
  BY <1>2, <1>3, <1>4
<1> QED
  BY <1>5, <1>6, Balanced

LEMMA RemoveProgramExact ==
  ASSUME IInv, RemoveProgram, NEW p \in Pids
  PROVE  Excess(p)' = Excess(p) + Cardinality(Withdrawn(p))
<1>0. PICK g, i : g = Head(todo) /\ i = Least(Matching(g.sid))
  OBVIOUS
<1>1. /\ pc = "remove" /\ Matching(g.sid) # {} /\ g.sec + 1 \in DOMAIN slots
      /\ slots' = [[slots EXCEPT ![i] = Freed(i)] EXCEPT ![g.sec + 1].eit = NoEits]
      /\ refs' = [q \in Pids |-> refs[q] - EsOn(slots[i].pmt, q)]
      /\ UNCHANGED <<pat, pc>>
  BY <1>0 DEF RemoveProgram
<1>2. slots \in Seq(Slot) /\ refs[p] \in Int
  BY DEF IInv, TypeOK
<1>3. i \in DOMAIN slots
  BY <1>0, <1>1, <1>2, MatchingIsIn
<1>4. /\ DOMAIN slots' = DOMAIN slots /\ slots'[i].pmt = NULL
      /\ \A j \in DOMAIN slots \ {i} : slots'[j].pmt = slots[j].pmt
  BY <1>1, <1>2, <1>3, FreedAt
<1>5. Waiting = {} /\ Waiting' = {}
  BY <1>1 DEF Waiting
<1>6. EsOn(slots[i].pmt, p) \in Int
  BY <1>3, EsOfCounted DEF IInv, PmtsFinite
<1>7. refs'[p] = refs[p] - EsOn(slots[i].pmt, p) + EsOn(slots'[i].pmt, p)
  BY <1>1, <1>2, <1>4, <1>6 DEF EsOn
<1>8. DOMAIN slots' = DOMAIN slots \cup {i} /\ i \in DOMAIN slots'
  BY <1>3, <1>4
<1> QED
  BY <1>1, <1>3, <1>4, <1>5, <1>7, <1>8, RemoveProgramKeepsIInv, PmtExact

LEMMA ReceivePmtExact ==
  ASSUME IInv, NEW m \in AllPmts, ReceivePmt(m), NEW p \in Pids
  PROVE  Excess(p)' = Excess(p) + Cardinality(Withdrawn(p))
<1>1. PICK i \in Nat :
        /\ DOMAIN slots' = DOMAIN slots \cup {i}
        /\ \A j \in DOMAIN slots \ {i} : slots'[j].pmt = slots[j].pmt
        /\ slots'[i].pmt = m.pmt
        /\ refs' = Selected(IF i \in DOMAIN slots THEN slots[i].pmt ELSE NULL, m.pmt)
  BY PmtEntered
<1>2. Waiting = {} /\ Waiting' = {} /\ UNCHANGED pat
  BY DEF ReceivePmt, Waiting
<1>3. PICK was : was = IF i \in DOMAIN slots THEN slots[i].pmt ELSE NULL
  OBVIOUS
<1>4. refs'[p] = refs[p] - EsOn(was, p) + EsOn(slots'[i].pmt, p)
  BY <1>1, <1>3 DEF Selected
<1>5. i \in DOMAIN slots'
  BY <1>1
<1> QED
  BY <1>1, <1>2, <1>3, <1>4, <1>5, ReceivePmtKeepsIInv, PmtExact

LEMMA ReceiveEitExact ==
  ASSUME IInv, NEW e \in AllEits, ReceiveEit(e), NEW p \in Pids
  PROVE  Excess(p)' = Excess(p) + Cardinality(Withdrawn(p))
<1>1. PICK i \in Nat :
        /\ DOMAIN slots' = DOMAIN slots \cup {i}
        /\ \A j \in DOMAIN slots : slots'[j].pmt = slots[j].pmt
        /\ i \notin DOMAIN slots => slots'[i].pmt = NULL
  BY EitEntered
<1>2. Waiting = {} /\ Waiting' = {} /\ UNCHANGED <<pat, refs>>
  BY DEF ReceiveEit, Waiting
<1>3. EsReasons(p)' = EsReasons(p)
  BY <1>1, EsKept
<1>4. PmtReasons(p)' = PmtReasons(p)
  BY <1>2, ReasonsUnmoved
<1> QED
  BY <1>2, <1>3, <1>4, SteadyExact

LEMMA GiveUpExact ==
  ASSUME IInv, GiveUpProgram, NEW p \in Pids
  PROVE  Excess(p)' = Excess(p) + Cardinality(Withdrawn(p))
<1>1. DOMAIN slots' = DOMAIN slots /\ \A j \in DOMAIN slots : slots'[j].pmt = slots[j].pmt
  BY GivenUpAt
<1>2. Waiting = {} /\ Waiting' = {} /\ UNCHANGED <<pat, refs>>
  BY DEF GiveUpProgram, Waiting
<1>3. EsReasons(p)' = EsReasons(p)
  BY <1>1, EsKept
<1>4. PmtReasons(p)' = PmtReasons(p)
  BY <1>2, ReasonsUnmoved
<1> QED
  BY <1>2, <1>3, <1>4, SteadyExact

(* Every step of either program counts exactly. *)
LEMMA StepExact ==
  ASSUME IInv, [Next]_vars, NEW p \in Pids
  PROVE  Excess(p)' = Excess(p) + Cardinality(Withdrawn(p))
<1>1. CASE Walk
  BY <1>1, SkipAddExact, AddProgramExact, QuietExact, RemoveProgramExact DEF Walk
<1> QED
  BY <1>1, QuietExact, PatExact, ReceivePmtExact, ReceiveEitExact DEF Next

LEMMA PcrStepExact ==
  ASSUME IInv, [PcrNext]_pcrVars, NEW p \in Pids
  PROVE  Excess(p)' = Excess(p) + Cardinality(Withdrawn(p))
<1>1. CASE UNCHANGED vars
  BY <1>1, QuietExact
<1>2. CASE HandlePat
  BY <1>2, PatExact, SkipAddExact, AddProgramExact, QuietExact, GiveUpExact DEF HandlePat
<1> QED
  BY <1>1, <1>2, QuietExact DEF PcrNext, pcrVars

(* No count is below the number of the reasons. *)
Covered == \A p \in Pids : Excess(p) >= 0

(* The same without main()'s subscriptions: the printer has none. *)
PcrCovered == \A p \in Pids : Excess(p) + One(p \in FixedPids) >= 0

LEMMA InitExcess ==
  ASSUME Init \/ PcrInit, NEW p \in Pids
  PROVE  /\ Init => Excess(p) = 0
         /\ PcrInit => Excess(p) + One(p \in FixedPids) = 0
<1>1. PmtReasons(p) = {} /\ EsReasons(p) = {}
  BY DEF Init, PcrInit, PmtReasons, EsReasons, Programs, Waiting
<1>2. Cardinality(PmtReasons(p)) = 0 /\ Cardinality(EsReasons(p)) = 0
  BY <1>1, FS_EmptySet
<1>3. PICK o \in Int : o = One(p \in FixedPids)
  BY DEF One
<1>4. Init => refs[p] = o
  BY <1>3 DEF Init
<1>5. PcrInit => refs[p] = 0
  BY DEF PcrInit
<1>6. Excess(p) = refs[p] - o - 0 - 0
  BY <1>2, <1>3 DEF Excess
<1> QED
  BY <1>3, <1>4, <1>5, <1>6

LEMMA ExcessGrows ==
  ASSUME IInv, NEW p \in Pids, Excess(p)' = Excess(p) + Cardinality(Withdrawn(p))
  PROVE  Excess(p)' >= Excess(p) /\ Excess(p)' \in Int /\ Excess(p) \in Int
<1>1. Cardinality(Withdrawn(p)) \in Nat
  <2>1. IsFiniteSet(DOMAIN pat)
    BY FiniteDomain DEF IInv, TypeOK
  <2>2. IsFiniteSet(Withdrawn(p))
    BY <2>1, FS_Subset DEF Withdrawn
  <2> QED
    BY <2>2, FS_CardinalityType
<1>2. PICK a \in Int, b \in Int, r \in Int, o \in Int :
        /\ a = Cardinality(PmtReasons(p)) /\ b = Cardinality(EsReasons(p)) /\ r = refs[p]
        /\ o = One(p \in FixedPids)
  <2>1. refs[p] \in Int
    BY DEF IInv, TypeOK
  <2>2. One(p \in FixedPids) \in 0 .. 1
    BY DEF One
  <2> QED
    BY <2>1, <2>2, PmtReasonsFinite, EsReasonsFinite
<1>3. Excess(p) = r - o - a - b
  BY <1>2 DEF Excess
<1>4. Excess(p) \in Int
  BY ONLY <1>3, a \in Int, b \in Int, r \in Int, o \in Int
<1> QED
  BY <1>1, <1>4

LEMMA CoveredIsRead ==
  ASSUME IInv, NEW p \in Pids
  PROVE  /\ Excess(p) >= 0 /\ (PmtReasons(p) # {} \/ EsReasons(p) # {} \/ p \in FixedPids)
              => refs[p] > 0
         /\ Excess(p) + One(p \in FixedPids) >= 0 /\ PmtReasons(p) # {} => refs[p] > 0
<1>1. PICK a \in Nat, b \in Nat, r \in Int, o \in 0 .. 1 :
        /\ a = Cardinality(PmtReasons(p)) /\ b = Cardinality(EsReasons(p)) /\ r = refs[p]
        /\ o = One(p \in FixedPids)
  <2>1. refs[p] \in Int
    BY DEF IInv, TypeOK
  <2>2. One(p \in FixedPids) \in 0 .. 1
    BY DEF One
  <2> QED
    BY <2>1, <2>2, PmtReasonsFinite, EsReasonsFinite
<1>2. Excess(p) = r - o - a - b
  BY <1>1 DEF Excess
<1>3. /\ PmtReasons(p) # {} => a > 0
      /\ EsReasons(p) # {} => b > 0
      /\ p \in FixedPids => o = 1
  BY <1>1, PmtReasonsFinite, EsReasonsFinite, FS_EmptySet DEF One
<1>4. Excess(p) + One(p \in FixedPids) = r - a - b
  <2>1. Excess(p) + o = r - a - b
    BY ONLY <1>2, a \in Nat, b \in Nat, r \in Int, o \in 0 .. 1
  <2> QED
    BY <1>1, <2>1
<1> QED
  BY <1>1, <1>2, <1>3, <1>4

-----------------------------------------------------------------------------
(***************************************************************************)
(* The results.                                                            *)
(***************************************************************************)

LEMMA KnownWhenIdle == IInv => AnnouncedKnown
BY DEF IInv, PassedKnown, AnnouncedKnown, KnownAs, Waiting

LEMMA AlwaysIInv == Spec => []IInv
<1>1. Init => IInv
  BY InitIInv
<1>2. IInv /\ [Next]_vars => IInv'
  BY StepKeepsIInv
<1> QED
  BY <1>1, <1>2, PTL DEF Spec

LEMMA PcrAlwaysIInv == PcrSpec => []IInv
<1>1. PcrInit => IInv
  BY InitIInv
<1>2. IInv /\ [PcrNext]_pcrVars => IInv'
  BY PcrStepKeepsIInv
<1> QED
  BY <1>1, <1>2, PTL DEF PcrSpec

(* dvb_print_si.c keeps to the types of its variables, whatever PATs, PMTs *)
(* and EITs it is sent.                                                    *)
THEOREM TypeCorrect == Spec => []TypeOK
<1>1. IInv => TypeOK
  BY DEF IInv
<1> QED
  BY <1>1, AlwaysIInv, PTL

(* Between two tables, every program of the PAT in force is known to       *)
(* dvb_print_si.c under the PID the PAT gives it.                          *)
THEOREM ProgramsKnown == Spec => []AnnouncedKnown
BY AlwaysIInv, KnownWhenIdle, PTL

(* The same of mpeg_print_pcr.c, which frees entries its own way.          *)
THEOREM PcrProgramsKnown == PcrSpec => []AnnouncedKnown
BY PcrAlwaysIInv, KnownWhenIdle, PTL

(* Every reason to read a PID is counted once by dvb_print_si.c, and what  *)
(* its counts exceed the reasons by are the programs that PATs left out.   *)
THEOREM CountsExact == Spec => RefsExact
<1>1. IInv /\ [Next]_vars
        => [\A p \in Pids : Excess(p)' = Excess(p) + Cardinality(Withdrawn(p))]_vars
  BY StepExact
<1> QED
  BY <1>1, AlwaysIInv, PTL DEF Spec, RefsExact

(* The same of mpeg_print_pcr.c. *)
THEOREM PcrCountsExact == PcrSpec => RefsExact
<1>1. IInv /\ [PcrNext]_pcrVars
        => [\A p \in Pids : Excess(p)' = Excess(p) + Cardinality(Withdrawn(p))]_vars
  BY PcrStepExact
<1> QED
  BY <1>1, PcrAlwaysIInv, PTL DEF PcrSpec, RefsExact

(* What is needed is read. *)
NeededIsRead ==
  \A p \in Pids :
    PmtReasons(p) # {} \/ EsReasons(p) # {} \/ p \in FixedPids => refs[p] > 0
PmtPidsAreRead == \A p \in Pids : PmtReasons(p) # {} => refs[p] > 0

(* dvb_print_si.c never stops reading a PID that main() subscribed to,     *)
(* that carries the PMT of a program, or that a PMT selects a stream on.   *)
THEOREM NothingUnread == Spec => []NeededIsRead
<1>1. Init => Covered
  BY InitExcess DEF Covered
<1>2. IInv /\ Covered /\ [Next]_vars => Covered'
  <2> SUFFICES ASSUME IInv, Covered, [Next]_vars, NEW p \in Pids
               PROVE  Excess(p)' >= 0
    BY DEF Covered
  <2>1. Excess(p)' >= Excess(p) /\ Excess(p)' \in Int /\ Excess(p) \in Int
    BY StepExact, ExcessGrows
  <2> QED
    BY <2>1 DEF Covered
<1>3. IInv /\ Covered => NeededIsRead
  BY CoveredIsRead DEF Covered, NeededIsRead
<1> QED
  BY <1>1, <1>2, <1>3, AlwaysIInv, PTL DEF Spec

(* mpeg_print_pcr.c, which subscribes to nothing itself, never stops       *)
(* reading the PID of a program's PMT.                                     *)
THEOREM PcrNothingUnread == PcrSpec => []PmtPidsAreRead
<1>1. PcrInit => PcrCovered
  BY InitExcess DEF PcrCovered
<1>2. IInv /\ PcrCovered /\ [PcrNext]_pcrVars => PcrCovered'
  <2> SUFFICES ASSUME IInv, PcrCovered, [PcrNext]_pcrVars, NEW p \in Pids
               PROVE  Excess(p)' + One(p \in FixedPids) >= 0
    BY DEF PcrCovered
  <2>1. Excess(p)' >= Excess(p) /\ Excess(p)' \in Int /\ Excess(p) \in Int
    BY PcrStepExact, ExcessGrows
  <2>2. PICK o \in Int : o = One(p \in FixedPids)
    BY DEF One
  <2>3. Excess(p) + o >= 0
    BY <2>2 DEF PcrCovered
  <2>4. Excess(p)' + o >= 0
    BY <2>1, <2>3
  <2> QED
    BY <2>2, <2>4
<1>3. IInv /\ PcrCovered => PmtPidsAreRead
  BY CoveredIsRead DEF PcrCovered, PmtPidsAreRead
<1> QED
  BY <1>1, <1>2, <1>3, PcrAlwaysIInv, PTL DEF PcrSpec
=============================================================================
