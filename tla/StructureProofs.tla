--------------------------- MODULE StructureProofs ---------------------------
(***************************************************************************)
(* Proofs about structures: their fields (Layouts) and their loops of       *)
(* entries (Loops).                                                         *)
(*                                                                         *)
(* Fields.  For every set of structures and every number of calls, a         *)
(* structure whose table satisfies WellMade acts as a record.  Independence *)
(* is a condition on pairs of fields; what is proved is that it is enough   *)
(* for every sequence of calls, because a setter reads nothing but the bits *)
(* it keeps.                                                                *)
(*                                                                         *)
(* Loops.  For every width of a byte, every length and whatever sizes the    *)
(* entries announce, what a validator lets through is read to its end, and  *)
(* a loop is a list.  Every kind of loop satisfies Sound; from then on       *)
(* nothing is asked of a kind but that.                                     *)
(***************************************************************************)
EXTENDS Layouts, Loops, Modular, TLAPS

-----------------------------------------------------------------------------
(* The fields                                                                *)

(* Bounds.  What TypeOK says of everything but the bits of the buffer.       *)
Shape ==
  /\ kind \in Described
  /\ stage \in {"raw", "built", "received"}
  /\ written \subseteq {f.name : f \in Fields}
  /\ kept \subseteq written
  /\ calls \in 0 .. MaxCalls
  /\ DOMAIN mem = 0 .. 8 * Layout.bytes - 1

(* The rest of TypeOK.                                                       *)
Contents ==
  /\ \A p \in DOMAIN mem :
       mem[p] \notin {Zero, One, Old, Mixed} =>
         \E f \in Fields : p \in DOMAIN f.put /\ mem[p] = Bit(f.name, f.put[p])
  /\ declared = 0 \/ \E rule \in Layout.accepts : Accepts(rule, declared)

(* A program that has an initialiser calls no setter before it.              *)
InitialiserFirst ==
  stage = "raw" /\ Layout.init # {} => written = {} /\ kept = {}

(* The inductive invariant.                                                  *)
IInv ==
  /\ KindIsWellMade
  /\ Shape
  /\ Contents
  /\ InitialiserFirst
  /\ ActsAsRecord
  /\ NothingStale

-----------------------------------------------------------------------------
(* The operators                                                             *)

(* A setter leaves alone the positions outside its footprint.                *)
LEMMA WriteElsewhere ==
  ASSUME NEW f, NEW m, NEW p \in DOMAIN m, p \notin Footprint(f)
  PROVE  Write(f, m)[p] = m[p]
BY DEF Write

(* A getter none of whose positions a setter touches returns what it did.    *)
LEMMA ReadElsewhere ==
  ASSUME NEW f, NEW g, NEW m, Sources(g) \subseteq DOMAIN m,
         Footprint(f) \cap Sources(g) = {}
  PROVE  Read(g, Write(f, m)) = Read(g, m)
<1>1. ASSUME NEW k \in DOMAIN g.get
      PROVE  Write(f, m)[g.get[k]] = m[g.get[k]]
  <2>1. g.get[k] \in Sources(g)
    BY DEF Sources
  <2>2. g.get[k] \in DOMAIN m /\ g.get[k] \notin Footprint(f)
    BY <2>1
  <2> QED  BY <2>2, WriteElsewhere
<1> QED  BY <1>1 DEF Read

(* A getter returns what its own setter has just stored.                     *)
LEMMA ReadBack ==
  ASSUME NEW f, NEW m, GivesBack(f)
  PROVE  Read(f, Write(f, m)) = Asked(f)
<1>1. ASSUME NEW k \in DOMAIN f.get
      PROVE  Write(f, m)[f.get[k]] =
               IF DOMAIN f.put = {} THEN One ELSE Bit(f.name, k)
  <2>1. CASE DOMAIN f.put = {}
    <3>1. f.get[k] \in f.ones /\ f.get[k] \in Footprint(f)
      BY <2>1 DEF GivesBack, Footprint
    <3>2. Write(f, m)[f.get[k]] = Stored(f, m, f.get[k])
      BY <3>1 DEF Write
    <3> QED  BY <2>1, <3>1, <3>2 DEF Stored
  <2>2. CASE DOMAIN f.put # {}
    <3>1. /\ f.get[k] \in DOMAIN f.put
          /\ f.get[k] \notin f.raise
          /\ f.put[f.get[k]] = k
      BY <2>2 DEF GivesBack
    <3>2. f.get[k] \in Footprint(f)
      BY <3>1 DEF Footprint
    <3>3. Write(f, m)[f.get[k]] = Stored(f, m, f.get[k])
      BY <3>2 DEF Write
    <3> QED  BY <2>2, <3>1, <3>3 DEF Stored
  <2> QED  BY <2>1, <2>2
<1> QED  BY <1>1 DEF Read, Asked

(* A setter leaves nothing of the old content in its footprint.              *)
LEMMA StoredIsNew ==
  ASSUME NEW f, NEW m, NEW p \in Footprint(f), f.name # "old"
  PROVE  Write(f, m)[p] # Old
<1>1. Write(f, m)[p] = Stored(f, m, p)
  BY DEF Write
<1>2. /\ Bit(f.name, f.put[p]) # Old
      /\ Mixed # Old /\ One # Old /\ Zero # Old
  BY DEF Bit, Old, Mixed, One, Zero
<1> QED  BY <1>1, <1>2 DEF Stored

-----------------------------------------------------------------------------
(* The inductive invariant                                                   *)

LEMMA InitIInv == Init /\ KindIsWellMade => IInv
<1> SUFFICES ASSUME Init, KindIsWellMade PROVE IInv
  OBVIOUS
<1>1. Shape
  BY MaxCallsAssumption DEF Init, Shape, Blank
<1>2. ActsAsRecord
  BY DEF Init, ActsAsRecord, Start
<1>3. NothingStale
  <2> SUFFICES ASSUME NEW p \in DOMAIN mem, Layout.init = {}
               PROVE  \/ p \in Layout.open
                      \/ \E f \in Fields : p \in Footprint(f) /\ f.name \notin kept
    BY DEF Init, NothingStale
  <2>1. p \in 0 .. 8 * Layout.bytes - 1
    BY <1>1 DEF Shape
  <2> QED  BY <2>1 DEF Init, KindIsWellMade, WellMade, Complete, Fields
<1>4. Contents
  BY DEF Init, Contents, Blank
<1> QED  BY <1>1, <1>2, <1>3, <1>4 DEF IInv, Init, InitialiserFirst

LEMMA InitialiseKeepsIInv == IInv /\ Initialise => IInv'
<1> SUFFICES ASSUME IInv, Initialise PROVE IInv'
  OBVIOUS
<1>1. /\ kind' = kind /\ stage = "raw" /\ stage' = "built" /\ Layout.init # {}
      /\ mem' = Initialised /\ written' = written /\ kept' = kept /\ calls' = calls
  BY DEF Initialise
<1>2. written = {} /\ kept = {}
  BY <1>1 DEF IInv, InitialiserFirst
<1>3. KindIsWellMade'
  BY <1>1 DEF IInv, KindIsWellMade, Layout
<1>4. DOMAIN Initialised = 0 .. 8 * Layout.bytes - 1
  BY DEF Initialised, Blank
<1>5. Shape'
  BY <1>1, <1>4 DEF IInv, Shape, Fields, Layout
<1>6. ActsAsRecord'
  <2>1. Start' = mem'
    BY <1>1 DEF Start, Initialised, Blank, Layout
  <2> QED  BY <1>1, <1>2, <2>1 DEF ActsAsRecord, Fields
<1>7. NothingStale'
  <2> SUFFICES ASSUME NEW p \in DOMAIN Initialised, Initialised[p] = Old
               PROVE  \/ p \in Layout.open
                      \/ \E f \in Fields : p \in Footprint(f) /\ f.name \notin kept
    BY <1>1 DEF NothingStale, Fields, Layout
  <2>1. p \in 0 .. 8 * Layout.bytes - 1
    BY <1>4
  <2>2. <<p, One>> \notin Layout.init /\ <<p, Zero>> \notin Layout.init
    BY DEF Initialised, Blank, One, Zero, Old
  <2>3. p \notin {b[1] : b \in Layout.init}
    <3> SUFFICES ASSUME NEW b \in Layout.init, b[1] = p PROVE FALSE
      OBVIOUS
    <3>1. b \in (0 .. 8 * Layout.bytes - 1) \X {Zero, One}
      BY DEF IInv, KindIsWellMade, WellMade, Fits
    <3>2. b = <<p, Zero>> \/ b = <<p, One>>
      BY <3>1
    <3> QED  BY <3>2, <2>2
  <2> QED  BY <1>2, <2>1, <2>3 DEF IInv, KindIsWellMade, WellMade, Complete, Fields
<1>8. Contents'
  <2>1. \A p \in DOMAIN Initialised : Initialised[p] \in {Zero, One, Old}
    BY DEF Initialised, Blank
  <2>2. declared' = declared
    BY DEF Initialise
  <2> QED  BY <1>1, <2>1, <2>2 DEF IInv, Contents, Fields, Layout
<1> QED  BY <1>1, <1>3, <1>5, <1>6, <1>7, <1>8 DEF IInv, InitialiserFirst

LEMMA ReceiveKeepsIInv == IInv /\ Receive => IInv'
<1> SUFFICES ASSUME IInv, Receive PROVE IInv'
  OBVIOUS
<1>1. /\ kind' = kind /\ stage = "raw" /\ stage' = "received"
      /\ mem' = mem /\ written' = written /\ kept' = kept /\ calls' = calls
  BY DEF Receive
<1>2. KindIsWellMade' /\ Shape' /\ NothingStale' /\ InitialiserFirst'
  BY <1>1 DEF IInv, KindIsWellMade, Shape, NothingStale, InitialiserFirst, Fields, Layout
<1>3. Start' = Start
  BY <1>1 DEF Start, Blank, Layout
<1>4. Contents'
  <2>1. PICK rule \in Layout.accepts : declared' = rule.least
    BY DEF Receive
  <2>2. Accepts(rule, rule.least)
    BY DEF IInv, KindIsWellMade, WellMade, Fits
  <2> QED  BY <1>1, <2>1, <2>2 DEF IInv, Contents, Fields, Layout
<1> QED  BY <1>1, <1>2, <1>3, <1>4 DEF IInv, ActsAsRecord, Fields, Layout

LEMMA CallKeepsIInv == IInv /\ (\E f \in Fields : Call(f)) => IInv'
<1> SUFFICES ASSUME IInv, NEW f \in Fields, Call(f) PROVE IInv'
  OBVIOUS
<1>1. /\ kind' = kind /\ stage' = stage /\ calls < MaxCalls
      /\ stage = "raw" => Layout.init = {}
      /\ mem' = Write(f, mem)
      /\ written' = written \cup {f.name} \cup f.rewrites
      /\ kept' = (kept \cup {f.name}) \ f.rewrites
      /\ calls' = calls + 1
      /\ Footprint(f) # {}
  BY DEF Call, Set
<1>2. /\ WellMade(Layout) /\ Shape /\ ActsAsRecord /\ NothingStale
      /\ KindIsWellMade'
  BY <1>1 DEF IInv, KindIsWellMade, Layout
<1>3. \A g \in Fields : g.name = f.name => g = f
  BY <1>2 DEF WellMade, Named, Fields
<1>4. f.name # "old" /\ f.rewrites \subseteq {h.name : h \in Fields}
  BY <1>2 DEF WellMade, Named, Fields
<1>5. \A g \in Fields : Footprint(g) \cup Sources(g) \subseteq DOMAIN mem
  BY <1>2 DEF WellMade, Fits, Fields, Shape
<1>6. DOMAIN mem' = DOMAIN mem
  BY <1>1, <1>5 DEF Write
<1>7. Shape'
  BY <1>1, <1>2, <1>4, <1>6, MaxCallsAssumption DEF Shape, Fields, Layout
<1>8. InitialiserFirst'
  BY <1>1 DEF InitialiserFirst, Layout
<1>9. ActsAsRecord'
  <2> SUFFICES ASSUME NEW g \in Fields, g.name \notin Layout.fragile
               PROVE  /\ g.name \in kept' => Read(g, mem') = Asked(g)
                      /\ g.name \notin written' => Read(g, mem') = Read(g, Start)
    <3>1. Start' = Start
      BY <1>1 DEF Start, Initialised, Blank, Layout
    <3> QED  BY <1>1, <3>1 DEF ActsAsRecord, Fields, Layout
  <2>1. ASSUME g # f, g.name \notin f.rewrites
        PROVE  Read(g, mem') = Read(g, mem)
    <3>1. Footprint(f) \cap Sources(g) = {}
      BY <1>2, <2>1 DEF WellMade, Independent, Fields
    <3> QED  BY <1>1, <1>5, <3>1, ReadElsewhere
  <2>2. ASSUME g.name \in kept'
        PROVE  Read(g, mem') = Asked(g)
    <3>1. CASE g = f
      <4>1. GivesBack(f)
        BY <1>1, <1>2, <3>1 DEF WellMade, Independent, Fields
      <4> QED  BY <1>1, <3>1, <4>1, ReadBack
    <3>2. CASE g # f
      <4>1. g.name \in kept /\ g.name \notin f.rewrites
        BY <1>1, <1>3, <2>2, <3>2
      <4> QED  BY <1>2, <2>1, <3>2, <4>1 DEF ActsAsRecord
    <3> QED  BY <3>1, <3>2
  <2>3. ASSUME g.name \notin written'
        PROVE  Read(g, mem') = Read(g, Start)
    <3>1. g.name \notin written /\ g # f /\ g.name \notin f.rewrites
      BY <1>1, <2>3
    <3> QED  BY <1>2, <2>1, <3>1 DEF ActsAsRecord
  <2> QED  BY <2>2, <2>3
<1>10. NothingStale'
  <2> SUFFICES ASSUME stage # "received", NEW p \in DOMAIN mem, mem'[p] = Old
               PROVE  \/ p \in Layout.open
                      \/ stage = "raw" /\ Layout.init # {}
                      \/ \E g \in Fields : p \in Footprint(g) /\ g.name \notin kept'
    BY <1>1, <1>6 DEF NothingStale, Fields, Layout
  <2>1. p \notin Footprint(f)
    BY <1>1, <1>4, StoredIsNew
  <2>2. mem[p] = Old
    BY <1>1, <2>1, WriteElsewhere
  <2>3. CASE \E g \in Fields : p \in Footprint(g) /\ g.name \notin kept
    <3> PICK g \in Fields : p \in Footprint(g) /\ g.name \notin kept
      BY <2>3
    <3>1. g.name # f.name
      BY <1>3, <2>1
    <3> QED  BY <1>1, <3>1
  <2> QED  BY <1>2, <2>2, <2>3 DEF NothingStale
<1>11. Contents'
  <2>1. declared' = declared
    BY DEF Call
  <2>2. ASSUME NEW p \in DOMAIN mem, mem'[p] \notin {Zero, One, Old, Mixed}
        PROVE  \E g \in Fields : p \in DOMAIN g.put /\ mem'[p] = Bit(g.name, g.put[p])
    <3>1. CASE p \in Footprint(f)
      <4>1. mem'[p] = Stored(f, mem, p)
        BY <1>1, <3>1 DEF Write
      <4> QED  BY <2>2, <4>1 DEF Stored
    <3>2. CASE p \notin Footprint(f)
      BY <1>1, <2>2, <3>2, WriteElsewhere DEF IInv, Contents
    <3> QED  BY <3>1, <3>2
  <2> QED  BY <1>1, <1>6, <2>1, <2>2 DEF IInv, Contents, Fields, Layout
<1> QED  BY <1>2, <1>7, <1>8, <1>9, <1>10, <1>11 DEF IInv

LEMMA NextKeepsIInv == IInv /\ [Next]_vars => IInv'
<1> SUFFICES ASSUME IInv, [Next]_vars PROVE IInv'
  OBVIOUS
<1>1. CASE UNCHANGED vars
  BY <1>1 DEF vars, IInv, KindIsWellMade, Shape, Contents, InitialiserFirst, ActsAsRecord,
              NothingStale, Fields, Start, Initialised, Blank, Layout
<1> QED  BY <1>1, InitialiseKeepsIInv, ReceiveKeepsIInv, CallKeepsIInv DEF Next

-----------------------------------------------------------------------------
(* The theorems                                                              *)

(* The setters of a well-made structure stay within its size, and every bit  *)
(* of the buffer can be told where it comes from: TypeOK for every Described *)
(* and MaxCalls.                                                             *)
THEOREM WellMadeTypeOK == Spec /\ KindIsWellMade => []TypeOK
<1>1. IInv => TypeOK
  BY DEF IInv, Shape, Contents, TypeOK
<1> QED  BY <1>1, InitIInv, NextKeepsIInv, PTL DEF Spec

(* A well-made structure acts as a record, however many setters run and in   *)
(* whatever order: ActsAsRecord for every Described and MaxCalls.            *)
THEOREM WellMadeActsAsRecord == Spec /\ KindIsWellMade => []ActsAsRecord
<1>1. IInv => ActsAsRecord
  BY DEF IInv
<1> QED  BY <1>1, InitIInv, NextKeepsIInv, PTL DEF Spec

(* Once every setter of a well-made structure has run, none of the buffer's  *)
(* previous content is left in it: NothingStale for every Described and      *)
(* MaxCalls.                                                                 *)
THEOREM WellMadeLeavesNothingStale == Spec /\ KindIsWellMade => []NothingStale
<1>1. IInv => NothingStale
  BY DEF IInv
<1> QED  BY <1>1, InitIInv, NextKeepsIInv, PTL DEF Spec

-----------------------------------------------------------------------------
(* Iteration                                                                 *)

(* A function g followed from c, n times.                                    *)
Follows(P, n, c, g) == P = [i \in 0 .. n |-> IF i = 0 THEN c ELSE g[P[i - 1]]]

(* Following g as far as n is possible for every n.                          *)
LEMMA Iterates ==
  ASSUME NEW n \in Nat, NEW c, NEW g
  PROVE  \E P : Follows(P, n, c, g)
<1> DEFINE Good(m) == \E P : Follows(P, m, c, g)
           Bad == {m \in Nat : ~ Good(m)}
<1>1. Good(0)
  <2>1. Follows([i \in 0 .. 0 |-> c], 0, c, g)
    <3>1. \A i \in 0 .. 0 : i = 0
      OBVIOUS
    <3>2. [i \in 0 .. 0 |-> c]
          = [i \in 0 .. 0 |-> IF i = 0 THEN c ELSE g[[j \in 0 .. 0 |-> c][i - 1]]]
      BY <3>1
    <3> QED  BY <3>2 DEF Follows
  <2> QED  BY <2>1
<1>2. ASSUME NEW m \in Nat, Good(m)
      PROVE  Good(m + 1)
  <2>1. PICK P : Follows(P, m, c, g)
    BY <1>2
  <2> DEFINE Q == [i \in 0 .. m + 1 |-> IF i = m + 1 THEN g[P[m]] ELSE P[i]]
  <2>2. ASSUME NEW i \in 0 .. m + 1
        PROVE  Q[i] = IF i = 0 THEN c ELSE g[Q[i - 1]]
    <3>1. CASE i = m + 1
      <4>1. Q[i - 1] = P[m]
        BY <3>1
      <4> QED  BY <3>1, <4>1
    <3>2. CASE i # m + 1
      <4>1. i \in 0 .. m
        BY <3>2
      <4>2. P[i] = IF i = 0 THEN c ELSE g[P[i - 1]]
        BY <2>1, <4>1 DEF Follows
      <4>3. i # 0 => Q[i - 1] = P[i - 1]
        BY <4>1
      <4> QED  BY <3>2, <4>2, <4>3
    <3> QED  BY <3>1, <3>2
  <2>3. Follows(Q, m + 1, c, g)
    <3> DEFINE R == [i \in 0 .. m + 1 |-> IF i = 0 THEN c ELSE g[Q[i - 1]]]
    <3>1. \A i \in 0 .. m + 1 : Q[i] = R[i]
      BY <2>2
    <3>2. Q = R
      BY <3>1
    <3> QED  BY <3>2 DEF Follows
  <2> QED  BY <2>3
<1> HIDE DEF Good
<1>3. Bad = {}
  <2> SUFFICES ASSUME Bad # {} PROVE FALSE
    OBVIOUS
  <2>1. PICK m \in Bad : \A j \in Bad : m <= j
    BY HasLeast
  <2>2. m \in Nat /\ m # 0 /\ ~ Good(m)
    BY <1>1
  <2>3. m - 1 \in Nat /\ m - 1 \notin Bad
    BY <2>1, <2>2
  <2>4. Good(m - 1)
    BY <2>3
  <2>5. Good(m - 1 + 1)
    BY <1>2, <2>3, <2>4
  <2> QED  BY <2>2, <2>5
<1>4. Good(n)
  BY <1>3
<1> QED  BY <1>4 DEF Good

(* And there is one way to do it.                                            *)
LEMMA SameWay ==
  ASSUME NEW n \in Nat, NEW m \in Nat, n <= m, NEW c, NEW g, NEW P, NEW Q,
         Follows(P, n, c, g), Follows(Q, m, c, g)
  PROVE  P[n] = Q[n]
<1> DEFINE Bad == {i \in 0 .. n : P[i] # Q[i]}
<1>1. ASSUME NEW i \in 0 .. n
      PROVE  /\ P[i] = IF i = 0 THEN c ELSE g[P[i - 1]]
             /\ Q[i] = IF i = 0 THEN c ELSE g[Q[i - 1]]
  <2>1. i \in 0 .. m
    OBVIOUS
  <2>2. P[i] = IF i = 0 THEN c ELSE g[P[i - 1]]
    BY DEF Follows
  <2>3. Q[i] = IF i = 0 THEN c ELSE g[Q[i - 1]]
    BY <2>1 DEF Follows
  <2> QED  BY <2>2, <2>3
<1>2. Bad = {}
  <2> SUFFICES ASSUME Bad # {} PROVE FALSE
    OBVIOUS
  <2>1. Bad \in SUBSET Nat
    OBVIOUS
  <2>2. PICK i \in Bad : \A j \in Bad : i <= j
    BY <2>1, HasLeast
  <2>3. i \in 0 .. n /\ P[i] # Q[i]
    OBVIOUS
  <2>4. i # 0
    BY <1>1, <2>3
  <2>5. i - 1 \in 0 .. n /\ i - 1 \notin Bad
    BY <2>2, <2>3, <2>4
  <2>6. P[i - 1] = Q[i - 1]
    BY <2>5
  <2> QED  BY <1>1, <2>3, <2>4, <2>6
<1> QED  BY <1>2

(* What Entry follows.                                                       *)
Following ==
  [p \in (0 .. length) \cup {None} |-> IF p = None THEN None ELSE After(p)]

LEMMA EntryFollows ==
  ASSUME NEW n \in Nat
  PROVE  \E P : Follows(P, n, Handed(0), Following) /\ Entry(n) = P[n]
<1> DEFINE P == CHOOSE P : P = [i \in 0 .. n |->
                                  IF i = 0 THEN Handed(0) ELSE Following[P[i - 1]]]
<1>1. \E Q : Follows(Q, n, Handed(0), Following)
  BY Iterates
<1>2. Follows(P, n, Handed(0), Following)
  BY <1>1 DEF Follows
<1>3. Entry(n) = P[n]
  BY DEF Entry, Following
<1> QED  BY <1>2, <1>3

(* The first entry, and the one after an entry.                              *)
LEMMA FirstEntry == Entry(0) = Handed(0)
<1>1. PICK P : Follows(P, 0, Handed(0), Following) /\ Entry(0) = P[0]
  BY EntryFollows
<1> QED  BY <1>1 DEF Follows

LEMMA NextEntry ==
  ASSUME NEW n \in Nat
  PROVE  Entry(n + 1) = Following[Entry(n)]
<1>1. PICK P : Follows(P, n, Handed(0), Following) /\ Entry(n) = P[n]
  BY EntryFollows
<1>2. n + 1 \in Nat
  OBVIOUS
<1>3. PICK Q : Follows(Q, n + 1, Handed(0), Following) /\ Entry(n + 1) = Q[n + 1]
  BY <1>2, EntryFollows
<1>4. P[n] = Q[n]
  BY <1>1, <1>2, <1>3, SameWay
<1>5. Q[n + 1] = Following[Q[n]]
  BY <1>3 DEF Follows
<1> QED  BY <1>1, <1>3, <1>4, <1>5

-----------------------------------------------------------------------------
(* Chains of entries                                                         *)

(* What the walks need of a kind of loop.                                    *)
Sound(k) ==
  /\ k \in [short : Nat, head : Nat \ {0}, sizes : SUBSET Nat, room : Nat \ {0},
            inByte : BOOLEAN, bytes : SUBSET {"reader", "validator", "number"},
            rule : {"none", "divides", "left", "head", "whole"}]
  /\ k.short < Width /\ k.room <= k.head
  /\ \A s \in k.sizes : s >= k.head
  /\ "reader" \in k.bytes \/ "validator" \in k.bytes => k.inByte
  /\ k.rule = "divides" => k.sizes = {k.head} /\ "reader" \notin k.bytes

Sizes ==
  /\ DOMAIN sizes \subseteq Nat
  /\ \A p \in DOMAIN sizes : sizes[p] \in Nat /\ sizes[p] >= loop.head
  /\ loop.sizes = {loop.head} => \A p \in DOMAIN sizes : sizes[p] = loop.head

Bounded ==
  /\ length \in Int
  /\ length < (MaxEntries + 1) * loop.head
  /\ loop.inByte => length + loop.short < Width

(* The loop as the walks find it.                                            *)
WellFormed == Sound(loop) /\ Sizes /\ Bounded

(* n entries one after the other from the first position, each as long as it *)
(* says; f[n] is where the last of them ends.                                *)
Chain(f, n) ==
  /\ n \in Nat /\ f \in [0 .. n -> Nat] /\ f[0] = 0
  /\ \A i \in 0 .. n - 1 : Known(f[i]) /\ f[i + 1] = f[i] + SizeAt(f[i])

LEMMA SizeIsSize ==
  ASSUME WellFormed, NEW p
  PROVE  SizeAt(p) \in Nat /\ SizeAt(p) >= loop.head
BY DEF WellFormed, Sound, Sizes, SizeAt

LEMMA ChainRises ==
  ASSUME WellFormed, NEW f, NEW n \in Nat, Chain(f, n),
         NEW i \in 0 .. n, NEW j \in i .. n
  PROVE  f[i] <= f[j]
<1> DEFINE Bad == {k \in i .. n : ~ (f[i] <= f[k])}
<1>1. ASSUME NEW k \in i .. n
      PROVE  f[k] \in Nat
  BY DEF Chain
<1>2. Bad = {}
  <2> SUFFICES ASSUME Bad # {} PROVE FALSE
    OBVIOUS
  <2>1. Bad \in SUBSET Nat
    OBVIOUS
  <2>2. PICK k \in Bad : \A l \in Bad : k <= l
    BY <2>1, HasLeast
  <2>3. k \in i .. n /\ ~ (f[i] <= f[k])
    OBVIOUS
  <2>4. k # i
    BY <1>1, <2>3
  <2>5. k - 1 \in i .. n /\ k - 1 \notin Bad /\ k - 1 \in 0 .. n - 1
    BY <2>2, <2>3, <2>4
  <2>6. f[i] <= f[k - 1]
    BY <2>5
  <2>7. f[k - 1 + 1] = f[k - 1] + SizeAt(f[k - 1])
    BY <2>5 DEF Chain
  <2>8. SizeAt(f[k - 1]) \in Nat
    BY SizeIsSize
  <2>9. k - 1 + 1 = k
    BY <2>3
  <2>10. f[k] = f[k - 1] + SizeAt(f[k - 1])
    BY <2>7, <2>9
  <2> QED  BY <1>1, <2>3, <2>5, <2>6, <2>8, <2>10
<1> QED  BY <1>2

(* The entries of a chain begin at different places, and before its end.     *)
LEMMA ChainGoesOn ==
  ASSUME WellFormed, NEW f, NEW n \in Nat, Chain(f, n), NEW i \in 0 .. n - 1
  PROVE  /\ f[i] \in Nat /\ f[i + 1] \in Nat
         /\ f[i] + loop.head <= f[i + 1]
         /\ f[i + 1] <= f[n]
<1>1. f[i] \in Nat /\ f[i + 1] \in Nat /\ f[i + 1] = f[i] + SizeAt(f[i])
  BY DEF Chain
<1>2. SizeAt(f[i]) \in Nat /\ SizeAt(f[i]) >= loop.head
  BY SizeIsSize
<1>3. loop.head \in Nat
  BY DEF WellFormed, Sound
<1>4. f[i + 1] <= f[n]
  BY ChainRises, i + 1 \in 0 .. n, n \in i + 1 .. n
<1> QED  BY <1>1, <1>2, <1>3, <1>4

(* There is room for as many heads as there are entries.                     *)
LEMMA ChainHasRoom ==
  ASSUME WellFormed, NEW f, NEW n \in Nat, Chain(f, n)
  PROVE  n * loop.head <= f[n]
<1>1. PICK h : h = loop.head
  OBVIOUS
<1>2. h \in Nat
  BY <1>1 DEF WellFormed, Sound
<1> DEFINE Bad == {k \in 0 .. n : ~ (k * h <= f[k])}
<1>3. ASSUME NEW k \in 0 .. n
      PROVE  f[k] \in Nat
  BY DEF Chain
<1>4. Bad = {}
  <2> SUFFICES ASSUME Bad # {} PROVE FALSE
    OBVIOUS
  <2>1. Bad \in SUBSET Nat
    OBVIOUS
  <2>2. PICK k \in Bad : \A l \in Bad : k <= l
    BY <2>1, HasLeast
  <2>3. k \in 0 .. n /\ ~ (k * h <= f[k])
    OBVIOUS
  <2>4. k # 0
    BY <1>2, <1>3, <2>3 DEF Chain
  <2>5. k - 1 \in 0 .. n /\ k - 1 \notin Bad /\ k - 1 \in 0 .. n - 1
    BY <2>2, <2>3, <2>4
  <2>6. (k - 1) * h <= f[k - 1]
    BY <2>5
  <2>7. f[k - 1] + h <= f[k - 1 + 1]
    BY <1>1, <2>5, ChainGoesOn
  <2>8. k - 1 + 1 = k /\ (k - 1) * h = k * h - h
    BY <1>2, <2>3
  <2>9. f[k - 1] + h <= f[k]
    BY <2>7, <2>8
  <2>10. k * h \in Int
    BY <1>2, <2>3
  <2>11. k * h - h <= f[k - 1]
    BY <2>6, <2>8
  <2>12. f[k] \in Nat /\ f[k - 1] \in Nat
    BY <1>3, <2>3, <2>5
  <2>13. ~ (k * h <= f[k])
    BY <2>3
  <2> QED  BY ONLY <1>2, <2>9, <2>10, <2>11, <2>12, <2>13
<1>5. n * h <= f[n]
  BY <1>4
<1> QED  BY <1>1, <1>5

-----------------------------------------------------------------------------
(* Reading                                                                   *)

LEMMA StepIsNat ==
  ASSUME WellFormed, NEW who, NEW s \in Nat
  PROVE  /\ Step(who, s) \in Nat
         /\ who \notin loop.bytes \/ s < Width => Step(who, s) = s
<1>1. Width \in Nat /\ Width >= 16
  BY LoopKindsAssumption
<1>2. s % Width \in Nat /\ (s < Width => s % Width = s)
  BY <1>1
<1> QED  BY <1>2 DEF Step

LEMMA HandedIs ==
  ASSUME WellFormed, NEW p \in Nat
  PROVE  /\ Handed(p) \in (0 .. length) \cup {None}
         /\ p + loop.head <= length => Handed(p) = p
         /\ p >= length => Handed(p) = None
         /\ Handed(p) # None => Handed(p) = p
<1>1. /\ loop.room \in Nat \ {0} /\ loop.head \in Nat /\ loop.room <= loop.head
      /\ length \in Int
  BY DEF WellFormed, Sound, Bounded
<1> QED  BY <1>1 DEF Handed

LEMMA NoneIsNoPlace == None \notin 0 .. length
BY LoopsAssumption

LEMMA AfterIs ==
  ASSUME WellFormed, NEW p \in 0 .. length
  PROVE  After(p) \in (0 .. length) \cup {None}
<1>1. SizeAt(p) \in Nat
  BY SizeIsSize
<1>2. Step("reader", SizeAt(p)) \in Nat
  BY <1>1, StepIsNat
<1>3. p + Step("reader", SizeAt(p)) \in Nat
  BY <1>2
<1>4. Handed(p + Step("reader", SizeAt(p))) \in (0 .. length) \cup {None}
  BY <1>3, HandedIs
<1> QED  BY <1>4 DEF After

(* An entry is where there is room for it, or nowhere.                       *)
LEMMA EntryIs ==
  ASSUME WellFormed, NEW n \in Nat
  PROVE  /\ Entry(n) \in (0 .. length) \cup {None}
         /\ Entry(n + 1) = IF Entry(n) = None THEN None ELSE After(Entry(n))
<1> DEFINE Placed(k) == Entry(k) \in (0 .. length) \cup {None}
           Bad == {k \in Nat : ~ Placed(k)}
<1>1. Placed(0)
  BY FirstEntry, HandedIs
<1>2. ASSUME NEW k \in Nat, Placed(k)
      PROVE  /\ Entry(k + 1) = IF Entry(k) = None THEN None ELSE After(Entry(k))
             /\ Placed(k + 1)
  <2>1. Entry(k + 1) = Following[Entry(k)]
    BY NextEntry
  <2>2. Following[Entry(k)] = IF Entry(k) = None THEN None ELSE After(Entry(k))
    BY <1>2 DEF Following
  <2>3. Entry(k) # None => After(Entry(k)) \in (0 .. length) \cup {None}
    BY <1>2, AfterIs
  <2> QED  BY <2>1, <2>2, <2>3
<1> HIDE DEF Placed
<1>3. Bad = {}
  <2> SUFFICES ASSUME Bad # {} PROVE FALSE
    OBVIOUS
  <2>1. PICK k \in Bad : \A j \in Bad : k <= j
    BY HasLeast
  <2>2. k \in Nat /\ k # 0 /\ ~ Placed(k)
    BY <1>1
  <2>3. k - 1 \in Nat /\ k - 1 \notin Bad
    BY <2>1, <2>2
  <2>4. Placed(k - 1 + 1)
    BY <1>2, <2>3
  <2> QED  BY <2>2, <2>4
<1>4. Placed(n)
  BY <1>3
<1> QED  BY <1>2, <1>4 DEF Placed

(* After the last entry there is none.                                       *)
LEMMA NoneAfterNone ==
  ASSUME WellFormed, NEW n \in Nat, Entry(n) = None, NEW m \in Nat, n <= m
  PROVE  Entry(m) = None
<1> DEFINE Bad == {k \in Nat : n <= k /\ Entry(k) # None}
<1>1. Bad = {}
  <2> SUFFICES ASSUME Bad # {} PROVE FALSE
    OBVIOUS
  <2>1. PICK k \in Bad : \A j \in Bad : k <= j
    BY HasLeast
  <2>2. k \in Nat /\ n <= k /\ Entry(k) # None /\ k # n
    OBVIOUS
  <2>3. k - 1 \in Nat /\ n <= k - 1 /\ k - 1 \notin Bad
    BY <2>1, <2>2
  <2>4. Entry(k - 1) = None
    BY <2>3
  <2>5. Entry(k - 1 + 1) = None
    BY <2>3, <2>4, EntryIs
  <2> QED  BY <2>2, <2>5
<1> QED  BY <1>1

(* The entries there are, when one knows where they end.                     *)
LEMMA PresentUpTo ==
  ASSUME WellFormed, NEW m \in Nat, m <= MaxEntries + 1,
         \A i \in 0 .. m - 1 : Entry(i) # None,
         m <= MaxEntries => Entry(m) = None
  PROVE  Present = 0 .. m - 1
<1>1. MaxEntries \in Nat
  BY LoopsAssumption
<1>2. ASSUME NEW i \in 0 .. MaxEntries, i >= m
      PROVE  Entry(i) = None
  BY <1>1, <1>2, NoneAfterNone
<1>3. ASSUME NEW i \in 0 .. MaxEntries
      PROVE  i \in Present <=> i < m
  <2>1. CASE i < m
    BY <1>1, <2>1 DEF Present
  <2>2. CASE i >= m
    BY <1>1, <1>2, <2>2 DEF Present
  <2> QED  BY <2>1, <2>2
<1>4. Present \subseteq 0 .. MaxEntries
  BY DEF Present
<1>5. 0 .. m - 1 \subseteq 0 .. MaxEntries
  BY <1>1
<1>6. ASSUME NEW i \in 0 .. MaxEntries
      PROVE  i \in Present <=> i \in 0 .. m - 1
  <2>1. i \in 0 .. m - 1 <=> i < m
    BY <1>1
  <2> QED  BY <1>3, <2>1
<1> QED  BY <1>4, <1>5, <1>6

(* In any case they are numbered from 0.                                     *)
LEMMA PresentIsPrefix ==
  ASSUME WellFormed
  PROVE  \E m \in 0 .. MaxEntries + 1 :
           Present = 0 .. m - 1 /\ \A i \in 0 .. m - 1 : Entry(i) # None
<1>1. MaxEntries \in Nat
  BY LoopsAssumption
<1> DEFINE Absent == {k \in Nat : k <= MaxEntries => Entry(k) = None}
<1>2. MaxEntries + 1 \in Absent
  BY <1>1
<1>3. PICK m \in Absent : \A k \in Absent : m <= k
  BY <1>2, HasLeast
<1>4. m \in 0 .. MaxEntries + 1
  BY <1>1, <1>2, <1>3
<1>5. ASSUME NEW i \in 0 .. m - 1
      PROVE  Entry(i) # None
  <2>1. i \in Nat /\ i \notin Absent
    BY <1>3, <1>4
  <2> QED  BY <2>1
<1>6. m <= MaxEntries => Entry(m) = None
  OBVIOUS
<1>7. Present = 0 .. m - 1
  BY <1>4, <1>5, <1>6, PresentUpTo
<1> QED  BY <1>4, <1>5, <1>7

(* The reader goes along a chain.                                            *)
LEMMA ReadsAlong ==
  ASSUME WellFormed, NEW f, NEW n \in Nat, Chain(f, n), n = 0 \/ f[n] <= length
  PROVE  /\ \A i \in 0 .. n - 1 : Entry(i) = f[i]
         /\ Entry(n) = Handed(f[n])
<1>1. /\ loop.head \in Nat /\ loop.short \in Nat /\ length \in Int
      /\ "reader" \in loop.bytes => loop.inByte
      /\ loop.inByte => length + loop.short < Width
      /\ Width \in Nat /\ None \notin Nat
  BY LoopKindsAssumption, LoopsAssumption DEF WellFormed, Sound, Bounded
<1>2. f[0] = 0 /\ \A i \in 0 .. n : f[i] \in Nat
  BY DEF Chain
<1>3. ASSUME NEW i \in 0 .. n - 1
      PROVE  /\ Handed(f[i]) = f[i]
             /\ After(f[i]) = Handed(f[i + 1])
  <2>1. /\ f[i] \in Nat /\ f[i + 1] \in Nat /\ f[n] \in Nat
        /\ f[i] + loop.head <= f[i + 1] /\ f[i + 1] <= f[n]
        /\ f[n] <= length
    BY <1>2, ChainGoesOn
  <2>2. f[i] + loop.head <= length
    BY <1>1, <2>1
  <2>3. Handed(f[i]) = f[i]
    BY <2>1, <2>2, HandedIs
  <2>4. Known(f[i]) /\ f[i + 1] = f[i] + SizeAt(f[i])
    BY DEF Chain
  <2>5. SizeAt(f[i]) \in Nat
    BY SizeIsSize
  <2>6. "reader" \in loop.bytes => SizeAt(f[i]) < Width
    BY <1>1, <2>1, <2>4, <2>5
  <2>7. Step("reader", SizeAt(f[i])) = SizeAt(f[i])
    BY <2>5, <2>6, StepIsNat
  <2>8. After(f[i]) = Handed(f[i] + Step("reader", SizeAt(f[i])))
    BY <2>2, <2>4 DEF After
  <2> QED  BY <2>3, <2>4, <2>7, <2>8
<1> DEFINE Bad == {k \in 0 .. n : Entry(k) # Handed(f[k])}
<1>4. Bad = {}
  <2> SUFFICES ASSUME Bad # {} PROVE FALSE
    OBVIOUS
  <2>1. Bad \in SUBSET Nat
    OBVIOUS
  <2>2. PICK k \in Bad : \A j \in Bad : k <= j
    BY <2>1, HasLeast
  <2>3. k \in 0 .. n /\ Entry(k) # Handed(f[k])
    OBVIOUS
  <2>4. k # 0
    BY <1>2, <2>3, FirstEntry
  <2>5. k - 1 \in 0 .. n - 1 /\ k - 1 \in 0 .. n /\ k - 1 \notin Bad
    BY <2>2, <2>3, <2>4
  <2>6. Entry(k - 1) = f[k - 1]
    BY <1>3, <2>5
  <2>7. f[k - 1] # None
    BY <1>1, <1>2, <2>5
  <2>8. Entry(k - 1 + 1) = After(f[k - 1])
    BY <2>5, <2>6, <2>7, EntryIs
  <2>9. After(f[k - 1]) = Handed(f[k - 1 + 1])
    BY <1>3, <2>5
  <2>10. k - 1 + 1 = k
    BY <2>3
  <2> QED  BY <2>3, <2>8, <2>9, <2>10
<1>5. \A i \in 0 .. n : Entry(i) = Handed(f[i])
  BY <1>4
<1> QED  BY <1>3, <1>5

(* And finds all of it, if the loop ends where the chain does.               *)
LEMMA ReadsChain ==
  ASSUME WellFormed, NEW f, NEW n \in Nat, Chain(f, n), f[n] = length
  PROVE  /\ n <= MaxEntries
         /\ Present = 0 .. n - 1
         /\ ReadEnd = length
         /\ \A i \in 0 .. n - 1 : Entry(i) = f[i]
<1>1. n <= MaxEntries
  <2>1. PICK h : h = loop.head
    OBVIOUS
  <2>2. PICK m : m = MaxEntries
    OBVIOUS
  <2>3. h \in Nat \ {0} /\ m \in Nat /\ length \in Int /\ length < (m + 1) * h
    BY <2>1, <2>2, LoopsAssumption DEF WellFormed, Sound, Bounded
  <2>4. n * h <= length
    BY <2>1, ChainHasRoom
  <2>5. ASSUME n >= m + 1
        PROVE  FALSE
    <3>1. n * h >= (m + 1) * h
      BY <2>3, <2>5
    <3>2. n * h \in Int /\ (m + 1) * h \in Int
      BY <2>3
    <3> QED  BY <2>3, <2>4, <3>1, <3>2
  <2> QED  BY <2>2, <2>3, <2>5
<1>2. length \in Nat
  BY DEF Chain
<1>3. /\ \A i \in 0 .. n - 1 : Entry(i) = f[i]
      /\ Entry(n) = Handed(length)
  BY <1>2, ReadsAlong
<1>4. Entry(n) = None
  BY <1>2, <1>3, HandedIs
<1>5. ASSUME NEW i \in 0 .. n - 1
      PROVE  Entry(i) # None
  <2>1. f[i] \in Nat
    BY DEF Chain
  <2> QED  BY <1>3, <2>1, LoopsAssumption
<1>6. Present = 0 .. n - 1
  BY <1>1, <1>4, <1>5, LoopsAssumption, PresentUpTo
<1>7. ReadEnd = length
  <2>1. CASE n = 0
    <3>1. Present = {}
      BY <1>6, <2>1
    <3>2. length = 0
      BY <2>1 DEF Chain
    <3> QED  BY <3>1, <3>2 DEF ReadEnd
  <2>2. CASE n # 0
    <3>1. Cardinality(Present) = n /\ Present # {}
      <4>1. Cardinality(0 .. n - 1) = n
        BY <2>2, FS_Interval, 0 \in Int, n - 1 \in Int
      <4>2. 0 \in 0 .. n - 1
        BY <2>2
      <4> QED  BY <1>6, <4>1, <4>2
    <3>2. n - 1 \in 0 .. n - 1 /\ n - 1 + 1 = n
      BY <2>2
    <3>3. Entry(n - 1) = f[n - 1]
      BY <1>3, <3>2
    <3>4. f[n - 1 + 1] = f[n - 1] + SizeAt(f[n - 1])
      BY <3>2 DEF Chain
    <3>5. /\ f[n - 1] \in Nat /\ f[n - 1] + SizeAt(f[n - 1]) = length
          /\ SizeAt(f[n - 1]) \in Nat
      BY <3>2, <3>4, SizeIsSize DEF Chain
    <3>6. "reader" \in loop.bytes => SizeAt(f[n - 1]) < Width
      BY <1>2, <3>5, LoopKindsAssumption DEF WellFormed, Sound, Bounded
    <3>7. Step("reader", SizeAt(f[n - 1])) = SizeAt(f[n - 1])
      BY <3>5, <3>6, StepIsNat
    <3>8. ReadEnd = Entry(n - 1) + Step("reader", SizeAt(Entry(n - 1)))
      BY <3>1 DEF ReadEnd
    <3> QED  BY <3>3, <3>5, <3>7, <3>8
  <2> QED  BY <2>1, <2>2
<1> QED  BY <1>1, <1>3, <1>6, <1>7

(* A loop without room has no entry.                                         *)
LEMMA NothingToRead ==
  ASSUME WellFormed, length <= 0
  PROVE  Present = {}
<1>1. Entry(0) = None
  BY FirstEntry, HandedIs DEF WellFormed, Bounded
<1>2. Present = 0 .. 0 - 1
  BY <1>1, LoopsAssumption, PresentUpTo
<1> QED  BY <1>2

-----------------------------------------------------------------------------
(* Kinds of loops                                                            *)

(* All entries have the one size, which is not computed in a byte.           *)
OneSize(k) == Sound(k) /\ k.sizes = {k.head} /\ "reader" \notin k.bytes

(* The declared length is a byte, and the walk may be computed in bytes too. *)
Short(k) == Sound(k) /\ k.inByte /\ k.rule # "divides"

LEMMA WalkIsSound ==
  ASSUME NEW short \in 0 .. 7, NEW head \in Nat \ {0}, NEW announced \in SUBSET Nat,
         \A s \in announced : s >= head
  PROVE  /\ Short(Walk(short, head, announced))
         /\ Walk(short, head, announced).bytes = {}
         /\ Walk(short, head, announced).sizes = announced
         /\ Walk(short, head, announced).head = head
         /\ Walk(short, head, announced).short = short
BY LoopKindsAssumption DEF Walk, Short, Sound

LEMMA RoomIsSound ==
  ASSUME NEW k
  PROVE  /\ Sound(k) => Sound([k EXCEPT !.room = 1])
         /\ OneSize(k) /\ k.bytes = {} => OneSize([k EXCEPT !.inByte = FALSE])
         /\ Sound(k) /\ k.bytes = {} =>
              Sound([k EXCEPT !.room = 1, !.inByte = FALSE])
<1>1. Sound(k) => Sound([k EXCEPT !.room = 1])
  BY DEF Sound
<1>2. Sound(k) /\ k.bytes = {} => Sound([k EXCEPT !.inByte = FALSE])
  BY DEF Sound
<1>3. OneSize(k) /\ k.bytes = {} => OneSize([k EXCEPT !.inByte = FALSE])
  BY <1>2 DEF OneSize, Sound
<1>4. ASSUME Sound(k), k.bytes = {}
      PROVE  Sound([k EXCEPT !.room = 1, !.inByte = FALSE])
  <2> DEFINE r == [k EXCEPT !.room = 1]
  <2>1. Sound(r) /\ r.bytes = {}
    BY <1>1, <1>4 DEF Sound
  <2>2. [k EXCEPT !.room = 1, !.inByte = FALSE] = [r EXCEPT !.inByte = FALSE]
    OBVIOUS
  <2> HIDE DEF r
  <2>3. Sound([r EXCEPT !.inByte = FALSE])
    BY <2>1 DEF Sound
  <2> QED  BY <2>2, <2>3
<1> QED  BY <1>1, <1>3, <1>4

LEMMA FixedIsSound ==
  ASSUME NEW short \in 0 .. 7, NEW size \in Nat \ {0}
  PROVE  /\ OneSize(Fixed(short, size)) /\ Short(Fixed(short, size))
         /\ Fixed(short, size).bytes = {}
BY WalkIsSound DEF Fixed, OneSize, Short

LEMMA CountedIsSound ==
  ASSUME NEW short \in 0 .. 7, NEW head \in 1 .. 10
  PROVE  Short(Counted(short, head))
BY LoopKindsAssumption DEF Counted, Walk, Short, Sound

LEMMA InSectionIsSound ==
  ASSUME NEW short \in 0 .. 7, NEW head \in Nat \ {0}
  PROVE  Sound(InSection(short, head))
<1> DEFINE w == Walk(short, head, {head, head + 1, head + LongLength})
           k1 == [w EXCEPT !.room = 1]
           k2 == [k1 EXCEPT !.inByte = FALSE]
           k3 == [k2 EXCEPT !.bytes = {"number"}]
           R == [short : Nat, head : Nat \ {0}, sizes : SUBSET Nat,
                 room : Nat \ {0}, inByte : BOOLEAN,
                 bytes : SUBSET {"reader", "validator", "number"},
                 rule : {"none", "divides", "left", "head", "whole"}]
           Same(k, l) == /\ k.head = l.head /\ k.sizes = l.sizes
                         /\ k.rule = l.rule /\ k.short = l.short
<1>1. Sound(w)
  <2>1. \A s \in {head, head + 1, head + LongLength} : s \in Nat /\ s >= head
    BY LoopKindsAssumption
  <2> QED  BY <2>1, WalkIsSound DEF Short
<1>2. w.rule = "none"
  BY DEF Walk
<1> HIDE DEF w
<1>3. k1 \in R /\ k1.room = 1 /\ Same(k1, w)
  BY <1>1 DEF Sound
<1>4. k2 \in R /\ k2.room = 1 /\ Same(k2, w)
  BY <1>3
<1>5. k3 \in R /\ k3.room = 1 /\ Same(k3, w) /\ k3.bytes = {"number"}
  BY <1>4
<1>6. InSection(short, head) = k3
  BY DEF InSection, w
<1> HIDE DEF k1, k2, k3
<1>7. Sound(k3)
  BY <1>1, <1>2, <1>5 DEF Sound
<1> QED  BY <1>6, <1>7

LEMMA InBytesIsSound ==
  ASSUME NEW k
  PROVE  /\ \A who \in {"reader", "validator"} : Short(k) => Short(InBytes(k, who))
         /\ Sound(k) => Sound(InBytes(k, "number")) /\ Sound(ByPointer(k))
         /\ OneSize(k) => OneSize(InBytes(k, "number"))
<1>1. ASSUME NEW who \in {"reader", "validator"}, Short(k)
      PROVE  Short(InBytes(k, who))
  BY <1>1 DEF Short, Sound, InBytes
<1>2. Sound(k) => Sound(InBytes(k, "number")) /\ Sound(ByPointer(k))
  BY DEF Sound, InBytes, ByPointer
<1>3. OneSize(k) => OneSize(InBytes(k, "number"))
  BY <1>2 DEF OneSize, Sound, InBytes
<1> QED  BY <1>1, <1>2, <1>3

LEMMA RulesAreSound ==
  ASSUME NEW k
  PROVE  /\ OneSize(k) => Sound(Divides(k))
         /\ Sound(k) => Sound(WhileLeft(k)) /\ Sound(WhileHead(k)) /\ Sound(WhileWhole(k))
         /\ Short(k) => Short(WhileLeft(k)) /\ Short(WhileHead(k)) /\ Sound(k)
<1>1. OneSize(k) => Sound(Divides(k))
  BY DEF OneSize, Sound, Divides
<1>2. Sound(k) => Sound(WhileLeft(k)) /\ Sound(WhileHead(k)) /\ Sound(WhileWhole(k))
  BY DEF Sound, WhileLeft, WhileHead, WhileWhole
<1>3. Short(k) => Short(WhileLeft(k)) /\ Short(WhileHead(k)) /\ Sound(k)
  BY DEF Sound, Short, WhileLeft, WhileHead
<1> QED  BY <1>1, <1>2, <1>3

LEMMA DescriptorList ==
  /\ Sound(descl_validate)
  /\ descl_validate.head = 2 /\ descl_validate.short = 0
  /\ descl_validate.inByte = FALSE
  /\ descl_validate.sizes # {2}
<1> DEFINE w == Walk(0, 2, {2, 3, Width + 1})
           k == [w EXCEPT !.inByte = FALSE]
<1>1. /\ Sound(w) /\ w.bytes = {} /\ w.head = 2 /\ w.short = 0
      /\ w.sizes = {2, 3, Width + 1} /\ w.rule = "none"
  <2>1. \A s \in {2, 3, Width + 1} : s \in Nat /\ s >= 2
    BY LoopKindsAssumption
  <2> QED  BY <2>1, WalkIsSound DEF Short, Walk
<1> HIDE DEF w
<1>2. /\ Sound(k) /\ k.head = 2 /\ k.short = 0 /\ k.inByte = FALSE
      /\ k.sizes = {2, 3, Width + 1}
  BY <1>1 DEF Sound
<1>3. descl_validate = WhileHead(k)
  BY DEF descl_validate, descl_next_desc, w
<1> HIDE DEF k
<1>4. /\ Sound(WhileHead(k)) /\ WhileHead(k).head = 2 /\ WhileHead(k).short = 0
      /\ WhileHead(k).inByte = FALSE /\ WhileHead(k).sizes = {2, 3, Width + 1}
  <2>1. Sound(WhileHead(k))
    BY <1>2, RulesAreSound
  <2> QED  BY <1>2, <2>1 DEF Sound, WhileHead
<1>5. {2, 3, Width + 1} # {2}
  OBVIOUS
<1> QED  BY <1>3, <1>4, <1>5

(* What holds of every kind holds of those there are.                        *)
LEMMA KindsAreSound == \A k \in Kinds : Sound(k)
<1>1. /\ Sound(desc0a_validate)
      /\ Sound(desc1f_validate)
      /\ Sound(desc22_validate)
      /\ Sound(desc41_validate)
      /\ Sound(desc46_validate)
      /\ Sound(desc49_validate)
      /\ Sound(desc4b_validate)
  BY FixedIsSound, RulesAreSound DEF desc0a_validate, desc0a_next_language,
     desc1f_validate, desc1f_next_entry, desc22_validate, desc22_next_entry,
     desc41_validate, desc41_next_service, desc46_validate,
     desc46_next_language, desc49_validate, desc49_next_code, desc4b_validate,
     desc4b_next_reference
<1>2. /\ Sound(desc53_validate)
      /\ Sound(desc54_validate)
      /\ Sound(desc55_validate)
      /\ Sound(desc58_validate)
      /\ Sound(desc59_validate)
      /\ Sound(desc62_validate)
      /\ Sound(desc83p28_validate)
  BY FixedIsSound, RulesAreSound DEF desc53_validate, desc53_next_ca,
     desc54_validate, desc54_next_content, desc55_validate,
     desc55_next_rating, desc58_validate, desc58_next_lto, desc59_validate,
     desc59_next_language, desc62_validate, desc62_next_frequency,
     desc83p28_validate, desc83p28_next_service
<1>3. /\ Sound(desc6f_validate)
      /\ Sound(desc6cn_next_subcell)
      /\ Sound(desc6dn_next_subcell)
      /\ Sound(ait_desc_app_next_profile)
      /\ Sound(ait_desc_app_next_transport_proto)
  <2>1. Sound(Fixed(0, 8)) /\ Sound(Fixed(0, 5))
    BY FixedIsSound DEF OneSize
  <2>2. /\ Sound([Fixed(0, 8) EXCEPT !.room = 1])
        /\ Sound([Fixed(0, 5) EXCEPT !.room = 1])
    BY <2>1, RoomIsSound, Zenon
  <2> QED
    BY <2>2, FixedIsSound, RulesAreSound DEF desc6f_validate,
       desc6f_next_application, desc6cn_next_subcell, desc6dn_next_subcell,
       ait_desc_app_next_profile, ait_desc_app_next_transport_proto
<1>4. /\ Sound(desc45_validate)
      /\ Sound(desc5b_validate)
      /\ Sound(desc5d_validate)
      /\ Sound(desc5e_validate)
      /\ Sound(desc6c_validate)
      /\ Sound(desc6d_validate)
  <2>1. /\ Short(desc45_next_data) /\ Short(desc5b_next_data)
        /\ Short(desc5d_next_data) /\ Short(desc5e_next_data)
        /\ Short(desc6c_next_cell) /\ Short(desc6d_next_cell)
    BY CountedIsSound DEF desc45_next_data, desc5b_next_data, desc5d_next_data,
       desc5e_next_data, desc6c_next_cell, desc6d_next_cell
  <2>2. \A k : Short(k) => Sound(InBytes(WhileLeft(k), "validator"))
    BY InBytesIsSound, RulesAreSound
  <2> QED
    BY <2>1, <2>2 DEF desc45_validate, desc5b_validate, desc5d_validate,
       desc5e_validate, desc6c_validate, desc6d_validate
<1>5. /\ Sound(desc51_validate)
      /\ Sound(desc4e_validate)
      /\ Sound(desc7f19_validate)
      /\ Sound(desc21_validate)
  <2>1. /\ Short(Counted(1, 4)) /\ Short(Counted(0, 2))
        /\ Short(Counted(2, 2)) /\ Short(Counted(0, 1))
    BY CountedIsSound
  <2>2. /\ Short(desc51n_get_data_size) /\ Short(desc4en_get_item_length)
        /\ Short(desc7f19_presel_get_length) /\ Short(desc21_next_entry)
    BY <2>1, InBytesIsSound DEF desc51n_get_data_size,
       desc4en_get_item_length, desc7f19_presel_get_length, desc21_next_entry
  <2>3. \A k : Short(k) => /\ Sound(InBytes(WhileLeft(k), "validator"))
                           /\ Sound(InBytes(WhileHead(k), "validator"))
                           /\ Sound(WhileLeft(k)) /\ Sound(WhileHead(k))
    BY InBytesIsSound, RulesAreSound
  <2> QED
    BY <2>2, <2>3 DEF desc51_validate, desc51_next_logical_cell,
       desc4e_validate, desc4e_next_item, desc7f19_validate,
       desc7f19_next_presel, desc21_validate
<1>6. /\ Sound(desc6e_validate)
      /\ Sound(desc21n_validate)
      /\ Sound(desc4a_next_ext_event)
  BY WalkIsSound, InBytesIsSound, RulesAreSound DEF desc6e_validate,
     desc6e_next_announcement, desc6en_get_data_size, desc21n_validate,
     desc21n_next_substruct, desc4a_next_ext_event,
     desc4an_get_ext_event_length
<1>7. /\ Sound(pat_validate)
      /\ Sound(rst_validate)
  <2>1. /\ OneSize(Fixed(0, 4)) /\ Fixed(0, 4).bytes = {}
        /\ OneSize(Fixed(0, 9)) /\ Fixed(0, 9).bytes = {}
    BY FixedIsSound
  <2>2. /\ OneSize([Fixed(0, 4) EXCEPT !.inByte = FALSE])
        /\ OneSize([Fixed(0, 9) EXCEPT !.inByte = FALSE])
    BY <2>1, RoomIsSound, Zenon
  <2>3. OneSize(pat_get_program) /\ OneSize(rst_get_status)
    BY <2>2, InBytesIsSound DEF pat_get_program, rst_get_status
  <2> QED  BY <2>3, RulesAreSound DEF pat_validate, rst_validate
<1>8. /\ Sound(nit_validate)
      /\ Sound(bat_validate)
      /\ Sound(sdt_validate)
      /\ Sound(eit_validate)
      /\ Sound(sit_validate)
      /\ Sound(pmt_validate)
      /\ Sound(tlv_validate)
      /\ Sound(ait_next_app)
  BY InSectionIsSound, InBytesIsSound, RulesAreSound DEF nit_validate,
     nit_get_ts, bat_validate, sdt_validate, sdt_get_service, eit_validate,
     eit_get_event, sit_validate, sit_get_service, pmt_validate, pmt_next_es,
     tlv_validate, tlv_find_param, tlv_get_param, ait_next_app
<1>9. Sound(capmti_get_info)
  <2>1. \A s \in {2, 3, Width + 1} : s \in Nat /\ s >= 2
    BY LoopKindsAssumption
  <2>2. /\ Sound(Walk(1, 2, {2, 3, Width + 1}))
        /\ Walk(1, 2, {2, 3, Width + 1}).bytes = {}
    BY <2>1, WalkIsSound DEF Short
  <2>3. Sound([Walk(1, 2, {2, 3, Width + 1}) EXCEPT !.room = 1, !.inByte = FALSE])
    BY <2>2, RoomIsSound, Zenon
  <2> QED  BY <2>3 DEF capmti_get_info
<1> QED
  BY <1>1, <1>2, <1>3, <1>4, <1>5, <1>6, <1>7, <1>8, <1>9, DescriptorList
     DEF Kinds

-----------------------------------------------------------------------------
(* Noting the size of an entry                                               *)

Noted(p, s) ==
  /\ loop' = loop
  /\ DOMAIN sizes' = DOMAIN sizes \cup {p}
  /\ \A q \in DOMAIN sizes' : sizes'[q] = IF q = p THEN s ELSE sizes[q]

LEMMA LookNotes ==
  ASSUME NEW p, NEW s, Look(p, s), loop' = loop
  PROVE  Noted(p, s)
BY DEF Look, Noted

LEMMA NotedSizes ==
  ASSUME Sizes, NEW p \in Nat, NEW s \in Nat, s >= loop.head,
         loop.sizes = {loop.head} => s = loop.head, Noted(p, s)
  PROVE  Sizes'
BY DEF Sizes, Noted

LEMMA NotedIsKnown ==
  ASSUME NEW p, NEW s, Noted(p, s), NEW q
  PROVE  /\ Known(q) \/ q = p => Known(q)'
         /\ q # p => SizeAt(q)' = SizeAt(q)
         /\ SizeAt(p)' = s
<1>1. Known(q) \/ q = p => Known(q)'
  BY DEF Noted, Known
<1>2. q # p => SizeAt(q)' = SizeAt(q)
  BY DEF Noted, SizeAt
<1>3. SizeAt(p)' = s
  BY DEF Noted, SizeAt
<1> QED  BY <1>1, <1>2, <1>3

(* A chain stays one when the sizes of its entries do.                       *)
LEMMA SameChain ==
  ASSUME NEW f, NEW n \in Nat, Chain(f, n),
         \A i \in 0 .. n - 1 : Known(f[i])' /\ SizeAt(f[i])' = SizeAt(f[i])
  PROVE  Chain(f, n)'
BY DEF Chain

(* The size of an entry that is not part of it changes nothing.              *)
LEMMA NotedBeyond ==
  ASSUME WellFormed, NEW f, NEW n \in Nat, Chain(f, n), NEW s, Noted(f[n], s)
  PROVE  /\ Chain(f, n)'
         /\ \A i \in 0 .. n - 1 : SizeAt(f[i])' = SizeAt(f[i])
<1>1. ASSUME NEW i \in 0 .. n - 1
      PROVE  Known(f[i])' /\ SizeAt(f[i])' = SizeAt(f[i])
  <2>1. f[i] # f[n]
    <3>1. /\ f[i] \in Nat /\ f[i + 1] \in Nat /\ f[i] + loop.head <= f[i + 1]
          /\ f[i + 1] <= f[n]
      BY ChainGoesOn
    <3>2. loop.head \in Nat \ {0} /\ f[n] \in Nat
      BY DEF WellFormed, Sound, Chain
    <3> QED  BY <3>1, <3>2
  <2>2. Known(f[i])
    BY DEF Chain
  <2> QED  BY <2>1, <2>2, NotedIsKnown
<1> QED  BY <1>1, SameChain

(* The entry after a chain makes it one longer.                              *)
LEMMA LongerChain ==
  ASSUME WellFormed, NEW f, NEW n \in Nat, Chain(f, n),
         NEW s \in Nat, Noted(f[n], s)
  PROVE  \E g : /\ Chain(g, n + 1)' /\ g[n + 1] = f[n] + s
                /\ \A i \in 0 .. n : g[i] = f[i]
<1> DEFINE g == [i \in 0 .. n + 1 |-> IF i = n + 1 THEN f[n] + s ELSE f[i]]
<1>1. Chain(f, n)'
  BY NotedBeyond
<1>2. \A i \in 0 .. n : g[i] = f[i]
  OBVIOUS
<1>3. g[n + 1] = f[n] + s
  OBVIOUS
<1>4. f[n] \in Nat /\ \A i \in 0 .. n : f[i] \in Nat
  BY DEF Chain
<1>5. g \in [0 .. n + 1 -> Nat] /\ g[0] = 0 /\ n + 1 \in Nat
  BY <1>4 DEF Chain
<1>6. ASSUME NEW i \in 0 .. n + 1 - 1
      PROVE  Known(g[i])' /\ g[i + 1] = g[i] + SizeAt(g[i])'
  <2>1. CASE i = n
    <3>1. g[i] = f[n]
      BY <1>2, <2>1
    <3>2. Known(f[n])' /\ SizeAt(f[n])' = s
      BY NotedIsKnown
    <3> QED  BY <1>3, <2>1, <3>1, <3>2
  <2>2. CASE i # n
    <3>1. i \in 0 .. n - 1 /\ i \in 0 .. n /\ i + 1 \in 0 .. n
      BY <2>2
    <3>2. g[i] = f[i] /\ g[i + 1] = f[i + 1]
      BY <1>2, <3>1
    <3>3. Known(f[i])' /\ f[i + 1] = f[i] + SizeAt(f[i])'
      BY <1>1, <3>1 DEF Chain
    <3> QED  BY <3>2, <3>3
  <2> QED  BY <2>1, <2>2
<1>7. PICK h : h = g
  OBVIOUS
<1> HIDE DEF g
<1>8. Chain(h, n + 1)'
  BY <1>5, <1>6, <1>7 DEF Chain
<1> QED  BY <1>2, <1>3, <1>7, <1>8

(* Before the first entry is an empty chain.                                 *)
LEMMA EmptyChain == \E f : Chain(f, 0) /\ f[0] = 0
<1>1. Chain([i \in 0 .. 0 |-> 0], 0)
  BY DEF Chain
<1> QED  BY <1>1

(* Looking again at a size one knows changes nothing.                        *)
LEMMA LookAgain ==
  ASSUME NEW p, Known(p), Look(p, SizeAt(p)), loop' = loop,
         NEW f, NEW n \in Nat, Chain(f, n)
  PROVE  Chain(f, n)'
<1>1. Noted(p, SizeAt(p))
  BY LookNotes
<1>2. ASSUME NEW i \in 0 .. n - 1
      PROVE  Known(f[i])' /\ SizeAt(f[i])' = SizeAt(f[i])
  <2>1. Known(f[i])
    BY DEF Chain
  <2> QED  BY <1>1, <2>1, NotedIsKnown
<1> QED  BY <1>2, SameChain

-----------------------------------------------------------------------------
(* The inductive invariant of a loop                                         *)

LoopShape ==
  /\ loop \in Kinds /\ ours \in BOOLEAN
  /\ phase \in {"nothing", "open", "adding", "closed", "checking", "accepted",
                "refused", "reading", "read"}
  /\ Sizes /\ Bounded
  /\ at \in Nat /\ count \in 0 .. MaxEntries
  /\ phase \in {"nothing", "open", "closed"} => at = 0
  /\ phase = "nothing" => count = 0
  /\ phase \in {"open", "adding", "closed"} => ours = TRUE
  /\ phase = "checking" => loop.rule # "none"

(* While it is written, its entries are a chain.                             *)
Written ==
  /\ phase = "open" => \E f : Chain(f, count) /\ (count = 0 \/ f[count] <= length)
  /\ phase = "adding" =>
       /\ loop = descl_validate /\ count < MaxEntries
       /\ at \in DOMAIN sizes /\ length - at \in {2, 3}
       /\ \E f : Chain(f, count) /\ f[count] = at
  /\ phase = "closed" => \E f : Chain(f, count) /\ f[count] = length

(* The walk over it goes along that chain; over what was received, along the *)
(* entries it has met, unless one of them has turned it.                     *)
Walked ==
  /\ phase = "checking" /\ ours =>
       \E f : Chain(f, count) /\ f[count] = length /\ \E j \in 0 .. count : at = f[j]
  /\ phase = "checking" /\ ~ours =>
       Turned \/ \E n \in Nat : \E f : Chain(f, n) /\ f[n] = at

(* A loop found good is a chain.                                             *)
Whole ==
  phase \in {"accepted", "reading", "read"} /\ (ours \/ ~Turned) /\ length > 0 =>
    \E n \in Nat : \E f : Chain(f, n) /\ f[n] = length

LoopInv == LoopShape /\ Written /\ Walked /\ Whole

LEMMA ShapeIsWellFormed ==
  ASSUME LoopShape
  PROVE  WellFormed
BY KindsAreSound DEF LoopShape, WellFormed

LEMMA ShapeCounts ==
  ASSUME LoopShape
  PROVE  /\ WellFormed /\ count \in Nat /\ at \in Nat
         /\ MaxEntries \in Nat /\ loop.head \in Nat \ {0}
<1>1. MaxEntries \in Nat /\ count \in 0 .. MaxEntries
  BY LoopsAssumption DEF LoopShape
<1>2. WellFormed
  BY ShapeIsWellFormed
<1>3. loop.head \in Nat \ {0}
  BY <1>2 DEF WellFormed, Sound
<1>4. at \in Nat
  BY DEF LoopShape
<1> QED  BY <1>1, <1>2, <1>3, <1>4

LEMMA LoopInitInv == LoopInit => LoopInv
<1> SUFFICES ASSUME LoopInit PROVE LoopInv
  OBVIOUS
<1>1. DOMAIN sizes = {}
  BY DEF LoopInit
<1>2. Sound(loop)
  BY KindsAreSound DEF LoopInit
<1>3. Sizes
  BY <1>1 DEF Sizes
<1>4. Bounded
  <2>1. PICK h : h = loop.head
    OBVIOUS
  <2>2. h \in Nat \ {0} /\ MaxEntries \in Nat
    BY <1>2, <2>1, LoopsAssumption DEF Sound
  <2>3. 0 < (MaxEntries + 1) * h
    BY <2>2
  <2>4. 0 + loop.short < Width
    BY <1>2 DEF Sound
  <2> QED  BY <2>1, <2>3, <2>4 DEF LoopInit, Bounded
<1>5. LoopShape
  <2>1. MaxEntries \in Nat
    BY LoopsAssumption
  <2>2. /\ loop \in Kinds /\ phase = "nothing" /\ ours = FALSE
        /\ at = 0 /\ count = 0
    BY DEF LoopInit
  <2>3. at \in Nat /\ count \in 0 .. MaxEntries
    BY <2>1, <2>2
  <2> QED  BY <1>3, <1>4, <2>2, <2>3 DEF LoopShape
<1>6. Written /\ Walked /\ Whole
  BY DEF LoopInit, Written, Walked, Whole
<1> QED
  BY <1>5, <1>6 DEF LoopInv

(* The lengths under test leave no room for more than MaxEntries entries.    *)
LEMMA LengthsAreBounded ==
  ASSUME LoopShape, length' \in Lengths, loop' = loop
  PROVE  Bounded'
<1>1. PICK h : h = loop.head
  OBVIOUS
<1>2. PICK m : m = MaxEntries
  OBVIOUS
<1>3. Sound(loop)
  BY ShapeIsWellFormed DEF WellFormed
<1>4. h \in Nat \ {0} /\ m \in Nat /\ loop.short \in Nat
  BY <1>1, <1>2, <1>3, LoopsAssumption DEF Sound
<1>5. /\ length' \in -loop.short .. m * h + h - 1
      /\ loop.inByte => length' + loop.short < Width
  BY <1>1, <1>2 DEF Lengths
<1>6. (m + 1) * h = m * h + h /\ m * h \in Nat
  BY <1>4
<1>7. -loop.short \in Int /\ m * h + h - 1 \in Int
  BY <1>4, <1>6
<1>8. length' \in Int /\ length' < (m + 1) * h
  BY <1>4, <1>5, <1>6, <1>7
<1> QED  BY <1>1, <1>2, <1>5, <1>8 DEF Bounded

LEMMA SizesStay ==
  ASSUME Sizes, UNCHANGED <<loop, sizes>>
  PROVE  Sizes'
BY DEF Sizes

LEMMA ChainStays ==
  ASSUME UNCHANGED <<loop, sizes>>, NEW f, NEW n, Chain(f, n)
  PROVE  Chain(f, n)'
BY DEF Chain, Known, SizeAt

LEMMA OpenInv ==
  ASSUME LoopInv, Open
  PROVE  LoopInv'
<1>1. Sizes' /\ Bounded'
  BY SizesStay, LengthsAreBounded DEF LoopInv, LoopShape, Open
<1>2. LoopShape'
  BY <1>1 DEF LoopInv, LoopShape, Open
<1>3. Written'
  <2>1. PICK f : Chain(f, 0) /\ f[0] = 0
    BY EmptyChain
  <2>2. Chain(f, 0)'
    BY <2>1, ChainStays DEF Open
  <2>3. count' = 0
    BY DEF LoopInv, LoopShape, Open
  <2>4. phase' = "open"
    BY DEF Open
  <2> QED  BY <2>2, <2>3, <2>4 DEF Written
<1>4. Walked' /\ Whole'
  BY DEF Open, Walked, Whole
<1> QED  BY <1>2, <1>3, <1>4 DEF LoopInv

(* What an entry is written over: the end of the chain.                      *)
LEMMA NextIsEnd ==
  ASSUME LoopInv, phase = "open", Entry(count) # None
  PROVE  \E f : /\ Chain(f, count) /\ (count = 0 \/ f[count] <= length)
                /\ Entry(count) = f[count] /\ f[count] \in 0 .. length
<1>1. WellFormed /\ count \in Nat
  BY ShapeCounts DEF LoopInv
<1>2. PICK f : Chain(f, count) /\ (count = 0 \/ f[count] <= length)
  BY DEF LoopInv, Written
<1>3. Entry(count) = Handed(f[count])
  BY <1>1, <1>2, ReadsAlong
<1>4. f[count] \in Nat
  BY <1>2 DEF Chain
<1>5. Handed(f[count]) = f[count] /\ Handed(f[count]) \in (0 .. length) \cup {None}
  BY <1>1, <1>3, <1>4, HandedIs
<1> QED  BY <1>2, <1>3, <1>5

LEMMA AddInv ==
  ASSUME LoopInv, NEW s \in loop.sizes, Add(s)
  PROVE  LoopInv'
<1>1. /\ phase = "open" /\ count < MaxEntries /\ Entry(count) # None
      /\ Entry(count) + s <= length /\ Look(Entry(count), s)
      /\ count' = count + 1
      /\ UNCHANGED <<loop, phase, ours, length, at>>
  BY DEF Add
<1>2. WellFormed /\ count \in Nat
  BY ShapeCounts DEF LoopInv
<1>3. PICK f : /\ Chain(f, count) /\ Entry(count) = f[count] /\ f[count] \in 0 .. length
  BY <1>1, NextIsEnd
<1>4. s \in Nat /\ s >= loop.head /\ (loop.sizes = {loop.head} => s = loop.head)
  BY <1>2 DEF WellFormed, Sound
<1>5. Noted(f[count], s)
  BY <1>1, <1>3, LookNotes
<1>6. LoopShape'
  <2>1. Sizes'
    BY <1>3, <1>4, <1>5, NotedSizes DEF LoopInv, LoopShape
  <2>2. Bounded'
    BY <1>1 DEF LoopInv, LoopShape, Bounded
  <2>3. count' \in 0 .. MaxEntries
    BY <1>1, <1>2, LoopsAssumption
  <2> QED  BY <1>1, <2>1, <2>2, <2>3 DEF LoopInv, LoopShape
<1>7. Written'
  <2>1. PICK n : n = count
    OBVIOUS
  <2>2. n \in Nat /\ Chain(f, n) /\ Noted(f[n], s)
    BY <1>2, <1>3, <1>5, <2>1
  <2>3. PICK g : Chain(g, n + 1)' /\ g[n + 1] = f[n] + s
    BY <1>2, <1>4, <2>2, LongerChain
  <2>4. g[n + 1] <= length' /\ count' = n + 1
    BY <1>1, <1>3, <2>1, <2>3
  <2> QED  BY <1>1, <2>3, <2>4 DEF Written
<1>8. Walked' /\ Whole'
  BY <1>1 DEF Walked, Whole
<1> QED  BY <1>6, <1>7, <1>8 DEF LoopInv

LEMMA CloseInv ==
  ASSUME LoopInv, Close
  PROVE  LoopInv'
<1>1. /\ phase = "open" /\ Entry(count) # None /\ length' = Entry(count)
      /\ phase' = "closed" /\ UNCHANGED <<loop, ours, sizes, at, count>>
  BY DEF Close
<1>2. PICK f : /\ Chain(f, count) /\ Entry(count) = f[count] /\ f[count] \in 0 .. length
  BY <1>1, NextIsEnd
<1>3. WellFormed
  BY ShapeIsWellFormed DEF LoopInv
<1>4. Bounded'
  <2>1. length' \in Nat /\ length' <= length /\ length \in Int
    BY <1>1, <1>2, <1>3 DEF WellFormed, Bounded
  <2>2. PICK b : b = (MaxEntries + 1) * loop.head
    OBVIOUS
  <2>3. b \in Int
    BY <1>3, <2>2, LoopsAssumption DEF WellFormed, Sound
  <2>4. length < b
    BY <1>3, <2>2 DEF WellFormed, Bounded
  <2>5. length' < b
    BY <2>1, <2>3, <2>4
  <2>6. loop.inByte => length' + loop.short < Width
    <3>1. loop.inByte => length + loop.short < Width
      BY <1>3 DEF WellFormed, Bounded
    <3>2. loop.short \in Nat /\ Width \in Nat
      BY <1>3, LoopKindsAssumption DEF WellFormed, Sound
    <3> QED  BY <2>1, <3>1, <3>2
  <2> QED  BY <1>1, <2>1, <2>2, <2>5, <2>6 DEF Bounded
<1>5. LoopShape'
  BY <1>1, <1>4, SizesStay DEF LoopInv, LoopShape
<1>6. Written'
  <2>1. Chain(f, count)'
    BY <1>1, <1>2, ChainStays
  <2>2. f[count'] = length'
    BY <1>1, <1>2
  <2> QED  BY <1>1, <2>1, <2>2 DEF Written
<1>7. Walked' /\ Whole'
  BY <1>1 DEF Walked, Whole
<1> QED  BY <1>5, <1>6, <1>7 DEF LoopInv

LEMMA AddDescInv ==
  ASSUME LoopInv, NEW s \in {2, 3}, AddDesc(s)
  PROVE  LoopInv'
<1>1. /\ loop = descl_validate /\ phase = "closed"
      /\ count < MaxEntries /\ length + s <= MaxEntries * loop.head + 1
      /\ Look(length, 2 + ((length - 2) % Width))
      /\ length' = length + s /\ at' = length /\ phase' = "adding"
      /\ UNCHANGED <<loop, ours, count>>
  BY DEF AddDesc
<1>2. WellFormed /\ count \in Nat /\ MaxEntries \in Nat
  BY ShapeCounts DEF LoopInv
<1>3. PICK f : Chain(f, count) /\ f[count] = length
  BY <1>1 DEF LoopInv, Written
<1>4. length \in Nat
  BY <1>2, <1>3 DEF Chain
<1>5. loop.head = 2 /\ loop.inByte = FALSE /\ loop.sizes # {2}
  BY <1>1, DescriptorList
<1>6. PICK z : z = 2 + ((length - 2) % Width)
  OBVIOUS
<1>7. z \in Nat /\ z >= 2
  BY <1>4, <1>6, LoopKindsAssumption
<1>8. Noted(length, z)
  BY <1>1, <1>6, LookNotes
<1>9. LoopShape'
  <2>1. Sizes'
    BY <1>2, <1>4, <1>5, <1>7, <1>8, NotedSizes DEF WellFormed
  <2>2. Bounded'
    <3>1. length' \in Nat /\ length' < (MaxEntries + 1) * 2
      BY <1>1, <1>2, <1>4, <1>5
    <3> QED  BY <1>1, <1>5, <3>1 DEF Bounded
  <2> QED  BY <1>1, <1>4, <2>1, <2>2 DEF LoopInv, LoopShape
<1>10. Written'
  <2>1. Chain(f, count)'
    <3>1. PICK n : n = count
      OBVIOUS
    <3>2. n \in Nat /\ Chain(f, n) /\ Noted(f[n], z)
      BY <1>2, <1>3, <1>8, <3>1
    <3>3. Chain(f, n)'
      BY <1>2, <3>2, NotedBeyond
    <3> QED  BY <1>1, <3>1, <3>3
  <2>2. f[count'] = at' /\ count' < MaxEntries /\ loop' = descl_validate
    BY <1>1, <1>3
  <2>3. at' \in DOMAIN sizes' /\ length' - at' \in {2, 3}
    BY <1>1, <1>4, <1>8 DEF Noted
  <2> QED  BY <1>1, <2>1, <2>2, <2>3 DEF Written
<1>11. Walked' /\ Whole'
  BY <1>1 DEF Walked, Whole
<1> QED  BY <1>9, <1>10, <1>11 DEF LoopInv

LEMMA SetLengthInv ==
  ASSUME LoopInv, SetLength
  PROVE  LoopInv'
<1>1. /\ phase = "adding" /\ sizes' = [sizes EXCEPT ![at] = length - at]
      /\ count' = count + 1 /\ at' = 0 /\ phase' = "closed"
      /\ UNCHANGED <<loop, ours, length>>
  BY DEF SetLength
<1>2. WellFormed /\ count \in Nat /\ MaxEntries \in Nat /\ at \in Nat
  BY ShapeCounts DEF LoopInv
<1>3. PICK f : Chain(f, count) /\ f[count] = at
  BY <1>1 DEF LoopInv, Written
<1>4. /\ loop = descl_validate /\ count < MaxEntries
      /\ at \in DOMAIN sizes /\ length - at \in {2, 3}
  BY <1>1 DEF LoopInv, Written
<1>5. loop.head = 2 /\ loop.sizes # {2}
  BY <1>4, DescriptorList
<1>6. PICK z : z = length - at
  OBVIOUS
<1>7. z \in Nat /\ z >= 2 /\ at + z = length
  BY <1>2, <1>4, <1>6 DEF WellFormed, Bounded
<1>8. Noted(at, z)
  BY <1>1, <1>4, <1>6 DEF Noted
<1>9. LoopShape'
  <2>1. Sizes'
    BY <1>2, <1>5, <1>7, <1>8, NotedSizes DEF WellFormed
  <2>2. Bounded'
    BY <1>1, <1>2 DEF WellFormed, Bounded
  <2>3. count' \in 0 .. MaxEntries
    BY <1>1, <1>2, <1>4
  <2> QED  BY <1>1, <2>1, <2>2, <2>3 DEF LoopInv, LoopShape
<1>10. Written'
  <2>1. PICK n : n = count
    OBVIOUS
  <2>2. n \in Nat /\ Chain(f, n) /\ Noted(f[n], z)
    BY <1>2, <1>3, <1>8, <2>1
  <2>3. PICK g : Chain(g, n + 1)' /\ g[n + 1] = f[n] + z
    BY <1>2, <1>7, <2>2, LongerChain
  <2>4. g[n + 1] = length' /\ count' = n + 1
    BY <1>1, <1>3, <1>7, <2>1, <2>3
  <2> QED  BY <1>1, <2>3, <2>4 DEF Written
<1>11. Walked' /\ Whole'
  BY <1>1 DEF Walked, Whole
<1> QED  BY <1>9, <1>10, <1>11 DEF LoopInv

LEMMA ReceiveLoopInv ==
  ASSUME LoopInv, ReceiveLoop
  PROVE  LoopInv'
<1>1. Sizes' /\ Bounded'
  BY SizesStay, LengthsAreBounded DEF LoopInv, LoopShape, ReceiveLoop
<1>2. LoopShape'
  BY <1>1 DEF LoopInv, LoopShape, ReceiveLoop
<1>3. Walked'
  <2>1. PICK f : Chain(f, 0) /\ f[0] = 0
    BY EmptyChain
  <2>2. Chain(f, 0)'
    BY <2>1, ChainStays DEF ReceiveLoop
  <2>3. at' = 0 /\ ours' = FALSE
    BY DEF LoopInv, LoopShape, ReceiveLoop
  <2> QED  BY <2>1, <2>2, <2>3 DEF Walked
<1>4. Written' /\ Whole'
  BY DEF ReceiveLoop, Written, Whole
<1> QED  BY <1>2, <1>3, <1>4 DEF LoopInv

LEMMA CheckInv ==
  ASSUME LoopInv, Check
  PROVE  LoopInv'
<1>1. /\ phase = "closed" /\ phase' = "checking" /\ loop.rule # "none"
      /\ UNCHANGED <<loop, ours, length, sizes, at, count>>
  BY DEF Check
<1>2. LoopShape'
  <2>1. Sizes' /\ Bounded'
    BY <1>1, SizesStay DEF LoopInv, LoopShape, Bounded
  <2> QED  BY <1>1, <2>1 DEF LoopInv, LoopShape
<1>3. Walked'
  <2>1. at = 0 /\ ours = TRUE /\ count \in Nat
    BY <1>1, ShapeCounts DEF LoopInv, LoopShape
  <2>2. PICK f : Chain(f, count) /\ f[count] = length
    BY <1>1 DEF LoopInv, Written
  <2>3. Chain(f, count)'
    BY <1>1, <2>2, ChainStays
  <2>4. f[0] = 0 /\ 0 \in 0 .. count
    BY <2>1, <2>2 DEF Chain
  <2> QED  BY <1>1, <2>1, <2>2, <2>3, <2>4 DEF Walked
<1>4. Written' /\ Whole'
  BY <1>1 DEF Written, Whole
<1> QED  BY <1>2, <1>3, <1>4 DEF LoopInv

LEMMA AnnouncedIs ==
  ASSUME WellFormed, NEW p, NEW s \in Announced(p)
  PROVE  /\ s \in Nat /\ s >= loop.head
         /\ loop.sizes = {loop.head} => s = loop.head
         /\ Known(p) => s = SizeAt(p)
<1>1. CASE Known(p)
  <2>1. s = SizeAt(p)
    BY <1>1 DEF Announced
  <2>2. loop.sizes = {loop.head} => SizeAt(p) = loop.head
    BY DEF WellFormed, Sizes, SizeAt
  <2> QED  BY <2>1, <2>2, SizeIsSize
<1>2. CASE ~ Known(p)
  <2>1. s \in loop.sizes
    BY <1>2 DEF Announced
  <2> QED  BY <1>2, <2>1 DEF WellFormed, Sound
<1> QED  BY <1>1, <1>2

(* Entries of one size are at the multiples of it.                           *)
LEMMA OneSizeChain ==
  ASSUME WellFormed, loop.sizes = {loop.head}, NEW f, NEW n \in Nat, Chain(f, n)
  PROVE  f[n] % loop.head = 0
<1>1. PICK h : h = loop.head
  OBVIOUS
<1>2. h \in Nat \ {0}
  BY <1>1 DEF WellFormed, Sound
<1> DEFINE Bad == {k \in 0 .. n : f[k] # k * h}
<1>3. ASSUME NEW i \in 0 .. n - 1
      PROVE  f[i + 1] = f[i] + h
  BY <1>1 DEF Chain, WellFormed, Sizes, SizeAt
<1>4. Bad = {}
  <2> SUFFICES ASSUME Bad # {} PROVE FALSE
    OBVIOUS
  <2>1. Bad \in SUBSET Nat
    OBVIOUS
  <2>2. PICK k \in Bad : \A l \in Bad : k <= l
    BY <2>1, HasLeast
  <2>3. k \in 0 .. n /\ f[k] # k * h
    OBVIOUS
  <2>4. k # 0
    BY <1>2, <2>3 DEF Chain
  <2>5. k - 1 \in 0 .. n /\ k - 1 \notin Bad /\ k - 1 \in 0 .. n - 1
    BY <2>2, <2>3, <2>4
  <2>6. f[k - 1] = (k - 1) * h
    BY <2>5
  <2>7. f[k - 1 + 1] = f[k - 1] + h
    BY <1>3, <2>5
  <2>8. k - 1 + 1 = k /\ (k - 1) * h + h = k * h
    BY <1>2, <2>3
  <2> QED  BY <2>3, <2>6, <2>7, <2>8
<1>5. f[n] = n * h
  BY <1>4
<1>6. n * h = h * n + 0 /\ 0 \in 0 .. h - 1
  BY <1>2
<1>7. (h * n + 0) % h = 0
  BY <1>2, <1>6, Remainder
<1> QED  BY <1>1, <1>5, <1>6, <1>7

(* Over what was written the walk goes to the end, and no further.           *)
LEMMA WalkOverWritten ==
  ASSUME WellFormed, loop.rule # "none", NEW f, NEW n \in Nat, Chain(f, n),
         f[n] = length, NEW j \in 0 .. n, at = f[j], NEW s \in Announced(at)
  PROVE  /\ j < n => /\ Known(at) /\ s = SizeAt(at)
                     /\ at + Step("validator", s) = f[j + 1]
         /\ GoesOn(s) => j < n
         /\ ~ GoesOn(s) => EndsWell
<1>1. /\ s \in Nat /\ s >= loop.head /\ (Known(at) => s = SizeAt(at))
      /\ at \in Nat /\ length \in Nat
  BY AnnouncedIs DEF Chain
<1>2. /\ loop.head \in Nat \ {0} /\ loop.short \in Nat /\ Width \in Nat
      /\ "validator" \in loop.bytes => loop.inByte
      /\ loop.inByte => length + loop.short < Width
      /\ loop.rule \in {"divides", "left", "head", "whole"}
      /\ loop.rule = "divides" => loop.sizes = {loop.head}
  BY LoopKindsAssumption DEF WellFormed, Sound, Bounded
<1>3. ASSUME j < n
      PROVE  /\ Known(at) /\ s = SizeAt(at)
             /\ at + s = f[j + 1] /\ f[j + 1] \in Nat /\ f[j + 1] <= length
  <2>1. j \in 0 .. n - 1
    BY <1>3
  <2>2. Known(at) /\ f[j + 1] = at + SizeAt(at)
    BY <2>1 DEF Chain
  <2>3. f[j + 1] \in Nat /\ f[j + 1] <= length
    BY <2>1, ChainGoesOn
  <2> QED  BY <1>1, <2>2, <2>3
<1>4. ASSUME j < n
      PROVE  at + Step("validator", s) = f[j + 1]
  <2>1. "validator" \in loop.bytes => s < Width
    BY <1>1, <1>2, <1>3, <1>4
  <2>2. Step("validator", s) = s
    BY <1>1, <2>1, StepIsNat
  <2> QED  BY <1>3, <1>4, <2>2
<1>5. j < n \/ at = length
  OBVIOUS
<1>6. GoesOn(s) => j < n
  BY <1>1, <1>2, <1>5 DEF GoesOn
<1>7. ASSUME ~ GoesOn(s)
      PROVE  EndsWell
  <2>1. CASE loop.rule = "divides"
    BY <1>2, <2>1, OneSizeChain DEF EndsWell
  <2>2. CASE loop.rule # "divides"
    <3>1. ASSUME j < n
          PROVE  FALSE
      <4>1. at < length /\ at + loop.head <= length /\ at + s <= length
        BY <1>1, <1>2, <1>3, <3>1
      <4> QED  BY <1>2, <1>7, <2>2, <4>1 DEF GoesOn
    <3> QED  BY <1>5, <2>2, <3>1 DEF EndsWell
  <2> QED  BY <2>1, <2>2
<1> QED  BY <1>3, <1>4, <1>6, <1>7

LEMMA TurnedStays ==
  ASSUME WellFormed, Turned, NEW s \in Announced(at), Noted(at, s)
  PROVE  Turned'
<1>1. PICK p \in DOMAIN sizes : sizes[p] >= Width
  BY DEF Turned
<1>2. p \in DOMAIN sizes' /\ (p # at => sizes'[p] = sizes[p])
  BY DEF Noted
<1>3. p = at => sizes'[p] = sizes[p]
  <2>1. SUFFICES ASSUME p = at PROVE sizes'[p] = sizes[p]
    OBVIOUS
  <2>2. Known(at) /\ SizeAt(at) = sizes[p]
    BY <2>1 DEF Known, SizeAt
  <2>3. s = sizes[p]
    BY <2>2, AnnouncedIs
  <2>4. sizes'[p] = s
    BY <1>2, <2>1 DEF Noted
  <2> QED  BY <2>3, <2>4
<1>4. loop' = loop
  BY DEF Noted
<1> QED  BY <1>1, <1>2, <1>3, <1>4 DEF Turned

LEMMA AdvanceInv ==
  ASSUME LoopInv, Advance
  PROVE  LoopInv'
<1>1. PICK s \in Announced(at) :
        /\ GoesOn(s) /\ Look(at, s) /\ at' = at + Step("validator", s)
  BY DEF Advance
<1>2. /\ phase = "checking" /\ UNCHANGED <<loop, phase, ours, length, count>>
  BY DEF Advance
<1>3. WellFormed /\ count \in Nat /\ at \in Nat /\ loop.rule # "none"
  BY <1>2, ShapeCounts DEF LoopInv, LoopShape
<1>4. s \in Nat /\ s >= loop.head /\ (loop.sizes = {loop.head} => s = loop.head)
  BY <1>3, AnnouncedIs
<1>5. Noted(at, s)
  BY <1>1, <1>2, LookNotes
<1>6. LoopShape'
  <2>1. Sizes'
    BY <1>3, <1>4, <1>5, NotedSizes DEF WellFormed
  <2>2. Bounded'
    BY <1>2, <1>3 DEF WellFormed, Bounded
  <2>3. at' \in Nat
    <3>1. Step("validator", s) \in Nat
      BY <1>3, <1>4, StepIsNat
    <3> QED  BY <1>1, <1>3, <3>1
  <2> QED  BY <1>2, <2>1, <2>2, <2>3 DEF LoopInv, LoopShape
<1>7. CASE ours
  <2>1. PICK f : Chain(f, count) /\ f[count] = length /\ \E j \in 0 .. count : at = f[j]
    BY <1>2, <1>7 DEF LoopInv, Walked
  <2>2. PICK j \in 0 .. count : at = f[j]
    BY <2>1
  <2>3. j < count /\ Known(at) /\ s = SizeAt(at) /\ at' = f[j + 1]
    BY <1>1, <1>3, <2>1, <2>2, WalkOverWritten
  <2>4. Chain(f, count)'
    <3>1. PICK n : n = count
      OBVIOUS
    <3>2. Chain(f, n)'
      BY <1>1, <1>2, <1>3, <2>1, <2>3, <3>1, LookAgain
    <3> QED  BY <1>2, <3>1, <3>2
  <2>5. j + 1 \in 0 .. count
    BY <1>3, <2>3
  <2>6. Walked'
    BY <1>2, <1>7, <2>1, <2>3, <2>4, <2>5 DEF Walked
  <2> QED  BY <1>2, <1>6, <2>6 DEF LoopInv, Written, Whole
<1>8. CASE ~ ours
  <2>1. CASE Turned
    <3>1. Turned'
      BY <1>3, <1>5, <2>1, TurnedStays
    <3> QED  BY <1>2, <1>6, <1>8, <3>1 DEF LoopInv, Written, Walked, Whole
  <2>2. CASE ~ Turned
    <3>1. PICK n \in Nat : \E f : Chain(f, n) /\ f[n] = at
      BY <1>2, <1>8, <2>2 DEF LoopInv, Walked
    <3>2. PICK f : Chain(f, n) /\ f[n] = at
      BY <3>1
    <3>3. PICK g : Chain(g, n + 1)' /\ g[n + 1] = at + s
      BY <1>3, <1>4, <1>5, <3>2, LongerChain
    <3>4. CASE "validator" \in loop.bytes /\ s >= Width
      <4>1. at \in DOMAIN sizes' /\ sizes'[at] = s /\ loop' = loop
        BY <1>5 DEF Noted
      <4>2. Turned'
        BY <3>4, <4>1 DEF Turned
      <4> QED  BY <1>2, <1>6, <1>8, <4>2 DEF LoopInv, Written, Walked, Whole
    <3>5. CASE ~ ("validator" \in loop.bytes /\ s >= Width)
      <4>1. Step("validator", s) = s
        BY <1>3, <1>4, <3>5, StepIsNat, LoopKindsAssumption
      <4>2. g[n + 1] = at' /\ n + 1 \in Nat
        BY <1>1, <3>3, <4>1
      <4>3. Walked'
        BY <1>2, <1>8, <3>3, <4>2 DEF Walked
      <4> QED  BY <1>2, <1>6, <4>3 DEF LoopInv, Written, Whole
    <3> QED  BY <3>4, <3>5
  <2> QED  BY <2>1, <2>2
<1> QED  BY <1>7, <1>8

(* Entries of one size fill any multiple of it.                              *)
LEMMA MultipleIsChain ==
  ASSUME WellFormed, loop.sizes = {loop.head}, length > 0, length % loop.head = 0
  PROVE  \E n \in Nat : \E f : Chain(f, n) /\ f[n] = length
<1>1. PICK h : h = loop.head
  OBVIOUS
<1>2. h \in Nat \ {0} /\ length \in Int
  BY <1>1 DEF WellFormed, Sound, Bounded
<1>3. PICK q \in Int : length = h * q + (length % h)
  BY <1>2, Division
<1>4. length = q * h
  BY <1>1, <1>2, <1>3
<1>5. q \in Nat
  <2>1. SUFFICES ASSUME q < 0 PROVE FALSE
    OBVIOUS
  <2>2. q * h <= 0
    BY <1>2, <2>1
  <2>3. length > 0 /\ length \in Int
    BY <1>2
  <2>4. PICK z : z = q * h
    OBVIOUS
  <2> QED  BY ONLY <1>4, <2>2, <2>3, <2>4
<1> DEFINE f == [i \in 0 .. q |-> i * h]
<1>6. \A i \in 0 .. q : i * h \in Nat
  BY <1>2, <1>5
<1>7. f \in [0 .. q -> Nat] /\ f[0] = 0 /\ f[q] = length
  BY <1>2, <1>4, <1>5, <1>6
<1>8. ASSUME NEW i \in 0 .. q - 1
      PROVE  Known(f[i]) /\ f[i + 1] = f[i] + SizeAt(f[i])
  <2>1. Known(f[i]) /\ SizeAt(f[i]) = h
    BY <1>1 DEF Known, SizeAt, WellFormed, Sizes
  <2>2. f[i] = i * h /\ f[i + 1] = (i + 1) * h
    BY <1>5
  <2>3. (i + 1) * h = i * h + h
    BY <1>2
  <2> QED  BY <2>1, <2>2, <2>3
<1> HIDE DEF f
<1>9. Chain(f, q)
  BY <1>5, <1>7, <1>8 DEF Chain
<1> QED  BY <1>5, <1>7, <1>9

LEMMA StopInv ==
  ASSUME LoopInv, Stop
  PROVE  LoopInv'
<1>1. PICK s \in Announced(at) : ~ GoesOn(s)
  BY DEF Stop
<1>2. /\ phase = "checking" /\ at' = 0
      /\ phase' = IF EndsWell THEN "accepted" ELSE "refused"
      /\ UNCHANGED <<loop, ours, length, sizes, count>>
  BY DEF Stop
<1>3. WellFormed /\ count \in Nat /\ at \in Nat /\ loop.rule # "none"
  BY <1>2, ShapeCounts DEF LoopInv, LoopShape
<1>4. LoopShape'
  <2>1. Sizes' /\ Bounded'
    BY <1>2, <1>3, SizesStay DEF WellFormed, Bounded
  <2> QED  BY <1>2, <2>1 DEF LoopInv, LoopShape
<1>5. Written' /\ Walked'
  BY <1>2 DEF Written, Walked
<1>6. Whole'
  <2>1. SUFFICES ASSUME phase' = "accepted", (ours \/ ~ Turned)', length' > 0
                 PROVE  (\E n \in Nat : \E f : Chain(f, n) /\ f[n] = length)'
    BY <1>2 DEF Whole
  <2>2. EndsWell /\ (ours \/ ~ Turned) /\ length > 0
    BY <1>2, <2>1 DEF Turned
  <2>3. \E n \in Nat : \E f : Chain(f, n) /\ f[n] = length
    <3>1. CASE ours
      BY <1>2, <1>3, <3>1 DEF LoopInv, Walked
    <3>2. CASE ~ ours /\ loop.rule = "divides"
      <4>1. loop.sizes = {loop.head} /\ length % loop.head = 0
        BY <1>3, <2>2, <3>2 DEF WellFormed, Sound, EndsWell
      <4> QED  BY <1>3, <2>2, <4>1, MultipleIsChain
    <3>3. CASE ~ ours /\ loop.rule # "divides"
      BY <1>2, <2>2, <3>3 DEF LoopInv, Walked, EndsWell
    <3> QED  BY <3>1, <3>2, <3>3
  <2>4. PICK n \in Nat : \E f : Chain(f, n) /\ f[n] = length
    BY <2>3
  <2>5. PICK f : Chain(f, n) /\ f[n] = length
    BY <2>4
  <2>6. Chain(f, n)' /\ f[n] = length'
    BY <1>2, <2>5, ChainStays
  <2> QED  BY <2>6
<1> QED  BY <1>4, <1>5, <1>6 DEF LoopInv

(* Reading changes nothing but the number asked for.                         *)
LEMMA ReadingInv ==
  ASSUME LoopInv, StartReading \/ ReadOn \/ UNCHANGED loopVars
  PROVE  LoopInv'
<1>1. /\ UNCHANGED <<loop, ours, length, sizes, count>>
      /\ \/ UNCHANGED <<phase, at>>
         \/ phase = "accepted" /\ phase' = "reading" /\ at' = at
         \/ phase = "reading" /\ phase' = "reading" /\ at' = NextNumber(at)
         \/ phase = "reading" /\ phase' = "read" /\ at' = at
  BY DEF StartReading, ReadOn, ReadEntry, ReadOver, loopVars
<1>2. WellFormed /\ at \in Nat
  BY ShapeCounts DEF LoopInv
<1>3. at' \in Nat
  <2>1. NextNumber(at) \in Nat
    BY <1>2, LoopsAssumption DEF NextNumber
  <2> QED  BY <1>1, <1>2, <2>1
<1>4. LoopShape'
  <2>1. Sizes' /\ Bounded'
    BY <1>1, <1>2, SizesStay DEF WellFormed, Bounded
  <2>2. /\ phase' \in {"nothing", "open", "closed"} => at' = 0
        /\ phase' = "nothing" => count' = 0
        /\ phase' \in {"open", "adding", "closed"} => ours' = TRUE
        /\ phase' = "checking" => loop'.rule # "none"
        /\ phase' \in {"nothing", "open", "adding", "closed", "checking",
                       "accepted", "refused", "reading", "read"}
    BY <1>1 DEF LoopInv, LoopShape
  <2>3. loop' \in Kinds /\ ours' \in BOOLEAN /\ count' \in 0 .. MaxEntries
    BY <1>1 DEF LoopInv, LoopShape
  <2> QED  BY <1>3, <2>1, <2>2, <2>3 DEF LoopShape
<1>5. \A n : \A f : Chain(f, n) => Chain(f, n)'
  BY <1>1, ChainStays
<1>6. Written'
  BY <1>1, <1>5 DEF LoopInv, Written
<1>7. Walked'
  <2>1. Turned' <=> Turned
    BY <1>1 DEF Turned
  <2> QED  BY <1>1, <1>5, <2>1 DEF LoopInv, Walked
<1>8. Whole'
  <2>1. Turned' <=> Turned
    BY <1>1 DEF Turned
  <2> QED  BY <1>1, <1>5, <2>1 DEF LoopInv, Whole
<1> QED  BY <1>4, <1>6, <1>7, <1>8 DEF LoopInv

(* Every step of a loop preserves its invariant.                             *)
LEMMA LoopNextInv ==
  ASSUME LoopInv, [LoopNext]_loopVars
  PROVE  LoopInv'
BY OpenInv, AddInv, CloseInv, AddDescInv, SetLengthInv, ReceiveLoopInv, CheckInv,
   AdvanceInv, StopInv, ReadingInv DEF LoopNext, Validate

THEOREM LoopInvHolds == LoopSpec => []LoopInv
BY LoopInitInv, LoopNextInv, PTL DEF LoopSpec

(* What X_validate lets through, X_get_Y hands out whole, to the end of the  *)
(* loop and no further: a walk that ended well was along a chain of entries, *)
(* and the reader, which has another test and another width for the sizes,   *)
(* comes by the same places.  The exception are entries the validator's byte *)
(* turned.                                                                   *)
LEMMA InvReads == LoopInv => AcceptedIsRead
<1> SUFFICES ASSUME LoopInv, phase \in {"accepted", "reading", "read"}, ~ Turned
             PROVE  IF length <= 0 THEN Present = {} ELSE ReadEnd = length
  BY DEF AcceptedIsRead
<1>1. WellFormed /\ length \in Int
  BY ShapeCounts DEF LoopInv, WellFormed, Bounded
<1>2. CASE length <= 0
  BY <1>1, <1>2, NothingToRead
<1>3. CASE ~ (length <= 0)
  <2>1. PICK n \in Nat : \E f : Chain(f, n) /\ f[n] = length
    BY <1>1, <1>3 DEF LoopInv, Whole
  <2>2. PICK f : Chain(f, n) /\ f[n] = length
    BY <2>1
  <2>3. ReadEnd = length
    BY <1>1, <2>2, ReadsChain
  <2> QED  BY <1>3, <2>3
<1> QED  BY <1>2, <1>3

THEOREM AcceptedLoopsAreRead == LoopSpec => []AcceptedIsRead
BY LoopInvHolds, InvReads, PTL

-----------------------------------------------------------------------------
(* The loop as a list                                                        *)

(* The sizes of the entries of a chain.                                      *)
Sized(f, n) == [i \in 1 .. n |-> SizeAt(f[i - 1])]

LEMMA ItemsOfPrefix ==
  ASSUME NEW n \in Nat
  PROVE  Items(0 .. n - 1) = [i \in 1 .. n |-> SizeAt(Entry(i - 1))]
<1>1. {k + 1 : k \in 0 .. n - 1} = 1 .. n
  <2>1. ASSUME NEW i \in 1 .. n
        PROVE  \E k \in 0 .. n - 1 : i = k + 1
    <3>1. i - 1 \in 0 .. n - 1 /\ i = i - 1 + 1
      OBVIOUS
    <3> QED  BY <3>1
  <2> QED  BY <2>1
<1> QED  BY <1>1 DEF Items

ChainIsList ==
  \A n \in Nat : \A f :
    LoopShape /\ Chain(f, n) /\ (n = 0 \/ f[n] <= length) =>
      Items(0 .. n - 1) = Sized(f, n)

LEMMA ItemsOfChain == ChainIsList
<1> SUFFICES ASSUME NEW n \in Nat, NEW f, LoopShape, Chain(f, n),
                    n = 0 \/ f[n] <= length
             PROVE  Items(0 .. n - 1) = Sized(f, n)
  BY DEF ChainIsList
<1>1. \A i \in 0 .. n - 1 : Entry(i) = f[i]
  BY ShapeIsWellFormed, ReadsAlong
<1>2. \A i \in 1 .. n : SizeAt(Entry(i - 1)) = SizeAt(f[i - 1])
  <2>1. \A i \in 1 .. n : i - 1 \in 0 .. n - 1
    OBVIOUS
  <2> QED  BY <1>1, <2>1
<1> QED  BY <1>2, ItemsOfPrefix DEF Sized

WholeIsList ==
  \A n \in Nat : \A f :
    LoopShape /\ Chain(f, n) /\ f[n] = length => Items(Present) = Sized(f, n)

LEMMA ItemsOfWhole == WholeIsList
<1> SUFFICES ASSUME NEW n \in Nat, NEW f, LoopShape, Chain(f, n), f[n] = length
             PROVE  Items(Present) = Sized(f, n)
  BY DEF WholeIsList
<1>1. Present = 0 .. n - 1
  BY ShapeIsWellFormed, ReadsChain
<1>2. f[n] <= length
  BY DEF Chain
<1>3. Items(0 .. n - 1) = Sized(f, n)
  BY <1>2, ItemsOfChain DEF ChainIsList
<1> QED  BY <1>1, <1>3

PresentIsList == LoopShape => Items(Present) \in Seq(Nat)

LEMMA ItemsOfPresent == PresentIsList
<1> SUFFICES ASSUME LoopShape PROVE Items(Present) \in Seq(Nat)
  BY DEF PresentIsList
<1>1. PICK m \in 0 .. MaxEntries + 1 : Present = 0 .. m - 1
  BY ShapeIsWellFormed, PresentIsPrefix
<1>2. m \in Nat
  OBVIOUS
<1>3. Items(0 .. m - 1) = [i \in 1 .. m |-> SizeAt(Entry(i - 1))]
  BY <1>2, ItemsOfPrefix
<1>4. \A i \in 1 .. m : SizeAt(Entry(i - 1)) \in Nat
  BY ShapeIsWellFormed, SizeIsSize
<1>5. [i \in 1 .. m |-> SizeAt(Entry(i - 1))] \in Seq(Nat)
  BY <1>2, <1>4
<1> QED  BY <1>1, <1>3, <1>5

LEMMA SizedIsSeq ==
  ASSUME WellFormed, NEW f, NEW n \in Nat
  PROVE  Sized(f, n) \in Seq(Nat) /\ Len(Sized(f, n)) = n
<1>1. \A i \in 1 .. n : SizeAt(f[i - 1]) \in Nat
  BY SizeIsSize
<1> QED  BY <1>1 DEF Sized

LEMMA SizedKept ==
  ASSUME NEW f, NEW n \in Nat, \A i \in 0 .. n - 1 : SizeAt(f[i])' = SizeAt(f[i])
  PROVE  Sized(f, n)' = Sized(f, n)
<1>1. \A i \in 1 .. n : i - 1 \in 0 .. n - 1
  OBVIOUS
<1>2. \A i \in 1 .. n : SizeAt(f[i - 1])' = SizeAt(f[i - 1])
  BY <1>1
<1> QED  BY <1>2 DEF Sized

(* The entry after the chain is appended to the list.                        *)
LEMMA NotedAppends ==
  ASSUME WellFormed, NEW f, NEW n \in Nat, Chain(f, n),
         NEW s \in Nat, Noted(f[n], s),
         NEW g, \A i \in 0 .. n : g[i] = f[i],
         TheList = Sized(f, n), TheList' = Sized(g, n + 1)',
         ItsPhase # "none", UNCHANGED ItsPhase
  PROVE  List!Add
<1>1. \A i \in 0 .. n - 1 : SizeAt(f[i])' = SizeAt(f[i])
  BY NotedBeyond
<1>2. SizeAt(f[n])' = s
  BY NotedIsKnown
<1>3. PICK l : l = Sized(f, n)
  OBVIOUS
<1>4. PICK k : k = Sized(g, n + 1)'
  OBVIOUS
<1>5. l \in Seq(Nat) /\ Len(l) = n
  BY <1>3, SizedIsSeq
<1>6. k = [i \in 1 .. n + 1 |-> SizeAt(g[i - 1])']
  BY <1>4 DEF Sized
<1>7. ASSUME NEW i \in 1 .. n
      PROVE  k[i] = l[i]
  <2>1. i - 1 \in 0 .. n - 1 /\ i - 1 \in 0 .. n /\ i \in 1 .. n + 1
    OBVIOUS
  <2>2. g[i - 1] = f[i - 1]
    BY <2>1
  <2>3. k[i] = SizeAt(f[i - 1])'
    BY <1>6, <2>1, <2>2
  <2>4. l[i] = SizeAt(f[i - 1])
    BY <1>3 DEF Sized
  <2> QED  BY <1>1, <2>1, <2>3, <2>4
<1>8. k[n + 1] = s
  <2>1. n + 1 \in 1 .. n + 1 /\ n + 1 - 1 = n /\ g[n] = f[n]
    OBVIOUS
  <2> QED  BY <1>2, <1>6, <2>1
<1>9. \A i \in 1 .. n + 1 : k[i] \in Nat
  <2>1. \A i \in 1 .. n + 1 : i \in 1 .. n \/ i = n + 1
    OBVIOUS
  <2>2. \A i \in 1 .. n : l[i] \in Nat
    BY <1>5
  <2> QED  BY <1>7, <1>8, <2>1, <2>2
<1>10. k \in Seq(Nat) /\ Len(k) = n + 1
  <2>1. DOMAIN k = 1 .. n + 1 /\ k = [i \in 1 .. n + 1 |-> k[i]]
    BY <1>6
  <2> QED  BY <1>9, <2>1
<1>11. SubSeq(k, 1, n) = l
  <2>1. SubSeq(k, 1, n) \in Seq(Nat) /\ Len(SubSeq(k, 1, n)) = n
    BY <1>10
  <2>2. \A i \in 1 .. n : SubSeq(k, 1, n)[i] = k[i]
    BY <1>10
  <2> QED  BY <1>5, <1>7, <2>1, <2>2
<1> QED  BY <1>3, <1>4, <1>5, <1>10, <1>11 DEF List!Add

LEMMA SameList ==
  ASSUME UNCHANGED <<loop, length, sizes>>
  PROVE  Items(Present)' = Items(Present)
BY DEF Items, Present, SizeAt, Entry, Handed, After, Known, Step

(* Writing an entry appends it, closing the loop keeps the list.             *)
LEMMA WritingIsListStep ==
  ASSUME LoopInv, LoopInv',
         Open \/ (\E s \in loop.sizes : Add(s)) \/ Close
  PROVE  [List!Next]_(List!vars)
<1>1. WellFormed /\ count \in Nat
  BY ShapeCounts DEF LoopInv
<1>2. LoopShape /\ LoopShape'
  BY DEF LoopInv
<1>3. ChainIsList /\ WholeIsList
  BY ItemsOfChain, ItemsOfWhole
<1>4. ChainIsList' /\ WholeIsList'
  BY ItemsOfChain, ItemsOfWhole, PTL
<1>5. CASE Open
  <2>1. phase = "nothing" /\ phase' = "open" /\ count' = 0
    BY <1>2, <1>5 DEF Open, LoopShape
  <2>2. TheList = <<>> /\ ItsPhase = "none" /\ ItsPhase' = "open"
    BY <2>1 DEF TheList, ItsPhase
  <2>3. TheList' = Items(0 .. count - 1)'
    BY <2>1 DEF TheList
  <2>4. Items(0 .. count - 1)' = <<>>
    <3>1. {n + 1 : n \in 0 .. count' - 1} = {}
      BY <2>1
    <3> QED  BY <3>1 DEF Items
  <2> QED  BY <2>2, <2>3, <2>4 DEF List!Next, List!Begin
<1>6. ASSUME NEW s \in loop.sizes, Add(s)
      PROVE  List!Add
  <2>1. /\ phase = "open" /\ phase' = "open" /\ Entry(count) # None
        /\ Entry(count) + s <= length /\ Look(Entry(count), s)
        /\ count' = count + 1 /\ UNCHANGED <<loop, length>>
    BY <1>6 DEF Add
  <2>2. PICK n : n = count
    OBVIOUS
  <2>3. PICK f : /\ Chain(f, n) /\ (n = 0 \/ f[n] <= length)
                 /\ Entry(n) = f[n] /\ f[n] \in 0 .. length
    BY <2>1, <2>2, NextIsEnd
  <2>4. s \in Nat /\ n \in Nat
    BY <1>1, <2>2 DEF WellFormed, Sound
  <2>5. Noted(f[n], s)
    BY <2>1, <2>2, <2>3, LookNotes
  <2>6. PICK g : /\ Chain(g, n + 1)' /\ g[n + 1] = f[n] + s
                 /\ \A i \in 0 .. n : g[i] = f[i]
    BY <1>1, <2>3, <2>4, <2>5, LongerChain
  <2>7. TheList = Sized(f, n)
    BY <1>2, <1>3, <2>1, <2>2, <2>3, <2>4 DEF TheList, ChainIsList
  <2>8. TheList' = Sized(g, n + 1)'
    <3>1. PICK m : m = n + 1
      OBVIOUS
    <3>2. m \in Nat /\ count' = m /\ Chain(g, m)' /\ g[m] <= length'
      BY <2>1, <2>2, <2>3, <2>4, <2>6, <3>1
    <3>3. Items(0 .. m - 1)' = Sized(g, m)'
      BY <1>2, <1>4, <3>2 DEF ChainIsList
    <3>4. TheList' = Items(0 .. count - 1)'
      BY <2>1 DEF TheList
    <3> QED  BY <3>1, <3>2, <3>3, <3>4
  <2>9. ItsPhase # "none" /\ UNCHANGED ItsPhase
    BY <2>1 DEF ItsPhase
  <2> QED
    BY <1>1, <2>3, <2>4, <2>5, <2>6, <2>7, <2>8, <2>9, NotedAppends
<1>7. CASE Close
  <2>1. /\ phase = "open" /\ phase' = "closed" /\ Entry(count) # None
        /\ length' = Entry(count) /\ UNCHANGED <<loop, sizes, count>>
    BY <1>7 DEF Close
  <2>2. PICK f : /\ Chain(f, count) /\ (count = 0 \/ f[count] <= length)
                 /\ Entry(count) = f[count]
    BY <2>1, NextIsEnd
  <2>3. Chain(f, count)' /\ f[count'] = length'
    BY <2>1, <2>2, ChainStays
  <2>4. TheList = Sized(f, count)
    BY <1>1, <1>2, <1>3, <2>1, <2>2 DEF TheList, ChainIsList
  <2>5. TheList' = Sized(f, count)'
    BY <1>1, <1>2, <1>4, <2>1, <2>3 DEF TheList, WholeIsList
  <2>6. Sized(f, count)' = Sized(f, count)
    BY <2>1 DEF Sized, SizeAt
  <2>7. ItsPhase = "open" /\ ItsPhase' = "closed"
    BY <2>1 DEF ItsPhase
  <2> QED  BY <2>4, <2>5, <2>6, <2>7 DEF List!Next, List!Finish
<1> QED  BY <1>5, <1>6, <1>7 DEF List!Next

(* A descriptor that is added is appended when it has its length, and not    *)
(* before.                                                                   *)
LEMMA AddingIsListStep ==
  ASSUME LoopInv, LoopInv',
         (\E s \in {2, 3} : AddDesc(s)) \/ SetLength
  PROVE  [List!Next]_(List!vars)
<1>1. WellFormed /\ count \in Nat /\ at \in Nat
  BY ShapeCounts DEF LoopInv
<1>2. LoopShape /\ LoopShape'
  BY DEF LoopInv
<1>3. ChainIsList /\ WholeIsList
  BY ItemsOfChain, ItemsOfWhole
<1>4. ChainIsList' /\ WholeIsList'
  BY ItemsOfChain, ItemsOfWhole, PTL
<1>5. PICK n : n = count
  OBVIOUS
<1>6. ASSUME NEW s \in {2, 3}, AddDesc(s)
      PROVE  UNCHANGED List!vars
  <2>1. /\ phase = "closed" /\ phase' = "adding" /\ length' = length + s
        /\ Look(length, 2 + ((length - 2) % Width))
        /\ UNCHANGED <<loop, count>>
    BY <1>6 DEF AddDesc
  <2>2. PICK f : Chain(f, n) /\ f[n] = length
    BY <1>5, <2>1 DEF LoopInv, Written
  <2>3. PICK z : Noted(f[n], z)
    BY <2>1, <2>2, LookNotes
  <2>4. Chain(f, n)' /\ \A i \in 0 .. n - 1 : SizeAt(f[i])' = SizeAt(f[i])
    BY <1>1, <1>5, <2>2, <2>3, NotedBeyond
  <2>5. TheList = Sized(f, n)
    BY <1>1, <1>2, <1>3, <1>5, <2>1, <2>2 DEF TheList, WholeIsList
  <2>6. TheList' = Sized(f, n)'
    <3>1. f[n] <= length'
      BY <1>1, <1>5, <2>1, <2>2 DEF Chain
    <3>2. Items(0 .. n - 1)' = Sized(f, n)'
      BY <1>1, <1>2, <1>4, <1>5, <2>4, <3>1 DEF ChainIsList
    <3>3. TheList' = Items(0 .. count - 1)' /\ count' = n
      BY <1>5, <2>1 DEF TheList
    <3> QED  BY <3>2, <3>3
  <2>7. Sized(f, n)' = Sized(f, n)
    BY <1>1, <1>5, <2>4, SizedKept
  <2>8. ItsPhase' = ItsPhase
    BY <2>1 DEF ItsPhase
  <2> QED  BY <2>5, <2>6, <2>7, <2>8 DEF List!vars
<1>7. ASSUME SetLength
      PROVE  List!Add
  <2>1. /\ phase = "adding" /\ phase' = "closed" /\ count' = count + 1
        /\ sizes' = [sizes EXCEPT ![at] = length - at]
        /\ UNCHANGED <<loop, length>>
    BY <1>7 DEF SetLength
  <2>2. PICK f : Chain(f, n) /\ f[n] = at
    BY <1>5, <2>1 DEF LoopInv, Written
  <2>3. at \in DOMAIN sizes /\ length - at \in {2, 3}
    BY <2>1 DEF LoopInv, Written
  <2>4. PICK z : z = length - at
    OBVIOUS
  <2>5. z \in Nat /\ at + z = length /\ at <= length
    BY <1>1, <2>3, <2>4 DEF WellFormed, Bounded
  <2>6. Noted(f[n], z)
    BY <2>1, <2>2, <2>3, <2>4 DEF Noted
  <2>7. PICK g : /\ Chain(g, n + 1)' /\ g[n + 1] = f[n] + z
                 /\ \A i \in 0 .. n : g[i] = f[i]
    BY <1>1, <1>5, <2>2, <2>5, <2>6, LongerChain
  <2>8. TheList = Sized(f, n)
    BY <1>1, <1>2, <1>3, <1>5, <2>1, <2>2, <2>5 DEF TheList, ChainIsList
  <2>9. TheList' = Sized(g, n + 1)'
    <3>1. g[n + 1] = length' /\ n + 1 \in Nat
      BY <1>1, <1>5, <2>1, <2>2, <2>5, <2>7
    <3>2. Items(Present)' = Sized(g, n + 1)'
      BY <1>2, <1>4, <2>7, <3>1 DEF WholeIsList
    <3> QED  BY <2>1, <3>2 DEF TheList
  <2>10. ItsPhase # "none" /\ UNCHANGED ItsPhase
    BY <2>1 DEF ItsPhase
  <2> QED
    BY <1>1, <1>5, <2>2, <2>5, <2>6, <2>7, <2>8, <2>9, <2>10, NotedAppends
<1> QED  BY <1>6, <1>7 DEF List!Next

(* Walking over the loop and reading it changes nothing; a loop that comes   *)
(* from elsewhere is there when it is found good, and one that was written   *)
(* always is.                                                                *)
LEMMA ValidatingIsListStep ==
  ASSUME LoopInv, LoopInv', ReceiveLoop \/ Check \/ Validate
  PROVE  [List!Next]_(List!vars)
<1>1. WellFormed /\ count \in Nat /\ at \in Nat
  BY ShapeCounts DEF LoopInv
<1>2. LoopShape /\ LoopShape'
  BY DEF LoopInv
<1>3. CASE ReceiveLoop
  <2>1. phase = "nothing" /\ phase' = "checking" /\ ours' = FALSE
    BY <1>3 DEF ReceiveLoop
  <2> QED  BY <2>1 DEF TheList, ItsPhase, List!vars
<1>4. CASE Check
  <2>1. phase = "closed" /\ phase' = "checking" /\ ours' = TRUE
    BY <1>2, <1>4 DEF Check, LoopShape
  <2>2. Items(Present)' = Items(Present)
    BY <1>4, SameList DEF Check
  <2> QED  BY <2>1, <2>2 DEF TheList, ItsPhase, List!vars
<1>5. CASE Advance /\ ours
  <2>1. PICK s \in Announced(at) :
          /\ GoesOn(s) /\ Look(at, s) /\ at' = at + Step("validator", s)
    BY <1>5 DEF Advance
  <2>2. phase = "checking" /\ UNCHANGED <<loop, phase, ours, length, count>>
    BY <1>5 DEF Advance
  <2>3. loop.rule # "none"
    BY <1>2, <2>2 DEF LoopShape
  <2>4. PICK n : n = count
    OBVIOUS
  <2>5. PICK f : Chain(f, n) /\ f[n] = length /\ \E j \in 0 .. n : at = f[j]
    BY <1>5, <2>2, <2>4 DEF LoopInv, Walked
  <2>6. PICK j \in 0 .. n : at = f[j]
    BY <2>5
  <2>7. Known(at) /\ s = SizeAt(at)
    BY <1>1, <2>1, <2>3, <2>4, <2>5, <2>6, WalkOverWritten
  <2>8. Noted(at, s)
    BY <2>1, <2>2, LookNotes
  <2>9. Chain(f, n)'
    BY <1>1, <2>1, <2>2, <2>4, <2>5, <2>7, LookAgain
  <2>10. Sized(f, n)' = Sized(f, n)
    <3>1. \A i \in 0 .. n - 1 : SizeAt(f[i])' = SizeAt(f[i])
      BY <2>7, <2>8, NotedIsKnown
    <3> QED  BY <1>1, <2>4, <3>1, SizedKept
  <2>11. Items(Present) = Sized(f, n)
    BY <1>1, <1>2, <2>4, <2>5, ItemsOfWhole DEF WholeIsList
  <2>12. Items(Present)' = Sized(f, n)'
    <3>1. WholeIsList'
      BY ItemsOfWhole, PTL
    <3> QED  BY <1>1, <1>2, <2>2, <2>4, <2>5, <2>9, <3>1 DEF WholeIsList
  <2> QED  BY <1>5, <2>2, <2>10, <2>11, <2>12 DEF TheList, ItsPhase, List!vars
<1>6. CASE Advance /\ ~ ours
  <2>1. phase = "checking" /\ phase' = "checking" /\ ours' = ours
    BY <1>6 DEF Advance
  <2> QED  BY <1>6, <2>1 DEF TheList, ItsPhase, List!vars
<1>7. CASE Stop /\ ours
  <2>1. PICK s \in Announced(at) : ~ GoesOn(s)
    BY <1>7 DEF Stop
  <2>2. /\ phase = "checking" /\ loop.rule # "none"
        /\ phase' = IF EndsWell THEN "accepted" ELSE "refused"
        /\ UNCHANGED <<loop, length, sizes>>
    BY <1>2, <1>7 DEF Stop, LoopShape
  <2>3. PICK f : Chain(f, count) /\ f[count] = length /\ \E j \in 0 .. count : at = f[j]
    BY <1>7, <2>2 DEF LoopInv, Walked
  <2>4. EndsWell
    BY <1>1, <2>1, <2>2, <2>3, WalkOverWritten
  <2>5. Items(Present)' = Items(Present)
    BY <2>2, SameList
  <2> QED  BY <1>7, <2>2, <2>4, <2>5 DEF TheList, ItsPhase, List!vars
<1>8. CASE Stop /\ ~ ours
  <2>1. /\ phase = "checking"
        /\ phase' = IF EndsWell THEN "accepted" ELSE "refused"
        /\ ours' = ours
    BY <1>8 DEF Stop
  <2>2. TheList = <<>> /\ ItsPhase = "none"
    BY <1>8, <2>1 DEF TheList, ItsPhase
  <2>3. CASE EndsWell
    <3>1. TheList' = Items(Present)' /\ ItsPhase' = "closed"
      BY <2>1, <2>3 DEF TheList, ItsPhase
    <3>2. PresentIsList'
      BY ItemsOfPresent, PTL
    <3>3. TheList' \in Seq(Nat)
      BY <1>2, <3>1, <3>2 DEF PresentIsList
    <3> QED  BY <2>2, <3>1, <3>3 DEF List!Next, List!Accept
  <2>4. CASE ~ EndsWell
    <3>1. TheList' = <<>> /\ ItsPhase' = "none"
      BY <2>1, <2>4 DEF TheList, ItsPhase
    <3> QED  BY <2>2, <3>1 DEF List!vars
  <2> QED  BY <2>3, <2>4
<1> QED  BY <1>3, <1>4, <1>5, <1>6, <1>7, <1>8 DEF Validate

LEMMA ReadingIsStutter ==
  ASSUME StartReading \/ ReadOn \/ UNCHANGED loopVars
  PROVE  UNCHANGED List!vars
<1>1. /\ UNCHANGED <<loop, ours, length, sizes, count>>
      /\ \/ phase' = phase
         \/ phase \in {"accepted", "reading"} /\ phase' \in {"reading", "read"}
  BY DEF StartReading, ReadOn, ReadEntry, ReadOver, loopVars
<1>2. Items(Present)' = Items(Present)
  BY <1>1, SameList
<1>3. Items(0 .. count - 1)' = Items(0 .. count - 1)
  BY <1>1 DEF Items, SizeAt, Entry, Handed, After, Known, Step
<1>4. TheList' = TheList
  BY <1>1, <1>2, <1>3 DEF TheList
<1>5. ItsPhase' = ItsPhase
  BY <1>1 DEF ItsPhase
<1> QED  BY <1>4, <1>5 DEF List!vars

(* The loop is a list (EntryList): what is written is appended, what was     *)
(* written is what is read, and X_validate never turns it away.              *)
THEOREM LoopIsList == LoopSpec => ListSpec
<1>1. LoopInit => List!Init
  BY DEF LoopInit, List!Init, TheList, ItsPhase
<1>2. LoopInv /\ LoopInv' /\ [LoopNext]_loopVars => [List!Next]_(List!vars)
  BY WritingIsListStep, AddingIsListStep, ValidatingIsListStep, ReadingIsStutter
     DEF LoopNext
<1> QED
  BY <1>1, <1>2, LoopInvHolds, PTL DEF LoopSpec, ListSpec, List!Spec
==============================================================================
