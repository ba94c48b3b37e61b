------------------------- MODULE PsiTransportProofs -------------------------
(***************************************************************************)
(* Proofs about PsiTransport, for every number and size of sections, every *)
(* packet capacity, every counter modulus and every run of losses shorter  *)
(* than it: what is handed out is what was sent, and what was not lost and *)
(* fits the limit is handed out.                                           *)
(***************************************************************************)
EXTENDS PsiTransport, Modular, SequenceTheorems, TLAPS

(* The inductive invariant. *)
IInv == TypeOK /\ TransportInv /\ OutIsGenuine

-----------------------------------------------------------------------------
(* The continuity counter: remainders modulo m.                            *)

(* Counters of packets less than a full turn apart differ. *)
LEMMA CountersDiffer ==
  ASSUME NEW m \in Nat \ {0}, NEW x \in Nat, NEW d \in 1 .. m - 1
  PROVE  x % m # (x + d) % m
<1>0. x \in Int /\ x + d \in Int
  OBVIOUS
<1>1. PICK a \in Int : x = m * a + (x % m) /\ x % m \in 0 .. m - 1
  BY ONLY <1>0, m \in Nat \ {0}, Division
<1>2. PICK b \in Int : /\ x + d = m * b + ((x + d) % m)
                       /\ (x + d) % m \in 0 .. m - 1
  BY ONLY <1>0, m \in Nat \ {0}, Division
<1> DEFINE z == x % m
           w == (x + d) % m
<1>3. z \in Int /\ w \in Int /\ x = m * a + z /\ x + d = m * b + w
  BY <1>1, <1>2
<1> SUFFICES z # w
  OBVIOUS
<1> HIDE DEF z, w
<1>4. m * (b - a) = m * b - m * a
  BY SMT
<1>5. m * a \in Int /\ m * b \in Int
  BY SMT
<1> SUFFICES ASSUME z = w
             PROVE  FALSE
  OBVIOUS
<1>6. m * (b - a) = d
  BY <1>3, <1>4, <1>5
<1>7. b - a = 0
  BY <1>6, MultipleBelow
<1>8. m * (b - a) = 0
  BY <1>7, SMT
<1> QED
  BY <1>6, <1>8

(* The discontinuity check passes only for the packet that comes next. *)
LEMMA ContinuousIsNext ==
  ASSUME NEW m \in Nat \ {0}, NEW x \in Nat, NEW d \in 1 .. m - 1,
         ((x % m) + m + 1 - ((x + d) % m)) % m = 0
  PROVE  d = 1
<1>0. x \in Int /\ x + d \in Int
  OBVIOUS
<1>1. PICK a \in Int : x = m * a + (x % m) /\ x % m \in 0 .. m - 1
  BY ONLY <1>0, m \in Nat \ {0}, Division
<1>2. PICK b \in Int : /\ x + d = m * b + ((x + d) % m)
                       /\ (x + d) % m \in 0 .. m - 1
  BY ONLY <1>0, m \in Nat \ {0}, Division
<1> DEFINE z == x % m
           w == (x + d) % m
           u == z + m + 1 - w
<1>3. z \in Int /\ w \in Int /\ x = m * a + z /\ x + d = m * b + w
  BY <1>1, <1>2
<1>4. u % m = 0
  OBVIOUS
<1> HIDE DEF z, w
<1>5. u \in Int
  BY <1>3
<1> HIDE DEF u
<1>6. PICK c \in Int : u = m * c + (u % m)
  BY ONLY <1>5, m \in Nat \ {0}, Division
<1>7. z + m + 1 - w = m * c
  BY <1>3, <1>4, <1>6 DEF u
<1> DEFINE t == c - 1 + a - b
<1>8. m * t = m * c - m + m * a - m * b
  BY SMT
<1>9. m * a \in Int /\ m * b \in Int /\ m * c \in Int /\ t \in Int
  BY SMT
<1> HIDE DEF t
<1>10. m * t = 1 - d
  BY <1>3, <1>7, <1>8, <1>9
<1>11. -m < m * t /\ m * t < m
  BY <1>10
<1>12. t = 0
  BY <1>9, <1>11, MultipleBelow
<1>13. m * t = 0
  BY <1>12, SMT
<1> QED
  BY <1>10, <1>13

-----------------------------------------------------------------------------
(* Cells and blocks of cells.                                              *)

(* Sections fit the buffer, header included. *)
LEMMA SizeBounds ==
  ASSUME size \in [1 .. N -> Sizes], NEW k \in 1 .. N
  PROVE  size[k] \in Nat /\ Hdr <= size[k] /\ size[k] <= MaxPrivate + Hdr /\ 1 <= size[k]
<1>1. size[k] \in Sizes
  OBVIOUS
<1>2. size[k] \in Hdr .. MaxPrivate + Hdr
  BY <1>1, TransportAssumption
<1> QED
  BY <1>2, TransportAssumption

LEMMA PadIsCell == Pad \in Cell /\ Pad.sec = 0 /\ Pad.at = 0
BY TransportAssumption DEF Pad, Cell

(* The only stuffing cell that is not a byte of a section is Pad. *)
LEMMA ZeroCell ==
  ASSUME NEW c \in Cell, c.sec = 0, c.at = 0
  PROVE  c = Pad
BY DEF Cell, Pad

LEMMA BytesFacts ==
  ASSUME NEW k \in 1 .. N, NEW from \in Nat, NEW n \in Nat
  PROVE  /\ Bytes(k, from, n) \in Seq(Cell)
         /\ Len(Bytes(k, from, n)) = n
         /\ \A i \in 1 .. n : Bytes(k, from, n)[i] = [sec |-> k, at |-> from + i - 1]
<1>1. Bytes(k, from, n) \in [1 .. n -> Cell]
  BY TransportAssumption DEF Bytes, Cell
<1>2. Bytes(k, from, n) \in Seq(Cell)
  BY <1>1, SeqDef
<1>3. \A i \in 1 .. n : Bytes(k, from, n)[i] = [sec |-> k, at |-> from + i - 1]
  BY DEF Bytes
<1>4. Len(Bytes(k, from, n)) = n
  BY <1>1, <1>2, LenProperties
<1> QED
  BY <1>2, <1>3, <1>4

(* A block of bytes is determined by what is in it. *)
LEMMA BytesEqual ==
  ASSUME NEW k \in 1 .. N, NEW n \in Nat, NEW cells \in Seq(Cell), Len(cells) = n,
         \A i \in 1 .. n : cells[i] = [sec |-> k, at |-> i - 1]
  PROVE  cells = Bytes(k, 0, n)
<1>1. /\ Bytes(k, 0, n) \in Seq(Cell)
      /\ Len(Bytes(k, 0, n)) = n
      /\ \A i \in 1 .. n : Bytes(k, 0, n)[i] = [sec |-> k, at |-> 0 + i - 1]
  BY BytesFacts
<1>2. \A i \in 1 .. Len(cells) : cells[i] = Bytes(k, 0, n)[i]
  BY <1>1
<1> QED
  BY <1>1, <1>2, SeqEqual

Pads(n) == [i \in 1 .. n |-> Pad]

LEMMA PadsFacts ==
  ASSUME NEW n \in Nat
  PROVE  /\ Pads(n) \in Seq(Cell)
         /\ Len(Pads(n)) = n
         /\ \A i \in 1 .. n : Pads(n)[i] = Pad
<1>1. Pads(n) \in [1 .. n -> Cell]
  BY PadIsCell DEF Pads
<1>2. Pads(n) \in Seq(Cell)
  BY <1>1, SeqDef
<1>3. Len(Pads(n)) = n
  BY <1>1, <1>2, LenProperties
<1> QED
  BY <1>2, <1>3 DEF Pads

(* Blocks that run on and follow one another run on when put together. *)
LEMMA JoinBlocks ==
  ASSUME size \in [1 .. N -> Sizes],
         NEW a \in Seq(Cell), NEW b \in Seq(Cell),
         Runs(a), Runs(b), Linked(a), Linked(b),
         a # <<>> /\ b # <<>> => Link(LastCell(a), b[1])
  PROVE  Runs(a \o b) /\ Linked(a \o b)
<1> DEFINE c == a \o b
<1>1. /\ c \in Seq(Cell)
      /\ Len(c) = Len(a) + Len(b)
      /\ \A i \in 1 .. Len(a) + Len(b) : c[i] = IF i <= Len(a) THEN a[i] ELSE b[i - Len(a)]
  BY ConcatProperties
<1>2. /\ Len(a) \in Nat /\ DOMAIN a = 1 .. Len(a)
      /\ Len(b) \in Nat /\ DOMAIN b = 1 .. Len(b)
      /\ DOMAIN c = 1 .. Len(a) + Len(b)
      /\ (a # <<>> <=> Len(a) > 0) /\ (b # <<>> <=> Len(b) > 0)
  BY <1>1, LenProperties, EmptySeq
<1>2a. Len(a) \in Nat /\ Len(b) \in Nat
  BY LenProperties
<1>3. /\ \A i \in 1 .. Len(a) : a[i].sec \in 0 .. N /\ a[i].at \in Nat
      /\ \A i \in 1 .. Len(b) : b[i].sec \in 0 .. N /\ b[i].at \in Nat
  <2>1. \A i \in 1 .. Len(a) : a[i] \in Cell
    BY ElementOfSeq
  <2>2. \A i \in 1 .. Len(b) : b[i] \in Cell
    BY ElementOfSeq
  <2> QED
    BY <2>1, <2>2 DEF Cell
<1> HIDE DEF c
<1>4. Linked(c)
  <2> SUFFICES ASSUME NEW p \in 1 .. Len(a) + Len(b), p < Len(c)
               PROVE  Link(c[p], c[p + 1])
    BY <1>2 DEF Linked
  <2>1. CASE p < Len(a)
    <3>1. c[p] = a[p] /\ c[p + 1] = a[p + 1]
      BY <1>1, <1>2, <2>1
    <3> QED
      BY <1>2, <2>1, <3>1 DEF Linked
  <2>2. CASE p = Len(a)
    <3>1. c[p] = LastCell(a) /\ c[p + 1] = b[1] /\ Len(b) > 0
      BY <1>1, <1>2, <2>2 DEF LastCell
    <3> QED
      BY <1>2, <2>2, <3>1
  <2>3. CASE p > Len(a)
    <3>1. c[p] = b[p - Len(a)] /\ c[p + 1] = b[p - Len(a) + 1]
      BY <1>1, <1>2, <2>3
    <3>2. p - Len(a) \in DOMAIN b /\ p - Len(a) < Len(b)
      BY <1>1, <1>2, <2>3
    <3> QED
      BY <3>1, <3>2 DEF Linked
  <2>4. p < Len(a) \/ p = Len(a) \/ p > Len(a)
    BY <1>2a
  <2> QED
    BY <2>1, <2>2, <2>3, <2>4
<1>5. Runs(c)
  <2> SUFFICES ASSUME NEW p \in 1 .. Len(a) + Len(b), NEW q \in 1 .. Len(a) + Len(b),
                      p <= q, c[p].sec # 0, c[p].at + (q - p) < size[c[p].sec]
               PROVE  c[q] = [sec |-> c[p].sec, at |-> c[p].at + (q - p)]
    BY <1>2 DEF Runs
  <2>1. CASE q <= Len(a)
    <3>1. p \in DOMAIN a /\ q \in DOMAIN a /\ c[p] = a[p] /\ c[q] = a[q]
      BY <1>1, <1>2, <2>1
    <3> QED
      BY <3>1 DEF Runs
  <2>2. CASE p > Len(a)
    <3> DEFINE i == p - Len(a)
               j == q - Len(a)
    <3>1. i \in DOMAIN b /\ j \in DOMAIN b /\ i <= j /\ j - i = q - p
      BY <1>2, <2>2
    <3>1a. p > Len(a) /\ q > Len(a)
      BY <1>2a, <2>2
    <3>1b. \A m \in 1 .. Len(a) + Len(b) : m > Len(a) => c[m] = b[m - Len(a)]
      BY <1>1, <1>2a
    <3>2. c[p] = b[i] /\ c[q] = b[j]
      BY <3>1a, <3>1b
    <3> HIDE DEF i, j
    <3> QED
      BY <3>1, <3>2 DEF Runs
  <2>3. CASE p <= Len(a) /\ q > Len(a)
    <3> DEFINE k == a[p].sec
               l == Len(a)
               e == a[p].at + (l - p)
    <3>1. p \in DOMAIN a /\ l \in DOMAIN a /\ c[p] = a[p] /\ Len(b) > 0
      BY <1>1, <1>2, <2>3
    <3>2. k \in 1 .. N /\ size[k] \in Nat /\ a[p].at \in Nat
      BY <1>2, <1>3, <3>1, SizeBounds
    <3>3. e + 1 < size[k] + 1 /\ e < size[k] - 1 + 1 /\ e \in Nat
      BY SMTT(30), <1>2, <2>3, <3>1, <3>2
    <3>3a. e < size[k]
      BY SMTT(30), <3>2, <3>3
    <3>4. a[l] = [sec |-> k, at |-> e]
      BY <3>1, <3>2, <3>3a, <2>3, <1>2 DEF Runs
    <3>5. e # size[k] - 1
      BY <1>2, <2>3, <3>1, <3>2
    <3>6. ~ Ends(LastCell(a)) /\ LastCell(a) = [sec |-> k, at |-> e]
      BY <3>2, <3>4, <3>5 DEF Ends, LastCell
    <3>7. b[1] = [sec |-> k, at |-> e + 1]
      BY <1>2, <3>1, <3>6 DEF Link
    <3> DEFINE j == q - Len(a)
    <3>8. 1 \in DOMAIN b /\ j \in DOMAIN b /\ 1 <= j /\ c[q] = b[j]
      BY <1>1, <1>2, <2>3, <3>1
    <3>9. (e + 1) + (j - 1) = a[p].at + (q - p)
      BY <1>2, <2>3, <3>1, <3>2
    <3>10. (e + 1) + (j - 1) < size[k]
      BY <3>1, <3>9
    <3> HIDE DEF k, e, j
    <3>10a. \A r \in DOMAIN b : 1 <= r /\ b[1].sec # 0 /\ b[1].at + (r - 1) < size[b[1].sec]
              => b[r] = [sec |-> b[1].sec, at |-> b[1].at + (r - 1)]
      BY <3>8 DEF Runs
    <3>10b. b[1].sec = k /\ b[1].at = e + 1 /\ k # 0
      BY <3>2, <3>7
    <3>11. b[j] = [sec |-> k, at |-> (e + 1) + (j - 1)]
      BY <3>8, <3>10, <3>10a, <3>10b
    <3> QED
      BY <3>1, <3>8, <3>9, <3>11 DEF k
  <2> QED
    BY <1>2, <2>1, <2>2, <2>3
<1> QED
  BY <1>4, <1>5 DEF c

-----------------------------------------------------------------------------
(* The sender.                                                             *)

(* The types of what the sender works on, as facts a prover can use. *)
LEMMA SenderTypes ==
  ASSUME TypeOK
  PROVE  /\ pkt.cells \in Seq(Cell) /\ Len(pkt.cells) \in Nat
         /\ DOMAIN pkt.cells = 1 .. Len(pkt.cells)
         /\ pkt.start \in BOOLEAN /\ pkt.ptr \in Nat
         /\ (pkt.cells # <<>> <=> Len(pkt.cells) > 0)
         /\ \A i \in DOMAIN pkt.cells : pkt.cells[i] \in Cell
         /\ Len(sent) \in Nat /\ DOMAIN sent = 1 .. Len(sent)
         /\ (sent # <<>> <=> Len(sent) > 0)
<1>1. pkt.cells \in Seq(Cell) /\ pkt.start \in BOOLEAN /\ pkt.ptr \in Nat
  BY DEF TypeOK
<1>2. Len(pkt.cells) \in Nat /\ DOMAIN pkt.cells = 1 .. Len(pkt.cells)
  BY <1>1, LenProperties
<1>3. pkt.cells # <<>> <=> Len(pkt.cells) > 0
  BY <1>1, EmptySeq
<1>4. \A i \in DOMAIN pkt.cells : pkt.cells[i] \in Cell
  BY <1>1, <1>2, ElementOfSeq
<1>5. sent \in Seq(Packet)
  BY DEF TypeOK
<1>6. Len(sent) \in Nat /\ DOMAIN sent = 1 .. Len(sent)
  BY <1>5, LenProperties
<1>7. sent # <<>> <=> Len(sent) > 0
  BY <1>5, EmptySeq
<1> QED
  BY <1>1, <1>2, <1>3, <1>4, <1>6, <1>7

(* The same of a packet that was sent; none is empty. *)
LEMMA SentTypes ==
  ASSUME TypeOK, SenderInv, NEW q \in DOMAIN sent
  PROVE  /\ sent[q].cells \in Seq(Cell) /\ Len(sent[q].cells) \in Nat \ {0}
         /\ DOMAIN sent[q].cells = 1 .. Len(sent[q].cells)
         /\ sent[q].start \in BOOLEAN /\ sent[q].ptr \in Nat
         /\ sent[q].cc \in 0 .. CCMod - 1
         /\ \A i \in DOMAIN sent[q].cells : sent[q].cells[i] \in Cell
<1>1. sent[q] \in Packet
  <2>1. sent \in Seq(Packet) /\ q \in 1 .. Len(sent)
    BY SenderTypes DEF TypeOK
  <2> QED
    BY <2>1, ElementOfSeq
<1>2. /\ sent[q].cells \in Seq(Cell) /\ sent[q].start \in BOOLEAN
      /\ sent[q].ptr \in Nat /\ sent[q].cc \in 0 .. CCMod - 1
  BY <1>1 DEF Packet
<1>3. Len(sent[q].cells) \in Nat /\ DOMAIN sent[q].cells = 1 .. Len(sent[q].cells)
  BY <1>2, LenProperties
<1>4. Used(sent[q]) = Cap
  BY DEF SenderInv
<1>5. Len(sent[q].cells) # 0
  <2>1. CASE sent[q].start
    BY <1>3, <1>4, <2>1, TransportAssumption DEF Used
  <2>2. CASE ~ sent[q].start
    BY <1>3, <1>4, <2>2, TransportAssumption DEF Used
  <2> QED
    BY <2>1, <2>2
<1>6. \A i \in DOMAIN sent[q].cells : sent[q].cells[i] \in Cell
  BY <1>2, <1>3, ElementOfSeq
<1> QED
  BY <1>2, <1>3, <1>5, <1>6

(* The sender has moved on, or is where it was. *)
SenderOn == sec' \in 1 .. N + 1 /\ off' \in Nat /\ (sec' > sec \/ (sec' = sec /\ off' >= off))

(* What was sent keeps its part of the invariant. *)
LEMMA SentKept ==
  ASSUME TypeOK, SenderInv, NEW q \in DOMAIN sent,
         sent'[q] = sent[q], size' = size, SenderOn
  PROVE  PacketInv(sent[q])'
<1>1. Runs(sent[q].cells) /\ Linked(sent[q].cells) /\ Pointed(sent[q]) /\ Written(sent[q].cells)
  BY DEF SenderInv, PacketInv
<1>2. Runs(sent[q].cells)'
  BY <1>1 DEF Runs
<1>3. Linked(sent[q].cells)'
  BY <1>1 DEF Linked, Link, Ends
<1>4. Pointed(sent[q])'
  BY <1>1 DEF Pointed, Starts
<1>5. Written(sent[q].cells)'
  <2>1. \A i \in DOMAIN sent[q].cells : sent[q].cells[i].sec \in Nat /\ sent[q].cells[i].at \in Nat
    BY SentTypes DEF Cell
  <2>2. sec \in Nat /\ off \in Nat /\ sec' \in Nat /\ off' \in Nat
    BY TransportAssumption DEF TypeOK, SenderOn
  <2> QED
    BY <1>1, <2>1, <2>2 DEF Written, SenderOn
<1> QED
  BY <1>2, <1>3, <1>4, <1>5 DEF PacketInv

(* What it takes for the packet being filled to grow: the new cells follow *)
(* the old ones, and a section starts only as the first of them.           *)
Grown ==
  /\ size' = size /\ sent' = sent
  /\ pkt'.cells \in Seq(Cell)
  /\ Len(pkt'.cells) > Len(pkt.cells)
  /\ \A i \in 1 .. Len(pkt.cells) : pkt'.cells[i] = pkt.cells[i]
  /\ \A j \in 1 .. Len(pkt'.cells) :
       j > Len(pkt.cells) /\ Starts(pkt'.cells[j]) =>
         j = Len(pkt.cells) + 1 /\ off = 0 /\ pkt'.cells[j].sec = sec
  /\ pkt.cells = <<>> /\ sent # <<>> =>
       Link(LastCell(sent[Len(sent)].cells), pkt'.cells[1])

(* The cells that were there before a section starts are of earlier ones.  *)
LEMMA WrittenBefore ==
  ASSUME TypeOK, off = 0, NEW cells \in Seq(Cell), Written(cells),
         NEW i \in DOMAIN cells
  PROVE  cells[i].sec < sec
<1>1. cells[i] \in Cell
  BY LenProperties, ElementOfSeq
<1>2. cells[i].sec \in Nat /\ cells[i].at \in Nat
  BY <1>1 DEF Cell
<1>3. sec \in Nat /\ sec >= 1
  BY TransportAssumption DEF TypeOK
<1>4. CASE cells[i].sec = 0
  BY <1>3, <1>4
<1>5. CASE cells[i].sec # 0
  <2>1. cells[i].sec < sec \/ (cells[i].sec = sec /\ cells[i].at < 0)
    BY <1>5 DEF Written
  <2> QED
    BY <1>2, <2>1
<1> QED
  BY <1>4, <1>5

LEMMA PacketGrows ==
  ASSUME TypeOK, SenderInv, CrossInv, OrderInv, SenderOn, Grown,
         PacketInv(pkt)', Used(pkt)' <= Cap, TailIs(LastCell(pkt.cells))',
         off' > 0 => sec' <= N /\ off' < size[sec']
  PROVE  SenderInv' /\ CrossInv' /\ OrderInv'
<1> DEFINE l == Len(pkt.cells)
<1>1. /\ l \in Nat /\ DOMAIN pkt.cells = 1 .. l
      /\ (pkt.cells # <<>> <=> l > 0)
      /\ Len(sent) \in Nat /\ DOMAIN sent = 1 .. Len(sent)
      /\ (sent # <<>> <=> Len(sent) > 0)
  BY SenderTypes
<1>2. /\ Len(pkt'.cells) \in Nat /\ DOMAIN pkt'.cells = 1 .. Len(pkt'.cells)
      /\ Len(pkt'.cells) > l /\ pkt'.cells # <<>>
  BY <1>1, LenProperties, EmptySeq DEF Grown
<1>3. \A i \in 1 .. l : pkt'.cells[i] = pkt.cells[i]
  BY DEF Grown
<1>4. \A j \in 1 .. Len(pkt'.cells) :
        j > l /\ Starts(pkt'.cells[j]) => j = l + 1 /\ off = 0 /\ pkt'.cells[j].sec = sec
  BY DEF Grown
<1>5. size' = size /\ sent' = sent
  BY DEF Grown
<1> HIDE DEF l
<1>6. SenderInv'
  <2>1. \A q \in DOMAIN sent' : /\ PacketInv(sent[q])'
                                /\ Used(sent[q])' = Cap
                                /\ sent'[q].cc = (q - 1) % CCMod
    BY <1>5, SentKept DEF SenderInv, Used
  <2>2. (pkt.cells = <<>> => pkt = NoPacket)'
    BY <1>2
  <2>3. (pkt.cells # <<>> => TailIs(LastCell(pkt.cells)))'
    OBVIOUS
  <2>4. (pkt.cells = <<>> /\ sent # <<>> => TailIs(LastCell(sent[Len(sent)].cells)))'
    BY <1>2
  <2>5. (pkt.cells = <<>> /\ sent = <<>> => off = 0)'
    BY <1>2
  <2>6. (off > 0 => sec <= N /\ off < size[sec])'
    BY <1>5
  <2>7. (\A q \in DOMAIN sent : /\ PacketInv(sent[q])
                               /\ Used(sent[q]) = Cap
                               /\ sent[q].cc = (q - 1) % CCMod)'
    BY <2>1
  <2>8. PacketInv(pkt)' /\ (Used(pkt) <= Cap)'
    OBVIOUS
  <2> QED
    BY <2>2, <2>3, <2>4, <2>5, <2>6, <2>7, <2>8 DEF SenderInv
<1>7. CrossInv'
  <2>1. \A q \in DOMAIN sent' : q < Len(sent') =>
          Link(LastCell(sent[q].cells), sent[q + 1].cells[1])'
    BY <1>5 DEF CrossInv, Link, Ends, LastCell
  <2>2. sent' # <<>> =>
          Link(LastCell(sent[Len(sent)].cells), pkt.cells[1])'
    <3>1. CASE pkt.cells = <<>>
      BY <1>5, <3>1 DEF Grown, Link, Ends, LastCell
    <3>2. CASE pkt.cells # <<>>
      <4>1. pkt'.cells[1] = pkt.cells[1]
        BY <1>1, <1>3, <3>2
      <4> QED
        BY <1>5, <3>2, <4>1 DEF CrossInv, Link, Ends, LastCell
    <3> QED
      BY <3>1, <3>2
  <2> QED
    BY <2>1, <2>2 DEF CrossInv
<1>8. OrderInv'
  <2>1. \A q, r \in DOMAIN sent' : q < r => Precede(sent'[q].cells, sent'[r].cells)
    BY <1>5 DEF OrderInv
  <2>2. ASSUME NEW q \in DOMAIN sent'
        PROVE  Precede(sent'[q].cells, pkt'.cells)
    <3> SUFFICES ASSUME NEW i \in DOMAIN sent[q].cells, NEW j \in DOMAIN pkt'.cells,
                        Starts(pkt'.cells[j])
                 PROVE  sent[q].cells[i].sec < pkt'.cells[j].sec
      BY <1>5 DEF Precede
    <3>1. CASE j <= l
      <4>1. j \in DOMAIN pkt.cells /\ pkt'.cells[j] = pkt.cells[j]
        BY <1>1, <1>2, <1>3, <3>1
      <4> QED
        BY <1>5, <4>1 DEF OrderInv, Precede
    <3>2. CASE j > l
      <4>1. off = 0 /\ pkt'.cells[j].sec = sec
        BY <1>2, <1>4, <3>2
      <4>2. sent[q].cells \in Seq(Cell) /\ Written(sent[q].cells)
        BY <1>5, SentTypes DEF SenderInv, PacketInv
      <4> QED
        BY <4>1, <4>2, WrittenBefore
    <3> QED
      BY <1>1, <1>2, <3>1, <3>2
  <2>3. ASSUME NEW i \in DOMAIN pkt'.cells, NEW j \in DOMAIN pkt'.cells,
               i < j, Starts(pkt'.cells[j])
        PROVE  pkt'.cells[i].sec < pkt'.cells[j].sec
    <3>1. CASE j <= l
      <4>1. /\ i \in DOMAIN pkt.cells /\ pkt'.cells[i] = pkt.cells[i]
            /\ j \in DOMAIN pkt.cells /\ pkt'.cells[j] = pkt.cells[j]
        BY <1>1, <1>2, <1>3, <2>3, <3>1
      <4> QED
        BY <2>3, <4>1 DEF OrderInv
    <3>2. CASE j > l
      <4>1. j = l + 1 /\ off = 0 /\ pkt'.cells[j].sec = sec
        BY <1>2, <1>4, <2>3, <3>2
      <4>2. i \in DOMAIN pkt.cells /\ pkt'.cells[i] = pkt.cells[i]
        BY <1>1, <1>2, <1>3, <2>3, <4>1
      <4>3. pkt.cells \in Seq(Cell) /\ Written(pkt.cells)
        BY SenderTypes DEF SenderInv, PacketInv
      <4> QED
        BY <4>1, <4>2, <4>3, WrittenBefore
    <3> QED
      BY <1>1, <1>2, <3>1, <3>2
  <2>4. ASSUME NEW q \in DOMAIN sent', NEW i \in DOMAIN sent'[q].cells,
               NEW j \in DOMAIN sent'[q].cells, i < j, Starts(sent'[q].cells[j])
        PROVE  sent'[q].cells[i].sec < sent'[q].cells[j].sec
    BY <1>5, <2>4 DEF OrderInv
  <2> QED
    BY <2>1, <2>2, <2>3, <2>4 DEF OrderInv, Precede, Starts
<1> QED
  BY <1>6, <1>7, <1>8

(* Sections still to come start after the last one that was handed out. *)
Ahead(cells) == \A i \in DOMAIN cells : Starts(cells[i]) => LastOut < cells[i].sec

(* The number of the last section handed out. *)
LEMMA LastOutType ==
  ASSUME TypeOK, OutIsGenuine
  PROVE  LastOut \in 0 .. N
<1>1. CASE out = <<>>
  BY <1>1, TransportAssumption DEF LastOut
<1>2. CASE out # <<>>
  <2>1. out \in Seq(Seq(Cell)) /\ Len(out) \in 1 .. Len(out) /\ DOMAIN out = 1 .. Len(out)
    BY <1>2, EmptySeq, LenProperties DEF TypeOK
  <2> DEFINE s == out[Len(out)]
  <2>2. s \in Seq(Cell) /\ s # <<>>
    BY <2>1, ElementOfSeq DEF OutIsGenuine
  <2>3. 1 \in 1 .. Len(s)
    BY <2>2, EmptySeq
  <2>4. s[1] \in Cell
    BY <2>2, <2>3, ElementOfSeq
  <2> QED
    BY <1>2, <2>4 DEF LastOut, Cell
<1> QED
  BY <1>1, <1>2

(* What the sender does leaves the receiver's part of the invariant. *)
LEMMA ReceiverKept ==
  ASSUME TypeOK, SenderInv, BufferInv, ReadingInv, OutIsGenuine,
         UNCHANGED <<cursor, lost, receiverVars, size>>, SenderOn,
         \A q \in DOMAIN sent : q \in DOMAIN sent' /\ sent'[q].cells = sent[q].cells,
         Ahead(pkt'.cells),
         \A q \in rx + 1 .. Len(sent') : Ahead(sent'[q].cells)
  PROVE  BufferInv' /\ ReadingInv' /\ OutIsGenuine'
<1>1. /\ cursor' = cursor /\ rx' = rx /\ lastCc' = lastCc /\ buf' = buf
      /\ first' = first /\ pos' = pos /\ out' = out /\ size' = size
  BY DEF receiverVars
<1>2. CellsRx' = CellsRx
  <2>1. rx = 0 \/ rx \in DOMAIN sent
    BY SenderTypes DEF TypeOK
  <2> QED
    BY <1>1, <2>1 DEF CellsRx
<1>3. LastOut' = LastOut /\ Idle' = Idle
  BY <1>1, <1>2 DEF LastOut, Idle
<1>4. BufferInv'
  BY <1>1, <1>2, <1>3 DEF BufferInv
<1>5. LastOut \in 0 .. N
  BY LastOutType
<1>6. (\A p \in {pkt} \cup {sent[q] : q \in rx + 1 .. Len(sent)} :
        \A i \in DOMAIN p.cells : Starts(p.cells[i]) => LastOut < p.cells[i].sec)'
  BY <1>1, <1>3 DEF Ahead, Starts
<1>7. (LastOut < sec)'
  <2>1. LastOut < sec /\ sec \in Nat /\ sec' \in Nat /\ sec' >= sec
    BY TransportAssumption DEF ReadingInv, TypeOK, SenderOn
  <2> QED
    BY <1>3, <1>5, <2>1
<1>8. (\A i \in DOMAIN CellsRx : i >= pos /\ Starts(CellsRx[i]) => LastOut < CellsRx[i].sec)'
  BY <1>1, <1>2, <1>3 DEF ReadingInv, Starts
<1>9. /\ (lastCc = IF rx = 0 THEN -1 ELSE (rx - 1) % CCMod)'
      /\ (cursor - rx <= MaxLoss)'
      /\ (pos <= Len(CellsRx) + 1)'
      /\ (first => buf # <<>> /\ pos = 1)'
      /\ (buf = <<>> /\ ~ Idle => CellsRx[pos].at = 0)'
  BY <1>1, <1>2, <1>3 DEF ReadingInv
<1>10. ReadingInv'
  BY <1>6, <1>7, <1>8, <1>9 DEF ReadingInv
<1>11. OutIsGenuine'
  BY <1>1 DEF OutIsGenuine, Section, Bytes
<1> QED
  BY <1>4, <1>10, <1>11

(* The sections in the packets still to come, as ReadingInv has it. *)
LEMMA AheadNow ==
  ASSUME ReadingInv
  PROVE  Ahead(pkt.cells) /\ \A q \in rx + 1 .. Len(sent) : Ahead(sent[q].cells)
BY DEF ReadingInv, Ahead

(* The growth of the packet being filled keeps the whole invariant. *)
LEMMA GrownStep ==
  ASSUME IInv, TypeOK', SenderOn, Grown, UNCHANGED <<cursor, lost, receiverVars>>,
         PacketInv(pkt)', Used(pkt)' <= Cap, TailIs(LastCell(pkt.cells))',
         off' > 0 => sec' <= N /\ off' < size[sec']
  PROVE  IInv'
<1>1. SenderInv' /\ CrossInv' /\ OrderInv'
  BY PacketGrows DEF IInv, TransportInv
<1>2. Ahead(pkt'.cells)
  <2> SUFFICES ASSUME NEW j \in DOMAIN pkt'.cells, Starts(pkt'.cells[j])
               PROVE  LastOut < pkt'.cells[j].sec
    BY DEF Ahead
  <2>1. /\ j \in 1 .. Len(pkt'.cells) /\ Len(pkt'.cells) \in Nat
        /\ Len(pkt.cells) \in Nat /\ DOMAIN pkt.cells = 1 .. Len(pkt.cells)
    BY SenderTypes, LenProperties DEF Grown, IInv
  <2>2. CASE j <= Len(pkt.cells)
    <3>1. j \in DOMAIN pkt.cells /\ pkt'.cells[j] = pkt.cells[j]
      BY <2>1, <2>2 DEF Grown
    <3> QED
      BY <3>1, AheadNow DEF Ahead, IInv, TransportInv
  <2>3. CASE j > Len(pkt.cells)
    BY <2>1, <2>3 DEF Grown, IInv, TransportInv, ReadingInv
  <2> QED
    BY <2>1, <2>2, <2>3
<1>3. \A q \in rx + 1 .. Len(sent') : Ahead(sent'[q].cells)
  BY AheadNow DEF Grown, IInv, TransportInv
<1>4. BufferInv' /\ ReadingInv' /\ OutIsGenuine'
  BY <1>2, <1>3, ReceiverKept DEF IInv, TransportInv, Grown
<1> QED
  BY <1>1, <1>4 DEF IInv, TransportInv

(* The first cell that the sender writes next follows the last one. *)
LEMMA NextCellLinks ==
  ASSUME TypeOK, sec <= N, off < size[sec], NEW c \in Cell, TailIs(c)
  PROVE  Link(c, [sec |-> sec, at |-> off])
<1>1. sec \in 1 .. N /\ off \in Nat
  BY TransportAssumption DEF TypeOK
<1>2. CASE off = 0
  BY <1>2 DEF TailIs, Link
<1>3. CASE off > 0
  <2>1. c = [sec |-> sec, at |-> off - 1]
    BY <1>3 DEF TailIs
  <2>2. size[sec] \in Nat
    BY <1>1, SizeBounds DEF TypeOK
  <2>3. ~ Ends(c)
    BY <1>1, <1>3, <2>1, <2>2, TransportAssumption DEF Ends
  <2> QED
    BY <1>1, <2>1, <2>3 DEF Link
<1> QED
  BY <1>1, <1>2, <1>3

(* psi_split_section's room: there is some, and it is not overrun. *)
LEMMA Room ==
  ASSUME IInv, sec <= N, Used(pkt) < Cap, off = 0 => Cap - Used(pkt) >= 2
  PROVE  LET p == Started(pkt)
             n == Least(Cap - Used(p), size[sec] - off)
         IN  /\ p.cells = pkt.cells /\ p.start \in BOOLEAN /\ p.ptr \in Nat
             /\ p = [start |-> p.start, ptr |-> p.ptr, cells |-> p.cells]
             /\ sec \in 1 .. N /\ off < size[sec] /\ size[sec] \in Nat
             /\ n \in Nat /\ n >= 1 /\ off + n <= size[sec]
             /\ Used(p) \in Nat /\ n <= Cap - Used(p)
<1> DEFINE p == Started(pkt)
           u == Used(p)
           n == Least(Cap - u, size[sec] - off)
<1>1. sec \in 1 .. N /\ off \in Nat
  BY TransportAssumption DEF IInv, TypeOK
<1>2. size[sec] \in Nat /\ size[sec] >= 1
  BY <1>1, SizeBounds DEF IInv, TypeOK
<1>3. off < size[sec]
  BY <1>1, <1>2 DEF IInv, TransportInv, SenderInv
<1>4. pkt = [start |-> pkt.start, ptr |-> pkt.ptr, cells |-> pkt.cells]
  BY DEF IInv, TypeOK
<1>5. Len(pkt.cells) \in Nat /\ pkt.start \in BOOLEAN /\ pkt.ptr \in Nat
  BY SenderTypes DEF IInv
<1>6. /\ p.cells = pkt.cells /\ p.start \in BOOLEAN /\ p.ptr \in Nat
      /\ p = [start |-> p.start, ptr |-> p.ptr, cells |-> p.cells]
      /\ p.start => off = 0 \/ pkt.start
      /\ off # 0 \/ p.start
      /\ pkt.start => p.start
  BY <1>4, <1>5 DEF Started
<1>7. u \in Nat /\ u < Cap
  <2>1. CASE pkt.start
    BY <1>5, <1>6, <2>1 DEF Used
  <2>2. CASE ~ pkt.start /\ off = 0
    BY <1>1, <1>5, <1>6, <2>2, TransportAssumption DEF Used
  <2>3. CASE ~ pkt.start /\ off # 0
    <3>1. ~ p.start
      BY <1>6, <2>3
    <3> QED
      BY <1>5, <1>6, <2>3, <3>1, TransportAssumption DEF Used
  <2> QED
    BY <2>1, <2>2, <2>3
<1> HIDE DEF u, p
<1>8. /\ n \in Nat /\ n >= 1
      /\ off + n <= size[sec] /\ n <= Cap - u
  BY <1>1, <1>2, <1>3, <1>7, TransportAssumption DEF Least
<1> QED
  BY <1>1, <1>2, <1>3, <1>6, <1>7, <1>8 DEF u, p

LEMMA CopyStep ==
  ASSUME IInv, SplitCopy, UNCHANGED <<cursor, lost, receiverVars>>
  PROVE  IInv'
<1> DEFINE p == Started(pkt)
           n == Least(Cap - Used(p), size[sec] - off)
           add == Bytes(sec, off, n)
           c == pkt.cells \o add
           l == Len(pkt.cells)
<1>1. /\ p.cells = pkt.cells /\ p.start \in BOOLEAN /\ p.ptr \in Nat
      /\ p = [start |-> p.start, ptr |-> p.ptr, cells |-> p.cells]
      /\ sec \in 1 .. N /\ off < size[sec] /\ size[sec] \in Nat
      /\ n \in Nat /\ n >= 1 /\ off + n <= size[sec]
      /\ Used(p) \in Nat /\ n <= Cap - Used(p)
  BY Room DEF SplitCopy
<1>2. /\ pkt' = [p EXCEPT !.cells = p.cells \o add]
      /\ sec' = IF off + n = size[sec] THEN sec + 1 ELSE sec
      /\ off' = IF off + n = size[sec] THEN 0 ELSE off + n
      /\ size' = size /\ sent' = sent
  BY DEF SplitCopy
<1>3. pkt' = [start |-> p.start, ptr |-> p.ptr, cells |-> c]
  BY <1>1, <1>2
<1> HIDE DEF n
<1>4. off \in Nat /\ sec \in Nat /\ TypeOK /\ N \in Nat /\ Cap \in Nat
  BY TransportAssumption DEF IInv, TypeOK
<1>5. /\ add \in Seq(Cell) /\ Len(add) = n
      /\ \A i \in 1 .. n : add[i] = [sec |-> sec, at |-> off + i - 1]
  BY <1>1, <1>4, BytesFacts
<1>6. /\ pkt.cells \in Seq(Cell) /\ l \in Nat /\ DOMAIN pkt.cells = 1 .. l
      /\ (pkt.cells # <<>> <=> l > 0)
      /\ \A i \in DOMAIN pkt.cells : pkt.cells[i] \in Cell
  BY <1>4, SenderTypes
<1> HIDE DEF add
<1>7. /\ c \in Seq(Cell) /\ Len(c) = l + n /\ DOMAIN c = 1 .. l + n
      /\ \A i \in 1 .. l : c[i] = pkt.cells[i]
      /\ \A j \in 1 .. l + n : j > l => c[j] = [sec |-> sec, at |-> off + (j - l) - 1]
  <2>1. /\ c \in Seq(Cell) /\ Len(c) = l + n
        /\ \A i \in 1 .. l + n : c[i] = IF i <= l THEN pkt.cells[i] ELSE add[i - l]
    BY <1>5, <1>6, ConcatProperties
  <2> HIDE DEF c, l
  <2>2. DOMAIN c = 1 .. l + n
    BY <2>1, LenProperties
  <2>3. ASSUME NEW j \in 1 .. l + n, j > l
        PROVE  c[j] = [sec |-> sec, at |-> off + (j - l) - 1]
    <3>1. j - l \in 1 .. n /\ c[j] = add[j - l]
      BY <1>1, <1>6, <2>1, <2>3
    <3> QED
      BY <1>5, <3>1
  <2> QED
    BY <1>1, <1>6, <2>1, <2>2, <2>3
<1>7a. /\ l \in Nat /\ n \in Nat /\ n >= 1 /\ off \in Nat
       /\ sec \in 1 .. N /\ off < size[sec] /\ off + n <= size[sec] /\ size[sec] \in Nat
  BY <1>1, <1>4, <1>6
<1>7b. /\ \A j \in 1 .. l + n : j > l => /\ c[j] = [sec |-> sec, at |-> off + (j - l) - 1]
                                        /\ c[j].sec = sec /\ c[j].at = off + (j - l) - 1
  BY <1>7
<1>8. Runs(c) /\ Linked(c)
  <2>1. Runs(pkt.cells) /\ Linked(pkt.cells)
    BY DEF IInv, TransportInv, SenderInv, PacketInv
  <2>2. DOMAIN add = 1 .. n
    BY <1>5, LenProperties
  <2>3. Runs(add)
    BY <1>1, <1>4, <1>5, <2>2 DEF Runs
  <2>4. Linked(add)
    <3> SUFFICES ASSUME NEW i \in 1 .. n, i < n
                 PROVE  Link(add[i], add[i + 1])
      BY <1>5, <2>2 DEF Linked
    <3>1. add[i] = [sec |-> sec, at |-> off + i - 1] /\ add[i + 1] = [sec |-> sec, at |-> off + i]
      BY <1>1, <1>5
    <3>2. ~ Ends(add[i])
      BY <1>1, <1>4, <3>1 DEF Ends
    <3> QED
      BY <1>1, <1>4, <3>1, <3>2 DEF Link
  <2>5. ASSUME pkt.cells # <<>>
        PROVE  Link(LastCell(pkt.cells), add[1])
    <3>1. TailIs(LastCell(pkt.cells))
      BY <2>5 DEF IInv, TransportInv, SenderInv
    <3>2. LastCell(pkt.cells) \in Cell
      BY <1>6, <2>5 DEF LastCell
    <3>3. add[1] = [sec |-> sec, at |-> off]
      BY <1>1, <1>4, <1>5
    <3> QED
      BY <1>1, <1>4, <3>1, <3>2, <3>3, NextCellLinks
  <2> QED
    BY <1>4, <1>5, <1>6, <2>1, <2>3, <2>4, <2>5, JoinBlocks DEF TypeOK
<1> HIDE DEF c, l, p
<1>9. pkt'.cells = c /\ pkt'.start = p.start /\ pkt'.ptr = p.ptr
  BY <1>3
<1>10. SenderOn
  BY SMTT(30), <1>1, <1>2, <1>4 DEF SenderOn
<1>11. \A j \in 1 .. l + n : j > l /\ Starts(c[j]) => j = l + 1 /\ off = 0 /\ c[j].sec = sec
  <2> SUFFICES ASSUME NEW j \in 1 .. l + n, j > l, c[j].sec # 0, c[j].at = 0
               PROVE  j = l + 1 /\ off = 0 /\ c[j].sec = sec
    BY DEF Starts
  <2>1. c[j].sec = sec /\ c[j].at = off + (j - l) - 1
    BY <1>7b
  <2> QED
    BY <1>7a, <2>1
<1>12. Grown
  <2>1. ASSUME pkt.cells = <<>>, sent # <<>>
        PROVE  Link(LastCell(sent[Len(sent)].cells), c[1])
    <3>1. TailIs(LastCell(sent[Len(sent)].cells))
      BY <2>1 DEF IInv, TransportInv, SenderInv
    <3>2. Len(sent) \in DOMAIN sent
      BY <1>4, <2>1, SenderTypes
    <3>3. LastCell(sent[Len(sent)].cells) \in Cell
      BY <1>4, <3>2, SentTypes DEF LastCell, IInv, TransportInv
    <3>4. c[1] = [sec |-> sec, at |-> off]
      <4>1. l = 0
        BY <1>6, <2>1
      <4>2. c[1] = [sec |-> sec, at |-> off + (1 - l) - 1]
        BY <1>7a, <1>7b, <4>1
      <4> QED
        BY <1>7a, <4>1, <4>2
    <3> QED
      BY <1>1, <1>4, <3>1, <3>3, <3>4, NextCellLinks
  <2>2. Len(pkt.cells) = l
    BY DEF l
  <2>3. l + n > l
    BY <1>7a
  <2> QED
    BY <1>2, <1>7, <1>9, <1>11, <2>1, <2>2, <2>3 DEF Grown
<1>13. PacketInv(pkt)'
  <2>0. size' = size /\ pkt'.cells = c
    BY <1>2, <1>9
  <2>1. Runs(pkt.cells)'
    <3>1. Runs(c)
      BY <1>8
    <3> QED
      BY <2>0, <3>1 DEF Runs
  <2>1a. Linked(pkt.cells)'
    <3>1. Linked(c)
      BY <1>8
    <3> QED
      BY <2>0, <3>1 DEF Linked, Link, Ends
  <2>2. Pointed(pkt)'
    <3>0. Pointed(pkt)
      BY DEF IInv, TransportInv, SenderInv, PacketInv
    <3>1. CASE off = 0 /\ ~ pkt.start
      <4>1. p.start = TRUE /\ p.ptr = l
        BY <1>4, <3>1 DEF p, Started, IInv, TypeOK, l
      <4>2. Starts(c[l + 1])
        <5>1. l + 1 \in 1 .. l + n /\ l + 1 > l /\ off + ((l + 1) - l) - 1 = off
          BY <1>7a
        <5>2. c[l + 1].sec = sec /\ c[l + 1].at = off
          BY <1>7b, <5>1
        <5> QED
          BY <1>7a, <3>1, <5>2, TransportAssumption DEF Starts
      <4>3. \A i \in 1 .. l : ~ Starts(c[i])
        BY <1>6, <1>7, <3>0, <3>1 DEF Pointed
      <4> QED
        BY <1>1, <1>6, <1>7, <1>9, <4>1, <4>2, <4>3 DEF Pointed, Starts
    <3>2. CASE pkt.start
      <4>1. p = pkt
        BY <3>2 DEF p, Started
      <4>2. /\ p.start /\ p.ptr < l /\ Starts(pkt.cells[p.ptr + 1])
            /\ \A i \in 1 .. p.ptr : ~ Starts(pkt.cells[i])
        BY <3>0, <3>2, <4>1 DEF Pointed, l
      <4>3. \A i \in 1 .. l : c[i] = pkt.cells[i]
        BY <1>7
      <4>4. p.ptr + 1 \in 1 .. l /\ 1 .. p.ptr \subseteq 1 .. l /\ p.ptr < l + n
        BY <1>1, <1>6, <4>2
      <4>5. Starts(c[p.ptr + 1]) /\ \A i \in 1 .. p.ptr : ~ Starts(c[i])
        BY <4>2, <4>3, <4>4
      <4> QED
        BY <1>7, <1>9, <4>2, <4>4, <4>5 DEF Pointed, Starts
    <3>3. CASE off # 0 /\ ~ pkt.start
      <4>1. p = pkt
        BY <3>3 DEF p, Started
      <4>2. \A i \in 1 .. l : ~ Starts(c[i])
        BY <1>6, <1>7, <3>0, <3>3 DEF Pointed
      <4>3. \A i \in 1 .. l + n : ~ Starts(c[i])
        BY <1>1, <1>6, <1>11, <3>3, <4>2
      <4> QED
        BY <1>7, <1>9, <3>3, <4>1, <4>3 DEF Pointed, Starts
    <3> QED
      BY <3>1, <3>2, <3>3
  <2>3. Written(pkt.cells)'
    <3> SUFFICES ASSUME NEW i \in 1 .. l + n, c[i].sec # 0
                 PROVE  /\ c[i].at < size[c[i].sec]
                        /\ c[i].sec < sec' \/ (c[i].sec = sec' /\ c[i].at < off')
      BY <1>2, <1>7, <1>9 DEF Written
    <3>1. CASE i <= l
      <4>1. i \in DOMAIN pkt.cells /\ c[i] = pkt.cells[i] /\ c[i] \in Cell
        BY <1>1, <1>6, <1>7, <3>1
      <4>2. /\ c[i].at < size[c[i].sec] /\ c[i].at \in Nat /\ c[i].sec \in Nat
            /\ c[i].sec < sec \/ (c[i].sec = sec /\ c[i].at < off)
        BY <4>1 DEF IInv, TransportInv, SenderInv, PacketInv, Written, Cell
      <4> QED
        BY SMTT(30), <1>1, <1>2, <1>4, <4>2
    <3>2. CASE i > l
      <4>1. c[i] = [sec |-> sec, at |-> off + (i - l) - 1]
        BY <1>7, <3>2
      <4> QED
        <5>1. off + (i - l) - 1 < off + n
          BY <1>7a, <3>2
        <5>2. c[i].sec = sec /\ c[i].at = off + (i - l) - 1
          BY <4>1
        <5>3. sec < sec' \/ (sec = sec' /\ off' = off + n)
          BY <1>2, <1>7a
        <5> QED
          BY <1>7a, <3>2, <5>1, <5>2, <5>3
    <3> QED
      BY <1>1, <1>6, <3>1, <3>2
  <2> QED
    BY <2>1, <2>1a, <2>2, <2>3 DEF PacketInv
<1>14. Used(pkt)' <= Cap
  <2>1. CASE p.start
    BY SMTT(30), <1>1, <1>4, <1>6, <1>7, <1>9, <2>1 DEF Used, l
  <2>2. CASE ~ p.start
    BY <1>1, <1>4, <1>6, <1>7, <1>9, <2>2 DEF Used, l
  <2> QED
    BY <2>1, <2>2
<1>15. TailIs(LastCell(pkt.cells))'
  <2>1. LastCell(c) = [sec |-> sec, at |-> off + n - 1]
    <3>1. l + n \in 1 .. l + n /\ l + n > l /\ off + ((l + n) - l) - 1 = off + n - 1
      BY <1>7a
    <3> QED
      BY <1>7, <1>7b, <3>1 DEF LastCell
  <2>2. CASE off + n = size[sec]
    <3>1. off' = 0
      BY <1>2, <2>2
    <3>2. LastCell(c).sec = sec /\ LastCell(c).at = size[sec] - 1
      BY <1>7a, <2>1, <2>2
    <3>3. LastCell(pkt.cells)' = LastCell(c) /\ size' = size
      BY <1>2, <1>9 DEF LastCell
    <3> QED
      BY <3>1, <3>2, <3>3 DEF TailIs, Ends
  <2>3. CASE off + n # size[sec]
    <3>1. off' = off + n /\ sec' = sec
      BY <1>2, <2>3
    <3> QED
      BY <1>7a, <1>9, <2>1, <3>1 DEF TailIs, LastCell
  <2> QED
    BY <2>2, <2>3
<1>16. off' > 0 => sec' <= N /\ off' < size[sec']
  <2>1. CASE off + n = size[sec]
    BY <1>2, <2>1
  <2>2. CASE off + n # size[sec]
    <3>1. off' = off + n /\ sec' = sec
      BY <1>2, <2>2
    <3> QED
      BY <1>7a, <2>2, <3>1
  <2> QED
    BY <2>1, <2>2
<1>17. TypeOK'
  <2>1. pkt' \in [start : BOOLEAN, ptr : Nat, cells : Seq(Cell)]
    BY <1>1, <1>3, <1>7
  <2>2. sec' \in 1 .. N + 1 /\ off' \in Nat
    BY <1>10 DEF SenderOn
  <2> QED
    BY <1>2, <1>4, <2>1, <2>2 DEF TypeOK, receiverVars
<1> QED
  BY <1>10, <1>12, <1>13, <1>14, <1>15, <1>16, <1>17, GrownStep

(* Stuffing ends a packet in which something was written, after a section. *)
LEMMA StuffStep ==
  ASSUME IInv, off = 0, 0 < Used(pkt), Used(pkt) < Cap, pkt' = Stuffed(pkt),
         UNCHANGED <<size, sec, off, sent, cursor, lost, receiverVars>>
  PROVE  IInv'
<1> DEFINE n == Cap - Used(pkt)
           add == Pads(n)
           c == pkt.cells \o add
           l == Len(pkt.cells)
<1>1. /\ TypeOK /\ sec \in Nat /\ Cap \in Nat
      /\ pkt = [start |-> pkt.start, ptr |-> pkt.ptr, cells |-> pkt.cells]
  BY TransportAssumption DEF IInv, TypeOK
<1>2. /\ pkt.cells \in Seq(Cell) /\ l \in Nat /\ DOMAIN pkt.cells = 1 .. l
      /\ (pkt.cells # <<>> <=> l > 0)
      /\ \A i \in DOMAIN pkt.cells : pkt.cells[i] \in Cell
      /\ pkt.start \in BOOLEAN /\ pkt.ptr \in Nat
  BY <1>1, SenderTypes
<1>3. n \in Nat /\ n >= 1 /\ Used(pkt) + n = Cap
  <2>1. CASE pkt.start
    BY <1>1, <1>2, <2>1 DEF Used
  <2>2. CASE ~ pkt.start
    BY <1>1, <1>2, <2>2 DEF Used
  <2> QED
    BY <1>2, <2>1, <2>2
<1>4. pkt.cells # <<>>
  <2> SUFFICES ASSUME pkt.cells = <<>>
               PROVE  FALSE
    OBVIOUS
  <2>1. pkt = NoPacket
    BY DEF IInv, TransportInv, SenderInv
  <2> QED
    BY <2>1, EmptySeq DEF NoPacket, Used
<1>5. pkt' = [start |-> pkt.start, ptr |-> pkt.ptr, cells |-> c]
  BY <1>1 DEF Stuffed, Pads
<1> HIDE DEF n
<1>6. /\ add \in Seq(Cell) /\ Len(add) = n /\ \A i \in 1 .. n : add[i] = Pad
  BY <1>3, PadsFacts
<1> HIDE DEF add
<1>7. /\ c \in Seq(Cell) /\ Len(c) = l + n /\ DOMAIN c = 1 .. l + n
      /\ \A i \in 1 .. l : c[i] = pkt.cells[i]
      /\ \A j \in 1 .. l + n : j > l => c[j] = Pad
  <2>1. /\ c \in Seq(Cell) /\ Len(c) = l + n
        /\ \A i \in 1 .. l + n : c[i] = IF i <= l THEN pkt.cells[i] ELSE add[i - l]
    BY ZenonT(60), <1>2, <1>6, ConcatProperties
  <2> HIDE DEF c, l
  <2>2. DOMAIN c = 1 .. l + n
    BY <2>1, LenProperties
  <2>3. ASSUME NEW j \in 1 .. l + n, j > l
        PROVE  c[j] = Pad
    <3>1. j - l \in 1 .. n /\ c[j] = add[j - l]
      BY <1>2, <1>3, <2>1, <2>3
    <3> QED
      BY <1>6, <3>1
  <2> QED
    BY <1>2, <1>3, <2>1, <2>2, <2>3
<1>8. Runs(c) /\ Linked(c)
  <2>1. Runs(pkt.cells) /\ Linked(pkt.cells)
    BY DEF IInv, TransportInv, SenderInv, PacketInv
  <2>2. DOMAIN add = 1 .. n
    BY <1>6, LenProperties
  <2>3. Runs(add)
    BY <1>6, <2>2, PadIsCell DEF Runs
  <2>4. Linked(add)
    <3> SUFFICES ASSUME NEW i \in 1 .. n, i < n
                 PROVE  Link(add[i], add[i + 1])
      BY <1>6, <2>2 DEF Linked
    <3>1. add[i] = Pad /\ add[i + 1] = Pad
      BY <1>3, <1>6
    <3> QED
      BY <3>1, PadIsCell DEF Link, Ends
  <2>5. Link(LastCell(pkt.cells), add[1])
    <3>1. Ends(LastCell(pkt.cells))
      BY <1>4 DEF IInv, TransportInv, SenderInv, TailIs
    <3>2. add[1] = Pad
      BY <1>3, <1>6
    <3> QED
      BY <3>1, <3>2, PadIsCell DEF Link
  <2> QED
    BY <1>1, <1>2, <1>6, <2>1, <2>3, <2>4, <2>5, JoinBlocks DEF TypeOK
<1> HIDE DEF c, l
<1>9. /\ pkt'.cells = c /\ pkt'.start = pkt.start /\ pkt'.ptr = pkt.ptr
      /\ size' = size /\ sec' = sec /\ off' = off /\ sent' = sent
  BY <1>5
<1>10. SenderOn
  BY <1>1, <1>9 DEF SenderOn, TypeOK
<1>11. Grown
  <2>1. \A j \in 1 .. l + n : j > l => ~ Starts(c[j])
    BY <1>7, PadIsCell DEF Starts
  <2>2. Len(pkt.cells) = l /\ l + n > l
    BY <1>2, <1>3 DEF l
  <2> QED
    BY <1>4, <1>7, <1>9, <2>1, <2>2 DEF Grown
<1>12. PacketInv(pkt)'
  <2>0. Runs(c) /\ Linked(c) /\ Pointed(pkt) /\ Written(pkt.cells)
    BY <1>8 DEF IInv, TransportInv, SenderInv, PacketInv
  <2>1. Runs(pkt.cells)'
    BY <1>9, <2>0 DEF Runs
  <2>2. Linked(pkt.cells)'
    BY <1>9, <2>0 DEF Linked, Link, Ends
  <2>3. Pointed(pkt)'
    <3>1. \A j \in 1 .. l + n : j > l => ~ Starts(c[j])
      BY <1>7, PadIsCell DEF Starts
    <3>2. CASE pkt.start
      <4>1. /\ pkt.ptr < l /\ Starts(pkt.cells[pkt.ptr + 1])
            /\ \A i \in 1 .. pkt.ptr : ~ Starts(pkt.cells[i])
        BY <2>0, <3>2 DEF Pointed, l
      <4>2. /\ pkt.ptr + 1 \in 1 .. l /\ 1 .. pkt.ptr \subseteq 1 .. l
            /\ pkt.ptr < l + n
        BY <1>2, <1>3, <4>1
      <4>3. /\ Starts(c[pkt.ptr + 1]) /\ \A i \in 1 .. pkt.ptr : ~ Starts(c[i])
        BY <1>7, <4>1, <4>2
      <4> QED
        BY <1>7, <1>9, <3>2, <4>2, <4>3 DEF Pointed, Starts
    <3>3. CASE ~ pkt.start
      <4>1. \A i \in 1 .. l : ~ Starts(c[i])
        BY <1>2, <1>7, <2>0, <3>3 DEF Pointed
      <4>2. \A i \in 1 .. l + n : ~ Starts(c[i])
        BY <1>2, <1>3, <3>1, <4>1
      <4> QED
        BY <1>7, <1>9, <3>3, <4>2 DEF Pointed, Starts
    <3> QED
      BY <3>2, <3>3
  <2>4. Written(pkt.cells)'
    <3> SUFFICES ASSUME NEW i \in 1 .. l + n, c[i].sec # 0
                 PROVE  /\ c[i].at < size[c[i].sec]
                        /\ c[i].sec < sec \/ (c[i].sec = sec /\ c[i].at < off)
      BY <1>7, <1>9 DEF Written
    <3>1. ~ i > l
      BY <1>7, PadIsCell
    <3>2. i \in DOMAIN pkt.cells /\ c[i] = pkt.cells[i]
      BY <1>2, <1>3, <1>7, <3>1
    <3> QED
      BY <2>0, <3>2 DEF Written
  <2> QED
    BY <2>1, <2>2, <2>3, <2>4 DEF PacketInv
<1>13. Used(pkt)' <= Cap
  <2>1. CASE pkt.start
    BY <1>1, <1>2, <1>3, <1>7, <1>9, <2>1 DEF Used, l
  <2>2. CASE ~ pkt.start
    BY <1>1, <1>2, <1>3, <1>7, <1>9, <2>2 DEF Used, l
  <2> QED
    BY <2>1, <2>2
<1>14. TailIs(LastCell(pkt.cells))'
  <2>1. LastCell(c) = Pad
    BY <1>2, <1>3, <1>7 DEF LastCell
  <2>2. LastCell(pkt.cells)' = Pad /\ Pad.sec = 0 /\ off' = 0
    BY <1>9, <2>1, PadIsCell DEF LastCell
  <2> QED
    BY <2>2 DEF TailIs, Ends
<1>15. TypeOK'
  <2>1. pkt' \in [start : BOOLEAN, ptr : Nat, cells : Seq(Cell)]
    BY <1>2, <1>5, <1>7
  <2> QED
    BY <1>1, <1>9, <2>1 DEF TypeOK, receiverVars
<1>16. UNCHANGED <<cursor, lost, receiverVars>>
  OBVIOUS
<1> QED
  BY <1>9, <1>10, <1>11, <1>12, <1>13, <1>14, <1>15, <1>16, GrownStep

LEMMA EmitStep ==
  ASSUME IInv, Emit, UNCHANGED <<cursor, lost, receiverVars>>
  PROVE  IInv'
<1> DEFINE r == [cc |-> Len(sent) % CCMod, start |-> pkt.start,
                 ptr |-> pkt.ptr, cells |-> pkt.cells]
           l == Len(sent)
<1>1. /\ Used(pkt) = Cap /\ sent' = Append(sent, r) /\ pkt' = NoPacket
      /\ size' = size /\ sec' = sec /\ off' = off
  BY DEF Emit
<1>2. TypeOK /\ SenderInv /\ CrossInv /\ OrderInv /\ BufferInv /\ ReadingInv /\ OutIsGenuine
  BY DEF IInv, TransportInv
<1>3. /\ pkt.cells \in Seq(Cell) /\ pkt.start \in BOOLEAN /\ pkt.ptr \in Nat
      /\ l \in Nat /\ DOMAIN sent = 1 .. l
  BY <1>2, SenderTypes
<1>4. r \in Packet
  <2>1. l % CCMod \in 0 .. CCMod - 1
    <3>1. CCMod \in Nat \ {0} /\ l \in Int
      BY <1>3, TransportAssumption
    <3> QED
      BY ONLY <3>1, Division
  <2> QED
    BY <1>3, <2>1 DEF Packet
<1>5. r.cc = l % CCMod /\ r.start = pkt.start /\ r.ptr = pkt.ptr /\ r.cells = pkt.cells
  OBVIOUS
<1> HIDE DEF r, l
<1>6. /\ sent' \in Seq(Packet) /\ Len(sent') = l + 1
      /\ DOMAIN sent' = 1 .. l + 1
      /\ \A q \in 1 .. l : sent'[q] = sent[q]
      /\ sent'[l + 1] = r
  BY <1>1, <1>2, <1>3, <1>4, LenProperties DEF TypeOK, l
<1>7. pkt'.cells = <<>> /\ pkt'.start = FALSE /\ pkt'.ptr = 0 /\ DOMAIN pkt'.cells = {}
  BY <1>1 DEF NoPacket
<1>8. pkt.cells # <<>>
  <2> SUFFICES ASSUME pkt.cells = <<>>
               PROVE  FALSE
    OBVIOUS
  <2>1. pkt = NoPacket
    BY <1>2 DEF SenderInv
  <2> QED
    BY <1>1, <2>1, EmptySeq, TransportAssumption DEF NoPacket, Used
<1>9. SenderOn
  BY <1>1, <1>2, TransportAssumption DEF SenderOn, TypeOK
<1>10. TypeOK'
  <2>1. pkt' \in [start : BOOLEAN, ptr : Nat, cells : Seq(Cell)]
    BY <1>1, EmptySeq DEF NoPacket
  <2>2. cursor \in 0 .. l + 1
    BY <1>2, <1>3 DEF TypeOK, l
  <2> QED
    BY <1>1, <1>2, <1>6, <2>1, <2>2 DEF TypeOK, receiverVars
<1>11. SenderInv'
  <2>1. ASSUME NEW q \in 1 .. l + 1
        PROVE  PacketInv(sent[q])' /\ Used(sent[q])' = Cap /\ sent'[q].cc = (q - 1) % CCMod
    <3>1. CASE q \in 1 .. l
      <4>1. q \in DOMAIN sent /\ sent'[q] = sent[q]
        BY <1>3, <1>6, <3>1
      <4>2. PacketInv(sent[q])'
        BY <1>1, <1>2, <1>9, <4>1, SentKept
      <4> QED
        BY <1>2, <4>1, <4>2 DEF SenderInv, Used
    <3>2. CASE q = l + 1
      <4>1. sent'[q].cells = pkt.cells /\ sent'[q].start = pkt.start /\ sent'[q].ptr = pkt.ptr
        BY <1>5, <1>6, <3>2
      <4>2. Runs(pkt.cells) /\ Linked(pkt.cells) /\ Pointed(pkt) /\ Written(pkt.cells)
        BY <1>2 DEF SenderInv, PacketInv
      <4>3. Runs(sent[q].cells)'
        BY <1>1, <4>1, <4>2 DEF Runs
      <4>4. Linked(sent[q].cells)'
        BY <1>1, <4>1, <4>2 DEF Linked, Link, Ends
      <4>5. Pointed(sent[q])'
        BY <4>1, <4>2 DEF Pointed, Starts
      <4>6. Written(sent[q].cells)'
        BY <1>1, <4>1, <4>2 DEF Written
      <4>7. Used(sent[q])' = Cap
        BY <1>1, <4>1 DEF Used
      <4>8. sent'[q].cc = l % CCMod /\ q - 1 = l
        BY <1>3, <1>5, <1>6, <3>2
      <4> QED
        BY <4>3, <4>4, <4>5, <4>6, <4>7, <4>8 DEF PacketInv
    <3> QED
      BY <1>3, <3>1, <3>2
  <2>2. PacketInv(pkt)'
    BY <1>7, EmptySeq DEF PacketInv, Runs, Linked, Pointed, Written
  <2>3. (Used(pkt) <= Cap)'
    BY <1>7, EmptySeq, TransportAssumption DEF Used
  <2>4. TailIs(LastCell(sent[Len(sent)].cells))'
    <3>1. TailIs(LastCell(pkt.cells))
      BY <1>2, <1>8 DEF SenderInv
    <3>2. LastCell(sent[Len(sent)].cells)' = LastCell(pkt.cells)
      BY <1>5, <1>6 DEF LastCell
    <3> QED
      BY <1>1, <3>1, <3>2 DEF TailIs, Ends
  <2>5. sent' # <<>>
    BY <1>3, <1>6, EmptySeq
  <2>6. (off > 0 => sec <= N /\ off < size[sec])'
    BY <1>1, <1>2 DEF SenderInv
  <2>7. (\A q \in DOMAIN sent : /\ PacketInv(sent[q])
                               /\ Used(sent[q]) = Cap
                               /\ sent[q].cc = (q - 1) % CCMod)'
    BY <1>6, <2>1
  <2>8. (pkt.cells = <<>> => pkt = NoPacket)'
    BY <1>1 DEF NoPacket
  <2> QED
    BY <1>7, <2>2, <2>3, <2>4, <2>5, <2>6, <2>7, <2>8 DEF SenderInv
<1>12. CrossInv'
  <2>1. ASSUME NEW q \in 1 .. l + 1, q < l + 1
        PROVE  Link(LastCell(sent[q].cells), sent[q + 1].cells[1])'
    <3>1. q \in 1 .. l /\ sent'[q] = sent[q]
      BY <1>3, <1>6, <2>1
    <3>2. CASE q < l
      <4>1. q + 1 \in 1 .. l /\ sent'[q + 1] = sent[q + 1]
        BY <1>3, <1>6, <3>1, <3>2
      <4> QED
        BY <1>1, <1>2, <1>3, <3>1, <3>2, <4>1 DEF CrossInv, Link, Ends, LastCell, l
    <3>3. CASE q = l
      <4>1. sent'[q + 1].cells = pkt.cells /\ sent # <<>>
        BY <1>2, <1>3, <1>5, <1>6, <3>1, <3>3, SenderTypes
      <4> QED
        BY <1>1, <1>2, <1>8, <3>1, <3>3, <4>1 DEF CrossInv, Link, Ends, LastCell, l
    <3> QED
      BY <1>3, <3>1, <3>2, <3>3
  <2> QED
    BY <1>6, <1>7, <2>1 DEF CrossInv
<1>13. OrderInv'
  <2>1. ASSUME NEW q \in 1 .. l + 1
        PROVE  sent'[q].cells = IF q = l + 1 THEN pkt.cells ELSE sent[q].cells
    BY <1>3, <1>5, <1>6
  <2>2. ASSUME NEW q \in 1 .. l + 1, NEW t \in 1 .. l + 1, q < t
        PROVE  Precede(sent'[q].cells, sent'[t].cells)
    <3>1. q \in DOMAIN sent /\ sent'[q].cells = sent[q].cells
      BY <1>3, <1>6, <2>2
    <3>2. CASE t = l + 1
      BY <1>2, <2>1, <3>1, <3>2 DEF OrderInv
    <3>3. CASE t # l + 1
      <4>1. t \in DOMAIN sent /\ sent'[t].cells = sent[t].cells
        BY <1>3, <1>6, <3>3
      <4> QED
        BY <1>2, <2>2, <3>1, <4>1 DEF OrderInv
    <3> QED
      BY <3>2, <3>3
  <2>3. \A q \in 1 .. l + 1 : Precede(sent'[q].cells, pkt'.cells)
    BY <1>7 DEF Precede
  <2>4. ASSUME NEW q \in 1 .. l + 1, NEW i \in DOMAIN sent'[q].cells,
               NEW j \in DOMAIN sent'[q].cells, i < j, Starts(sent'[q].cells[j])
        PROVE  sent'[q].cells[i].sec < sent'[q].cells[j].sec
    <3>1. CASE q = l + 1
      BY <1>2, <2>1, <2>4, <3>1 DEF OrderInv
    <3>2. CASE q # l + 1
      <4>1. q \in DOMAIN sent /\ sent'[q].cells = sent[q].cells
        BY <1>3, <1>6, <3>2
      <4> QED
        BY <1>2, <2>4, <4>1 DEF OrderInv
    <3> QED
      BY <3>1, <3>2
  <2> QED
    BY <1>6, <1>7, <2>2, <2>3, <2>4 DEF OrderInv, Precede, Starts
<1>14. BufferInv' /\ ReadingInv' /\ OutIsGenuine'
  <2>1. \A q \in DOMAIN sent : q \in DOMAIN sent' /\ sent'[q].cells = sent[q].cells
    BY <1>3, <1>6
  <2>2. Ahead(pkt'.cells)
    BY <1>7 DEF Ahead
  <2>3. ASSUME NEW q \in rx + 1 .. Len(sent')
        PROVE  Ahead(sent'[q].cells)
    <3>1. rx \in Nat /\ q \in rx + 1 .. l + 1
      BY <1>2, <1>3, <1>6 DEF TypeOK, l
    <3>2. CASE q = l + 1
      BY <1>2, <1>5, <1>6, <3>2, AheadNow
    <3>3. CASE q # l + 1
      <4>1. q \in rx + 1 .. Len(sent) /\ sent'[q].cells = sent[q].cells
        BY <1>3, <1>6, <3>1, <3>3 DEF l
      <4> QED
        BY <1>2, <4>1, AheadNow
    <3> QED
      BY <3>2, <3>3
  <2> QED
    BY <1>1, <1>2, <1>9, <2>1, <2>2, <2>3, ReceiverKept
<1> QED
  BY <1>10, <1>11, <1>12, <1>13, <1>14 DEF IInv, TransportInv

-----------------------------------------------------------------------------
(* The receiver.                                                           *)

(* What the receiver and the channel do leaves the sender's part of the    *)
(* invariant.                                                              *)
LEMMA SenderKept ==
  ASSUME SenderInv, CrossInv, OrderInv, UNCHANGED senderVars
  PROVE  SenderInv' /\ CrossInv' /\ OrderInv'
<1>1. size' = size /\ sec' = sec /\ off' = off /\ pkt' = pkt /\ sent' = sent
  BY DEF senderVars
<1>2. PacketInv(pkt)'
  BY <1>1 DEF SenderInv, PacketInv, Runs, Linked, Pointed, Written, Link, Ends, Starts
<1>3. \A q \in DOMAIN sent' : PacketInv(sent[q])'
  BY <1>1 DEF SenderInv, PacketInv, Runs, Linked, Pointed, Written, Link, Ends, Starts
<1>4. SenderInv'
  BY <1>1, <1>2, <1>3 DEF SenderInv, TailIs, Ends, Used, LastCell
<1>5. CrossInv'
  BY <1>1 DEF CrossInv, Link, Ends, LastCell
<1>6. OrderInv'
  BY <1>1 DEF OrderInv, Precede, Starts
<1> QED
  BY <1>4, <1>5, <1>6

LEMMA ReceiverTypes ==
  ASSUME TypeOK, SenderInv
  PROVE  /\ rx \in Nat /\ cursor \in Nat /\ rx <= cursor /\ cursor <= Len(sent)
         /\ rx > 0 => /\ rx \in DOMAIN sent /\ CellsRx = sent[rx].cells
                      /\ Len(CellsRx) \in Nat \ {0}
         /\ rx = 0 => CellsRx = <<>>
         /\ CellsRx \in Seq(Cell) /\ Len(CellsRx) \in Nat
         /\ DOMAIN CellsRx = 1 .. Len(CellsRx)
         /\ \A i \in DOMAIN CellsRx : CellsRx[i].sec \in 0 .. N /\ CellsRx[i].at \in Nat
         /\ buf \in Seq(Cell) /\ Len(buf) \in Nat /\ (buf # <<>> <=> Len(buf) > 0)
         /\ pos \in Nat /\ pos >= 1 /\ first \in BOOLEAN
<1>1. rx \in Nat /\ cursor \in Nat /\ rx <= cursor /\ cursor <= Len(sent) /\ Len(sent) \in Nat
  BY SenderTypes DEF TypeOK
<1>2. rx > 0 => rx \in DOMAIN sent
  BY <1>1, SenderTypes
<1>3. rx > 0 => CellsRx = sent[rx].cells /\ Len(CellsRx) \in Nat \ {0}
  BY <1>2, SentTypes DEF CellsRx
<1>4. rx = 0 => CellsRx = <<>>
  BY DEF CellsRx
<1>5. CellsRx \in Seq(Cell)
  <2>1. CASE rx = 0
    BY <1>4, <2>1, EmptySeq
  <2>2. CASE rx > 0
    BY <1>2, <1>3, <2>2, SentTypes
  <2> QED
    BY <1>1, <2>1, <2>2
<1>6. Len(CellsRx) \in Nat /\ DOMAIN CellsRx = 1 .. Len(CellsRx)
  BY <1>5, LenProperties
<1>7. \A i \in DOMAIN CellsRx : CellsRx[i] \in Cell
  BY <1>5, <1>6, ElementOfSeq
<1>8. \A i \in DOMAIN CellsRx : CellsRx[i].sec \in 0 .. N /\ CellsRx[i].at \in Nat
  BY <1>7 DEF Cell
<1>9. buf \in Seq(Cell) /\ Len(buf) \in Nat /\ (buf # <<>> <=> Len(buf) > 0)
  BY EmptySeq, LenProperties DEF TypeOK
<1>10. pos \in Nat /\ pos >= 1 /\ first \in BOOLEAN
  BY DEF TypeOK
<1> QED
  BY <1>1, <1>2, <1>3, <1>4, <1>5, <1>6, <1>8, <1>9, <1>10

(* What is read is a section from its first byte not yet in the buffer on. *)
Reads(k) ==
  /\ rx \in DOMAIN sent /\ CellsRx = sent[rx].cells
  /\ pos <= Len(CellsRx)
  /\ Len(buf) < size[k]
  /\ buf = Bytes(k, 0, Len(buf))
  /\ Len(buf) >= Hdr => size[k] <= MaxPrivate
  /\ CellsRx[pos] = [sec |-> k, at |-> Len(buf)]
  /\ LastOut < k
  /\ IF first THEN pos = 1 /\ Len(buf) > 0 ELSE Len(buf) = 0

LEMMA AssemblingReads ==
  ASSUME IInv, Assembling
  PROVE  \E k \in 1 .. N : Reads(k)
<1>1. TypeOK /\ SenderInv /\ BufferInv /\ ReadingInv
  BY DEF IInv, TransportInv
<1>2. ~ Idle /\ (buf = <<>> => CellsRx[pos] # Pad)
  BY DEF Assembling
<1>3. pos \in 1 .. Len(CellsRx)
  BY <1>1, <1>2, ReceiverTypes DEF Idle
<1>4. rx \in DOMAIN sent /\ CellsRx = sent[rx].cells
  <2>1. rx # 0
    BY <1>1, <1>3, ReceiverTypes, EmptySeq
  <2> QED
    BY <1>1, <2>1, ReceiverTypes
<1>5. CASE buf = <<>>
  <2> DEFINE k == CellsRx[pos].sec
  <2>1. CellsRx[pos] \in Cell
    BY <1>1, <1>3, ReceiverTypes, ElementOfSeq
  <2>2. CellsRx[pos].at = 0
    BY <1>1, <1>2, <1>5 DEF ReadingInv
  <2>3. k # 0
    BY <1>2, <1>5, <2>1, <2>2, ZeroCell
  <2>4. k \in 1 .. N
    BY <2>1, <2>3, TransportAssumption DEF Cell
  <2>5. CellsRx[pos] = [sec |-> k, at |-> 0]
    BY <2>1, <2>2 DEF Cell
  <2>6. LastOut < k
    <3>1. pos \in DOMAIN CellsRx /\ Starts(CellsRx[pos]) /\ pos >= pos
      BY <1>1, <1>3, <2>2, <2>3, ReceiverTypes DEF Starts
    <3> QED
      BY <1>1, <3>1 DEF ReadingInv
  <2>7. Len(buf) = 0 /\ ~ first
    BY <1>1, <1>5, EmptySeq DEF ReadingInv
  <2>8. size[k] \in Nat /\ 1 <= size[k] /\ Hdr \in Nat \ {0}
    BY <1>1, <2>4, SizeBounds, TransportAssumption DEF TypeOK
  <2>9. buf = Bytes(k, 0, 0)
    BY <1>5, <2>4, BytesFacts, EmptySeq
  <2> QED
    BY <1>3, <1>4, <2>4, <2>5, <2>6, <2>7, <2>8, <2>9 DEF Reads
<1>6. CASE buf # <<>>
  <2> DEFINE k == buf[1].sec
  <2>1. /\ k \in 1 .. N /\ Len(buf) < size[k]
        /\ Len(buf) >= Hdr => size[k] <= MaxPrivate
        /\ buf = Bytes(k, 0, Len(buf)) /\ LastOut < k
    BY <1>1, <1>6 DEF BufferInv
  <2>2. first /\ CellsRx[1] = [sec |-> k, at |-> Len(buf)]
    BY <1>1, <1>2, <1>6 DEF BufferInv
  <2>3. pos = 1
    BY <1>1, <2>2 DEF ReadingInv
  <2>4. Len(buf) > 0
    BY <1>1, <1>6, ReceiverTypes
  <2> QED
    BY <1>3, <1>4, <2>1, <2>2, <2>3, <2>4 DEF Reads
<1> QED
  BY <1>5, <1>6

(* What that makes of the buffer once the packet is copied to it. *)
LEMMA FilledFacts ==
  ASSUME IInv, NEW k \in 1 .. N, Reads(k)
  PROVE  /\ Copied \in Nat \ {0} /\ pos + Copied <= Len(CellsRx) + 1
         /\ Len(buf) + Copied <= MaxPrivate + Hdr
         /\ pos + Copied = Len(CellsRx) + 1 \/ Len(buf) + Copied = MaxPrivate + Hdr
         /\ Filled \in Seq(Cell) /\ Len(Filled) = Len(buf) + Copied
         /\ \A j \in 0 .. Copied - 1 : Len(buf) + j < size[k] =>
              CellsRx[pos + j] = [sec |-> k, at |-> Len(buf) + j]
         /\ \A i \in 1 .. Len(Filled) : i <= size[k] => Filled[i] = [sec |-> k, at |-> i - 1]
         /\ Len(Filled) >= Hdr => DeclaredSizes(Filled) = {size[k]}
<1> DEFINE h == Len(buf)
           m == Copied
           l == Len(CellsRx)
<1>1. /\ h \in Nat /\ l \in Nat /\ pos \in Nat /\ pos >= 1 /\ pos <= l
      /\ buf \in Seq(Cell) /\ CellsRx \in Seq(Cell) /\ DOMAIN CellsRx = 1 .. l
  BY ReceiverTypes DEF IInv, TransportInv, Reads
<1>2. /\ size[k] \in Nat /\ Hdr <= size[k] /\ size[k] <= MaxPrivate + Hdr /\ h < size[k]
      /\ Hdr \in Nat \ {0} /\ MaxPrivate \in Nat
  BY SizeBounds, TransportAssumption DEF Reads, IInv, TypeOK
<1>3. /\ m \in Nat \ {0} /\ pos + m <= l + 1 /\ h + m <= MaxPrivate + Hdr
      /\ pos + m = l + 1 \/ h + m = MaxPrivate + Hdr
  BY <1>1, <1>2 DEF Copied, Least
<1> HIDE DEF m, h, l
<1> DEFINE d == SubSeq(CellsRx, pos, pos + m - 1)
<1>4. /\ d \in Seq(Cell) /\ Len(d) = m /\ \A i \in 1 .. m : d[i] = CellsRx[pos + i - 1]
  <2>1. \A i \in pos .. pos + m - 1 : CellsRx[i] \in Cell
    BY <1>1, <1>3, ElementOfSeq DEF l
  <2>2. pos \in Int /\ pos + m - 1 \in Int /\ pos <= pos + m - 1 /\ (pos + m - 1) - pos + 1 = m
    BY <1>1, <1>3
  <2> QED
    BY <2>1, <2>2, SubSeqProperties
<1> HIDE DEF d
<1>5. /\ Filled \in Seq(Cell) /\ Len(Filled) = h + m
      /\ \A i \in 1 .. h + m : Filled[i] = IF i <= h THEN buf[i] ELSE d[i - h]
  <2>1. Filled = buf \o d
    BY DEF Filled, m, d
  <2> QED
    BY <1>1, <1>4, <2>1, ConcatProperties DEF h
<1>6. ASSUME NEW j \in 0 .. m - 1, h + j < size[k]
      PROVE  CellsRx[pos + j] = [sec |-> k, at |-> h + j]
  <2>1. Runs(CellsRx)
    BY DEF IInv, TransportInv, SenderInv, PacketInv, Reads
  <2>2. CellsRx[pos] = [sec |-> k, at |-> h]
    BY DEF Reads, h
  <2>3. /\ pos \in DOMAIN CellsRx /\ pos + j \in DOMAIN CellsRx /\ pos <= pos + j
        /\ (pos + j) - pos = j
    BY <1>1, <1>3
  <2>4. CellsRx[pos].sec = k /\ CellsRx[pos].at = h /\ k # 0
    BY <2>2
  <2> QED
    BY <1>6, <2>1, <2>3, <2>4 DEF Runs
<1>7. ASSUME NEW i \in 1 .. h + m, i <= size[k]
      PROVE  Filled[i] = [sec |-> k, at |-> i - 1]
  <2>1. CASE i <= h
    <3>1. buf = Bytes(k, 0, h)
      BY DEF Reads, h
    <3>2. Bytes(k, 0, h)[i] = [sec |-> k, at |-> 0 + i - 1]
      BY <1>1, <2>1, BytesFacts
    <3> QED
      BY <1>5, <2>1, <3>1, <3>2
  <2>2. CASE i > h
    <3> DEFINE j == i - h - 1
    <3>1. /\ j \in 0 .. m - 1 /\ h + j < size[k] /\ i - h \in 1 .. m
          /\ pos + (i - h) - 1 = pos + j /\ h + j = i - 1
      BY <1>1, <1>2, <1>3, <1>7, <2>2
    <3>2. Filled[i] = d[i - h]
      BY <1>1, <1>5, <2>2
    <3>3. d[i - h] = CellsRx[pos + (i - h) - 1]
      BY <1>4, <3>1
    <3> HIDE DEF j
    <3>4. CellsRx[pos + j] = [sec |-> k, at |-> h + j]
      BY <1>6, <3>1
    <3> QED
      BY <3>1, <3>2, <3>3, <3>4
  <2> QED
    BY <1>1, <2>1, <2>2
<1>8. ASSUME h + m >= Hdr
      PROVE  DeclaredSizes(Filled) = {size[k]}
  <2>1. Filled[Hdr] = [sec |-> k, at |-> Hdr - 1]
    BY <1>1, <1>2, <1>3, <1>7, <1>8
  <2>2. Filled[Hdr] # Pad /\ Filled[Hdr].at = Hdr - 1 /\ Filled[Hdr].sec = k
    BY <2>1 DEF Pad
  <2> QED
    BY <2>2 DEF DeclaredSizes
<1> QED
  BY <1>3, <1>5, <1>6, <1>7, <1>8 DEF h, m, l

(* ts_next_section stays within the packet, and leads to the first section *)
(* that starts in it, if any.                                              *)
LEMMA NextSectionFacts ==
  ASSUME TypeOK, SenderInv, NEW q \in DOMAIN sent
  PROVE  /\ NextSection(sent[q]) \in Nat \ {0}
         /\ NextSection(sent[q]) <= Len(sent[q].cells) + 1
         /\ NextSection(sent[q]) <= Len(sent[q].cells) =>
              Starts(sent[q].cells[NextSection(sent[q])])
         /\ \A i \in DOMAIN sent[q].cells :
              i < NextSection(sent[q]) => ~ Starts(sent[q].cells[i])
<1>1. /\ Len(sent[q].cells) \in Nat /\ DOMAIN sent[q].cells = 1 .. Len(sent[q].cells)
      /\ sent[q].ptr \in Nat
  BY SentTypes
<1>2. Pointed(sent[q])
  BY DEF SenderInv, PacketInv
<1>3. CASE sent[q].start
  BY <1>1, <1>2, <1>3 DEF Pointed, NextSection
<1>4. CASE ~ sent[q].start
  BY <1>1, <1>2, <1>4 DEF Pointed, NextSection
<1> QED
  BY <1>3, <1>4

(* What every call of psi_assemble_payload has in common. *)
LEMMA AssembleStep ==
  ASSUME IInv, UNCHANGED <<senderVars, cursor, lost, rx, lastCc>>,
         buf' \in Seq(Cell), out' \in Seq(Seq(Cell)), first' = FALSE,
         pos' \in Nat \ {0}, pos' <= Len(CellsRx) + 1,
         buf' = <<>> /\ pos' <= Len(CellsRx) => CellsRx[pos'].at = 0,
         BufferInv', OutIsGenuine', LastOut' < sec,
         \A i \in DOMAIN CellsRx : i >= pos' /\ Starts(CellsRx[i]) => LastOut' < CellsRx[i].sec,
         \A i \in DOMAIN pkt.cells : Starts(pkt.cells[i]) => LastOut' < pkt.cells[i].sec,
         \A q \in rx + 1 .. Len(sent) : \A i \in DOMAIN sent[q].cells :
           Starts(sent[q].cells[i]) => LastOut' < sent[q].cells[i].sec
  PROVE  IInv'
<1>1. TypeOK /\ SenderInv /\ CrossInv /\ OrderInv /\ ReadingInv
  BY DEF IInv, TransportInv
<1>2. /\ size' = size /\ sec' = sec /\ off' = off /\ pkt' = pkt /\ sent' = sent
      /\ cursor' = cursor /\ lost' = lost /\ rx' = rx /\ lastCc' = lastCc
  BY DEF senderVars
<1>3. CellsRx' = CellsRx
  BY <1>2 DEF CellsRx
<1>4. SenderInv' /\ CrossInv' /\ OrderInv'
  BY <1>1, SenderKept
<1>5. TypeOK'
  BY <1>1, <1>2 DEF TypeOK
<1>6. /\ (lastCc = IF rx = 0 THEN -1 ELSE (rx - 1) % CCMod)'
      /\ (cursor - rx <= MaxLoss)'
  BY <1>1, <1>2 DEF ReadingInv
<1>7. /\ (pos <= Len(CellsRx) + 1)'
      /\ (first => buf # <<>> /\ pos = 1)'
      /\ (LastOut < sec)'
  BY <1>2, <1>3
<1>8. (buf = <<>> /\ ~ Idle => CellsRx[pos].at = 0)'
  <2>1. Len(CellsRx) \in Nat
    BY <1>1, ReceiverTypes
  <2>2. ~ Idle' => pos' <= Len(CellsRx)
    BY <1>3, <2>1 DEF Idle
  <2> QED
    BY <1>3, <2>2
<1>9. (\A i \in DOMAIN CellsRx : i >= pos /\ Starts(CellsRx[i]) => LastOut < CellsRx[i].sec)'
  BY <1>3 DEF Starts
<1>10. (\A p \in {pkt} \cup {sent[q] : q \in rx + 1 .. Len(sent)} :
         \A i \in DOMAIN p.cells : Starts(p.cells[i]) => LastOut < p.cells[i].sec)'
  BY <1>2 DEF Starts
<1>11. ReadingInv'
  BY <1>6, <1>7, <1>8, <1>9, <1>10 DEF ReadingInv
<1> QED
  BY <1>4, <1>5, <1>11 DEF IInv, TransportInv

(* The part of ReadingInv about what is still to come, by where it is. *)
LEMMA StillAhead ==
  ASSUME ReadingInv
  PROVE  /\ LastOut < sec
         /\ \A i \in DOMAIN CellsRx : i >= pos /\ Starts(CellsRx[i]) => LastOut < CellsRx[i].sec
         /\ \A i \in DOMAIN pkt.cells : Starts(pkt.cells[i]) => LastOut < pkt.cells[i].sec
         /\ \A q \in rx + 1 .. Len(sent) : \A i \in DOMAIN sent[q].cells :
              Starts(sent[q].cells[i]) => LastOut < sent[q].cells[i].sec
BY DEF ReadingInv

(* A call that hands nothing out and leaves no section in the buffer. *)
LEMMA DroppedStep ==
  ASSUME IInv, ~ Idle, UNCHANGED <<senderVars, cursor, lost, rx, lastCc, out>>,
         buf' = <<>>, first' = FALSE, pos' = ReadFrom(EndOfPacket)
  PROVE  IInv'
<1>1. TypeOK /\ SenderInv /\ ReadingInv /\ OutIsGenuine
  BY DEF IInv, TransportInv
<1>2. /\ Len(CellsRx) \in Nat /\ DOMAIN CellsRx = 1 .. Len(CellsRx)
      /\ pos \in Nat /\ pos >= 1 /\ pos <= Len(CellsRx) /\ first \in BOOLEAN
  BY <1>1, ReceiverTypes DEF Idle
<1>3. rx \in DOMAIN sent /\ CellsRx = sent[rx].cells
  BY <1>1, <1>2, ReceiverTypes, EmptySeq
<1>4. LastOut' = LastOut
  BY DEF LastOut
<1>5. /\ pos' \in Nat \ {0} /\ pos' <= Len(CellsRx) + 1
      /\ pos' <= Len(CellsRx) => CellsRx[pos'].at = 0
      /\ \A i \in DOMAIN CellsRx : i >= pos' => i >= pos
  <2>1. CASE first
    <3>1. pos' = NextSection(sent[rx]) /\ pos = 1
      BY <1>1, <2>1 DEF ReadFrom, ReadingInv
    <3> QED
      BY <1>1, <1>2, <1>3, <3>1, NextSectionFacts DEF Starts
  <2>2. CASE ~ first
    <3>1. pos' = Len(CellsRx) + 1
      BY <2>2 DEF ReadFrom, EndOfPacket
    <3> QED
      BY <1>2, <3>1
  <2> QED
    BY <2>1, <2>2
<1>6. BufferInv'
  BY DEF BufferInv
<1>7. OutIsGenuine'
  BY <1>1 DEF OutIsGenuine, Section, Bytes, senderVars
<1>8. buf' \in Seq(Cell) /\ out' \in Seq(Seq(Cell))
  BY <1>1, EmptySeq DEF TypeOK
<1> QED
  BY <1>1, <1>4, <1>5, <1>6, <1>7, <1>8, StillAhead, AssembleStep

LEMMA StuffingStep ==
  ASSUME IInv, AssembleStuffing, UNCHANGED <<senderVars, cursor, lost>>
  PROVE  IInv'
<1>1. ~ Idle /\ buf' = <<>> /\ first' = FALSE /\ pos' = ReadFrom(EndOfPacket)
  BY DEF AssembleStuffing
<1>2. UNCHANGED <<senderVars, cursor, lost, rx, lastCc, out>>
  BY DEF AssembleStuffing
<1> QED
  BY <1>1, <1>2, DroppedStep

LEMMA InvalidStep ==
  ASSUME IInv, AssembleInvalid, UNCHANGED <<senderVars, cursor, lost>>
  PROVE  IInv'
<1>1. ~ Idle /\ buf' = <<>> /\ first' = FALSE /\ pos' = ReadFrom(EndOfPacket)
  BY DEF AssembleInvalid, Assembling
<1>2. UNCHANGED <<senderVars, cursor, lost, rx, lastCc, out>>
  BY DEF AssembleInvalid
<1> QED
  BY <1>1, <1>2, DroppedStep

(* The section goes on in the next packet: the whole of this one was its.  *)
LEMMA MoreStep ==
  ASSUME IInv, AssembleMore, UNCHANGED <<senderVars, cursor, lost>>
  PROVE  IInv'
<1> DEFINE h == Len(buf)
           m == Copied
           l == Len(CellsRx)
<1>1. TypeOK /\ SenderInv /\ ReadingInv /\ OutIsGenuine
  BY DEF IInv, TransportInv
<1>2. PICK k \in 1 .. N : Reads(k)
  BY AssemblingReads DEF AssembleMore
<1>3. /\ h \in Nat /\ l \in Nat /\ pos \in Nat /\ pos >= 1 /\ pos <= l
      /\ DOMAIN CellsRx = 1 .. l /\ first \in BOOLEAN
  BY <1>1, <1>2, ReceiverTypes DEF Reads
<1>4. /\ size[k] \in Nat /\ Hdr <= size[k] /\ size[k] <= MaxPrivate + Hdr
      /\ Hdr \in Nat \ {0} /\ MaxPrivate \in Nat
  BY <1>1, SizeBounds, TransportAssumption DEF TypeOK
<1>5. /\ m \in Nat \ {0} /\ pos + m <= l + 1 /\ h + m <= MaxPrivate + Hdr
      /\ pos + m = l + 1 \/ h + m = MaxPrivate + Hdr
      /\ Filled \in Seq(Cell) /\ Len(Filled) = h + m
  BY <1>2, FilledFacts
<1>6. \A j \in 0 .. m - 1 : h + j < size[k] => CellsRx[pos + j] = [sec |-> k, at |-> h + j]
  BY <1>2, FilledFacts
<1>7. \A i \in 1 .. h + m : i <= size[k] => Filled[i] = [sec |-> k, at |-> i - 1]
  BY <1>2, <1>5, FilledFacts
<1>8. h + m < size[k] /\ (h + m >= Hdr => size[k] <= MaxPrivate)
  <2>1. CASE h + m >= Hdr
    <3>1. DeclaredSizes(Filled) = {size[k]}
      BY <1>2, <1>5, <2>1, FilledFacts
    <3>2. \E s \in DeclaredSizes(Filled) : s <= MaxPrivate /\ s > Len(Filled)
      BY <1>5, <2>1 DEF AssembleMore
    <3> QED
      BY <1>3, <1>4, <1>5, <3>1, <3>2
  <2>2. CASE ~ h + m >= Hdr
    BY <1>3, <1>4, <1>5, <2>2
  <2> QED
    BY <2>1, <2>2
<1>9. /\ buf' = Filled /\ pos' = ReadFrom(pos + m) /\ first' = FALSE
      /\ rx' = rx /\ lastCc' = lastCc /\ out' = out /\ size' = size /\ sent' = sent
  BY DEF AssembleMore, senderVars
<1>10. rx \in DOMAIN sent /\ CellsRx = sent[rx].cells /\ LastOut < k
  BY <1>2 DEF Reads
<1>11. first => pos = 1 /\ h > 0
  BY <1>2 DEF Reads
<1> HIDE DEF h, m, l
<1>12. pos + m = l + 1
  BY <1>3, <1>4, <1>5, <1>8
<1>13. pos' = l + 1
  <2>1. CASE ~ first
    BY <1>9, <1>12, <2>1 DEF ReadFrom
  <2>2. CASE first
    <3> DEFINE x == NextSection(sent[rx])
    <3>1. /\ x \in Nat \ {0} /\ x <= l + 1
          /\ x <= l => Starts(CellsRx[x])
      BY <1>1, <1>10, NextSectionFacts DEF l
    <3>2. pos' = x
      BY <1>9, <2>2 DEF ReadFrom
    <3> HIDE DEF x
    <3>3. ASSUME x <= l
          PROVE  FALSE
      <4>1. x - 1 \in 0 .. m - 1 /\ pos + (x - 1) = x /\ h + (x - 1) < size[k]
        BY <1>3, <1>4, <1>5, <1>8, <1>11, <1>12, <2>2, <3>1, <3>3
      <4>2. CellsRx[pos + (x - 1)] = [sec |-> k, at |-> h + (x - 1)]
        BY <1>6, <4>1
      <4>3. CellsRx[x].at = h + (x - 1)
        BY <4>1, <4>2
      <4> QED
        BY <1>3, <1>11, <2>2, <3>1, <3>3, <4>3 DEF Starts
    <3> QED
      BY <1>3, <3>1, <3>2, <3>3
  <2> QED
    BY <1>3, <2>1, <2>2
<1>14. CellsRx' = CellsRx /\ LastOut' = LastOut
  BY <1>9 DEF CellsRx, LastOut
<1>15. buf' = Bytes(k, 0, h + m) /\ Len(buf') = h + m /\ buf'[1].sec = k
  <2>1. \A i \in 1 .. h + m : Filled[i] = [sec |-> k, at |-> i - 1]
    BY <1>3, <1>4, <1>5, <1>7, <1>8
  <2>2. Filled = Bytes(k, 0, h + m)
    BY <1>3, <1>5, <2>1, BytesEqual
  <2>3. 1 \in 1 .. h + m
    BY <1>3, <1>5
  <2>4. Filled[1].sec = k
    <3>1. Filled[1] = [sec |-> k, at |-> 1 - 1]
      BY <2>1, <2>3
    <3> QED
      BY <3>1
  <2> QED
    BY <1>5, <1>9, <2>2, <2>4
<1>16. BufferInv'
  <2>1. LastCell(CellsRx) = [sec |-> k, at |-> h + m - 1]
    <3>1. m - 1 \in 0 .. m - 1 /\ pos + (m - 1) = l /\ h + (m - 1) = h + m - 1
          /\ h + (m - 1) < size[k]
      BY <1>3, <1>4, <1>5, <1>8, <1>12
    <3>2. CellsRx[pos + (m - 1)] = [sec |-> k, at |-> h + (m - 1)]
      BY <1>6, <3>1
    <3> QED
      BY <3>1, <3>2 DEF LastCell, l
  <2>2. Idle'
    BY <1>3, <1>13, <1>14 DEF Idle, l
  <2>3. LastCell(CellsRx)' = [sec |-> k, at |-> h + m - 1]
    BY <1>14, <2>1 DEF LastCell
  <2>4. rx' > 0
    BY <1>1, <1>9, <1>10, SenderTypes
  <2>5. Bytes(k, 0, Len(buf))' = Bytes(k, 0, h + m)
    BY <1>15 DEF Bytes
  <2>6. /\ k < N + 1 /\ Len(buf') < size'[k] /\ (Len(buf') >= Hdr => size'[k] <= MaxPrivate)
        /\ LastOut' < k /\ buf' = Bytes(k, 0, Len(buf'))
    BY <1>8, <1>9, <1>10, <1>14, <1>15, TransportAssumption
  <2>7. (LastCell(CellsRx) = [sec |-> k, at |-> Len(buf) - 1])'
    <3>1. Len(buf') = h + m
      BY <1>15
    <3> QED
      BY <1>3, <1>5, <2>3, <3>1
  <2> QED
    BY <1>9, <1>15, <2>2, <2>4, <2>6, <2>7 DEF BufferInv, Bytes
<1>17. OutIsGenuine'
  BY <1>1, <1>9 DEF OutIsGenuine, Section, Bytes
<1>18. buf' \in Seq(Cell) /\ out' \in Seq(Seq(Cell)) /\ buf' # <<>>
  <2>1. h + m # 0
    BY <1>3, <1>5
  <2> QED
    BY <1>1, <1>5, <1>9, <2>1, EmptySeq DEF TypeOK
<1>19. /\ pos' \in Nat \ {0} /\ pos' <= Len(CellsRx) + 1 /\ ~ pos' <= Len(CellsRx)
       /\ \A i \in DOMAIN CellsRx : ~ i >= pos'
  BY <1>3, <1>13 DEF l
<1>20. UNCHANGED <<senderVars, cursor, lost, rx, lastCc>>
  BY <1>9
<1> QED
  BY <1>1, <1>9, <1>14, <1>16, <1>17, <1>18, <1>19, <1>20, StillAhead, AssembleStep

(* The section is whole: it is the one that was sent, and the next to come *)
(* out is a later one.                                                     *)
LEMMA WholeStep ==
  ASSUME IInv, AssembleWhole, UNCHANGED <<senderVars, cursor, lost>>
  PROVE  /\ IInv'
         /\ \E k \in LastOut + 1 .. sec - 1 :
              /\ Reads(k)
              /\ pos' = ReadFrom(pos + (size[k] - Len(buf)))
              /\ LastOut' = k /\ out' = Append(out, Section(k))
<1> DEFINE h == Len(buf)
           m == Copied
           l == Len(CellsRx)
<1>1. TypeOK /\ SenderInv /\ OrderInv /\ ReadingInv /\ OutIsGenuine
  BY DEF IInv, TransportInv
<1>2. PICK k \in 1 .. N : Reads(k)
  BY AssemblingReads DEF AssembleWhole
<1> DEFINE s == size[k]
<1>3. /\ h \in Nat /\ l \in Nat /\ pos \in Nat /\ pos >= 1 /\ pos <= l
      /\ DOMAIN CellsRx = 1 .. l /\ first \in BOOLEAN
  BY <1>1, <1>2, ReceiverTypes DEF Reads
<1>4. s \in Nat /\ 1 <= s /\ h < s
  BY <1>1, <1>2, SizeBounds DEF TypeOK, Reads
<1>5. /\ m \in Nat \ {0} /\ pos + m <= l + 1
      /\ Filled \in Seq(Cell) /\ Len(Filled) = h + m
  BY <1>2, FilledFacts
<1>6. \A j \in 0 .. m - 1 : h + j < s => CellsRx[pos + j] = [sec |-> k, at |-> h + j]
  BY <1>2, FilledFacts
<1>7. \A i \in 1 .. h + m : i <= s => Filled[i] = [sec |-> k, at |-> i - 1]
  BY <1>2, <1>5, FilledFacts
<1>8. /\ s <= h + m
      /\ out' = Append(out, SubSeq(Filled, 1, s))
      /\ pos' = ReadFrom(pos + m - (h + m - s))
  <2>1. DeclaredSizes(Filled) = {s}
    BY <1>2, FilledFacts DEF AssembleWhole
  <2>2. PICK t \in DeclaredSizes(Filled) :
          /\ t <= Len(Filled)
          /\ out' = Append(out, SubSeq(Filled, 1, t))
          /\ pos' = ReadFrom(pos + m - (Len(Filled) - t))
    BY DEF AssembleWhole
  <2>3. t = s /\ Len(Filled) = h + m
    BY <1>5, <2>1, <2>2
  <2> HIDE DEF h, m, s
  <2> QED
    BY <1>3, <1>4, <1>5, <2>2, <2>3
<1>9. /\ buf' = <<>> /\ first' = FALSE
      /\ rx' = rx /\ lastCc' = lastCc /\ size' = size /\ sent' = sent /\ sec' = sec
  BY DEF AssembleWhole, senderVars
<1>10. rx \in DOMAIN sent /\ CellsRx = sent[rx].cells /\ LastOut < k
  BY <1>2 DEF Reads
<1>11. first => pos = 1 /\ h > 0
  BY <1>2 DEF Reads
<1>12. CellsRx' = CellsRx
  BY <1>9 DEF CellsRx
<1> HIDE DEF h, m, l, s
<1>13. SubSeq(Filled, 1, s) = Section(k) /\ Section(k) \in Seq(Cell)
       /\ Section(k) # <<>> /\ Section(k)[1].sec = k
  <2> DEFINE f == SubSeq(Filled, 1, s)
  <2>1. \A i \in 1 .. s : Filled[i] \in Cell
    BY <1>3, <1>4, <1>5, <1>8, ElementOfSeq
  <2>2. f \in Seq(Cell) /\ Len(f) = s /\ \A i \in 1 .. s : f[i] = Filled[i]
    BY <1>4, <2>1, SubSeqProperties
  <2> HIDE DEF f
  <2>3. ASSUME NEW i \in 1 .. s
        PROVE  f[i] = [sec |-> k, at |-> i - 1]
    <3>1. i \in 1 .. h + m /\ i <= s
      BY <1>3, <1>4, <1>5, <1>8
    <3> QED
      BY <1>7, <2>2, <3>1
  <2>4. f = Bytes(k, 0, s)
    BY <1>4, <2>2, <2>3, BytesEqual
  <2>5. f # <<>> /\ f[1].sec = k
    BY <1>4, <2>2, <2>3, EmptySeq
  <2> QED
    BY <2>2, <2>4, <2>5 DEF f, Section, s
<1>14. /\ out \in Seq(Seq(Cell)) /\ Len(out) \in Nat /\ DOMAIN out = 1 .. Len(out)
       /\ (out # <<>> <=> Len(out) > 0)
  BY <1>1, EmptySeq, LenProperties DEF TypeOK
<1>15. /\ out' = Append(out, Section(k))
       /\ out' \in Seq(Seq(Cell)) /\ Len(out') = Len(out) + 1
       /\ DOMAIN out' = 1 .. Len(out) + 1
       /\ \A i \in 1 .. Len(out) : out'[i] = out[i]
       /\ out'[Len(out) + 1] = Section(k)
  <2> DEFINE e == Section(k)
  <2>1. e \in Seq(Cell) /\ out' = Append(out, e)
    BY <1>8, <1>13
  <2> HIDE DEF e
  <2>2. /\ out' \in Seq(Seq(Cell)) /\ Len(out') = Len(out) + 1
        /\ \A i \in 1 .. Len(out) : out'[i] = out[i]
        /\ out'[Len(out) + 1] = e
    BY <1>14, <2>1
  <2>3. DOMAIN out' = 1 .. Len(out) + 1
    BY <2>2, LenProperties
  <2> QED
    BY <2>1, <2>2, <2>3 DEF e
<1>16. LastOut' = k
  <2>1. out' # <<>>
    BY <1>14, <1>15, EmptySeq
  <2> QED
    BY <1>13, <1>15, <2>1 DEF LastOut
<1>17. LastOut \in Nat /\ k \in Nat /\ sec \in Nat /\ off \in Nat
  BY <1>1, LastOutType, TransportAssumption DEF TypeOK
<1>18. k < sec
  <2> DEFINE j == s - h - 1
  <2>1. j \in 0 .. m - 1 /\ h + j < s /\ h + j = s - 1 /\ pos + j \in DOMAIN CellsRx
    BY <1>3, <1>4, <1>5, <1>8
  <2> HIDE DEF j
  <2>2. CellsRx[pos + j] = [sec |-> k, at |-> s - 1]
    BY <1>6, <2>1
  <2>3. Written(CellsRx)
    BY <1>1, <1>10 DEF SenderInv, PacketInv
  <2>4. CellsRx[pos + j].sec = k /\ CellsRx[pos + j].at = s - 1 /\ k # 0
    BY <2>2
  <2>5. k < sec \/ (k = sec /\ s - 1 < off)
    BY <2>1, <2>3, <2>4 DEF Written
  <2>6. off > 0 => off < size[sec]
    BY <1>1 DEF SenderInv
  <2> QED
    BY <1>4, <1>17, <2>5, <2>6 DEF s
<1>19. /\ pos' \in Nat \ {0} /\ pos' <= l + 1
       /\ pos' <= l => CellsRx[pos'].at = 0
       /\ \A i \in DOMAIN CellsRx : i >= pos' /\ Starts(CellsRx[i]) => i > pos
  <2>1. CASE first
    <3> DEFINE x == NextSection(sent[rx])
    <3>1. x \in Nat \ {0} /\ x <= l + 1 /\ (x <= l => Starts(CellsRx[x]))
      BY <1>1, <1>10, NextSectionFacts DEF l
    <3>2. pos' = x /\ pos = 1 /\ h > 0
      BY <1>8, <1>11, <2>1 DEF ReadFrom
    <3> HIDE DEF x
    <3>3. CellsRx[1].at = h
      <4>1. 0 \in 0 .. m - 1 /\ pos + 0 = 1 /\ h + 0 = h /\ h + 0 < s
        BY <1>3, <1>4, <1>5, <3>2
      <4>2. CellsRx[pos + 0] = [sec |-> k, at |-> h + 0]
        BY <1>6, <4>1
      <4> QED
        BY <4>1, <4>2
    <3> QED
      BY <1>3, <3>1, <3>2, <3>3 DEF Starts
  <2>2. CASE ~ first
    <3>1. pos' = pos + (s - h)
      BY <1>3, <1>4, <1>5, <1>8, <2>2 DEF ReadFrom
    <3>2. pos' \in Nat \ {0} /\ pos' <= l + 1 /\ pos' > pos
      BY <1>3, <1>4, <1>5, <1>8, <3>1
    <3>3. ASSUME pos' <= l
          PROVE  CellsRx[pos'].at = 0
      <4> DEFINE j == s - h - 1
      <4>1. j \in 0 .. m - 1 /\ h + j < s /\ h + j = s - 1 /\ pos + j = pos' - 1
        <5>1. s <= h + m
          BY <1>8
        <5> QED
          BY <1>3, <1>4, <1>5, <3>1, <5>1
      <4> HIDE DEF j
      <4>2. CellsRx[pos + j] = [sec |-> k, at |-> s - 1]
        BY <1>6, <4>1
      <4>3. CellsRx[pos' - 1].sec = k /\ CellsRx[pos' - 1].at = s - 1
        BY <4>1, <4>2
      <4>4. Ends(CellsRx[pos' - 1])
        BY <4>3 DEF Ends, s
      <4>5. Linked(CellsRx)
        BY <1>1, <1>10 DEF SenderInv, PacketInv
      <4>6. pos' - 1 \in DOMAIN CellsRx /\ pos' - 1 < Len(CellsRx) /\ (pos' - 1) + 1 = pos'
        <5>1. Len(CellsRx) = l
          BY DEF l
        <5>2. pos' \in Nat /\ pos' > 1 /\ l \in Nat
          BY <1>3, <3>2
        <5>2a. pos' <= l
          BY <3>3
        <5>3. pos' - 1 \in 1 .. l /\ pos' - 1 < l /\ (pos' - 1) + 1 = pos'
          <6> DEFINE x == pos'
          <6>1. x \in Nat /\ x > 1 /\ l \in Nat /\ x <= l
            BY <5>2, <5>2a
          <6> HIDE DEF x
          <6>2. x - 1 \in 1 .. l /\ x - 1 < l /\ (x - 1) + 1 = x
            BY <6>1
          <6> QED
            BY <6>2 DEF x
        <5> QED
          BY <1>3, <5>1, <5>3
      <4> QED
        BY <4>4, <4>5, <4>6 DEF Linked, Link
    <3> QED
      BY <1>3, <3>2, <3>3
  <2> QED
    BY <1>3, <2>1, <2>2
<1>20. BufferInv'
  BY <1>9 DEF BufferInv
<1>21. OutIsGenuine'
  <2>1. ASSUME NEW i \in 1 .. Len(out) + 1
        PROVE  out'[i] # <<>> /\ (out'[i] = Section(out[i][1].sec)')
    <3>1. CASE i <= Len(out)
      <4>1. i \in DOMAIN out /\ out'[i] = out[i]
        BY <1>14, <1>15, <3>1
      <4>2. out[i] # <<>> /\ out[i] = Section(out[i][1].sec)
        BY <1>1, <4>1 DEF OutIsGenuine
      <4> QED
        BY <1>9, <4>1, <4>2 DEF Section, Bytes
    <3>2. CASE i = Len(out) + 1
      <4>1. out'[i] = Section(k) /\ out'[i][1].sec = k
        BY <1>13, <1>15, <3>2
      <4> QED
        BY <1>9, <1>13, <4>1 DEF Section, Bytes
    <3> QED
      BY <1>14, <3>1, <3>2
  <2>2. ASSUME NEW i \in 1 .. Len(out) + 1, NEW j \in 1 .. Len(out) + 1, i < j
        PROVE  out'[i][1].sec < out'[j][1].sec
    <3>1. i \in DOMAIN out /\ out'[i] = out[i]
      BY <1>14, <1>15, <2>2
    <3>2. CASE j <= Len(out)
      <4>1. j \in DOMAIN out /\ out'[j] = out[j]
        BY <1>14, <1>15, <3>2
      <4> QED
        BY <1>1, <2>2, <3>1, <4>1 DEF OutIsGenuine
    <3>3. CASE j = Len(out) + 1
      <4>1. out'[j][1].sec = k /\ out # <<>> /\ LastOut = out[Len(out)][1].sec
        BY <1>13, <1>14, <1>15, <3>1, <3>3 DEF LastOut
      <4>2. CASE i = Len(out)
        BY <1>10, <3>1, <4>1, <4>2
      <4>3. CASE i # Len(out)
        <5>1. i < Len(out) /\ Len(out) \in DOMAIN out
          BY <1>14, <3>1, <4>1, <4>3
        <5>2. out[i][1].sec < LastOut
          BY <1>1, <3>1, <4>1, <5>1 DEF OutIsGenuine
        <5>3. out[i][1].sec \in Nat
          <6>1. out[i] \in Seq(Cell) /\ out[i] # <<>>
            BY <1>1, <1>14, <3>1, ElementOfSeq DEF OutIsGenuine
          <6>2. 1 \in 1 .. Len(out[i])
            BY <6>1, EmptySeq
          <6>3. out[i][1] \in Cell
            BY <6>1, <6>2, ElementOfSeq
          <6> QED
            BY <6>3 DEF Cell
        <5> QED
          BY <1>10, <1>17, <3>1, <4>1, <5>2, <5>3
      <4> QED
        BY <4>2, <4>3
    <3> QED
      BY <1>14, <3>2, <3>3
  <2> QED
    BY <1>15, <2>1, <2>2 DEF OutIsGenuine
<1>22. CellsRx[pos].sec = k /\ pos \in DOMAIN CellsRx
  <2>1. CellsRx[pos] = [sec |-> k, at |-> Len(buf)]
    BY <1>2 DEF Reads
  <2> QED
    BY <1>3, <2>1
<1>23. \A i \in DOMAIN CellsRx : i >= pos' /\ Starts(CellsRx[i]) => k < CellsRx[i].sec
  BY <1>1, <1>10, <1>19, <1>22 DEF OrderInv
<1>24. \A i \in DOMAIN pkt.cells : Starts(pkt.cells[i]) => k < pkt.cells[i].sec
  BY <1>1, <1>10, <1>22 DEF OrderInv, Precede
<1>25. ASSUME NEW q \in rx + 1 .. Len(sent), NEW i \in DOMAIN sent[q].cells, Starts(sent[q].cells[i])
       PROVE  k < sent[q].cells[i].sec
  <2>1. q \in DOMAIN sent /\ rx < q
    BY <1>1, <1>10, SenderTypes
  <2> QED
    BY <1>1, <1>10, <1>22, <1>25, <2>1 DEF OrderInv, Precede
<1>26. buf' \in Seq(Cell) /\ pos' <= Len(CellsRx) + 1 /\ (pos' <= Len(CellsRx) => CellsRx[pos'].at = 0)
  BY <1>9, <1>19, EmptySeq DEF l
<1>27. UNCHANGED <<senderVars, cursor, lost, rx, lastCc>>
  BY <1>9
<1>28. IInv'
  BY <1>9, <1>15, <1>16, <1>18, <1>19, <1>20, <1>21, <1>23, <1>24, <1>25, <1>26, <1>27, AssembleStep
<1>29. k \in LastOut + 1 .. sec - 1
  BY <1>10, <1>17, <1>18
<1>30. pos' = ReadFrom(pos + (size[k] - Len(buf)))
  <2>1. pos + m - (h + m - s) = pos + (s - h)
    BY <1>3, <1>4, <1>5
  <2> QED
    BY <1>8, <2>1 DEF h, s
<1> QED
  BY <1>2, <1>15, <1>16, <1>28, <1>29, <1>30

(* While handle_psi_packet waits for a packet, nothing is left to continue *)
(* in the one it has handled.                                              *)
LEMMA IdleNotFirst ==
  ASSUME TypeOK, SenderInv, BufferInv, ReadingInv, Idle
  PROVE  ~ first
<1> SUFFICES ASSUME first
             PROVE  FALSE
  OBVIOUS
<1>1. buf # <<>> /\ pos = 1
  BY DEF ReadingInv
<1>2. rx > 0
  BY <1>1 DEF BufferInv
<1>3. Len(CellsRx) \in Nat \ {0}
  BY <1>2, ReceiverTypes
<1> QED
  BY <1>1, <1>3 DEF Idle

(* What becomes of the buffer when packet q arrives. *)
BufferAt(q) == IF Discontinuity(sent[q].cc) THEN <<>> ELSE buf

(* A packet that arrives after fewer losses than the counter has values is *)
(* new; it is taken for the next one only if it is.                        *)
LEMMA Arrival ==
  ASSUME IInv, Arrive
  PROVE  LET q == cursor + 1 IN
         /\ q \in DOMAIN sent /\ q >= rx + 1
         /\ sent[q].cc = (q - 1) % CCMod /\ sent[q].cc \in 0 .. CCMod - 1
         /\ rx' = q /\ lastCc' = sent[q].cc
         /\ buf' = BufferAt(q) /\ first' = (BufferAt(q) # <<>>)
         /\ pos' = (IF BufferAt(q) # <<>> THEN 1 ELSE NextSection(sent[q]))
         /\ out' = out /\ lost' = lost /\ cursor' = cursor + 1
         /\ size' = size /\ sec' = sec /\ off' = off /\ pkt' = pkt /\ sent' = sent
         /\ BufferAt(q) # <<>> => BufferAt(q) = buf /\ rx > 0 /\ q = rx + 1
<1> DEFINE q == cursor + 1
           kept == BufferAt(q)
<1>1. TypeOK /\ SenderInv /\ CrossInv /\ OrderInv /\ BufferInv /\ ReadingInv /\ OutIsGenuine
  BY DEF IInv, TransportInv
<1>2. Idle /\ cursor < Len(sent) /\ cursor' = cursor + 1 /\ UNCHANGED <<senderVars, lost>>
  BY DEF Arrive
<1>3. /\ rx \in Nat /\ cursor \in Nat /\ rx <= cursor /\ Len(sent) \in Nat
      /\ q \in DOMAIN sent /\ q >= rx + 1 /\ CCMod \in Nat \ {0}
      /\ (rx > 0 => rx \in DOMAIN sent)
  BY <1>1, <1>2, ReceiverTypes, SenderTypes, TransportAssumption
<1>4. cursor - rx <= MaxLoss /\ MaxLoss \in 0 .. CCMod - 2
  BY <1>1, TransportAssumption DEF ReadingInv
<1>5. sent[q].cc = (q - 1) % CCMod /\ sent[q].cc \in 0 .. CCMod - 1
  BY <1>1, <1>3, SentTypes DEF SenderInv
<1>6. lastCc = IF rx = 0 THEN -1 ELSE (rx - 1) % CCMod
  BY <1>1 DEF ReadingInv
<1>7. sent[q].cc # lastCc
  <2>1. CASE rx = 0
    BY <1>5, <1>6, <2>1
  <2>2. CASE rx # 0
    <3>1. rx - 1 \in Nat /\ q - rx \in 1 .. CCMod - 1 /\ (rx - 1) + (q - rx) = q - 1
      BY <1>3, <1>4, <2>2
    <3>2. (rx - 1) % CCMod # ((rx - 1) + (q - rx)) % CCMod
      BY ONLY <1>3, <3>1, CountersDiffer
    <3> QED
      BY <1>5, <1>6, <2>2, <3>1, <3>2
  <2> QED
    BY <2>1, <2>2
<1>8. ReceiveNew(q)
  BY <1>2, <1>7 DEF Arrive, Receive, ReceiveDuplicate
<1>9. /\ rx' = q /\ lastCc' = sent[q].cc /\ buf' = kept /\ first' = (kept # <<>>)
      /\ pos' = (IF kept # <<>> THEN 1 ELSE NextSection(sent[q])) /\ out' = out
      /\ size' = size /\ sec' = sec /\ off' = off /\ pkt' = pkt /\ sent' = sent
      /\ lost' = lost /\ cursor' = cursor + 1
  BY <1>2, <1>8 DEF ReceiveNew, senderVars, BufferAt
<1>10. ASSUME kept # <<>>
       PROVE  kept = buf /\ rx > 0 /\ q = rx + 1
  <2>1. kept = buf /\ ~ Discontinuity(sent[q].cc)
    BY <1>10 DEF BufferAt
  <2>2. rx > 0
    BY <1>1, <1>10, <2>1 DEF BufferInv
  <2>3. lastCc = (rx - 1) % CCMod /\ rx - 1 \in Nat
    BY <1>3, <1>6, <2>2
  <2>4. lastCc # -1
    <3>1. rx - 1 \in Int
      BY <1>3
    <3>2. (rx - 1) % CCMod \in 0 .. CCMod - 1
      BY ONLY <1>3, <3>1, Division
    <3> QED
      BY <2>3, <3>2
  <2>5. (lastCc + CCMod + 1 - sent[q].cc) % CCMod = 0
    BY <2>1, <2>4 DEF Discontinuity
  <2>6. q - rx \in 1 .. CCMod - 1 /\ (rx - 1) + (q - rx) = q - 1
    BY <1>3, <1>4, <2>2
  <2>7. (((rx - 1) % CCMod) + CCMod + 1 - (((rx - 1) + (q - rx)) % CCMod)) % CCMod = 0
    BY <1>5, <2>3, <2>5, <2>6
  <2>8. q - rx = 1
    BY ONLY <1>3, <2>3, <2>6, <2>7, ContinuousIsNext
  <2> QED
    BY <1>3, <2>1, <2>2, <2>8
<1> QED
  BY <1>3, <1>5, <1>9, <1>10

LEMMA ArriveStep ==
  ASSUME IInv, Arrive
  PROVE  IInv'
<1> DEFINE q == cursor + 1
           kept == BufferAt(q)
           x == NextSection(sent[q])
           l == Len(sent[q].cells)
<1>1. TypeOK /\ SenderInv /\ CrossInv /\ OrderInv /\ BufferInv /\ ReadingInv /\ OutIsGenuine
  BY DEF IInv, TransportInv
<1>2. Idle /\ cursor < Len(sent) /\ cursor' = cursor + 1 /\ UNCHANGED <<senderVars, lost>>
  BY DEF Arrive
<1>3. /\ rx \in Nat /\ cursor \in Nat /\ rx <= cursor /\ Len(sent) \in Nat
      /\ q \in DOMAIN sent /\ q >= rx + 1 /\ CCMod \in Nat \ {0}
      /\ (rx > 0 => rx \in DOMAIN sent)
  BY <1>1, <1>2, ReceiverTypes, SenderTypes, TransportAssumption
<1>5. sent[q].cc = (q - 1) % CCMod /\ sent[q].cc \in 0 .. CCMod - 1
  BY <1>1, <1>3, SentTypes DEF SenderInv
<1>9. /\ rx' = q /\ lastCc' = sent[q].cc /\ buf' = kept /\ first' = (kept # <<>>)
      /\ pos' = (IF kept # <<>> THEN 1 ELSE x) /\ out' = out
      /\ size' = size /\ sec' = sec /\ off' = off /\ pkt' = pkt /\ sent' = sent
      /\ lost' = lost /\ cursor' = cursor + 1
  BY Arrival
<1>10. /\ x \in Nat \ {0} /\ x <= l + 1 /\ (x <= l => Starts(sent[q].cells[x]))
       /\ l \in Nat \ {0}
  BY <1>1, <1>3, NextSectionFacts, SentTypes
<1>11. ASSUME kept # <<>>
       PROVE  kept = buf /\ rx > 0 /\ q = rx + 1
  BY <1>11, Arrival
<1>12. CellsRx' = sent[q].cells /\ Len(CellsRx') = l /\ LastOut' = LastOut
  <2>1. q # 0
    BY <1>3
  <2> QED
    BY <1>9, <2>1 DEF CellsRx, LastOut
<1> HIDE DEF x, l, kept
<1>13. BufferInv'
  <2> SUFFICES ASSUME kept # <<>>
               PROVE  BufferInv'
    BY <1>9 DEF BufferInv
  <2> DEFINE k == buf[1].sec
  <2>1. kept = buf /\ rx > 0 /\ q = rx + 1 /\ buf # <<>>
    BY <1>11
  <2>2. /\ k \in 1 .. N /\ Len(buf) < size[k]
        /\ Len(buf) >= Hdr => size[k] <= MaxPrivate
        /\ buf = Bytes(k, 0, Len(buf)) /\ LastOut < k
    BY <1>1, <2>1 DEF BufferInv
  <2>3. LastCell(CellsRx) = [sec |-> k, at |-> Len(buf) - 1]
    BY <1>1, <1>2, <2>1, IdleNotFirst DEF BufferInv
  <2>4. CellsRx = sent[rx].cells
    BY <2>1 DEF CellsRx
  <2>5. Link(LastCell(CellsRx), sent[q].cells[1])
    <3>1. rx \in DOMAIN sent /\ rx < Len(sent)
      BY <1>2, <1>3, <2>1
    <3> QED
      BY <1>1, <2>1, <2>4, <3>1 DEF CrossInv
  <2>6. Len(buf) \in Nat /\ size[k] \in Nat
    BY <1>1, <2>2, ReceiverTypes, SizeBounds DEF TypeOK
  <2>7. sent[q].cells[1] = [sec |-> k, at |-> Len(buf)]
    <3> HIDE DEF k
    <3>1. ~ Ends(LastCell(CellsRx)) /\ LastCell(CellsRx).sec = k /\ LastCell(CellsRx).at + 1 = Len(buf)
      BY <2>2, <2>3, <2>6, TransportAssumption DEF Ends
    <3> QED
      BY <2>5, <3>1 DEF Link
  <2>8. rx' > 0 /\ first'
    <3>1. rx' > 0
      BY <1>3, <1>9
    <3>2. first'
      BY ONLY <1>9, kept # <<>>, Zenon
    <3> QED
      BY <3>1, <3>2
  <2> QED
    BY <1>9, <1>12, <2>1, <2>2, <2>7, <2>8 DEF BufferInv, Bytes
<1>14. ReadingInv'
  <2>1. (lastCc = IF rx = 0 THEN -1 ELSE (rx - 1) % CCMod)'
    BY <1>3, <1>5, <1>9
  <2>2. (cursor - rx <= MaxLoss)'
    <3>1. cursor' = cursor + 1 /\ rx' = cursor + 1
      BY <1>9
    <3>2. MaxLoss \in Nat /\ MaxLoss' = MaxLoss
      BY TransportAssumption
    <3>3. cursor' - rx' = 0
      BY ONLY <1>3, <3>1
    <3> QED
      BY ONLY <3>2, <3>3
  <2>3. (pos <= Len(CellsRx) + 1)' /\ (first => buf # <<>> /\ pos = 1)'
    <3>1. pos' \in {1, x}
      BY <1>9
    <3>2. pos' <= Len(CellsRx') + 1
      BY ONLY <1>10, <1>12, <3>1
    <3>3. first' => kept # <<>>
      BY ONLY <1>9, Zenon
    <3>4. kept # <<>> => buf' # <<>> /\ pos' = 1
      BY <1>9
    <3> QED
      BY <3>2, <3>3, <3>4
  <2>4. (buf = <<>> /\ ~ Idle => CellsRx[pos].at = 0)'
    <3> SUFFICES ASSUME (buf = <<>>)', ~ Idle'
                 PROVE  (CellsRx[pos].at = 0)'
      OBVIOUS
    <3>1. pos' = x
      BY <1>9
    <3>2. x <= l
      BY <1>10, <1>12, <3>1 DEF Idle
    <3>3. sent[q].cells[x].at = 0
      BY <1>10, <3>2 DEF Starts
    <3>4. CellsRx'[pos'] = sent[q].cells[x]
      BY ONLY <1>12, <3>1
    <3> QED
      BY <3>3, <3>4
  <2>5. (LastOut < sec)'
    BY <1>1, <1>9, <1>12, StillAhead
  <2>6. q \in rx + 1 .. Len(sent)
    BY <1>2, <1>3
  <2>7. (\A i \in DOMAIN CellsRx : i >= pos /\ Starts(CellsRx[i]) => LastOut < CellsRx[i].sec)'
    BY <1>1, <1>12, <2>6, StillAhead DEF Starts
  <2>8. (\A p \in {pkt} \cup {sent[r] : r \in rx + 1 .. Len(sent)} :
          \A i \in DOMAIN p.cells : Starts(p.cells[i]) => LastOut < p.cells[i].sec)'
    <3>1. \A r \in q + 1 .. Len(sent) : r \in rx + 1 .. Len(sent)
      BY <1>3
    <3> QED
      BY <1>1, <1>9, <1>12, <3>1, StillAhead DEF Starts
  <2> QED
    BY <2>1, <2>2, <2>3, <2>4, <2>5, <2>7, <2>8 DEF ReadingInv
<1>15. OutIsGenuine'
  BY <1>1, <1>9 DEF OutIsGenuine, Section, Bytes
<1>16. TypeOK'
  <2>1. kept \in Seq(Cell)
    BY <1>1, EmptySeq DEF kept, BufferAt, TypeOK
  <2>2. cursor' \in 0 .. Len(sent) /\ rx' \in 0 .. cursor'
    BY <1>2, <1>3, <1>9
  <2>3. lost \subseteq 1 .. cursor'
    BY <1>1, <1>3, <1>9 DEF TypeOK
  <2>4. lastCc' \in -1 .. CCMod - 1
    BY <1>3, <1>5, <1>9
  <2> QED
    BY SMTT(30), <1>1, <1>9, <1>10, <2>1, <2>2, <2>3, <2>4 DEF TypeOK
<1>17. SenderInv' /\ CrossInv' /\ OrderInv'
  BY <1>1, <1>2, SenderKept
<1> QED
  BY <1>13, <1>14, <1>15, <1>16, <1>17 DEF IInv, TransportInv

(* A packet that arrives once more has the counter of the last one. *)
LEMMA RepeatStep ==
  ASSUME IInv, Repeat
  PROVE  IInv'
<1>1. TypeOK /\ SenderInv /\ CrossInv /\ OrderInv /\ BufferInv /\ ReadingInv /\ OutIsGenuine
  BY DEF IInv, TransportInv
<1>2. rx > 0 /\ cursor = rx /\ Idle /\ UNCHANGED <<senderVars, cursor, lost>>
  BY DEF Repeat
<1>3. /\ rx \in DOMAIN sent /\ CellsRx = sent[rx].cells /\ Len(CellsRx) \in Nat
      /\ rx \in Nat
  BY <1>1, <1>2, ReceiverTypes
<1>4. sent[rx].cc = lastCc
  BY <1>1, <1>2, <1>3 DEF SenderInv, ReadingInv
<1>5. ReceiveDuplicate(rx)
  BY <1>4 DEF Repeat, Receive, ReceiveNew
<1>6. /\ rx' = rx /\ pos' = Len(CellsRx) + 1 /\ lastCc' = lastCc /\ buf' = buf
      /\ first' = first /\ out' = out
      /\ size' = size /\ sec' = sec /\ off' = off /\ pkt' = pkt /\ sent' = sent
      /\ lost' = lost /\ cursor' = cursor
  BY <1>2, <1>3, <1>5 DEF ReceiveDuplicate, senderVars
<1>7. CellsRx' = CellsRx /\ LastOut' = LastOut /\ ~ first
  BY <1>1, <1>2, <1>6, IdleNotFirst DEF CellsRx, LastOut
<1>8. Idle' /\ \A i \in DOMAIN CellsRx : ~ i >= pos'
  <2>1. DOMAIN CellsRx = 1 .. Len(CellsRx)
    BY <1>1, ReceiverTypes
  <2> QED
    BY <1>3, <1>6, <1>7, <2>1 DEF Idle
<1>9. BufferInv'
  BY <1>1, <1>2, <1>6, <1>7, <1>8 DEF BufferInv, Bytes, LastCell
<1>10. ReadingInv'
  <2>1. /\ (lastCc = IF rx = 0 THEN -1 ELSE (rx - 1) % CCMod)'
        /\ (cursor - rx <= MaxLoss)'
    BY <1>1, <1>6 DEF ReadingInv
  <2>2. /\ (pos <= Len(CellsRx) + 1)'
        /\ (first => buf # <<>> /\ pos = 1)'
        /\ (buf = <<>> /\ ~ Idle => CellsRx[pos].at = 0)'
        /\ (LastOut < sec)'
    BY <1>1, <1>3, <1>6, <1>7, <1>8, StillAhead
  <2>3. (\A i \in DOMAIN CellsRx : i >= pos /\ Starts(CellsRx[i]) => LastOut < CellsRx[i].sec)'
    BY <1>7, <1>8
  <2>4. (\A p \in {pkt} \cup {sent[q] : q \in rx + 1 .. Len(sent)} :
          \A i \in DOMAIN p.cells : Starts(p.cells[i]) => LastOut < p.cells[i].sec)'
    BY <1>1, <1>6, <1>7, StillAhead DEF Starts
  <2> QED
    BY <2>1, <2>2, <2>3, <2>4 DEF ReadingInv
<1>11. OutIsGenuine'
  BY <1>1, <1>6 DEF OutIsGenuine, Section, Bytes
<1>12. TypeOK'
  BY SMTT(30), <1>1, <1>3, <1>6 DEF TypeOK
<1>13. SenderInv' /\ CrossInv' /\ OrderInv'
  BY <1>1, <1>2, SenderKept
<1> QED
  BY <1>9, <1>10, <1>11, <1>12, <1>13 DEF IInv, TransportInv

LEMMA LoseStep ==
  ASSUME IInv, Lose
  PROVE  IInv'
<1>1. TypeOK /\ SenderInv /\ CrossInv /\ OrderInv /\ BufferInv /\ ReadingInv /\ OutIsGenuine
  BY DEF IInv, TransportInv
<1>2. /\ cursor' = cursor + 1 /\ lost' = lost \cup {cursor + 1}
      /\ cursor < Len(sent) /\ cursor - rx < MaxLoss /\ UNCHANGED <<senderVars, receiverVars>>
  BY DEF Lose
<1>3. /\ rx' = rx /\ pos' = pos /\ lastCc' = lastCc /\ buf' = buf
      /\ first' = first /\ out' = out
      /\ size' = size /\ sec' = sec /\ off' = off /\ pkt' = pkt /\ sent' = sent
  BY <1>2 DEF senderVars, receiverVars
<1>4. rx \in Nat /\ cursor \in Nat /\ rx <= cursor /\ Len(sent) \in Nat /\ MaxLoss \in Nat
  BY <1>1, ReceiverTypes, SenderTypes, TransportAssumption
<1>5. CellsRx' = CellsRx /\ LastOut' = LastOut /\ Idle' = Idle
  BY <1>3 DEF CellsRx, LastOut, Idle
<1>6. BufferInv'
  BY <1>1, <1>3, <1>5 DEF BufferInv, Bytes, LastCell
<1>7. ReadingInv'
  <2>1. (cursor - rx <= MaxLoss)'
    BY <1>2, <1>3, <1>4
  <2>2. /\ (lastCc = IF rx = 0 THEN -1 ELSE (rx - 1) % CCMod)'
        /\ (pos <= Len(CellsRx) + 1)'
        /\ (first => buf # <<>> /\ pos = 1)'
        /\ (buf = <<>> /\ ~ Idle => CellsRx[pos].at = 0)'
        /\ (LastOut < sec)'
    BY <1>1, <1>3, <1>5 DEF ReadingInv
  <2>3. (\A i \in DOMAIN CellsRx : i >= pos /\ Starts(CellsRx[i]) => LastOut < CellsRx[i].sec)'
    BY <1>1, <1>3, <1>5, StillAhead DEF Starts
  <2>4. (\A p \in {pkt} \cup {sent[q] : q \in rx + 1 .. Len(sent)} :
          \A i \in DOMAIN p.cells : Starts(p.cells[i]) => LastOut < p.cells[i].sec)'
    BY <1>1, <1>3, <1>5, StillAhead DEF Starts
  <2> QED
    BY <2>1, <2>2, <2>3, <2>4 DEF ReadingInv
<1>8. OutIsGenuine'
  BY <1>1, <1>3 DEF OutIsGenuine, Section, Bytes
<1>9. TypeOK'
  BY <1>1, <1>2, <1>3, <1>4 DEF TypeOK
<1>10. SenderInv' /\ CrossInv' /\ OrderInv'
  BY <1>1, <1>2, SenderKept
<1> QED
  BY <1>6, <1>7, <1>8, <1>9, <1>10 DEF IInv, TransportInv

-----------------------------------------------------------------------------
(* The invariant holds from the start and every step keeps it.             *)

LEMMA InitStep ==
  ASSUME Init
  PROVE  IInv
<1>1. /\ size \in [1 .. N -> Sizes] /\ sec = 1 /\ off = 0 /\ pkt = NoPacket
      /\ sent = <<>> /\ cursor = 0 /\ lost = {} /\ rx = 0 /\ lastCc = -1
      /\ buf = <<>> /\ first = FALSE /\ pos = 1 /\ out = <<>>
  BY DEF Init
<1>2. N \in Nat /\ Cap \in Nat /\ Cap >= 2 /\ CCMod \in Nat /\ CCMod >= 2 /\ MaxLoss \in Nat
  BY TransportAssumption
<1>3. /\ <<>> \in Seq(Cell) /\ Len(<<>>) = 0 /\ DOMAIN <<>> = {}
      /\ sent \in Seq(Packet) /\ out \in Seq(Seq(Cell))
  BY <1>1, EmptySeq
<1>4. pkt.cells = <<>> /\ pkt.start = FALSE /\ pkt.ptr = 0
  BY <1>1 DEF NoPacket
<1>5. Used(pkt) = 0
  BY <1>3, <1>4 DEF Used
<1>6. CellsRx = <<>> /\ LastOut = 0
  BY <1>1 DEF CellsRx, LastOut
<1>7. TypeOK
  <2>1. pkt \in [start : BOOLEAN, ptr : Nat, cells : Seq(Cell)]
    BY <1>1, <1>3 DEF NoPacket
  <2>2. cursor \in 0 .. Len(sent) /\ lost \subseteq 1 .. cursor /\ rx \in 0 .. cursor
    BY <1>1, <1>3
  <2>3. sec \in 1 .. N + 1 /\ lastCc \in -1 .. CCMod - 1
    BY <1>1, <1>2
  <2>4. off \in Nat /\ pos \in Nat \ {0} /\ first \in BOOLEAN /\ buf \in Seq(Cell)
    <3>1. off \in Nat /\ pos \in Nat \ {0} /\ buf \in Seq(Cell)
      BY <1>1, <1>3
    <3>2. first \in BOOLEAN
      BY <1>1, Zenon
    <3> QED
      BY <3>1, <3>2
  <2> QED
    BY ONLY <1>1, <1>3, <2>1, <2>2, <2>3, <2>4 DEF TypeOK
<1>8. SenderInv
  <2>1. PacketInv(pkt)
    BY <1>3, <1>4 DEF PacketInv, Runs, Linked, Pointed, Written
  <2> QED
    BY <1>1, <1>2, <1>3, <1>4, <1>5, <2>1 DEF SenderInv
<1>9. CrossInv
  BY <1>1, <1>3 DEF CrossInv
<1>10. OrderInv
  BY <1>1, <1>3, <1>4 DEF OrderInv, Precede
<1>11. BufferInv
  BY <1>1 DEF BufferInv
<1>12. ReadingInv
  <2>1. {sent[q] : q \in rx + 1 .. Len(sent)} = {}
    BY <1>1, <1>3
  <2>2. Idle
    BY <1>1, <1>3, <1>6 DEF Idle
  <2> QED
    BY <1>1, <1>2, <1>3, <1>4, <1>6, <2>1, <2>2 DEF ReadingInv
<1>13. OutIsGenuine
  BY <1>1, <1>3 DEF OutIsGenuine
<1> QED
  BY <1>7, <1>8, <1>9, <1>10, <1>11, <1>12, <1>13 DEF IInv, TransportInv

LEMMA SenderStep ==
  ASSUME IInv, Sender
  PROVE  IInv'
<1>1. UNCHANGED <<cursor, lost, receiverVars>>
  BY DEF Sender
<1>2. TypeOK
  BY DEF IInv
<1>3. CASE SplitNoRoom
  <2>1. Cap \in Nat /\ Cap >= 2 /\ Len(pkt.cells) \in Nat
    BY <1>2, SenderTypes, TransportAssumption
  <2>2. Used(pkt) \in Nat
    <3>1. Used(pkt) = Len(pkt.cells) + 1 \/ Used(pkt) = Len(pkt.cells) + 0
      BY DEF Used
    <3> QED
      BY <2>1, <3>1
  <2>3. off = 0 /\ Used(pkt) < Cap /\ Cap - Used(pkt) < 2
    BY <1>3 DEF SplitNoRoom
  <2>4. 0 < Used(pkt)
    BY <2>1, <2>2, <2>3
  <2>5. pkt' = Stuffed(pkt) /\ UNCHANGED <<size, sec, off, sent>>
    BY <1>3 DEF SplitNoRoom
  <2> QED
    BY <1>1, <2>3, <2>4, <2>5, StuffStep
<1>4. CASE SplitCopy
  BY <1>1, <1>4, CopyStep
<1>5. CASE SplitEnd
  BY <1>1, <1>5, StuffStep DEF SplitEnd
<1>6. CASE Emit
  BY <1>1, <1>6, EmitStep
<1> QED
  BY <1>3, <1>4, <1>5, <1>6 DEF Sender

LEMMA AssemblyStep ==
  ASSUME IInv, Assemble
  PROVE  IInv'
<1>1. UNCHANGED <<senderVars, cursor, lost>>
  BY DEF Assemble
<1>2. CASE AssembleStuffing
  BY <1>1, <1>2, StuffingStep
<1>3. CASE AssembleMore
  BY <1>1, <1>3, MoreStep
<1>4. CASE AssembleInvalid
  BY <1>1, <1>4, InvalidStep
<1>5. CASE AssembleWhole
  BY <1>1, <1>5, WholeStep
<1> QED
  BY <1>2, <1>3, <1>4, <1>5 DEF Assemble

LEMMA Stutter ==
  ASSUME IInv, UNCHANGED vars
  PROVE  IInv'
<1>1. /\ size' = size /\ sec' = sec /\ off' = off /\ pkt' = pkt /\ sent' = sent
      /\ cursor' = cursor /\ lost' = lost
      /\ rx' = rx /\ lastCc' = lastCc /\ buf' = buf /\ first' = first
      /\ pos' = pos /\ out' = out
  BY DEF vars, senderVars, receiverVars
<1>2. TypeOK /\ SenderInv /\ CrossInv /\ OrderInv /\ BufferInv /\ ReadingInv /\ OutIsGenuine
  BY DEF IInv, TransportInv
<1>3. CellsRx' = CellsRx /\ LastOut' = LastOut /\ Idle' = Idle
  BY <1>1 DEF CellsRx, LastOut, Idle
<1>4. TypeOK' /\ OutIsGenuine'
  BY <1>1, <1>2 DEF TypeOK, OutIsGenuine, Section, Bytes
<1>5. BufferInv'
  BY <1>1, <1>2, <1>3 DEF BufferInv, Bytes, LastCell
<1>6. ReadingInv'
  BY <1>1, <1>2, <1>3 DEF ReadingInv, Starts
<1>7. SenderInv' /\ CrossInv' /\ OrderInv'
  BY <1>1, <1>2, SenderKept DEF senderVars
<1> QED
  BY <1>2, <1>4, <1>5, <1>6, <1>7 DEF IInv, TransportInv

LEMMA Invariance == Spec => []IInv
<1>1. Init => IInv
  BY InitStep
<1>2. IInv /\ [Next]_vars => IInv'
  <2> SUFFICES ASSUME IInv, [Next]_vars
               PROVE  IInv'
    OBVIOUS
  <2> QED
    BY SenderStep, ArriveStep, RepeatStep, LoseStep, AssemblyStep, Stutter DEF Next
<1> QED
  BY <1>1, <1>2, PTL DEF Spec

(* The copy of psi_assemble_payload neither overruns the section buffer    *)
(* nor reads past the packet.                                              *)
LEMMA Bounds ==
  ASSUME IInv
  PROVE  InBounds
<1>1. TypeOK /\ SenderInv /\ BufferInv /\ ReadingInv
  BY DEF IInv, TransportInv
<1>2. /\ MaxPrivate \in Nat /\ Hdr \in Nat /\ Hdr >= 1
      /\ Len(buf) \in Nat /\ pos \in Nat /\ pos >= 1 /\ Len(CellsRx) \in Nat
      /\ CellsRx \in Seq(Cell)
  BY <1>1, ReceiverTypes, TransportAssumption
<1>3. Len(buf) <= MaxPrivate + Hdr
  <2>1. CASE buf = <<>>
    BY <1>2, <2>1, EmptySeq
  <2>2. CASE buf # <<>>
    <3> DEFINE k == buf[1].sec
    <3>1. k \in 1 .. N /\ Len(buf) < size[k]
      BY <1>1, <2>2 DEF BufferInv
    <3>2. size[k] \in Nat /\ size[k] <= MaxPrivate + Hdr
      BY <1>1, <3>1, SizeBounds DEF TypeOK
    <3> HIDE DEF k
    <3> QED
      BY <1>2, <3>1, <3>2
  <2> QED
    BY <2>1, <2>2
<1>4. pos <= EndOfPacket
  BY <1>1 DEF ReadingInv, EndOfPacket
<1>5. ASSUME ~ Idle
      PROVE  Copied > 0 /\ Len(Filled) <= MaxPrivate + Hdr
  <2>1. CASE Assembling
    <3>1. PICK k \in 1 .. N : Reads(k)
      BY <2>1, AssemblingReads
    <3> QED
      BY <3>1, FilledFacts
  <2>2. CASE ~ Assembling
    <3>1. buf = <<>> /\ Len(buf) = 0
      BY <1>5, <2>2, EmptySeq DEF Assembling
    <3>2. pos <= Len(CellsRx)
      BY <1>2, <1>5 DEF Idle
    <3>3. Copied \in Nat \ {0} /\ Copied <= MaxPrivate + Hdr /\ pos + Copied <= Len(CellsRx) + 1
      BY <1>2, <3>1, <3>2 DEF Copied, Least
    <3> DEFINE m == Copied
               r == SubSeq(CellsRx, pos, pos + m - 1)
    <3>4. Len(r) = m /\ r \in Seq(Cell)
      <4>1. m \in Nat \ {0} /\ m <= MaxPrivate + Hdr /\ pos + m <= Len(CellsRx) + 1
        BY <3>3
      <4> HIDE DEF m
      <4>2. /\ pos \in Int /\ pos + m - 1 \in Int
            /\ \A i \in pos .. pos + m - 1 : i \in 1 .. Len(CellsRx)
        BY <1>2, <4>1
      <4>3. Len(r) = (pos + m - 1) - pos + 1 /\ r \in Seq(Cell)
        <5>1. pos <= pos + m - 1
          BY <1>2, <4>1
        <5>2. pos \in 1 .. Len(CellsRx) + 1 /\ pos + m - 1 \in pos - 1 .. Len(CellsRx)
          BY <1>2, <4>1
        <5> QED
          BY ONLY <1>2, <5>1, <5>2, SubSeqProperties
      <4> QED
        BY <1>2, <4>1, <4>3
    <3>5. Filled = r
      BY <3>1, <3>4, ConcatEmptySeq DEF Filled
    <3> QED
      BY <3>3, <3>4, <3>5
  <2> QED
    BY <2>1, <2>2
<1> QED
  BY <1>3, <1>4, <1>5 DEF InBounds

(* Every variable keeps its type, and the buffer and the packets are       *)
(* related as TransportInv says, in every reachable state.                 *)
THEOREM TypeCorrect == Spec => []TypeOK
<1>1. IInv => TypeOK
  BY DEF IInv
<1> QED
  BY <1>1, Invariance, PTL

(* psi_assemble_payload stays within the section buffer and within the     *)
(* packet it reads, whatever was lost or repeated.                         *)
THEOREM NoOverrun == Spec => []InBounds
<1>1. IInv => InBounds
  BY Bounds
<1> QED
  BY <1>1, Invariance, PTL

(* Neither losses nor repeated packets splice, reorder or repeat the       *)
(* sections that handle_psi_packet hands out.                              *)
THEOREM NoSplice == Spec => []OutIsGenuine
<1>1. IInv => OutIsGenuine
  BY DEF IInv
<1> QED
  BY <1>1, Invariance, PTL

-----------------------------------------------------------------------------
(* The packets implement the pipe of sections.                             *)

LEMMA PipeInit ==
  ASSUME Init
  PROVE  Pipe!Init
<1>1. DOMAIN [k \in 1 .. N |-> Section(k)] = 1 .. N
  OBVIOUS
<1>2. sec - 1 = 0 /\ LastOut = 0 /\ out = <<>>
  BY DEF Init, LastOut
<1> QED
  BY <1>1, <1>2 DEF Pipe!Init

LEMMA PipeKept ==
  ASSUME size' = size, sec' = sec, out' = out
  PROVE  UNCHANGED Pipe!vars
BY DEF Pipe!vars, LastOut, Section, Bytes

LEMMA PipeEnter ==
  ASSUME TypeOK, SplitCopy, UNCHANGED receiverVars
  PROVE  [Pipe!Next]_(Pipe!vars)
<1>1. size' = size /\ out' = out
  BY DEF SplitCopy, receiverVars
<1>2. sec' = sec \/ sec' = sec + 1
  BY DEF SplitCopy
<1>3. sec <= N /\ sec \in Nat /\ N \in Nat
  <2>1. sec \in 1 .. N + 1 /\ N \in Nat
    BY TransportAssumption DEF TypeOK
  <2> QED
    BY <2>1 DEF SplitCopy
<1>4. CASE sec' = sec
  BY <1>1, <1>4, PipeKept
<1>5. CASE sec' = sec + 1
  <2>1. sec - 1 < N /\ sec' - 1 = (sec - 1) + 1
    BY <1>3, <1>5
  <2>2. LastOut' = LastOut
    BY <1>1 DEF LastOut
  <2>3. [k \in 1 .. N |-> Section(k)]' = [k \in 1 .. N |-> Section(k)]
    BY <1>1 DEF Section, Bytes
  <2>4. Pipe!Enter
    BY <1>1, <2>1, <2>2, <2>3 DEF Pipe!Enter
  <2> QED
    BY <2>4 DEF Pipe!Next
<1> QED
  BY <1>2, <1>4, <1>5

LEMMA PipeLeave ==
  ASSUME IInv, AssembleWhole, UNCHANGED <<senderVars, cursor, lost>>
  PROVE  Pipe!Next
<1>1. PICK k \in LastOut + 1 .. sec - 1 : LastOut' = k /\ out' = Append(out, Section(k))
  BY WholeStep
<1>2. size' = size /\ sec' = sec
  BY DEF senderVars
<1>3. k \in 1 .. N
  <2>1. LastOut < sec /\ sec \in 1 .. N + 1 /\ N \in Nat
    BY TransportAssumption DEF IInv, TypeOK, TransportInv, ReadingInv
  <2>2. LastOut \in Nat
    BY LastOutType DEF IInv
  <2> QED
    BY <1>1, <2>1, <2>2
<1>4. [j \in 1 .. N |-> Section(j)]' = [j \in 1 .. N |-> Section(j)]
  BY <1>2 DEF Section, Bytes
<1>5. [j \in 1 .. N |-> Section(j)][k] = Section(k)
  BY <1>3
<1>6. Pipe!Leave(k)
  BY <1>1, <1>2, <1>4, <1>5 DEF Pipe!Leave
<1> QED
  BY <1>1, <1>6 DEF Pipe!Next

(* Whatever packets are lost or repeated, the transport is a pipe that     *)
(* hands out whole sections in order, each at most once: every step of it  *)
(* enters a section, leaves with one, or changes nothing of the pipe.      *)
THEOREM TransportIsPipe == Spec => PipeSpec
<1>1. Init => Pipe!Init
  BY PipeInit
<1>2. IInv /\ [Next]_vars => [Pipe!Next]_(Pipe!vars)
  <2> SUFFICES ASSUME IInv, [Next]_vars
               PROVE  [Pipe!Next]_(Pipe!vars)
    OBVIOUS
  <2>1. TypeOK
    BY DEF IInv
  <2>2. CASE Sender
    <3>1. UNCHANGED receiverVars
      BY <2>2 DEF Sender
    <3>2. CASE SplitCopy
      BY <2>1, <3>1, <3>2, PipeEnter
    <3>3. CASE SplitNoRoom \/ SplitEnd \/ Emit
      BY <3>1, <3>3, PipeKept DEF SplitNoRoom, SplitEnd, Emit, receiverVars
    <3> QED
      BY <2>2, <3>2, <3>3 DEF Sender
  <2>3. CASE Arrive
    BY <2>3, PipeKept DEF Arrive, Receive, ReceiveDuplicate, ReceiveNew, senderVars
  <2>4. CASE Repeat
    BY <2>4, PipeKept DEF Repeat, Receive, ReceiveDuplicate, ReceiveNew, senderVars
  <2>5. CASE Lose
    BY <2>5, PipeKept DEF Lose, senderVars, receiverVars
  <2>6. CASE Assemble
    <3>1. UNCHANGED <<senderVars, cursor, lost>>
      BY <2>6 DEF Assemble
    <3>2. CASE AssembleWhole
      BY <3>1, <3>2, PipeLeave
    <3>3. CASE AssembleStuffing \/ AssembleMore \/ AssembleInvalid
      BY <3>1, <3>3, PipeKept DEF AssembleStuffing, AssembleMore, AssembleInvalid, senderVars
    <3> QED
      BY <2>6, <3>2, <3>3 DEF Assemble
  <2>7. CASE UNCHANGED vars
    BY <2>7, PipeKept DEF vars, senderVars, receiverVars
  <2> QED
    BY <2>2, <2>3, <2>4, <2>5, <2>6, <2>7 DEF Next
<1> QED
  BY <1>1, <1>2, Invariance, PTL DEF Spec, PipeSpec, Pipe!Spec

-----------------------------------------------------------------------------
(* The inductive invariant behind NothingMissed.                           *)

(* Stuffing goes on to the end of the packet. *)
StuffedLast(cells) ==
  \A i, j \in DOMAIN cells : i < j /\ cells[i].sec = 0 => cells[j].sec = 0

StuffingInv ==
  /\ \A q \in DOMAIN sent : StuffedLast(sent[q].cells)
  /\ StuffedLast(pkt.cells)
  /\ Used(pkt) < Cap => \A i \in DOMAIN pkt.cells : pkt.cells[i].sec # 0

(* The first byte of each section that was begun is in some packet. *)
Holds(cells, c) == \E i \in DOMAIN cells : cells[i] = c
First(k) == [sec |-> k, at |-> 0]
BegunInv ==
  \A k \in 1 .. N :
    k < sec \/ (k = sec /\ off > 0) =>
      \/ Holds(pkt.cells, First(k))
      \/ \E q \in DOMAIN sent : Holds(sent[q].cells, First(k))

(* What left the channel after the packet last received was lost. *)
LostInv == rx + 1 .. cursor \subseteq lost

(* A section of which no packet was lost, and whose first packet arrived,  *)
(* has been handed out, or is in the buffer, or is still to be read in the *)
(* packet being handled.                                                   *)
Handed(k) == \E i \in DOMAIN out : out[i] = Section(k)
Unlost(k) == \A q \in lost : ~ Carries(sent[q].cells, k)
Due(q, i) ==
  /\ Starts(sent[q].cells[i])
  /\ size[sent[q].cells[i].sec] <= MaxPrivate
  /\ Unlost(sent[q].cells[i].sec)
Kept(q, i) ==
  \/ Handed(sent[q].cells[i].sec)
  \/ buf # <<>> /\ buf[1].sec = sent[q].cells[i].sec
  \/ q = rx /\ pos <= i
FollowedInv ==
  \A q \in 1 .. rx : \A i \in DOMAIN sent[q].cells : Due(q, i) => Kept(q, i)

MissedInv == StuffingInv /\ BegunInv /\ LostInv /\ FollowedInv

(* Nothing happens to the packets received, to the buffer and to what was  *)
(* handed out.                                                             *)
LEMMA FollowedKept ==
  ASSUME TypeOK, SenderInv, LostInv, FollowedInv,
         UNCHANGED <<size, cursor, lost, receiverVars>>,
         \A q \in DOMAIN sent : q \in DOMAIN sent' /\ sent'[q].cells = sent[q].cells
  PROVE  LostInv' /\ FollowedInv'
<1>1. /\ size' = size /\ cursor' = cursor /\ lost' = lost
      /\ rx' = rx /\ buf' = buf /\ pos' = pos /\ out' = out
  BY DEF receiverVars
<1>2. 1 .. rx \subseteq DOMAIN sent /\ lost \subseteq DOMAIN sent
  BY SenderTypes DEF TypeOK
<1>3. ASSUME NEW q \in 1 .. rx', NEW i \in DOMAIN sent'[q].cells, Due(q, i)'
      PROVE  Kept(q, i)'
  <2>1. q \in 1 .. rx /\ sent'[q].cells = sent[q].cells /\ i \in DOMAIN sent[q].cells
    BY <1>1, <1>2, <1>3
  <2> DEFINE k == sent[q].cells[i].sec
  <2>2. Unlost(k)
    <3> SUFFICES ASSUME NEW r \in lost
                 PROVE  ~ Carries(sent[r].cells, k)
      BY DEF Unlost
    <3>1. sent'[r].cells = sent[r].cells
      BY <1>2
    <3> QED
      BY <1>1, <1>3, <2>1, <3>1 DEF Due, Unlost, Carries
  <2>3. Due(q, i)
    BY <1>1, <1>3, <2>1, <2>2 DEF Due, Starts
  <2>4. Kept(q, i)
    BY <2>1, <2>3 DEF FollowedInv
  <2> QED
    BY <1>1, <2>1, <2>4 DEF Kept, Handed, Section, Bytes
<1>4. FollowedInv'
  BY <1>3 DEF FollowedInv
<1> QED
  BY <1>1, <1>4 DEF LostInv

(* psi_split_section copies: its bytes are no stuffing, and the first one  *)
(* of a section is written.                                                *)
LEMMA CopyBegins ==
  ASSUME IInv, MissedInv, SplitCopy, UNCHANGED <<cursor, lost, receiverVars>>
  PROVE  MissedInv'
<1> DEFINE p == Started(pkt)
           n == Least(Cap - Used(p), size[sec] - off)
           add == Bytes(sec, off, n)
           c == pkt.cells \o add
           l == Len(pkt.cells)
<1>1. /\ p.cells = pkt.cells
      /\ p = [start |-> p.start, ptr |-> p.ptr, cells |-> p.cells]
      /\ sec \in 1 .. N /\ off < size[sec] /\ size[sec] \in Nat
      /\ n \in Nat /\ n >= 1 /\ off + n <= size[sec]
  BY Room DEF SplitCopy
<1>2. /\ pkt' = [p EXCEPT !.cells = p.cells \o add]
      /\ sec' = IF off + n = size[sec] THEN sec + 1 ELSE sec
      /\ off' = IF off + n = size[sec] THEN 0 ELSE off + n
      /\ size' = size /\ sent' = sent /\ Used(pkt) < Cap
  BY DEF SplitCopy
<1>3. pkt'.cells = c
  BY <1>1, <1>2
<1> HIDE DEF n, p
<1>4. TypeOK /\ SenderInv /\ off \in Nat /\ sec \in Nat
  BY TransportAssumption DEF IInv, TransportInv, TypeOK
<1>5. /\ add \in Seq(Cell) /\ Len(add) = n
      /\ \A i \in 1 .. n : add[i] = [sec |-> sec, at |-> off + i - 1]
  BY <1>1, <1>4, BytesFacts
<1>6. pkt.cells \in Seq(Cell) /\ l \in Nat /\ DOMAIN pkt.cells = 1 .. l
  BY <1>4, SenderTypes
<1> HIDE DEF add
<1>7. /\ DOMAIN c = 1 .. l + n
      /\ \A i \in 1 .. l : c[i] = pkt.cells[i]
      /\ \A j \in 1 .. n : c[l + j] = [sec |-> sec, at |-> off + j - 1]
  <2>1. /\ c \in Seq(Cell) /\ Len(c) = l + n
        /\ \A i \in 1 .. l + n : c[i] = IF i <= l THEN pkt.cells[i] ELSE add[i - l]
    BY <1>5, <1>6, ConcatProperties
  <2> HIDE DEF c, l
  <2>2. DOMAIN c = 1 .. l + n
    BY <2>1, LenProperties
  <2>3. ASSUME NEW j \in 1 .. n
        PROVE  c[l + j] = [sec |-> sec, at |-> off + j - 1]
    <3>1. l + j \in 1 .. l + n /\ ~ l + j <= l /\ (l + j) - l = j
      BY <1>1, <1>6
    <3> QED
      BY <1>5, <2>1, <3>1
  <2> QED
    BY <1>1, <1>6, <2>1, <2>2, <2>3
<1> HIDE DEF c, l
<1>8. \A i \in DOMAIN c : c[i].sec # 0
  <2> SUFFICES ASSUME NEW i \in 1 .. l + n
               PROVE  c[i].sec # 0
    BY <1>7
  <2>1. CASE i <= l
    <3>1. i \in 1 .. l
      BY <1>1, <1>6, <2>1
    <3> QED
      BY <1>2, <1>6, <1>7, <3>1 DEF MissedInv, StuffingInv
  <2>2. CASE i > l
    <3>1. i - l \in 1 .. n /\ l + (i - l) = i
      BY <1>1, <1>6, <2>2
    <3>2. c[l + (i - l)] = [sec |-> sec, at |-> off + (i - l) - 1]
      BY <1>7, <3>1
    <3> QED
      BY <1>1, <3>1, <3>2
  <2> QED
    BY <1>6, <1>1, <2>1, <2>2
<1>9. StuffingInv'
  BY <1>2, <1>3, <1>8 DEF MissedInv, StuffingInv, StuffedLast
<1>10. BegunInv'
  <2> SUFFICES ASSUME NEW k \in 1 .. N, k < sec' \/ (k = sec' /\ off' > 0)
               PROVE  \/ Holds(c, First(k))
                      \/ \E q \in DOMAIN sent : Holds(sent[q].cells, First(k))
    BY <1>2, <1>3 DEF BegunInv, Holds, First
  <2>1. k <= sec
    BY <1>1, <1>2, <1>4
  <2>2. CASE k = sec /\ off = 0
    <3>1. 1 \in 1 .. n /\ l + 1 \in 1 .. l + n
      BY <1>1, <1>6
    <3>2. c[l + 1] = [sec |-> sec, at |-> off + 1 - 1]
      BY <1>7, <3>1
    <3> QED
      BY <1>7, <2>2, <3>1, <3>2 DEF Holds, First
  <2>3. CASE ~ (k = sec /\ off = 0)
    <3>1. k < sec \/ (k = sec /\ off > 0)
      BY <1>4, <2>1, <2>3
    <3>2. \/ Holds(pkt.cells, First(k))
          \/ \E q \in DOMAIN sent : Holds(sent[q].cells, First(k))
      BY <3>1 DEF MissedInv, BegunInv
    <3>3. \A i \in 1 .. l : i \in 1 .. l + n
      BY <1>1, <1>6
    <3> QED
      BY <1>6, <1>7, <3>2, <3>3 DEF Holds
  <2> QED
    BY <2>2, <2>3
<1>11. LostInv' /\ FollowedInv'
  BY <1>2, <1>4, FollowedKept DEF MissedInv
<1> QED
  BY <1>9, <1>10, <1>11 DEF MissedInv

(* Stuffing fills the packet. *)
LEMMA StuffKeeps ==
  ASSUME IInv, MissedInv, Used(pkt) < Cap, pkt' = Stuffed(pkt),
         UNCHANGED <<size, sec, off, sent, cursor, lost, receiverVars>>
  PROVE  MissedInv'
<1> DEFINE n == Cap - Used(pkt)
           add == Pads(n)
           c == pkt.cells \o add
           l == Len(pkt.cells)
<1>1. /\ TypeOK /\ SenderInv /\ Cap \in Nat
      /\ pkt = [start |-> pkt.start, ptr |-> pkt.ptr, cells |-> pkt.cells]
  BY TransportAssumption DEF IInv, TransportInv, TypeOK
<1>2. /\ pkt.cells \in Seq(Cell) /\ l \in Nat /\ DOMAIN pkt.cells = 1 .. l
      /\ pkt.start \in BOOLEAN
  BY <1>1, SenderTypes
<1>3. PICK z \in {0, 1} : \A q \in {pkt, pkt'} : Used(q) = Len(q.cells) + z
  <2>1. pkt'.start = pkt.start
    BY <1>1 DEF Stuffed
  <2>2. CASE pkt.start
    BY <2>1, <2>2 DEF Used
  <2>3. CASE ~ pkt.start
    BY <2>1, <2>3 DEF Used
  <2> QED
    BY <2>2, <2>3
<1>4. Used(pkt) = l + z /\ n \in Nat /\ n >= 1 /\ l + n + z = Cap
  BY <1>1, <1>2, <1>3
<1>5. pkt'.cells = c
  BY <1>1 DEF Stuffed, Pads
<1> HIDE DEF n
<1>6. /\ add \in Seq(Cell) /\ Len(add) = n /\ \A i \in 1 .. n : add[i] = Pad
  BY <1>4, PadsFacts
<1> HIDE DEF add
<1>7. /\ Len(c) = l + n /\ DOMAIN c = 1 .. l + n
      /\ \A i \in 1 .. l + n : c[i] = IF i <= l THEN pkt.cells[i] ELSE Pad
  <2>0. pkt.cells \in Seq(Cell) /\ add \in Seq(Cell) /\ l = Len(pkt.cells) /\ n = Len(add)
    BY <1>2, <1>6
  <2>1. /\ c \in Seq(Cell) /\ Len(c) = l + n
        /\ \A i \in 1 .. l + n : c[i] = IF i <= l THEN pkt.cells[i] ELSE add[i - l]
    BY ONLY <2>0, ConcatProperties
  <2> HIDE DEF c, l
  <2>2. DOMAIN c = 1 .. l + n
    BY <2>1, LenProperties
  <2>3. ASSUME NEW j \in 1 .. l + n, ~ j <= l
        PROVE  c[j] = Pad
    <3>1. j - l \in 1 .. n /\ c[j] = add[j - l]
      BY <1>2, <1>4, <2>1, <2>3
    <3> QED
      BY <1>6, <3>1
  <2> QED
    BY <2>1, <2>2, <2>3
<1>8. Used(pkt') = Cap
  BY <1>3, <1>4, <1>5, <1>7
<1> HIDE DEF c, l
<1>9. StuffedLast(c)
  <2> SUFFICES ASSUME NEW i \in 1 .. l + n, NEW j \in 1 .. l + n, i < j, c[i].sec = 0
               PROVE  c[j].sec = 0
    BY <1>7 DEF StuffedLast
  <2>1. ~ i <= l
    <3> SUFFICES ASSUME i <= l
                 PROVE  FALSE
      OBVIOUS
    <3>1. i \in 1 .. l
      BY <1>2, <1>4
    <3> QED
      BY <1>2, <1>7, <3>1 DEF MissedInv, StuffingInv
  <2>2. c[j] = Pad
    BY <1>2, <1>4, <1>7, <2>1
  <2> QED
    BY <2>2, PadIsCell
<1>10. StuffingInv'
  BY <1>1, <1>5, <1>8, <1>9 DEF MissedInv, StuffingInv, StuffedLast, Used
<1>11. BegunInv'
  <2> SUFFICES ASSUME NEW k \in 1 .. N, k < sec \/ (k = sec /\ off > 0)
               PROVE  \/ Holds(c, First(k))
                      \/ \E q \in DOMAIN sent : Holds(sent[q].cells, First(k))
    BY <1>5 DEF BegunInv, Holds, First
  <2>1. \A i \in 1 .. l : i \in 1 .. l + n /\ i <= l
    BY <1>2, <1>4
  <2>2. \A i \in 1 .. l : i \in DOMAIN c /\ c[i] = pkt.cells[i]
    BY <1>7, <2>1
  <2> QED
    BY <1>2, <2>2 DEF MissedInv, BegunInv, Holds
<1>12. LostInv' /\ FollowedInv'
  BY <1>1, FollowedKept DEF MissedInv
<1> QED
  BY <1>10, <1>11, <1>12 DEF MissedInv

(* A packet that is written takes its cells along. *)
LEMMA EmitKeeps ==
  ASSUME IInv, MissedInv, Emit, UNCHANGED <<cursor, lost, receiverVars>>
  PROVE  MissedInv'
<1> DEFINE r == [cc |-> Len(sent) % CCMod, start |-> pkt.start,
                 ptr |-> pkt.ptr, cells |-> pkt.cells]
           l == Len(sent)
<1>1. /\ sent' = Append(sent, r) /\ pkt' = NoPacket
      /\ size' = size /\ sec' = sec /\ off' = off
  BY DEF Emit
<1>2. TypeOK /\ SenderInv
  BY DEF IInv, TransportInv
<1>3. l \in Nat /\ DOMAIN sent = 1 .. l /\ sent \in Seq(Packet)
  BY <1>2, SenderTypes DEF TypeOK
<1>4. r.cells = pkt.cells
  OBVIOUS
<1> HIDE DEF r
<1>5. /\ DOMAIN sent' = 1 .. l + 1
      /\ \A q \in 1 .. l : sent'[q] = sent[q]
      /\ sent'[l + 1] = r
  BY <1>1, <1>3
<1> HIDE DEF l
<1>6. pkt'.cells = <<>> /\ DOMAIN pkt'.cells = {}
  BY <1>1 DEF NoPacket
<1>7. \A q \in 1 .. l + 1 : q \in 1 .. l \/ q = l + 1
  BY <1>3
<1>8. \A q \in 1 .. l : q \in 1 .. l + 1
  BY <1>3
<1>9. StuffingInv'
  BY <1>3, <1>4, <1>5, <1>6, <1>7 DEF MissedInv, StuffingInv, StuffedLast
<1>10. BegunInv'
  <2> SUFFICES ASSUME NEW k \in 1 .. N, k < sec \/ (k = sec /\ off > 0)
               PROVE  \E q \in DOMAIN sent' : Holds(sent'[q].cells, First(k))
    BY <1>1 DEF BegunInv, Holds, First
  <2>1. CASE Holds(pkt.cells, First(k))
    <3>1. l + 1 \in 1 .. l + 1
      BY <1>3
    <3> QED
      BY <1>4, <1>5, <2>1, <3>1
  <2>2. CASE \E q \in DOMAIN sent : Holds(sent[q].cells, First(k))
    BY <1>3, <1>5, <1>8, <2>2
  <2> QED
    BY <2>1, <2>2 DEF MissedInv, BegunInv
<1>11. LostInv' /\ FollowedInv'
  BY <1>1, <1>2, <1>3, <1>5, <1>8, FollowedKept DEF MissedInv
<1> QED
  BY <1>9, <1>10, <1>11 DEF MissedInv

LEMMA SenderKeepsMissed ==
  ASSUME IInv, MissedInv, Sender
  PROVE  MissedInv'
<1>1. UNCHANGED <<cursor, lost, receiverVars>>
  BY DEF Sender
<1>2. CASE SplitNoRoom
  BY <1>1, <1>2, StuffKeeps DEF SplitNoRoom
<1>3. CASE SplitCopy
  BY <1>1, <1>3, CopyBegins
<1>4. CASE SplitEnd
  BY <1>1, <1>4, StuffKeeps DEF SplitEnd
<1>5. CASE Emit
  BY <1>1, <1>5, EmitKeeps
<1> QED
  BY <1>2, <1>3, <1>4, <1>5 DEF Sender

(* What the receiver and the channel leave alone. *)
LEMMA SentSame ==
  ASSUME StuffingInv, BegunInv, UNCHANGED senderVars
  PROVE  StuffingInv' /\ BegunInv'
<1>1. sec' = sec /\ off' = off /\ pkt' = pkt /\ sent' = sent
  BY DEF senderVars
<1> QED
  BY <1>1 DEF StuffingInv, BegunInv, StuffedLast, Holds, First, Used

(* The section in the buffer, when nothing is being read, goes on in the   *)
(* packet after the one received last.                                     *)
LEMMA GoesOn ==
  ASSUME IInv, Idle, buf # <<>>, rx < Len(sent)
  PROVE  Carries(sent[rx + 1].cells, buf[1].sec)
<1> DEFINE k == buf[1].sec
<1>1. TypeOK /\ SenderInv /\ CrossInv /\ BufferInv /\ ReadingInv
  BY DEF IInv, TransportInv
<1>2. /\ k \in 1 .. N /\ Len(buf) < size[k] /\ rx > 0
      /\ LastCell(CellsRx) = [sec |-> k, at |-> Len(buf) - 1]
  BY <1>1, IdleNotFirst DEF BufferInv
<1>3. rx \in DOMAIN sent /\ CellsRx = sent[rx].cells /\ rx + 1 \in DOMAIN sent
  BY SMTT(30), <1>1, <1>2, ReceiverTypes, SenderTypes
<1>4. Link(LastCell(CellsRx), sent[rx + 1].cells[1])
  BY <1>1, <1>3 DEF CrossInv
<1>5. Len(buf) \in Nat /\ size[k] \in Nat
  BY <1>1, <1>2, ReceiverTypes, SizeBounds DEF TypeOK
<1>6. sent[rx + 1].cells[1].sec = k
  <2> HIDE DEF k
  <2>1. ~ Ends(LastCell(CellsRx)) /\ LastCell(CellsRx).sec = k
    BY <1>2, <1>5, TransportAssumption DEF Ends
  <2> QED
    BY <1>4, <2>1 DEF Link
<1>7. 1 \in DOMAIN sent[rx + 1].cells
  BY <1>1, <1>3, SentTypes
<1> QED
  BY <1>6, <1>7 DEF Carries

(* A packet arrives: the buffer is given up only after a loss, and then    *)
(* the packet that was lost carried the section.                           *)
LEMMA ArriveKeeps ==
  ASSUME IInv, MissedInv, Arrive
  PROVE  MissedInv'
<1> DEFINE q == cursor + 1
<1>1. TypeOK /\ SenderInv /\ BufferInv /\ ReadingInv /\ LostInv /\ FollowedInv
  BY DEF IInv, TransportInv, MissedInv
<1>2. Idle /\ cursor < Len(sent) /\ UNCHANGED senderVars
  BY DEF Arrive
<1>3. /\ q \in DOMAIN sent /\ q >= rx + 1
      /\ sent[q].cc = (q - 1) % CCMod /\ sent[q].cc \in 0 .. CCMod - 1
      /\ rx' = q /\ lastCc' = sent[q].cc
      /\ buf' = BufferAt(q)
      /\ pos' = (IF BufferAt(q) # <<>> THEN 1 ELSE NextSection(sent[q]))
      /\ out' = out /\ lost' = lost /\ cursor' = cursor + 1
      /\ size' = size /\ sent' = sent
      /\ BufferAt(q) # <<>> => BufferAt(q) = buf
  BY Arrival
<1>4. /\ rx \in Nat /\ cursor \in Nat /\ rx <= cursor /\ Len(sent) \in Nat
      /\ DOMAIN sent = 1 .. Len(sent) /\ Len(CellsRx) \in Nat
      /\ (rx > 0 => CellsRx = sent[rx].cells)
  BY <1>1, ReceiverTypes, SenderTypes
<1>5. ASSUME buf # <<>>, Unlost(buf[1].sec)
      PROVE  buf' = buf
  <2>1. Carries(sent[rx + 1].cells, buf[1].sec)
    <3>1. rx < Len(sent)
      BY <1>2, <1>4
    <3> QED
      BY <1>2, <1>5, <3>1, GoesOn
  <2>2. rx + 1 \notin lost
    BY <1>5, <2>1 DEF Unlost
  <2>3. rx + 1 \notin rx + 1 .. cursor
    BY <1>1, <2>2 DEF LostInv
  <2>4. cursor = rx
    BY <1>4, <2>3
  <2>5. rx > 0
    BY <1>1, <1>5 DEF BufferInv
  <2>6. lastCc = (rx - 1) % CCMod /\ rx - 1 \in Nat /\ (rx - 1) + 1 = q - 1
    BY <1>1, <1>4, <2>4, <2>5 DEF ReadingInv
  <2>7. CCMod \in Nat \ {0}
    BY TransportAssumption
  <2>8. (((rx - 1) % CCMod) + CCMod + 1 - (((rx - 1) + 1) % CCMod)) % CCMod = 0
    BY ONLY <2>6, <2>7, NextIsContinuous
  <2>9. ~ Discontinuity(sent[q].cc)
    BY <1>3, <2>6, <2>8 DEF Discontinuity
  <2> QED
    BY <1>3, <2>9 DEF BufferAt
<1>6. LostInv'
  <2>1. rx' + 1 .. cursor' = {}
    BY <1>3, <1>4
  <2> QED
    BY <2>1 DEF LostInv
<1>7. ASSUME NEW r \in 1 .. q, NEW i \in DOMAIN sent[r].cells, Due(r, i)
      PROVE  Kept(r, i)'
  <2> DEFINE k == sent[r].cells[i].sec
  <2>1. r \in DOMAIN sent /\ i \in Nat /\ i >= 1 /\ i <= Len(sent[r].cells)
        /\ Len(sent[r].cells) \in Nat
    <3>1. r \in DOMAIN sent
      BY <1>2, <1>4
    <3> QED
      BY <1>1, <3>1, SentTypes
  <2>2. CASE r <= rx
    <3>1. Kept(r, i)
      BY <1>1, <1>4, <1>7, <2>2 DEF FollowedInv
    <3>2. CASE Handed(k)
      BY <1>3, <3>2 DEF Kept, Handed, Section, Bytes
    <3>3. CASE buf # <<>> /\ buf[1].sec = k
      BY <1>3, <1>5, <1>7, <3>3 DEF Kept, Due
    <3>4. CASE r = rx /\ pos <= i
      <4>1. pos > Len(sent[r].cells) /\ pos \in Nat
        BY <1>1, <1>2, <1>4, <3>4 DEF Idle, TypeOK
      <4> QED
        BY <2>1, <3>4, <4>1
    <3> QED
      BY <3>1, <3>2, <3>3, <3>4 DEF Kept
  <2>3. CASE r > rx /\ r < q
    <3>1. r \in lost
      BY <1>1, <1>4, <2>3 DEF LostInv
    <3>2. Carries(sent[r].cells, k)
      BY DEF Carries
    <3> QED
      BY <1>7, <3>1, <3>2 DEF Due, Unlost
  <2>4. CASE r = q
    <3>1. pos' <= i
      <4>1. CASE BufferAt(q) # <<>>
        BY <1>3, <2>1, <4>1
      <4>2. CASE BufferAt(q) = <<>>
        <5>1. ~ i < NextSection(sent[q])
          BY <1>1, <1>3, <1>7, <2>4, NextSectionFacts DEF Due
        <5>2. NextSection(sent[q]) \in Nat
          BY <1>1, <1>3, NextSectionFacts
        <5> QED
          BY <1>3, <2>1, <4>2, <5>1, <5>2
      <4> QED
        BY <4>1, <4>2
    <3> QED
      BY <1>3, <2>4, <3>1 DEF Kept
  <2> QED
    BY <1>4, <2>2, <2>3, <2>4
<1>8. FollowedInv'
  BY <1>3, <1>7 DEF FollowedInv, Due, Unlost, Starts, Carries
<1> QED
  BY <1>2, <1>6, <1>8, SentSame DEF MissedInv

(* A packet that arrives once more is not looked at. *)
LEMMA RepeatKeeps ==
  ASSUME IInv, MissedInv, Repeat
  PROVE  MissedInv'
<1>1. TypeOK /\ SenderInv /\ ReadingInv /\ LostInv /\ FollowedInv
  BY DEF IInv, TransportInv, MissedInv
<1>2. rx > 0 /\ cursor = rx /\ Idle /\ UNCHANGED <<senderVars, cursor, lost>>
  BY DEF Repeat
<1>3. /\ rx \in DOMAIN sent /\ CellsRx = sent[rx].cells /\ Len(CellsRx) \in Nat
  BY <1>1, <1>2, ReceiverTypes
<1>4. sent[rx].cc = lastCc
  BY <1>1, <1>2, <1>3 DEF SenderInv, ReadingInv
<1>5. ReceiveDuplicate(rx)
  BY <1>4 DEF Repeat, Receive, ReceiveNew
<1>6. pos' = pos
  BY SMTT(30), <1>1, <1>2, <1>3, <1>5 DEF ReceiveDuplicate, Idle, ReadingInv, TypeOK
<1>7. UNCHANGED <<size, cursor, lost, receiverVars>> /\ sent' = sent
  BY <1>2, <1>5, <1>6 DEF ReceiveDuplicate, receiverVars, senderVars
<1>8. LostInv' /\ FollowedInv'
  BY <1>1, <1>7, FollowedKept
<1> QED
  BY <1>2, <1>8, SentSame DEF MissedInv

(* A loss only frees the receiver from what the lost packet carried. *)
LEMMA LoseKeeps ==
  ASSUME IInv, MissedInv, Lose
  PROVE  MissedInv'
<1>1. TypeOK /\ SenderInv /\ LostInv /\ FollowedInv
  BY DEF IInv, TransportInv, MissedInv
<1>2. /\ cursor' = cursor + 1 /\ lost' = lost \cup {cursor + 1}
      /\ UNCHANGED senderVars /\ UNCHANGED receiverVars
  BY DEF Lose
<1>3. /\ size' = size /\ sent' = sent /\ rx' = rx /\ buf' = buf /\ pos' = pos /\ out' = out
  BY <1>2 DEF senderVars, receiverVars
<1>4. rx \in Nat /\ cursor \in Nat
  BY <1>1, ReceiverTypes
<1>5. LostInv'
  <2>1. rx + 1 .. cursor + 1 \subseteq (rx + 1 .. cursor) \cup {cursor + 1}
    BY <1>4
  <2> QED
    BY <1>1, <1>2, <1>3, <2>1 DEF LostInv
<1>6. ASSUME NEW q \in 1 .. rx, NEW i \in DOMAIN sent[q].cells, Due(q, i)'
      PROVE  Kept(q, i)'
  <2>1. Due(q, i)
    BY <1>2, <1>3, <1>6 DEF Due, Unlost, Starts, Carries
  <2>2. Kept(q, i)
    BY <1>1, <2>1 DEF FollowedInv
  <2> QED
    BY <1>3, <2>2 DEF Kept, Handed, Section, Bytes
<1>7. FollowedInv'
  BY <1>3, <1>6 DEF FollowedInv
<1> QED
  BY <1>2, <1>5, <1>7, SentSame DEF MissedInv

(* What every call of psi_assemble_payload has to keep: the section in the *)
(* buffer, and those that start in what it goes past.                      *)
LEMMA AssemblyKeeps ==
  ASSUME IInv, MissedInv, UNCHANGED <<senderVars, cursor, lost, rx>>,
         \A k \in 1 .. N : Handed(k) => Handed(k)',
         \A k \in 1 .. N : buf # <<>> /\ buf[1].sec = k /\ size[k] <= MaxPrivate =>
           Handed(k)' \/ (buf' # <<>> /\ buf'[1].sec = k),
         \A i \in DOMAIN CellsRx :
           /\ pos <= i /\ ~ pos' <= i
           /\ Starts(CellsRx[i]) /\ size[CellsRx[i].sec] <= MaxPrivate
           => \/ Handed(CellsRx[i].sec)'
              \/ buf' # <<>> /\ buf'[1].sec = CellsRx[i].sec
  PROVE  MissedInv'
<1>1. TypeOK /\ SenderInv /\ LostInv /\ FollowedInv
  BY DEF IInv, TransportInv, MissedInv
<1>2. size' = size /\ sent' = sent /\ cursor' = cursor /\ lost' = lost /\ rx' = rx
  BY DEF senderVars
<1>3. ASSUME NEW q \in 1 .. rx, NEW i \in DOMAIN sent[q].cells, Due(q, i)
      PROVE  Kept(q, i)'
  <2> DEFINE k == sent[q].cells[i].sec
  <2>1. rx \in DOMAIN sent /\ q \in DOMAIN sent /\ CellsRx = sent[rx].cells
    BY <1>1, ReceiverTypes, SenderTypes
  <2>2. k \in 1 .. N
    <3>1. k # 0
      BY <1>3 DEF Due, Starts
    <3>2. sent[q].cells[i] \in Cell
      BY <1>1, <2>1, SentTypes
    <3> QED
      BY <3>1, <3>2, TransportAssumption DEF Cell
  <2>3. Kept(q, i)
    BY <1>1, <1>3 DEF FollowedInv
  <2>4. CASE Handed(k)
    BY <1>2, <2>2, <2>4 DEF Kept
  <2>5. CASE buf # <<>> /\ buf[1].sec = k
    BY <1>2, <1>3, <2>2, <2>5 DEF Kept, Due
  <2>6. CASE q = rx /\ pos <= i
    <3>1. CASE pos' <= i
      BY <1>2, <2>6, <3>1 DEF Kept
    <3>2. CASE ~ pos' <= i
      <4>1. i \in DOMAIN CellsRx /\ CellsRx[i] = sent[q].cells[i]
        BY <2>1, <2>6
      <4>2. Starts(CellsRx[i]) /\ size[CellsRx[i].sec] <= MaxPrivate
        BY <1>3, <4>1 DEF Due
      <4>3. \/ Handed(CellsRx[i].sec)'
            \/ buf' # <<>> /\ buf'[1].sec = CellsRx[i].sec
        BY ONLY <2>6, <3>2, <4>1, <4>2,
                \A j \in DOMAIN CellsRx :
                  /\ pos <= j /\ ~ pos' <= j
                  /\ Starts(CellsRx[j]) /\ size[CellsRx[j].sec] <= MaxPrivate
                  => \/ Handed(CellsRx[j].sec)'
                     \/ buf' # <<>> /\ buf'[1].sec = CellsRx[j].sec
      <4>4. (CellsRx[i].sec)' = k
        BY <1>2, <4>1 DEF CellsRx
      <4>5. CellsRx[i].sec = k
        BY <4>1
      <4>6. Handed(k)' \/ (buf' # <<>> /\ buf'[1].sec = k)
        BY <1>2, <4>3, <4>4, <4>5 DEF Handed
      <4> QED
        BY <1>2, <4>6 DEF Kept
    <3> QED
      BY <3>1, <3>2
  <2> QED
    BY <2>3, <2>4, <2>5, <2>6 DEF Kept
<1>4. FollowedInv'
  BY <1>2, <1>3 DEF FollowedInv, Due, Unlost, Starts, Carries
<1>5. LostInv'
  BY <1>1, <1>2 DEF LostInv
<1> QED
  BY <1>4, <1>5, SentSame DEF MissedInv

LEMMA SameOut ==
  ASSUME UNCHANGED <<senderVars, out>>, NEW k, Handed(k)
  PROVE  Handed(k)'
BY DEF Handed, Section, Bytes, senderVars

(* Going on at ts_next_section passes by no start of a section. *)
LEMMA PassesNoStart ==
  ASSUME IInv, rx \in DOMAIN sent, CellsRx = sent[rx].cells,
         NEW i \in DOMAIN CellsRx, ~ NextSection(sent[rx]) <= i
  PROVE  ~ Starts(CellsRx[i])
<1>1. TypeOK /\ SenderInv
  BY DEF IInv, TransportInv
<1>2. NextSection(sent[rx]) \in Nat /\ i \in Nat
  BY <1>1, NextSectionFacts, SentTypes
<1>3. i < NextSection(sent[rx])
  BY <1>2
<1> QED
  BY <1>1, <1>3, NextSectionFacts

(* After stuffing comes nothing but stuffing. *)
LEMMA StuffingKeeps ==
  ASSUME IInv, MissedInv, AssembleStuffing, UNCHANGED <<senderVars, cursor, lost>>
  PROVE  MissedInv'
<1>1. TypeOK /\ SenderInv /\ StuffingInv
  BY DEF IInv, TransportInv, MissedInv
<1>2. /\ ~ Idle /\ buf = <<>> /\ CellsRx[pos] = Pad
      /\ UNCHANGED <<rx, buf, out>>
  BY DEF AssembleStuffing
<1>3. /\ pos \in Nat /\ pos >= 1 /\ Len(CellsRx) \in Nat /\ pos <= Len(CellsRx)
      /\ DOMAIN CellsRx = 1 .. Len(CellsRx)
  BY <1>1, <1>2, ReceiverTypes DEF Idle
<1>4. StuffedLast(CellsRx)
  BY <1>1, <1>3, ReceiverTypes, EmptySeq DEF StuffingInv
<1>5. ASSUME NEW i \in DOMAIN CellsRx, pos <= i
      PROVE  ~ Starts(CellsRx[i])
  <2>1. CellsRx[pos].sec = 0 /\ pos \in DOMAIN CellsRx
    BY <1>2, <1>3, PadIsCell
  <2>2. i = pos \/ pos < i
    BY <1>3, <1>5
  <2> QED
    BY <1>4, <2>1, <2>2 DEF StuffedLast, Starts
<1>6. \A k \in 1 .. N : Handed(k) => Handed(k)'
  BY <1>2, SameOut
<1> QED
  BY <1>2, <1>5, <1>6, AssemblyKeeps

(* What was copied to the buffer, as far as it belongs to the section that *)
(* is read, holds no other start of a section.                             *)
LEMMA OneStart ==
  ASSUME IInv, NEW k \in 1 .. N, Reads(k), ~ first,
         NEW i \in DOMAIN CellsRx, pos <= i, i - pos < size[k], Starts(CellsRx[i])
  PROVE  i = pos /\ CellsRx[i].sec = k
<1>1. TypeOK /\ SenderInv
  BY DEF IInv, TransportInv
<1>2. /\ rx \in DOMAIN sent /\ CellsRx = sent[rx].cells /\ Len(buf) = 0
      /\ CellsRx[pos] = [sec |-> k, at |-> Len(buf)] /\ pos <= Len(CellsRx)
  BY DEF Reads
<1>3. /\ DOMAIN CellsRx = 1 .. Len(CellsRx) /\ Len(CellsRx) \in Nat
      /\ pos \in DOMAIN CellsRx
  BY <1>1, <1>2, ReceiverTypes
<1>4. Runs(CellsRx)
  BY <1>1, <1>2 DEF SenderInv, PacketInv
<1>5. /\ CellsRx[pos].sec = k /\ CellsRx[pos].at = 0 /\ k # 0
      /\ 0 + (i - pos) < size[k]
  BY <1>2, <1>3, TransportAssumption
<1>6. CellsRx[i] = [sec |-> k, at |-> 0 + (i - pos)]
  BY <1>3, <1>4, <1>5 DEF Runs
<1>7. CellsRx[i].sec = k /\ CellsRx[i].at = i - pos
  BY <1>3, <1>6
<1> QED
  BY <1>3, <1>7 DEF Starts

(* The buffer is of the section that is read. *)
LEMMA BufferReads ==
  ASSUME IInv, NEW k \in 1 .. N, Reads(k), buf # <<>>
  PROVE  buf[1].sec = k
<1>1. TypeOK /\ SenderInv
  BY DEF IInv, TransportInv
<1>2. buf = Bytes(k, 0, Len(buf)) /\ Len(buf) \in Nat /\ Len(buf) > 0
  BY <1>1, ReceiverTypes DEF Reads
<1>3. 1 \in 1 .. Len(buf) /\ 0 \in Nat
  BY <1>2
<1>4. Bytes(k, 0, Len(buf))[1] = [sec |-> k, at |-> 0 + 1 - 1]
  BY <1>2, <1>3, BytesFacts
<1> QED
  BY <1>2, <1>4

(* A section that is too large is dropped, and with it no other: it goes   *)
(* on beyond the packet it starts in.                                      *)
LEMMA InvalidKeeps ==
  ASSUME IInv, MissedInv, AssembleInvalid, UNCHANGED <<senderVars, cursor, lost>>
  PROVE  MissedInv'
<1>1. TypeOK /\ SenderInv
  BY DEF IInv, TransportInv
<1>2. PICK k \in 1 .. N : Reads(k)
  BY AssemblingReads DEF AssembleInvalid
<1>3. UNCHANGED <<rx, out>> /\ pos' = ReadFrom(EndOfPacket)
  BY DEF AssembleInvalid
<1>4. size[k] > MaxPrivate
  BY <1>2, FilledFacts DEF AssembleInvalid
<1>5. size[k] \in Nat /\ MaxPrivate \in Nat
  BY <1>1, SizeBounds, TransportAssumption DEF TypeOK
<1>6. rx \in DOMAIN sent /\ CellsRx = sent[rx].cells
  BY <1>2 DEF Reads
<1>7. /\ DOMAIN CellsRx = 1 .. Len(CellsRx) /\ Len(CellsRx) \in Nat
      /\ pos \in Nat /\ pos >= 1 /\ first \in BOOLEAN
  BY <1>1, ReceiverTypes
<1>8. Len(CellsRx) <= Cap /\ Cap <= MaxPrivate
  <2>1. Used(sent[rx]) = Cap
    BY <1>1, <1>6 DEF SenderInv
  <2>2. CASE sent[rx].start
    BY <1>6, <1>7, <2>1, <2>2, TransportAssumption DEF Used
  <2>3. CASE ~ sent[rx].start
    BY <1>6, <1>7, <2>1, <2>3, TransportAssumption DEF Used
  <2> QED
    BY <2>2, <2>3, TransportAssumption
<1>9. ASSUME NEW i \in DOMAIN CellsRx, pos <= i, ~ pos' <= i, Starts(CellsRx[i])
      PROVE  CellsRx[i].sec = k
  <2>1. CASE first
    BY <1>3, <1>6, <1>9, <2>1, PassesNoStart DEF ReadFrom
  <2>2. CASE ~ first
    <3>1. i - pos < size[k]
      BY <1>4, <1>5, <1>7, <1>8, <1>9, TransportAssumption
    <3> QED
      BY <1>2, <1>9, <2>2, <3>1, OneStart
  <2> QED
    BY <1>7, <2>1, <2>2
<1>10. buf # <<>> => buf[1].sec = k
  BY <1>2, BufferReads
<1>11. \A j \in 1 .. N : Handed(j) => Handed(j)'
  BY <1>3, SameOut
<1>12. ~ size[k] <= MaxPrivate
  BY <1>4, <1>5
<1> QED
  BY <1>3, <1>9, <1>10, <1>11, <1>12, AssemblyKeeps

(* The section goes on: it is in the buffer now, and so is nothing else.   *)
LEMMA MoreKeeps ==
  ASSUME IInv, MissedInv, AssembleMore, UNCHANGED <<senderVars, cursor, lost>>
  PROVE  MissedInv'
<1>1. TypeOK /\ SenderInv
  BY DEF IInv, TransportInv
<1>2. PICK k \in 1 .. N : Reads(k)
  BY AssemblingReads DEF AssembleMore
<1>3. buf' = Filled /\ pos' = ReadFrom(pos + Copied) /\ UNCHANGED <<rx, out>>
  BY DEF AssembleMore
<1>4. /\ Copied \in Nat \ {0} /\ Filled \in Seq(Cell) /\ Len(Filled) = Len(buf) + Copied
      /\ \A i \in 1 .. Len(Filled) : i <= size[k] => Filled[i] = [sec |-> k, at |-> i - 1]
      /\ Len(Filled) >= Hdr => DeclaredSizes(Filled) = {size[k]}
  BY <1>2, FilledFacts
<1>5. /\ size[k] \in Nat /\ Hdr \in Nat /\ Hdr <= size[k] /\ 1 <= size[k]
      /\ Len(buf) \in Nat /\ pos \in Nat /\ first \in BOOLEAN
      /\ DOMAIN CellsRx = 1 .. Len(CellsRx) /\ Len(CellsRx) \in Nat
  BY <1>1, ReceiverTypes, SizeBounds, TransportAssumption DEF TypeOK
<1>6. Len(Filled) <= size[k]
  <2>1. CASE Len(Filled) >= Hdr
    <3>1. \E s \in DeclaredSizes(Filled) : s > Len(Filled)
      BY <2>1 DEF AssembleMore
    <3> QED
      BY <1>4, <1>5, <2>1, <3>1
  <2>2. CASE ~ Len(Filled) >= Hdr
    BY <1>4, <1>5, <2>2
  <2> QED
    BY <2>1, <2>2
<1>7. Filled # <<>> /\ Filled[1].sec = k
  <2>1. 1 \in 1 .. Len(Filled) /\ 1 <= size[k]
    BY <1>4, <1>5
  <2>2. Filled[1] = [sec |-> k, at |-> 1 - 1]
    BY <1>4, <2>1
  <2> QED
    BY <1>4, <2>1, <2>2, EmptySeq
<1>8. ASSUME NEW i \in DOMAIN CellsRx, pos <= i, ~ pos' <= i, Starts(CellsRx[i])
      PROVE  CellsRx[i].sec = k
  <2>1. CASE first
    BY <1>2, <1>3, <1>8, <2>1, PassesNoStart DEF ReadFrom, Reads
  <2>2. CASE ~ first
    <3>1. i - pos < size[k]
      BY <1>2, <1>3, <1>4, <1>5, <1>6, <1>8, <2>2 DEF ReadFrom, Reads
    <3> QED
      BY <1>2, <1>8, <2>2, <3>1, OneStart
  <2> QED
    BY <1>5, <2>1, <2>2
<1>9. \A j \in 1 .. N : Handed(j) => Handed(j)'
  BY <1>3, SameOut
<1> QED
  BY <1>2, <1>3, <1>7, <1>8, <1>9, BufferReads, AssemblyKeeps

(* The section is whole: it is handed out, and reading goes on after it.   *)
LEMMA WholeKeeps ==
  ASSUME IInv, MissedInv, AssembleWhole, UNCHANGED <<senderVars, cursor, lost>>
  PROVE  MissedInv'
<1>1. TypeOK /\ SenderInv /\ ReadingInv /\ OutIsGenuine
  BY DEF IInv, TransportInv
<1>2. PICK k \in LastOut + 1 .. sec - 1 :
        /\ Reads(k)
        /\ pos' = ReadFrom(pos + (size[k] - Len(buf)))
        /\ out' = Append(out, Section(k))
  BY WholeStep
<1>3. k \in 1 .. N
  <2>1. LastOut < sec /\ sec \in 1 .. N + 1 /\ N \in Nat
    BY <1>1, TransportAssumption DEF TypeOK, ReadingInv
  <2>2. LastOut \in Nat
    BY <1>1, LastOutType
  <2> QED
    BY <2>1, <2>2
<1>4. UNCHANGED <<rx, size>>
  BY DEF AssembleWhole, senderVars
<1>5. /\ size[k] \in Nat /\ Len(buf) \in Nat /\ pos \in Nat /\ first \in BOOLEAN
      /\ DOMAIN CellsRx = 1 .. Len(CellsRx) /\ Len(CellsRx) \in Nat
  BY <1>1, <1>3, ReceiverTypes, SizeBounds DEF TypeOK
<1>6. /\ DOMAIN out' = 1 .. Len(out) + 1 /\ Len(out) \in Nat /\ DOMAIN out = 1 .. Len(out)
      /\ \A i \in 1 .. Len(out) : out'[i] = out[i]
      /\ out'[Len(out) + 1] = Section(k)
  <2> DEFINE e == Section(k)
  <2>1. out \in Seq(Seq(Cell)) /\ out' = Append(out, e)
    BY <1>1, <1>2 DEF TypeOK
  <2>2. Len(out) \in Nat /\ DOMAIN out = 1 .. Len(out)
    BY <2>1, LenProperties
  <2> HIDE DEF e
  <2>3. /\ DOMAIN out' = 1 .. Len(out) + 1
        /\ \A i \in 1 .. Len(out) : out'[i] = out[i]
        /\ out'[Len(out) + 1] = e
    BY ONLY <2>1, <2>2
  <2> QED
    BY <2>2, <2>3 DEF e
<1>7. \A j \in 1 .. N : Handed(j) => Handed(j)'
  <2>1. \A i \in 1 .. Len(out) : i \in 1 .. Len(out) + 1
    BY <1>6
  <2> QED
    BY <1>4, <1>6, <2>1 DEF Handed, Section, Bytes
<1>8. Handed(k)'
  <2>1. Len(out) + 1 \in 1 .. Len(out) + 1
    BY <1>6
  <2> QED
    BY <1>4, <1>6, <2>1 DEF Handed, Section, Bytes
<1>9. ASSUME NEW i \in DOMAIN CellsRx, pos <= i, ~ pos' <= i, Starts(CellsRx[i])
      PROVE  CellsRx[i].sec = k
  <2>1. CASE first
    BY <1>2, <1>9, <2>1, PassesNoStart DEF ReadFrom, Reads
  <2>2. CASE ~ first
    <3>1. i - pos < size[k]
      BY <1>2, <1>5, <1>9, <2>2 DEF ReadFrom, Reads
    <3> QED
      BY <1>2, <1>3, <1>9, <2>2, <3>1, OneStart
  <2> QED
    BY <1>5, <2>1, <2>2
<1>10. CellsRx' = CellsRx
  BY <1>4 DEF CellsRx, senderVars
<1>11. ASSUME NEW i \in DOMAIN CellsRx, pos <= i, ~ pos' <= i, Starts(CellsRx[i])
       PROVE  Handed(CellsRx[i].sec)'
  <2>1. (CellsRx[i].sec)' = k
    BY <1>9, <1>10, <1>11
  <2> QED
    BY <1>8, <2>1 DEF Handed
<1>12. buf # <<>> => buf[1].sec = k
  BY <1>2, <1>3, BufferReads
<1> QED
  BY <1>4, <1>7, <1>8, <1>11, <1>12, AssemblyKeeps

LEMMA MissedInvariant == Spec => [](IInv /\ MissedInv)
<1>1. Init => MissedInv
  <2> SUFFICES ASSUME Init
               PROVE  MissedInv
    OBVIOUS
  <2>1. /\ sec = 1 /\ off = 0 /\ pkt = NoPacket /\ sent = <<>>
        /\ cursor = 0 /\ rx = 0
    BY DEF Init
  <2>2. DOMAIN sent = {} /\ DOMAIN pkt.cells = {}
    BY <2>1 DEF NoPacket
  <2>3. StuffingInv
    BY <2>2 DEF StuffingInv, StuffedLast
  <2>4. BegunInv
    BY <2>1 DEF BegunInv
  <2>5. rx + 1 .. cursor = {} /\ 1 .. rx = {}
    BY <2>1
  <2> QED
    BY <2>3, <2>4, <2>5 DEF MissedInv, LostInv, FollowedInv
<1>2. IInv /\ MissedInv /\ [Next]_vars => MissedInv'
  <2> SUFFICES ASSUME IInv, MissedInv, [Next]_vars
               PROVE  MissedInv'
    OBVIOUS
  <2>1. CASE Assemble
    BY <2>1, StuffingKeeps, MoreKeeps, InvalidKeeps, WholeKeeps DEF Assemble
  <2>2. CASE UNCHANGED vars
    <3>1. UNCHANGED <<size, cursor, lost, receiverVars>> /\ sent' = sent /\ UNCHANGED senderVars
      BY <2>2 DEF vars, senderVars
    <3>2. LostInv' /\ FollowedInv'
      BY <3>1, FollowedKept DEF IInv, TransportInv, MissedInv
    <3> QED
      BY <3>1, <3>2, SentSame DEF MissedInv
  <2> QED
    BY <2>1, <2>2, SenderKeepsMissed, ArriveKeeps, RepeatKeeps, LoseKeeps DEF Next
<1> QED
  BY <1>1, <1>2, Invariance, PTL DEF Spec

(* Nothing of a section is written after what is in the packet being       *)
(* filled, if the section being split is a later one.                      *)
LEMMA NothingToCome ==
  ASSUME IInv, Idle, buf # <<>>, buf[1].sec < sec
  PROVE  rx < Len(sent) \/ Carries(pkt.cells, buf[1].sec)
<1> DEFINE k == buf[1].sec
           c == LastCell(CellsRx)
<1>1. TypeOK /\ SenderInv /\ CrossInv /\ BufferInv /\ ReadingInv
  BY DEF IInv, TransportInv
<1>2. /\ k \in 1 .. N /\ Len(buf) < size[k] /\ rx > 0
      /\ c = [sec |-> k, at |-> Len(buf) - 1]
  BY <1>1, IdleNotFirst DEF BufferInv
<1>3. /\ rx \in DOMAIN sent /\ CellsRx = sent[rx].cells /\ rx <= Len(sent)
      /\ Len(sent) \in Nat /\ rx \in Nat /\ sent # <<>>
  BY <1>1, <1>2, ReceiverTypes, SenderTypes
<1>4. Len(buf) \in Nat /\ size[k] \in Nat /\ sec \in Nat
  BY SMTT(30), <1>1, <1>2, ReceiverTypes, SizeBounds, TransportAssumption DEF TypeOK
<1>5. ~ Ends(c) /\ c.sec = k
  <2> HIDE DEF k
  <2> QED
    BY <1>2, <1>4, TransportAssumption DEF Ends
<1> SUFFICES ASSUME rx = Len(sent)
             PROVE  Carries(pkt.cells, k)
  BY <1>3
<1>6. c = LastCell(sent[Len(sent)].cells)
  BY <1>3
<1> HIDE DEF c
<1>7. CASE pkt.cells = <<>>
  <2>1. TailIs(c)
    BY <1>1, <1>3, <1>6, <1>7 DEF SenderInv
  <2>2. c.sec = sec
    BY <1>5, <2>1 DEF TailIs
  <2> QED
    BY <1>4, <1>5, <2>2
<1>8. CASE pkt.cells # <<>>
  <2>1. Link(c, pkt.cells[1])
    BY <1>1, <1>3, <1>6, <1>8 DEF CrossInv
  <2>2. pkt.cells[1].sec = k
    BY <1>5, <2>1 DEF Link
  <2>3. 1 \in DOMAIN pkt.cells
    BY <1>1, <1>8, SenderTypes
  <2> QED
    BY <2>2, <2>3 DEF Carries
<1> QED
  BY <1>7, <1>8

(* A section that fits the limit and none of whose packets was lost is     *)
(* handed out by handle_psi_packet, whatever was lost or repeated around   *)
(* it, and whatever shares its packets.                                    *)
THEOREM NothingIsMissed == Spec => []NothingMissed
<1>1. IInv /\ MissedInv => NothingMissed
  <2> SUFFICES ASSUME IInv, MissedInv, NEW k \in 1 .. sec - 1, size[k] <= MaxPrivate,
                      Idle, ~ Carries(pkt.cells, k), Carriers(k) \subseteq (1 .. cursor) \ lost
               PROVE  Handed(k)
    BY DEF NothingMissed, Delivered, Handed
  <2>1. TypeOK /\ SenderInv
    BY DEF IInv, TransportInv
  <2>2. k \in 1 .. N /\ k < sec /\ k # 0
    BY <2>1, TransportAssumption DEF TypeOK
  <2>3. ~ Holds(pkt.cells, First(k))
    BY DEF Holds, First, Carries
  <2>4. PICK q \in DOMAIN sent : Holds(sent[q].cells, First(k))
    BY <2>2, <2>3 DEF MissedInv, BegunInv
  <2>5. PICK i \in DOMAIN sent[q].cells : sent[q].cells[i] = First(k)
    BY <2>4 DEF Holds
  <2>6. sent[q].cells[i].sec = k /\ sent[q].cells[i].at = 0
    BY <2>5 DEF First
  <2>7. q \in 1 .. cursor /\ q \notin lost
    BY <2>6 DEF Carriers, Carries
  <2>8. /\ rx \in Nat /\ cursor \in Nat /\ Len(CellsRx) \in Nat /\ pos \in Nat
        /\ (rx > 0 => CellsRx = sent[rx].cells) /\ Len(sent) \in Nat
        /\ DOMAIN sent = 1 .. Len(sent) /\ cursor <= Len(sent)
    BY <2>1, ReceiverTypes, SenderTypes
  <2>9. q \in 1 .. rx
    BY <2>7, <2>8 DEF MissedInv, LostInv
  <2>10. Unlost(k)
    <3> SUFFICES ASSUME NEW r \in lost, Carries(sent[r].cells, k)
                 PROVE  FALSE
      BY DEF Unlost
    <3>1. r \in DOMAIN sent
      BY <2>1, <2>8 DEF TypeOK
    <3> QED
      BY <3>1 DEF Carriers
  <2>11. Kept(q, i)
    <3>1. Due(q, i)
      BY <2>2, <2>6, <2>10 DEF Due, Starts
    <3> QED
      BY <2>9, <3>1 DEF MissedInv, FollowedInv
  <2>12. CASE buf # <<>> /\ buf[1].sec = k
    <3>1. rx < Len(sent)
      BY <2>2, <2>12, NothingToCome
    <3>2. Carries(sent[rx + 1].cells, k)
      BY <2>12, <3>1, GoesOn
    <3>3. rx + 1 \in 1 .. cursor /\ rx + 1 \notin lost
      <4>1. rx + 1 \in DOMAIN sent
        BY <2>8, <3>1
      <4> QED
        BY <3>2, <4>1 DEF Carriers
    <3> QED
      BY <2>8, <3>3 DEF MissedInv, LostInv
  <2>13. CASE q = rx /\ pos <= i
    <3>1. i \in Nat /\ i <= Len(sent[q].cells)
      BY <2>1, SentTypes
    <3> QED
      BY <2>8, <2>9, <2>13, <3>1 DEF Idle
  <2> QED
    BY <2>6, <2>11, <2>12, <2>13 DEF Kept
<1> QED
  BY <1>1, MissedInvariant, PTL
=============================================================================
