-------------------------- MODULE MultiplexProofs --------------------------
(***************************************************************************)
(* Proofs about Multiplex, for every set of PIDs, every size of section    *)
(* and packet and every period of the continuity counter: the counter that *)
(* all PIDs share splices sections only where the receiver is blind, and   *)
(* costs one only where its first packet looks like a repetition.          *)
(***************************************************************************)
EXTENDS Multiplex, Modular, SequenceTheorems, TLAPS

(* A byte of a section, or of stuffing. *)
Byte == [num : Nat, at : Nat, of : Sizes] \cup {Pad}

Packet == [pid : MuxPids, cc : 0 .. CCMod - 1, start : BOOLEAN, cells : Seq(Byte)]

TypeOK ==
  /\ cc \in 0 .. CCMod - 1
  /\ section \in [pid : MuxPids, num : Nat, of : Sizes] \cup {None}
  /\ off \in Nat /\ written \in Nat
  /\ pkt \in Packet \cup {None}
  /\ reads \subseteq MuxPids /\ blind \subseteq MuxPids
  /\ lastCc \in [MuxPids -> -1 .. CCMod - 1]
  /\ buf \in [MuxPids -> Seq(Byte)]
  /\ pos \in Nat /\ first \in BOOLEAN
  /\ given \in Seq(Byte)
  /\ arrived \in [MuxPids -> Nat] /\ handled \in [MuxPids -> Nat]
  /\ intact \in BOOLEAN

(* A buffer does not yet hold as much as it declares. *)
Short(b) ==
  Len(b) >= Hdr /\ b[Hdr] # Pad /\ b[Hdr].at = Hdr - 1 => Len(b) < b[Hdr].of

(* Whatever was spliced, the buffers have room and reading stays in the    *)
(* packet.                                                                 *)
BoundsInv ==
  /\ \A p \in MuxPids : Len(buf[p]) < MaxPrivate + Hdr /\ Short(buf[p])
  /\ pkt = None => pos = 0
  /\ pkt # None => pos <= EndOfPacket

(* The counter is that of the packets written, for the generator and for   *)
(* each PID as of its last packet.                                         *)
CountersInv ==
  /\ cc = written % CCMod
  /\ pkt # None => written > 0 /\ pkt.cc = (written - 1) % CCMod
  /\ \A p \in MuxPids :
       /\ handled[p] <= arrived[p]
       /\ IF pkt = None THEN arrived[p] <= written ELSE arrived[p] < written
       /\ lastCc[p] = IF arrived[p] = 0 THEN -1 ELSE (arrived[p] - 1) % CCMod

(* What a packet holds: bytes of the section being output, up to the       *)
(* section offset, then stuffing, which only the last packet has.          *)
From == pkt.cells[1].at
PacketInv ==
  /\ section # None => off <= section.of
  /\ pkt # None =>
       /\ section # None
       /\ pkt.pid = section.pid
       /\ Len(pkt.cells) = IF pkt.start THEN Cap - 1 ELSE Cap
       /\ From \in Nat /\ From < off /\ (pkt.start <=> From = 0)
       /\ off - From <= Len(pkt.cells)
       /\ off < section.of => off - From = Len(pkt.cells)
       /\ \A i \in DOMAIN pkt.cells :
            pkt.cells[i] = IF i <= off - From
              THEN [num |-> section.num, at |-> From + i - 1, of |-> section.of]
              ELSE Pad

(* Where the receiver is not blind, a buffer holds the start of a section, *)
(* which goes on with the packet being handled, or with the one written    *)
(* after the last that was.                                                *)
Handling(p) == pkt # None /\ pos # 0 /\ pkt.pid = p
GoesOn(p, c, n) ==
  /\ section # None /\ section.pid = p
  /\ section.num = c.num /\ section.of = c.of /\ off = n
HeldStart(p) ==
  LET c == buf[p][1]
      n == Len(buf[p])
  IN  /\ c.num \in Nat /\ c.of \in Sizes
      /\ buf[p] = Bytes(c, 0, n)
      /\ n < c.of
      /\ Handling(p) => IF first THEN pos = 1 /\ pkt.cells[1] = [c EXCEPT !.at = n]
                                 ELSE pos = EndOfPacket /\ GoesOn(p, c, n)
      /\ ~ Handling(p) =>
           /\ handled[p] > 0
           /\ written = handled[p] => GoesOn(p, c, n)
           /\ written = handled[p] + 1 /\ pkt # None =>
                pkt.pid = p /\ pkt.cells[1] = [c EXCEPT !.at = n]
BufferInv == \A p \in MuxPids \ blind : buf[p] # <<>> => HeldStart(p)

(* With an empty buffer reading is at the start of a section, or in what   *)
(* is stuffing up to the end.                                              *)
ReadingInv ==
  pkt # None /\ pos # 0 /\ pkt.pid \notin blind /\ Buffer = <<>> =>
    /\ ~ first
    /\ \/ pos = 1 /\ pkt.start
       \/ pos > 1 /\ \A i \in DOMAIN pkt.cells : i >= pos => pkt.cells[i] = Pad

(* As long as nothing has happened to the packets of a section, all of it  *)
(* that was written is in the buffer, or was given to handle_section.      *)
Held(n) == buf[section.pid] = Bytes(section, 0, n)
Given == given = Bytes(section, 0, section.of)
UpTo(n) == handled[section.pid] = n /\ arrived[section.pid] = n
IntactInv ==
  intact /\ section # None =>
    /\ pkt = None /\ 0 < off /\ off < section.of =>
         Held(off) /\ section.pid \notin blind /\ UpTo(written)
    /\ pkt = None /\ off = section.of => Given
    /\ Waiting /\ From > 0 =>
         Held(From) /\ section.pid \notin blind /\ UpTo(written - 1)
    /\ pkt # None /\ pos # 0 =>
         /\ section.pid \notin blind
         /\ \/ first /\ Held(From)
            \/ ~ first /\ From = 0 /\ Held(0) /\ pos = 1
            \/ ~ first /\ off < section.of /\ Held(off)
            \/ ~ first /\ off = section.of /\ Given

(* The inductive invariant. *)
IInv ==
  /\ TypeOK /\ BoundsInv /\ CountersInv /\ PacketInv
  /\ BufferInv /\ ReadingInv /\ IntactInv

-----------------------------------------------------------------------------
(* Bytes and blocks of bytes.                                              *)

LEMMA SizesFit ==
  /\ \A n \in Sizes : n \in Nat /\ Hdr <= n /\ n <= MaxPrivate /\ n >= 1
  /\ Hdr \in Nat \ {0} /\ MaxPrivate \in Nat
  /\ Cap \in Nat /\ Cap >= 2
BY MultiplexAssumption

LEMMA PadIsByte == Pad \in Byte
BY DEF Byte

LEMMA ByteIsNotPad ==
  ASSUME NEW num, NEW at, NEW of \in Sizes
  PROVE  [num |-> num, at |-> at, of |-> of] # Pad
<1>1. of # 0
  BY SizesFit
<1> QED
  BY <1>1 DEF Pad

LEMMA BytesFacts ==
  ASSUME NEW s, s.num \in Nat, s.of \in Sizes, NEW from \in Nat, NEW n \in Nat
  PROVE  /\ Bytes(s, from, n) \in Seq(Byte)
         /\ Len(Bytes(s, from, n)) = n
         /\ \A i \in 1 .. n : Bytes(s, from, n)[i] =
                               [num |-> s.num, at |-> from + i - 1, of |-> s.of]
<1>1. Bytes(s, from, n) \in [1 .. n -> Byte]
  <2>1. \A i \in 1 .. n : from + i - 1 \in Nat
    OBVIOUS
  <2> QED
    BY <2>1 DEF Bytes, Byte
<1>2. Bytes(s, from, n) \in Seq(Byte)
  BY <1>1, SeqDef
<1>3. Len(Bytes(s, from, n)) = n
  BY <1>1, <1>2, LenProperties
<1> QED
  BY <1>2, <1>3 DEF Bytes

(* A block of bytes is determined by what is in it. *)
LEMMA BytesEqual ==
  ASSUME NEW s, s.num \in Nat, s.of \in Sizes, NEW n \in Nat,
         NEW b \in Seq(Byte), Len(b) = n,
         \A i \in 1 .. n : b[i] = [num |-> s.num, at |-> i - 1, of |-> s.of]
  PROVE  b = Bytes(s, 0, n)
<1>1. /\ Bytes(s, 0, n) \in Seq(Byte)
      /\ Len(Bytes(s, 0, n)) = n
      /\ \A i \in 1 .. n : Bytes(s, 0, n)[i] = [num |-> s.num, at |-> 0 + i - 1, of |-> s.of]
  BY BytesFacts
<1>2. \A i \in 1 .. Len(b) : b[i] = Bytes(s, 0, n)[i]
  BY <1>1
<1> QED
  BY <1>1, <1>2, SeqEqual

LEMMA NoBytes == ASSUME NEW s PROVE Bytes(s, 0, 0) = <<>>
BY DEF Bytes

LEMMA PaddingFacts ==
  ASSUME NEW n \in Nat
  PROVE  /\ Padding(n) \in Seq(Byte)
         /\ Len(Padding(n)) = n
         /\ \A i \in 1 .. n : Padding(n)[i] = Pad
<1>1. Padding(n) \in [1 .. n -> Byte]
  BY PadIsByte DEF Padding
<1>2. Padding(n) \in Seq(Byte)
  BY <1>1, SeqDef
<1>3. Len(Padding(n)) = n
  BY <1>1, <1>2, LenProperties
<1> QED
  BY <1>2, <1>3 DEF Padding

-----------------------------------------------------------------------------
(* The generator.                                                          *)

(* None is neither a section nor a packet. *)
LEMMA NoneIsNothing ==
  /\ None \notin [pid : MuxPids, num : Nat, of : Sizes]
  /\ None \notin Packet
<1>1. [pid : MuxPids, num : Nat, of : Sizes] \subseteq [pid : MuxPids, num : Nat, of : Nat]
  BY SizesFit
<1>2. Byte \subseteq [num : Nat, at : Nat, of : Nat]
  BY SizesFit DEF Byte, Pad
<1>3. Packet \subseteq [pid : MuxPids, cc : Nat, start : BOOLEAN,
                       cells : Seq([num : Nat, at : Nat, of : Nat])]
  <2>1. Seq(Byte) \subseteq Seq([num : Nat, at : Nat, of : Nat])
    BY <1>2, SeqMonotonic
  <2>2. 0 .. CCMod - 1 \subseteq Nat
    BY MultiplexAssumption
  <2> QED
    BY <2>1, <2>2 DEF Packet
<1> QED
  BY <1>1, <1>3, MultiplexAssumption

(* What the types and PacketInv say of the packet that is there. *)
LEMMA PacketFacts ==
  ASSUME TypeOK, PacketInv, pkt # None
  PROVE  /\ pkt \in Packet /\ pkt.pid \in MuxPids /\ pkt.cc \in 0 .. CCMod - 1
         /\ pkt.cells \in Seq(Byte) /\ pkt.start \in BOOLEAN
         /\ DOMAIN pkt.cells = 1 .. Len(pkt.cells)
         /\ Len(pkt.cells) \in Nat \ {0}
         /\ section \in [pid : MuxPids, num : Nat, of : Sizes]
         /\ section.of \in Sizes /\ section.num \in Nat /\ section.pid = pkt.pid
         /\ From \in Nat /\ From < off /\ off <= section.of /\ (pkt.start <=> From = 0)
         /\ off \in Nat /\ off - From <= Len(pkt.cells)
         /\ off < section.of => off - From = Len(pkt.cells)
         /\ \A i \in 1 .. Len(pkt.cells) :
              pkt.cells[i] = IF i <= off - From
                THEN [num |-> section.num, at |-> From + i - 1, of |-> section.of]
                ELSE Pad
<1>1. pkt \in Packet /\ section \in [pid : MuxPids, num : Nat, of : Sizes]
  BY DEF TypeOK, PacketInv
<1>2. pkt.cells \in Seq(Byte) /\ pkt.start \in BOOLEAN /\ pkt.pid \in MuxPids
      /\ pkt.cc \in 0 .. CCMod - 1
  BY <1>1 DEF Packet
<1>3. DOMAIN pkt.cells = 1 .. Len(pkt.cells) /\ Len(pkt.cells) \in Nat
  BY <1>2, LenProperties
<1>4. Len(pkt.cells) # 0
  BY SizesFit DEF PacketInv
<1> QED
  BY <1>1, <1>2, <1>3, <1>4 DEF TypeOK, PacketInv

(* The packet that output_psi_section makes. *)
LEMMA PacketMade ==
  ASSUME TypeOK, PacketInv, Output
  PROVE  \E n \in Nat \ {0}, room \in {Cap - 1, Cap} :
           /\ n <= room /\ off + n <= section.of
           /\ off + n < section.of => n = room
           /\ room = Cap - 1 <=> off = 0
           /\ off' = off + n /\ written' = written + 1
           /\ section \in [pid : MuxPids, num : Nat, of : Sizes]
           /\ cc' = (cc + 1) % CCMod
           /\ pkt' \in Packet /\ pkt'.pid = section.pid /\ pkt'.cc = cc
           /\ pkt'.start \in BOOLEAN /\ (pkt'.start <=> off = 0)
           /\ Len(pkt'.cells) = room
           /\ \A i \in 1 .. room :
                pkt'.cells[i] = IF i <= n
                  THEN [num |-> section.num, at |-> off + i - 1, of |-> section.of]
                  ELSE Pad
<1> DEFINE room == IF off = 0 THEN Cap - 1 ELSE Cap
           n == Least(room, section.of - off)
           cells == Bytes(section, off, n) \o Padding(room - n)
<1>1. /\ section # None /\ off < section.of
      /\ pkt' = [pid |-> section.pid, cc |-> cc, start |-> off = 0, cells |-> cells]
      /\ off' = off + n /\ cc' = (cc + 1) % CCMod /\ written' = written + 1
  BY DEF Output, NextCc
<1>2. section \in [pid : MuxPids, num : Nat, of : Sizes] /\ off \in Nat
  BY <1>1 DEF TypeOK
<1>3. section.of \in Sizes /\ section.num \in Nat /\ section.pid \in MuxPids /\ section.of \in Nat
  BY <1>2, SizesFit
<1>4. room \in {Cap - 1, Cap} /\ room \in Nat /\ room >= 1 /\ (room = Cap - 1 <=> off = 0)
  BY SizesFit
<1> HIDE DEF room
<1>5. /\ n \in Nat \ {0} /\ n <= room /\ off + n <= section.of
      /\ off + n < section.of => n = room
  BY SMTT(30), <1>1, <1>2, <1>3, <1>4 DEF Least
<1> HIDE DEF n
<1>6. /\ Bytes(section, off, n) \in Seq(Byte) /\ Len(Bytes(section, off, n)) = n
      /\ \A i \in 1 .. n : Bytes(section, off, n)[i] =
                            [num |-> section.num, at |-> off + i - 1, of |-> section.of]
  BY ZenonT(60), <1>2, <1>3, <1>5, BytesFacts
<1>7. /\ Padding(room - n) \in Seq(Byte) /\ Len(Padding(room - n)) = room - n
      /\ \A i \in 1 .. room - n : Padding(room - n)[i] = Pad
  <2>1. room - n \in Nat
    BY <1>4, <1>5
  <2> QED
    BY <2>1, PaddingFacts
<1>8. PICK a \in Seq(Byte), b \in Seq(Byte) : a = Bytes(section, off, n) /\ b = Padding(room - n)
  BY <1>6, <1>7
<1>9. /\ cells \in Seq(Byte) /\ Len(cells) = Len(a) + Len(b)
      /\ \A i \in 1 .. Len(a) + Len(b) : cells[i] = IF i <= Len(a) THEN a[i] ELSE b[i - Len(a)]
  BY <1>8, ConcatProperties
<1>10. Len(a) = n /\ Len(b) = room - n /\ n + (room - n) = room
  BY <1>4, <1>5, <1>6, <1>7, <1>8
<1> HIDE DEF cells
<1>11. /\ Len(cells) = room
       /\ \A i \in 1 .. room :
            cells[i] = IF i <= n
              THEN [num |-> section.num, at |-> off + i - 1, of |-> section.of]
              ELSE Pad
  <2>1. Len(cells) = room
    BY <1>9, <1>10
  <2>2. ASSUME NEW i \in 1 .. room, i <= n
        PROVE  cells[i] = [num |-> section.num, at |-> off + i - 1, of |-> section.of]
    <3>1. i \in 1 .. n /\ i \in 1 .. Len(a) + Len(b) /\ i <= Len(a)
      BY <1>4, <1>5, <1>10, <2>2
    <3>2. cells[i] = a[i]
      BY <1>9, <3>1
    <3> QED
      BY <1>6, <1>8, <3>1, <3>2
  <2>3. ASSUME NEW i \in 1 .. room, ~ (i <= n)
        PROVE  cells[i] = Pad
    <3>1. i - n \in 1 .. room - n /\ cells[i] = b[i - n]
      BY <1>4, <1>5, <1>9, <1>10, <2>3
    <3> QED
      BY <1>7, <1>8, <3>1
  <2> QED
    BY <2>1, <2>2, <2>3
<1>12. pkt' \in Packet
  <2>1. cc \in 0 .. CCMod - 1
    BY DEF TypeOK
  <2> QED
    BY <1>1, <1>3, <1>9, <2>1 DEF Packet
<1> QED
  BY <1>1, <1>2, <1>4, <1>5, <1>11, <1>12

LEMMA OutputTypes ==
  ASSUME IInv, Output
  PROVE  TypeOK' /\ BoundsInv' /\ CountersInv' /\ PacketInv'
<1>1. PICK n \in Nat \ {0}, room \in {Cap - 1, Cap} :
           /\ n <= room /\ off + n <= section.of
           /\ off + n < section.of => n = room
           /\ room = Cap - 1 <=> off = 0
           /\ off' = off + n /\ written' = written + 1
           /\ section \in [pid : MuxPids, num : Nat, of : Sizes]
           /\ cc' = (cc + 1) % CCMod
           /\ pkt' \in Packet /\ pkt'.pid = section.pid /\ pkt'.cc = cc
           /\ pkt'.start \in BOOLEAN /\ (pkt'.start <=> off = 0)
           /\ Len(pkt'.cells) = room
           /\ \A i \in 1 .. room :
                pkt'.cells[i] = IF i <= n
                  THEN [num |-> section.num, at |-> off + i - 1, of |-> section.of]
                  ELSE Pad
  BY PacketMade DEF IInv
<1>2. /\ pkt = None /\ section # None
      /\ UNCHANGED <<section, reads, lastCc, buf, pos, first, given, arrived, handled, blind, intact>>
  BY DEF Output, reader, history
<1>3. TypeOK /\ BoundsInv /\ CountersInv /\ PacketInv
  BY DEF IInv
<1>4. off \in Nat /\ written \in Nat /\ cc \in 0 .. CCMod - 1 /\ room \in Nat /\ room >= 1
  BY <1>3, SizesFit DEF TypeOK
<1>5. TypeOK'
  <2>1. cc' \in 0 .. CCMod - 1
    BY <1>1, <1>4, MultiplexAssumption
  <2> QED
    BY SMTT(30), <1>1, <1>2, <1>3, <1>4, <2>1 DEF TypeOK
<1>6. BoundsInv'
  <2>1. pkt' # None
    BY <1>1, NoneIsNothing
  <2>2. pos' = 0
    BY <1>2, <1>3 DEF BoundsInv
  <2>3. EndOfPacket' = room + 1
    BY <1>1 DEF EndOfPacket
  <2> QED
    BY <1>2, <1>3, <1>4, <2>1, <2>2, <2>3 DEF BoundsInv, Short
<1>7. CountersInv'
  <2>1. cc' = written' % CCMod
    <3>1. cc = written % CCMod
      BY <1>3 DEF CountersInv
    <3>2. ((written % CCMod) + 1) % CCMod = (written + 1) % CCMod
      <4>1. CCMod \in Nat \ {0} /\ written \in Int /\ 1 \in Int
        BY <1>4, MultiplexAssumption
      <4> QED
        BY ONLY <4>1, AddRemainder
    <3> QED
      BY <1>1, <3>1, <3>2
  <2>2. pkt' # None /\ written' > 0 /\ pkt'.cc = (written' - 1) % CCMod
    <3>1. written' - 1 = written
      BY <1>1, <1>4
    <3>2. pkt'.cc = written % CCMod
      BY <1>1, <1>3 DEF CountersInv
    <3> QED
      BY <1>1, <1>4, <3>1, <3>2, NoneIsNothing
  <2>3. ASSUME NEW p \in MuxPids
        PROVE  /\ handled'[p] <= arrived'[p] /\ arrived'[p] < written'
               /\ lastCc'[p] = IF arrived'[p] = 0 THEN -1 ELSE (arrived'[p] - 1) % CCMod
    <3>1. arrived[p] \in Nat
      BY <1>3 DEF TypeOK
    <3> QED
      BY <1>1, <1>2, <1>3, <1>4, <3>1 DEF CountersInv
  <2> QED
    BY <2>1, <2>2, <2>3 DEF CountersInv
<1>8. PacketInv'
  <2>1. pkt'.cells[1] = [num |-> section.num, at |-> off, of |-> section.of]
    <3>1. 1 \in 1 .. room /\ 1 <= n /\ off + 1 - 1 = off
      BY <1>1, <1>4
    <3> QED
      BY <1>1, <3>1
  <2>2. From' = off
    BY <2>1 DEF From
  <2>3. off' - From' = n
    BY <1>1, <1>4, <2>2
  <2>4. DOMAIN pkt'.cells = 1 .. room
    BY <1>1, LenProperties DEF Packet
  <2>5. section.of \in Nat
    BY <1>1, SizesFit
  <2>6. Len(pkt'.cells) = IF pkt'.start THEN Cap - 1 ELSE Cap
    BY <1>1, <1>4, SizesFit
  <2>7. section' # None /\ pkt'.pid = section'.pid /\ section' = section
    BY <1>1, <1>2
  <2>8. off' <= section.of /\ From' \in Nat /\ From' < off' /\ (pkt'.start <=> From' = 0)
    <3>1. off' = off + n /\ off + n <= section.of /\ n \in Nat \ {0} /\ (pkt'.start <=> off = 0)
      BY <1>1
    <3> QED
      BY <1>4, <2>2, <3>1
  <2>9. n <= room /\ (off' < section.of => n = room)
    BY <1>1
  <2>10. \A i \in DOMAIN pkt'.cells :
           pkt'.cells[i] = IF i <= off' - From'
             THEN [num |-> section'.num, at |-> From' + i - 1, of |-> section'.of]
             ELSE Pad
    BY <1>1, <2>2, <2>3, <2>4, <2>7
  <2> QED
    BY <1>1, <2>3, <2>6, <2>7, <2>8, <2>9, <2>10 DEF PacketInv
<1> QED
  BY <1>5, <1>6, <1>7, <1>8

-----------------------------------------------------------------------------
(* The buffers between packets.                                            *)

LEMMA CountersBehind ==
  ASSUME IInv, NEW p \in MuxPids
  PROVE  /\ handled[p] \in Nat /\ arrived[p] \in Nat /\ written \in Nat
         /\ handled[p] <= arrived[p] /\ arrived[p] <= written
         /\ pkt # None => arrived[p] < written
BY DEF IInv, TypeOK, CountersInv

(* A buffer that holds the start of a section begins with its first byte.  *)
LEMMA BufferStarts ==
  ASSUME IInv, NEW p \in MuxPids \ blind, buf[p] # <<>>
  PROVE  /\ HeldStart(p)
         /\ buf[p] \in Seq(Byte) /\ Len(buf[p]) \in Nat \ {0}
         /\ buf[p][1] = [num |-> buf[p][1].num, at |-> 0, of |-> buf[p][1].of]
         /\ [buf[p][1] EXCEPT !.at = Len(buf[p])] =
              [num |-> buf[p][1].num, at |-> Len(buf[p]), of |-> buf[p][1].of]
<1>1. HeldStart(p)
  BY DEF IInv, BufferInv
<1>2. buf[p] \in Seq(Byte)
  BY DEF IInv, TypeOK
<1>3. Len(buf[p]) \in Nat \ {0}
  BY <1>2, EmptySeq
<1> DEFINE c == buf[p][1]
<1>4. c = [num |-> c.num, at |-> 0, of |-> c.of]
  <2>1. buf[p] = Bytes(c, 0, Len(buf[p])) /\ c.num \in Nat /\ c.of \in Sizes
    BY <1>1 DEF HeldStart
  <2>3. 1 \in 1 .. Len(buf[p]) /\ 0 + 1 - 1 = 0
    BY <1>3
  <2>4. Bytes(c, 0, Len(buf[p]))[1] = [num |-> c.num, at |-> 0, of |-> c.of]
    BY <2>3 DEF Bytes
  <2> QED
    BY <2>1, <2>4
<1>5. [c EXCEPT !.at = Len(buf[p])] = [num |-> c.num, at |-> Len(buf[p]), of |-> c.of]
  <2>1. PICK a, b : c = [num |-> a, at |-> 0, of |-> b]
    BY <1>4
  <2> QED
    BY <2>1
<1> QED
  BY <1>1, <1>2, <1>3, <1>4, <1>5

(* A step that takes no packet in hand leaves what buffers hold as it is.  *)
LEMMA BufferKept ==
  ASSUME IInv, NEW p \in MuxPids \ blind, buf[p] # <<>>, ~ Handling(p), ~ Handling(p)',
         buf'[p] = buf[p], handled'[p] = handled[p],
         LET c == buf[p][1]
             n == Len(buf[p])
         IN  /\ written' = handled[p] => GoesOn(p, c, n)'
             /\ written' = handled[p] + 1 /\ pkt' # None =>
                  pkt'.pid = p /\ pkt'.cells[1] = [c EXCEPT !.at = n]
  PROVE  HeldStart(p)'
<1>1. HeldStart(p)
  BY BufferStarts
<1>2. PICK c, n : c = buf[p][1] /\ n = Len(buf[p])
  OBVIOUS
<1>3. c' = c /\ n' = n /\ c = buf'[p][1] /\ n = Len(buf'[p])
  BY <1>2
<1> QED
  BY <1>1, <1>2, <1>3 DEF HeldStart

LEMMA OutputStep ==
  ASSUME IInv, Output
  PROVE  IInv'
<1>1. PICK n \in Nat \ {0} :
        /\ off' = off + n /\ written' = written + 1
        /\ off + n <= section.of
        /\ pkt' \in Packet /\ pkt'.pid = section.pid
        /\ (pkt'.start <=> off = 0)
        /\ pkt'.cells[1] = [num |-> section.num, at |-> off, of |-> section.of]
  <2>1. TypeOK /\ PacketInv
    BY DEF IInv
  <2>2. PICK n \in Nat \ {0}, room \in {Cap - 1, Cap} :
          /\ n <= room /\ off + n <= section.of
          /\ off' = off + n /\ written' = written + 1
          /\ pkt' \in Packet /\ pkt'.pid = section.pid
          /\ (pkt'.start <=> off = 0)
          /\ \A i \in 1 .. room :
                pkt'.cells[i] = IF i <= n
                  THEN [num |-> section.num, at |-> off + i - 1, of |-> section.of]
                  ELSE Pad
    BY <2>1, PacketMade
  <2>3. 1 \in 1 .. room /\ 1 <= n /\ off + 1 - 1 = off
    BY <2>1, SizesFit DEF TypeOK
  <2> QED
    BY <2>2, <2>3
<1>2. /\ pkt = None /\ section # None
      /\ UNCHANGED <<section, reads, lastCc, buf, pos, first, given, arrived, handled, blind, intact>>
  BY DEF Output, reader, history
<1>3. pos = 0 /\ pos' = 0 /\ off \in Nat
  BY <1>2 DEF IInv, BoundsInv, TypeOK
<1>4. From' = off /\ pkt' # None /\ Waiting'
  BY <1>1, <1>2, <1>3, NoneIsNothing DEF From, Waiting
<1>5. BufferInv'
  <2> SUFFICES ASSUME NEW p \in MuxPids \ blind, buf[p] # <<>>
               PROVE  HeldStart(p)'
    BY <1>2 DEF BufferInv
  <2>1. ~ Handling(p) /\ ~ Handling(p)'
    BY <1>2, <1>3 DEF Handling
  <2>2. handled[p] <= written /\ written \in Nat /\ handled[p] \in Nat
    BY CountersBehind
  <2>3. written' # handled[p]
    BY <1>1, <2>2
  <2>4. ASSUME written' = handled[p] + 1
        PROVE  pkt'.pid = p /\ pkt'.cells[1] = [buf[p][1] EXCEPT !.at = Len(buf[p])]
    <3>1. written = handled[p]
      BY <1>1, <2>2, <2>4
    <3>2. GoesOn(p, buf[p][1], Len(buf[p]))
      BY <2>1, <3>1, BufferStarts DEF HeldStart
    <3> QED
      BY ZenonT(60), <1>1, <3>2, BufferStarts DEF GoesOn
  <2> QED
    BY <1>2, <2>1, <2>3, <2>4, BufferKept
<1>6. ReadingInv'
  BY <1>3 DEF ReadingInv
<1>7. IntactInv'
  <2> SUFFICES ASSUME intact, off > 0
               PROVE  Held(off) /\ section.pid \notin blind /\ UpTo(written)
    <3>1. written' - 1 = written
      BY <1>1, CountersBehind DEF IInv, TypeOK
    <3>2. Held(off)' = Held(off)' /\ (Held(off) => Held(From)')
      BY <1>2, <1>4 DEF Held
    <3>3. UpTo(written) => UpTo(written - 1)'
      BY <1>2, <3>1 DEF UpTo
    <3> QED
      BY <1>2, <1>3, <1>4, <3>2, <3>3 DEF IntactInv
  <2>1. off < section.of
    BY DEF Output
  <2> QED
    BY <1>2, <1>3, <2>1 DEF IntactInv, IInv
<1> QED
  BY <1>5, <1>6, <1>7, OutputTypes DEF IInv

LEMMA GenerateStep ==
  ASSUME IInv, NEW p \in MuxPids, NEW s \in Sizes, Generate(p, s)
  PROVE  IInv'
<1>1. /\ pkt = None /\ section = None /\ off' = 0
      /\ section' = [pid |-> p, num |-> written + 1, of |-> s]
      /\ UNCHANGED <<cc, written, pkt, reads, lastCc, buf, pos, first, given, arrived, handled, blind>>
      /\ intact' = TRUE
  BY DEF Generate, reader
<1>2. section' \in [pid : MuxPids, num : Nat, of : Sizes] /\ s \in Nat /\ s >= 1
  BY <1>1, SizesFit DEF IInv, TypeOK
<1>3. section' # None
  BY <1>2, NoneIsNothing
<1>4. TypeOK'
  BY <1>1, <1>2 DEF IInv, TypeOK
<1>5. BoundsInv' /\ CountersInv'
  BY <1>1 DEF IInv, BoundsInv, Short, CountersInv
<1>6. PacketInv'
  BY <1>1, <1>2 DEF PacketInv
<1>7. BufferInv'
  <2> SUFFICES ASSUME NEW q \in MuxPids \ blind, buf[q] # <<>>
               PROVE  HeldStart(q)'
    BY <1>1 DEF BufferInv
  <2>1. ~ Handling(q) /\ ~ Handling(q)'
    BY <1>1 DEF Handling
  <2>2. written # handled[q]
    BY <1>1, <2>1, BufferStarts DEF HeldStart, GoesOn
  <2> QED
    BY <1>1, <2>1, <2>2, BufferKept
<1>8. ReadingInv' /\ IntactInv'
  BY <1>1, <1>2 DEF ReadingInv, IntactInv, Waiting
<1> QED
  BY <1>4, <1>5, <1>6, <1>7, <1>8 DEF IInv

LEMMA OutputDoneStep ==
  ASSUME IInv, OutputDone
  PROVE  IInv'
<1>1. /\ pkt = None /\ section # None /\ off = section.of /\ section' = None
      /\ UNCHANGED <<cc, off, written, pkt, reads, lastCc, buf, pos, first, given,
                     arrived, handled, blind, intact>>
  BY DEF OutputDone, reader, history
<1>2. TypeOK' /\ BoundsInv' /\ CountersInv' /\ PacketInv'
  BY <1>1 DEF IInv, TypeOK, BoundsInv, Short, CountersInv, PacketInv
<1>3. BufferInv'
  <2> SUFFICES ASSUME NEW q \in MuxPids \ blind, buf[q] # <<>>
               PROVE  HeldStart(q)'
    BY <1>1 DEF BufferInv
  <2>1. ~ Handling(q) /\ ~ Handling(q)'
    BY <1>1 DEF Handling
  <2>2. HeldStart(q) /\ Len(buf[q]) \in Nat
    BY BufferStarts
  <2>3. written # handled[q]
    <3>1. Len(buf[q]) # buf[q][1].of
      BY <2>2, SizesFit DEF HeldStart
    <3> QED
      BY <1>1, <2>1, <2>2, <3>1 DEF HeldStart, GoesOn
  <2> QED
    BY <1>1, <2>1, <2>3, BufferKept
<1>4. ReadingInv' /\ IntactInv'
  BY <1>1 DEF ReadingInv, IntactInv
<1> QED
  BY <1>2, <1>3, <1>4 DEF IInv

LEMMA SubscribeStep ==
  ASSUME IInv, NEW p \in Optional, Subscribe(p)
  PROVE  IInv'
<1>1. /\ UNCHANGED <<cc, section, off, written, pkt, lastCc, buf, pos, first, given,
                     arrived, handled, blind, intact>>
      /\ reads' = IF p \in reads THEN reads \ {p} ELSE reads \cup {p}
  BY DEF Subscribe, generator, reader, history
<1>2. TypeOK'
  BY <1>1, MultiplexAssumption DEF IInv, TypeOK
<1>3. BoundsInv' /\ CountersInv' /\ PacketInv'
  BY <1>1 DEF IInv, BoundsInv, Short, EndOfPacket, CountersInv, PacketInv, From
<1>4. BufferInv'
  BY <1>1 DEF IInv, BufferInv, HeldStart, Handling, EndOfPacket, GoesOn
<1>5. ReadingInv' /\ IntactInv'
  BY <1>1 DEF IInv, ReadingInv, Buffer, IntactInv, Waiting, Held, Given, UpTo, From
<1> QED
  BY <1>2, <1>3, <1>4, <1>5 DEF IInv

(* A packet that is lost, or not looked at. *)
LEMMA UnhandledStep ==
  ASSUME IInv, Lose \/ PassBy \/ TakeForRepetition
  PROVE  IInv'
<1>1. /\ pkt # None /\ pos = 0 /\ pkt' = None /\ pos' = 0
      /\ UNCHANGED <<cc, section, off, written, reads, buf, first, given, handled, blind>>
  BY DEF Lose, PassBy, TakeForRepetition, Waiting, Noted, generator, reader
<1>2. /\ \/ UNCHANGED <<lastCc, arrived>>
         \/ /\ lastCc' = [lastCc EXCEPT ![pkt.pid] = pkt.cc]
            /\ arrived' = [arrived EXCEPT ![pkt.pid] = written]
      /\ intact' \in BOOLEAN
  BY DEF Lose, PassBy, TakeForRepetition, Noted, reader, IInv, TypeOK
<1>3. TypeOK /\ BoundsInv /\ CountersInv /\ PacketInv
  BY DEF IInv
<1>4. pkt.pid \in MuxPids /\ pkt.cc \in 0 .. CCMod - 1
  BY <1>1, <1>3, PacketFacts
<1>5. TypeOK'
  <2>1. lastCc \in [MuxPids -> -1 .. CCMod - 1] /\ arrived \in [MuxPids -> Nat] /\ written \in Nat
    BY <1>3 DEF TypeOK
  <2>2. pkt.cc \in -1 .. CCMod - 1
    BY <1>4, MultiplexAssumption
  <2>3. lastCc' \in [MuxPids -> -1 .. CCMod - 1]
    BY <1>2, <2>1, <2>2
  <2>4. arrived' \in [MuxPids -> Nat]
    BY <1>2, <2>1
  <2> QED
    BY <1>1, <1>2, <1>3, <2>3, <2>4 DEF TypeOK
<1>6. BoundsInv'
  BY <1>1, <1>3 DEF BoundsInv, Short
<1>7. CountersInv'
  <2> SUFFICES ASSUME NEW p \in MuxPids
               PROVE  /\ handled[p] <= arrived'[p] /\ arrived'[p] <= written
                      /\ lastCc'[p] = IF arrived'[p] = 0 THEN -1 ELSE (arrived'[p] - 1) % CCMod
    BY <1>1, <1>3 DEF CountersInv
  <2>1. /\ handled[p] \in Nat /\ arrived[p] \in Nat /\ written \in Nat
        /\ handled[p] <= arrived[p] /\ arrived[p] < written
    BY <1>1, CountersBehind
  <2>2. /\ lastCc[p] = IF arrived[p] = 0 THEN -1 ELSE (arrived[p] - 1) % CCMod
        /\ pkt.cc = (written - 1) % CCMod
    BY <1>1, <1>3 DEF CountersInv
  <2>3. lastCc \in [MuxPids -> -1 .. CCMod - 1] /\ arrived \in [MuxPids -> Nat]
    BY <1>3 DEF TypeOK
  <2>4. CASE lastCc'[p] = lastCc[p] /\ arrived'[p] = arrived[p]
    BY <2>1, <2>2, <2>4
  <2>5. CASE lastCc'[p] = pkt.cc /\ arrived'[p] = written
    BY <2>1, <2>2, <2>5
  <2> QED
    BY <1>2, <2>3, <2>4, <2>5
<1>8. PacketInv'
  BY <1>1, <1>3 DEF PacketInv
<1>9. BufferInv'
  <2> SUFFICES ASSUME NEW q \in MuxPids \ blind, buf[q] # <<>>
               PROVE  HeldStart(q)'
    BY <1>1 DEF BufferInv
  <2>1. ~ Handling(q) /\ ~ Handling(q)'
    BY <1>1 DEF Handling
  <2>2. written # handled[q]
    BY <1>1, CountersBehind
  <2> QED
    BY <1>1, <2>1, <2>2, BufferKept
<1>10. ReadingInv'
  BY <1>1 DEF ReadingInv
<1>11. IntactInv'
  <2>1. intact' = FALSE
    <3>1. CASE Lose \/ PassBy
      BY <3>1 DEF Lose, PassBy
    <3>2. CASE TakeForRepetition
      <4>1. pkt.pid \in MuxPids /\ pkt.cc = lastCc[pkt.pid]
        BY <1>4, <3>2 DEF TakeForRepetition
      <4>2. pkt.cc # -1 /\ pkt.cc = (written - 1) % CCMod
        BY <1>1, <1>3, <1>4 DEF CountersInv
      <4>3. SawAny /\ pkt.cc = (arrived[pkt.pid] - 1) % CCMod
        BY <1>3, <4>1, <4>2 DEF CountersInv, SawAny
      <4>4. PICK x \in Int, y \in Int : x = arrived[pkt.pid] - 1 /\ y = written - 1
        BY <1>4, CountersBehind
      <4>5. Age = y - x
        BY <1>4, <4>4, CountersBehind DEF Age
      <4>6. (y - x) % CCMod = 0
        <5>1. CCMod \in Nat \ {0} /\ x % CCMod = y % CCMod
          BY <4>2, <4>3, <4>4, MultiplexAssumption
        <5> QED
          BY ONLY <5>1, x \in Int, y \in Int, SameCounter
      <4>7. Age % CCMod = 0
        BY <4>5, <4>6
      <4> QED
        BY <3>2, <4>3, <4>7 DEF TakeForRepetition
    <3> QED
      BY <3>1, <3>2
  <2> QED
    BY <2>1 DEF IntactInv
<1> QED
  BY <1>5, <1>6, <1>7, <1>8, <1>9, <1>10, <1>11 DEF IInv

-----------------------------------------------------------------------------
(* The start of handle_psi_packet.                                         *)

(* A buffer that the receiver continues, seeing neither a discontinuity    *)
(* nor reason to, continues with the packet that follows.                  *)
LEMMA FollowsOn ==
  ASSUME IInv, Waiting, pkt.pid \notin blind, Buffer # <<>>, ~ Discontinuity, ~ Unseen
  PROVE  /\ pkt.cells[1] = [Buffer[1] EXCEPT !.at = Len(Buffer)]
         /\ From = Len(Buffer)
<1>1. pkt # None /\ pos = 0 /\ TypeOK /\ CountersInv /\ PacketInv
  BY DEF Waiting, IInv
<1>2. PICK p \in MuxPids \ blind : p = pkt.pid
  BY <1>1, PacketFacts
<1>3. /\ handled[p] \in Nat /\ arrived[p] \in Nat /\ written \in Nat
      /\ handled[p] <= arrived[p] /\ arrived[p] < written
  BY <1>1, CountersBehind
<1>4. ~ Handling(p) /\ buf[p] # <<>>
  BY <1>1, <1>2 DEF Handling, Buffer
<1>5. HeldStart(p) /\ handled[p] > 0
  BY <1>4, BufferStarts DEF HeldStart
<1>6. arrived[p] = handled[p] /\ (Age = 1 \/ Age % CCMod # 1)
  BY <1>2 DEF Unseen
<1>7. lastCc[p] = (arrived[p] - 1) % CCMod /\ pkt.cc = (written - 1) % CCMod
  BY <1>1, <1>3, <1>5, <1>6 DEF CountersInv
<1>8. lastCc[p] # -1
  <2>1. CCMod \in Nat \ {0} /\ arrived[p] - 1 \in Int
    BY <1>3, MultiplexAssumption
  <2> QED
    BY <1>7, <2>1
<1>9. (lastCc[p] + CCMod + 1 - pkt.cc) % CCMod = 0
  BY <1>2, <1>8 DEF Discontinuity
<1>10. PICK x \in Int, y \in Int : x = arrived[p] - 1 /\ y = written - 1
  BY <1>3
<1>11. (y - x) % CCMod = 1
  <2>1. ((x % CCMod) + CCMod + 1 - (y % CCMod)) % CCMod = 0
    BY <1>7, <1>9, <1>10
  <2>2. CCMod \in Nat \ {0} /\ CCMod >= 2
    BY MultiplexAssumption
  <2> QED
    BY ONLY <2>1, <2>2, x \in Int, y \in Int, CounterAhead
<1>12. Age = y - x
  BY <1>2, <1>3, <1>10 DEF Age
<1>13. Age = 1
  BY <1>6, <1>11, <1>12
<1>14. written = handled[p] + 1
  BY SMTT(30), <1>3, <1>6, <1>10, <1>12, <1>13
<1>15. pkt.cells[1] = [buf[p][1] EXCEPT !.at = Len(buf[p])]
  BY <1>1, <1>4, <1>5, <1>14 DEF HeldStart
<1> QED
  BY <1>2, <1>4, <1>15, BufferStarts DEF Buffer, From

LEMMA LookAtStep ==
  ASSUME IInv, LookAt
  PROVE  IInv'
<1>1. /\ pkt # None /\ pos = 0 /\ Waiting
      /\ UNCHANGED <<cc, section, off, written, pkt, reads, lastCc, given, arrived, handled>>
      /\ TypeOK /\ BoundsInv /\ CountersInv /\ PacketInv /\ BufferInv /\ IntactInv
  BY DEF LookAt, Waiting, generator, IInv
<1>2. PICK p \in MuxPids : p = pkt.pid
  BY <1>1, PacketFacts
<1>3. PICK kept : /\ kept = IF Discontinuity THEN <<>> ELSE buf[p]
                  /\ buf' = [buf EXCEPT ![p] = kept]
                  /\ (first' <=> kept # <<>>) /\ first' \in BOOLEAN
                  /\ pos' = IF kept # <<>> THEN 1 ELSE NextSection
                  /\ kept # <<>> /\ (p \in blind \/ Unseen) =>
                       blind' = blind \cup {p} /\ intact' = FALSE
                  /\ ~ (kept # <<>> /\ (p \in blind \/ Unseen)) =>
                       blind' = blind \ {p} /\ intact' = intact
  BY <1>1, <1>2 DEF LookAt, IInv, TypeOK
<1>4. /\ section.pid = p /\ section # None /\ Len(pkt.cells) \in Nat \ {0}
      /\ DOMAIN pkt.cells = 1 .. Len(pkt.cells)
      /\ From \in Nat /\ (pkt.start <=> From = 0)
  BY <1>1, <1>2, PacketFacts DEF PacketInv
<1>5. kept \in Seq(Byte) /\ buf \in [MuxPids -> Seq(Byte)] /\ buf'[p] = kept
  BY <1>1, <1>3, EmptySeq DEF TypeOK
<1>6. pos' \in {1, EndOfPacket} /\ EndOfPacket = Len(pkt.cells) + 1 /\ EndOfPacket' = EndOfPacket
  BY <1>1, <1>3 DEF NextSection, EndOfPacket
<1>7. TypeOK'
  <2>1. buf' \in [MuxPids -> Seq(Byte)]
    BY <1>3, <1>5
  <2>2. pos' \in Nat
    BY <1>4, <1>6
  <2>3. blind' \subseteq MuxPids
    BY <1>1, <1>3 DEF TypeOK
  <2>4. intact' \in BOOLEAN
    BY <1>1, <1>3 DEF TypeOK
  <2> QED
    BY <1>1, <1>3, <2>1, <2>2, <2>3, <2>4 DEF TypeOK
<1>8. BoundsInv'
  <2>1. ASSUME NEW q \in MuxPids
        PROVE  Len(buf'[q]) < MaxPrivate + Hdr /\ Short(buf'[q])
    <3>1. CASE buf'[q] = buf[q]
      BY <1>1, <3>1 DEF BoundsInv
    <3>2. CASE buf'[q] = <<>>
      BY <3>2, SizesFit DEF Short
    <3> QED
      BY <1>3, <1>5, <3>1, <3>2
  <2> QED
    BY <1>1, <1>4, <1>6, <2>1 DEF BoundsInv
<1>9. CountersInv' /\ PacketInv'
  BY <1>1 DEF CountersInv, PacketInv, From
<1>10. ASSUME p \notin blind', kept # <<>>
       PROVE  /\ kept = buf[p] /\ p \notin blind
              /\ pkt.cells[1] = [kept[1] EXCEPT !.at = Len(kept)]
              /\ From = Len(kept)
  <2>1. p \notin blind /\ ~ Unseen /\ ~ Discontinuity /\ kept = buf[p]
    BY <1>3, <1>10
  <2> QED
    BY <1>1, <1>2, <1>10, <2>1, FollowsOn DEF Buffer
<1>11. BufferInv'
  <2> SUFFICES ASSUME NEW q \in MuxPids, q \notin blind', buf'[q] # <<>>
               PROVE  HeldStart(q)'
    BY DEF BufferInv
  <2>1. CASE q # p
    <3>1. ~ Handling(q) /\ ~ Handling(q)'
      BY <1>1, <1>2, <2>1 DEF Handling
    <3>2. buf'[q] = buf[q] /\ q \notin blind
      BY <1>3, <1>5, <2>1
    <3>3. HeldStart(q)
      BY <3>2, BufferStarts
    <3> QED
      BY <1>1, <3>1, <3>2, <3>3 DEF HeldStart, GoesOn
  <2>2. CASE q = p
    <3>1. kept # <<>> /\ buf'[p] = buf[p] /\ p \notin blind
      BY <1>5, <1>10, <2>2
    <3>2. HeldStart(p)
      BY <1>5, <3>1, BufferStarts
    <3>3. Handling(p)' /\ pos' = 1 /\ first'
      BY <1>1, <1>2, <1>3, <3>1 DEF Handling
    <3>4. pkt.cells[1] = [buf[p][1] EXCEPT !.at = Len(buf[p])]
      BY <1>5, <1>10, <2>2, <3>1
    <3> QED
      BY <1>1, <2>2, <3>1, <3>2, <3>3, <3>4 DEF HeldStart
  <2> QED
    BY <2>1, <2>2
<1>12. ReadingInv'
  <2> SUFFICES ASSUME kept = <<>>
               PROVE  /\ ~ first'
                      /\ \/ pos' = 1 /\ pkt.start
                         \/ pos' > 1 /\ \A i \in DOMAIN pkt.cells : i >= pos' => pkt.cells[i] = Pad
    BY <1>1, <1>2, <1>5 DEF ReadingInv, Buffer
  <2>1. pos' = NextSection /\ ~ first'
    BY <1>3
  <2> QED
    BY <1>4, <2>1 DEF NextSection, EndOfPacket
<1>13. IntactInv'
  <2>1. pkt' # None /\ pos' # 0 /\ ~ Waiting'
    BY <1>1, <1>4, <1>6 DEF Waiting
  <2> SUFFICES ASSUME intact'
               PROVE  /\ p \notin blind'
                      /\ \/ first' /\ buf'[p] = Bytes(section, 0, From)
                         \/ ~ first' /\ From = 0 /\ buf'[p] = Bytes(section, 0, 0) /\ pos' = 1
    <3>1. From' = From /\ section' = section
      BY <1>1 DEF From
    <3> QED
      BY <1>4, <2>1, <3>1 DEF IntactInv, Held
  <2>2. intact /\ p \notin blind' /\ ~ (kept # <<>> /\ (p \in blind \/ Unseen))
    BY <1>3
  <2>3. CASE From > 0
    <3>1. buf[p] = Bytes(section, 0, From) /\ p \notin blind /\ UpTo(written - 1)
      BY <1>1, <1>4, <2>2, <2>3 DEF IntactInv, Held
    <3>2. buf[p] # <<>>
      <4>1. section.num \in Nat /\ section.of \in Sizes /\ 0 \in Nat
        BY <1>1, PacketFacts
      <4>2. Len(Bytes(section, 0, From)) = From
        BY ONLY <1>4, <4>1, BytesFacts
      <4> QED
        BY <1>4, <2>3, <3>1, <4>2, EmptySeq
    <3>3. ~ Handling(p) /\ handled[p] > 0
      BY <1>1, <3>1, <3>2, BufferStarts DEF HeldStart, Handling
    <3>4. handled[p] = written - 1 /\ arrived[p] = written - 1 /\ written \in Nat
      BY <1>4, <3>1, CountersBehind DEF UpTo
    <3>5. PICK x \in Nat : x = written - 2
      BY <3>3, <3>4
    <3>6. arrived[p] - 1 = x /\ written - 1 = x + 1 /\ arrived[p] # 0
      BY <3>3, <3>4, <3>5
    <3>7. lastCc[p] = x % CCMod /\ pkt.cc = (x + 1) % CCMod
      BY <1>1, <3>6 DEF CountersInv
    <3>8. ((x % CCMod) + CCMod + 1 - ((x + 1) % CCMod)) % CCMod = 0
      <4>1. CCMod \in Nat \ {0}
        BY MultiplexAssumption
      <4> QED
        BY ONLY <4>1, x \in Nat, NextIsContinuous
    <3>9. ~ Discontinuity
      BY <1>2, <3>7, <3>8 DEF Discontinuity
    <3>10. kept = buf[p]
      BY <1>3, <3>9
    <3> QED
      BY <1>3, <1>5, <2>2, <3>1, <3>2, <3>10
  <2>4. CASE From = 0
    <3>1. kept = <<>>
      <4> SUFFICES ASSUME kept # <<>>
                   PROVE  FALSE
        OBVIOUS
      <4>1. From = Len(kept)
        BY <1>10, <2>2
      <4> QED
        BY <1>5, <2>4, <4>1, EmptySeq
    <3>2. pos' = 1 /\ ~ first'
      BY <1>3, <1>4, <2>4, <3>1 DEF NextSection
    <3> QED
      BY <1>5, <2>2, <2>4, <3>1, <3>2, NoBytes
  <2> QED
    BY <1>4, <2>3, <2>4
<1> QED
  BY <1>7, <1>8, <1>9, <1>11, <1>12, <1>13 DEF IInv

-----------------------------------------------------------------------------
(* psi_assemble_payload.                                                   *)

(* What is copied to the buffer, whatever the buffer holds. *)
LEMMA FilledFacts ==
  ASSUME IInv, Assembling
  PROVE  /\ Len(Buffer) \in Nat /\ Buffer \in Seq(Byte)
         /\ Copied \in Nat \ {0} /\ pos + Copied <= EndOfPacket
         /\ Copied = Least(EndOfPacket - pos, MaxPrivate + Hdr - Len(Buffer))
         /\ pos \in Nat /\ 1 <= pos /\ pos <= Len(pkt.cells)
         /\ EndOfPacket = Len(pkt.cells) + 1 /\ Len(pkt.cells) \in Nat \ {0}
         /\ Filled \in Seq(Byte) /\ Len(Filled) = Len(Buffer) + Copied
         /\ \A i \in 1 .. Len(Filled) :
              Filled[i] = IF i <= Len(Buffer) THEN Buffer[i]
                                              ELSE pkt.cells[pos + (i - Len(Buffer)) - 1]
<1>1. /\ pkt # None /\ pos # 0 /\ pos < EndOfPacket
      /\ TypeOK /\ BoundsInv /\ PacketInv
  BY DEF Assembling, Reading, IInv
<1>2. /\ pkt.cells \in Seq(Byte) /\ Len(pkt.cells) \in Nat \ {0}
      /\ DOMAIN pkt.cells = 1 .. Len(pkt.cells) /\ pkt.pid \in MuxPids
  BY <1>1, PacketFacts
<1>3. pos \in Nat /\ 1 <= pos /\ pos <= Len(pkt.cells) /\ EndOfPacket = Len(pkt.cells) + 1
  BY <1>1, <1>2 DEF TypeOK, EndOfPacket
<1>4. Buffer \in Seq(Byte) /\ Len(Buffer) \in Nat /\ Len(Buffer) < MaxPrivate + Hdr
  BY <1>1, <1>2, LenProperties DEF TypeOK, Buffer, BoundsInv
<1> DEFINE h == Len(Buffer)
           m == Copied
<1>5. /\ m \in Nat \ {0} /\ pos + m <= EndOfPacket
      /\ m = Least(EndOfPacket - pos, MaxPrivate + Hdr - Len(Buffer))
  BY <1>2, <1>3, <1>4, SizesFit DEF Copied, Least
<1> DEFINE d == SubSeq(pkt.cells, pos, pos + m - 1)
<1>6. Filled = Buffer \o d
  BY DEF Filled
<1> HIDE DEF m, h
<1>7. /\ d \in Seq(Byte) /\ Len(d) = m /\ \A i \in 1 .. m : d[i] = pkt.cells[pos + i - 1]
  <2>1. \A i \in pos .. pos + m - 1 : pkt.cells[i] \in Byte
    BY <1>2, <1>3, <1>5, ElementOfSeq
  <2>2. pos \in Int /\ pos + m - 1 \in Int /\ pos <= pos + m - 1 /\ (pos + m - 1) - pos + 1 = m
    BY <1>3, <1>5
  <2> QED
    BY <2>1, <2>2, SubSeqProperties
<1> HIDE DEF d
<1>8. /\ Filled \in Seq(Byte) /\ Len(Filled) = h + m
      /\ \A i \in 1 .. h + m : Filled[i] = IF i <= h THEN Buffer[i] ELSE d[i - h]
  <2>1. Buffer \in Seq(Byte) /\ d \in Seq(Byte) /\ Len(Buffer) = h /\ Len(d) = m
    BY <1>4, <1>7 DEF h
  <2> QED
    BY ONLY <1>6, <2>1, ConcatProperties
<1>9. ASSUME NEW i \in 1 .. h + m, ~ (i <= h)
      PROVE  Filled[i] = pkt.cells[pos + (i - h) - 1]
  <2>1. i - h \in 1 .. m
    BY <1>4, <1>5, <1>9 DEF h
  <2> QED
    BY <1>7, <1>8, <1>9, <2>1
<1> QED
  BY <1>2, <1>3, <1>4, <1>5, <1>8, <1>9 DEF h, m

(* The size that a buffer declares once it is known is more than what was  *)
(* in it before: reading never goes back.                                  *)
LEMMA SizeIsAhead ==
  ASSUME IInv, Assembling, Len(Filled) >= Hdr, NEW s \in DeclaredSizes(Filled)
  PROVE  s \in Nat /\ Hdr <= s /\ Len(Buffer) < s
<1>1. Len(Buffer) \in Nat /\ Hdr \in Nat \ {0} /\ MaxPrivate \in Nat
  BY FilledFacts, SizesFit
<1>2. Filled[Hdr] \in Byte
  <2>1. Hdr \in 1 .. Len(Filled) /\ Filled \in Seq(Byte)
    BY <1>1, FilledFacts
  <2> QED
    BY <2>1, ElementOfSeq
<1>3. CASE Filled[Hdr] # Pad /\ Filled[Hdr].at = Hdr - 1
  <2>1. s = Filled[Hdr].of
    BY <1>3 DEF DeclaredSizes
  <2>2. s \in Nat /\ Hdr <= s
    BY <1>2, <1>3, <2>1, SizesFit DEF Byte
  <2>3. CASE Hdr <= Len(Buffer)
    <3>1. Filled[Hdr] = Buffer[Hdr]
      BY <1>1, <2>3, FilledFacts
    <3>2. Short(Buffer)
      BY PacketFacts DEF IInv, BoundsInv, Buffer, Assembling, Reading
    <3> QED
      BY <1>1, <1>3, <2>1, <2>2, <2>3, <3>1, <3>2 DEF Short
  <2> QED
    BY <1>1, <2>2, <2>3
<1>4. CASE ~ (Filled[Hdr] # Pad /\ Filled[Hdr].at = Hdr - 1)
  <2>1. /\ s \in Hdr .. MaxPrivate + 1
        /\ Len(Buffer) >= Hdr => s > Len(Buffer)
    BY <1>4 DEF DeclaredSizes
  <2> QED
    BY <1>1, <2>1
<1> QED
  BY <1>3, <1>4

(* One call of psi_assemble_payload keeps to the packet and to the buffer, *)
(* whatever was spliced in it.                                             *)
LEMMA AssembleBounds ==
  ASSUME IInv, Assemble
  PROVE  TypeOK' /\ BoundsInv' /\ pos' >= 1
<1>1. /\ pkt # None /\ Reading
      /\ UNCHANGED <<cc, section, off, written, pkt, reads, lastCc, arrived, handled, blind, intact>>
      /\ TypeOK /\ BoundsInv /\ PacketInv
  BY DEF Assemble, AssembleStuffing, AssembleMore, AssembleInvalid, AssembleWhole,
         Assembling, Reading, generator, history, IInv
<1>2. PICK p \in MuxPids : p = pkt.pid
  BY <1>1, PacketFacts
<1>3. /\ EndOfPacket = Len(pkt.cells) + 1 /\ Len(pkt.cells) \in Nat \ {0}
      /\ EndOfPacket' = EndOfPacket
      /\ NextSection \in 1 .. EndOfPacket
  BY <1>1, PacketFacts DEF EndOfPacket, NextSection
<1>4. \A q \in 1 .. EndOfPacket : ReadFrom(q) \in 1 .. EndOfPacket
  BY <1>3 DEF ReadFrom
<1>5. /\ pos' \in 1 .. EndOfPacket /\ first' = FALSE
      /\ given' \in Seq(Byte)
      /\ \E b \in Seq(Byte) :
           /\ buf' = [buf EXCEPT ![p] = b]
           /\ Len(b) < MaxPrivate + Hdr /\ Short(b)
  <2>1. CASE AssembleStuffing
    <3>1. EndOfPacket \in 1 .. EndOfPacket
      BY <1>3
    <3>2. buf' = [buf EXCEPT ![p] = buf[p]] /\ buf[p] \in Seq(Byte)
      BY <1>1, <2>1 DEF TypeOK, AssembleStuffing
    <3> QED
      BY <1>1, <1>2, <1>4, <2>1, <3>1, <3>2 DEF AssembleStuffing, TypeOK, BoundsInv
  <2>2. CASE AssembleMore
    <3>1. /\ Assembling /\ buf' = [buf EXCEPT ![p] = Filled] /\ first' = FALSE
          /\ pos' = ReadFrom(pos + Copied) /\ given' = given
      BY <1>2, <2>2 DEF AssembleMore
    <3>2. pos + Copied \in 1 .. EndOfPacket
      BY <1>3, <3>1, FilledFacts
    <3>3. Filled \in Seq(Byte) /\ Len(Filled) \in Nat
      BY <3>1, FilledFacts, LenProperties
    <3>4. CASE Len(Filled) >= Hdr
      <4>1. PICK s \in DeclaredSizes(Filled) : s <= MaxPrivate /\ s > Len(Filled)
        BY <2>2, <3>4 DEF AssembleMore
      <4>2. s \in Nat
        BY <3>1, <3>4, SizeIsAhead
      <4>3. Short(Filled)
        BY <4>1 DEF Short, DeclaredSizes
      <4>4. Len(Filled) < MaxPrivate + Hdr
        BY <3>3, <4>1, <4>2, SizesFit
      <4> QED
        BY <1>1, <1>4, <3>1, <3>2, <3>3, <4>3, <4>4 DEF TypeOK
    <3>5. CASE ~ (Len(Filled) >= Hdr)
      <4>1. Len(Filled) < MaxPrivate + Hdr /\ Short(Filled)
        BY <3>3, <3>5, SizesFit DEF Short
      <4> QED
        BY <1>1, <1>4, <3>1, <3>2, <3>3, <4>1 DEF TypeOK
    <3> QED
      BY <3>4, <3>5
  <2>3. CASE AssembleInvalid
    <3>1. EndOfPacket \in 1 .. EndOfPacket
      BY <1>3
    <3>2. <<>> \in Seq(Byte) /\ Len(<<>>) < MaxPrivate + Hdr /\ Short(<<>>)
      BY EmptySeq, SizesFit DEF Short
    <3> QED
      BY <1>1, <1>2, <1>4, <2>3, <3>1, <3>2 DEF AssembleInvalid, TypeOK
  <2>4. CASE AssembleWhole
    <3>1. /\ Assembling /\ Len(Filled) >= Hdr
          /\ buf' = [buf EXCEPT ![p] = <<>>] /\ first' = FALSE
      BY <1>2, <2>4 DEF AssembleWhole
    <3>2. PICK s \in DeclaredSizes(Filled) :
            /\ s <= MaxPrivate /\ s <= Len(Filled)
            /\ given' = SubSeq(Filled, 1, s)
            /\ pos' = ReadFrom(pos + Copied - (Len(Filled) - s))
      BY <2>4 DEF AssembleWhole
    <3>3. s \in Nat /\ Len(Buffer) < s
      BY <3>1, SizeIsAhead
    <3>4. pos + Copied - (Len(Filled) - s) \in 1 .. EndOfPacket
      <4>1. PICK h \in Nat, m \in Nat, l \in Nat, k \in Nat :
              h = Len(Buffer) /\ m = Copied /\ l = Len(Filled) /\ k = pos
        BY <3>1, FilledFacts
      <4>2. l = h + m /\ k >= 1 /\ k + m <= EndOfPacket /\ s <= l /\ h < s
        BY <3>1, <3>2, <3>3, <4>1, FilledFacts
      <4>3. k + m - (l - s) \in 1 .. EndOfPacket
        BY ONLY <1>3, <3>3, <4>2, h \in Nat, m \in Nat, l \in Nat, k \in Nat
      <4> QED
        BY <4>1, <4>3
    <3>5. given' \in Seq(Byte)
      <4>1. Filled \in Seq(Byte) /\ Len(Filled) \in Nat
        BY <3>1, FilledFacts, LenProperties
      <4>2. \A i \in 1 .. s : Filled[i] \in Byte
        BY <3>2, <3>3, <4>1, ElementOfSeq
      <4> QED
        BY <3>2, <3>3, <4>2, SubSeqProperties
    <3>6. <<>> \in Seq(Byte) /\ Len(<<>>) < MaxPrivate + Hdr /\ Short(<<>>)
      BY EmptySeq, SizesFit DEF Short
    <3> QED
      BY <1>4, <3>1, <3>2, <3>4, <3>5, <3>6
  <2> QED
    BY <2>1, <2>2, <2>3, <2>4 DEF Assemble
<1>6. PICK b \in Seq(Byte) :
        /\ buf' = [buf EXCEPT ![p] = b]
        /\ Len(b) < MaxPrivate + Hdr /\ Short(b)
  BY <1>5
<1>7. buf \in [MuxPids -> Seq(Byte)]
  BY <1>1 DEF TypeOK
<1>8. buf' \in [MuxPids -> Seq(Byte)] /\ buf'[p] = b /\ \A q \in MuxPids \ {p} : buf'[q] = buf[q]
  BY <1>6, <1>7
<1>9. pos' \in Nat /\ pos' >= 1 /\ pos' <= EndOfPacket
  BY <1>3, <1>5
<1>10. TypeOK'
  BY <1>1, <1>5, <1>8, <1>9 DEF TypeOK
<1>11. BoundsInv'
  BY <1>1, <1>3, <1>6, <1>8, <1>9 DEF BoundsInv
<1> QED
  BY <1>9, <1>10, <1>11

(* Where the receiver is not blind, a call that assembles has the first    *)
(* bytes of the section in the buffer and goes on with those that follow.  *)
LEMMA AssemblesSection ==
  ASSUME IInv, Assembling, pkt.pid \notin blind
  PROVE  /\ pos = 1 /\ Len(Buffer) = From /\ (first <=> From > 0)
         /\ off <= Len(Filled)
         /\ off < section.of => Len(Filled) = off /\ pos + Copied = EndOfPacket
         /\ \A i \in 1 .. off : Filled[i] = [num |-> section.num, at |-> i - 1, of |-> section.of]
         /\ Len(Filled) >= Hdr => DeclaredSizes(Filled) = {section.of}
<1>1. pkt # None /\ pos # 0 /\ TypeOK /\ PacketInv /\ ReadingInv /\ first \in BOOLEAN
      /\ (Buffer = <<>> => pkt.cells[pos] # Pad)
  BY DEF Assembling, Reading, IInv, TypeOK
<1>2. /\ section.of \in Sizes /\ section.num \in Nat
      /\ From \in Nat /\ From < off /\ off <= section.of /\ (pkt.start <=> From = 0)
      /\ off \in Nat /\ off - From <= Len(pkt.cells)
      /\ off < section.of => off - From = Len(pkt.cells)
      /\ DOMAIN pkt.cells = 1 .. Len(pkt.cells)
      /\ \A i \in 1 .. Len(pkt.cells) :
           pkt.cells[i] = IF i <= off - From
             THEN [num |-> section.num, at |-> From + i - 1, of |-> section.of]
             ELSE Pad
  BY <1>1, PacketFacts
<1>3. PICK p \in MuxPids \ blind : p = pkt.pid
  BY <1>1, PacketFacts
<1>4. /\ Len(Buffer) \in Nat /\ Buffer \in Seq(Byte)
      /\ Copied \in Nat \ {0} /\ pos + Copied <= EndOfPacket
      /\ Copied = Least(EndOfPacket - pos, MaxPrivate + Hdr - Len(Buffer))
      /\ pos \in Nat /\ 1 <= pos /\ pos <= Len(pkt.cells)
      /\ EndOfPacket = Len(pkt.cells) + 1 /\ Len(pkt.cells) \in Nat \ {0}
      /\ Filled \in Seq(Byte) /\ Len(Filled) = Len(Buffer) + Copied
      /\ \A i \in 1 .. Len(Filled) :
           Filled[i] = IF i <= Len(Buffer) THEN Buffer[i]
                                           ELSE pkt.cells[pos + (i - Len(Buffer)) - 1]
  BY FilledFacts
<1>5. pkt.cells[1] = [num |-> section.num, at |-> From, of |-> section.of]
  <2>1. 1 \in 1 .. Len(pkt.cells) /\ 1 <= off - From /\ From + 1 - 1 = From
    BY <1>2, <1>4
  <2> QED
    BY <1>2, <2>1
<1>6. /\ pos = 1 /\ Len(Buffer) = From /\ (first <=> From > 0)
      /\ \A i \in 1 .. From : Buffer[i] = [num |-> section.num, at |-> i - 1, of |-> section.of]
  <2>1. CASE Buffer = <<>>
    <3>1. /\ ~ first
          /\ \/ pos = 1 /\ pkt.start
             \/ pos > 1 /\ \A i \in DOMAIN pkt.cells : i >= pos => pkt.cells[i] = Pad
      <4>1. pkt.pid \notin blind
        BY <1>3
      <4> QED
        BY <1>1, <2>1, <4>1 DEF ReadingInv
    <3>2. ~ (pos > 1 /\ \A i \in DOMAIN pkt.cells : i >= pos => pkt.cells[i] = Pad)
      <4>1. pos \in DOMAIN pkt.cells /\ pos >= pos
        BY <1>2, <1>4
      <4>2. pkt.cells[pos] # Pad
        BY <1>1, <2>1
      <4> QED
        BY <4>1, <4>2
    <3>3. From = 0 /\ pos = 1 /\ ~ first /\ Len(Buffer) = 0
      BY <1>2, <2>1, <3>1, <3>2, EmptySeq
    <3> QED
      BY <3>3
  <2>2. CASE Buffer # <<>>
    <3>1. HeldStart(p) /\ Len(buf[p]) \in Nat \ {0}
      BY <1>3, <2>2, BufferStarts DEF Buffer
    <3>2. Handling(p) /\ pos # EndOfPacket
      BY <1>1, <1>3, <1>4 DEF Handling
    <3>3. first /\ pos = 1 /\ pkt.cells[1] = [buf[p][1] EXCEPT !.at = Len(buf[p])]
      BY <3>1, <3>2 DEF HeldStart
    <3>4. /\ Len(buf[p]) = From
          /\ section.num = buf[p][1].num /\ section.of = buf[p][1].of
      BY <1>3, <1>5, <2>2, <3>3, BufferStarts DEF Buffer
    <3>5. ASSUME NEW i \in 1 .. From
          PROVE  Buffer[i] = [num |-> section.num, at |-> i - 1, of |-> section.of]
      <4>1. Buffer = Bytes(buf[p][1], 0, From) /\ 0 + i - 1 = i - 1
        BY <1>2, <1>3, <3>1, <3>4 DEF HeldStart, Buffer
      <4> QED
        BY <3>4, <4>1 DEF Bytes
    <3> QED
      BY <1>3, <3>1, <3>3, <3>4, <3>5 DEF Buffer
  <2> QED
    BY <2>1, <2>2
<1>7. /\ section.of \in Nat /\ Hdr <= section.of /\ section.of <= MaxPrivate
      /\ Hdr \in Nat \ {0} /\ MaxPrivate \in Nat
  BY <1>2, SizesFit
<1>8. PICK f \in Nat, o \in Nat, l \in Nat, m \in Nat, z \in Nat :
        f = From /\ o = off /\ l = Len(pkt.cells) /\ m = Copied /\ z = section.of
  BY <1>2, <1>4, <1>7
<1>9. /\ m = Least(l, MaxPrivate + Hdr - f) /\ Len(Filled) = f + m
      /\ f < o /\ o <= z /\ o - f <= l /\ (o < z => o - f = l)
      /\ Hdr <= z /\ z <= MaxPrivate
  <2>1. EndOfPacket - pos = l
    BY <1>4, <1>6, <1>8
  <2>2. m = Least(l, MaxPrivate + Hdr - f)
    BY <1>4, <1>6, <1>8, <2>1
  <2> QED
    BY <1>2, <1>4, <1>6, <1>7, <1>8, <2>2
<1>10. o <= f + m /\ (o < z => f + m = o /\ m = l)
  BY <1>7, <1>9 DEF Least
<1>11. ASSUME NEW i \in 1 .. off
       PROVE  Filled[i] = [num |-> section.num, at |-> i - 1, of |-> section.of]
  <2>1. i \in 1 .. Len(Filled)
    BY <1>8, <1>9, <1>10
  <2>2. CASE i <= From
    <3>1. i \in 1 .. From /\ i <= Len(Buffer)
      BY <1>2, <1>6, <2>2
    <3>2. Filled[i] = Buffer[i]
      BY <1>4, <2>1, <3>1
    <3> QED
      BY <1>6, <3>1, <3>2
  <2>3. CASE ~ (i <= From)
    <3>1. PICK j \in Nat : j = i - From
      BY <1>2, <2>3
    <3>2. Filled[i] = pkt.cells[j]
      <4>1. pos + (i - Len(Buffer)) - 1 = j
        BY <1>2, <1>6, <3>1
      <4> QED
        BY <1>4, <1>6, <2>1, <2>3, <4>1
    <3>3. j \in 1 .. Len(pkt.cells) /\ j <= off - From /\ From + j - 1 = i - 1
      BY <1>2, <1>4, <2>3, <3>1
    <3> QED
      BY <1>2, <3>2, <3>3
  <2> QED
    BY <2>2, <2>3
<1>12. ASSUME Len(Filled) >= Hdr
       PROVE  DeclaredSizes(Filled) = {section.of}
  <2>1. Hdr \in 1 .. off
    BY <1>7, <1>8, <1>9, <1>10, <1>12
  <2>2. Filled[Hdr] = [num |-> section.num, at |-> Hdr - 1, of |-> section.of]
    BY <1>11, <2>1
  <2>3. Filled[Hdr] # Pad /\ Filled[Hdr].at = Hdr - 1 /\ Filled[Hdr].of = section.of
    BY <1>2, <2>2, ByteIsNotPad
  <2> QED
    BY <2>3 DEF DeclaredSizes
<1>13. off <= Len(Filled) /\ (off < section.of => Len(Filled) = off /\ pos + Copied = EndOfPacket)
  BY <1>4, <1>6, <1>8, <1>9, <1>10
<1> QED
  BY <1>6, <1>11, <1>12, <1>13

(* What it makes of them: the buffer holds the section as far as it was    *)
(* written, or handle_section is given all of it.                          *)
LEMMA AssembleSees ==
  ASSUME IInv, Assemble, pkt.pid \notin blind
  PROVE  /\ ~ first'
         /\ \/ /\ Buffer = <<>> /\ buf'[pkt.pid] = <<>> /\ given' = given
               /\ pkt.cells[pos] = Pad /\ pos' = EndOfPacket
            \/ /\ off < section.of /\ given' = given
               /\ buf'[pkt.pid] = Bytes(section, 0, off) /\ pos' = EndOfPacket
            \/ /\ off = section.of /\ given' = Bytes(section, 0, off)
               /\ buf'[pkt.pid] = <<>>
               /\ pos' > 1 /\ \A i \in DOMAIN pkt.cells : i >= pos' => pkt.cells[i] = Pad
<1>1. /\ pkt # None /\ pos # 0 /\ first' = FALSE
      /\ TypeOK /\ BoundsInv /\ PacketInv /\ ReadingInv
  BY DEF Assemble, AssembleStuffing, AssembleMore, AssembleInvalid, AssembleWhole,
         Assembling, Reading, IInv
<1>2. PICK p \in MuxPids \ blind : p = pkt.pid
  BY <1>1, PacketFacts
<1>3. buf \in [MuxPids -> Seq(Byte)] /\ Buffer = buf[p]
  BY <1>1, <1>2 DEF TypeOK, Buffer
<1>4. /\ section.of \in Sizes /\ section.num \in Nat
      /\ From \in Nat /\ From < off /\ off <= section.of /\ (pkt.start <=> From = 0)
      /\ off \in Nat /\ Len(pkt.cells) \in Nat \ {0}
      /\ DOMAIN pkt.cells = 1 .. Len(pkt.cells) /\ EndOfPacket = Len(pkt.cells) + 1
      /\ \A i \in 1 .. Len(pkt.cells) : ~ (i <= off - From) => pkt.cells[i] = Pad
  BY <1>1, PacketFacts DEF EndOfPacket
<1>5. CASE AssembleStuffing
  <2>1. ~ first
    BY <1>1, <1>2, <1>5 DEF AssembleStuffing, ReadingInv
  <2>2. pos' = EndOfPacket
    BY <1>5, <2>1 DEF AssembleStuffing, ReadFrom
  <2> QED
    BY <1>1, <1>2, <1>3, <1>5, <2>2 DEF AssembleStuffing
<1>6. ASSUME Assembling
      PROVE  /\ pos = 1 /\ Len(Buffer) = From /\ (first <=> From > 0)
             /\ off <= Len(Filled)
             /\ off < section.of => Len(Filled) = off /\ pos + Copied = EndOfPacket
             /\ \A i \in 1 .. off : Filled[i] = [num |-> section.num, at |-> i - 1, of |-> section.of]
             /\ Len(Filled) >= Hdr => DeclaredSizes(Filled) = {section.of}
             /\ Filled \in Seq(Byte) /\ Len(Filled) = Len(Buffer) + Copied
             /\ Copied \in Nat
  BY <1>6, AssemblesSection, FilledFacts
<1>7. first => NextSection = EndOfPacket
  <2> SUFFICES ASSUME first
               PROVE  ~ pkt.start
    BY DEF NextSection
  <2>1. Buffer # <<>>
    BY <1>1, <1>2 DEF ReadingInv
  <2>2. HeldStart(p) /\ Len(buf[p]) \in Nat \ {0}
    BY <1>2, <1>3, <2>1, BufferStarts
  <2>3. pkt.cells[1] = [buf[p][1] EXCEPT !.at = Len(buf[p])]
    BY <1>1, <1>2, <2>2 DEF HeldStart, Handling
  <2>4. From = Len(buf[p])
    BY <1>2, <1>3, <2>1, <2>3, BufferStarts DEF From
  <2> QED
    BY <1>4, <2>2, <2>4
<1>8. CASE AssembleMore
  <2>1. /\ Assembling /\ buf' = [buf EXCEPT ![p] = Filled] /\ given' = given
        /\ pos' = ReadFrom(pos + Copied)
    BY <1>2, <1>8 DEF AssembleMore
  <2>2. off < section.of
    <3>1. CASE Len(Filled) >= Hdr
      <4>1. \E s \in DeclaredSizes(Filled) : s > Len(Filled)
        BY <1>8, <3>1 DEF AssembleMore
      <4>2. section.of > Len(Filled) /\ off <= Len(Filled) /\ Len(Filled) \in Nat /\ section.of \in Nat
        BY <1>4, <1>6, <2>1, <3>1, <4>1, LenProperties, SizesFit
      <4> QED
        BY <1>4, <4>2
    <3>2. CASE ~ (Len(Filled) >= Hdr)
      <4>1. off <= Len(Filled) /\ Len(Filled) \in Nat /\ Hdr <= section.of /\ section.of \in Nat /\ Hdr \in Nat
        BY <1>4, <1>6, <2>1, LenProperties, SizesFit
      <4> QED
        BY <1>4, <3>2, <4>1
    <3> QED
      BY <3>1, <3>2
  <2>3. Len(Filled) = off /\ pos + Copied = EndOfPacket
    BY <1>6, <2>1, <2>2
  <2>4. Filled = Bytes(section, 0, off)
    BY <1>4, <1>6, <2>1, <2>3, BytesEqual
  <2>5. pos' = EndOfPacket
    BY <1>7, <2>1, <2>3 DEF ReadFrom
  <2>6. buf'[p] = Filled
    BY <1>3, <2>1
  <2> QED
    BY <1>1, <1>2, <2>1, <2>2, <2>4, <2>5, <2>6
<1>9. CASE AssembleInvalid
  <2>1. Assembling /\ Len(Filled) >= Hdr /\ \E s \in DeclaredSizes(Filled) : s > MaxPrivate
    BY <1>9 DEF AssembleInvalid
  <2>2. section.of > MaxPrivate
    BY <1>6, <2>1
  <2>3. section.of \in Nat /\ section.of <= MaxPrivate /\ MaxPrivate \in Nat
    BY <1>4, SizesFit
  <2> QED
    BY <2>2, <2>3
<1>10. CASE AssembleWhole
  <2>1. Assembling /\ Len(Filled) >= Hdr /\ buf' = [buf EXCEPT ![p] = <<>>]
    BY <1>2, <1>10 DEF AssembleWhole
  <2>2. PICK s \in DeclaredSizes(Filled) :
          /\ s <= Len(Filled)
          /\ given' = SubSeq(Filled, 1, s)
          /\ pos' = ReadFrom(pos + Copied - (Len(Filled) - s))
    BY <1>10 DEF AssembleWhole
  <2>3. s = section.of
    BY <1>6, <2>1, <2>2
  <2>4. s \in Nat /\ s >= 1 /\ Len(Filled) \in Nat
    BY <1>4, <1>6, <2>1, <2>3, SizesFit, LenProperties
  <2>5. off = section.of
    BY <1>4, <1>6, <2>1, <2>2, <2>3, <2>4
  <2>6. given' = Bytes(section, 0, off)
    <3>1. \A i \in 1 .. s : Filled[i] \in Byte
      BY <1>6, <2>1, <2>2, <2>4, ElementOfSeq
    <3>2. /\ given' \in Seq(Byte) /\ Len(given') = IF 1 <= s THEN s - 1 + 1 ELSE 0
          /\ \A i \in 1 .. s - 1 + 1 : given'[i] = Filled[1 + i - 1]
      BY <2>2, <2>4, <3>1, SubSeqProperties
    <3>3. Len(given') = off /\ s - 1 + 1 = off /\ \A i \in 1 .. off : 1 + i - 1 = i
      BY <2>3, <2>4, <2>5, <3>2
    <3>4. \A i \in 1 .. off : given'[i] = [num |-> section.num, at |-> i - 1, of |-> section.of]
      BY <1>6, <2>1, <3>2, <3>3
    <3> QED
      BY <1>4, <3>2, <3>3, <3>4, BytesEqual
  <2>7. buf'[p] = <<>>
    BY <1>3, <2>1
  <2>8. pos' > 1 /\ \A i \in DOMAIN pkt.cells : i >= pos' => pkt.cells[i] = Pad
    <3>1. CASE first
      <4>1. pos' = EndOfPacket
        BY <1>7, <2>2, <3>1 DEF ReadFrom
      <4> QED
        BY <1>4, <4>1
    <3>2. CASE ~ first
      <4>1. pos' = pos + Copied - (Len(Filled) - s)
        BY <2>2, <3>2 DEF ReadFrom
      <4>2. pos = 1 /\ Len(Buffer) = From /\ Len(Filled) = From + Copied /\ Copied \in Nat
        BY <1>6, <2>1
      <4>3. pos' = 1 + off - From
        BY <1>4, <2>3, <2>4, <2>5, <4>1, <4>2
      <4> QED
        BY <1>4, <4>3
    <3> QED
      BY <1>1, <3>1, <3>2 DEF TypeOK
  <2> QED
    BY <1>1, <1>2, <2>5, <2>6, <2>7, <2>8
<1> QED
  BY <1>5, <1>8, <1>9, <1>10 DEF Assemble

LEMMA AssembleStep ==
  ASSUME IInv, Assemble
  PROVE  IInv'
<1>1. /\ pkt # None /\ pos # 0
      /\ UNCHANGED <<cc, section, off, written, pkt, reads, lastCc, arrived, handled, blind, intact>>
      /\ TypeOK /\ BoundsInv /\ CountersInv /\ PacketInv /\ BufferInv /\ IntactInv
      /\ pos < EndOfPacket
  BY DEF Assemble, AssembleStuffing, AssembleMore, AssembleInvalid, AssembleWhole,
         Assembling, Reading, generator, history, IInv
<1>2. PICK p \in MuxPids : p = pkt.pid
  BY <1>1, PacketFacts
<1>3. TypeOK' /\ BoundsInv' /\ pos' # 0
  BY <1>1, AssembleBounds DEF TypeOK
<1>4. \A q \in MuxPids \ {p} : buf'[q] = buf[q]
  BY <1>1, <1>2 DEF Assemble, AssembleStuffing, AssembleMore, AssembleInvalid, AssembleWhole, TypeOK
<1>5. CountersInv' /\ PacketInv'
  BY <1>1 DEF CountersInv, PacketInv, From
<1>6. /\ section.of \in Sizes /\ section.num \in Nat /\ section.pid = p /\ section # None
      /\ section.of \in Nat /\ off \in Nat \ {0} /\ off <= section.of
      /\ From \in Nat /\ From < off
      /\ Len(pkt.cells) \in Nat \ {0} /\ EndOfPacket = Len(pkt.cells) + 1
      /\ DOMAIN pkt.cells = 1 .. Len(pkt.cells) /\ EndOfPacket' = EndOfPacket
  BY <1>1, <1>2, PacketFacts, SizesFit DEF EndOfPacket, PacketInv
<1>7. ASSUME p \notin blind
      PROVE  /\ ~ first'
             /\ \/ /\ Buffer = <<>> /\ buf'[p] = <<>> /\ given' = given
                   /\ pkt.cells[pos] = Pad /\ pos' = EndOfPacket
                \/ /\ off < section.of /\ given' = given
                   /\ buf'[p] = Bytes(section, 0, off) /\ pos' = EndOfPacket
                \/ /\ off = section.of /\ given' = Bytes(section, 0, off)
                   /\ buf'[p] = <<>>
                   /\ pos' > 1 /\ \A i \in DOMAIN pkt.cells : i >= pos' => pkt.cells[i] = Pad
  BY <1>2, <1>7, AssembleSees
<1>8. BufferInv'
  <2> SUFFICES ASSUME NEW q \in MuxPids, q \notin blind, buf'[q] # <<>>
               PROVE  HeldStart(q)'
    BY <1>1 DEF BufferInv
  <2>1. CASE q # p
    <3>1. ~ Handling(q) /\ ~ Handling(q)'
      BY <1>1, <1>2, <2>1 DEF Handling
    <3>2. buf'[q] = buf[q] /\ HeldStart(q)
      BY <1>4, <2>1, BufferStarts
    <3> QED
      BY <1>1, <3>1, <3>2 DEF HeldStart, GoesOn
  <2>2. CASE q = p
    <3>1. /\ ~ first' /\ off < section.of
          /\ buf'[p] = Bytes(section, 0, off) /\ pos' = EndOfPacket
      BY <1>7, <2>2
    <3>2. /\ Len(buf'[p]) = off
          /\ buf'[p][1] = [num |-> section.num, at |-> 0, of |-> section.of]
      <4>1. Len(Bytes(section, 0, off)) = off
        BY ONLY <1>6, 0 \in Nat, BytesFacts
      <4>2. 1 \in 1 .. off /\ 0 + 1 - 1 = 0
        BY <1>6
      <4> QED
        BY <3>1, <4>1, <4>2 DEF Bytes
    <3>3. PICK c, n : c = buf'[p][1] /\ n = Len(buf'[p])
      OBVIOUS
    <3>4. c.num = section.num /\ c.of = section.of /\ n = off
      BY <3>2, <3>3
    <3>5. buf'[p] = Bytes(c, 0, n)
      BY <3>1, <3>4 DEF Bytes
    <3>6. Handling(p)' /\ GoesOn(p, section, off)'
      BY <1>1, <1>2, <1>3, <1>6 DEF Handling, GoesOn
    <3>7. section'.num = c.num /\ section'.of = c.of /\ section'.pid = p /\ off' = n /\ section' # None
      BY <1>1, <1>6, <3>4
    <3>8. c' = c /\ n' = n
      OBVIOUS
    <3> QED
      BY <1>6, <2>2, <3>1, <3>3, <3>4, <3>5, <3>6, <3>7 DEF HeldStart, GoesOn
  <2> QED
    BY <2>1, <2>2
<1>9. ReadingInv'
  <2> SUFFICES ASSUME p \notin blind, buf'[p] = <<>>
               PROVE  /\ ~ first'
                      /\ pos' > 1 /\ \A i \in DOMAIN pkt.cells : i >= pos' => pkt.cells[i] = Pad
    BY <1>1, <1>2 DEF ReadingInv, Buffer
  <2>1. Bytes(section, 0, off) # <<>>
    <3>1. Len(Bytes(section, 0, off)) = off
      BY ONLY <1>6, 0 \in Nat, BytesFacts
    <3> QED
      BY <1>6, <3>1, EmptySeq
  <2>2. \/ pos' = EndOfPacket
        \/ pos' > 1 /\ \A i \in DOMAIN pkt.cells : i >= pos' => pkt.cells[i] = Pad
    BY <1>7, <2>1
  <2>3. CASE pos' = EndOfPacket
    BY <1>6, <1>7, <2>3
  <2> QED
    BY <1>7, <2>2, <2>3
<1>10. IntactInv'
  <2>1. pkt' # None /\ ~ Waiting'
    BY <1>1, <1>3 DEF Waiting
  <2> SUFFICES ASSUME intact
               PROVE  /\ p \notin blind
                      /\ ~ first'
                      /\ \/ off < section.of /\ buf'[p] = Bytes(section, 0, off)
                         \/ off = section.of /\ given' = Bytes(section, 0, section.of)
    BY <1>1, <1>3, <1>6, <2>1 DEF IntactInv, Held, Given
  <2>2. /\ p \notin blind
        /\ \/ first /\ Held(From)
           \/ ~ first /\ From = 0 /\ Held(0) /\ pos = 1
           \/ ~ first /\ off < section.of /\ Held(off)
           \/ ~ first /\ off = section.of /\ Given
    BY <1>1, <1>6 DEF IntactInv
  <2>3. CASE Buffer = <<>> /\ given' = given /\ pkt.cells[pos] = Pad
    <3>1. ~ first
      BY <1>1, <1>2, <2>2, <2>3 DEF IInv, ReadingInv
    <3>2. ~ Held(off)
      <4>1. Len(Bytes(section, 0, off)) = off
        BY ONLY <1>6, 0 \in Nat, BytesFacts
      <4>2. Bytes(section, 0, off) # <<>>
        BY <1>6, <4>1, EmptySeq
      <4> QED
        BY <1>2, <1>6, <2>3, <4>2 DEF Held, Buffer
    <3>3. ~ (From = 0 /\ pos = 1)
      <4> SUFFICES ASSUME From = 0, pos = 1
                   PROVE  FALSE
        OBVIOUS
      <4>1. pkt.cells[1] = [num |-> section.num, at |-> From + 1 - 1, of |-> section.of]
        <5>1. 1 \in 1 .. Len(pkt.cells) /\ 1 <= off - From
          BY <1>6
        <5> QED
          BY <1>1, <5>1, PacketFacts
      <4> QED
        BY <1>6, <2>3, <4>1, ByteIsNotPad
    <3>4. off = section.of /\ Given
      BY <2>2, <3>1, <3>2, <3>3
    <3> QED
      BY <1>7, <2>2, <2>3, <3>4 DEF Given
  <2>4. CASE off < section.of /\ buf'[p] = Bytes(section, 0, off)
    BY <1>7, <2>2, <2>4
  <2>5. CASE off = section.of /\ given' = Bytes(section, 0, off)
    BY <1>7, <2>2, <2>5
  <2> QED
    BY <1>7, <2>2, <2>3, <2>4, <2>5
<1> QED
  BY <1>3, <1>5, <1>8, <1>9, <1>10 DEF IInv

LEMMA PacketDoneStep ==
  ASSUME IInv, PacketDone
  PROVE  IInv'
<1>1. /\ pkt # None /\ pkt' = None /\ pos' = 0 /\ pos >= EndOfPacket
      /\ lastCc' = [lastCc EXCEPT ![pkt.pid] = pkt.cc]
      /\ arrived' = [arrived EXCEPT ![pkt.pid] = written]
      /\ handled' = [handled EXCEPT ![pkt.pid] = written]
      /\ UNCHANGED <<cc, section, off, written, reads, buf, first, given, blind, intact>>
      /\ TypeOK /\ BoundsInv /\ CountersInv /\ PacketInv
  BY DEF PacketDone, Noted, generator, IInv
<1>2. PICK p \in MuxPids : p = pkt.pid
  BY <1>1, PacketFacts
<1>3. /\ pkt.cc \in 0 .. CCMod - 1 /\ written \in Nat /\ written > 0
      /\ lastCc \in [MuxPids -> -1 .. CCMod - 1]
      /\ arrived \in [MuxPids -> Nat] /\ handled \in [MuxPids -> Nat]
      /\ pkt.cc = (written - 1) % CCMod
  BY <1>1, PacketFacts DEF TypeOK, CountersInv
<1>4. /\ section.pid = p /\ section # None /\ Len(pkt.cells) \in Nat \ {0} /\ EndOfPacket = Len(pkt.cells) + 1
      /\ From \in Nat /\ From < off /\ off \in Nat /\ section.of \in Nat
      /\ section.num \in Nat /\ section.of \in Sizes
  BY <1>1, <1>2, PacketFacts, SizesFit DEF EndOfPacket, PacketInv
<1>5. pos = EndOfPacket /\ pos # 1 /\ pos # 0
  <2>1. pos \in Nat /\ pos <= EndOfPacket
    BY <1>1 DEF BoundsInv, TypeOK
  <2> QED
    BY ONLY <1>1, <1>4, <2>1
<1>6. TypeOK'
  <2>1. pkt.cc \in -1 .. CCMod - 1
    BY <1>3, MultiplexAssumption
  <2>2. lastCc' \in [MuxPids -> -1 .. CCMod - 1]
    BY <1>1, <1>3, <2>1
  <2>3. arrived' \in [MuxPids -> Nat] /\ handled' \in [MuxPids -> Nat]
    BY <1>1, <1>3
  <2> QED
    BY <1>1, <2>2, <2>3 DEF TypeOK
<1>7. BoundsInv' /\ PacketInv'
  BY <1>1 DEF BoundsInv, Short, PacketInv
<1>8. CountersInv'
  <2> SUFFICES ASSUME NEW q \in MuxPids
               PROVE  /\ handled'[q] <= arrived'[q] /\ arrived'[q] <= written
                      /\ lastCc'[q] = IF arrived'[q] = 0 THEN -1 ELSE (arrived'[q] - 1) % CCMod
    BY <1>1 DEF CountersInv
  <2>1. CASE q = p
    BY <1>1, <1>2, <1>3, <2>1
  <2>2. CASE q # p
    <3>1. handled'[q] = handled[q] /\ arrived'[q] = arrived[q] /\ lastCc'[q] = lastCc[q]
      BY <1>1, <1>2, <1>3, <2>2
    <3> QED
      BY <1>1, <3>1, CountersBehind DEF CountersInv
  <2> QED
    BY <2>1, <2>2
<1>9. BufferInv'
  <2> SUFFICES ASSUME NEW q \in MuxPids \ blind, buf[q] # <<>>
               PROVE  HeldStart(q)'
    BY <1>1 DEF BufferInv
  <2>1. HeldStart(q) /\ ~ Handling(q)'
    BY <1>1, BufferStarts DEF Handling
  <2>2. CASE q # p
    <3>1. handled'[q] = handled[q] /\ ~ Handling(q)
      BY <1>1, <1>2, <1>3, <2>2 DEF Handling
    <3>2. written # handled[q]
      BY <1>1, CountersBehind
    <3> QED
      BY <1>1, <2>1, <3>1, <3>2, BufferKept
  <2>3. CASE q = p
    <3>1. Handling(q) /\ handled'[q] = written
      BY <1>1, <1>2, <1>3, <1>5, <2>3 DEF Handling
    <3>2. GoesOn(q, buf[q][1], Len(buf[q]))
      BY <1>5, <2>1, <3>1 DEF HeldStart
    <3>3. PICK c, n : c = buf[q][1] /\ n = Len(buf[q])
      OBVIOUS
    <3>4. c = buf'[q][1] /\ n = Len(buf'[q])
      BY <1>1, <3>3
    <3>5. GoesOn(q, c, n)'
      BY <1>1, <3>2, <3>3 DEF GoesOn
    <3> QED
      BY <1>1, <1>3, <2>1, <3>1, <3>3, <3>4, <3>5 DEF HeldStart
  <2> QED
    BY <2>2, <2>3
<1>10. ReadingInv'
  BY <1>1 DEF ReadingInv
<1>11. IntactInv'
  <2> SUFFICES ASSUME intact
               PROVE  /\ off < section.of => Held(off) /\ p \notin blind /\ UpTo(written)'
                      /\ off = section.of => Given
    BY <1>1, <1>4 DEF IntactInv, Waiting, Held, Given, UpTo
  <2>1. UpTo(written)'
    BY <1>1, <1>2, <1>3, <1>4 DEF UpTo
  <2>2. /\ p \notin blind
        /\ \/ first /\ Held(From)
           \/ ~ first /\ From = 0 /\ Held(0) /\ pos = 1
           \/ ~ first /\ off < section.of /\ Held(off)
           \/ ~ first /\ off = section.of /\ Given
    BY <1>1, <1>4, <1>5 DEF IntactInv, IInv
  <2>3. ~ first
    <3> SUFFICES ASSUME first
                 PROVE  FALSE
      OBVIOUS
    <3>1. Buffer # <<>>
      BY <1>1, <1>2, <1>5, <2>2 DEF IInv, ReadingInv
    <3>2. HeldStart(p) /\ Handling(p)
      BY <1>1, <1>2, <1>5, <2>2, <3>1, BufferStarts DEF Buffer, Handling
    <3> QED
      BY <1>5, <3>2 DEF HeldStart
  <2> QED
    BY <1>4, <1>5, <2>1, <2>2, <2>3
<1> QED
  BY <1>6, <1>7, <1>8, <1>9, <1>10, <1>11 DEF IInv

-----------------------------------------------------------------------------
(* What holds throughout.                                                  *)

LEMMA InitKeeps == Init => IInv
<1> SUFFICES ASSUME Init
             PROVE  IInv
  OBVIOUS
<1>1. /\ cc = 0 /\ section = None /\ off = 0 /\ written = 0 /\ pkt = None
      /\ reads = MuxPids \ Optional /\ blind = {} /\ intact = FALSE
      /\ lastCc = [p \in MuxPids |-> -1] /\ buf = [p \in MuxPids |-> <<>>]
      /\ pos = 0 /\ first = FALSE /\ given = <<>>
      /\ arrived = [p \in MuxPids |-> 0] /\ handled = [p \in MuxPids |-> 0]
  BY DEF Init
<1>2. TypeOK
  <2>1. 0 \in 0 .. CCMod - 1 /\ -1 \in -1 .. CCMod - 1
    BY MultiplexAssumption
  <2>2. <<>> \in Seq(Byte)
    BY EmptySeq
  <2> QED
    BY <1>1, <2>1, <2>2 DEF TypeOK
<1>3. BoundsInv
  BY <1>1, SizesFit DEF BoundsInv, Short
<1>4. CountersInv
  <2>1. 0 % CCMod = 0
    BY MultiplexAssumption
  <2> QED
    BY <1>1, <2>1 DEF CountersInv
<1>5. PacketInv /\ BufferInv /\ ReadingInv /\ IntactInv
  BY <1>1 DEF PacketInv, BufferInv, ReadingInv, IntactInv
<1> QED
  BY <1>2, <1>3, <1>4, <1>5 DEF IInv

LEMMA NextKeeps == IInv /\ [Next]_vars => IInv'
<1> SUFFICES ASSUME IInv, [Next]_vars
             PROVE  IInv'
  OBVIOUS
<1>1. CASE \E p \in MuxPids, s \in Sizes : Generate(p, s)
  BY <1>1, GenerateStep
<1>2. CASE Output
  BY <1>2, OutputStep
<1>3. CASE OutputDone
  BY <1>3, OutputDoneStep
<1>4. CASE Lose \/ PassBy \/ TakeForRepetition
  BY <1>4, UnhandledStep
<1>5. CASE \E p \in Optional : Subscribe(p)
  BY <1>5, SubscribeStep
<1>6. CASE LookAt
  BY <1>6, LookAtStep
<1>7. CASE Assemble
  BY <1>7, AssembleStep
<1>8. CASE PacketDone
  BY <1>8, PacketDoneStep
<1>9. CASE UNCHANGED vars
  <2>1. UNCHANGED <<cc, section, off, written, pkt, reads, lastCc, buf, pos, first, given,
                    arrived, handled, blind, intact>>
    BY <1>9 DEF vars, generator, reader, history
  <2>2. TypeOK' /\ BoundsInv' /\ CountersInv' /\ PacketInv'
    BY <2>1 DEF IInv, TypeOK, BoundsInv, Short, EndOfPacket, CountersInv, PacketInv, From
  <2>3. BufferInv' /\ ReadingInv'
    BY <2>1 DEF IInv, BufferInv, HeldStart, Handling, EndOfPacket, GoesOn, ReadingInv, Buffer
  <2>4. IntactInv'
    BY <2>1 DEF IInv, IntactInv, Waiting, Held, Given, UpTo, From
  <2> QED
    BY <2>2, <2>3, <2>4 DEF IInv
<1> QED
  BY <1>1, <1>2, <1>3, <1>4, <1>5, <1>6, <1>7, <1>8, <1>9 DEF Next

(* Whatever PIDs the packets of dvb_gen_si.c are on, and whichever are     *)
(* lost or not looked at, dvb_print_si.c keeps to what IInv says.          *)
THEOREM MultiplexSafe == Spec => []IInv
BY InitKeeps, NextKeeps, PTL DEF Spec

(* No buffer overflows, whatever is spliced in it: psi_assemble_payload    *)
(* keeps within the buffer and within the packet.                          *)
THEOREM NothingOverflows == Spec => [](TypeOK /\ BoundsInv)
<1>1. IInv => TypeOK /\ BoundsInv
  BY DEF IInv
<1> QED
  BY <1>1, MultiplexSafe, PTL

(* A section whose packets all arrived and were looked at is given to      *)
(* handle_section: the counter that the PIDs share costs a section only    *)
(* where its first packet is taken for a repetition.                       *)
THEOREM MissesOnlyRepetitions == Spec => []MissedOnlyAsRepetition
<1>1. IInv => MissedOnlyAsRepetition
  BY DEF IInv, IntactInv, MissedOnlyAsRepetition, Given
<1> QED
  BY <1>1, MultiplexSafe, PTL

LEMMA GivenIsGenuine ==
  ASSUME IInv, Next, given' # given, pkt.pid \notin blind
  PROVE  Genuine(given')
<1>1. Assemble
  BY DEF Next, Generate, Output, OutputDone, Lose, Subscribe, PassBy, TakeForRepetition,
         LookAt, PacketDone, Noted, generator, reader, history
<1>2. given' = Bytes(section, 0, off) /\ off = section.of
  BY <1>1, AssembleSees
<1>3. /\ section.num \in Nat /\ section.of \in Sizes /\ off \in Nat
      /\ off >= 1
  BY <1>1, <1>2, PacketFacts, SizesFit
     DEF IInv, Assemble, AssembleStuffing, AssembleMore, AssembleInvalid, AssembleWhole,
         Assembling, Reading
<1>4. /\ Len(given') = off
      /\ \A i \in 1 .. off :
           given'[i] = [num |-> section.num, at |-> i - 1, of |-> section.of]
  <2>1. 0 \in Nat
    OBVIOUS
  <2>2. Len(Bytes(section, 0, off)) = off
    BY ONLY <1>3, <2>1, BytesFacts
  <2>3. \A i \in 1 .. off : 0 + i - 1 = i - 1
    OBVIOUS
  <2> QED
    BY <1>2, <2>2, <2>3 DEF Bytes
<1>5. DOMAIN given' = 1 .. off
  BY <1>2 DEF Bytes
<1>6. given'[1].num = section.num
  BY <1>3, <1>4
<1> QED
  BY <1>2, <1>4, <1>5, <1>6 DEF Genuine

(* What is given to handle_section is a whole section that was sent, but   *)
(* for the splices nobody can see: where the buffer went on after packets  *)
(* not looked at, or after the loss of a whole number of periods of the    *)
(* counter.                                                                *)
THEOREM SplicesOnlyBlind == Spec => SplicedOnlyBlind
<1>1. IInv /\ [Next]_vars => [given' # given => Genuine(given') \/ pkt.pid \in blind]_vars
  BY GivenIsGenuine
<1> QED
  BY <1>1, MultiplexSafe, PTL DEF Spec, SplicedOnlyBlind
=============================================================================
