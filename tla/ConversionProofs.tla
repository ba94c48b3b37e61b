---------------------------- MODULE ConversionProofs --------------------------
(***************************************************************************)
(* Proofs about clocks that are restamped (Restamp) and about what is      *)
(* converted (Conversions): times, tags, texts and messages.  For every    *)
(* modulus of the clocks and however long nothing is received; for every   *)
(* day, time of the day and duration; for tags of any bytes and any number *)
(* of rounds; for texts of any bytes, in any character set that has a code; *)
(* for messages of every version, and any number of control words.         *)
(***************************************************************************)
EXTENDS Restamp, Conversions, Modular, TLAPS

(* Time stamps are moved by the offset in force. *)
TsMoved == ts # M => tsOut = Moved(offset, ts)

(* The inductive invariant. *)
IInv == TypeOK /\ OutMoved /\ TsMoved

-----------------------------------------------------------------------------
(* Clocks.                                                                 *)

LEMMA MovedIsClock ==
  ASSUME NEW by \in Int, NEW t \in Int
  PROVE  Moved(by, t) \in Clock
<1>1. M \in Nat \ {0} /\ t + by \in Int
  BY ClockAssumption
<1>2. (t + by) % M \in 0 .. M - 1
  BY ONLY <1>1, Division
<1> QED
  BY <1>2 DEF Moved, Clock

(* Moves add up. *)
LEMMA MovedTwice ==
  ASSUME NEW a \in Int, NEW b \in Int, NEW t \in Int
  PROVE  Moved(b, Moved(a, t)) = (t + a + b) % M
<1>1. M \in Nat \ {0} /\ t + a \in Int
  BY ClockAssumption
<1>2. (((t + a) % M) + b) % M = (t + a + b) % M
  BY ONLY <1>1, b \in Int, AddRemainder
<1> QED
  BY <1>2 DEF Moved

(* Whole turns of the clock do not count. *)
LEMMA Turn ==
  ASSUME NEW x \in Int
  PROVE  (x + M) % M = x % M
<1>1. M \in Nat \ {0} /\ \E q \in Int : M * q = M
  <2>1. M * 1 = M /\ 1 \in Int
    BY ClockAssumption
  <2> QED
    BY <2>1, ClockAssumption
<1>2. PICK q \in Int : M * q = M
  BY <1>1
<1>3. (x + M * q) % M = x % M
  BY ONLY <1>1, x \in Int, q \in Int, AddMultiple
<1> QED
  BY <1>2, <1>3

LEMMA ClockIsMoved ==
  ASSUME NEW t \in Clock
  PROVE  Moved(0, t) = t
<1>1. M \in Nat \ {0} /\ M * 0 = 0 /\ t \in 0 .. M - 1 /\ t + 0 = M * 0 + t
  BY ClockAssumption DEF Clock
<1>2. (M * 0 + t) % M = t
  BY ONLY <1>1, Remainder
<1> QED
  BY <1>1, <1>2 DEF Moved

(* Two clocks moved alike keep their distance. *)
LEMMA Distance ==
  ASSUME NEW t \in Clock, NEW l \in Clock, NEW o \in Clock
  PROVE  (M + Moved(o, t) - Moved(o, l)) % M = (M + t - l) % M
<1>1. M \in Nat \ {0} /\ t \in Int /\ l \in Int /\ o \in Int
  BY ClockAssumption DEF Clock
<1> DEFINE x == t + o
           w == Moved(o, l)
<1>2. x \in Int /\ l + o \in Int
  BY <1>1
<1>3. PICK a \in Int : l + o = M * a + ((l + o) % M) /\ (l + o) % M \in 0 .. M - 1
  BY ONLY <1>1, <1>2, Division
<1>4. w \in Int /\ l + o = M * a + w /\ M * a \in Int
  <2>1. w = (l + o) % M
    BY DEF Moved
  <2>2. M * a \in Int
    BY <1>1, SMT
  <2> HIDE DEF w
  <2> QED
    BY <1>1, <1>3, <2>1, <2>2
<1>5. Moved(o, t) = x % M
  BY DEF Moved
<1>6. x = t + o
  OBVIOUS
<1> HIDE DEF x, w
<1>7. M - w \in Int
  BY <1>1, <1>4
<1>8. ((x % M) + (M - w)) % M = (x + (M - w)) % M
  BY ONLY <1>1, <1>2, <1>7, AddRemainder
<1>9. x + (M - w) = (M + t - l) + M * a
  BY <1>1, <1>4, <1>6
<1>10. M + t - l \in Int
  BY <1>1
<1>11. ((M + t - l) + M * a) % M = (M + t - l) % M
  BY ONLY <1>1, <1>3, <1>10, AddMultiple
<1>12. x % M \in 0 .. M - 1
  BY ONLY <1>1, <1>2, Division
<1> DEFINE z == Moved(o, t)
<1>13. z = x % M /\ z \in Int
  BY <1>1, <1>5, <1>12
<1> HIDE DEF z
<1>14. M + z - w = z + (M - w)
  BY <1>1, <1>4, <1>13
<1>15. (z + (M - w)) % M = (x + (M - w)) % M
  BY ONLY <1>8, <1>13
<1>16. (M + z - w) % M = (M + t - l) % M
  BY ONLY <1>9, <1>11, <1>14, <1>15
<1> QED
  BY <1>16 DEF w, z

-----------------------------------------------------------------------------
(* The invariant.                                                          *)

LEMMA InitStep ==
  ASSUME Init
  PROVE  IInv
<1>1. M \in Nat \ {0} /\ MaxElapsed \in Nat
  BY ClockAssumption
<1>2. TypeOK
  BY <1>1 DEF Init, TypeOK, Clock
<1> QED
  BY <1>2 DEF Init, IInv, OutMoved, TsMoved

LEMMA TsStep ==
  ASSUME offset' \in Clock, NEW t \in 0 .. M, HandleTs(t)
  PROVE  TsMoved' /\ ts' \in 0 .. M /\ tsOut' \in 0 .. M
<1>1. M \in Nat \ {0} /\ offset' \in Int /\ t \in Int
  BY ClockAssumption DEF Clock
<1>2. Moved(offset', t) \in Clock
  BY <1>1, MovedIsClock
<1>3. ts' = t /\ tsOut' = IF t = M THEN M ELSE Moved(offset', t)
  BY DEF HandleTs
<1>4. TsMoved'
  BY <1>3 DEF TsMoved, Moved
<1>5. Moved(offset', t) \in 0 .. M /\ M \in 0 .. M
  BY <1>1, <1>2 DEF Clock
<1> QED
  BY <1>3, <1>4, <1>5

LEMMA PcrStep ==
  ASSUME IInv, NEW pcr \in Clock, NEW discontinuity \in BOOLEAN,
         HandlePcr(pcr, discontinuity)
  PROVE  /\ last' = pcr /\ elapsed' = 0 /\ offset' \in Clock
         /\ out' = Moved(offset', pcr) /\ out' \in Clock
<1>1. M \in Nat \ {0} /\ offset \in Clock /\ pcr \in Int /\ last \in Int /\ elapsed \in Int
  BY ClockAssumption DEF IInv, TypeOK, Clock
<1>2. last' = pcr /\ elapsed' = 0 /\ out' = IF offset' = 0 THEN pcr ELSE Moved(offset', pcr)
  BY DEF HandlePcr
<1>3. offset' \in Clock
  <2>1. CASE PcrFirst(pcr) \/ PcrContinuous(pcr, discontinuity)
    BY <1>1, <2>1 DEF PcrFirst, PcrContinuous
  <2>2. CASE PcrJump(pcr, discontinuity)
    <3> DEFINE x == offset + M + Due - pcr
    <3>1. Due \in Int
      BY <1>1, MovedIsClock DEF Due, Clock
    <3>2. x \in Int
      BY <1>1, <3>1 DEF Clock
    <3>3. x % M \in 0 .. M - 1
      BY ONLY <1>1, <3>2, Division
    <3> QED
      BY <2>2, <3>3 DEF PcrJump, NewOffset, Clock
  <2> QED
    BY <2>1, <2>2 DEF HandlePcr
<1>4. out' = Moved(offset', pcr)
  BY <1>2, ClockIsMoved
<1>5. out' \in Clock
  BY <1>1, <1>3, <1>4, MovedIsClock DEF Clock
<1> QED
  BY <1>2, <1>3, <1>4, <1>5

LEMMA Invariance == Spec => []IInv
<1>1. Init => IInv
  BY InitStep
<1>2. IInv /\ [Next]_vars => IInv'
  <2> SUFFICES ASSUME IInv, [Next]_vars
               PROVE  IInv'
    OBVIOUS
  <2>0. M \in Nat \ {0} /\ MaxElapsed \in Nat
    BY ClockAssumption
  <2>1. CASE PacketWithPcr
    <3>1. PICK pcr \in Clock, discontinuity \in BOOLEAN, t \in 0 .. M :
            HandlePcr(pcr, discontinuity) /\ HandleTs(t)
      BY <2>1 DEF PacketWithPcr
    <3>2. /\ last' = pcr /\ elapsed' = 0 /\ offset' \in Clock
          /\ out' = Moved(offset', pcr) /\ out' \in Clock
      BY <3>1, PcrStep
    <3>3. TsMoved' /\ ts' \in 0 .. M /\ tsOut' \in 0 .. M
      BY <3>1, <3>2, TsStep
    <3>4. TypeOK'
      BY <2>0, <3>2, <3>3 DEF TypeOK, Clock
    <3>5. OutMoved'
      <4>1. last' # M
        BY <2>0, <3>2 DEF Clock
      <4> QED
        BY <3>2, <4>1 DEF OutMoved, Moved
    <3> QED
      BY <3>3, <3>4, <3>5 DEF IInv
  <2>2. CASE PacketWithoutPcr
    <3>1. PICK t \in Clock : HandleTs(t)
      BY <2>2 DEF PacketWithoutPcr
    <3>2. last' = last /\ elapsed' = elapsed /\ offset' = offset /\ out' = out
      BY <2>2 DEF PacketWithoutPcr
    <3>3. t \in 0 .. M /\ offset' \in Clock
      BY <2>0, <3>2 DEF IInv, TypeOK, Clock
    <3>4. TsMoved' /\ ts' \in 0 .. M /\ tsOut' \in 0 .. M
      BY <3>1, <3>3, TsStep
    <3> QED
      BY <3>2, <3>4 DEF IInv, TypeOK, OutMoved, Moved
  <2>3. CASE Wait
    <3>1. /\ last' = last /\ offset' = offset /\ out' = out /\ ts' = ts /\ tsOut' = tsOut
          /\ elapsed' = elapsed + 1 /\ elapsed < MaxElapsed
      BY <2>3 DEF Wait
    <3> QED
      BY <2>0, <3>1 DEF IInv, TypeOK, OutMoved, TsMoved, Moved
  <2>4. CASE UNCHANGED vars
    BY <2>4 DEF vars, IInv, TypeOK, OutMoved, TsMoved, Moved
  <2> QED
    BY <2>1, <2>2, <2>3, <2>4 DEF Next
<1> QED
  BY <1>1, <1>2, PTL DEF Spec

(* Every variable keeps its type. *)
THEOREM TypeCorrect == Spec => []TypeOK
<1>1. IInv => TypeOK
  BY DEF IInv
<1> QED
  BY <1>1, Invariance, PTL

(* Time stamps keep their distance to the clock reference, for clocks of   *)
(* every width.                                                            *)
THEOREM StampsKeepDistance == Spec => []DistanceKept
<1>1. IInv => DistanceKept
  <2> SUFFICES ASSUME IInv, ts # M, last # M
               PROVE  (M + tsOut - out) % M = (M + ts - last) % M
    BY DEF DistanceKept
  <2>1. ts \in Clock /\ last \in Clock /\ offset \in Clock
    BY ClockAssumption DEF IInv, TypeOK, Clock
  <2>2. tsOut = Moved(offset, ts) /\ out = Moved(offset, last)
    BY DEF IInv, TsMoved, OutMoved
  <2> QED
    BY <2>1, <2>2, Distance
<1> QED
  BY <1>1, Invariance, PTL

LEMMA PcrRunsOn ==
  ASSUME IInv, out # M, NEW pcr \in Clock, NEW discontinuity \in BOOLEAN,
         HandlePcr(pcr, discontinuity)
  PROVE  \E d \in 0 .. MaxInterval \cup {elapsed} : out' = Moved(d, out)
<1>1. /\ M \in Nat \ {0} /\ offset \in Int /\ pcr \in Int /\ elapsed \in Int
      /\ last # M /\ last \in Clock /\ last \in Int /\ MaxInterval \in Nat
  BY ClockAssumption DEF IInv, TypeOK, OutMoved, Clock
<1>2. out = Moved(offset, last) /\ out' = Moved(offset', pcr) /\ offset' \in Clock
  BY <1>1, PcrStep DEF IInv, OutMoved
<1>3. CASE PcrContinuous(pcr, discontinuity)
  <2> DEFINE d == Delta(pcr)
             x == M + pcr - last
  <2>1. x \in Int /\ last % M = last
    <3>1. Moved(0, last) = last /\ last + 0 = last
      BY <1>1, ClockIsMoved
    <3> QED
      BY <1>1, <3>1 DEF Moved
  <2>2. d = x % M
    BY <2>1 DEF Delta
  <2>3. PICK q \in Int : x = M * q + (x % M) /\ x % M \in 0 .. M - 1
    BY ONLY <1>1, <2>1, Division
  <2>4. d \in Nat /\ x = M * q + d /\ M * q \in Int /\ x = M + pcr - last
    <3>1. M * q \in Int
      BY <1>1, SMT
    <3>2. x = M + pcr - last
      OBVIOUS
    <3> HIDE DEF d, x
    <3> QED
      BY <1>1, <2>2, <2>3, <3>1, <3>2
  <2>5. d <= MaxInterval /\ offset' = offset
    BY <1>3 DEF PcrContinuous, Continuous
  <2> HIDE DEF d, x
  <2>6. Moved(d, out) = (last + offset + d) % M
    <3>1. d \in Int /\ offset \in Int /\ last \in Int
      BY <1>1, <2>4
    <3>2. Moved(d, Moved(offset, last)) = (last + offset + d) % M
      BY ONLY <3>1, MovedTwice
    <3> QED
      BY ONLY <1>2, <3>2
  <2>7. (last + offset + d) + M * q = (pcr + offset) + M
    BY <1>1, <2>4
  <2>8. last + offset + d \in Int /\ pcr + offset \in Int
    BY <1>1, <2>4
  <2>9. ((last + offset + d) + M * q) % M = (last + offset + d) % M
    BY ONLY <1>1, <2>3, <2>8, AddMultiple
  <2>10. ((pcr + offset) + M) % M = (pcr + offset) % M
    BY <2>8, Turn
  <2>11. out' = Moved(d, out)
    BY <1>2, <2>5, <2>6, <2>7, <2>9, <2>10 DEF Moved
  <2>12. d \in 0 .. MaxInterval
    BY <1>1, <2>4, <2>5
  <2> QED
    BY <2>11, <2>12
<1>4. CASE PcrJump(pcr, discontinuity)
  <2> DEFINE x == offset + M + Due - pcr
             y == last + elapsed
  <2>1. Due = y % M /\ Due \in Int /\ y \in Int
    BY <1>1, MovedIsClock DEF Due, Moved, Clock
  <2>2. x \in Int /\ offset' = x % M
    BY <1>1, <1>4, <2>1 DEF PcrJump, NewOffset
  <2>3. ((x % M) + pcr) % M = (x + pcr) % M
    BY ONLY <1>1, <2>2, AddRemainder
  <2>4. pcr + offset' = offset' + pcr
    BY <1>1, <1>2 DEF Clock
  <2>5. out' = (x + pcr) % M
    BY <1>2, <2>2, <2>3, <2>4 DEF Moved
  <2>6. x + pcr = (Due + offset) + M
    BY <1>1, <2>1
  <2>7. Due + offset \in Int
    BY <1>1, <2>1
  <2>8. ((Due + offset) + M) % M = (Due + offset) % M
    BY <2>7, Turn
  <2>9. (Due + offset) % M = (y + offset) % M
    BY ONLY <1>1, <2>1, AddRemainder
  <2>10. Moved(elapsed, out) = (last + offset + elapsed) % M
    BY <1>1, <1>2, MovedTwice
  <2>11. last + offset + elapsed = y + offset
    BY <1>1
  <2> QED
    BY <2>5, <2>6, <2>8, <2>9, <2>10, <2>11
<1> QED
  BY <1>1, <1>3, <1>4 DEF HandlePcr, PcrFirst

(* The clock that is written never jumps, for clocks of every width and    *)
(* however the clock that is read jumps, wraps or is flagged.              *)
THEOREM ClockRunsOn == Spec => RunsOn
<1>1. IInv /\ [Next]_vars
      => [out # M => \E d \in 0 .. MaxInterval \cup {elapsed} : out' = Moved(d, out)]_vars
  <2> SUFFICES ASSUME IInv, Next, out # M
               PROVE  \E d \in 0 .. MaxInterval \cup {elapsed} : out' = Moved(d, out)
    OBVIOUS
  <2>1. CASE PacketWithPcr
    BY <2>1, PcrRunsOn DEF PacketWithPcr
  <2>2. CASE out' = out
    <3>1. out \in Clock /\ 0 \in 0 .. MaxInterval
      BY ClockAssumption DEF IInv, TypeOK, Clock
    <3> QED
      BY <2>2, <3>1, ClockIsMoved
  <2> QED
    BY <2>1, <2>2 DEF Next, PacketWithoutPcr, Wait
<1> QED
  BY <1>1, Invariance, PTL DEF Spec, RunsOn

-----------------------------------------------------------------------------
(* Digits (dvb/si/datetime.h).                                             *)

(* Two decimal digits go into a byte, up to fifteen times ten, and out of  *)
(* it again.                                                               *)
LEMMA DigitsKept ==
  ASSUME NEW n \in 0 .. 159
  PROVE  dec2bcd(n) \in 0 .. 255 /\ bcd2dec(dec2bcd(n)) = n
<1>1. PICK a \in 0 .. 15, b \in 0 .. 9 : n = 10 * a + b
  <2>1. n \div 10 \in 0 .. 15 /\ n % 10 \in 0 .. 9 /\ n = 10 * (n \div 10) + (n % 10)
    OBVIOUS
  <2> QED  BY <2>1
<1>2. n \div 10 = a /\ n % 10 = b
  BY <1>1
<1>3. dec2bcd(n) = a * 16 + b
  BY <1>2 DEF dec2bcd
<1>4. (a * 16 + b) \div 16 = a /\ (a * 16 + b) % 16 = b
  OBVIOUS
<1> QED
  BY <1>1, <1>3, <1>4 DEF bcd2dec

(* A time of at most 159 hours.                                            *)
TimeOfDay == [h : 0 .. 159, m : 0 .. 59, s : 0 .. 59]

LEMMA TimeKept ==
  ASSUME NEW t \in TimeOfDay
  PROVE  dvb_time_decode_bcd(dvb_time_encode(t)) = t
<1>1. t.h \in 0 .. 159 /\ t.m \in 0 .. 159 /\ t.s \in 0 .. 159
  BY DEF TimeOfDay
<1>2. PICK a, b, c : a = dec2bcd(t.h) /\ b = dec2bcd(t.m) /\ c = dec2bcd(t.s)
  OBVIOUS
<1>3. a \in 0 .. 255 /\ b \in 0 .. 255 /\ c \in 0 .. 255
  BY <1>1, <1>2, DigitsKept, Zenon
<1>8. bcd2dec(a) = t.h /\ bcd2dec(b) = t.m /\ bcd2dec(c) = t.s
  BY <1>1, <1>2, DigitsKept, Zenon
<1>4. PICK x : x = dvb_time_encode(t)
  OBVIOUS
<1>5. x = a * 65536 + b * 256 + c
  BY <1>2, <1>4 DEF dvb_time_encode
<1>6. (x \div 65536) % 256 = a /\ (x \div 256) % 256 = b /\ x % 256 = c
  <2>1. x \div 65536 = a
    BY ONLY <1>3, <1>5, SMT
  <2>2. x \div 256 = a * 256 + b /\ x % 256 = c
    BY ONLY <1>3, <1>5, SMT
  <2>3. (a * 256 + b) % 256 = b /\ a % 256 = a
    BY ONLY <1>3, SMT
  <2> QED  BY ONLY <2>1, <2>2, <2>3
<1>7. dvb_time_decode_bcd(x) = [h |-> t.h, m |-> t.m, s |-> t.s]
  BY ONLY <1>6, <1>8, SMT DEF dvb_time_decode_bcd
<1> QED
  BY <1>4, <1>7 DEF TimeOfDay

(* Its seconds, taken apart.                                               *)
LEMMA DurationKept ==
  ASSUME NEW t \in TimeOfDay
  PROVE  /\ dvb_time_decode_bcd(dvb_time_encode_duration(Seconds(t))) = t
         /\ dvb_time_decode_bcd16(dvb_time_encode_duration16(Minutes(t))) = [t EXCEPT !.s = 0]
<1>1. PICK h \in 0 .. 159, m \in 0 .. 59, s \in 0 .. 59 : t = [h |-> h, m |-> m, s |-> s]
  <2>1. /\ t.h \in 0 .. 159 /\ t.m \in 0 .. 59 /\ t.s \in 0 .. 59
        /\ t = [h |-> t.h, m |-> t.m, s |-> t.s]
    BY DEF TimeOfDay
  <2> QED  BY <2>1, Zenon
<1>2. Seconds(t) = h * 3600 + m * 60 + s /\ Minutes(t) = h * 60 + m
  BY <1>1 DEF Seconds, Minutes
<1>3. (h * 3600 + m * 60 + s) % 60 = s
  OBVIOUS
<1>4. (h * 3600 + m * 60 + s - s) \div 60 = h * 60 + m
  OBVIOUS
<1>5. (h * 60 + m) % 60 = m /\ (h * 60 + m - m) \div 60 = h /\ h * 60 + m - h * 60 = m
      /\ (h * 60 + m) \div 60 = h
  OBVIOUS
<1>6. dvb_time_encode_duration(Seconds(t)) = dvb_time_encode(t)
  BY <1>1, <1>2, <1>3, <1>4, <1>5 DEF dvb_time_encode_duration
<1>7. PICK a, b : a = dec2bcd(h) /\ b = dec2bcd(m)
  OBVIOUS
<1>8. /\ a \in 0 .. 255 /\ bcd2dec(a) = h
      /\ b \in 0 .. 255 /\ bcd2dec(b) = m
  <2>1. h \in 0 .. 159 /\ m \in 0 .. 159
    OBVIOUS
  <2> QED  BY <1>7, <2>1, DigitsKept, Zenon
<1>9. PICK x : x = dvb_time_encode_duration16(Minutes(t))
  OBVIOUS
<1>10. x = a * 256 + b
  BY <1>2, <1>5, <1>7, <1>9 DEF dvb_time_encode_duration16
<1>11. (x \div 256) % 256 = a /\ x % 256 = b
  <2>1. x \div 256 = a /\ a % 256 = a /\ x % 256 = b
    BY ONLY <1>8, <1>10, SMT
  <2> QED  BY ONLY <2>1
<1>12. dvb_time_decode_bcd16(x) = [h |-> h, m |-> m, s |-> 0]
  BY ONLY <1>8, <1>11, Zenon DEF dvb_time_decode_bcd16
<1> QED
  BY <1>1, <1>6, <1>9, <1>12, TimeKept

-----------------------------------------------------------------------------
(* The calendar.                                                           *)

(* The days that a field can say.                                          *)
ValidDate(t) ==
  /\ t \in [y : Nat, m : 1 .. 12, d : 1 .. 31]
  /\ t.d <= DaysIn(t.y, t.m)
  /\ t.y = 0 => t.m >= 3
  /\ t.y <= 138
  /\ t.y = 138 => t.m < 4 \/ (t.m = 4 /\ t.d <= 22)

(* Days counted from the first of March: z months of the year are over,    *)
(* and p days of them.                                                     *)
MonthStart(z, p) ==
  <<z, p>> \in {<<4, 122>>, <<5, 153>>, <<6, 183>>, <<7, 214>>, <<8, 244>>, <<9, 275>>,
                <<10, 306>>, <<11, 336>>, <<12, 367>>, <<13, 397>>, <<14, 428>>, <<15, 459>>}

LEMMA MonthStarts ==
  ASSUME NEW z \in 4 .. 15
  PROVE  MonthStart(z, (z * 306001) \div 10000)
<1>4. CASE z = 4
  <2>1. (z * 306001) \div 10000 = 122
    BY <1>4, SMT
  <2> QED  BY <1>4, <2>1 DEF MonthStart
<1>5. CASE z = 5
  <2>1. (z * 306001) \div 10000 = 153
    BY <1>5, SMT
  <2> QED  BY <1>5, <2>1 DEF MonthStart
<1>6. CASE z = 6
  <2>1. (z * 306001) \div 10000 = 183
    BY <1>6, SMT
  <2> QED  BY <1>6, <2>1 DEF MonthStart
<1>7. CASE z = 7
  <2>1. (z * 306001) \div 10000 = 214
    BY <1>7, SMT
  <2> QED  BY <1>7, <2>1 DEF MonthStart
<1>8. CASE z = 8
  <2>1. (z * 306001) \div 10000 = 244
    BY <1>8, SMT
  <2> QED  BY <1>8, <2>1 DEF MonthStart
<1>9. CASE z = 9
  <2>1. (z * 306001) \div 10000 = 275
    BY <1>9, SMT
  <2> QED  BY <1>9, <2>1 DEF MonthStart
<1>10. CASE z = 10
  <2>1. (z * 306001) \div 10000 = 306
    BY <1>10, SMT
  <2> QED  BY <1>10, <2>1 DEF MonthStart
<1>11. CASE z = 11
  <2>1. (z * 306001) \div 10000 = 336
    BY <1>11, SMT
  <2> QED  BY <1>11, <2>1 DEF MonthStart
<1>12. CASE z = 12
  <2>1. (z * 306001) \div 10000 = 367
    BY <1>12, SMT
  <2> QED  BY <1>12, <2>1 DEF MonthStart
<1>13. CASE z = 13
  <2>1. (z * 306001) \div 10000 = 397
    BY <1>13, SMT
  <2> QED  BY <1>13, <2>1 DEF MonthStart
<1>14. CASE z = 14
  <2>1. (z * 306001) \div 10000 = 428
    BY <1>14, SMT
  <2> QED  BY <1>14, <2>1 DEF MonthStart
<1>15. CASE z = 15
  <2>1. (z * 306001) \div 10000 = 459
    BY <1>15, SMT
  <2> QED  BY <1>15, <2>1 DEF MonthStart
<1> QED
  BY <1>4, <1>5, <1>6, <1>7, <1>8, <1>9, <1>10, <1>11, <1>12, <1>13, <1>14, <1>15

(* The days up to a year, and the number of a day of it; the year and the   *)
(* month that are made of such a number.                                   *)
YearStart(v) == (v * 1461) \div 4
DayNumber(a, p, d) == 14956 + d + a + p
YearOf(mjd) == (mjd * 20 - 301564) \div 7305
MonthOf(mjd, a) == (mjd * 10000 - 149561000 - 10000 * a) \div 306001

(* February is the last month.                                             *)
February(v, z, d) == z = 15 => d <= 28 \/ (d = 29 /\ v % 4 = 3)

(* The year, counted from March, that a day is in.                         *)
LEMMA YearFound ==
  ASSUME NEW v \in Nat, NEW z, NEW d \in 1 .. 31, NEW p, MonthStart(z, p), February(v, z, d),
         NEW a, a = YearStart(v), NEW mjd, mjd = DayNumber(a, p, d)
  PROVE  YearOf(mjd) = v
<1>1. PICK r \in 0 .. 3, q \in Nat : v = 4 * q + r
  <2>1. v % 4 \in 0 .. 3 /\ v \div 4 \in Nat /\ v = 4 * (v \div 4) + (v % 4)
    OBVIOUS
  <2> QED  BY <2>1
<1>2. v % 4 = r
  BY <1>1
<1>3. a = 1461 * q + 365 * r
  BY <1>1 DEF YearStart
<1>4. PICK x : x = mjd * 20 - 301564
  OBVIOUS
<1>5. p \in 122 .. 459 /\ p + d >= 123
  BY DEF MonthStart
<1>6. 7305 * v <= x /\ x < 7305 * (v + 1) /\ x \in Int
  <2>1. x = 20 * (d + p) - 2444 + 29220 * q + 7300 * r
    <3>1. a \in Int /\ mjd = 14956 + d + a + p
      BY <1>3 DEF DayNumber
    <3> QED  BY ONLY d \in 1 .. 31, r \in 0 .. 3, q \in Nat, <1>3, <1>4, <1>5, <3>1, SMT
  <2>2. 7305 * v = 29220 * q + 7305 * r
    BY <1>1
  <2>3. p + d <= 487 \/ (p + d = 488 /\ r = 3)
    BY <1>2 DEF MonthStart, February
  <2> QED  BY <1>1, <1>5, <2>1, <2>2, <2>3
<1>7. x \div 7305 = v
  BY ONLY <1>6, v \in Nat, SMT
<1> QED
  BY <1>4, <1>7 DEF YearOf

(* Months of 30 days, and the last one.                                    *)
ShortMonth(z, d) == (z \in {5, 7, 10, 12} => d <= 30) /\ (z = 15 => d <= 29)

(* The month that a day is in.                                             *)
LEMMA MonthFound ==
  ASSUME NEW z, NEW d \in 1 .. 31, NEW p, MonthStart(z, p), NEW a \in Nat,
         ShortMonth(z, d), NEW mjd, mjd = DayNumber(a, p, d)
  PROVE  MonthOf(mjd, a) = z
<1>1. PICK x : x = mjd * 10000 - 149561000 - 10000 * a
  OBVIOUS
<1>2. x = 10000 * (d + p) - 1000
  BY <1>1 DEF MonthStart, DayNumber
<1>3. z \in Int /\ x \in Int /\ 306001 * z <= x /\ x < 306001 * (z + 1)
  BY <1>2 DEF MonthStart, ShortMonth
<1>4. x \div 306001 = z
  BY ONLY <1>3, SMT
<1> QED
  BY <1>1, <1>4 DEF MonthOf

(* A day that a field can say comes out as it went in.                     *)
LEMMA DateKept ==
  ASSUME NEW t, ValidDate(t)
  PROVE  dvb_mjd_get(dvb_mjd_set(t)) = t
<1>1. PICK y \in 0 .. 138, m \in 1 .. 12, d \in 1 .. 31 : t = [y |-> y, m |-> m, d |-> d]
  <2>1. /\ t.y \in 0 .. 138 /\ t.m \in 1 .. 12 /\ t.d \in 1 .. 31
        /\ t = [y |-> t.y, m |-> t.m, d |-> t.d]
    BY DEF ValidDate
  <2> QED  BY <2>1, Zenon
<1>2. /\ d <= DaysIn(y, m)
      /\ y = 0 => m >= 3
      /\ y = 138 => m < 4 \/ (m = 4 /\ d <= 22)
  BY <1>1 DEF ValidDate
<1>3. PICK l \in {0, 1} : l = IF m \in {1, 2} THEN 1 ELSE 0
  OBVIOUS
<1>4. PICK v, z : v = y - l /\ z = m + 1 + l * 12
  OBVIOUS
<1>5. v \in 0 .. 138 /\ z \in 4 .. 15
  BY <1>2, <1>3, <1>4
<1>6. PICK a, p : a = YearStart(v) /\ p = (z * 306001) \div 10000
  OBVIOUS
<1>7. MonthStart(z, p) /\ p \in 122 .. 459 /\ a \in Nat
  <2>1. MonthStart(z, p)
    BY <1>5, <1>6, MonthStarts
  <2>2. a \in Nat
    BY <1>5, <1>6 DEF YearStart
  <2> QED  BY <2>1, <2>2 DEF MonthStart
<1>8. z \in {5, 7, 10, 12} => d <= 30
  <2>1. z \in {5, 7, 10, 12} => m \in {4, 6, 9, 11}
    BY <1>3, <1>4
  <2> QED  BY <1>2, <2>1 DEF DaysIn
<1>9. z = 15 => d <= 28 \/ (d = 29 /\ v % 4 = 3)
  <2>1. ASSUME z = 15
        PROVE  m = 2 /\ l = 1 /\ y = v + 1
    BY <1>3, <1>4, <2>1, <1>5
  <2>2. ASSUME y % 4 = 0, y = v + 1
        PROVE  v % 4 = 3
    BY <1>5, <2>2
  <2> QED  BY <1>2, <2>1, <2>2 DEF DaysIn, Leap
<1>10. 14956 + d + a + p \in Nat /\ 14956 + d + a + p < 65536
  <2>1. CASE v <= 137
    <3>1. a <= 50039
      BY <1>5, <1>6, <2>1 DEF YearStart
    <3>2. a \in Nat /\ p \in 122 .. 459
      BY <1>7
    <3> QED  BY ONLY d \in 1 .. 31, <3>1, <3>2, SMT
  <2>2. CASE v = 138
    <3>1. a = 50404
      BY <1>6, <2>2 DEF YearStart
    <3>2. l = 0 /\ y = 138 /\ z \in {4, 5}
      BY <1>2, <1>3, <1>4, <2>2
    <3>3. z = 5 => d <= 22
      BY <1>2, <1>4, <3>2, SMT
    <3>4. (z = 4 /\ p = 122) \/ (z = 5 /\ p = 153)
      BY <1>7, <3>2, SMT DEF MonthStart
    <3> QED  BY ONLY d \in 1 .. 31, <3>1, <3>3, <3>4, SMT
  <2> QED  BY <1>5, <2>1, <2>2, SMT
<1>11. PICK mjd : mjd = DayNumber(a, p, d)
  OBVIOUS
<1>12. dvb_mjd_set(t) = mjd
  <2>1. mjd % 65536 = mjd
    BY ONLY <1>10, <1>11, SMT DEF DayNumber
  <2> QED  BY <1>1, <1>3, <1>4, <1>6, <1>11, <2>1, SMT DEF dvb_mjd_set, DayNumber, YearStart
<1>13. YearOf(mjd) = v
  <2>1. v \in Nat /\ February(v, z, d) /\ MonthStart(z, p) /\ a = YearStart(v)
    BY <1>5, <1>6, <1>7, <1>9 DEF February
  <2> QED  BY ONLY d \in 1 .. 31, <2>1, <1>11, YearFound, Zenon
<1>14. MonthOf(mjd, a) = z
  <2>1. ShortMonth(z, d) /\ MonthStart(z, p) /\ a \in Nat
    BY <1>7, <1>8, <1>9 DEF ShortMonth
  <2> QED  BY ONLY d \in 1 .. 31, <2>1, <1>11, MonthFound, SMT
<1>15. PICK k \in {0, 1} : k = IF z \in {14, 15} THEN 1 ELSE 0
  OBVIOUS
<1>16. dvb_mjd_get(mjd) = [y |-> v + k, m |-> z - 1 - k * 12, d |-> mjd - 14956 - a - p]
  BY <1>6, <1>13, <1>14, <1>15, SMT DEF dvb_mjd_get, YearOf, MonthOf, YearStart
<1>17. k = l
  BY <1>3, <1>4, <1>15
<1>18. v + k = y /\ z - 1 - k * 12 = m /\ mjd - 14956 - a - p = d
  BY <1>4, <1>7, <1>11, <1>17, SMT DEF DayNumber
<1> QED
  BY <1>1, <1>12, <1>16, <1>18

(* The day after one that a field can say is another one, up to the last.  *)
LEMMA TomorrowIsValid ==
  ASSUME NEW t, ValidDate(t), t # LastDay
  PROVE  ValidDate(Tomorrow(t))
<1>1. PICK y \in 0 .. 138, m \in 1 .. 12, d \in 1 .. 31 : t = [y |-> y, m |-> m, d |-> d]
  <2>1. /\ t.y \in 0 .. 138 /\ t.m \in 1 .. 12 /\ t.d \in 1 .. 31
        /\ t = [y |-> t.y, m |-> t.m, d |-> t.d]
    BY DEF ValidDate
  <2> QED  BY <2>1, Zenon
<1>2. /\ d <= DaysIn(y, m)
      /\ y = 0 => m >= 3
      /\ y = 138 => m < 4 \/ (m = 4 /\ d <= 22)
  BY <1>1 DEF ValidDate
<1>3. ~ (y = 138 /\ m = 4 /\ d = 22)
  BY <1>1 DEF LastDay
<1>4. \A i \in Nat, j \in 1 .. 12 : DaysIn(i, j) \in 28 .. 31
  BY DEF DaysIn
<1>5. CASE d < DaysIn(y, m)
  <2>1. Tomorrow(t) = [y |-> y, m |-> m, d |-> d + 1]
    BY <1>1, <1>5 DEF Tomorrow
  <2>2. d + 1 \in 1 .. 31 /\ d + 1 <= DaysIn(y, m)
    BY <1>4, <1>5
  <2> QED  BY <1>2, <1>3, <2>1, <2>2 DEF ValidDate
<1>6. CASE ~ (d < DaysIn(y, m)) /\ m < 12
  <2>1. Tomorrow(t) = [y |-> y, m |-> m + 1, d |-> 1]
    BY <1>1, <1>6 DEF Tomorrow
  <2>2. m + 1 \in 1 .. 12 /\ 1 <= DaysIn(y, m + 1)
    BY <1>4, <1>6
  <2>3. m = 4 => d = 30
    BY <1>2, <1>4, <1>6 DEF DaysIn
  <2>4. y = 138 => m + 1 < 4 \/ (m + 1 = 4 /\ 1 <= 22)
    BY <1>2, <2>3
  <2> QED  BY <1>2, <2>1, <2>2, <2>4 DEF ValidDate
<1>7. CASE ~ (d < DaysIn(y, m)) /\ m = 12
  <2>1. Tomorrow(t) = [y |-> y + 1, m |-> 1, d |-> 1]
    BY <1>1, <1>7 DEF Tomorrow
  <2>2. 1 <= DaysIn(y + 1, 1) /\ y < 138
    BY <1>2, <1>4, <1>7
  <2> QED  BY <2>1, <2>2 DEF ValidDate
<1> QED
  BY <1>5, <1>6, <1>7

-----------------------------------------------------------------------------
(* Times are kept.                                                         *)

TimeInv ==
  /\ ValidDate(date)
  /\ clock \in TimeOfDay /\ duration \in TimeOfDay

LEMMA TimeInvKeepsTimes == TimeInv => TimesKept
<1> SUFFICES ASSUME TimeInv PROVE TimesKept
  OBVIOUS
<1>1. dvb_mjd_get(dvb_mjd_set(date)) = date
  BY DateKept DEF TimeInv
<1>2. dvb_time_decode_bcd(dvb_time_encode(clock)) = clock
  BY TimeKept DEF TimeInv
<1>3. dvb_time_decode_UTC(dvb_time_encode_UTC(date, clock)) = <<date, clock>>
  BY <1>1, <1>2, SMT DEF dvb_time_decode_UTC, dvb_time_encode_UTC
<1>4. /\ dvb_time_decode_bcd(dvb_time_encode_duration(Seconds(duration))) = duration
      /\ dvb_time_decode_bcd16(dvb_time_encode_duration16(Minutes(duration)))
           = [duration EXCEPT !.s = 0]
  BY DurationKept DEF TimeInv
<1> QED
  BY <1>3, <1>4 DEF TimesKept

LEMMA InitTimeInv == ASSUME MaxHours <= 159, ConversionInit PROVE TimeInv
<1>1. NoTime \in TimeOfDay
  BY SMT DEF NoTime, TimeOfDay
<1>2. ValidDate(FirstDay) /\ ValidDate(LastDay)
  BY SMT DEF ValidDate, FirstDay, LastDay, DaysIn, Leap
<1>3. CASE TimeInit
  <2>1. date = FirstDay
    BY <1>3 DEF TimeInit
  <2>2. Times(0 .. 23) \subseteq TimeOfDay /\ Times(0 .. MaxHours) \subseteq TimeOfDay
    <3>1. Digits \subseteq 0 .. 59 /\ 0 .. 23 \subseteq 0 .. 159 /\ 0 .. MaxHours \subseteq 0 .. 159
      BY DvbTimeAssumption, SMT
    <3>2. ASSUME NEW hours, hours \subseteq 0 .. 159
          PROVE  [h : hours, m : Digits, s : Digits] \subseteq TimeOfDay
      <4>1. SUFFICES ASSUME NEW t \in [h : hours, m : Digits, s : Digits] PROVE t \in TimeOfDay
        OBVIOUS
      <4>2. /\ t = [h |-> t.h, m |-> t.m, s |-> t.s]
            /\ t.h \in hours /\ t.m \in Digits /\ t.s \in Digits
        OBVIOUS
      <4>3. t.h \in 0 .. 159 /\ t.m \in 0 .. 59 /\ t.s \in 0 .. 59
        BY <3>1, <3>2, <4>2
      <4> QED  BY <4>2, <4>3 DEF TimeOfDay
    <3> QED  BY <3>1, <3>2, Zenon DEF Times
  <2>3. clock \in TimeOfDay /\ duration \in TimeOfDay
    BY <1>1, <1>3, <2>2, Zenon DEF TimeInit
  <2> QED  BY <1>2, <2>1, <2>3, Zenon DEF TimeInv
<1>4. CASE TimeIdle
  BY <1>1, <1>2, <1>4, Zenon DEF TimeInv, TimeIdle
<1> QED
  BY <1>3, <1>4 DEF ConversionInit

LEMMA StepTimeInv == ASSUME TimeInv, [ConversionNext]_conversionVars PROVE TimeInv'
<1>1. CASE NextDay
  <2>1. date # LastDay /\ date' = Tomorrow(date) /\ UNCHANGED <<clock, duration>>
    BY <1>1 DEF NextDay
  <2>2. ValidDate(Tomorrow(date))
    BY <2>1, TomorrowIsValid DEF TimeInv
  <2> QED  BY <2>1, <2>2, Zenon DEF TimeInv
<1>2. CASE UNCHANGED timeVars
  BY <1>2, Zenon DEF TimeInv, timeVars
<1> QED
  BY <1>1, <1>2 DEF ConversionNext, conversionVars

(* Any number of minutes and seconds, and of hours that eight bits hold,   *)
(* and every day up to the 22nd of April 2038, are read back as they were  *)
(* written (generate_tdt of dvb_gen_si.c checks the time it sends).        *)
THEOREM TimesAreKept == MaxHours <= 159 => (ConversionSpec => []TimesKept)
<1> SUFFICES ASSUME MaxHours <= 159
             PROVE  ConversionSpec => []TimesKept
  OBVIOUS
<1>1. ConversionInit => TimeInv
  BY InitTimeInv
<1>2. TimeInv /\ [ConversionNext]_conversionVars => TimeInv'
  BY StepTimeInv
<1>3. TimeInv => TimesKept
  BY TimeInvKeepsTimes
<1> QED
  BY <1>1, <1>2, <1>3, PTL DEF ConversionSpec

-----------------------------------------------------------------------------
(* Sequences put together from pieces (FlattenSeq).                        *)

(* The first i of n pieces, one after the other.                           *)
Partial(P, n, g) == P = [i \in 0 .. n |-> IF i = 0 THEN <<>> ELSE P[i - 1] \o g[i]]

LEMMA PartialExists ==
  ASSUME NEW n \in Nat, NEW g
  PROVE  \E P : Partial(P, n, g)
<1> DEFINE Good(m) == \E P : Partial(P, m, g)
           Bad == {m \in Nat : ~ Good(m)}
<1>1. Good(0)
  <2> DEFINE Q == [i \in 0 .. 0 |-> <<>>]
             R == [i \in 0 .. 0 |-> IF i = 0 THEN <<>> ELSE Q[i - 1] \o g[i]]
  <2>1. \A i \in 0 .. 0 : Q[i] = R[i]
    OBVIOUS
  <2>2. Q = R
    BY <2>1
  <2>3. Partial(Q, 0, g)
    BY <2>2 DEF Partial
  <2> QED  BY <2>3
<1>2. ASSUME NEW m \in Nat, Good(m)
      PROVE  Good(m + 1)
  <2>1. PICK P : Partial(P, m, g)
    BY <1>2
  <2> DEFINE Q == [i \in 0 .. m + 1 |-> IF i = m + 1 THEN P[m] \o g[m + 1] ELSE P[i]]
             R == [i \in 0 .. m + 1 |-> IF i = 0 THEN <<>> ELSE Q[i - 1] \o g[i]]
  <2>2. ASSUME NEW i \in 0 .. m + 1
        PROVE  Q[i] = IF i = 0 THEN <<>> ELSE Q[i - 1] \o g[i]
    <3>1. CASE i = m + 1
      <4>1. Q[i - 1] = P[m] /\ Q[i] = P[m] \o g[m + 1] /\ i # 0
        BY <3>1
      <4>2. Q[i] = Q[i - 1] \o g[i]
        BY <3>1, <4>1, Zenon
      <4> QED  BY <4>1, <4>2
    <3>2. CASE i # m + 1
      <4>1. i \in 0 .. m
        BY <3>2
      <4>2. P[i] = IF i = 0 THEN <<>> ELSE P[i - 1] \o g[i]
        BY <2>1, <4>1 DEF Partial
      <4>3. i # 0 => Q[i - 1] = P[i - 1]
        BY <4>1
      <4> QED  BY <3>2, <4>2, <4>3
    <3> QED  BY <3>1, <3>2
  <2>3. Partial(Q, m + 1, g)
    <3>1. \A i \in 0 .. m + 1 : Q[i] = R[i]
      BY <2>2
    <3>2. Q = R
      BY <3>1
    <3> QED  BY <3>2 DEF Partial
  <2> QED  BY <2>3
<1> HIDE DEF Good
<1>3. Bad = {}
  <2> SUFFICES ASSUME Bad # {} PROVE FALSE
    OBVIOUS
  <2>1. PICK m \in Bad : \A k \in Bad : m <= k
    BY HasLeast
  <2>2. m # 0 /\ m - 1 \in Nat
    BY <1>1
  <2>3. Good(m - 1)
    BY <2>1, <2>2
  <2>4. Good(m - 1 + 1)
    BY <1>2, <2>2, <2>3
  <2> QED  BY <2>4
<1>4. Good(n)
  BY <1>3
<1> QED  BY <1>4 DEF Good

(* A statement about numbers that holds of 0, and of each next one, holds  *)
(* of all up to n.                                                         *)
LEMMA Climb ==
  ASSUME NEW n \in Nat, NEW Good \in SUBSET Nat, 0 \in Good,
         \A i \in 1 .. n : i - 1 \in Good => i \in Good
  PROVE  \A i \in 0 .. n : i \in Good
<1> SUFFICES ASSUME NEW b \in 0 .. n, b \notin Good
             PROVE  FALSE
  OBVIOUS
<1> DEFINE Bad == {i \in 0 .. n : i \notin Good}
<1>1. PICK i \in Bad : \A k \in Bad : i <= k
  <2>1. Bad \in SUBSET Nat /\ Bad # {}
    OBVIOUS
  <2> QED  BY <2>1, HasLeast
<1>2. i \in 1 .. n /\ i - 1 \in 0 .. n /\ i - 1 \notin Bad
  BY <1>1
<1> QED
  BY <1>2

(* What pieces make, and each part of it.                                  *)
LEMMA PartialIs ==
  ASSUME NEW T, NEW n \in Nat, NEW g \in [1 .. n -> Seq(T)], NEW P, Partial(P, n, g)
  PROVE  /\ P[0] = <<>>
         /\ \A i \in 1 .. n : P[i] = P[i - 1] \o g[i]
         /\ \A i \in 0 .. n : P[i] \in Seq(T)
<1>1. ASSUME NEW i \in 0 .. n
      PROVE  P[i] = IF i = 0 THEN <<>> ELSE P[i - 1] \o g[i]
  BY DEF Partial
<1>2. P[0] = <<>>
  <2>1. 0 \in 0 .. n
    OBVIOUS
  <2> QED  BY <1>1, <2>1, Zenon
<1>3. ASSUME NEW i \in 1 .. n
      PROVE  P[i] = P[i - 1] \o g[i]
  <2>1. i \in 0 .. n /\ i # 0
    OBVIOUS
  <2> QED  BY <1>1, <2>1, Zenon
<1> DEFINE Good == {i \in Nat : P[i] \in Seq(T)}
<1>4. 0 \in Good
  <2>1. <<>> \in Seq(T) /\ 0 \in Nat
    OBVIOUS
  <2> QED  BY <1>2, <2>1, Zenon
<1>5. ASSUME NEW i \in 1 .. n, i - 1 \in Good
      PROVE  i \in Good
  <2>1. P[i - 1] \in Seq(T) /\ g[i] \in Seq(T)
    BY <1>5
  <2>2. P[i - 1] \o g[i] \in Seq(T)
    BY <2>1
  <2>3. P[i] \in Seq(T)
    BY <1>3, <2>2, Zenon
  <2> QED  BY <2>3
<1>6. \A i \in 0 .. n : i \in Good
  BY <1>4, <1>5, Climb
<1> QED
  BY <1>2, <1>3, <1>6

LEMMA Flattened ==
  ASSUME NEW T, NEW n \in Nat, NEW g \in [1 .. n -> Seq(T)], NEW P, Partial(P, n, g)
  PROVE  FlattenSeq(g) = P[n]
<1>1. Len(g) = n
  OBVIOUS
<1>2. /\ P[0] = <<>>
      /\ \A i \in 1 .. n : P[i] = P[i - 1] \o g[i]
      /\ \A i \in 0 .. n : P[i] \in Seq(T)
  BY PartialIs
<1>3. CASE n = 0
  <2>1. g = <<>>
    BY <1>3
  <2> QED  BY <1>1, <1>2, <1>3, <2>1 DEF FlattenSeq
<1>4. CASE n # 0
  <2> DEFINE Is(f) == f = [i \in 1 .. n |-> IF i = 1 THEN g[i] ELSE f[i - 1] \o g[i]]
             F == CHOOSE f : Is(f)
  <2>1. FlattenSeq(g) = F[n]
    BY <1>1, <1>4 DEF FlattenSeq
  <2>2. \E f : Is(f)
    <3> DEFINE Q == [i \in 1 .. n |-> P[i]]
    <3>1. \A i \in 1 .. n : P[i] = IF i = 1 THEN g[i] ELSE Q[i - 1] \o g[i]
      <4>1. ASSUME NEW i \in 1 .. n, i = 1 PROVE P[i] = g[i]
        <5>1. 1 \in 1 .. n /\ 1 - 1 = 0 /\ g[1] \in Seq(T)
          BY <4>1
        <5>2. P[1] = <<>> \o g[1]
          BY <1>2, <5>1, Zenon
        <5> QED  BY <4>1, <5>1, <5>2
      <4>2. ASSUME NEW i \in 1 .. n, i # 1 PROVE P[i] = Q[i - 1] \o g[i]
        <5>1. i - 1 \in 1 .. n
          BY <4>2
        <5> QED  BY <1>2, <5>1
      <4> QED  BY <4>1, <4>2
    <3>2. Q = [i \in 1 .. n |-> IF i = 1 THEN g[i] ELSE Q[i - 1] \o g[i]]
      BY <3>1
    <3> QED  BY <3>2
  <2>3. Is(F)
    BY <2>2
  <2> HIDE DEF F
  <2> DEFINE Good == {0} \cup {i \in 1 .. n : F[i] = P[i]}
  <2>4. ASSUME NEW i \in 1 .. n, i - 1 \in Good
        PROVE  i \in Good
    <3>1. F[i] = IF i = 1 THEN g[i] ELSE F[i - 1] \o g[i]
      BY <2>3
    <3>2. CASE i = 1
      <4>1. 1 \in 1 .. n /\ 1 - 1 = 0 /\ g[1] \in Seq(T)
        BY <3>2
      <4>2. P[1] = <<>> \o g[1]
        BY <1>2, <4>1, Zenon
      <4> QED  BY <3>1, <3>2, <4>1, <4>2
    <3>3. CASE i # 1
      <4>1. F[i - 1] = P[i - 1]
        BY <2>4, <3>3
      <4> QED  BY <1>2, <3>1, <3>3, <4>1
    <3> QED  BY <3>2, <3>3
  <2>5. \A i \in 0 .. n : i \in Good
    <3>1. Good \in SUBSET Nat /\ 0 \in Good
      OBVIOUS
    <3> QED  BY <2>4, <3>1, Climb
  <2> QED  BY <1>4, <2>1, <2>5
<1> QED
  BY <1>3, <1>4

(* A sequence of one piece more.                                           *)
LEMMA OnePieceMore ==
  ASSUME NEW T, NEW n \in Nat, NEW g \in [1 .. n + 1 -> Seq(T)],
         NEW f \in [1 .. n -> Seq(T)], \A i \in 1 .. n : f[i] = g[i]
  PROVE  FlattenSeq(g) = FlattenSeq(f) \o g[n + 1]
<1>1. PICK P : Partial(P, n, f)
  BY PartialExists, Zenon
<1>2. n + 1 \in Nat
  OBVIOUS
<1>3. PICK Q : Partial(Q, n + 1, g)
  BY <1>2, PartialExists, Zenon
<1>4. FlattenSeq(f) = P[n] /\ FlattenSeq(g) = Q[n + 1]
  BY <1>1, <1>2, <1>3, Flattened, Zenon
<1>5. /\ P[0] = <<>>
      /\ \A i \in 1 .. n : P[i] = P[i - 1] \o f[i]
      /\ \A i \in 0 .. n : P[i] \in Seq(T)
  BY <1>1, PartialIs, Zenon
<1>6. PICK m \in Nat : m = n + 1
  BY <1>2
<1>12. /\ Q[0] = <<>>
       /\ \A i \in 1 .. m : Q[i] = Q[i - 1] \o g[i]
       /\ \A i \in 0 .. m : Q[i] \in Seq(T)
  <2>1. g \in [1 .. m -> Seq(T)] /\ Partial(Q, m, g)
    BY <1>3, <1>6
  <2> QED  BY <2>1, PartialIs, Zenon
<1> DEFINE Good == {i \in Nat : P[i] = Q[i]}
<1>7. ASSUME NEW i \in 1 .. n, i - 1 \in Good
      PROVE  i \in Good
  <2>1. i \in 1 .. m /\ i \in Nat
    BY <1>6
  <2>2. P[i] = P[i - 1] \o f[i] /\ Q[i] = Q[i - 1] \o g[i] /\ f[i] = g[i]
    BY <1>5, <1>12, <2>1
  <2>3. P[i] = Q[i]
    BY <1>7, <2>2
  <2> QED  BY <2>1, <2>3
<1>8. 0 \in Good
  BY <1>5, <1>12
<1>9. \A i \in 0 .. n : i \in Good
  <2>1. Good \in SUBSET Nat
    OBVIOUS
  <2> QED  BY <1>7, <1>8, <2>1, Climb
<1>10. P[n] = Q[n]
  BY <1>9
<1>11. Q[m] = Q[n] \o g[m]
  <2>1. m \in 1 .. m /\ m - 1 = n
    BY <1>6
  <2>2. Q[m] = Q[m - 1] \o g[m]
    BY <1>12, <2>1, Zenon
  <2> QED  BY <2>1, <2>2, Zenon
<1> QED
  BY <1>4, <1>6, <1>10, <1>11, Zenon

LEMMA NoPieces == FlattenSeq(<<>>) = <<>>
BY DEF FlattenSeq

LEMMA FlattenedIsSequence ==
  ASSUME NEW T, NEW n \in Nat, NEW g \in [1 .. n -> Seq(T)]
  PROVE  FlattenSeq(g) \in Seq(T)
<1>1. PICK P : Partial(P, n, g)
  BY PartialExists, Zenon
<1>2. FlattenSeq(g) = P[n] /\ \A i \in 0 .. n : P[i] \in Seq(T)
  BY <1>1, Flattened, PartialIs, Zenon
<1> QED
  BY <1>2

(* Where each piece ends, and what stands there.                           *)
Ends(P, n, g) ==
  /\ \A i \in 1 .. n : /\ Len(P[i]) = Len(P[i - 1]) + Len(g[i])
                       /\ \A k \in 1 .. Len(g[i]) : P[i][Len(P[i - 1]) + k] = g[i][k]
  /\ \A i \in 0 .. n : /\ Len(P[i]) \in Nat /\ Len(P[i]) <= Len(P[n])
                       /\ \A k \in 1 .. Len(P[i]) : P[n][k] = P[i][k]

LEMMA PieceEnds ==
  ASSUME NEW T, NEW n \in Nat, NEW g \in [1 .. n -> Seq(T)], NEW P, Partial(P, n, g)
  PROVE  Ends(P, n, g)
<1>1. /\ P[0] = <<>>
      /\ \A i \in 1 .. n : P[i] = P[i - 1] \o g[i]
      /\ \A i \in 0 .. n : P[i] \in Seq(T)
  BY PartialIs, Zenon
<1>2. ASSUME NEW i \in 1 .. n
      PROVE  /\ Len(P[i]) = Len(P[i - 1]) + Len(g[i])
             /\ Len(P[i - 1]) \in Nat /\ Len(P[i]) \in Nat /\ Len(g[i]) \in Nat
             /\ \A k \in 1 .. Len(g[i]) : P[i][Len(P[i - 1]) + k] = g[i][k]
             /\ \A k \in 1 .. Len(P[i - 1]) : P[i][k] = P[i - 1][k]
  <2>1. i \in 0 .. n /\ i - 1 \in 0 .. n
    OBVIOUS
  <2>2. PICK s, t, r : s = P[i - 1] /\ t = g[i] /\ r = P[i]
    OBVIOUS
  <2>3. s \in Seq(T) /\ t \in Seq(T) /\ r = s \o t
    BY <1>1, <2>1, <2>2
  <2>4. /\ Len(r) = Len(s) + Len(t) /\ Len(s) \in Nat /\ Len(r) \in Nat /\ Len(t) \in Nat
        /\ \A k \in 1 .. Len(t) : r[Len(s) + k] = t[k]
        /\ \A k \in 1 .. Len(s) : r[k] = s[k]
    BY ONLY <2>3
  <2> QED  BY ONLY <2>2, <2>4
<1> DEFINE Within(i) == /\ Len(P[n - i]) \in Nat /\ Len(P[n - i]) <= Len(P[n])
                        /\ \A k \in 1 .. Len(P[n - i]) : P[n][k] = P[n - i][k]
           Good == {i \in Nat : Within(i)}
<1>3. Within(0)
  <2>1. n \in 0 .. n /\ n - 0 = n
    OBVIOUS
  <2>2. P[n] \in Seq(T)
    BY <1>1, <2>1
  <2>3. Len(P[n]) \in Nat
    BY <2>2
  <2> QED  BY <2>1, <2>3
<1>4. ASSUME NEW i \in 1 .. n, Within(i - 1)
      PROVE  Within(i)
  <2>1. PICK j \in 1 .. n : j = n - i + 1
    OBVIOUS
  <2>2. n - (i - 1) = j /\ n - i = j - 1
    BY <2>1
  <2>3. Len(P[j]) \in Nat /\ Len(P[j]) <= Len(P[n]) /\ \A k \in 1 .. Len(P[j]) : P[n][k] = P[j][k]
    BY <1>4, <2>2
  <2>4. /\ Len(P[j - 1]) \in Nat /\ Len(P[j - 1]) <= Len(P[j])
        /\ \A k \in 1 .. Len(P[j - 1]) : P[j][k] = P[j - 1][k]
    <3>1. /\ Len(P[j]) = Len(P[j - 1]) + Len(g[j])
          /\ Len(P[j - 1]) \in Nat /\ Len(g[j]) \in Nat
          /\ \A k \in 1 .. Len(P[j - 1]) : P[j][k] = P[j - 1][k]
      BY <1>2, Zenon
    <3> QED  BY ONLY <3>1
  <2>5. Len(P[n]) \in Nat
    BY <1>3
  <2>6. /\ Len(P[j - 1]) \in Nat /\ Len(P[j - 1]) <= Len(P[n])
        /\ \A k \in 1 .. Len(P[j - 1]) : P[n][k] = P[j - 1][k]
    BY ONLY <2>3, <2>4, <2>5
  <2> QED  BY <2>2, <2>6
<1>5. \A i \in 0 .. n : Within(i)
  <2> HIDE DEF Within
  <2>1. Good \in SUBSET Nat /\ 0 \in Good
    BY <1>3
  <2>2. \A i \in 1 .. n : i - 1 \in Good => i \in Good
    BY <1>4
  <2> QED  BY <2>1, <2>2, Climb
<1>6. ASSUME NEW i \in 0 .. n
      PROVE  /\ Len(P[i]) \in Nat /\ Len(P[i]) <= Len(P[n])
             /\ \A k \in 1 .. Len(P[i]) : P[n][k] = P[i][k]
  <2>1. n - i \in 0 .. n /\ n - (n - i) = i
    OBVIOUS
  <2>2. Within(n - i)
    BY <1>5, <2>1
  <2> QED  BY <2>1, <2>2
<1> QED
  BY <1>2, <1>6 DEF Ends

-----------------------------------------------------------------------------
(* Unsynchronised content (id3/id3v2.h).                                   *)

(* A byte that gets a zero behind it.                                      *)
Doubled(d, i) == FalseSync(d, i) \/ ZeroPair(d, i)

LEMMA DoubledIs ==
  ASSUME NEW d \in Seq(Bytes), NEW i \in 1 .. Len(d)
  PROVE  /\ d[i] \in Bytes
         /\ Doubled(d, i) <=> i < Len(d) /\ d[i] = "ff" /\ d[i + 1] \in {"ff", "ones", "zero"}
<1>1. DOMAIN d = 1 .. Len(d) /\ Len(d) \in Nat /\ d[i] \in Bytes
  OBVIOUS
<1> QED
  BY <1>1 DEF Doubled, FalseSync, ZeroPair

SeparatedPieces(d) == [i \in DOMAIN d |-> IF Doubled(d, i) THEN <<"ff", "zero">> ELSE <<d[i]>>]

(* Byte i of what is separated becomes what stands from e[i - 1] to e[i].  *)
Placed(e, d, s) ==
  /\ e \in [0 .. Len(d) -> Nat] /\ e[0] = 0 /\ e[Len(d)] = Len(s) /\ s \in Seq(Bytes)
  /\ \A i \in 1 .. Len(d) :
       /\ e[i] = (IF Doubled(d, i) THEN e[i - 1] + 2 ELSE e[i - 1] + 1)
       /\ s[e[i - 1] + 1] = d[i]
       /\ Doubled(d, i) => s[e[i - 1] + 2] = "zero"
       /\ e[i] <= Len(s)

LEMMA SeparatedPlaces ==
  ASSUME NEW d \in Seq(Bytes)
  PROVE  \E e : Placed(e, d, Separated(d))
<1>1. PICK n \in Nat : n = Len(d)
  OBVIOUS
<1>2. DOMAIN d = 1 .. n
  BY <1>1
<1> DEFINE g == SeparatedPieces(d)
<1>3. ASSUME NEW i \in 1 .. n
      PROVE  /\ Doubled(d, i) => g[i] = <<"ff", "zero">> /\ d[i] = "ff"
             /\ ~ Doubled(d, i) => g[i] = <<d[i]>>
             /\ g[i] \in Seq(Bytes) /\ d[i] \in Bytes
  <2>1. /\ d[i] \in Bytes
        /\ Doubled(d, i) => d[i] = "ff"
    BY <1>1, DoubledIs, Zenon
  <2>2. g[i] = IF Doubled(d, i) THEN <<"ff", "zero">> ELSE <<d[i]>>
    BY <1>2 DEF SeparatedPieces
  <2>3. <<"ff", "zero">> \in Seq(Bytes) /\ <<d[i]>> \in Seq(Bytes)
    BY <2>1 DEF Bytes
  <2> QED  BY <2>1, <2>2, <2>3, Zenon
<1>4. g \in [1 .. n -> Seq(Bytes)]
  BY <1>2, <1>3 DEF SeparatedPieces
<1>5. Separated(d) = FlattenSeq(g)
  BY DEF Separated, SeparatedPieces, Doubled
<1> HIDE DEF g
<1>6. PICK P : Partial(P, n, g)
  BY PartialExists, Zenon
<1>7. /\ P[0] = <<>>
      /\ \A i \in 1 .. n : P[i] = P[i - 1] \o g[i]
      /\ \A i \in 0 .. n : P[i] \in Seq(Bytes)
  BY <1>4, <1>6, PartialIs, Zenon
<1>8. Ends(P, n, g)
  BY <1>4, <1>6, PieceEnds, Zenon
<1>9. Separated(d) = P[n]
  BY <1>4, <1>5, <1>6, Flattened, Zenon
<1> DEFINE e == [i \in 0 .. n |-> Len(P[i])]
<1>10. e \in [0 .. n -> Nat] /\ e[0] = 0 /\ e[n] = Len(P[n])
  BY <1>7, <1>8 DEF Ends
<1>11. ASSUME NEW i \in 1 .. n
       PROVE  /\ e[i] = IF Doubled(d, i) THEN e[i - 1] + 2 ELSE e[i - 1] + 1
              /\ P[n][e[i - 1] + 1] = d[i]
              /\ Doubled(d, i) => P[n][e[i - 1] + 2] = "zero"
              /\ e[i] <= Len(P[n])
  <2>1. i \in 0 .. n /\ i - 1 \in 0 .. n
    OBVIOUS
  <2>2. PICK a, b, s, q : a = e[i - 1] /\ b = e[i] /\ s = P[n] /\ q = P[i]
    OBVIOUS
  <2>3. a = Len(P[i - 1]) /\ b = Len(q) /\ a \in Nat /\ b \in Nat /\ b <= Len(s)
    BY <1>8, <2>1, <2>2 DEF Ends
  <2>4. /\ b = a + Len(g[i])
        /\ \A k \in 1 .. Len(g[i]) : q[a + k] = g[i][k]
    BY <1>8, <2>2, <2>3 DEF Ends
  <2>5. \A k \in 1 .. b : s[k] = q[k]
    BY <1>8, <2>1, <2>2, <2>3 DEF Ends
  <2>6. CASE Doubled(d, i)
    <3>1. g[i] = <<"ff", "zero">> /\ d[i] = "ff"
      BY <1>3, <2>6
    <3>2. Len(g[i]) = 2 /\ g[i][1] = "ff" /\ g[i][2] = "zero"
      BY <3>1
    <3>3. b = a + 2 /\ q[a + 1] = "ff" /\ q[a + 2] = "zero"
      BY <2>4, <3>2
    <3>4. s[a + 1] = "ff" /\ s[a + 2] = "zero"
      BY <2>3, <2>5, <3>3
    <3> QED  BY <2>2, <2>3, <2>6, <3>1, <3>3, <3>4
  <2>7. CASE ~ Doubled(d, i)
    <3>1. g[i] = <<d[i]>>
      BY <1>3, <2>7
    <3>2. Len(g[i]) = 1 /\ g[i][1] = d[i]
      BY <3>1
    <3>3. b = a + 1 /\ q[a + 1] = d[i]
      BY <2>4, <3>2
    <3>4. s[a + 1] = d[i]
      BY <2>3, <2>5, <3>3
    <3> QED  BY <2>2, <2>3, <2>7, <3>3, <3>4
  <2> QED  BY <2>6, <2>7
<1>12. P[n] \in Seq(Bytes)
  BY <1>7
<1>13. Placed(e, d, P[n])
  <2> HIDE DEF e
  <2> QED  BY <1>1, <1>10, <1>11, <1>12, Zenon DEF Placed
<1> QED
  BY <1>9, <1>13, Zenon

(* Each byte of what comes out belongs to one that went in.                *)
LEMMA PlaceFound ==
  ASSUME NEW d \in Seq(Bytes), NEW s, NEW e, Placed(e, d, s), NEW k \in 1 .. Len(s)
  PROVE  \E i \in 1 .. Len(d) : k = e[i - 1] + 1 \/ (k = e[i - 1] + 2 /\ Doubled(d, i))
<1>1. Len(d) \in Nat /\ Len(s) \in Nat
  BY DEF Placed
<1> DEFINE Reached == {i \in 0 .. Len(d) : k <= e[i]}
<1>2. Len(d) \in Reached
  BY <1>1 DEF Placed
<1>3. PICK i \in Reached : \A j \in Reached : i <= j
  <2>1. Reached \in SUBSET Nat /\ Reached # {}
    BY <1>2
  <2> QED  BY <2>1, HasLeast
<1>4. e[0] = 0 /\ \A j \in 0 .. Len(d) : e[j] \in Nat
  BY DEF Placed
<1>5. i \in 1 .. Len(d) /\ i - 1 \in 0 .. Len(d) /\ i - 1 \notin Reached
  BY <1>3, <1>4
<1>6. e[i - 1] < k /\ k <= e[i]
  BY <1>3, <1>4, <1>5
<1>7. e[i] = (IF Doubled(d, i) THEN e[i - 1] + 2 ELSE e[i - 1] + 1)
  BY <1>5 DEF Placed
<1>8. e[i - 1] \in Nat
  BY <1>4, <1>5
<1>9. k = e[i - 1] + 1 \/ (k = e[i - 1] + 2 /\ Doubled(d, i))
  BY <1>6, <1>7, <1>8
<1> QED
  BY <1>5, <1>9

(* There is no false start of a frame in it.                               *)
LEMMA SeparatedIsQuiet ==
  ASSUME NEW d \in Seq(Bytes), NEW k \in DOMAIN Separated(d)
  PROVE  ~ FalseSync(Separated(d), k)
<1>1. PICK e : Placed(e, d, Separated(d))
  BY SeparatedPlaces
<1>2. PICK s : s = Separated(d)
  OBVIOUS
<1> SUFFICES ASSUME FalseSync(s, k) PROVE FALSE
  BY <1>2
<1>3. /\ s \in Seq(Bytes) /\ k \in 1 .. Len(s) /\ k < Len(s) /\ Len(d) \in Nat
      /\ s[k] = "ff" /\ s[k + 1] \in {"ff", "ones"} /\ Placed(e, d, s)
  BY <1>1, <1>2 DEF Placed, FalseSync
<1>4. PICK i \in 1 .. Len(d) : k = e[i - 1] + 1 \/ (k = e[i - 1] + 2 /\ Doubled(d, i))
  <2>1. k \in 1 .. Len(s) /\ Placed(e, d, s)
    BY <1>3
  <2> QED  BY ONLY d \in Seq(Bytes), <2>1, PlaceFound
<1>5. /\ s[e[i - 1] + 1] = d[i]
      /\ Doubled(d, i) => s[e[i - 1] + 2] = "zero"
      /\ e[i] = (IF Doubled(d, i) THEN e[i - 1] + 2 ELSE e[i - 1] + 1)
      /\ e[i] \in Nat /\ e[i - 1] \in Nat /\ e[Len(d)] = Len(s)
  <2>1. i \in 0 .. Len(d) /\ i - 1 \in 0 .. Len(d)
    BY <1>3
  <2>2. \A j \in 0 .. Len(d) : e[j] \in Nat
    BY <1>3 DEF Placed
  <2> QED  BY <1>3, <2>1, <2>2, Zenon DEF Placed
<1>6. k = e[i - 1] + 1 /\ d[i] = "ff"
  BY <1>3, <1>4, <1>5
<1>7. ~ Doubled(d, i) /\ e[i] = k
  BY <1>3, <1>5, <1>6
<1>8. i < Len(d)
  BY <1>3, <1>5, <1>7
<1>9. s[e[i] + 1] = d[i + 1]
  <2>1. i + 1 \in 1 .. Len(d) /\ i + 1 - 1 = i
    BY <1>3, <1>8
  <2> QED  BY <1>3, <2>1 DEF Placed
<1>10. Doubled(d, i)
  BY <1>3, <1>6, <1>7, <1>8, <1>9, DoubledIs
<1> QED
  BY <1>7, <1>10

JoinedPieces(d) == [i \in DOMAIN d |-> IF ZeroPair(d, i - 1) THEN <<>> ELSE <<d[i]>>]

(* What is joined of each part.                                            *)
LEMMA JoinedParts ==
  ASSUME NEW d \in Seq(Bytes)
  PROVE  \E Q : /\ Q[0] = <<>> /\ Joined(d) = Q[Len(d)]
                /\ \A i \in 1 .. Len(d) :
                     Q[i] = Q[i - 1] \o (IF ZeroPair(d, i - 1) THEN <<>> ELSE <<d[i]>>)
<1>1. PICK n \in Nat : n = Len(d)
  OBVIOUS
<1>2. DOMAIN d = 1 .. n
  BY <1>1
<1> DEFINE g == JoinedPieces(d)
<1>3. ASSUME NEW i \in 1 .. n
      PROVE  g[i] = (IF ZeroPair(d, i - 1) THEN <<>> ELSE <<d[i]>>) /\ g[i] \in Seq(Bytes)
  <2>1. g[i] = IF ZeroPair(d, i - 1) THEN <<>> ELSE <<d[i]>>
    BY <1>2 DEF JoinedPieces
  <2>2. <<>> \in Seq(Bytes) /\ <<d[i]>> \in Seq(Bytes)
    BY <1>1
  <2> QED  BY <2>1, <2>2, Zenon
<1>4. g \in [1 .. n -> Seq(Bytes)]
  BY <1>2, <1>3 DEF JoinedPieces
<1>5. Joined(d) = FlattenSeq(g)
  BY DEF Joined, JoinedPieces
<1> HIDE DEF g
<1>6. PICK Q : Partial(Q, n, g)
  BY PartialExists, Zenon
<1>7. /\ Q[0] = <<>>
      /\ \A i \in 1 .. n : Q[i] = Q[i - 1] \o g[i]
      /\ \A i \in 0 .. n : Q[i] \in Seq(Bytes)
  BY <1>4, <1>6, PartialIs, Zenon
<1>8. Joined(d) = Q[n]
  BY <1>4, <1>5, <1>6, Flattened, Zenon
<1> QED
  BY <1>1, <1>3, <1>7, <1>8, Zenon

(* One more element of a sequence.                                         *)
LEMMA OneMore ==
  ASSUME NEW T, NEW d \in Seq(T), NEW i \in 1 .. Len(d)
  PROVE  /\ SubSeq(d, 1, i) = SubSeq(d, 1, i - 1) \o <<d[i]>>
         /\ SubSeq(d, 1, 0) = <<>> /\ SubSeq(d, 1, Len(d)) = d
         /\ SubSeq(d, 1, i) \in Seq(T)
<1>1. Len(d) \in Nat /\ i \in Nat /\ i - 1 \in Nat /\ d \in [1 .. Len(d) -> T]
  OBVIOUS
<1>2. SubSeq(d, 1, i) = SubSeq(d, 1, i - 1) \o <<d[i]>>
  <2>1. /\ SubSeq(d, 1, i) \in Seq(T) /\ Len(SubSeq(d, 1, i)) = i
        /\ \A k \in 1 .. i : SubSeq(d, 1, i)[k] = d[k]
    BY <1>1
  <2>2. /\ SubSeq(d, 1, i - 1) \in Seq(T) /\ Len(SubSeq(d, 1, i - 1)) = i - 1
        /\ \A k \in 1 .. i - 1 : SubSeq(d, 1, i - 1)[k] = d[k]
    BY <1>1
  <2>3. PICK s, t, r : s = SubSeq(d, 1, i) /\ t = SubSeq(d, 1, i - 1) /\ r = t \o <<d[i]>>
    OBVIOUS
  <2>4. /\ s \in Seq(T) /\ Len(s) = i /\ \A k \in 1 .. i : s[k] = d[k]
        /\ t \in Seq(T) /\ Len(t) = i - 1 /\ \A k \in 1 .. i - 1 : t[k] = d[k]
        /\ d[i] \in T
    BY <1>1, <2>1, <2>2, <2>3
  <2>5. r \in Seq(T) /\ Len(r) = i /\ \A k \in 1 .. i : r[k] = d[k]
    <3>1. Len(r) = Len(t) + 1 /\ r \in Seq(T)
          /\ (\A k \in 1 .. Len(t) : r[k] = t[k]) /\ r[Len(t) + 1] = d[i]
      <4>1. r = t \o <<d[i]>> /\ t \in Seq(T) /\ d[i] \in T
        BY <2>3, <2>4
      <4> QED  BY ONLY <4>1
    <3> QED  BY <2>4, <3>1, <1>1
  <2>6. s = r
    BY ONLY <2>4, <2>5
  <2> QED  BY <2>3, <2>6
<1>3. SubSeq(d, 1, 0) = <<>> /\ SubSeq(d, 1, Len(d)) = d
  BY <1>1
<1>4. SubSeq(d, 1, i) \in Seq(T)
  BY <1>1
<1> QED
  BY <1>2, <1>3, <1>4

LEMMA JoinedOfNothing ==
  ASSUME NEW d \in Seq(Bytes), \A k \in DOMAIN d : ~ ZeroPair(d, k)
  PROVE  Joined(d) = d
<1>1. PICK Q : /\ Q[0] = <<>> /\ Joined(d) = Q[Len(d)]
               /\ \A i \in 1 .. Len(d) :
                     Q[i] = Q[i - 1] \o (IF ZeroPair(d, i - 1) THEN <<>> ELSE <<d[i]>>)
  BY JoinedParts, Zenon
<1>2. PICK n \in Nat : n = Len(d)
  OBVIOUS
<1>3. \A k : ~ ZeroPair(d, k)
  BY DEF ZeroPair
<1>4. ASSUME NEW i \in 1 .. n
      PROVE  Q[i] = Q[i - 1] \o <<d[i]>>
  BY <1>1, <1>2, <1>3, Zenon
<1> DEFINE Good == {i \in Nat : Q[i] = SubSeq(d, 1, i)}
<1>5. 0 \in Good
  <2>1. SubSeq(d, 1, 0) = <<>>
    BY <1>2
  <2> QED  BY <1>1, <2>1
<1>6. ASSUME NEW i \in 1 .. n, i - 1 \in Good
      PROVE  i \in Good
  <2>1. SubSeq(d, 1, i) = SubSeq(d, 1, i - 1) \o <<d[i]>>
    BY <1>2, OneMore
  <2>2. Q[i - 1] = SubSeq(d, 1, i - 1)
    BY <1>6
  <2>3. Q[i] = SubSeq(d, 1, i)
    BY <1>4, <2>1, <2>2, Zenon
  <2> QED  BY <2>3
<1>7. n \in Good
  <2>1. Good \in SUBSET Nat
    OBVIOUS
  <2>2. \A i \in 0 .. n : i \in Good
    BY <1>5, <1>6, <2>1, Climb
  <2> QED  BY <2>2
<1> QED
  BY <1>1, <1>2, <1>7

(* Undoing it gives the content back.                                      *)
LEMMA JoinedOfSeparated ==
  ASSUME NEW d \in Seq(Bytes)
  PROVE  Joined(Separated(d)) = d
<1>1. PICK e : Placed(e, d, Separated(d))
  BY SeparatedPlaces
<1>2. PICK s : s = Separated(d)
  OBVIOUS
<1>3. PICK n \in Nat : n = Len(d)
  OBVIOUS
<1>4. /\ s \in Seq(Bytes) /\ Len(s) \in Nat /\ e[0] = 0 /\ e[n] = Len(s)
      /\ \A i \in 0 .. n : e[i] \in Nat
      /\ \A i \in 1 .. n : /\ e[i] = (IF Doubled(d, i) THEN e[i - 1] + 2 ELSE e[i - 1] + 1)
                           /\ s[e[i - 1] + 1] = d[i]
                           /\ Doubled(d, i) => s[e[i - 1] + 2] = "zero"
                           /\ e[i] <= Len(s)
  BY <1>1, <1>2, <1>3 DEF Placed
<1>5. PICK Q : /\ Q[0] = <<>> /\ Joined(s) = Q[Len(s)]
               /\ \A i \in 1 .. Len(s) :
                     Q[i] = Q[i - 1] \o (IF ZeroPair(s, i - 1) THEN <<>> ELSE <<s[i]>>)
  BY <1>4, JoinedParts, Zenon
<1> DEFINE Good == {i \in Nat : Q[e[i]] = SubSeq(d, 1, i)}
<1>6. 0 \in Good
  <2>1. SubSeq(d, 1, 0) = <<>>
    BY <1>3
  <2>2. Q[e[0]] = <<>>
    BY <1>4, <1>5
  <2> QED  BY <2>1, <2>2
<1>7. ASSUME NEW i \in 1 .. n, i - 1 \in Good
      PROVE  i \in Good
  <2>1. PICK a \in Nat : a = e[i - 1]
    <3>1. i - 1 \in 0 .. n
      OBVIOUS
    <3> QED  BY <1>4, <3>1
  <2>2. /\ e[i] = (IF Doubled(d, i) THEN a + 2 ELSE a + 1)
        /\ s[a + 1] = d[i] /\ (Doubled(d, i) => s[a + 2] = "zero") /\ e[i] <= Len(s)
    BY <1>4, <2>1
  <2>3. ~ ZeroPair(s, a)
    <3> SUFFICES ASSUME ZeroPair(s, a) PROVE FALSE
      OBVIOUS
    <3>1. a \in 1 .. Len(s) /\ s[a] = "ff" /\ d[i] = "zero"
      BY <1>4, <2>2 DEF ZeroPair
    <3>2. i # 1
      BY <1>4, <2>1, <3>1
    <3>3. PICK j \in 1 .. n : j = i - 1
      BY <3>2
    <3>4. /\ a = (IF Doubled(d, j) THEN e[j - 1] + 2 ELSE e[j - 1] + 1)
          /\ s[e[j - 1] + 1] = d[j]
          /\ Doubled(d, j) => s[e[j - 1] + 2] = "zero"
      BY <1>4, <2>1, <3>3
    <3>5. ~ Doubled(d, j) /\ d[j] = "ff"
      BY <3>1, <3>4
    <3>6. Doubled(d, j)
      <4>1. j < Len(d) /\ d[j + 1] = "zero"
        BY <1>3, <3>1, <3>3
      <4> QED  BY <1>3, <3>5, <4>1, DoubledIs
    <3> QED  BY <3>5, <3>6
  <2>4. SubSeq(d, 1, i) = SubSeq(d, 1, i - 1) \o <<d[i]>> /\ SubSeq(d, 1, i) \in Seq(Bytes)
    BY <1>3, OneMore, Zenon
  <2>5. Q[a + 1] = SubSeq(d, 1, i)
    <3>1. PICK k : k = a + 1
      OBVIOUS
    <3>2. k \in 1 .. Len(s) /\ k - 1 = a /\ s[k] = d[i]
      BY <1>4, <2>2, <3>1
    <3>3. Q[k] = Q[a] \o <<d[i]>>
      BY <1>5, <2>3, <3>2
    <3>4. Q[a] = SubSeq(d, 1, i - 1)
      BY <1>7, <2>1
    <3> QED  BY <2>4, <3>1, <3>3, <3>4
  <2>6. Q[e[i]] = SubSeq(d, 1, i)
    <3>1. CASE ~ Doubled(d, i)
      BY <2>2, <2>5, <3>1
    <3>2. CASE Doubled(d, i)
      <4>1. PICK k : k = a + 2
        OBVIOUS
      <4>2. k \in 1 .. Len(s) /\ k - 1 = a + 1 /\ e[i] = k
        BY <1>4, <2>2, <3>2, <4>1
      <4>3. d[i] = "ff"
        BY <1>3, <3>2, DoubledIs
      <4>4. ZeroPair(s, k - 1)
        <5>1. s[a + 1] = "ff" /\ s[a + 2] = "zero" /\ a + 1 \in DOMAIN s /\ a + 1 < Len(s)
          BY <1>4, <2>2, <3>2, <4>1, <4>2, <4>3
        <5> QED  BY <4>2, <5>1 DEF ZeroPair
      <4>5. Q[k] = Q[a + 1] \o <<>>
        BY <1>5, <4>2, <4>4
      <4>6. PICK q : q = SubSeq(d, 1, i)
        OBVIOUS
      <4>7. q \in Seq(Bytes) /\ q \o <<>> = q
        BY <2>4, <4>6
      <4> QED  BY <2>5, <4>2, <4>5, <4>6, <4>7, Zenon
    <3> QED  BY <3>1, <3>2
  <2> QED  BY <2>6
<1>8. n \in Good
  <2>1. Good \in SUBSET Nat
    OBVIOUS
  <2>2. \A i \in 0 .. n : i \in Good
    BY <1>6, <1>7, <2>1, Climb
  <2> QED  BY <2>2
<1>9. Q[e[n]] = SubSeq(d, 1, n) /\ SubSeq(d, 1, n) = d
  BY <1>3, <1>8
<1> QED
  BY <1>2, <1>4, <1>5, <1>9, Zenon

LEMMA JoinedIsSequence ==
  ASSUME NEW d \in Seq(Bytes)
  PROVE  Joined(d) \in Seq(Bytes)
<1>1. PICK n \in Nat : n = Len(d)
  OBVIOUS
<1> DEFINE g == JoinedPieces(d)
<1>2. DOMAIN d = 1 .. n
  BY <1>1
<1>3. ASSUME NEW i \in 1 .. n
      PROVE  g[i] \in Seq(Bytes)
  <2>1. g[i] = IF ZeroPair(d, i - 1) THEN <<>> ELSE <<d[i]>>
    BY <1>2 DEF JoinedPieces
  <2>2. <<>> \in Seq(Bytes) /\ <<d[i]>> \in Seq(Bytes)
    BY <1>1
  <2> QED  BY <2>1, <2>2, Zenon
<1>4. g \in [1 .. n -> Seq(Bytes)]
  BY <1>2, <1>3 DEF JoinedPieces
<1>5. Joined(d) = FlattenSeq(g)
  BY DEF Joined, JoinedPieces
<1> HIDE DEF g
<1> QED
  BY <1>4, <1>5, FlattenedIsSequence, Zenon

LEMMA SeparatedIsSequence ==
  ASSUME NEW d \in Seq(Bytes)
  PROVE  Separated(d) \in Seq(Bytes)
<1>1. PICK e : Placed(e, d, Separated(d))
  BY SeparatedPlaces
<1> QED
  BY <1>1 DEF Placed

-----------------------------------------------------------------------------
(* A frame, in a tag that is unsynchronised or not, after so many rounds.  *)

Frame == [marked : BOOLEAN, data : Seq(Bytes)]

LosingOne(o) == \E k \in DOMAIN o : ZeroPair(o, k)

(* A frame without a mark is as it was made, and unsynchronising does not  *)
(* change it; one that has a mark is changed by it, and after the first    *)
(* round it may have lost what looks like a change.                        *)
FrameIs(f, o, unsync, n) ==
  /\ ~ f.marked => f.data = o /\ (n > 0 => Separated(o) = o)
  /\ f.marked =>
       /\ Separated(o) # o /\ n > 0
       /\ n = 1 => f.data = (IF unsync THEN Separated(o) ELSE o)
       /\ n > 1 => f.data = o \/ LosingOne(o)

LEMMA FrameUnsynchronisedIs ==
  ASSUME NEW f \in Frame, NEW o \in Seq(Bytes), NEW n \in Nat, FrameIs(f, o, FALSE, n)
  PROVE  /\ FrameUnsynchronised(f) \in Frame
         /\ FrameIs(FrameUnsynchronised(f), o, TRUE, n + 1)
<1>1. CASE f.marked
  <2>1. FrameUnsynchronised(f) = f
    BY <1>1 DEF FrameUnsynchronised
  <2>2. Separated(o) # o /\ n > 0 /\ (f.data = o \/ LosingOne(o))
    BY <1>1 DEF FrameIs
  <2>3. n + 1 > 1 /\ n + 1 # 1 /\ n + 1 > 0
    BY <2>2
  <2> QED  BY <1>1, <2>1, <2>2, <2>3 DEF FrameIs
<1>2. CASE ~ f.marked
  <2>1. f.data = o /\ (n > 0 => Separated(o) = o)
    BY <1>2 DEF FrameIs
  <2>2. PICK g : g = FrameUnsynchronised(f)
    OBVIOUS
  <2>3. g = [marked |-> Separated(o) # o, data |-> Separated(o)]
    BY <1>2, <2>1, <2>2 DEF FrameUnsynchronised
  <2>4. Separated(o) \in Seq(Bytes)
    BY SeparatedIsSequence
  <2>5. g.data = Separated(o) /\ (g.marked <=> Separated(o) # o) /\ g \in Frame
    BY <2>3, <2>4 DEF Frame
  <2>6. FrameIs(g, o, TRUE, n + 1)
    <3>1. CASE Separated(o) = o
      BY <2>5, <3>1 DEF FrameIs
    <3>2. CASE Separated(o) # o
      <4>1. n = 0
        BY <2>1, <3>2
      <4> QED  BY <2>5, <3>2, <4>1 DEF FrameIs
    <3> QED  BY <3>1, <3>2
  <2> QED  BY <2>2, <2>5, <2>6
<1> QED
  BY <1>1, <1>2

LEMMA FrameUndoneIs ==
  ASSUME NEW f \in Frame, NEW o \in Seq(Bytes), NEW n \in Nat, FrameIs(f, o, TRUE, n)
  PROVE  FrameUndone(f) \in Frame /\ FrameIs(FrameUndone(f), o, FALSE, n)
<1>1. CASE f.marked
  <2>1. PICK g : g = FrameUndone(f)
    OBVIOUS
  <2>2. f \in Frame /\ g = [f EXCEPT !.data = Joined(f.data)]
    BY <1>1, <2>1 DEF FrameUndone
  <2>3. Joined(f.data) \in Seq(Bytes)
    BY JoinedIsSequence DEF Frame
  <2>4. g \in Frame /\ g.marked = f.marked /\ g.data = Joined(f.data)
    BY <2>2, <2>3 DEF Frame
  <2>5. /\ Separated(o) # o /\ n > 0
        /\ n = 1 => f.data = Separated(o)
        /\ n > 1 => f.data = o \/ LosingOne(o)
    BY <1>1 DEF FrameIs
  <2>6. n = 1 => g.data = o
    BY <2>4, <2>5, JoinedOfSeparated
  <2>7. n > 1 => g.data = o \/ LosingOne(o)
    <3>1. ~ LosingOne(o) => Joined(o) = o
      BY JoinedOfNothing DEF LosingOne
    <3> QED  BY <2>4, <2>5, <3>1
  <2> QED  BY <1>1, <2>1, <2>4, <2>5, <2>6, <2>7 DEF FrameIs
<1>2. CASE ~ f.marked
  BY <1>2 DEF FrameUndone, FrameIs
<1> QED
  BY <1>1, <1>2

(* What a reader finds in it.                                              *)
LEMMA FrameRead ==
  ASSUME NEW f \in Frame, NEW o \in Seq(Bytes), NEW n \in Nat, NEW unsync \in BOOLEAN,
         FrameIs(f, o, unsync, n)
  PROVE  \/ (IF unsync THEN FrameUndone(f).data ELSE f.data) = o
         \/ (n > 1 /\ Separated(o) # o /\ LosingOne(o))
<1>1. CASE unsync
  <2>1. unsync = TRUE
    BY <1>1
  <2>2. FrameIs(FrameUndone(f), o, FALSE, n)
    BY <2>1, FrameUndoneIs
  <2>3. FrameUndone(f).data = o \/ (n > 1 /\ Separated(o) # o /\ LosingOne(o))
    BY <2>2 DEF FrameIs
  <2> QED  BY <2>1, <2>3
<1>2. CASE ~ unsync
  <2>1. f.data = o \/ (n > 1 /\ Separated(o) # o /\ LosingOne(o))
    BY <1>2 DEF FrameIs
  <2> QED  BY <1>2, <2>1
<1> QED
  BY <1>1, <1>2

LEMMA FrameQuiet ==
  ASSUME NEW f \in Frame, NEW o \in Seq(Bytes), NEW n \in Nat, n > 0, FrameIs(f, o, TRUE, n)
  PROVE  \/ \A k \in DOMAIN f.data : ~ FalseSync(f.data, k)
         \/ (n > 1 /\ Separated(o) # o)
<1>1. f.data = Separated(o) \/ (n > 1 /\ Separated(o) # o)
  BY DEF FrameIs
<1>2. \A k \in DOMAIN Separated(o) : ~ FalseSync(Separated(o), k)
  BY SeparatedIsQuiet
<1> QED
  BY <1>1, <1>2, Zenon

-----------------------------------------------------------------------------
(* Tags are kept.                                                          *)

Tags == [unsync : BOOLEAN, footer : BOOLEAN, extended : BOOLEAN,
         frames : Seq(Frame), padding : Seq(Bytes)]

(* The frames, each for itself, and the padding: there is none of its own  *)
(* in a tag that was made without, and what is put there is a zero.        *)
TagInv ==
  whole =>
    /\ tag \in Tags /\ original \in Seq(Seq(Bytes)) /\ rounds \in Nat
    /\ Len(tag.frames) = Len(original)
    /\ rounds = 0 => ~ tag.unsync
    /\ \A i \in 1 .. Len(original) : FrameIs(tag.frames[i], original[i], tag.unsync, rounds)
    /\ ~ tag.unsync /\ ~ padded => tag.padding = <<>>
    /\ tag.unsync => tag.footer \/ padded \/ Last(tag.padding) # "ff"

LEMMA TagInvKeepsTags == TagInv => TagKept
<1> SUFFICES ASSUME TagInv, whole
             PROVE  /\ \A i \in DOMAIN original :
                         Content(tag.frames[i]) = original[i] \/ (PassedOver(i) /\ Losing(i))
                    /\ tag.unsync =>
                         /\ \A i \in DOMAIN original :
                              \/ \A k \in DOMAIN tag.frames[i].data :
                                   ~ FalseSync(tag.frames[i].data, k)
                              \/ PassedOver(i)
                         /\ tag.footer \/ padded \/ Last(tag.padding) # "ff"
  BY DEF TagKept
<1>1. /\ tag \in Tags /\ original \in Seq(Seq(Bytes)) /\ rounds \in Nat
      /\ Len(tag.frames) = Len(original)
      /\ rounds = 0 => ~ tag.unsync
      /\ \A i \in 1 .. Len(original) : FrameIs(tag.frames[i], original[i], tag.unsync, rounds)
      /\ tag.unsync => tag.footer \/ padded \/ Last(tag.padding) # "ff"
  BY DEF TagInv
<1>2. ASSUME NEW i \in DOMAIN original
      PROVE  /\ Content(tag.frames[i]) = original[i] \/ (PassedOver(i) /\ Losing(i))
             /\ tag.unsync => \/ \A k \in DOMAIN tag.frames[i].data :
                                    ~ FalseSync(tag.frames[i].data, k)
                              \/ PassedOver(i)
  <2>1. PICK f, o, u : f = tag.frames[i] /\ o = original[i] /\ u = tag.unsync
    OBVIOUS
  <2>2. i \in 1 .. Len(original) /\ f \in Frame /\ o \in Seq(Bytes) /\ u \in BOOLEAN
    BY <1>1, <2>1 DEF Tags
  <2>3. FrameIs(f, o, u, rounds)
    BY <1>1, <2>1, <2>2
  <2>4. \/ (IF u THEN FrameUndone(f).data ELSE f.data) = o
        \/ (rounds > 1 /\ Separated(o) # o /\ LosingOne(o))
    BY <1>1, <2>2, <2>3, FrameRead, Zenon
  <2>5. ASSUME u
        PROVE  \/ \A k \in DOMAIN f.data : ~ FalseSync(f.data, k)
               \/ (rounds > 1 /\ Separated(o) # o)
    <3>1. u = TRUE /\ rounds > 0
      BY <1>1, <2>1, <2>2, <2>5
    <3> QED  BY <1>1, <2>2, <2>3, <3>1, FrameQuiet, Zenon
  <2>6. Content(f) = o \/ (PassedOver(i) /\ Losing(i))
    BY <2>1, <2>4, Zenon DEF Content, PassedOver, Losing, LosingOne
  <2>7. u => (\A k \in DOMAIN f.data : ~ FalseSync(f.data, k)) \/ PassedOver(i)
    BY <2>1, <2>5, Zenon DEF PassedOver
  <2> QED  BY <2>1, <2>6, <2>7, Zenon
<1> QED
  BY <1>1, <1>2

LEMMA InitTagInv == ASSUME ConversionInit PROVE TagInv
<1>1. CASE TagIdle
  BY <1>1 DEF TagIdle, TagInv
<1>2. CASE TagInit
  <2>1. PICK fs \in UNION {[1 .. n -> Frames] : n \in 1 .. MaxFrames}, f \in BOOLEAN,
             e \in BOOLEAN, padding \in {<<>>, <<"zero">>, <<"zero", "zero">>} :
          /\ f => padding = <<>>
          /\ tag = [unsync |-> FALSE, footer |-> f, extended |-> e, frames |-> fs,
                    padding |-> padding]
    BY <1>2 DEF TagInit
  <2>2. /\ original = [i \in DOMAIN tag.frames |-> tag.frames[i].data]
        /\ padded = (tag.padding # <<>>) /\ rounds = 0
    BY <1>2 DEF TagInit
  <2>3. PICK n \in 1 .. MaxFrames : fs \in [1 .. n -> Frames]
    BY <2>1
  <2>4. n \in Nat
    BY <2>3, TagAssumption
  <2>5. Frames \subseteq Frame
    <3>1. SUFFICES ASSUME NEW p \in Payloads
                   PROVE  [marked |-> FALSE, data |-> p] \in Frame
      BY DEF Frames
    <3>2. p \in Seq(Bytes)
      BY TagAssumption
    <3> QED  BY <3>2 DEF Frame
  <2>6. \A i \in 1 .. n : fs[i] \in Frame /\ fs[i].marked = FALSE
    <3>1. \A g \in Frames : g.marked = FALSE
      BY DEF Frames
    <3> QED  BY <2>3, <2>5, <3>1
  <2>7. fs \in Seq(Frame) /\ Len(fs) = n /\ DOMAIN fs = 1 .. n
    BY <2>3, <2>4, <2>6
  <2>8. padding \in Seq(Bytes)
    <3>1. "zero" \in Bytes
      BY DEF Bytes
    <3>2. <<>> \in Seq(Bytes) /\ <<"zero">> \in Seq(Bytes) /\ <<"zero", "zero">> \in Seq(Bytes)
      BY <3>1
    <3>3. padding = <<>> \/ padding = <<"zero">> \/ padding = <<"zero", "zero">>
      BY Zenon
    <3> QED  BY <3>2, <3>3, Zenon
  <2>9. /\ tag.frames = fs /\ tag.unsync = FALSE /\ tag.padding = padding
        /\ tag \in Tags
    BY <2>1, <2>7, <2>8 DEF Tags
  <2>10. original = [i \in 1 .. n |-> fs[i].data]
    BY <2>2, <2>7, <2>9
  <2>11. original \in Seq(Seq(Bytes)) /\ Len(original) = n
    BY <2>4, <2>6, <2>10 DEF Frame
  <2>12. ASSUME NEW i \in 1 .. n
         PROVE  FrameIs(fs[i], original[i], FALSE, 0)
    BY <2>6, <2>10 DEF FrameIs
  <2>13. rounds \in Nat /\ (~ padded => tag.padding = <<>>)
    BY <2>2
  <2> QED
    BY <2>2, <2>7, <2>9, <2>11, <2>12, <2>13, Zenon DEF TagInv
<1> QED
  BY <1>1, <1>2 DEF ConversionInit

LEMMA StepTagInv == ASSUME TagInv, [ConversionNext]_conversionVars PROVE TagInv'
<1> SUFFICES ASSUME whole' PROVE TagInv'
  BY DEF TagInv
<1>1. CASE UNCHANGED tagVars
  BY <1>1 DEF TagInv, tagVars
<1>2. CASE WriteOver
  BY <1>2 DEF WriteOver
<1>3. CASE whole
  <2>1. /\ tag \in Tags /\ original \in Seq(Seq(Bytes)) /\ rounds \in Nat
        /\ Len(tag.frames) = Len(original)
        /\ rounds = 0 => ~ tag.unsync
        /\ \A i \in 1 .. Len(original) : FrameIs(tag.frames[i], original[i], tag.unsync, rounds)
        /\ ~ tag.unsync /\ ~ padded => tag.padding = <<>>
    BY <1>3 DEF TagInv
  <2>2. PICK n \in Nat : n = Len(original)
    BY <2>1
  <2>3. /\ DOMAIN tag.frames = 1 .. n
        /\ \A i \in 1 .. n : tag.frames[i] \in Frame /\ original[i] \in Seq(Bytes)
    BY <2>1, <2>2 DEF Tags
  <2>4. CASE Unsynchronise
    <3>1. /\ ~ tag.unsync /\ rounds' = rounds + 1
          /\ UNCHANGED <<whole, original, padded>>
      BY <2>4 DEF Unsynchronise
    <3>2. PICK padding \in PaddingOf(tag) :
            tag' = [tag EXCEPT !.unsync = TRUE, !.padding = padding,
                               !.frames = [i \in DOMAIN @ |-> FrameUnsynchronised(@[i])]]
      BY <2>4 DEF Unsynchronise
    <3>3. PICK fs : fs = [i \in 1 .. n |-> FrameUnsynchronised(tag.frames[i])]
      OBVIOUS
    <3>4. tag' = [tag EXCEPT !.unsync = TRUE, !.padding = padding, !.frames = fs]
      BY <2>1, <2>3, <3>2, <3>3 DEF Tags
    <3>5. tag.unsync = FALSE
      BY <2>1, <3>1 DEF Tags
    <3>6. ASSUME NEW i \in 1 .. n
          PROVE  /\ FrameUnsynchronised(tag.frames[i]) \in Frame
                 /\ FrameIs(FrameUnsynchronised(tag.frames[i]), original[i], TRUE, rounds + 1)
      <4>1. FrameIs(tag.frames[i], original[i], FALSE, rounds)
        BY <2>1, <2>2, <3>5
      <4> QED  BY <2>1, <2>3, <4>1, FrameUnsynchronisedIs, Zenon
    <3>7. fs \in Seq(Frame) /\ Len(fs) = n
      <4>1. \A i \in 1 .. n : fs[i] \in Frame
        BY <3>3, <3>6
      <4>2. fs \in [1 .. n -> Frame]
        BY <3>3, <4>1
      <4>3. fs \in Seq(Frame)
        BY ONLY <2>2, <4>2
      <4>4. Len(fs) = n
        BY ONLY <2>2, <4>2
      <4> QED  BY <4>3, <4>4
    <3>8. padding \in Seq(Bytes)
      <4>1. <<>> \in Seq(Bytes) /\ <<"zero">> \in Seq(Bytes)
        BY DEF Bytes
      <4>2. Len(tag.padding) \in Nat
        BY <2>1 DEF Tags
      <4>3. [1 .. Len(tag.padding) -> Bytes] \subseteq Seq(Bytes)
        BY <4>2
      <4>4. \/ padding = <<>> \/ padding = <<"zero">>
            \/ padding \in [1 .. Len(tag.padding) -> Bytes]
        BY <3>2 DEF PaddingOf
      <4> QED  BY <4>1, <4>3, <4>4
    <3>9. tag.footer \/ padded \/ Last(padding) # "ff"
      <4> SUFFICES ASSUME ~ tag.footer, ~ padded PROVE Last(padding) # "ff"
        OBVIOUS
      <4>1. padding = <<"zero">>
        BY <2>1, <3>1, <3>2 DEF PaddingOf
      <4> QED  BY <4>1 DEF Last
    <3>10. TRUE \in BOOLEAN
      OBVIOUS
    <3>11. /\ tag' \in Tags /\ tag'.unsync = TRUE /\ tag'.padding = padding /\ tag'.frames = fs
           /\ tag'.footer = tag.footer
      BY ONLY <2>1, <3>4, <3>7, <3>8 DEF Tags
    <3>12. \A i \in 1 .. n : FrameIs(tag'.frames[i], original'[i], tag'.unsync, rounds')
      BY <3>1, <3>3, <3>6, <3>11
    <3>13. rounds' \in Nat /\ rounds' # 0 /\ original' \in Seq(Seq(Bytes))
           /\ Len(tag'.frames) = Len(original') /\ Len(original') = n
      BY <2>1, <2>2, <3>1, <3>7, <3>11
    <3> QED  BY <3>1, <3>9, <3>11, <3>12, <3>13 DEF TagInv
  <2>5. CASE Undo
    <3>1. tag.unsync /\ UNCHANGED <<whole, original, padded, rounds>>
      BY <2>5 DEF Undo
    <3>2. tag' = [tag EXCEPT !.unsync = FALSE, !.padding = <<>>,
                             !.frames = [i \in DOMAIN @ |-> FrameUndone(@[i])]]
      BY <2>5 DEF Undo
    <3>3. PICK fs : fs = [i \in 1 .. n |-> FrameUndone(tag.frames[i])]
      OBVIOUS
    <3>4. tag' = [tag EXCEPT !.unsync = FALSE, !.padding = <<>>, !.frames = fs]
      BY <2>1, <2>3, <3>2, <3>3 DEF Tags
    <3>5. tag.unsync = TRUE
      BY <2>1, <3>1 DEF Tags
    <3>6. ASSUME NEW i \in 1 .. n
          PROVE  /\ FrameUndone(tag.frames[i]) \in Frame
                 /\ FrameIs(FrameUndone(tag.frames[i]), original[i], FALSE, rounds)
      <4>1. FrameIs(tag.frames[i], original[i], TRUE, rounds)
        BY <2>1, <2>2, <3>5
      <4> QED  BY <2>1, <2>3, <4>1, FrameUndoneIs, Zenon
    <3>7. fs \in Seq(Frame) /\ Len(fs) = n
      <4>1. \A i \in 1 .. n : fs[i] \in Frame
        BY <3>3, <3>6
      <4>2. fs \in [1 .. n -> Frame]
        BY <3>3, <4>1
      <4>3. fs \in Seq(Frame)
        BY ONLY <2>2, <4>2
      <4>4. Len(fs) = n
        BY ONLY <2>2, <4>2
      <4> QED  BY <4>3, <4>4
    <3>8. <<>> \in Seq(Bytes) /\ FALSE \in BOOLEAN
      OBVIOUS
    <3>9. /\ tag' \in Tags /\ tag'.unsync = FALSE /\ tag'.padding = <<>> /\ tag'.frames = fs
      BY ONLY <2>1, <3>4, <3>7, <3>8 DEF Tags
    <3>10. \A i \in 1 .. n : FrameIs(tag'.frames[i], original'[i], tag'.unsync, rounds')
      BY <3>1, <3>3, <3>6, <3>9
    <3>11. rounds' \in Nat /\ original' \in Seq(Seq(Bytes))
           /\ Len(tag'.frames) = Len(original') /\ Len(original') = n
      BY <2>1, <2>2, <3>1, <3>7, <3>9
    <3> QED  BY <3>9, <3>10, <3>11 DEF TagInv
  <2>6. Unsynchronise \/ Undo \/ WriteOver \/ UNCHANGED tagVars
    BY DEF ConversionNext, TagNext, conversionVars
  <2> QED  BY <1>1, <1>2, <2>4, <2>5, <2>6
<1>4. CASE ~ whole
  <2>1. Unsynchronise \/ Undo \/ WriteOver \/ UNCHANGED tagVars
    BY DEF ConversionNext, TagNext, conversionVars
  <2> QED
    BY <1>4, <2>1 DEF Unsynchronise, Undo, WriteOver, tagVars
<1> QED
  BY <1>3, <1>4

(* A tag that was unsynchronised holds no false start of a frame, and its  *)
(* readers find what it was made with, whichever programs it passed        *)
(* through, but for extended headers, padding and the marks of an earlier  *)
(* round: however many frames there are, of whatever bytes, and however    *)
(* often it is unsynchronised and that undone.                             *)
THEOREM TagsAreKept == ConversionSpec => []TagKept
<1>1. ConversionInit => TagInv
  BY InitTagInv
<1>2. TagInv /\ [ConversionNext]_conversionVars => TagInv'
  BY StepTagInv
<1>3. TagInv => TagKept
  BY TagInvKeepsTags
<1> QED
  BY <1>1, <1>2, <1>3, PTL DEF ConversionSpec

-----------------------------------------------------------------------------
(* Texts.  What dvb_string_set puts in front of one is what                *)
(* dvb_string_get_encoding takes off it.                                   *)

LEMMA AfterCode ==
  ASSUME NEW p \in Seq(Octets), NEW s \in Seq(Octets)
  PROVE  /\ p \o s \in Seq(Octets) /\ Len(p \o s) = Len(p) + Len(s)
         /\ \A i \in 1 .. Len(p) : (p \o s)[i] = p[i]
         /\ SubSeq(p \o s, Len(p) + 1, Len(p \o s)) = s
<1>1. PICK m \in Nat, n \in Nat : m = Len(p) /\ n = Len(s)
  OBVIOUS
<1>2. PICK f : f = p \o s
  OBVIOUS
<1>3. f \in Seq(Octets) /\ Len(f) = m + n
  BY <1>1, <1>2
<1>4. \A i \in 1 .. m : f[i] = p[i]
  BY <1>1, <1>2
<1>5. \A i \in 1 .. n : f[m + i] = s[i]
  BY <1>1, <1>2
<1>6. PICK r : r = SubSeq(f, m + 1, m + n)
  OBVIOUS
<1>7. r \in Seq(Octets) /\ Len(r) = n
  BY ONLY <1>1, <1>3, <1>6, m \in Nat, n \in Nat
<1>8. \A i \in 1 .. n : r[i] = f[m + i]
  BY ONLY <1>1, <1>3, <1>6, m \in Nat, n \in Nat
<1>9. r = s
  BY <1>1, <1>5, <1>7, <1>8
<1> QED
  BY <1>1, <1>2, <1>3, <1>4, <1>6, <1>9

LEMMA FirstIs ==
  ASSUME NEW codes \in SUBSET Nat, codes # {}
  PROVE  First(codes) \in codes
BY HasLeast DEF First

LEMMA OneByteCode ==
  ASSUME NEW set, set # Unnamed, Codes(ppsz_dvb_encodings, set) # {}
  PROVE  LET c == First(Codes(ppsz_dvb_encodings, set))
         IN  c \in 1 .. 30 /\ c # 16 /\ ppsz_dvb_encodings[c] = set
<1>1. PICK c : c = First(Codes(ppsz_dvb_encodings, set))
  OBVIOUS
<1>2. DOMAIN ppsz_dvb_encodings = 0 .. 31
  BY DEF ppsz_dvb_encodings
<1>3. c \in 0 .. 31 /\ ppsz_dvb_encodings[c] = set
  BY <1>1, <1>2, FirstIs DEF Codes
<1>4. ppsz_dvb_encodings[0] = Unnamed /\ ppsz_dvb_encodings[16] = Unnamed
      /\ ppsz_dvb_encodings[31] = Unnamed
  BY SMT DEF ppsz_dvb_encodings
<1> QED
  BY <1>1, <1>3, <1>4, SMT

LEMMA ThreeByteCode ==
  ASSUME NEW set, set # Unnamed, Codes(ppsz_dvb_encodings10, set) # {}
  PROVE  LET c == First(Codes(ppsz_dvb_encodings10, set))
         IN  c \in 1 .. 15 /\ ppsz_dvb_encodings10[c] = set
<1>1. PICK c : c = First(Codes(ppsz_dvb_encodings10, set))
  OBVIOUS
<1>2. DOMAIN ppsz_dvb_encodings10 = 0 .. 15
  BY DEF ppsz_dvb_encodings10
<1>3. c \in 0 .. 15 /\ ppsz_dvb_encodings10[c] = set
  BY <1>1, <1>2, FirstIs DEF Codes
<1>4. ppsz_dvb_encodings10[0] = Unnamed
  BY SMT DEF ppsz_dvb_encodings10
<1> QED
  BY <1>1, <1>3, <1>4, SMT

(* A text, its character set, and what was made of them.                   *)
ReadsAs(f, dflt, s, set) ==
  /\ f \in Seq(Octets)
  /\ dvb_string_get_encoding(f, dflt).rest = s
  /\ s # <<>> => dvb_string_get_encoding(f, dflt).set = set

LEMMA ReadsBack ==
  ASSUME NEW s \in Seq(Octets), NEW set, NEW dflt, set # Unnamed,
         \/ set = dflt
         \/ \E t \in {ppsz_dvb_encodings, ppsz_dvb_encodings10} : Codes(t, set) # {},
         ~ (set = dflt /\ s # <<>> /\ s[1] < 32)
  PROVE  ReadsAs(dvb_string_set(s, set, dflt), dflt, s, set)
<1>1. PICK f : f = dvb_string_set(s, set, dflt)
  OBVIOUS
<1>2. CASE set = dflt
  <2>1. f = s
    BY <1>1, <1>2 DEF dvb_string_set
  <2>2. CASE s = <<>>
    <3>1. dvb_string_get_encoding(f, dflt).rest = SubSeq(f, 1, Len(f))
      BY <2>1, <2>2 DEF dvb_string_get_encoding
    <3>2. SubSeq(f, 1, Len(f)) = s
      BY <2>1, <2>2
    <3> QED  BY <1>1, <2>1, <2>2, <3>1, <3>2 DEF ReadsAs
  <2>3. CASE s # <<>>
    <3>1. f # <<>> /\ f[1] \in Octets /\ f[1] >= 32
      <4>1. f # <<>> /\ f[1] \in Octets
        BY <2>1, <2>3
      <4>2. ~ (f[1] < 32)
        BY <1>2, <2>1, <2>3, Zenon
      <4>3. \A b \in Octets : ~ (b < 32) => b >= 32
        BY DEF Octets
      <4> QED  BY <4>1, <4>2, <4>3
    <3>2. f[1] # 0 /\ f[1] # 16 /\ f[1] # 31
      BY <3>1 DEF Octets
    <3>3. dvb_string_get_encoding(f, dflt) = [set |-> dflt, rest |-> SubSeq(f, 1, Len(f))]
      BY <3>1, <3>2, SMT DEF dvb_string_get_encoding
    <3>4. SubSeq(f, 1, Len(f)) = s
      BY <2>1
    <3>5. /\ dvb_string_get_encoding(f, dflt).rest = s
          /\ dvb_string_get_encoding(f, dflt).set = set
      BY ONLY <1>2, <3>3, <3>4
    <3> QED  BY <1>1, <2>1, <3>5 DEF ReadsAs
  <2> QED  BY <2>2, <2>3
<1>3. CASE set # dflt /\ Codes(ppsz_dvb_encodings, set) # {}
  <2>1. PICK c : c = First(Codes(ppsz_dvb_encodings, set))
    OBVIOUS
  <2>2. c \in 1 .. 30 /\ c # 16 /\ ppsz_dvb_encodings[c] = set
    BY <1>3, <2>1, OneByteCode
  <2>3. f = <<c>> \o s
    BY <1>1, <1>3, <2>1 DEF dvb_string_set
  <2>4. <<c>> \in Seq(Octets) /\ Len(<<c>>) = 1
    BY <2>2 DEF Octets
  <2>5. /\ f \in Seq(Octets) /\ f # <<>> /\ SubSeq(f, 1 + 1, Len(f)) = s
        /\ f[1] = c
    <3>1. /\ f \in Seq(Octets) /\ Len(f) = 1 + Len(s) /\ SubSeq(f, 1 + 1, Len(f)) = s
          /\ f[1] = <<c>>[1]
      BY <2>3, <2>4, AfterCode
    <3> QED  BY <3>1
  <2>6. \/ f[1] \in 1 .. 15
        \/ f[1] \in 17 .. 30
    BY <2>2, <2>5
  <2>7. dvb_string_get_encoding(f, dflt)
          = [set |-> ppsz_dvb_encodings[f[1]], rest |-> SubSeq(f, 1 + 1, Len(f))]
    <3>1. f # <<>> /\ f[1] # 0 /\ ~ (f[1] >= 32) /\ f[1] # 16 /\ f[1] # 31
      <4>1. /\ \A b \in 1 .. 15 : b # 0 /\ ~ (b >= 32) /\ b # 16 /\ b # 31
            /\ \A b \in 17 .. 30 : b # 0 /\ ~ (b >= 32) /\ b # 16 /\ b # 31
        BY SMT
      <4> QED  BY <2>5, <2>6, <4>1, Zenon
    <3> QED  BY <3>1, Zenon DEF dvb_string_get_encoding
  <2> QED  BY <1>1, <2>2, <2>5, <2>7 DEF ReadsAs
<1>4. CASE set # dflt /\ Codes(ppsz_dvb_encodings, set) = {}
  <2>1. PICK c : c = First(Codes(ppsz_dvb_encodings10, set))
    OBVIOUS
  <2>2. Codes(ppsz_dvb_encodings10, set) # {}
    BY <1>4
  <2>3. c \in 1 .. 15 /\ ppsz_dvb_encodings10[c] = set
    BY <2>1, <2>2, ThreeByteCode
  <2>4. f = <<16, 0, c>> \o s
    BY <1>1, <1>4, <2>1, <2>2 DEF dvb_string_set
  <2>5. PICK p : p = <<16, 0, c>>
    OBVIOUS
  <2>6. p \in Seq(Octets) /\ Len(p) = 3 /\ p[1] = 16 /\ p[2] = 0 /\ p[3] = c
    BY <2>3, <2>5 DEF Octets
  <2>7. /\ f \in Seq(Octets) /\ Len(f) = 3 + Len(s) /\ SubSeq(f, 3 + 1, Len(f)) = s
        /\ f[1] = 16 /\ f[2] = 0 /\ f[3] = c
    <3>1. /\ f \in Seq(Octets) /\ Len(f) = Len(p) + Len(s)
          /\ SubSeq(f, Len(p) + 1, Len(f)) = s
          /\ \A i \in 1 .. Len(p) : f[i] = p[i]
      BY <2>4, <2>5, <2>6, AfterCode
    <3> QED  BY <2>6, <3>1
  <2>8. f # <<>> /\ Len(f) > 2
    BY <2>7
  <2>9. dvb_string_get_encoding(f, dflt)
          = [set |-> ppsz_dvb_encodings10[f[3]], rest |-> SubSeq(f, 3 + 1, Len(f))]
    <3>1. f # <<>> /\ f[1] # 0 /\ ~ (f[1] >= 32) /\ f[1] = 16 /\ Len(f) > 2 /\ f[1] # 31
          /\ f[2] = 0 /\ f[3] \in 1 .. 15
      BY <2>3, <2>7, <2>8
    <3> QED  BY <3>1, Zenon DEF dvb_string_get_encoding
  <2> QED  BY <1>1, <2>3, <2>7, <2>9 DEF ReadsAs
<1> QED
  BY <1>2, <1>3, <1>4

-----------------------------------------------------------------------------
(* Texts in XML.                                                           *)

(* What each piece of an escaped text is.                                  *)
EscapedWell(x) ==
  /\ Unescaped(x) \in Seq(Octets)
  /\ \/ Overlong(x)
     \/ /\ WellFormed(Unescaped(x))
        /\ x # Replacement => Allowed(codepoint(Unescaped(x), 1))
        /\ Unescaped(x) = x => x[1] \notin Markup

(* A first byte says how long its character is. *)
Announced(b) ==
  CASE b \in 192 .. 223 -> 2 [] b \in 224 .. 239 -> 3 [] b \in 240 .. 247 -> 4 [] OTHER -> 1

LEMMA ExtentIs ==
  ASSUME NEW s, NEW i
  PROVE  Extent(s, i) = IF \A k \in 1 .. Announced(s[i]) - 1 : Follows(s, i + k)
                        THEN Announced(s[i]) ELSE 1
BY DEF Extent, Announced

LEMMA AnnouncedIs ==
  ASSUME NEW b \in Octets
  PROVE  Announced(b) \in 1 .. 4 /\ (b < 192 => Announced(b) = 1)
BY SMT DEF Announced, Octets

LEMMA ExtentBounds ==
  ASSUME NEW s \in Seq(Octets), NEW i \in 1 .. Len(s)
  PROVE  /\ Extent(s, i) \in 1 .. 4 /\ i + Extent(s, i) - 1 \in i .. Len(s)
         /\ \A k \in 1 .. Extent(s, i) - 1 : Follows(s, i + k)
         /\ Extent(s, i) # 1 => Extent(s, i) = Announced(s[i])
<1>1. PICK a \in 1 .. 4 : a = Announced(s[i])
  BY AnnouncedIs
<1>2. PICK n : n = Extent(s, i)
  OBVIOUS
<1>3. n = IF \A k \in 1 .. a - 1 : Follows(s, i + k) THEN a ELSE 1
  BY <1>1, <1>2, ExtentIs
<1>4. n \in 1 .. 4 /\ (n # 1 => n = a) /\ \A k \in 1 .. n - 1 : Follows(s, i + k)
  BY <1>3
<1>5. i + n - 1 \in i .. Len(s)
  <2>1. CASE n = 1
    BY <2>1
  <2>2. CASE n # 1
    <3>1. n - 1 \in 1 .. n - 1
      BY <1>4, <2>2
    <3>2. i + (n - 1) \in DOMAIN s
      BY <1>4, <3>1 DEF Follows
    <3> QED  BY <1>4, <3>2
  <2> QED  BY <2>1, <2>2
<1> QED
  BY <1>1, <1>2, <1>4, <1>5

LEMMA CodepointOfOne ==
  ASSUME NEW s, NEW i, Extent(s, i) = 1
  PROVE  codepoint(s, i) = IF s[i] < 128 THEN s[i] ELSE 65533
BY SMT DEF codepoint

OfOne(a) == IF a < 128 THEN a ELSE 65533
OfTwo(a, b) == (a % 32) * 64 + (b % 64)
OfThree(a, b, c) == (a % 16) * 4096 + (b % 64) * 64 + (c % 64)
OfFour(a, b, c, d) == (a % 8) * 262144 + (b % 64) * 4096 + (c % 64) * 64 + (d % 64)

LEMMA CodepointIs ==
  ASSUME NEW s, NEW i
  PROVE  /\ Extent(s, i) = 1 => codepoint(s, i) = OfOne(s[i])
         /\ Extent(s, i) = 2 => codepoint(s, i) = OfTwo(s[i], s[i + 1])
         /\ Extent(s, i) = 3 => codepoint(s, i) = OfThree(s[i], s[i + 1], s[i + 2])
         /\ Extent(s, i) = 4 => codepoint(s, i) = OfFour(s[i], s[i + 1], s[i + 2], s[i + 3])
<1>0. Extent(s, i) = 1 => codepoint(s, i) = OfOne(s[i])
  BY CodepointOfOne DEF OfOne
<1>1. Extent(s, i) = 2 => codepoint(s, i) = OfTwo(s[i], s[i + 1])
  BY SMT DEF codepoint, OfTwo
<1>2. Extent(s, i) = 3 => codepoint(s, i) = OfThree(s[i], s[i + 1], s[i + 2])
  BY SMT DEF codepoint, OfThree
<1>3. Extent(s, i) = 4 => codepoint(s, i) = OfFour(s[i], s[i + 1], s[i + 2], s[i + 3])
  BY SMT DEF codepoint, OfFour
<1> QED
  BY <1>0, <1>1, <1>2, <1>3

LEMMA ReplacementIsWell == EscapedWell(Replacement) /\ Len(Replacement) = 3
<1>1. PICK x : x = Replacement
  OBVIOUS
<1>2. /\ x \in Seq(Octets) /\ Len(x) = 3 /\ DOMAIN x = 1 .. 3
      /\ x[1] = 239 /\ x[2] = 191 /\ x[3] = 189
  BY <1>1, SMT DEF Replacement, Octets
<1>3. Unescaped(x) = x
  <2>1. \A c \in Markup : Len(Entity(c)) = 1
    BY SMT DEF Entity
  <2>2. x \notin {Entity(c) : c \in Markup}
    <3> SUFFICES ASSUME NEW c \in Markup, x = Entity(c) PROVE FALSE
      OBVIOUS
    <3>1. Len(x) = 1
      BY <2>1, Zenon
    <3>2. 3 # 1
      OBVIOUS
    <3> QED  BY <1>2, <3>1, <3>2, Zenon
  <2> QED  BY <2>2, Zenon DEF Unescaped
<1>4. Extent(x, 1) = 3
  <2>1. Announced(x[1]) = 3
    BY <1>2, SMT DEF Announced
  <2>2. Follows(x, 1 + 1) /\ Follows(x, 1 + 2)
    <3>1. 1 + 1 = 2 /\ 1 + 2 = 3
      OBVIOUS
    <3>2. Follows(x, 2) /\ Follows(x, 3)
      <4>1. 2 \in DOMAIN x /\ 3 \in DOMAIN x
        BY <1>2
      <4>2. x[2] \in 128 .. 191 /\ x[3] \in 128 .. 191
        BY <1>2, SMT
      <4> QED  BY <4>1, <4>2 DEF Follows
    <3> QED  BY <3>1, <3>2
  <2>3. \A k \in 1 .. 3 - 1 : k = 1 \/ k = 2
    BY SMT
  <2>4. \A k \in 1 .. 3 - 1 : Follows(x, 1 + k)
    BY <2>2, <2>3, Zenon
  <2> QED  BY <2>1, <2>4, ExtentIs, Zenon
<1>5. codepoint(x, 1) = 65533
  BY <1>2, <1>4, SMT DEF codepoint
<1>6. WellFormed(x)
  BY <1>2, <1>4, <1>5, SMT DEF WellFormed
<1>7. x[1] \notin Markup
  BY <1>2, SMT DEF Markup
<1> QED
  BY <1>1, <1>2, <1>3, <1>6, <1>7, SMT DEF EscapedWell

LEMMA EntityIsWell ==
  ASSUME NEW c \in Markup
  PROVE  EscapedWell(Entity(c)) /\ Unescaped(Entity(c)) = <<c>>
<1>1. PICK x : x = Entity(c)
  OBVIOUS
<1>2. c \in 34 .. 62
  BY SMT DEF Markup
<1>3. PICK y : y = <<c>>
  OBVIOUS
<1>4. Unescaped(x) = y /\ x # y
  <2>1. x \in {Entity(d) : d \in Markup}
    BY <1>1
  <2>2. x = <<256 + c>> /\ x[1] = 256 + c
    BY <1>1 DEF Entity
  <2>3. x[1] - 256 = c /\ x[1] # c
    BY <1>2, <2>2, SMT
  <2>4. Unescaped(x) = <<x[1] - 256>>
    BY <2>1 DEF Unescaped
  <2>5. x # y
    BY <1>3, <2>3
  <2> QED  BY <1>3, <2>3, <2>4, <2>5
<1>5. y \in Seq(Octets) /\ Len(y) = 1 /\ y[1] = c
  BY <1>2, <1>3, SMT DEF Octets
<1>6. Extent(y, 1) = 1
  <2>1. Announced(y[1]) = 1
    <3>1. c \in Octets /\ c < 192
      BY <1>2, SMT DEF Octets
    <3>2. Announced(c) = 1
      BY <3>1, AnnouncedIs
    <3> QED  BY <1>5, <3>2
  <2> QED  BY <2>1, ExtentIs, SMT
<1>7. codepoint(y, 1) = c
  BY <1>2, <1>5, <1>6, CodepointOfOne
<1>8. Allowed(c)
  BY <1>2, SMT DEF Allowed
<1>9. WellFormed(y)
  BY <1>2, <1>5, <1>6, SMT DEF WellFormed
<1> QED
  BY <1>1, <1>3, <1>4, <1>5, <1>7, <1>8, <1>9 DEF EscapedWell

LEMMA CharacterIsWell ==
  ASSUME NEW s \in Seq(Octets), NEW i \in 1 .. Len(s),
         Allowed(codepoint(s, i)), s[i] \notin Markup,
         NEW x, x = SubSeq(s, i, i + Extent(s, i) - 1)
  PROVE  EscapedWell(x) /\ Unescaped(x) = x
<1>1. PICK n : n = Extent(s, i)
  OBVIOUS
<1>2. /\ n \in 1 .. 4 /\ i + n - 1 \in i .. Len(s)
      /\ \A k \in 1 .. n - 1 : Follows(s, i + k)
      /\ n # 1 => n = Announced(s[i])
  BY <1>1, ExtentBounds
<1>3. x \in Seq(Octets) /\ Len(x) = n /\ \A k \in 1 .. n : x[k] = s[i + k - 1]
  <2>1. PICK m : m = i + n - 1
    OBVIOUS
  <2>2. x = SubSeq(s, i, m)
    BY <1>1, <2>1
  <2>3. m \in i .. Len(s) /\ m - i + 1 = n /\ n \in Nat
    BY <1>2, <2>1
  <2>4. s \in Seq(Octets) /\ i \in 1 .. Len(s)
    OBVIOUS
  <2>5. x \in Seq(Octets) /\ Len(x) = m - i + 1
    BY ONLY <2>2, <2>3, <2>4
  <2>6. \A k \in 1 .. m - i + 1 : x[k] = s[i + k - 1]
    BY ONLY <2>2, <2>3, <2>4
  <2> QED  BY <2>3, <2>5, <2>6
<1>4. x[1] = s[i]
  BY <1>2, <1>3
<1>5. n = 1 => s[i] < 128
  <2> SUFFICES ASSUME n = 1, ~ (s[i] < 128) PROVE FALSE
    OBVIOUS
  <2>1. codepoint(s, i) = 65533
    BY <1>1, CodepointOfOne, SMT
  <2> QED  BY <2>1, SMT DEF Allowed
<1>6. s[i] \in Octets
  OBVIOUS
<1>7. n = Announced(x[1])
  <2>1. CASE n = 1
    <3>1. s[i] < 192
      <4>1. \A b \in Octets : b < 128 => b < 192
        BY SMT DEF Octets
      <4> QED  BY <1>5, <1>6, <2>1, <4>1, Zenon
    <3> QED  BY <1>4, <1>6, <2>1, <3>1, AnnouncedIs
  <2>2. CASE n # 1
    BY <1>2, <1>4, <2>2
  <2> QED  BY <2>1, <2>2
<1>8. \A k \in 1 .. n - 1 : Follows(x, 1 + k) /\ x[1 + k] = s[i + k]
  <2> SUFFICES ASSUME NEW k \in 1 .. n - 1
               PROVE  Follows(x, 1 + k) /\ x[1 + k] = s[i + k]
    OBVIOUS
  <2>1. 1 + k \in 1 .. n /\ i + (1 + k) - 1 = i + k
    BY <1>2
  <2>2. x[1 + k] = s[i + k]
    BY <1>3, <2>1
  <2>3. 1 + k \in DOMAIN x
    BY <1>3, <2>1
  <2>4. s[i + k] \in 128 .. 191
    BY <1>2 DEF Follows
  <2> QED  BY <2>2, <2>3, <2>4 DEF Follows
<1>9. Extent(x, 1) = n
  BY <1>7, <1>8, ExtentIs, Zenon
<1>10. codepoint(x, 1) = codepoint(s, i)
  <2>1. \A k \in 1 .. n - 1 : x[1 + k] = s[i + k]
    BY <1>8
  <2>2. CASE n = 1
    BY <1>1, <1>4, <1>9, <2>2, CodepointIs, Zenon
  <2>3. CASE n = 2
    <3>1. 1 \in 1 .. n - 1
      BY <2>3
    <3>2. x[1 + 1] = s[i + 1]
      BY <2>1, <3>1, Zenon
    <3> QED  BY <1>1, <1>4, <1>9, <2>3, <3>2, CodepointIs, Zenon
  <2>4. CASE n = 3
    <3>1. 1 \in 1 .. n - 1 /\ 2 \in 1 .. n - 1
      BY <2>4
    <3>2. x[1 + 1] = s[i + 1] /\ x[1 + 2] = s[i + 2]
      BY <2>1, <3>1, Zenon
    <3> QED  BY <1>1, <1>4, <1>9, <2>4, <3>2, CodepointIs, Zenon
  <2>5. CASE n = 4
    <3>1. 1 \in 1 .. n - 1 /\ 2 \in 1 .. n - 1 /\ 3 \in 1 .. n - 1
      BY <2>5
    <3>2. x[1 + 1] = s[i + 1] /\ x[1 + 2] = s[i + 2] /\ x[1 + 3] = s[i + 3]
      BY <2>1, <3>1, Zenon
    <3> QED  BY <1>1, <1>4, <1>9, <2>5, <3>2, CodepointIs, Zenon
  <2> QED  BY <1>2, <2>2, <2>3, <2>4, <2>5
<1>11. Unescaped(x) = x
  <2>1. x \notin {Entity(c) : c \in Markup}
    <3> SUFFICES ASSUME NEW c \in Markup, x = Entity(c) PROVE FALSE
      OBVIOUS
    <3>1. Entity(c)[1] = 256 + c
      BY SMT DEF Entity
    <3>2. c \in 34 .. 62
      BY SMT DEF Markup
    <3>3. 256 + c \notin Octets
      BY <3>2, SMT DEF Octets
    <3> QED  BY <1>4, <1>6, <3>1, <3>3, Zenon
  <2> QED  BY <2>1, Zenon DEF Unescaped
<1>12. Overlong(x) \/ WellFormed(x)
  <2>1. CASE n = 1
    BY <1>3, <1>4, <1>5, <1>9, <2>1, SMT DEF WellFormed
  <2>2. CASE n # 1
    <3>1. Len(x) > 1
      BY <1>2, <1>3, <2>2
    <3> QED  BY <3>1 DEF Overlong
  <2> QED  BY <2>1, <2>2
<1> QED
  BY <1>3, <1>4, <1>10, <1>11, <1>12, Zenon DEF EscapedWell

(* What a character is turned into. *)
Escapes(s, i) ==
  IF ~ Allowed(codepoint(s, i)) THEN Replacement
  ELSE IF s[i] \in Markup THEN Entity(s[i])
  ELSE SubSeq(s, i, i + Extent(s, i) - 1)

LEMMA EscapesIsWell ==
  ASSUME NEW s \in Seq(Octets), NEW i \in 1 .. Len(s), NEW y, y = Escapes(s, i)
  PROVE  /\ EscapedWell(y) /\ y \in Seq(Nat)
         /\ y = Replacement \/ Unescaped(y) = SubSeq(s, i, i + Extent(s, i) - 1)
<1>1. CASE ~ Allowed(codepoint(s, i))
  <2>1. y = Replacement
    BY <1>1 DEF Escapes
  <2>2. Replacement \in Seq(Nat)
    BY SMT DEF Replacement
  <2> QED  BY <2>1, <2>2, ReplacementIsWell, Zenon
<1>2. CASE Allowed(codepoint(s, i)) /\ s[i] \in Markup
  <2>1. PICK c \in Markup : c = s[i]
    BY <1>2
  <2>2. y = Entity(c)
    BY <1>2, <2>1 DEF Escapes
  <2>3. EscapedWell(y) /\ Unescaped(y) = <<c>>
    BY <2>2, EntityIsWell, Zenon
  <2>4. c \in Octets /\ c < 192 /\ 256 + c \in Nat
    BY <2>1, SMT DEF Markup, Octets
  <2>5. Announced(s[i]) = 1
    BY <2>1, <2>4, AnnouncedIs, Zenon
  <2>6. Extent(s, i) = 1
    BY <2>5, ExtentIs, Zenon
  <2>7. i + 1 - 1 = i
    OBVIOUS
  <2>8. SubSeq(s, i, i) = <<c>>
    <3>1. PICK r : r = SubSeq(s, i, i)
      OBVIOUS
    <3>2. Len(r) = 1 /\ r[1] = c /\ r \in Seq(Octets)
      BY <2>1, <3>1
    <3>3. PICK q : q = <<c>>
      OBVIOUS
    <3>4. Len(q) = 1 /\ q[1] = c /\ q \in Seq(Octets)
      BY <2>4, <3>3
    <3>5. r = q
      BY ONLY <3>2, <3>4
    <3> QED  BY <3>1, <3>3, <3>5
  <2>9. y \in Seq(Nat)
    BY <2>2, <2>4 DEF Entity
  <2> QED  BY <2>3, <2>6, <2>7, <2>8, <2>9, Zenon
<1>3. CASE Allowed(codepoint(s, i)) /\ s[i] \notin Markup
  <2>1. y = SubSeq(s, i, i + Extent(s, i) - 1)
    BY <1>3 DEF Escapes
  <2>2. EscapedWell(y) /\ Unescaped(y) = y
    BY <1>3, <2>1, CharacterIsWell, Zenon
  <2>3. y \in Seq(Nat)
    <3>1. y \in Seq(Octets)
      BY <2>2 DEF EscapedWell
    <3>2. Octets \subseteq Nat
      BY SMT DEF Octets
    <3>3. ASSUME NEW j \in 1 .. Len(y) PROVE y[j] \in Nat
      <4>1. y[j] \in Octets
        BY ONLY <3>1, j \in 1 .. Len(y)
      <4> QED  BY <3>2, <4>1
    <3> QED  BY ONLY <3>1, <3>3
  <2> QED  BY <2>1, <2>2, <2>3, Zenon
<1> QED
  BY <1>1, <1>2, <1>3

(* The pieces of a text up to some place in it.                            *)
Pieces(x) == [i \in DOMAIN x |-> Unescaped(x[i])]

EscapedUpTo(s, n, x) ==
  /\ n \in 0 .. Len(s) /\ x \in Seq(Seq(Nat))
  /\ \A i \in DOMAIN x : EscapedWell(x[i])
  /\ (\A i \in DOMAIN x : x[i] # Replacement) => FlattenSeq(Pieces(x)) = SubSeq(s, 1, n)

LEMMA PiecesAre ==
  ASSUME NEW x \in Seq(Seq(Nat)), NEW m \in Nat, m = Len(x), \A i \in DOMAIN x : EscapedWell(x[i])
  PROVE  Pieces(x) \in [1 .. m -> Seq(Octets)]
<1>1. DOMAIN x = 1 .. m
  OBVIOUS
<1>2. \A i \in 1 .. m : Unescaped(x[i]) \in Seq(Octets)
  BY <1>1 DEF EscapedWell
<1> QED
  BY <1>1, <1>2 DEF Pieces

LEMMA PartsJoin ==
  ASSUME NEW s \in Seq(Octets), NEW n \in Nat, NEW k \in Nat, n + k <= Len(s)
  PROVE  SubSeq(s, 1, n) \o SubSeq(s, n + 1, n + k) = SubSeq(s, 1, n + k)
<1>1. PICK a, b, c : a = SubSeq(s, 1, n) /\ b = SubSeq(s, n + 1, n + k) /\ c = SubSeq(s, 1, n + k)
  OBVIOUS
<1>2. a \in Seq(Octets) /\ Len(a) = n /\ \A j \in 1 .. n : a[j] = s[j]
  BY <1>1
<1>3. b \in Seq(Octets) /\ Len(b) = k /\ \A j \in 1 .. k : b[j] = s[n + j]
  <2>1. PICK q \in Nat : q = n + k /\ q <= Len(s)
    OBVIOUS
  <2>2. b = SubSeq(s, n + 1, q)
    BY <1>1, <2>1
  <2>3. b \in Seq(Octets) /\ Len(b) = q - n
    BY <2>1, <2>2
  <2>4. \A j \in 1 .. q - n : b[j] = s[n + 1 + j - 1]
    BY <2>1, <2>2
  <2> QED  BY <2>1, <2>3, <2>4
<1>4. c \in Seq(Octets) /\ Len(c) = n + k /\ \A j \in 1 .. n + k : c[j] = s[j]
  BY <1>1
<1>5. PICK d : d = a \o b
  OBVIOUS
<1>6. /\ d \in Seq(Octets) /\ Len(d) = n + k
      /\ \A j \in 1 .. n : d[j] = a[j]
      /\ \A j \in n + 1 .. n + k : d[j] = b[j - n]
  <2>1. /\ d \in Seq(Octets) /\ Len(d) = Len(a) + Len(b)
        /\ \A j \in 1 .. Len(a) : d[j] = a[j]
        /\ \A j \in Len(a) + 1 .. Len(a) + Len(b) : d[j] = b[j - Len(a)]
    <3>1. a \in Seq(Octets) /\ b \in Seq(Octets)
      BY <1>2, <1>3
    <3> QED  BY ONLY <1>5, <3>1
  <2> QED  BY <1>2, <1>3, <2>1
<1>7. ASSUME NEW j \in 1 .. n + k PROVE d[j] = c[j]
  <2>1. CASE j <= n
    <3>1. j \in 1 .. n
      BY <2>1
    <3>2. d[j] = a[j]
      BY <1>6, <3>1
    <3>3. a[j] = s[j]
      BY <1>2, <3>1
    <3>4. c[j] = s[j]
      BY <1>4
    <3> QED  BY <3>2, <3>3, <3>4, Zenon
  <2>2. CASE j > n
    <3>1. j - n \in 1 .. k /\ n + (j - n) = j
      BY <2>2
    <3>2. d[j] = b[j - n]
      <4>1. j \in n + 1 .. n + k
        BY <2>2
      <4> QED  BY <1>6, <4>1
    <3>3. b[j - n] = s[j]
      BY <1>3, <3>1
    <3>4. c[j] = s[j]
      BY <1>4
    <3> QED  BY <3>2, <3>3, <3>4, Zenon
  <2> QED  BY <2>1, <2>2
<1>8. d = c
  BY <1>4, <1>6, <1>7
<1> QED
  BY <1>1, <1>5, <1>8

LEMMA EscapedMore ==
  ASSUME NEW s \in Seq(Octets), NEW n, NEW x, EscapedUpTo(s, n, x), n < Len(s)
  PROVE  EscapedUpTo(s, n + Extent(s, n + 1), Append(x, Escapes(s, n + 1)))
<1>1. PICK m \in Nat : m = Len(x) /\ DOMAIN x = 1 .. m
  <2>1. x \in Seq(Seq(Nat))
    BY DEF EscapedUpTo
  <2>2. Len(x) \in Nat /\ DOMAIN x = 1 .. Len(x)
    BY ONLY <2>1
  <2> QED  BY <2>2, Zenon
<1>2. n \in Nat /\ x \in Seq(Seq(Nat)) /\ \A i \in 1 .. m : EscapedWell(x[i])
  <2>1. n \in 0 .. Len(s) /\ x \in Seq(Seq(Nat)) /\ \A i \in DOMAIN x : EscapedWell(x[i])
    BY Zenon DEF EscapedUpTo
  <2>2. n \in Nat
    BY <2>1
  <2> QED  BY <1>1, <2>1, <2>2, Zenon
<1>3. PICK i : i = n + 1
  OBVIOUS
<1>4. i \in 1 .. Len(s) /\ i \in Nat
  BY <1>2, <1>3
<1>5. PICK k : k = Extent(s, i)
  OBVIOUS
<1>6. k \in Nat /\ n + k <= Len(s) /\ i + k - 1 = n + k
  <2>1. Extent(s, i) \in 1 .. 4 /\ i + Extent(s, i) - 1 \in i .. Len(s)
    BY <1>4, ExtentBounds
  <2> QED  BY <1>2, <1>3, <1>4, <1>5, <2>1
<1>7. PICK y : y = Escapes(s, i)
  OBVIOUS
<1>8. /\ EscapedWell(y) /\ y \in Seq(Nat)
      /\ y = Replacement \/ Unescaped(y) = SubSeq(s, n + 1, n + k)
  <2>1. /\ EscapedWell(y) /\ y \in Seq(Nat)
        /\ y = Replacement \/ Unescaped(y) = SubSeq(s, i, i + Extent(s, i) - 1)
    BY <1>4, <1>7, EscapesIsWell, Zenon
  <2> QED  BY <1>3, <1>5, <1>6, <2>1
<1>9. PICK z : z = Append(x, y)
  OBVIOUS
<1>10. /\ z \in Seq(Seq(Nat)) /\ Len(z) = m + 1 /\ DOMAIN z = 1 .. m + 1
       /\ z[m + 1] = y /\ \A j \in 1 .. m : z[j] = x[j]
  BY ONLY <1>1, <1>2, <1>8, <1>9, m \in Nat
<1>11. \A j \in DOMAIN z : EscapedWell(z[j])
  <2>1. \A j \in 1 .. m + 1 : j \in 1 .. m \/ j = m + 1
    OBVIOUS
  <2> QED  BY <1>2, <1>8, <1>10, <2>1, Zenon
<1>12. ASSUME \A j \in DOMAIN z : z[j] # Replacement
       PROVE  FlattenSeq(Pieces(z)) = SubSeq(s, 1, n + k)
  <2>1. 1 .. m \subseteq 1 .. m + 1 /\ m + 1 \in 1 .. m + 1 /\ m + 1 \in Nat
    OBVIOUS
  <2>2. \A j \in DOMAIN x : x[j] # Replacement
    BY <1>1, <1>10, <1>12, <2>1, Zenon
  <2>3. FlattenSeq(Pieces(x)) = SubSeq(s, 1, n)
    BY <2>2, Zenon DEF EscapedUpTo
  <2>4. y # Replacement
    BY <1>10, <1>12, <2>1, Zenon
  <2>5. PICK f, g : f = Pieces(x) /\ g = Pieces(z)
    OBVIOUS
  <2>6. f \in [1 .. m -> Seq(Octets)]
    <3>1. \A j \in DOMAIN x : EscapedWell(x[j])
      BY <1>1, <1>2
    <3> QED  BY <1>1, <1>2, <2>5, <3>1, PiecesAre, Zenon
  <2>7. g \in [1 .. m + 1 -> Seq(Octets)]
    BY <1>10, <1>11, <2>1, <2>5, PiecesAre, Zenon
  <2>8. \A j \in 1 .. m : f[j] = g[j]
    <3> SUFFICES ASSUME NEW j \in 1 .. m PROVE f[j] = g[j]
      OBVIOUS
    <3>1. f[j] = Unescaped(x[j])
      BY <1>1, <2>5 DEF Pieces
    <3>2. g[j] = Unescaped(z[j])
      BY <1>10, <2>1, <2>5 DEF Pieces
    <3> QED  BY <1>10, <3>1, <3>2, Zenon
  <2>9. FlattenSeq(g) = FlattenSeq(f) \o g[m + 1]
    BY <2>6, <2>7, <2>8, OnePieceMore, Zenon
  <2>10. g[m + 1] = SubSeq(s, n + 1, n + k)
    <3>1. g[m + 1] = Unescaped(y)
      BY <1>10, <2>1, <2>5 DEF Pieces
    <3> QED  BY <1>8, <2>4, <3>1, Zenon
  <2>11. SubSeq(s, 1, n) \o SubSeq(s, n + 1, n + k) = SubSeq(s, 1, n + k)
    BY <1>2, <1>6, PartsJoin
  <2> QED  BY <2>3, <2>5, <2>9, <2>10, <2>11, Zenon
<1>13. n + k \in 0 .. Len(s)
  BY <1>2, <1>6
<1>14. EscapedUpTo(s, n + k, z)
  BY <1>10, <1>11, <1>12, <1>13, Zenon DEF EscapedUpTo
<1> QED
  BY <1>3, <1>5, <1>7, <1>9, <1>14

-----------------------------------------------------------------------------
(* Texts are kept.                                                         *)

LEMMA SetIsOctets ==
  ASSUME NEW s \in Seq(Octets), NEW set, NEW dflt
  PROVE  dvb_string_set(s, set, dflt) \in Seq(Octets)
<1>1. PICK f : f = dvb_string_set(s, set, dflt)
  OBVIOUS
<1>2. CASE set = dflt
  <2>1. f = s
    BY <1>1, <1>2 DEF dvb_string_set
  <2> QED  BY <1>1, <2>1
<1>3. CASE set # dflt /\ Codes(ppsz_dvb_encodings, set) # {}
  <2>1. PICK c : c = First(Codes(ppsz_dvb_encodings, set))
    OBVIOUS
  <2>2. DOMAIN ppsz_dvb_encodings = 0 .. 31
    BY DEF ppsz_dvb_encodings
  <2>3. c \in 0 .. 31
    <3>1. Codes(ppsz_dvb_encodings, set) \in SUBSET (0 .. 31)
      BY <2>2 DEF Codes
    <3>2. Codes(ppsz_dvb_encodings, set) \in SUBSET Nat
      <4>1. 0 .. 31 \subseteq Nat
        OBVIOUS
      <4> QED  BY <3>1, <4>1, Zenon
    <3>3. c \in Codes(ppsz_dvb_encodings, set)
      BY <1>3, <2>1, <3>2, FirstIs
    <3> QED  BY <3>1, <3>3
  <2>4. <<c>> \in Seq(Octets)
    BY <2>3 DEF Octets
  <2>5. f = <<c>> \o s
    BY <1>1, <1>3, <2>1 DEF dvb_string_set
  <2> QED  BY <1>1, <2>4, <2>5, AfterCode
<1>4. CASE set # dflt /\ Codes(ppsz_dvb_encodings, set) = {}
           /\ Codes(ppsz_dvb_encodings10, set) # {}
  <2>1. PICK c : c = First(Codes(ppsz_dvb_encodings10, set))
    OBVIOUS
  <2>2. DOMAIN ppsz_dvb_encodings10 = 0 .. 15
    BY DEF ppsz_dvb_encodings10
  <2>3. c \in 0 .. 15
    <3>1. Codes(ppsz_dvb_encodings10, set) \in SUBSET (0 .. 15)
      BY <2>2 DEF Codes
    <3>2. Codes(ppsz_dvb_encodings10, set) \in SUBSET Nat
      <4>1. 0 .. 15 \subseteq Nat
        OBVIOUS
      <4> QED  BY <3>1, <4>1, Zenon
    <3>3. c \in Codes(ppsz_dvb_encodings10, set)
      BY <1>4, <2>1, <3>2, FirstIs
    <3> QED  BY <3>1, <3>3
  <2>4. <<16, 0, c>> \in Seq(Octets)
    BY <2>3 DEF Octets
  <2>5. f = <<16, 0, c>> \o s
    BY <1>1, <1>4, <2>1 DEF dvb_string_set
  <2> QED  BY <1>1, <2>4, <2>5, AfterCode
<1>5. CASE set # dflt /\ Codes(ppsz_dvb_encodings, set) = {}
           /\ Codes(ppsz_dvb_encodings10, set) = {}
  <2>1. f = <<>>
    BY <1>1, <1>5 DEF dvb_string_set
  <2> QED  BY <1>1, <2>1
<1> QED
  BY <1>2, <1>3, <1>4, <1>5

LEMMA RestIsOctets ==
  ASSUME NEW f \in Seq(Octets), NEW dflt
  PROVE  dvb_string_get_encoding(f, dflt).rest \in Seq(Octets)
<1>1. PICK e : e = dvb_string_get_encoding(f, dflt)
  OBVIOUS
<1> DEFINE Rest(n) == SubSeq(f, n + 1, Len(f))
<1>2. \A n \in 0 .. 3 : Rest(n) \in Seq(Octets)
  <2> SUFFICES ASSUME NEW n \in 0 .. 3 PROVE Rest(n) \in Seq(Octets)
    OBVIOUS
  <2> QED  OBVIOUS
<1>3. CASE f = <<>>
  <2>1. e = [set |-> Nothing, rest |-> Rest(0)]
    BY <1>1, <1>3, Zenon DEF dvb_string_get_encoding
  <2> QED  BY <1>1, <1>2, <2>1
<1>4. CASE f # <<>> /\ f[1] = 0
  <2>1. ~ (f[1] >= 32) /\ f[1] # 16 /\ f[1] # 31
    BY <1>4
  <2>2. e = [set |-> Nothing, rest |-> Rest(0)]
    BY <1>1, <1>4, <2>1, Zenon DEF dvb_string_get_encoding
  <2> QED  BY <1>1, <1>2, <2>2
<1>5. CASE f # <<>> /\ f[1] >= 32
  <2>1. f[1] # 0 /\ f[1] # 16 /\ f[1] # 31
    BY <1>5
  <2>2. e = [set |-> dflt, rest |-> Rest(0)]
    BY <1>1, <1>5, <2>1, Zenon DEF dvb_string_get_encoding
  <2> QED  BY <1>1, <1>2, <2>2
<1>6. CASE f # <<>> /\ f[1] # 0 /\ ~ (f[1] >= 32) /\ f[1] = 16 /\ Len(f) > 2
  <2>1. f[1] # 31
    BY <1>6
  <2>2. e.rest = Rest(3)
    BY <1>1, <1>6, <2>1, SMT DEF dvb_string_get_encoding
  <2> QED  BY <1>1, <1>2, <2>2
<1>7. CASE f # <<>> /\ f[1] # 0 /\ ~ (f[1] >= 32) /\ f[1] = 31 /\ Len(f) > 1
  <2>1. f[1] # 16
    BY <1>7
  <2>2. e = [set |-> Nothing, rest |-> Rest(2)]
    BY <1>1, <1>7, <2>1, Zenon DEF dvb_string_get_encoding
  <2> QED  BY <1>1, <1>2, <2>2
<1>8. CASE /\ f # <<>> /\ f[1] # 0 /\ ~ (f[1] >= 32)
           /\ ~ (f[1] = 16 /\ Len(f) > 2) /\ ~ (f[1] = 31 /\ Len(f) > 1)
  <2>1. e = [set |-> ppsz_dvb_encodings[f[1]], rest |-> Rest(1)]
    BY <1>1, <1>8, Zenon DEF dvb_string_get_encoding
  <2> QED  BY <1>1, <1>2, <2>1
<1> QED
  BY <1>3, <1>4, <1>5, <1>6, <1>7, <1>8, Zenon

LEMMA CStringIs ==
  ASSUME NEW s \in Seq(Octets)
  PROVE  CString(s) \in Seq(Octets) /\ CString(<<>>) = <<>>
<1>1. CString(<<>>) = <<>>
  <2>1. ~ Contains(<<>>, 0)
    BY DEF Contains
  <2> QED  BY <2>1 DEF CString
<1>2. CASE Contains(s, 0)
  <2>1. PICK n : n = SelectInSeq(s, LAMBDA b : b = 0)
    OBVIOUS
  <2>2. n \in 1 .. Len(s)
    <3> DEFINE I == {i \in 1 .. Len(s) : s[i] = 0}
    <3>1. I # {} /\ I \in SUBSET Nat
      BY <1>2 DEF Contains
    <3>2. n = Min(I)
      BY <2>1, <3>1 DEF SelectInSeq
    <3>3. \E i \in I : \A j \in I : i <= j
      BY <3>1, HasLeast
    <3>4. Min(I) \in I
      BY <3>3 DEF Min
    <3> QED  BY <3>2, <3>4
  <2>3. CString(s) = SubSeq(s, 1, n - 1)
    BY <1>2, <2>1 DEF CString
  <2>4. SubSeq(s, 1, n - 1) \in Seq(Octets)
    BY <2>2
  <2> QED  BY <1>1, <2>3, <2>4
<1>3. CASE ~ Contains(s, 0)
  BY <1>1, <1>3 DEF CString
<1> QED
  BY <1>2, <1>3

(* A field that is to be read is what dvb_string_set made, or came from    *)
(* elsewhere.                                                              *)
FieldIs ==
  /\ field \in Seq(Octets)
  /\ charset # Nothing =>
       charset \in Charsets /\ text \in Texts /\ field = dvb_string_set(text, charset, default)

ShownIs ==
  /\ charset # Nothing /\ Coded /\ ~ LooksCoded =>
       /\ shown.bytes = text
       /\ shown.by \in {charset, Nothing}
  /\ shown.by # Nothing => shown.by = dvb_string_get_encoding(field, default).set

(* The converter that is kept is the one for the character set that is     *)
(* remembered, and what was escaped so far comes back.                     *)
StringInv ==
  /\ handle # Nothing => handle = current
  /\ turn \in {"write", "read"} => at = 0 /\ xml = <<>>
  /\ turn = "read" => FieldIs
  /\ turn = "shown" => ShownIs
  /\ turn \in {"shown", "escaping", "escaped"} =>
       shown.bytes \in Seq(Octets) /\ EscapedUpTo(shown.bytes, at, xml)
  /\ turn = "escaped" => at = Len(shown.bytes)

LEMMA StringInvKeepsTexts == StringInv => TextKept
<1> SUFFICES ASSUME StringInv PROVE TextKept
  OBVIOUS
<1>1. turn = "shown" => ShownIs
  BY DEF StringInv
<1>2. ASSUME turn = "escaped"
      PROVE  /\ \A i \in DOMAIN xml :
                  \/ Overlong(xml[i])
                  \/ /\ WellFormed(Unescaped(xml[i]))
                     /\ xml[i] # Replacement => Allowed(codepoint(Unescaped(xml[i]), 1))
                     /\ Unescaped(xml[i]) = xml[i] => xml[i][1] \notin Markup
             /\ (\A i \in DOMAIN xml : xml[i] # Replacement) =>
                  FlattenSeq([i \in DOMAIN xml |-> Unescaped(xml[i])]) = shown.bytes
  <2>1. /\ shown.bytes \in Seq(Octets) /\ EscapedUpTo(shown.bytes, at, xml)
        /\ at = Len(shown.bytes)
    BY <1>2 DEF StringInv
  <2>2. SubSeq(shown.bytes, 1, at) = shown.bytes
    BY <2>1
  <2>3. \A i \in DOMAIN xml : EscapedWell(xml[i])
    BY <2>1, Zenon DEF EscapedUpTo
  <2>4. (\A i \in DOMAIN xml : xml[i] # Replacement) => FlattenSeq(Pieces(xml)) = shown.bytes
    BY <2>1, <2>2, Zenon DEF EscapedUpTo
  <2> QED  BY <2>3, <2>4, Zenon DEF EscapedWell, Pieces
<1> QED
  BY <1>1, <1>2, Zenon DEF TextKept, ShownIs

LEMMA NothingEscaped ==
  ASSUME NEW s \in Seq(Octets)
  PROVE  EscapedUpTo(s, 0, <<>>)
<1>1. Pieces(<<>>) = <<>>
  BY DEF Pieces
<1>2. SubSeq(s, 1, 0) = <<>>
  OBVIOUS
<1>3. 0 \in 0 .. Len(s) /\ <<>> \in Seq(Seq(Nat)) /\ DOMAIN <<>> = {}
  OBVIOUS
<1> QED
  BY <1>1, <1>2, <1>3, NoPieces, Zenon DEF EscapedUpTo

LEMMA InitStringInv == ASSUME ConversionInit PROVE StringInv
<1>1. handle = Nothing /\ at = 0 /\ xml = <<>> /\ turn \in {"none", "write"}
  BY DEF ConversionInit, StringIdle, StringInit
<1> QED
  BY <1>1 DEF StringInv

(* What a field is read as. *)
LEMMA ReadIs ==
  ASSUME FieldIs, handle # Nothing => handle = current, Read
  PROVE  /\ ShownIs' /\ shown'.bytes \in Seq(Octets)
         /\ handle' # Nothing => handle' = current'
<1>1. PICK e : e = dvb_string_get_encoding(field, default)
  OBVIOUS
<1>2. /\ field \in Seq(Octets)
      /\ UNCHANGED <<charset, text, default, field>>
      /\ IF e.set = Nothing \/ e.rest = <<>>
           THEN /\ shown' = [by |-> Nothing, bytes |-> CString(e.rest)]
                /\ UNCHANGED <<handle, current>>
           ELSE iconv_wrapper(e.set, e.rest)
  BY <1>1 DEF Read, FieldIs
<1>3. e.rest \in Seq(Octets)
  BY <1>1, <1>2, RestIsOctets
<1>4. ASSUME charset # Nothing, Coded, ~ LooksCoded
      PROVE  e.rest = text /\ (text # <<>> => e.set = charset)
  <2>1. charset \in Charsets /\ text \in Texts /\ field = dvb_string_set(text, charset, default)
    BY <1>4 DEF FieldIs
  <2>2. text \in Seq(Octets) /\ charset # Unnamed
    BY <2>1, StringAssumption
  <2>3. \/ charset = default
        \/ \E t \in {ppsz_dvb_encodings, ppsz_dvb_encodings10} : Codes(t, charset) # {}
    BY <1>4 DEF Coded
  <2>4. ~ (charset = default /\ text # <<>> /\ text[1] < 32)
    BY <1>4 DEF LooksCoded
  <2>5. ReadsAs(field, default, text, charset)
    BY <2>1, <2>2, <2>3, <2>4, ReadsBack, Zenon
  <2> QED  BY <1>1, <2>5 DEF ReadsAs
<1>5. CASE e.set = Nothing \/ e.rest = <<>>
  <2>1. shown'.by = Nothing /\ shown'.bytes = CString(e.rest) /\ UNCHANGED <<handle, current>>
    BY <1>2, <1>5
  <2>2. CString(e.rest) \in Seq(Octets) /\ CString(<<>>) = <<>>
    BY <1>3, CStringIs
  <2>3. ASSUME charset # Nothing, Coded, ~ LooksCoded PROVE shown'.bytes = text
    BY <1>4, <1>5, <2>1, <2>2, <2>3
  <2> QED  BY <1>2, <2>1, <2>2, <2>3 DEF ShownIs, Coded, LooksCoded
<1>6. CASE e.set # Nothing /\ e.rest # <<>>
  <2>1. iconv_wrapper(e.set, e.rest)
    BY <1>2, <1>6
  <2>2. /\ shown'.bytes = e.rest /\ shown'.by \in {e.set, Nothing}
        /\ handle' # Nothing => handle' = current'
    <3>1. Converter(e.set) \in {e.set, Nothing}
      BY DEF Converter
    <3>2. CASE e.set = Utf8
      BY <2>1, <3>2 DEF iconv_wrapper
    <3>3. CASE e.set # Utf8
      BY <2>1, <3>1, <3>3 DEF iconv_wrapper
    <3> QED  BY <3>2, <3>3
  <2>3. ASSUME charset # Nothing, Coded, ~ LooksCoded
        PROVE  shown'.bytes = text /\ shown'.by \in {charset, Nothing}
    BY <1>4, <1>6, <2>2, <2>3
  <2> QED  BY <1>1, <1>2, <1>3, <2>2, <2>3 DEF ShownIs, Coded, LooksCoded
<1> QED
  BY <1>5, <1>6

LEMMA StepStringInv == ASSUME StringInv, [ConversionNext]_conversionVars PROVE StringInv'
<1>1. CASE UNCHANGED stringVars
  BY <1>1 DEF StringInv, FieldIs, ShownIs, Coded, LooksCoded, stringVars
<1>2. CASE WriteText
  <2>1. /\ turn = "write" /\ turn' = "read" /\ charset' \in Charsets /\ text' \in Texts
        /\ field' = dvb_string_set(text', charset', default')
        /\ UNCHANGED <<shown, handle, current, at, xml>>
    BY <1>2 DEF WriteText
  <2>2. text' \in Seq(Octets)
    BY <2>1, StringAssumption
  <2>3. field' \in Seq(Octets)
    BY <2>1, <2>2, SetIsOctets
  <2> QED  BY <2>1, <2>3 DEF StringInv, FieldIs
<1>3. CASE ReceiveField
  <2>1. /\ turn = "write" /\ turn' = "read" /\ charset' = Nothing /\ field' \in Fields
        /\ UNCHANGED <<shown, handle, current, at, xml>>
    BY <1>3 DEF ReceiveField
  <2>2. field' \in Seq(Octets)
    BY <2>1, StringAssumption
  <2> QED  BY <2>1, <2>2 DEF StringInv, FieldIs
<1>4. CASE Read
  <2>1. turn = "read" /\ turn' = "shown" /\ UNCHANGED <<at, xml>>
    BY <1>4 DEF Read
  <2>2. FieldIs /\ at = 0 /\ xml = <<>> /\ (handle # Nothing => handle = current)
    BY <2>1 DEF StringInv
  <2>3. /\ ShownIs' /\ shown'.bytes \in Seq(Octets)
        /\ handle' # Nothing => handle' = current'
    BY <1>4, <2>2, ReadIs
  <2>4. EscapedUpTo(shown'.bytes, 0, <<>>)
    BY <2>3, NothingEscaped
  <2>5. at' = 0 /\ xml' = <<>>
    BY <2>1, <2>2
  <2> QED  BY <2>1, <2>3, <2>4, <2>5 DEF StringInv
<1>5. CASE Escape
  <2>1. /\ turn \in {"shown", "escaping"} /\ turn' = "escaping" /\ at < Len(shown.bytes)
        /\ UNCHANGED <<shown, handle, current>>
    BY <1>5 DEF Escape
  <2>2. PICK s, n, i : s = shown.bytes /\ n = Extent(s, at + 1) /\ i = at + 1
    OBVIOUS
  <2>3. s \in Seq(Octets) /\ EscapedUpTo(s, at, xml) /\ at < Len(s)
    BY <2>1, <2>2 DEF StringInv
  <2>4. at \in Nat
    <3>1. at \in 0 .. Len(s)
      BY <2>3, Zenon DEF EscapedUpTo
    <3> QED  BY <3>1
  <2>5. i \in 1 .. Len(s) /\ i \in Nat
    BY <2>2, <2>3, <2>4
  <2>6. at + n = i + Extent(s, i) - 1
    <3>1. Extent(s, i) \in 1 .. 4
      BY <2>3, <2>5, ExtentBounds
    <3> QED  BY <2>2, <2>4, <2>5, <3>1
  <2>7. at' = at + n
    BY <1>5, <2>2 DEF Escape
  <2>8. xml' = Append(xml, IF ~ Allowed(codepoint(s, i)) THEN Replacement
                           ELSE IF s[i] \in Markup THEN Entity(s[i])
                           ELSE SubSeq(s, i, at + n))
    BY <1>5, <2>2, Zenon DEF Escape
  <2>9. xml' = Append(xml, Escapes(s, i))
    BY <2>6, <2>8, Zenon DEF Escapes
  <2>10. EscapedUpTo(s, at', xml')
    BY <2>2, <2>3, <2>7, <2>9, EscapedMore, Zenon
  <2>11. shown'.bytes = s /\ s \in Seq(Octets)
    BY <2>1, <2>2, <2>3
  <2> QED  BY <2>1, <2>10, <2>11 DEF StringInv
<1>6. CASE Escaped
  <2>1. /\ turn = "escaping" /\ turn' = "escaped" /\ at = Len(shown.bytes)
        /\ UNCHANGED <<shown, handle, current, at, xml>>
    BY <1>6 DEF Escaped
  <2>2. shown.bytes \in Seq(Octets) /\ EscapedUpTo(shown.bytes, at, xml)
    BY <2>1 DEF StringInv
  <2> QED  BY <2>1, <2>2 DEF StringInv
<1>7. CASE NextText
  BY <1>7 DEF NextText, StringInv
<1> QED
  BY <1>1, <1>2, <1>3, <1>4, <1>5, <1>6, <1>7
     DEF ConversionNext, StringNext, conversionVars

(* A text that was written is read with its own character set and byte for *)
(* byte, and what it becomes in XML is well-formed and comes back: of      *)
(* whatever bytes, in every character set that has a code, and whatever    *)
(* was read before it, whichever converters there are.                     *)
THEOREM TextsAreKept == ConversionSpec => []TextKept
<1>1. ConversionInit => StringInv
  BY InitStringInv
<1>2. StringInv /\ [ConversionNext]_conversionVars => StringInv'
  BY StepStringInv
<1>3. StringInv => TextKept
  BY StringInvKeepsTexts
<1> QED
  BY <1>1, <1>2, <1>3, PTL DEF ConversionSpec

-----------------------------------------------------------------------------
(* Parameters, and how long a message is with one more of them.            *)
Parameters == [type : Nat, number : Nat, value : Seq(Nat)]

LEMMA SizeMore ==
  ASSUME NEW ps \in Seq(Parameters), NEW p \in Parameters
  PROVE  /\ Size(ps) \in Nat
         /\ Size(Append(ps, p)) = Size(ps) + Header + Len(p.value)
<1>1. PICK n \in Nat : n = Len(ps)
  OBVIOUS
<1>2. PICK qs : qs = Append(ps, p)
  OBVIOUS
<1> DEFINE f == [i \in 1 .. n |-> ps[i].value]
           g == [i \in 1 .. n + 1 |-> qs[i].value]
<1>3. /\ DOMAIN ps = 1 .. n /\ DOMAIN qs = 1 .. n + 1 /\ Len(qs) = n + 1
      /\ \A i \in 1 .. n : qs[i] = ps[i] /\ ps[i] \in Parameters
      /\ qs[n + 1] = p
  BY <1>1, <1>2
<1>4. \A q \in Parameters : q.value \in Seq(Nat)
  BY DEF Parameters
<1>5. f \in [1 .. n -> Seq(Nat)]
  BY <1>3, <1>4
<1>6. g \in [1 .. n + 1 -> Seq(Nat)] /\ g[n + 1] = p.value
  <2>1. \A i \in 1 .. n + 1 : qs[i] \in Parameters
    BY <1>3
  <2> QED  BY <1>3, <1>4, <2>1
<1>7. \A i \in 1 .. n : f[i] = g[i]
  BY <1>3
<1>8. FlattenSeq(g) = FlattenSeq(f) \o p.value
  <2> HIDE DEF f, g
  <2>1. FlattenSeq(g) = FlattenSeq(f) \o g[n + 1]
    BY <1>5, <1>6, <1>7, OnePieceMore, Zenon
  <2> QED  BY <1>6, <2>1, Zenon
<1>9. FlattenSeq(f) \in Seq(Nat)
  <2> HIDE DEF f, g
  <2> QED  BY <1>5, FlattenedIsSequence, Zenon
<1>10. Size(ps) = Header * n + Len(FlattenSeq(f))
  BY <1>1, <1>3, Zenon DEF Size
<1>11. Size(qs) = Header * (n + 1) + Len(FlattenSeq(g))
  BY <1>3, Zenon DEF Size
<1>12. Len(FlattenSeq(g)) = Len(FlattenSeq(f)) + Len(p.value) /\ Len(FlattenSeq(f)) \in Nat
  <2> HIDE DEF f, g
  <2>1. p.value \in Seq(Nat)
    BY <1>4, Zenon
  <2> QED  BY <1>8, <1>9, <2>1
<1> HIDE DEF f, g
<1>13. Len(p.value) \in Nat
  BY <1>4
<1>14. Size(ps) \in Nat /\ Size(qs) = Size(ps) + Header + Len(p.value)
  <2>1. PICK a, b, l, x, y : /\ a = Len(FlattenSeq(f)) /\ b = Len(FlattenSeq(g))
                             /\ l = Len(p.value) /\ x = Size(ps) /\ y = Size(qs)
    OBVIOUS
  <2>2. a \in Nat /\ l \in Nat /\ b = a + l
    BY <1>12, <1>13, <2>1
  <2>3. x = Header * n + a /\ y = Header * (n + 1) + b
    BY <1>10, <1>11, <2>1
  <2>4. x \in Nat /\ y = x + Header + l
    BY ONLY n \in Nat, <2>2, <2>3 DEF Header
  <2> QED  BY <2>1, <2>4
<1> QED  BY <1>2, <1>14

LEMMA SizeOfNone == Size(<<>>) = 0
<1>1. [i \in DOMAIN <<>> |-> <<>>[i].value] = <<>>
  OBVIOUS
<1>2. Size(<<>>) = Header * Len(<<>>) + Len(<<>>)
  BY <1>1, NoPieces, Zenon DEF Size
<1> QED  BY <1>2 DEF Header

-----------------------------------------------------------------------------
(* Numbers, and what a parameter of a program's own is like.               *)

LEMMA EncodedIs ==
  ASSUME NEW v \in Nat, NEW size \in 0 .. 4
  PROVE  Encoded(v, size) \in Seq(Nat) /\ Len(Encoded(v, size)) = size
<1>1. \A k \in 1 .. 4 : Weight[k] \in {1, 256, 65536, 16777216}
  BY SMT DEF Weight
<1>2. \A i \in 1 .. size : (v \div Weight[size - i + 1]) % 256 \in Nat
  BY SMT, <1>1
<1>3. Encoded(v, size) \in [1 .. size -> Nat]
  BY <1>2 DEF Encoded
<1> QED  BY <1>3

LEMMA WeightIs ==
  Weight[1] = 1 /\ Weight[2] = 256 /\ Weight[3] = 65536 /\ Weight[4] = 16777216
BY SMT DEF Weight

LEMMA DecodedOne ==
  ASSUME NEW v \in 0 .. 255
  PROVE  Decoded(Encoded(v, 1), 1) = v
<1>1. Encoded(v, 1)[1] = (v \div Weight[1]) % 256
  BY SMT DEF Encoded
<1>2. (v \div Weight[1]) % 256 = v
  BY SMT, WeightIs
<1>3. Decoded(Encoded(v, 1), 1) = Encoded(v, 1)[1]
  BY DEF Decoded
<1> QED  BY SMT, <1>1, <1>2, <1>3

LEMMA DividedByByte ==
  ASSUME NEW v \in Nat
  PROVE  \E q \in Nat, r \in 0 .. 255 : v = 256 * q + r /\ v \div 256 = q /\ v % 256 = r
<1>1. v % 256 \in 0 .. 255 /\ v \div 256 \in Nat /\ v = 256 * (v \div 256) + (v % 256)
  BY SMT
<1> QED  BY SMT, <1>1

(* What goes into two bytes, and into four. *)
TwoBytes == {v \in Nat : v < 65536}
FourBytes == {v \in Nat : v < 4294967296}

LEMMA DecodedTwo ==
  ASSUME NEW v \in TwoBytes, NEW bytes, bytes[1] = Encoded(v, 2)[1], bytes[2] = Encoded(v, 2)[2]
  PROVE  Decoded(bytes, 2) = v
<1>1. bytes[1] = (v \div 256) % 256 /\ bytes[2] = v % 256
  <2>1. Encoded(v, 2)[1] = (v \div Weight[2]) % 256
    BY SMT DEF Encoded, TwoBytes
  <2>2. Encoded(v, 2)[2] = (v \div Weight[1]) % 256 /\ v \div 1 = v
    BY SMT DEF Encoded, TwoBytes
  <2> QED  BY SMT, <2>1, <2>2, WeightIs
<1>2. ((v \div 256) % 256) * 256 + (v % 256) = v
  <2>1. v \in Nat /\ v < 65536
    BY SMT DEF TwoBytes
  <2>2. PICK a \in Nat, b \in 0 .. 255 : v = 256 * a + b /\ v \div 256 = a /\ v % 256 = b
    BY <2>1, DividedByByte
  <2>3. a \in 0 .. 255
    BY SMT, <2>1, <2>2
  <2>4. a % 256 = a
    BY SMT, <2>3
  <2> QED  BY SMT, <2>2, <2>4
<1>3. Decoded(bytes, 2) = bytes[1] * Weight[2] + bytes[2]
  BY DEF Decoded
<1> QED  BY SMT, <1>1, <1>2, <1>3, WeightIs

LEMMA DecodedFour ==
  ASSUME NEW v \in FourBytes
  PROVE  Decoded(Encoded(v, 4), 4) = v
<1>1. PICK b : b = Encoded(v, 4)
  BY Zenon
<1>2. /\ b[1] = (v \div 16777216) % 256 /\ b[2] = (v \div 65536) % 256
      /\ b[3] = (v \div 256) % 256 /\ b[4] = v % 256
  <2>1. \A i \in 1 .. 4 : b[i] = (v \div Weight[4 - i + 1]) % 256
    BY SMT, <1>1 DEF Encoded
  <2>0. v \in Nat
    BY SMT DEF FourBytes
  <2>2. v \div 1 = v /\ 4 - 1 + 1 = 4 /\ 4 - 2 + 1 = 3 /\ 4 - 3 + 1 = 2 /\ 4 - 4 + 1 = 1
    BY SMT, <2>0
  <2> QED  BY SMT, <2>1, <2>2, WeightIs
<1>3. PICK q \in Nat, d \in 0 .. 255 : v = 256 * q + d /\ v \div 256 = q /\ v % 256 = d
  <2>1. v \in Nat
    BY SMT DEF FourBytes
  <2> QED  BY <2>1, DividedByByte, Zenon
<1>4. PICK r \in Nat, c \in 0 .. 255 : q = 256 * r + c /\ q \div 256 = r /\ q % 256 = c
  BY DividedByByte, Zenon
<1>5. PICK a \in Nat, x \in 0 .. 255 : r = 256 * a + x /\ r \div 256 = a /\ r % 256 = x
  BY DividedByByte, Zenon
<1>6. v \div 65536 = r /\ v \div 16777216 = a
  BY SMT, <1>3, <1>4, <1>5
<1>9. a \in 0 .. 255 /\ a % 256 = a
  <2>1. v = 16777216 * a + 65536 * x + 256 * c + d
    BY SMT, <1>3, <1>4, <1>5
  <2>2. a \in 0 .. 255
    BY SMT, <2>1 DEF FourBytes
  <2> QED  BY SMT, <2>2
<1>7. b[1] * 16777216 + b[2] * 65536 + b[3] * 256 + b[4] = v
  BY SMT, <1>2, <1>3, <1>4, <1>5, <1>6, <1>9
<1>8. Decoded(b, 4) = b[1] * Weight[4] + b[2] * Weight[3] + b[3] * Weight[2] + b[4]
  <2>1. 4 # 1 /\ 4 # 2
    OBVIOUS
  <2> QED  BY <2>1, Zenon DEF Decoded
<1> QED  BY SMT, <1>1, <1>7, <1>8, WeightIs

(* The types that a message of an ECMG may have to hold.                   *)
Known == (1 .. ecmId) \cup {errorStatus}

LEMMA LengthsAre ==
  ASSUME NEW t \in Known
  PROVE  /\ ecmg_size(t) \in {0, 1, 2, 4}
         /\ t # errorStatus => t \in 1 .. 25 /\ pi_ecmg_params_minlength[t + 1] = ecmg_size(t)
         /\ t = errorStatus => ecmg_size(t) = 2
<1> USE DEF superCasId, sectionTsPkt, leadCw, cwPerMsg, accessCritMode, accessCrit, cpCwComb,
            ecm, cwEncrypt, errorStatus, ecmId
<1>1. t = errorStatus \/ t \in 1 .. 25
  BY SMT DEF Known
<1>2. CASE t = superCasId
  <2>2. /\ t \notin {sectionTsPkt, leadCw, cwPerMsg, accessCritMode}
        /\ t \notin {accessCrit, cpCwComb, ecm, cwEncrypt}
    BY SMT, <1>2
  <2>1. ecmg_size(t) = 4
    <3> HIDE DEF superCasId, sectionTsPkt, leadCw, cwPerMsg, accessCritMode, accessCrit,
                 cpCwComb, ecm, cwEncrypt
    <3> QED  BY <1>2, <2>2, Zenon DEF ecmg_size
  <2> QED  BY SMT, <1>2, <2>1 DEF pi_ecmg_params_minlength
<1>3. CASE t \in {sectionTsPkt, leadCw, cwPerMsg, accessCritMode}
  <2>1. t # superCasId /\ t \notin {accessCrit, cpCwComb, ecm, cwEncrypt}
    BY SMT, <1>3
  <2>2. ecmg_size(t) = 1
    <3> HIDE DEF superCasId, sectionTsPkt, leadCw, cwPerMsg, accessCritMode, accessCrit,
                 cpCwComb, ecm, cwEncrypt
    <3> QED  BY <1>3, <2>1, Zenon DEF ecmg_size
  <2> QED  BY SMT, <1>3, <2>2 DEF pi_ecmg_params_minlength
<1>4. CASE t \in {accessCrit, cpCwComb, ecm, cwEncrypt}
  <2>1. t # superCasId /\ t \notin {sectionTsPkt, leadCw, cwPerMsg, accessCritMode}
    BY SMT, <1>4
  <2>2. ecmg_size(t) = 0
    <3> HIDE DEF superCasId, sectionTsPkt, leadCw, cwPerMsg, accessCritMode, accessCrit,
                 cpCwComb, ecm, cwEncrypt
    <3> QED  BY <1>4, <2>1, Zenon DEF ecmg_size
  <2> QED  BY SMT, <1>4, <2>2 DEF pi_ecmg_params_minlength
<1>5. CASE /\ t # superCasId /\ t \notin {sectionTsPkt, leadCw, cwPerMsg, accessCritMode}
           /\ t \notin {accessCrit, cpCwComb, ecm, cwEncrypt}
  <2>1. ecmg_size(t) = 2
    <3> HIDE DEF superCasId, sectionTsPkt, leadCw, cwPerMsg, accessCritMode, accessCrit,
                 cpCwComb, ecm, cwEncrypt
    <3> QED  BY <1>5, Zenon DEF ecmg_size
  <2>2. t = errorStatus \/ t \in {3, 4, 5, 6, 7, 8, 9, 12, 14, 15, 16, 18, 19, 22, 23, 25}
    BY SMT, <1>1, <1>5
  <2> QED  BY SMT, <2>1, <2>2 DEF pi_ecmg_params_minlength
<1> HIDE DEF superCasId, sectionTsPkt, leadCw, cwPerMsg, accessCritMode, accessCrit, cpCwComb,
             ecm, cwEncrypt, errorStatus, ecmId
<1> QED
  BY <1>2, <1>3, <1>4, <1>5, Zenon

LEMMA LongEnoughIs ==
  ASSUME NEW p, p.type \in Known
  PROVE  ecmg_validate_param(p) <=> Len(p.value) >= ecmg_size(p.type)
<1>1. /\ p.type # errorStatus =>
           /\ p.type \in 1 .. 25
           /\ pi_ecmg_params_minlength[p.type + 1] = ecmg_size(p.type)
      /\ p.type = errorStatus => ecmg_size(p.type) = 2
  BY LengthsAre, Zenon
<1>2. CASE p.type = errorStatus
  <2>1. ~ (p.type <= ecmId)
    BY SMT, <1>2 DEF ecmId, errorStatus
  <2> QED  BY <1>1, <1>2, <2>1, Zenon DEF ecmg_validate_param
<1>3. CASE p.type # errorStatus
  <2>1. p.type <= ecmId
    BY SMT, <1>1, <1>3 DEF ecmId
  <2> QED  BY <1>1, <1>3, <2>1, Zenon DEF ecmg_validate_param
<1> QED  BY <1>2, <1>3

(* A parameter that is read as it was given, and is as long as it must be. *)
ReadAsGiven(p) ==
  p.number = IF p.type = cpCwComb THEN Decoded(p.value, 2)
                                  ELSE Decoded(p.value, ecmg_size(p.type))
Sound(p) ==
  /\ p \in Parameters /\ p.type \in Known
  /\ ReadAsGiven(p) /\ ecmg_validate_param(p)
  /\ Len(p.value) <= 19

Holds(v, size) ==
  \/ size = 1 /\ v \in 0 .. 255
  \/ size = 2 /\ v \in TwoBytes
  \/ size = 4 /\ v \in FourBytes

LEMMA NumberIsSound ==
  ASSUME NEW t \in Known, t # cpCwComb, NEW v \in Nat, Holds(v, ecmg_size(t))
  PROVE  Sound(Number(t, v)) /\ Number(t, v).type = t
<1>1. PICK p : p = Number(t, v)
  OBVIOUS
<1>2. PICK size : size = ecmg_size(t)
  OBVIOUS
<1>3. p = [type |-> t, number |-> v, value |-> Encoded(v, size)]
  BY <1>1, <1>2 DEF Number, Param
<1>4. size \in {1, 2, 4} /\ size \in 0 .. 4
  BY <1>2 DEF Holds
<1>5. Encoded(v, size) \in Seq(Nat) /\ Len(Encoded(v, size)) = size
  BY <1>4, EncodedIs, Zenon
<1>6. t \in Nat
  BY SMT DEF Known, ecmId, errorStatus
<1>7. p \in Parameters /\ p.type = t /\ p.number = v /\ p.value = Encoded(v, size)
  BY <1>3, <1>5, <1>6 DEF Parameters
<1>8. Decoded(Encoded(v, size), size) = v
  <2>1. CASE size = 1 /\ v \in 0 .. 255
    BY <2>1, DecodedOne, Zenon
  <2>2. CASE size = 2 /\ v \in TwoBytes
    BY <2>2, DecodedTwo, Zenon
  <2>3. CASE size = 4 /\ v \in FourBytes
    BY <2>3, DecodedFour, Zenon
  <2> QED  BY <1>2, <2>1, <2>2, <2>3, Zenon DEF Holds
<1>9. ReadAsGiven(p)
  BY <1>2, <1>7, <1>8, Zenon DEF ReadAsGiven
<1>10. Len(p.value) = size
  BY <1>5, <1>7, Zenon
<1>11. Len(p.value) <= 19 /\ Len(p.value) >= size
  BY ONLY <1>4, <1>10
<1>12. ecmg_validate_param(p)
  BY <1>2, <1>7, <1>11, LongEnoughIs, Zenon
<1> QED
  BY <1>1, <1>7, <1>9, <1>11, <1>12, Zenon DEF Sound

-----------------------------------------------------------------------------
(* What the rules of a message ask for: the types N at least once, and each *)
(* type, all of them in K, at most once or as often as one likes.          *)
Asks(K, R, N) ==
  /\ \A r \in R : /\ r[1] \in K /\ r[2] \in {0, 1} /\ r[3] \in {1, Many}
                  /\ r[2] = 1 => r[1] \in N
  /\ \A t \in N : \E r \in R : r[1] = t /\ r[2] = 1

LEMMA OnceAsks == ASSUME NEW K, NEW T, T \subseteq K PROVE Asks(K, Once(T), T)
<1>1. \A t \in T : <<t, 1, 1>> \in Once(T)
  BY DEF Once
<1>2. \A r \in Once(T) : r[1] \in T /\ r[2] = 1 /\ r[3] = 1
  BY DEF Once
<1>3. \A t : <<t, 1, 1>>[1] = t /\ <<t, 1, 1>>[2] = 1
  OBVIOUS
<1> QED  BY <1>1, <1>2, <1>3, Zenon DEF Asks

LEMMA AtMostOnceAsks == ASSUME NEW K, NEW T, T \subseteq K PROVE Asks(K, AtMostOnce(T), {})
<1>1. \A r \in AtMostOnce(T) : r[1] \in T /\ r[2] = 0 /\ r[3] = 1 /\ r[2] # 1
  BY DEF AtMostOnce
<1> QED  BY <1>1, Zenon DEF Asks

LEMMA EverAsks == ASSUME NEW K, NEW t \in K PROVE Asks(K, Ever(t), {t})
<1>1. <<t, 1, Many>> \in Ever(t)
  BY DEF Ever
<1>2. \A r \in Ever(t) : r[1] = t /\ r[2] = 1 /\ r[3] = Many
  BY DEF Ever
<1>3. <<t, 1, Many>>[1] = t /\ <<t, 1, Many>>[2] = 1
  OBVIOUS
<1> QED  BY <1>1, <1>2, <1>3, Zenon DEF Asks

LEMMA BothAsk ==
  ASSUME NEW K, NEW R, NEW N, Asks(K, R, N), NEW S, NEW O, Asks(K, S, O)
  PROVE  Asks(K, R \cup S, N \cup O)
BY Zenon DEF Asks

LEMMA AllAreKnown ==
  /\ {superCasId, sectionTsPkt, delayStart, delayStop, transDelayStart, transDelayStop, repPeriod,
      maxStreams, minCpDur, leadCw, cwPerMsg, maxCompTime, accessCrit, channelId, streamId,
      nomCpDur, accessCritMode, cpNumber, cpDur, cpCwComb, ecm, acDelayStart, acDelayStop,
      cwEncrypt, ecmId, errorStatus} \subseteq Known
  /\ {clientId, dataChannelId, dataStreamId, datagram, bandwidth, dataType, dataId} \subseteq Known
BY SMT DEF Known, superCasId, sectionTsPkt, delayStart, delayStop, transDelayStart, transDelayStop,
     repPeriod, maxStreams, minCpDur, leadCw, cwPerMsg, maxCompTime, accessCrit, channelId,
     streamId, nomCpDur, accessCritMode, cpNumber, cpDur, cpCwComb, ecm, acDelayStart,
     acDelayStop, cwEncrypt, ecmId, clientId, dataChannelId, dataStreamId, datagram,
     bandwidth, dataType, dataId

(* Of a message of the ECMG. *)
Status == {channelId, sectionTsPkt, delayStart, delayStop, repPeriod, maxStreams, minCpDur,
           leadCw, cwPerMsg, maxCompTime}
EcmgAsked(type) ==
  CASE type = "channel_setup" -> {channelId, superCasId}
    [] type \in {"channel_test", "channel_close"} -> {channelId}
    [] type = "channel_status" -> Status
    [] type = "channel_error" -> {channelId, errorStatus}
    [] type = "stream_setup" -> {channelId, streamId, nomCpDur}
    [] type \in {"stream_test", "stream_closereq", "stream_closeresp"} -> {channelId, streamId}
    [] type = "stream_status" -> {channelId, streamId, accessCritMode}
    [] type = "stream_error" -> {channelId, streamId, errorStatus}
    [] type = "cw" -> {channelId, streamId, cpNumber, cpCwComb}
    [] type = "ecm" -> {channelId, streamId, cpNumber, ecm}

LEMMA EcmgAsks ==
  ASSUME NEW type \in EcmgTypes
  PROVE  Asks(Known, ecmg_params(type), EcmgAsked(type))
<1> DEFINE R == ecmg_params(type)
           N == EcmgAsked(type)
<1>1. CASE type = "channel_setup"
  <2>1. R = Once({channelId, superCasId}) /\ N = {channelId, superCasId}
    BY <1>1 DEF ecmg_params, EcmgAsked
  <2>2. {channelId, superCasId} \subseteq Known
    BY AllAreKnown, Zenon
  <2> QED  BY <2>1, <2>2, OnceAsks, Zenon
<1>2. CASE type \in {"channel_test", "channel_close"}
  <2>1. R = Once({channelId}) /\ N = {channelId}
    BY <1>2 DEF ecmg_params, EcmgAsked
  <2>2. {channelId} \subseteq Known
    BY AllAreKnown, Zenon
  <2> QED  BY <2>1, <2>2, OnceAsks, Zenon

<1>3. CASE type = "channel_status"
  <2> DEFINE T == {acDelayStart, acDelayStop, transDelayStart, transDelayStop}
  <2>1. R = Once(Status) \cup AtMostOnce(T) /\ N = Status
    BY <1>3 DEF ecmg_params, EcmgAsked, Status
  <2>2. Status \subseteq Known /\ T \subseteq Known
    BY AllAreKnown, Zenon DEF Status
  <2>3. Asks(Known, Once(Status), Status) /\ Asks(Known, AtMostOnce(T), {})
        /\ Status \cup {} = Status
    BY <2>2, OnceAsks, AtMostOnceAsks, Zenon
  <2>4. Asks(Known, Once(Status) \cup AtMostOnce(T), Status \cup {})
    BY <2>3, BothAsk, Zenon
  <2> QED  BY <2>1, <2>3, <2>4, Zenon
<1>4. CASE type = "channel_error"
  <2>1. R = Once({channelId}) \cup Ever(errorStatus) /\ N = {channelId} \cup {errorStatus}
    BY <1>4 DEF ecmg_params, EcmgAsked
  <2>2. {channelId} \subseteq Known /\ errorStatus \in Known
    BY AllAreKnown, Zenon
  <2>3. Asks(Known, Once({channelId}), {channelId}) /\ Asks(Known, Ever(errorStatus), {errorStatus})
    BY <2>2, OnceAsks, EverAsks, Zenon
  <2>4. Asks(Known, Once({channelId}) \cup Ever(errorStatus), {channelId} \cup {errorStatus})
    BY <2>3, BothAsk, Zenon
  <2> QED  BY <2>1, <2>3, <2>4, Zenon
<1>5. CASE type = "stream_setup"
  <2> DEFINE T == {channelId, streamId, nomCpDur}
  <2>1. R = Once(T) \cup AtMostOnce({ecmId}) /\ N = T
    BY <1>5 DEF ecmg_params, EcmgAsked
  <2>2. T \subseteq Known /\ {ecmId} \subseteq Known
    BY AllAreKnown, Zenon
  <2>3. Asks(Known, Once(T), T) /\ Asks(Known, AtMostOnce({ecmId}), {}) /\ T \cup {} = T
    BY <2>2, OnceAsks, AtMostOnceAsks, Zenon
  <2>4. Asks(Known, Once(T) \cup AtMostOnce({ecmId}), T \cup {})
    BY <2>3, BothAsk, Zenon
  <2> QED  BY <2>1, <2>3, <2>4, Zenon
<1>6. CASE type \in {"stream_test", "stream_closereq", "stream_closeresp"}
  <2>1. R = Once({channelId, streamId}) /\ N = {channelId, streamId}
    BY <1>6 DEF ecmg_params, EcmgAsked
  <2>2. {channelId, streamId} \subseteq Known
    BY AllAreKnown, Zenon
  <2> QED  BY <2>1, <2>2, OnceAsks, Zenon
<1>7. CASE type = "stream_status"
  <2> DEFINE T == {channelId, streamId, accessCritMode}
  <2>1. R = Once(T) \cup AtMostOnce({ecmId}) /\ N = T
    BY <1>7 DEF ecmg_params, EcmgAsked
  <2>2. T \subseteq Known /\ {ecmId} \subseteq Known
    BY AllAreKnown, Zenon
  <2>3. Asks(Known, Once(T), T) /\ Asks(Known, AtMostOnce({ecmId}), {}) /\ T \cup {} = T
    BY <2>2, OnceAsks, AtMostOnceAsks, Zenon
  <2>4. Asks(Known, Once(T) \cup AtMostOnce({ecmId}), T \cup {})
    BY <2>3, BothAsk, Zenon
  <2> QED  BY <2>1, <2>3, <2>4, Zenon
<1>8. CASE type = "stream_error"
  <2> DEFINE T == {channelId, streamId}
  <2>1. R = Once(T) \cup Ever(errorStatus) /\ N = T \cup {errorStatus}
    BY <1>8 DEF ecmg_params, EcmgAsked
  <2>2. T \subseteq Known /\ errorStatus \in Known
    BY AllAreKnown, Zenon
  <2>3. Asks(Known, Once(T), T) /\ Asks(Known, Ever(errorStatus), {errorStatus})
    BY <2>2, OnceAsks, EverAsks, Zenon
  <2>4. Asks(Known, Once(T) \cup Ever(errorStatus), T \cup {errorStatus})
    BY <2>3, BothAsk, Zenon
  <2> QED  BY <2>1, <2>3, <2>4, Zenon
<1>9. CASE type = "cw"
  <2> DEFINE T == {channelId, streamId, cpNumber}
             U == {cwEncrypt, cpDur, accessCrit}
  <2>1. R = (Once(T) \cup Ever(cpCwComb)) \cup AtMostOnce(U) /\ N = (T \cup {cpCwComb}) \cup {}
    BY <1>9 DEF ecmg_params, EcmgAsked
  <2>2. T \subseteq Known /\ U \subseteq Known /\ cpCwComb \in Known
    BY AllAreKnown, Zenon
  <2>3. Asks(Known, Once(T), T) /\ Asks(Known, Ever(cpCwComb), {cpCwComb})
        /\ Asks(Known, AtMostOnce(U), {})
    BY <2>2, OnceAsks, EverAsks, AtMostOnceAsks, Zenon
  <2>4. Asks(Known, Once(T) \cup Ever(cpCwComb), T \cup {cpCwComb})
    BY <2>3, BothAsk, Zenon
  <2>5. Asks(Known, (Once(T) \cup Ever(cpCwComb)) \cup AtMostOnce(U), (T \cup {cpCwComb}) \cup {})
    BY <2>3, <2>4, BothAsk, Zenon
  <2> QED  BY <2>1, <2>5, Zenon
<1>10. CASE type = "ecm"
  <2> DEFINE T == {channelId, streamId, cpNumber, ecm}
  <2>1. R = Once(T) /\ N = T
    BY <1>10 DEF ecmg_params, EcmgAsked
  <2>2. T \subseteq Known
    BY AllAreKnown, Zenon
  <2> QED  BY <2>1, <2>2, OnceAsks, Zenon
<1> QED
  BY <1>1, <1>2, <1>3, <1>4, <1>5, <1>6, <1>7, <1>8, <1>9, <1>10 DEF EcmgTypes

(* Of a message of the EMMG. *)
EmmgKnown == (1 .. dataId) \cup {errorStatus}

LEMMA EmmgAsks ==
  ASSUME NEW type \in EmmgTypes
  PROVE  \E N : Asks(EmmgKnown, emmg_params(type), N)
<1> DEFINE K == EmmgKnown
           R == emmg_params(type)
           Client == {clientId, dataChannelId}
           Stream == Once(Client) \cup Once({dataStreamId})
           InStream == Client \cup {dataStreamId}
<1>1. /\ {clientId, dataChannelId, dataStreamId, datagram, bandwidth, dataType, dataId,
          sectionTsPkt} \subseteq K
      /\ errorStatus \in K
  BY SMT DEF EmmgKnown, sectionTsPkt, clientId, dataChannelId, dataStreamId, datagram,
             bandwidth, dataType, dataId
<1>2. Asks(K, Once(Client), Client) /\ Asks(K, Ever(errorStatus), {errorStatus})
  <2>1. Client \subseteq K
    BY <1>1, Zenon
  <2> QED  BY <1>1, <2>1, OnceAsks, EverAsks, Zenon
<1>3. Asks(K, Stream, InStream)
  <2>1. {dataStreamId} \subseteq K
    BY <1>1, Zenon
  <2>2. Asks(K, Once({dataStreamId}), {dataStreamId})
    BY <2>1, OnceAsks, Zenon
  <2> QED  BY <1>2, <2>2, BothAsk, Zenon
<1>4. CASE type \in {"channel_setup", "channel_status"}
  <2>1. R = Once(Client) \cup Once({sectionTsPkt})
    BY <1>4 DEF emmg_params
  <2>2. {sectionTsPkt} \subseteq K
    BY <1>1, Zenon
  <2>3. Asks(K, Once({sectionTsPkt}), {sectionTsPkt})
    BY <2>2, OnceAsks, Zenon
  <2>4. Asks(K, Once(Client) \cup Once({sectionTsPkt}), Client \cup {sectionTsPkt})
    BY <1>2, <2>3, BothAsk, Zenon
  <2> QED  BY <2>1, <2>4, Zenon
<1>5. CASE type \in {"channel_test", "channel_close"}
  <2>1. R = Once(Client)
    BY <1>5 DEF emmg_params
  <2> QED  BY <1>2, <2>1, Zenon
<1>6. CASE type = "channel_error"
  <2>1. R = Once(Client) \cup Ever(errorStatus)
    BY <1>6 DEF emmg_params
  <2>2. Asks(K, Once(Client) \cup Ever(errorStatus), Client \cup {errorStatus})
    BY <1>2, BothAsk, Zenon
  <2> QED  BY <2>1, <2>2, Zenon
<1>7. CASE type \in {"stream_setup", "stream_status"}
  <2> DEFINE T == {dataId, dataType}
  <2>1. R = Stream \cup Once(T)
    BY <1>7 DEF emmg_params
  <2>2. T \subseteq K
    BY <1>1, Zenon
  <2>3. Asks(K, Once(T), T)
    BY <2>2, OnceAsks, Zenon
  <2>4. Asks(K, Stream \cup Once(T), InStream \cup T)
    BY <1>3, <2>3, BothAsk, Zenon
  <2> QED  BY <2>1, <2>4, Zenon
<1>8. CASE type \in {"stream_test", "stream_closereq", "stream_closeresp"}
  <2>1. R = Stream
    BY <1>8 DEF emmg_params
  <2> QED  BY <1>3, <2>1, Zenon
<1>9. CASE type = "stream_error"
  <2>1. R = Stream \cup Ever(errorStatus)
    BY <1>9 DEF emmg_params
  <2>2. Asks(K, Stream \cup Ever(errorStatus), InStream \cup {errorStatus})
    BY <1>2, <1>3, BothAsk, Zenon
  <2> QED  BY <2>1, <2>2, Zenon
<1>10. CASE type \in {"bw_req", "bw_alloc"}
  <2>1. R = Stream \cup AtMostOnce({bandwidth})
    BY <1>10 DEF emmg_params
  <2>2. {bandwidth} \subseteq K
    BY <1>1, Zenon
  <2>3. Asks(K, AtMostOnce({bandwidth}), {})
    BY <2>2, AtMostOnceAsks, Zenon
  <2>4. Asks(K, Stream \cup AtMostOnce({bandwidth}), InStream \cup {})
    BY <1>3, <2>3, BothAsk, Zenon
  <2> QED  BY <2>1, <2>4, Zenon
<1>11. CASE type = "data_provision"
  <2> DEFINE T == {clientId, dataId}
             U == {dataChannelId, dataStreamId}
  <2>1. R = (Once(T) \cup AtMostOnce(U)) \cup Ever(datagram)
    BY <1>11 DEF emmg_params
  <2>2. T \subseteq K /\ U \subseteq K /\ datagram \in K
    BY <1>1, Zenon
  <2>3. Asks(K, Once(T), T) /\ Asks(K, AtMostOnce(U), {}) /\ Asks(K, Ever(datagram), {datagram})
    BY <2>2, OnceAsks, AtMostOnceAsks, EverAsks, Zenon
  <2>4. Asks(K, Once(T) \cup AtMostOnce(U), T \cup {})
    BY <2>3, BothAsk, Zenon
  <2>5. Asks(K, (Once(T) \cup AtMostOnce(U)) \cup Ever(datagram), (T \cup {}) \cup {datagram})
    BY <2>3, <2>4, BothAsk, Zenon
  <2> QED  BY <2>1, <2>5, Zenon
<1> QED
  BY <1>4, <1>5, <1>6, <1>7, <1>8, <1>9, <1>10, <1>11 DEF EmmgTypes, EcmgTypes

(* What must be in a message.                                              *)
LEMMA NeededIs ==
  ASSUME NEW m, NEW K, NEW N, Asks(K, RulesOf(m), N)
  PROVE  Needed(m) = N
<1>1. \A r \in RulesOf(m) : r[2] > 0 <=> r[2] = 1
  <2>1. \A r \in RulesOf(m) : r[2] \in {0, 1}
    BY Zenon DEF Asks
  <2>2. \A x \in {0, 1} : x > 0 <=> x = 1
    OBVIOUS
  <2> QED  BY <2>1, <2>2, Zenon
<1>2. \A r \in RulesOf(m) : r[2] = 1 => r[1] \in N
  BY Zenon DEF Asks
<1>3. \A t \in N : \E r \in RulesOf(m) : r[1] = t /\ r[2] = 1
  BY Zenon DEF Asks
<1>4. \A t : t \in Needed(m) <=> \E r \in RulesOf(m) : r[2] > 0 /\ t = r[1]
  BY Zenon DEF Needed
<1> QED  BY <1>1, <1>2, <1>3, <1>4, Zenon

(* The messages there are, of either protocol. *)
Kind(m) ==
  \/ m.intf = "ecmg" /\ m.type \in EcmgTypes
  \/ m.intf = "emmg" /\ m.type \in EmmgTypes
TypesOf(m) == IF m.intf = "ecmg" THEN Known ELSE EmmgKnown

LEMMA RulesAsk ==
  ASSUME NEW m, Kind(m)
  PROVE  /\ Asks(TypesOf(m), RulesOf(m), Needed(m))
         /\ m.intf = "ecmg" => Needed(m) = EcmgAsked(m.type)
<1>1. CASE m.intf = "ecmg" /\ m.type \in EcmgTypes
  <2>1. RulesOf(m) = ecmg_params(m.type) /\ TypesOf(m) = Known
    BY <1>1 DEF RulesOf, TypesOf
  <2>2. Asks(Known, RulesOf(m), EcmgAsked(m.type))
    BY <1>1, <2>1, EcmgAsks, Zenon
  <2>3. Needed(m) = EcmgAsked(m.type)
    BY <2>2, NeededIs, Zenon
  <2> QED  BY <2>1, <2>2, <2>3, Zenon
<1>2. CASE m.intf = "emmg" /\ m.type \in EmmgTypes
  <2>1. m.intf # "ecmg"
    BY <1>2
  <2>2. RulesOf(m) = emmg_params(m.type) /\ TypesOf(m) = EmmgKnown
    BY <2>1 DEF RulesOf, TypesOf
  <2>3. PICK N : Asks(EmmgKnown, RulesOf(m), N)
    BY <1>2, <2>2, EmmgAsks, Zenon
  <2>4. Needed(m) = N
    BY <2>3, NeededIs, Zenon
  <2> QED  BY <2>1, <2>2, <2>3, <2>4, Zenon
<1> QED  BY <1>1, <1>2 DEF Kind

LEMMA NeededIsFinite ==
  ASSUME NEW m, Kind(m)
  PROVE  /\ Needed(m) \subseteq TypesOf(m)
         /\ Cardinality(Needed(m)) \in Nat
<1>1. Asks(TypesOf(m), RulesOf(m), Needed(m))
  BY RulesAsk, Zenon
<1>2. \A t \in Needed(m) : \E r \in RulesOf(m) : r[1] = t /\ r[1] \in TypesOf(m)
  BY <1>1, Zenon DEF Asks
<1>3. Needed(m) \subseteq TypesOf(m)
  BY <1>2, Zenon
<1>4. PICK k \in Nat : k = errorStatus
  BY SMT DEF errorStatus
<1>5. TypesOf(m) \subseteq 0 .. k
  <2>1. ecmId <= k /\ dataId <= k /\ ecmId \in Nat /\ dataId \in Nat
    BY SMT, <1>4 DEF errorStatus, ecmId, dataId
  <2> QED  BY SMT, <1>4, <2>1 DEF TypesOf, Known, EmmgKnown
<1>6. Needed(m) \subseteq Nat /\ \A t \in Needed(m) : t <= k
  BY <1>3, <1>5, SMT
<1>7. IsFiniteSet(Needed(m))
  BY <1>6, FS_BoundedSetOfNaturals, Zenon
<1>8. Cardinality(Needed(m)) \in Nat
  BY <1>7, FS_CardinalityType, Zenon
<1> QED  BY <1>3, <1>8

(* A parameter of another's message that is long enough.                   *)
LEMMA EmmgLongEnough ==
  ASSUME NEW p, p.type \in EmmgKnown, p.value \in Seq(Nat), emmg_validate_param(p)
  PROVE  Len(p.value) >= emmg_size(p.type)
<1> USE DEF clientId, sectionTsPkt, dataType, datagram, dataId, errorStatus
<1>1. PICK t, l \in Nat : t = p.type /\ l = Len(p.value)
  BY SMT DEF EmmgKnown
<1>2. t = errorStatus \/ t \in 1 .. 8
  BY SMT, <1>1 DEF EmmgKnown
<1>3. /\ t \in 1 .. 8 /\ t # datagram => l = pi_emmg_params_length[t + 1]
      /\ t = errorStatus => l >= 2
  <2>1. t \in 1 .. 8 => t <= dataId /\ t # errorStatus
    BY SMT
  <2>2. t = errorStatus => ~ (t <= dataId)
    BY SMT
  <2>3. emmg_validate_param(p) /\ p.type = t /\ Len(p.value) = l
    BY <1>1
  <2> HIDE DEF clientId, sectionTsPkt, dataType, datagram, dataId, errorStatus
  <2> QED  BY <2>1, <2>2, <2>3, Zenon DEF emmg_validate_param
<1>4. CASE t = clientId
  <2>1. t \notin {sectionTsPkt, dataType} /\ t # datagram
    BY SMT, <1>4
  <2>2. emmg_size(t) = 4
    <3> HIDE DEF clientId, sectionTsPkt, dataType, datagram
    <3> QED  BY <1>4, <2>1, Zenon DEF emmg_size
  <2>3. l >= 4
    BY SMT, <1>3, <1>4 DEF pi_emmg_params_length
  <2> QED  BY <1>1, <2>2, <2>3, Zenon
<1>5. CASE t \in {sectionTsPkt, dataType}
  <2>1. t # clientId /\ t # datagram
    BY SMT, <1>5
  <2>2. emmg_size(t) = 1
    <3> HIDE DEF clientId, sectionTsPkt, dataType, datagram
    <3> QED  BY <1>5, <2>1, Zenon DEF emmg_size
  <2>3. l >= 1
    BY SMT, <1>3, <1>5 DEF pi_emmg_params_length
  <2> QED  BY <1>1, <2>2, <2>3, Zenon
<1>6. CASE t = datagram
  <2>1. t # clientId /\ t \notin {sectionTsPkt, dataType}
    BY SMT, <1>6
  <2>2. emmg_size(t) = 0
    <3> HIDE DEF clientId, sectionTsPkt, dataType, datagram
    <3> QED  BY <1>6, <2>1, Zenon DEF emmg_size
  <2>3. l >= 0
    BY SMT
  <2> QED  BY <1>1, <2>2, <2>3, Zenon
<1>7. CASE t # clientId /\ t \notin {sectionTsPkt, dataType} /\ t # datagram
  <2>2. emmg_size(t) = 2
    <3> HIDE DEF clientId, sectionTsPkt, dataType, datagram
    <3> QED  BY <1>7, Zenon DEF emmg_size
  <2>3. l >= 2
    BY SMT, <1>2, <1>3, <1>7 DEF pi_emmg_params_length
  <2> QED  BY <1>1, <2>2, <2>3, Zenon
<1> HIDE DEF clientId, sectionTsPkt, dataType, datagram, dataId, errorStatus
<1> QED  BY <1>4, <1>5, <1>6, <1>7, Zenon

LEMMA LongAsIsRead ==
  ASSUME NEW m, Kind(m), NEW p, p.type \in TypesOf(m), p.value \in Seq(Nat), LongEnough(m, p)
  PROVE  Len(p.value) >= SizeOf(m, p.type)
<1>1. CASE m.intf = "ecmg"
  <2>1. p.type \in Known /\ ecmg_validate_param(p) /\ SizeOf(m, p.type) = ecmg_size(p.type)
    BY <1>1, Zenon DEF TypesOf, LongEnough, SizeOf
  <2> QED  BY <2>1, LongEnoughIs, Zenon
<1>2. CASE m.intf # "ecmg"
  <2>1. p.type \in EmmgKnown /\ emmg_validate_param(p) /\ SizeOf(m, p.type) = emmg_size(p.type)
    BY <1>2, Zenon DEF TypesOf, LongEnough, SizeOf
  <2> QED  BY <2>1, EmmgLongEnough, Zenon
<1> QED  BY <1>1, <1>2

(* What the handlers look up.                                              *)
LEMMA HandledIsThere ==
  ASSUME NEW m, Kind(m), NEW ps, NEW t \in handled(m, ps)
  PROVE  t \in TypesOf(m) /\ (t \in Needed(m) \/ tlv_count_param(ps, t) = 1)
<1>1. m.intf = "ecmg" /\ m.type \in EcmgTypes
  BY DEF handled, Kind
<1>2. Needed(m) = EcmgAsked(m.type) /\ Needed(m) \subseteq Known /\ TypesOf(m) = Known
  BY <1>1, RulesAsk, NeededIsFinite, Zenon DEF TypesOf
<1>3. CASE m.type = "stream_setup" /\ t = ecmId
  <2>1. EcmgAsked(m.type) = {channelId, streamId, nomCpDur}
    BY <1>3 DEF EcmgAsked
  <2>2. handled(m, ps) \subseteq EcmgAsked(m.type)
          \cup (IF m.version >= 2 /\ tlv_count_param(ps, ecmId) = 1 THEN {ecmId} ELSE {})
    BY <1>1, <1>3, <2>1 DEF handled
  <2>3. t \in Needed(m) \/ tlv_count_param(ps, t) = 1
    BY <1>2, <1>3, <2>2, Zenon
  <2>4. ecmId \in Known
    BY AllAreKnown, Zenon
  <2> QED  BY <1>2, <1>3, <2>3, <2>4, Zenon
<1>4. CASE ~ (m.type = "stream_setup" /\ t = ecmId)
  <2>1. t \in EcmgAsked(m.type)
    BY <1>1, <1>4 DEF handled, EcmgAsked, EcmgTypes, Status
  <2> QED  BY <1>2, <2>1, Zenon
<1> QED  BY <1>3, <1>4

(* A message that was let through has what is looked up, and enough of it. *)
LEMMA LookedUp ==
  ASSUME NEW m, Kind(m), NEW ps, NEW S, ps \in Seq(S), \A p \in S : p.value \in Seq(Nat),
         Valid(m, ps), NEW t \in handled(m, ps) \cup Needed(m)
  PROVE  /\ tlv_count_param(ps, t) > 0
         /\ Len(tlv_find_param(ps, t).value) >= SizeOf(m, t)
<1> DEFINE At == {i \in DOMAIN ps : ps[i].type = t}
<1>1. DOMAIN ps = 1 .. Len(ps) /\ Len(ps) \in Nat /\ \A i \in DOMAIN ps : ps[i] \in S
  OBVIOUS
<1>2. tlv_count_param(ps, t) = Cardinality(At)
  BY Zenon DEF tlv_count_param
<1>3. t \in TypesOf(m)
  BY HandledIsThere, NeededIsFinite, Zenon
<1>4. tlv_count_param(ps, t) > 0
  <2>1. CASE t \in Needed(m)
    <3>1. PICK r \in RulesOf(m) : r[1] = t /\ r[2] = 1 /\ r[3] \in {1, Many}
      BY <2>1, RulesAsk, Zenon DEF Asks
    <3>2. tlv_count_param(ps, t) \in 1 .. r[3]
      BY <3>1, Zenon DEF Valid, tlv_validate_count_param
    <3> QED  BY SMT, <3>2
  <2>2. CASE tlv_count_param(ps, t) = 1
    BY SMT, <2>2
  <2> QED  BY <2>1, <2>2, HandledIsThere, Zenon
<1>5. At # {}
  <2>1. Cardinality({}) = 0 /\ ~ (0 > 0)
    BY FS_EmptySet
  <2> QED  BY <1>2, <1>4, <2>1, Zenon
<1>6. PICK k \in At : SelectInSeq(ps, LAMBDA p : p.type = t) = k
  <2> DEFINE I == {i \in 1 .. Len(ps) : ps[i].type = t}
  <2>1. I = At
    BY <1>1, Zenon
  <2>2. PICK k \in I : \A j \in I : k <= j
    <3>1. I \in SUBSET Nat /\ I # {}
      BY <1>5, <2>1
    <3> QED  BY <3>1, HasLeast
  <2>3. \A j \in I : (\A i \in I : j <= i) => j = k
    BY <2>2
  <2>4. SelectInSeq(ps, LAMBDA p : p.type = t) = IF I # {} THEN Min(I) ELSE 0
    BY Zenon DEF SelectInSeq
  <2>5. Min(I) = k
    BY <2>2, <2>3, Zenon DEF Min
  <2> QED  BY <1>5, <2>1, <2>2, <2>4, <2>5, Zenon
<1>7. PICK p \in S : p = ps[k] /\ p.type = t /\ p = tlv_find_param(ps, t)
  BY <1>1, <1>6, Zenon DEF tlv_find_param
<1>8. LongEnough(m, p) /\ p.value \in Seq(Nat) /\ p.type \in TypesOf(m)
  BY <1>3, <1>6, <1>7, Zenon DEF Valid
<1>9. Len(p.value) >= SizeOf(m, t)
  BY <1>7, <1>8, LongAsIsRead, Zenon
<1> QED  BY <1>4, <1>7, <1>9, Zenon

-----------------------------------------------------------------------------
(* Messages of others: sequences of parameters of whatever types.          *)
Typed(T) == [type : T, number : Nat, value : Seq(Nat)]
Parametered(ps) == \E T : ps \in Seq(Typed(T))

LEMMA ZerosIs ==
  ASSUME NEW size \in Nat
  PROVE  Zeros(size) \in Seq(Nat) /\ Len(Zeros(size)) = size
<1>1. Zeros(size) \in [1 .. size -> Nat]
  BY DEF Zeros
<1> QED  BY <1>1

LEMMA ForeignIsParametered ==
  ASSUME NEW m, Kind(m), Foreign(m)
  PROVE  Parametered(params)
<1> DEFINE nth(i) == CHOOSE t \in Needed(m) : Cardinality({u \in Needed(m) : u < t}) = i - 1
<1>1. PICK n \in Nat : n = Cardinality(Needed(m))
  BY NeededIsFinite, Zenon
<1> DEFINE T == {nth(i) : i \in 1 .. n}
           f(i) == Param(nth(i), 0, Zeros(SizeOf(m, nth(i))))
<1>2. params = [i \in 1 .. n |-> f(i)]
  BY <1>1, Zenon DEF Foreign
<1>3. \A t : SizeOf(m, t) \in Nat
  <2>1. \A t : ecmg_size(t) \in {0, 1, 2, 4}
    BY Zenon DEF ecmg_size
  <2>2. \A t : emmg_size(t) \in {0, 1, 2, 4}
    BY DEF emmg_size
  <2> QED  BY <2>1, <2>2 DEF SizeOf
<1>4. ASSUME NEW i \in 1 .. n PROVE f(i) \in Typed(T)
  <2>1. nth(i) \in T
    BY Zenon
  <2>2. Zeros(SizeOf(m, nth(i))) \in Seq(Nat)
    BY <1>3, ZerosIs, Zenon
  <2> HIDE DEF T, nth
  <2> QED  BY <2>1, <2>2 DEF Typed, Param
<1>5. params \in Seq(Typed(T))
  <2> HIDE DEF T, f
  <2>1. params \in [1 .. n -> Typed(T)]
    BY <1>2, <1>4
  <2> QED  BY ONLY <1>1, n \in Nat, <2>1
<1> QED  BY <1>5, Zenon DEF Parametered

LEMMA WorseIsParametered ==
  ASSUME Parametered(params), NEW i \in DOMAIN params, NEW ps \in Worse(i)
  PROVE  Parametered(ps)
<1>1. PICK T : params \in Seq(Typed(T))
  BY Zenon DEF Parametered
<1>2. PICK qs \in Seq(Typed(T)) : qs = params
  BY <1>1, Zenon
<1>3. i \in 1 .. Len(qs) /\ Len(qs) \in Nat /\ qs[i] \in Typed(T)
  BY <1>2
<1>4. CASE ps = RemoveAt(qs, i)
  <2>1. SubSeq(qs, 1, i - 1) \in Seq(Typed(T)) /\ SubSeq(qs, i + 1, Len(qs)) \in Seq(Typed(T))
    BY <1>3
  <2>2. ps \in Seq(Typed(T))
    BY <1>4, <2>1 DEF RemoveAt
  <2> QED  BY <2>2, Zenon DEF Parametered
<1>5. CASE ps = Append(qs, qs[i])
  <2>1. ps \in Seq(Typed(T))
    BY <1>3, <1>5
  <2> QED  BY <2>1, Zenon DEF Parametered
<1>6. ASSUME NEW size \in Nat, ps = [qs EXCEPT ![i].value = Zeros(size)]
      PROVE  Parametered(ps)
  <2>1. PICK z \in Seq(Nat) : z = Zeros(size)
    BY ZerosIs, Zenon
  <2>2. PICK p : p = [qs[i] EXCEPT !.value = z]
    OBVIOUS
  <2>3. p \in Typed(T)
    BY ONLY <1>3, <2>1, <2>2 DEF Typed
  <2>4. ps = [qs EXCEPT ![i] = p]
    BY <1>6, <2>1, <2>2
  <2>5. ps \in Seq(Typed(T))
    BY ONLY qs \in Seq(Typed(T)), <1>3, <2>3, <2>4
  <2> QED  BY <2>5, Zenon DEF Parametered
<1> QED
  BY <1>2, <1>4, <1>5, <1>6 DEF Worse

-----------------------------------------------------------------------------
(* The programs' own messages.                                             *)
TypesIn(ps) == {ps[i].type : i \in DOMAIN ps}
Distinct(ps) == \A i, j \in DOMAIN ps : ps[i].type = ps[j].type => i = j
Counted(ps, t) == {i \in DOMAIN ps : ps[i].type = t}

LEMMA CountedOnce ==
  ASSUME NEW ps, NEW k \in DOMAIN ps, \A i \in DOMAIN ps : ps[i].type = ps[k].type => i = k
  PROVE  tlv_count_param(ps, ps[k].type) = 1
<1>1. Counted(ps, ps[k].type) = {k}
  BY Zenon DEF Counted
<1>2. Cardinality({k}) = 1
  BY FS_Singleton, Zenon
<1> QED  BY <1>1, <1>2, Zenon DEF tlv_count_param, Counted

LEMMA CountedNever ==
  ASSUME NEW ps, NEW t, t \notin TypesIn(ps)
  PROVE  tlv_count_param(ps, t) = 0
<1>1. Counted(ps, t) = {}
  BY Zenon DEF Counted, TypesIn
<1>2. Cardinality({}) = 0
  BY FS_EmptySet, Zenon
<1> QED  BY <1>1, <1>2, Zenon DEF tlv_count_param, Counted

LEMMA CountedMany ==
  ASSUME NEW ps, NEW n \in Nat, n <= Many, DOMAIN ps = 1 .. n, NEW t \in TypesIn(ps)
  PROVE  tlv_count_param(ps, t) \in 1 .. Many
<1>1. Counted(ps, t) \subseteq Nat /\ \A i \in Counted(ps, t) : i <= n
  BY DEF Counted
<1>2. IsFiniteSet(Counted(ps, t)) /\ Cardinality(Counted(ps, t)) <= n + 1
  BY <1>1, FS_BoundedSetOfNaturals
<1>3. IsFiniteSet(1 .. n) /\ Cardinality(1 .. n) = n
  <2>1. 1 \in Int /\ n \in Int
    OBVIOUS
  <2>2. Cardinality(1 .. n) = (IF 1 > n THEN 0 ELSE n - 1 + 1) /\ IsFiniteSet(1 .. n)
    BY <2>1, FS_Interval, Zenon
  <2> QED  BY <2>2
<1>4. Counted(ps, t) \in SUBSET (1 .. n)
  BY Zenon DEF Counted
<1>5. Cardinality(Counted(ps, t)) <= n
  <2>1. Cardinality(Counted(ps, t)) <= Cardinality(1 .. n)
    BY <1>3, <1>4, FS_Subset, Zenon
  <2> QED  BY <1>3, <2>1
<1>6. Cardinality(Counted(ps, t)) \in Nat
  BY <1>2, FS_CardinalityType, Zenon
<1>7. Cardinality(Counted(ps, t)) # 0
  <2>1. Counted(ps, t) # {}
    BY Zenon DEF Counted, TypesIn
  <2> QED  BY <1>2, <2>1, FS_EmptySet, Zenon
<1>8. PICK c \in Nat : c = Cardinality(Counted(ps, t)) /\ c = tlv_count_param(ps, t)
  BY <1>6, Zenon DEF tlv_count_param, Counted
<1>9. c # 0 /\ c <= n
  BY <1>5, <1>7, <1>8
<1>10. Many \in Nat
  BY SMT DEF Many
<1>11. c \in 1 .. Many
  BY ONLY <1>8, <1>9, <1>10, n \in Nat, n <= Many
<1> QED  BY <1>8, <1>11, Zenon

(* A message with every type it needs, once each, and each long enough.    *)
LEMMA ValidIfDistinct ==
  ASSUME NEW m, Kind(m), NEW ps, Distinct(ps), Needed(m) \subseteq TypesIn(ps),
         \A i \in DOMAIN ps : LongEnough(m, ps[i])
  PROVE  Valid(m, ps)
<1>1. ASSUME NEW t PROVE tlv_count_param(ps, t) = IF t \in TypesIn(ps) THEN 1 ELSE 0
  <2>1. CASE t \in TypesIn(ps)
    <3>1. PICK k \in DOMAIN ps : ps[k].type = t
      BY <2>1, Zenon DEF TypesIn
    <3>2. tlv_count_param(ps, ps[k].type) = 1
      BY CountedOnce, Zenon DEF Distinct
    <3> QED  BY <2>1, <3>1, <3>2, Zenon
  <2>2. CASE t \notin TypesIn(ps)
    BY <2>2, CountedNever, Zenon
  <2> QED  BY <2>1, <2>2
<1>2. ASSUME NEW r \in RulesOf(m) PROVE tlv_validate_count_param(ps, r)
  <2>1. /\ r[2] \in {0, 1} /\ r[3] \in {1, Many} /\ (r[2] = 1 => r[1] \in Needed(m))
    BY RulesAsk, Zenon DEF Asks
  <2>2. r[2] = 1 => r[1] \in TypesIn(ps)
    BY <2>1, Zenon
  <2>3. tlv_count_param(ps, r[1]) = IF r[1] \in TypesIn(ps) THEN 1 ELSE 0
    BY <1>1, Zenon
  <2>4. tlv_count_param(ps, r[1]) \in r[2] .. r[3]
    <3>1. PICK a, b, c : a = r[2] /\ b = r[3] /\ c = tlv_count_param(ps, r[1])
      OBVIOUS
    <3>2. a \in {0, 1} /\ b \in {1, Many} /\ c \in {0, 1} /\ (a = 1 => c = 1)
      BY <2>1, <2>2, <2>3, <3>1, Zenon
    <3>3. c \in a .. b
      BY ONLY <3>2, SMT DEF Many
    <3> QED  BY <3>1, <3>3, Zenon
  <2> QED  BY <2>4, Zenon DEF tlv_validate_count_param
<1> QED  BY <1>2, Zenon DEF Valid

(* What is needed of a message that a program composes.                    *)
Plain(m) ==
  /\ m.intf = "ecmg" /\ m.type \in EcmgTypes \ {"cw"}
  /\ m.room \in Nat /\ m.room >= 1000 /\ m.length \in Nat /\ m.length >= 1000
  /\ m.calls \in Seq(Parameters) /\ Len(m.calls) <= 10
  /\ \A i \in DOMAIN m.calls : Sound(m.calls[i])
  /\ Valid(m, m.calls)
Worded(m) ==
  /\ m.intf = "ecmg" /\ m.type = "cw" /\ m.room = 1019 /\ m.length = 1020
  /\ m.calls \in Seq(Parameters) /\ Len(m.calls) >= 3
  /\ \A i \in DOMAIN m.calls :
       /\ Sound(m.calls[i])
       /\ Len(m.calls[i].value) = IF i <= 3 THEN 2 ELSE 10
       /\ i > 3 => m.calls[i].type = cpCwComb
  /\ \A k \in 4 .. Len(m.calls) : Valid(m, SubSeq(m.calls, 1, k))
  /\ Len(m.calls) = 3 => Wordless(m)

(* The numbers that are composed, each sound, and of its type.             *)
Makes(p, t) == Sound(p) /\ p.type = t

LEMMA NumbersMade ==
  /\ Makes(Number(channelId, 65535), channelId) /\ Makes(Number(streamId, 258), streamId)
  /\ Makes(Number(sectionTsPkt, 0), sectionTsPkt) /\ Makes(Number(delayStart, 200), delayStart)
  /\ Makes(Number(delayStop, 0), delayStop) /\ Makes(Number(repPeriod, 300), repPeriod)
  /\ Makes(Number(maxStreams, 500), maxStreams) /\ Makes(Number(minCpDur, 3), minCpDur)
  /\ Makes(Number(leadCw, 1), leadCw) /\ Makes(Number(cwPerMsg, 2), cwPerMsg)
  /\ Makes(Number(maxCompTime, 100), maxCompTime) /\ Makes(Number(errorStatus, 6), errorStatus)
  /\ Makes(Number(errorStatus, 7), errorStatus) /\ Makes(Number(ecmId, 300), ecmId)
  /\ Makes(Number(accessCritMode, 1), accessCritMode) /\ Makes(Number(cpNumber, 255), cpNumber)
  /\ Makes(Number(superCasId, 1234567), superCasId) /\ Makes(Number(nomCpDur, 100), nomCpDur)
<1> DEFINE Small == {superCasId, sectionTsPkt, leadCw, cwPerMsg, accessCritMode, accessCrit,
                     cpCwComb, ecm, cwEncrypt}
<1>1. ASSUME NEW t \in {channelId, streamId, delayStart, delayStop, repPeriod, maxStreams,
                        minCpDur, maxCompTime, errorStatus, ecmId, cpNumber, nomCpDur},
             NEW v \in TwoBytes
      PROVE  Makes(Number(t, v), t)
  <2>1. t \notin Small
    BY SMT DEF superCasId, sectionTsPkt, delayStart, delayStop, repPeriod,
         maxStreams, minCpDur, leadCw, cwPerMsg, maxCompTime, accessCrit, channelId, streamId,
         nomCpDur, accessCritMode, cpNumber, cpCwComb, ecm, cwEncrypt, ecmId, errorStatus
  <2>2. ecmg_size(t) = 2
    BY <2>1, Zenon DEF ecmg_size
  <2>3. t \in Known
    BY AllAreKnown, Zenon
  <2>4. v \in Nat /\ Holds(v, ecmg_size(t))
    BY <2>2 DEF Holds, TwoBytes
  <2>5. t # cpCwComb
    BY <2>1, Zenon
  <2> QED  BY <2>3, <2>4, <2>5, NumberIsSound, Zenon DEF Makes
<1>2. ASSUME NEW t \in {sectionTsPkt, leadCw, cwPerMsg, accessCritMode}, NEW v \in 0 .. 9
      PROVE  Makes(Number(t, v), t)
  <2>1. t \notin {superCasId, accessCrit, cpCwComb, ecm, cwEncrypt}
    BY SMT DEF superCasId, sectionTsPkt, leadCw, cwPerMsg, accessCrit, accessCritMode,
         cpCwComb, ecm, cwEncrypt
  <2>2. ecmg_size(t) = 1
    BY <2>1, Zenon DEF ecmg_size
  <2>3. t \in Known
    BY AllAreKnown, Zenon
  <2>4. v \in Nat /\ Holds(v, ecmg_size(t))
    BY SMT, <2>2 DEF Holds
  <2>5. t # cpCwComb
    BY <2>1, Zenon
  <2> QED  BY <2>3, <2>4, <2>5, NumberIsSound, Zenon DEF Makes
<1>3. ASSUME NEW v \in FourBytes PROVE Makes(Number(superCasId, v), superCasId)
  <2>1. superCasId \notin {sectionTsPkt, leadCw, cwPerMsg, accessCritMode, accessCrit,
                            cpCwComb, ecm, cwEncrypt}
    BY SMT DEF superCasId, sectionTsPkt, leadCw, cwPerMsg, accessCrit, accessCritMode,
         cpCwComb, ecm, cwEncrypt
  <2>2. ecmg_size(superCasId) = 4
    BY <2>1, Zenon DEF ecmg_size
  <2>3. superCasId \in Known
    BY AllAreKnown, Zenon
  <2>4. v \in Nat /\ Holds(v, ecmg_size(superCasId))
    BY <2>2 DEF Holds, FourBytes
  <2>5. superCasId # cpCwComb
    BY <2>1, Zenon
  <2> QED  BY <2>3, <2>4, <2>5, NumberIsSound, Zenon DEF Makes
<1>4. /\ {65535, 258, 200, 0, 300, 500, 3, 100, 6, 7, 255} \subseteq TwoBytes
      /\ 1234567 \in FourBytes /\ {0, 1, 2} \subseteq 0 .. 9
  BY SMT DEF TwoBytes, FourBytes
<1> QED  BY SMT, <1>1, <1>2, <1>3, <1>4

(* A message of parameters of different types, among them what it needs.   *)
ListedAs(m, n, ty) ==
  /\ m.intf = "ecmg" /\ m.type \in EcmgTypes \ {"cw"}
  /\ m.room \in Nat /\ m.room >= 1000 /\ m.length \in Nat /\ m.length >= 1000
  /\ n \in 0 .. 10 /\ m.calls \in Seq(Parameters) /\ Len(m.calls) = n
  /\ \A i \in 1 .. n : Makes(m.calls[i], ty[i])
  /\ \A i \in 1 .. n : \A j \in 1 .. n : ty[i] = ty[j] => i = j
  /\ \A t \in EcmgAsked(m.type) : \E i \in 1 .. n : ty[i] = t

LEMMA PlainIs == ASSUME NEW m, NEW n, NEW ty, ListedAs(m, n, ty) PROVE Plain(m)
<1>1. PICK ps : ps = m.calls
  OBVIOUS
<1>2. DOMAIN ps = 1 .. n /\ Len(ps) <= 10
  BY <1>1 DEF ListedAs
<1>3. /\ \A i \in 1 .. n : Makes(ps[i], ty[i])
      /\ \A i \in 1 .. n : \A j \in 1 .. n : ty[i] = ty[j] => i = j
      /\ \A t \in EcmgAsked(m.type) : \E i \in 1 .. n : ty[i] = t
      /\ m.intf = "ecmg" /\ m.type \in EcmgTypes
  BY <1>1 DEF ListedAs
<1>4. \A i \in 1 .. n : ps[i].type = ty[i] /\ Sound(ps[i])
  BY <1>3, Zenon DEF Makes
<1>5. Distinct(ps)
  <2>1. ASSUME NEW i \in 1 .. n, NEW j \in 1 .. n, ps[i].type = ps[j].type PROVE i = j
    <3>1. ty[i] = ty[j]
      BY <1>4, <2>1, Zenon
    <3> QED  BY <1>3, <3>1, Zenon
  <2> QED  BY <1>2, <2>1, Zenon DEF Distinct
<1>6. \A i \in DOMAIN ps : Sound(ps[i]) /\ LongEnough(m, ps[i])
  BY <1>2, <1>4, <1>3, Zenon DEF LongEnough, Sound
<1>7. Kind(m)
  BY <1>3, Zenon DEF Kind
<1>8. Needed(m) \subseteq TypesIn(ps)
  <2>1. ASSUME NEW t \in EcmgAsked(m.type) PROVE t \in TypesIn(ps)
    <3>1. PICK i \in 1 .. n : ty[i] = t
      BY <1>3, Zenon
    <3>2. i \in DOMAIN ps /\ ps[i].type = t
      BY <1>2, <1>4, <3>1, Zenon
    <3> QED  BY <3>2, Zenon DEF TypesIn
  <2>2. Needed(m) = EcmgAsked(m.type)
    BY <1>7, <1>3, RulesAsk, Zenon
  <2> QED  BY <2>1, <2>2, Zenon
<1>9. Valid(m, ps)
  BY <1>5, <1>6, <1>7, <1>8, ValidIfDistinct, Zenon
<1> QED  BY <1>1, <1>2, <1>6, <1>9 DEF Plain, ListedAs

LEMMA ChannelStatusIsPlain ==
  ASSUME NEW v
  PROVE  Plain(send_channel_status(v))
<1>1. PICK m : m = send_channel_status(v)
  OBVIOUS
<1>2. PICK a, b, c, d, e, f, g, h, i, j :
        /\ m.calls = <<a, b, c, d, e, f, g, h, i, j>>
        /\ Makes(a, channelId) /\ Makes(b, sectionTsPkt) /\ Makes(c, delayStart)
        /\ Makes(d, delayStop) /\ Makes(e, repPeriod) /\ Makes(f, maxStreams)
        /\ Makes(g, minCpDur) /\ Makes(h, leadCw) /\ Makes(i, cwPerMsg) /\ Makes(j, maxCompTime)
  <2>1. PICK a, b, c, d, e, f, g, h, i, j :
          /\ a = Number(channelId, 65535) /\ b = Number(sectionTsPkt, 0)
          /\ c = Number(delayStart, 200) /\ d = Number(delayStop, 0)
          /\ e = Number(repPeriod, 300) /\ f = Number(maxStreams, 500)
          /\ g = Number(minCpDur, 3) /\ h = Number(leadCw, 1)
          /\ i = Number(cwPerMsg, 2) /\ j = Number(maxCompTime, 100)
    BY SMT
  <2>2. m.calls = <<a, b, c, d, e, f, g, h, i, j>>
    BY SMT, <1>1, <2>1 DEF send_channel_status, Short, Own
  <2>3. /\ Makes(a, channelId) /\ Makes(b, sectionTsPkt) /\ Makes(c, delayStart)
        /\ Makes(d, delayStop) /\ Makes(e, repPeriod) /\ Makes(f, maxStreams)
        /\ Makes(g, minCpDur) /\ Makes(h, leadCw) /\ Makes(i, cwPerMsg)
        /\ Makes(j, maxCompTime)
    BY SMT, <2>1, NumbersMade
  <2> QED  BY <2>2, <2>3
<1> DEFINE n == 10
           ty == <<channelId, sectionTsPkt, delayStart, delayStop, repPeriod, maxStreams,
                   minCpDur, leadCw, cwPerMsg, maxCompTime>>
<1>3. /\ m.intf = "ecmg" /\ m.type = "channel_status"
      /\ m.room \in Nat /\ m.room >= 1000 /\ m.length \in Nat /\ m.length >= 1000
  BY SMT, <1>1 DEF send_channel_status, Short, Own, MaxTlvSize, Header
<1>4. m.calls \in Seq(Parameters) /\ Len(m.calls) = n
  <2>1. {a, b, c, d, e, f, g, h, i, j} \subseteq Parameters
    BY <1>2, Zenon DEF Makes, Sound
  <2> QED  BY <1>2, <2>1
<1>5. \A k \in 1 .. n : Makes(m.calls[k], ty[k])
  BY SMT, <1>2
<1>6. \A k \in 1 .. n : \A l \in 1 .. n : ty[k] = ty[l] => k = l
  BY SMT DEF channelId, sectionTsPkt, delayStart, delayStop, repPeriod, maxStreams,
             minCpDur, leadCw, cwPerMsg, maxCompTime
<1>7. \A t \in EcmgAsked(m.type) : \E k \in 1 .. n : ty[k] = t
  <2>1. EcmgAsked(m.type) = Status
    BY <1>3 DEF EcmgAsked
  <2>2. \A t \in Status : \E k \in 1 .. n : ty[k] = t
    BY SMT DEF Status
  <2> QED  BY <2>1, <2>2, Zenon
<1>8. m.type \in EcmgTypes \ {"cw"} /\ n \in 0 .. 10
  BY <1>3 DEF EcmgTypes
<1> HIDE DEF n, ty
<1>9. ListedAs(m, n, ty)
  BY <1>3, <1>4, <1>5, <1>6, <1>7, <1>8, Zenon DEF ListedAs
<1>10. Plain(m)
  BY <1>9, PlainIs, Zenon
<1> QED  BY <1>1, <1>10, Zenon

(* Short sequences that are joined.                                        *)
LEMMA SameSequence ==
  ASSUME NEW S, NEW s \in Seq(S), NEW t \in Seq(S), Len(s) = Len(t),
         \A i \in 1 .. Len(s) : s[i] = t[i]
  PROVE  s = t
OBVIOUS

LEMMA JoinedNone == ASSUME NEW a, NEW b PROVE <<a, b>> \o <<>> = <<a, b>>
<1>1. PICK s, t : s = <<a, b>> \o <<>> /\ t = <<a, b>>
  OBVIOUS
<1>2. t \in Seq({a, b}) /\ <<>> \in Seq({a, b})
  BY <1>1
<1>3. s \in Seq({a, b}) /\ Len(s) = 2 /\ Len(t) = 2
  BY <1>1, <1>2
<1>4. s[1] = a /\ s[2] = b /\ t[1] = a /\ t[2] = b
  BY <1>1
<1>5. \A i \in 1 .. 2 : s[i] = t[i]
  BY <1>4
<1> QED  BY <1>1, <1>2, <1>3, <1>5, SameSequence

LEMMA JoinedTwo == ASSUME NEW a, NEW b PROVE <<a>> \o <<b>> = <<a, b>>
<1>1. PICK s, t : s = <<a>> \o <<b>> /\ t = <<a, b>>
  OBVIOUS
<1>2. <<a>> \in Seq({a, b}) /\ <<b>> \in Seq({a, b}) /\ t \in Seq({a, b})
  BY <1>1
<1>3. s \in Seq({a, b}) /\ Len(s) = 2 /\ Len(t) = 2
  BY <1>1, <1>2
<1>4. s[1] = a /\ s[2] = b /\ t[1] = a /\ t[2] = b
  BY <1>1
<1>5. \A i \in 1 .. 2 : s[i] = t[i]
  BY <1>4
<1> QED  BY <1>1, <1>2, <1>3, <1>5, SameSequence

LEMMA JoinedThree == ASSUME NEW a, NEW b, NEW c PROVE <<a, b>> \o <<c>> = <<a, b, c>>
<1>1. PICK s, t : s = <<a, b>> \o <<c>> /\ t = <<a, b, c>>
  OBVIOUS
<1>2. <<a, b>> \in Seq({a, b, c}) /\ <<c>> \in Seq({a, b, c}) /\ t \in Seq({a, b, c})
  BY <1>1
<1>3. s \in Seq({a, b, c}) /\ Len(s) = 3 /\ Len(t) = 3
  BY <1>1, <1>2
<1>4. s[1] = a /\ s[2] = b /\ s[3] = c /\ t[1] = a /\ t[2] = b /\ t[3] = c
  BY <1>1
<1>5. \A i \in 1 .. 3 : s[i] = t[i]
  BY <1>4
<1> QED  BY <1>1, <1>2, <1>3, <1>5, SameSequence

LEMMA JoinedFour ==
  ASSUME NEW a, NEW b, NEW c, NEW d
  PROVE  <<a, b>> \o <<c, d>> = <<a, b, c, d>>
<1> DEFINE S == {a, b, c, d}
<1>1. PICK s, t : s = <<a, b>> \o <<c, d>> /\ t = <<a, b, c, d>>
  OBVIOUS
<1>2. <<a, b>> \in Seq(S) /\ <<c, d>> \in Seq(S) /\ t \in Seq(S)
  BY <1>1
<1>3. s \in Seq(S) /\ Len(s) = 4 /\ Len(t) = 4
  BY <1>1, <1>2
<1>4. /\ s[1] = a /\ s[2] = b /\ s[3] = c /\ s[4] = d
      /\ t[1] = a /\ t[2] = b /\ t[3] = c /\ t[4] = d
  BY <1>1
<1>5. \A i \in 1 .. 4 : s[i] = t[i]
  BY <1>4
<1> QED  BY <1>1, <1>2, <1>3, <1>5, SameSequence

(* Messages of up to four parameters.                                      *)
Roomy(m, type) ==
  /\ m.intf = "ecmg" /\ m.type = type /\ type \in EcmgTypes \ {"cw"}
  /\ m.room \in Nat /\ m.room >= 1000 /\ m.length \in Nat /\ m.length >= 1000

LEMMA OneIsPlain ==
  ASSUME NEW type, NEW m, Roomy(m, type),
         NEW a, NEW s, Makes(a, s),
         m.calls = <<a>>, EcmgAsked(type) \subseteq {s}
  PROVE  Plain(m)
<1> DEFINE n == 1
           ty == <<s>>
<1>1. m.calls \in Seq(Parameters) /\ Len(m.calls) = n
  <2>1. {a} \subseteq Parameters
    BY Zenon DEF Makes, Sound
  <2> QED  BY <2>1
<1>2. \A i \in 1 .. n : Makes(m.calls[i], ty[i])
  OBVIOUS
<1>3. \A i \in 1 .. n : \A j \in 1 .. n : ty[i] = ty[j] => i = j
  BY SMT
<1>4. \A x \in EcmgAsked(m.type) : \E i \in 1 .. n : ty[i] = x
  BY SMT DEF Roomy
<1>5. n \in 0 .. 10
  OBVIOUS
<1> HIDE DEF n, ty
<1>6. ListedAs(m, n, ty)
  BY <1>1, <1>2, <1>3, <1>4, <1>5, Zenon DEF ListedAs, Roomy
<1> QED  BY <1>6, PlainIs, Zenon

LEMMA TwoIsPlain ==
  ASSUME NEW type, NEW m, Roomy(m, type),
         NEW a, NEW s, Makes(a, s), NEW b, NEW t, Makes(b, t),
         t # s, m.calls = <<a, b>>, EcmgAsked(type) \subseteq {s, t}
  PROVE  Plain(m)
<1> DEFINE n == 2
           ty == <<s, t>>
<1>1. m.calls \in Seq(Parameters) /\ Len(m.calls) = n
  <2>1. {a, b} \subseteq Parameters
    BY Zenon DEF Makes, Sound
  <2> QED  BY <2>1
<1>2. \A i \in 1 .. n : Makes(m.calls[i], ty[i])
  OBVIOUS
<1>3. \A i \in 1 .. n : \A j \in 1 .. n : ty[i] = ty[j] => i = j
  BY SMT
<1>4. \A x \in EcmgAsked(m.type) : \E i \in 1 .. n : ty[i] = x
  BY SMT DEF Roomy
<1>5. n \in 0 .. 10
  OBVIOUS
<1> HIDE DEF n, ty
<1>6. ListedAs(m, n, ty)
  BY <1>1, <1>2, <1>3, <1>4, <1>5, Zenon DEF ListedAs, Roomy
<1> QED  BY <1>6, PlainIs, Zenon

LEMMA ThreeIsPlain ==
  ASSUME NEW type, NEW m, Roomy(m, type),
         NEW a, NEW s, Makes(a, s), NEW b, NEW t, Makes(b, t),
         NEW c, NEW u, Makes(c, u),
         t # s, u \notin {s, t}, m.calls = <<a, b, c>>, EcmgAsked(type) \subseteq {s, t, u}
  PROVE  Plain(m)
<1> DEFINE n == 3
           ty == <<s, t, u>>
<1>1. m.calls \in Seq(Parameters) /\ Len(m.calls) = n
  <2>1. {a, b, c} \subseteq Parameters
    BY Zenon DEF Makes, Sound
  <2> QED  BY <2>1
<1>2. \A i \in 1 .. n : Makes(m.calls[i], ty[i])
  OBVIOUS
<1>3. \A i \in 1 .. n : \A j \in 1 .. n : ty[i] = ty[j] => i = j
  BY SMT
<1>4. \A x \in EcmgAsked(m.type) : \E i \in 1 .. n : ty[i] = x
  BY SMT DEF Roomy
<1>5. n \in 0 .. 10
  OBVIOUS
<1> HIDE DEF n, ty
<1>6. ListedAs(m, n, ty)
  BY <1>1, <1>2, <1>3, <1>4, <1>5, Zenon DEF ListedAs, Roomy
<1> QED  BY <1>6, PlainIs, Zenon

IsFour(m, type, a, s, b, t, c, u, d, v) ==
  /\ Roomy(m, type) /\ m.calls = <<a, b, c, d>> /\ EcmgAsked(type) \subseteq {s, t, u, v}
  /\ Makes(a, s) /\ Makes(b, t) /\ Makes(c, u) /\ Makes(d, v)
  /\ t # s /\ u \notin {s, t} /\ v \notin {s, t, u}

LEMMA FourIsPlain ==
  ASSUME NEW m, NEW type, NEW a, NEW s, NEW b, NEW t, NEW c, NEW u, NEW d, NEW v,
         IsFour(m, type, a, s, b, t, c, u, d, v)
  PROVE  Plain(m)
<1> USE DEF IsFour
<1> DEFINE n == 4
           ty == <<s, t, u, v>>
<1>1. m.calls \in Seq(Parameters) /\ Len(m.calls) = n
  <2>1. {a, b, c, d} \subseteq Parameters
    BY Zenon DEF Makes, Sound
  <2> QED  BY <2>1
<1>2. \A i \in 1 .. n : Makes(m.calls[i], ty[i])
  OBVIOUS
<1>3. \A i \in 1 .. n : \A j \in 1 .. n : ty[i] = ty[j] => i = j
  BY SMT
<1>4. \A x \in EcmgAsked(m.type) : \E i \in 1 .. n : ty[i] = x
  BY SMT DEF Roomy
<1>5. n \in 0 .. 10
  OBVIOUS
<1> HIDE DEF n, ty
<1>6. ListedAs(m, n, ty)
  BY <1>1, <1>2, <1>3, <1>4, <1>5, Zenon DEF ListedAs, Roomy
<1> QED  BY <1>6, PlainIs, Zenon

(* Each message of the two programs.                                       *)
LEMMA EcmMade == Makes(Param(ecm, 0, Zeros(19)), ecm)
<1>1. PICK p : p = Param(ecm, 0, Zeros(19))
  OBVIOUS
<1>2. Zeros(19) \in Seq(Nat) /\ Len(Zeros(19)) = 19
  <2>1. 19 \in Nat
    OBVIOUS
  <2> QED  BY <2>1, ZerosIs, Zenon
<1>3. /\ p.type = ecm /\ p.number = 0 /\ Len(p.value) = 19 /\ p.value \in Seq(Nat)
      /\ p \in [type : {ecm}, number : Nat, value : Seq(Nat)]
  BY <1>1, <1>2 DEF Param
<1>4. p \in Parameters
  BY <1>3 DEF Parameters, ecm
<1>5. ecmg_size(ecm) = 0 /\ ecm # cpCwComb /\ ecm \in Known
  <2>1. /\ ecm \notin {superCasId, sectionTsPkt, leadCw, cwPerMsg, accessCritMode}
        /\ ecm # cpCwComb
    BY SMT DEF superCasId, sectionTsPkt, leadCw, cwPerMsg, accessCritMode, cpCwComb, ecm
  <2> QED  BY <2>1, AllAreKnown, Zenon DEF ecmg_size
<1>6. Decoded(p.value, 0) = 0
  BY DEF Decoded
<1>7. ReadAsGiven(p)
  BY <1>3, <1>5, <1>6, Zenon DEF ReadAsGiven
<1>8. Len(p.value) >= ecmg_size(p.type) /\ Len(p.value) <= 19
  BY SMT, <1>3, <1>5
<1>9. ecmg_validate_param(p)
  BY <1>3, <1>5, <1>8, LongEnoughIs, Zenon
<1>10. Sound(p)
  BY <1>3, <1>4, <1>5, <1>7, <1>8, <1>9, Zenon DEF Sound
<1> QED  BY <1>1, <1>3, <1>10, Zenon DEF Makes

LEMMA ChannelTestIsPlain == ASSUME NEW v PROVE Plain(send_channel_test(v))
<1>1. PICK m : m = send_channel_test(v)
  OBVIOUS
<1>2. PICK a : a = Number(channelId, 65535)
  BY SMT
<1>3. Makes(a, channelId)
  BY SMT, <1>2, NumbersMade
<1>4. Roomy(m, "channel_test")
  BY SMT, <1>1 DEF send_channel_test, Short, Own, MaxTlvSize, Header, Roomy, EcmgTypes
<1>5. EcmgAsked("channel_test") = {channelId}
  BY DEF EcmgAsked
<1>7. m.calls = <<a>>
  BY SMT, <1>1, <1>2 DEF send_channel_test, Short, Own, MaxTlvSize, Header
<1>8. Plain(m)
  <2>1. EcmgAsked("channel_test") \subseteq {channelId}
    BY <1>5, Zenon
  <2> QED  BY <1>3, <1>4, <1>7, <2>1, OneIsPlain, Zenon
<1> QED  BY <1>1, <1>8, Zenon

LEMMA ChannelErrorIsPlain == ASSUME NEW v PROVE Plain(send_channel_error(v))
<1>1. PICK m : m = send_channel_error(v)
  OBVIOUS
<1>2. PICK a, b : a = Number(channelId, 65535) /\ b = Number(errorStatus, 6)
  BY SMT
<1>3. Makes(a, channelId) /\ Makes(b, errorStatus)
  BY SMT, <1>2, NumbersMade
<1>4. Roomy(m, "channel_error")
  BY SMT, <1>1 DEF send_channel_error, Short, Own, MaxTlvSize, Header, Roomy, EcmgTypes
<1>5. EcmgAsked("channel_error") = {channelId, errorStatus}
  BY DEF EcmgAsked
<1>6. errorStatus # channelId
  BY SMT DEF channelId, errorStatus
<1>7. m.calls = <<a, b>>
  BY SMT, <1>1, <1>2 DEF send_channel_error, Short, Own, MaxTlvSize, Header
<1>8. Plain(m)
  <2>1. EcmgAsked("channel_error") \subseteq {channelId, errorStatus}
    BY <1>5, Zenon
  <2> QED  BY <1>3, <1>4, <1>6, <1>7, <2>1, TwoIsPlain, Zenon
<1> QED  BY <1>1, <1>8, Zenon

LEMMA StreamCloseIsPlain == ASSUME NEW v PROVE Plain(send_stream_close(v))
<1>1. PICK m : m = send_stream_close(v)
  OBVIOUS
<1>2. PICK a, b : a = Number(channelId, 65535) /\ b = Number(streamId, 258)
  BY SMT
<1>3. Makes(a, channelId) /\ Makes(b, streamId)
  BY SMT, <1>2, NumbersMade
<1>4. Roomy(m, "stream_closeresp")
  BY SMT, <1>1 DEF send_stream_close, Short, Own, MaxTlvSize, Header, Roomy, EcmgTypes
<1>5. EcmgAsked("stream_closeresp") = {channelId, streamId}
  BY DEF EcmgAsked
<1>6. streamId # channelId
  BY SMT DEF channelId, streamId
<1>7. m.calls = <<a, b>>
  <2>1. m.calls = <<a, b>> \o <<>>
    BY SMT, <1>1, <1>2 DEF send_stream_close, Short, Own, MaxTlvSize, Header, ForStream
  <2> QED  BY <2>1, JoinedNone, Zenon
<1>8. Plain(m)
  <2>1. EcmgAsked("stream_closeresp") \subseteq {channelId, streamId}
    BY <1>5, Zenon
  <2> QED  BY <1>3, <1>4, <1>6, <1>7, <2>1, TwoIsPlain, Zenon
<1> QED  BY <1>1, <1>8, Zenon

LEMMA StreamErrorIsPlain == ASSUME NEW v PROVE Plain(send_stream_error(v))
<1>1. PICK m : m = send_stream_error(v)
  OBVIOUS
<1>2. PICK a, b, c : a = Number(channelId, 65535) /\ b = Number(streamId, 258)
      /\ c = Number(errorStatus, 7)
  BY SMT
<1>3. Makes(a, channelId) /\ Makes(b, streamId) /\ Makes(c, errorStatus)
  BY SMT, <1>2, NumbersMade
<1>4. Roomy(m, "stream_error")
  BY SMT, <1>1 DEF send_stream_error, Short, Own, MaxTlvSize, Header, Roomy, EcmgTypes
<1>5. EcmgAsked("stream_error") = {channelId, streamId, errorStatus}
  BY DEF EcmgAsked
<1>6. streamId # channelId /\ errorStatus \notin {channelId, streamId}
  BY SMT DEF channelId, streamId, errorStatus
<1>7. m.calls = <<a, b, c>>
  <2>1. m.calls = <<a, b>> \o <<c>>
    BY SMT, <1>1, <1>2 DEF send_stream_error, Short, Own, MaxTlvSize, Header, ForStream
  <2> QED  BY <2>1, JoinedThree, Zenon
<1>8. Plain(m)
  <2>1. EcmgAsked("stream_error") \subseteq {channelId, streamId, errorStatus}
    BY <1>5, Zenon
  <2> QED  BY <1>3, <1>4, <1>6, <1>7, <2>1, ThreeIsPlain, Zenon
<1> QED  BY <1>1, <1>8, Zenon

LEMMA EcmIsPlain == ASSUME NEW v PROVE Plain(send_ecm(v))
<1>1. PICK m : m = send_ecm(v)
  OBVIOUS
<1>2. PICK a, b, c, d : a = Number(channelId, 65535) /\ b = Number(streamId, 258)
      /\ c = Number(cpNumber, 255) /\ d = Param(ecm, 0, Zeros(19))
  BY SMT
<1>3. Makes(a, channelId) /\ Makes(b, streamId) /\ Makes(c, cpNumber) /\ Makes(d, ecm)
  BY SMT, <1>2, NumbersMade, EcmMade
<1>4. Roomy(m, "ecm")
  BY SMT, <1>1 DEF send_ecm, Short, Own, MaxTlvSize, Header, Roomy, EcmgTypes
<1>5. EcmgAsked("ecm") = {channelId, streamId, cpNumber, ecm}
  BY DEF EcmgAsked
<1>6. streamId # channelId /\ cpNumber \notin {channelId, streamId}
      /\ ecm \notin {channelId, streamId, cpNumber}
  BY SMT DEF channelId, streamId, cpNumber, ecm
<1>7. m.calls = <<a, b, c, d>>
  <2>1. m.calls = <<a, b>> \o <<c, d>>
    BY SMT, <1>1, <1>2 DEF send_ecm, Short, Own, MaxTlvSize, Header, ForStream
  <2> QED  BY <2>1, JoinedFour, Zenon
<1>8. IsFour(m, "ecm", a, channelId, b, streamId, c, cpNumber, d, ecm)
  BY <1>3, <1>4, <1>5, <1>6, <1>7, Zenon DEF IsFour
<1>9. Plain(m)
  BY <1>8, FourIsPlain, Zenon
<1> QED  BY <1>1, <1>9, Zenon

LEMMA ChannelSetupIsPlain == ASSUME NEW v PROVE Plain(send_channel_setup(v))
<1>1. PICK m : m = send_channel_setup(v)
  OBVIOUS
<1>2. PICK a, b : a = Number(channelId, 65535) /\ b = Number(superCasId, 1234567)
  BY SMT
<1>3. Makes(a, channelId) /\ Makes(b, superCasId)
  BY SMT, <1>2, NumbersMade
<1>4. Roomy(m, "channel_setup")
  BY SMT, <1>1 DEF send_channel_setup, Own, MaxTlvSize, Header, Roomy, EcmgTypes
<1>5. EcmgAsked("channel_setup") = {channelId, superCasId}
  BY DEF EcmgAsked
<1>6. superCasId # channelId
  BY SMT DEF channelId, superCasId
<1>7. m.calls = <<a, b>>
  BY SMT, <1>1, <1>2 DEF send_channel_setup, Own, MaxTlvSize, Header
<1>8. Plain(m)
  <2>1. EcmgAsked("channel_setup") \subseteq {channelId, superCasId}
    BY <1>5, Zenon
  <2> QED  BY <1>3, <1>4, <1>6, <1>7, <2>1, TwoIsPlain, Zenon
<1> QED  BY <1>1, <1>8, Zenon

LEMMA StreamStatusIsPlain == ASSUME NEW v PROVE Plain(send_stream_status(v))
<1>1. PICK m : m = send_stream_status(v)
  OBVIOUS
<1>2. PICK a, b, c, d : a = Number(channelId, 65535) /\ b = Number(streamId, 258)
      /\ c = Number(ecmId, 300) /\ d = Number(accessCritMode, 1)
  BY SMT
<1>3. Makes(a, channelId) /\ Makes(b, streamId) /\ Makes(c, ecmId) /\ Makes(d, accessCritMode)
  BY SMT, <1>2, NumbersMade
<1>4. Roomy(m, "stream_status")
  BY SMT, <1>1 DEF send_stream_status, Short, Own, MaxTlvSize, Header, Roomy, EcmgTypes
<1>5. EcmgAsked("stream_status") = {channelId, streamId, accessCritMode}
  BY DEF EcmgAsked
<1>6. streamId # channelId /\ ecmId \notin {channelId, streamId}
      /\ accessCritMode \notin {channelId, streamId, ecmId}
  BY SMT DEF channelId, streamId, ecmId, accessCritMode
<1>7. CASE v >= 2
  <2>1. m.calls = <<a, b>> \o (<<c>> \o <<d>>)
    BY SMT, <1>1, <1>2, <1>7 DEF send_stream_status, Short, Own, MaxTlvSize, Header,
       ForStream, Identified
  <2>2. <<c>> \o <<d>> = <<c, d>> /\ <<a, b>> \o <<c, d>> = <<a, b, c, d>>
    BY JoinedTwo, JoinedFour, Zenon
  <2>3. m.calls = <<a, b, c, d>>
    BY <2>1, <2>2, Zenon
  <2>4. EcmgAsked("stream_status") \subseteq {channelId, streamId, ecmId, accessCritMode}
    BY <1>5, Zenon
  <2>6. IsFour(m, "stream_status", a, channelId, b, streamId, c, ecmId, d, accessCritMode)
    BY <1>3, <1>4, <1>6, <2>3, <2>4, Zenon DEF IsFour
  <2>5. Plain(m)
    BY <2>6, FourIsPlain, Zenon
  <2> QED  BY <1>1, <2>5, Zenon
<1>8. CASE ~ (v >= 2)
  <2>1. m.calls = <<a, b>> \o (<<>> \o <<d>>)
    BY SMT, <1>1, <1>2, <1>8 DEF send_stream_status, Short, Own, MaxTlvSize, Header,
       ForStream, Identified
  <2>2. <<>> \o <<d>> = <<d>> /\ <<a, b>> \o <<d>> = <<a, b, d>>
    BY JoinedThree
  <2>3. m.calls = <<a, b, d>>
    BY <2>1, <2>2, Zenon
  <2>4. EcmgAsked("stream_status") \subseteq {channelId, streamId, accessCritMode}
        /\ accessCritMode \notin {channelId, streamId}
    BY <1>5, <1>6, Zenon
  <2>5. Plain(m)
    BY <1>3, <1>4, <1>6, <2>3, <2>4, ThreeIsPlain, Zenon
  <2> QED  BY <1>1, <2>5, Zenon
<1> QED  BY <1>7, <1>8

LEMMA StreamSetupIsPlain == ASSUME NEW v PROVE Plain(send_stream_setup(v))
<1>1. PICK m : m = send_stream_setup(v)
  OBVIOUS
<1>2. PICK a, b, c, d : a = Number(channelId, 65535) /\ b = Number(streamId, 258)
      /\ c = Number(ecmId, 300) /\ d = Number(nomCpDur, 100)
  BY SMT
<1>3. Makes(a, channelId) /\ Makes(b, streamId) /\ Makes(c, ecmId) /\ Makes(d, nomCpDur)
  BY SMT, <1>2, NumbersMade
<1>4. Roomy(m, "stream_setup")
  BY SMT, <1>1 DEF send_stream_setup, Short, Own, MaxTlvSize, Header, Roomy, EcmgTypes
<1>5. EcmgAsked("stream_setup") = {channelId, streamId, nomCpDur}
  BY DEF EcmgAsked
<1>6. streamId # channelId /\ ecmId \notin {channelId, streamId}
      /\ nomCpDur \notin {channelId, streamId, ecmId}
  BY SMT DEF channelId, streamId, ecmId, nomCpDur
<1>7. CASE v >= 2
  <2>1. m.calls = <<a, b>> \o (<<c>> \o <<d>>)
    BY SMT, <1>1, <1>2, <1>7 DEF send_stream_setup, Short, Own, MaxTlvSize, Header,
       ForStream, Identified
  <2>2. <<c>> \o <<d>> = <<c, d>> /\ <<a, b>> \o <<c, d>> = <<a, b, c, d>>
    BY JoinedTwo, JoinedFour, Zenon
  <2>3. m.calls = <<a, b, c, d>>
    BY <2>1, <2>2, Zenon
  <2>4. EcmgAsked("stream_setup") \subseteq {channelId, streamId, ecmId, nomCpDur}
    BY <1>5, Zenon
  <2>6. IsFour(m, "stream_setup", a, channelId, b, streamId, c, ecmId, d, nomCpDur)
    BY <1>3, <1>4, <1>6, <2>3, <2>4, Zenon DEF IsFour
  <2>5. Plain(m)
    BY <2>6, FourIsPlain, Zenon
  <2> QED  BY <1>1, <2>5, Zenon
<1>8. CASE ~ (v >= 2)
  <2>1. m.calls = <<a, b>> \o (<<>> \o <<d>>)
    BY SMT, <1>1, <1>2, <1>8 DEF send_stream_setup, Short, Own, MaxTlvSize, Header,
       ForStream, Identified
  <2>2. <<>> \o <<d>> = <<d>> /\ <<a, b>> \o <<d>> = <<a, b, d>>
    BY JoinedThree
  <2>3. m.calls = <<a, b, d>>
    BY <2>1, <2>2, Zenon
  <2>4. EcmgAsked("stream_setup") \subseteq {channelId, streamId, nomCpDur}
        /\ nomCpDur \notin {channelId, streamId}
    BY <1>5, <1>6, Zenon
  <2>5. Plain(m)
    BY <1>3, <1>4, <1>6, <2>3, <2>4, ThreeIsPlain, Zenon
  <2> QED  BY <1>1, <2>5, Zenon
<1> QED  BY <1>7, <1>8

(* Control words. *)
LEMMA ControlWordIs ==
  ASSUME NEW n \in 0 .. 255, NEW i \in 1 .. n
  PROVE  Makes(ControlWord(n, 1, i), cpCwComb) /\ Len(ControlWord(n, 1, i).value) = 10
<1>1. PICK p : p = ControlWord(n, 1, i)
  OBVIOUS
<1>2. PICK cp \in Nat : cp = 255 + i - (n - 1) /\ cp <= 256
  <2>1. 255 + i - (n - 1) \in Nat /\ 255 + i - (n - 1) <= 256
    BY SMT
  <2> QED  BY SMT, <2>1
<1>3. cp \in TwoBytes
  BY SMT, <1>2 DEF TwoBytes
<1>4. p = [type |-> cpCwComb, number |-> cp, value |-> Encoded(cp, 2) \o Zeros(8)]
  BY <1>1, <1>2, Zenon DEF ControlWord, Param
<1>5. PICK e, z, w : e = Encoded(cp, 2) /\ z = Zeros(8) /\ w = e \o z
  OBVIOUS
<1>6. e \in Seq(Nat) /\ Len(e) = 2 /\ z \in Seq(Nat) /\ Len(z) = 8
  <2>1. 2 \in 0 .. 4 /\ 8 \in Nat
    OBVIOUS
  <2> QED  BY <1>5, <2>1, EncodedIs, ZerosIs, Zenon
<1>7. w \in Seq(Nat) /\ Len(w) = 10 /\ w[1] = e[1] /\ w[2] = e[2]
  <2>1. w \in Seq(Nat) /\ Len(w) = Len(e) + Len(z)
    BY ONLY <1>5, <1>6
  <2>2. \A j \in 1 .. Len(e) : w[j] = e[j]
    BY ONLY <1>5, <1>6
  <2> QED  BY ONLY <1>6, <2>1, <2>2
<1>8. p.type = cpCwComb /\ p.number = cp /\ p.value = w
  BY <1>4, <1>5
<1>9. p \in Parameters
  <2>1. cpCwComb \in Nat
    BY DEF cpCwComb
  <2> QED  BY <1>4, <1>5, <1>7, <2>1 DEF Parameters
<1>10. Decoded(w, 2) = cp
  BY <1>3, <1>5, <1>7, DecodedTwo, Zenon
<1>11. ReadAsGiven(p)
  BY <1>8, <1>10, Zenon DEF ReadAsGiven
<1>12. cpCwComb \in Known /\ ecmg_size(cpCwComb) = 0
  <2>1. cpCwComb \notin {superCasId, sectionTsPkt, leadCw, cwPerMsg, accessCritMode}
    BY SMT DEF superCasId, sectionTsPkt, leadCw, cwPerMsg, accessCritMode, cpCwComb
  <2> QED  BY <2>1, AllAreKnown, Zenon DEF ecmg_size
<1>13. Len(p.value) >= ecmg_size(p.type) /\ Len(p.value) <= 19
  <2>1. Len(p.value) = 10 /\ ecmg_size(p.type) = 0
    BY <1>7, <1>8, <1>12, Zenon
  <2> QED  BY ONLY <2>1
<1>14. ecmg_validate_param(p)
  BY <1>8, <1>12, <1>13, LongEnoughIs, Zenon
<1>15. Sound(p)
  BY <1>8, <1>9, <1>11, <1>12, <1>13, <1>14, Zenon DEF Sound
<1> QED  BY <1>1, <1>7, <1>8, <1>15 DEF Makes

(* Types of another size than two bytes. *)
SmallTypes == {superCasId, sectionTsPkt, leadCw, cwPerMsg, accessCritMode, accessCrit, cpCwComb,
               ecm, cwEncrypt}

(* Three parameters, and then control words only, at least one.            *)
Leads(ps) ==
  /\ ps[1].type = channelId /\ ps[2].type = streamId /\ ps[3].type = cpNumber
  /\ \A i \in DOMAIN ps : i > 3 => ps[i].type = cpCwComb

LEMMA WordsAreValid ==
  ASSUME NEW m, m.intf = "ecmg", m.type = "cw", NEW k \in Nat, k >= 4, k <= Many,
         NEW ps \in Seq(Parameters), Len(ps) = k, Leads(ps), \A i \in DOMAIN ps : Sound(ps[i])
  PROVE  Valid(m, ps)
<1> DEFINE T == {channelId, streamId, cpNumber}
           U == {cwEncrypt, cpDur, accessCrit}
<1>1. DOMAIN ps = 1 .. k
  OBVIOUS
<1>2. \A i \in 1 .. k : i = 1 \/ i = 2 \/ i = 3 \/ i > 3
  OBVIOUS
<1>3. /\ channelId # streamId /\ channelId # cpNumber /\ streamId # cpNumber
      /\ cpCwComb \notin T /\ U \cap (T \cup {cpCwComb}) = {}
  BY SMT DEF channelId, streamId, cpNumber, cpCwComb, cwEncrypt, cpDur, accessCrit
<1>4. /\ 1 \in 1 .. k /\ 2 \in 1 .. k /\ 3 \in 1 .. k /\ 4 \in 1 .. k /\ 4 > 3
  OBVIOUS
<1>5. ASSUME NEW t \in T PROVE tlv_count_param(ps, t) = 1
  <2>1. PICK j \in 1 .. k : ps[j].type = t
    BY <1>4, Zenon DEF Leads
  <2>2. ASSUME NEW i \in DOMAIN ps, ps[i].type = ps[j].type PROVE i = j
    <3>1. i \in 1 .. k /\ (i > 3 => ps[i].type = cpCwComb) /\ (j > 3 => ps[j].type = cpCwComb)
      BY <1>1, Zenon DEF Leads
    <3>2. ~ (i > 3) /\ ~ (j > 3)
      BY <1>3, <2>1, <2>2, <3>1, Zenon
    <3>3. (i = 1 \/ i = 2 \/ i = 3) /\ (j = 1 \/ j = 2 \/ j = 3)
      BY <1>2, <3>1, <3>2, Zenon
    <3> QED  BY <1>3, <2>2, <3>3 DEF Leads
  <2>3. tlv_count_param(ps, ps[j].type) = 1
    BY <1>1, <2>2, CountedOnce, Zenon
  <2> QED  BY <2>1, <2>3, Zenon
<1>6. tlv_count_param(ps, cpCwComb) \in 1 .. Many
  <2>1. cpCwComb \in TypesIn(ps)
    BY <1>1, <1>4, Zenon DEF TypesIn, Leads
  <2> QED  BY <1>1, <2>1, CountedMany, Zenon
<1>7. ASSUME NEW t \in U PROVE tlv_count_param(ps, t) = 0
  <2>1. \A i \in 1 .. k : ps[i].type \in T \cup {cpCwComb}
    BY <1>1, <1>2, Zenon DEF Leads
  <2>2. t \notin TypesIn(ps)
    BY <1>1, <1>3, <2>1, Zenon DEF TypesIn
  <2> QED  BY <2>2, CountedNever, Zenon
<1>8. RulesOf(m) = (Once(T) \cup Ever(cpCwComb)) \cup AtMostOnce(U)
  BY DEF RulesOf, ecmg_params
<1>9. ASSUME NEW r \in RulesOf(m) PROVE tlv_validate_count_param(ps, r)
  <2>1. CASE r \in Once(T)
    <3>1. r[1] \in T /\ r[2] = 1 /\ r[3] = 1
      BY <2>1 DEF Once
    <3>2. tlv_count_param(ps, r[1]) = 1
      BY <1>5, <3>1, Zenon
    <3>3. 1 \in 1 .. 1
      OBVIOUS
    <3> QED  BY <3>1, <3>2, <3>3, Zenon DEF tlv_validate_count_param
  <2>2. CASE r \in Ever(cpCwComb)
    <3>1. r[1] = cpCwComb /\ r[2] = 1 /\ r[3] = Many
      BY <2>2 DEF Ever
    <3> QED  BY <1>6, <3>1, Zenon DEF tlv_validate_count_param
  <2>3. CASE r \in AtMostOnce(U)
    <3>1. r[1] \in U /\ r[2] = 0 /\ r[3] = 1
      BY <2>3 DEF AtMostOnce
    <3>2. tlv_count_param(ps, r[1]) = 0
      BY <1>7, <3>1, Zenon
    <3>3. 0 \in 0 .. 1
      OBVIOUS
    <3> QED  BY <3>1, <3>2, <3>3, Zenon DEF tlv_validate_count_param
  <2> QED  BY <1>8, <2>1, <2>2, <2>3, Zenon
<1>10. \A i \in DOMAIN ps : LongEnough(m, ps[i])
  BY Zenon DEF LongEnough, Sound
<1> QED  BY <1>9, <1>10, Zenon DEF Valid

LEMMA CwIsWorded ==
  ASSUME NEW v, NEW n \in 0 .. 255
  PROVE  Worded(send_cw(v, n))
<1>1. PICK m : m = send_cw(v, n)
  OBVIOUS
<1>2. PICK a, b, c : a = Number(channelId, 65535) /\ b = Number(streamId, 258)
                     /\ c = Number(cpNumber, 255)
  BY SMT
<1>3. Makes(a, channelId) /\ Makes(b, streamId) /\ Makes(c, cpNumber)
  BY SMT, <1>2, NumbersMade
<1>4. PICK ws : ws = [i \in 1 .. n |-> ControlWord(n, 1, i)]
  OBVIOUS
<1>5. \A i \in 1 .. n : Makes(ws[i], cpCwComb) /\ Len(ws[i].value) = 10
  BY <1>4, ControlWordIs, Zenon
<1>6. ws \in Seq(Parameters) /\ Len(ws) = n
  <2>1. \A i \in 1 .. n : ws[i] \in Parameters
    BY <1>5, Zenon DEF Makes, Sound
  <2>2. ws \in [1 .. n -> Parameters] /\ n \in Nat
    BY <1>4, <2>1
  <2> QED  BY ONLY <2>2
<1>7. PICK cs : cs = <<a, b>> \o (<<c>> \o ws)
  OBVIOUS
<1>8. m.calls = cs
  BY SMT, <1>1, <1>2, <1>4, <1>7 DEF send_cw, Own, ForStream
<1>9. a \in Parameters /\ b \in Parameters /\ c \in Parameters
  BY <1>3, Zenon DEF Makes, Sound
<1>10. /\ cs \in Seq(Parameters) /\ Len(cs) = n + 3 /\ cs[1] = a /\ cs[2] = b /\ cs[3] = c
       /\ \A i \in 4 .. n + 3 : cs[i] = ws[i - 3]
  <2>1. PICK ds : ds = <<c>> \o ws
    OBVIOUS
  <2>2. /\ ds \in Seq(Parameters) /\ Len(ds) = n + 1 /\ ds[1] = c
        /\ \A i \in 2 .. n + 1 : ds[i] = ws[i - 1]
    BY ONLY <1>6, <1>9, <2>1, n \in 0 .. 255
  <2>3. /\ cs \in Seq(Parameters) /\ Len(cs) = n + 3 /\ cs[1] = a /\ cs[2] = b
        /\ \A i \in 3 .. n + 3 : cs[i] = ds[i - 2]
    <3>1. cs = <<a, b>> \o ds
      BY <1>7, <2>1
    <3>2. PICK ab : ab = <<a, b>>
      OBVIOUS
    <3>3. ab \in Seq(Parameters) /\ Len(ab) = 2 /\ ab[1] = a /\ ab[2] = b
      BY ONLY <1>9, <3>2
    <3>4. cs \in Seq(Parameters) /\ Len(cs) = 2 + (n + 1)
      BY ONLY <2>2, <3>1, <3>2, <3>3, n \in 0 .. 255
    <3>5. /\ cs[1] = ab[1] /\ cs[2] = ab[2]
          /\ \A i \in 3 .. n + 3 : cs[i] = ds[i - 2]
      BY ONLY <2>2, <3>1, <3>2, <3>3, n \in 0 .. 255
    <3>6. 2 + (n + 1) = n + 3
      OBVIOUS
    <3> QED  BY <3>3, <3>4, <3>5, <3>6, Zenon
  <2>4. ASSUME NEW i \in 4 .. n + 3 PROVE cs[i] = ws[i - 3]
    <3>1. i \in 3 .. n + 3 /\ i - 2 \in 2 .. n + 1 /\ (i - 2) - 1 = i - 3
      OBVIOUS
    <3>2. cs[i] = ds[i - 2] /\ ds[i - 2] = ws[(i - 2) - 1]
      BY <2>2, <2>3, <3>1, Zenon
    <3> QED  BY <3>1, <3>2, Zenon
  <2>5. cs[3] = ds[1]
    <3>1. 3 \in 3 .. n + 3 /\ 3 - 2 = 1
      OBVIOUS
    <3> QED  BY <2>3, <3>1, Zenon
  <2> QED  BY <2>2, <2>3, <2>4, <2>5, Zenon
<1>11. /\ DOMAIN cs = 1 .. n + 3
       /\ \A i \in 1 .. n + 3 : i = 1 \/ i = 2 \/ i = 3 \/ (i \in 4 .. n + 3 /\ i - 3 \in 1 .. n)
       /\ \A i \in 4 .. n + 3 : i - 3 \in 1 .. n
  BY <1>10
<1>12. Makes(cs[1], channelId) /\ Makes(cs[2], streamId) /\ Makes(cs[3], cpNumber)
  BY <1>3, <1>10, Zenon
<1>13. \A i \in 4 .. n + 3 : Makes(cs[i], cpCwComb) /\ Len(cs[i].value) = 10
  <2>1. ASSUME NEW i \in 4 .. n + 3 PROVE Makes(cs[i], cpCwComb) /\ Len(cs[i].value) = 10
    <3>1. cs[i] = ws[i - 3] /\ i - 3 \in 1 .. n
      BY <1>10, <1>11, Zenon
    <3> QED  BY <1>5, <3>1, Zenon
  <2> QED  BY <2>1, Zenon
<1>14. Len(cs[1].value) = 2 /\ Len(cs[2].value) = 2 /\ Len(cs[3].value) = 2
  <2>1. channelId \notin SmallTypes /\ streamId \notin SmallTypes /\ cpNumber \notin SmallTypes
    BY SMT DEF SmallTypes, superCasId, sectionTsPkt, leadCw, cwPerMsg, accessCritMode, accessCrit,
               cpCwComb, ecm, cwEncrypt, channelId, streamId, cpNumber
  <2>2. ecmg_size(channelId) = 2 /\ ecmg_size(streamId) = 2 /\ ecmg_size(cpNumber) = 2
    BY <2>1, Zenon DEF ecmg_size, SmallTypes
  <2>3. \A t, v2 : Number(t, v2).value = Encoded(v2, ecmg_size(t))
    BY DEF Number, Param
  <2>4. \A v2 \in Nat : Len(Encoded(v2, 2)) = 2
    <3>1. 2 \in 0 .. 4
      OBVIOUS
    <3> QED  BY <3>1, EncodedIs, Zenon
  <2> QED  BY SMT, <1>2, <1>10, <2>2, <2>3, <2>4
<1>15. \A i \in DOMAIN cs : /\ Sound(cs[i]) /\ Len(cs[i].value) = IF i <= 3 THEN 2 ELSE 10
                            /\ i > 3 => cs[i].type = cpCwComb
  <2>1. ASSUME NEW i \in 4 .. n + 3
        PROVE  ~ (i <= 3) /\ Sound(cs[i]) /\ cs[i].type = cpCwComb /\ Len(cs[i].value) = 10
    <3>1. ~ (i <= 3)
      OBVIOUS
    <3> QED  BY <1>13, <3>1, Zenon DEF Makes
  <2>2. 1 <= 3 /\ 2 <= 3 /\ 3 <= 3 /\ ~ (1 > 3) /\ ~ (2 > 3) /\ ~ (3 > 3)
    OBVIOUS
  <2>3. Sound(cs[1]) /\ Sound(cs[2]) /\ Sound(cs[3])
    BY <1>12, Zenon DEF Makes
  <2> QED  BY <1>11, <1>14, <2>1, <2>2, <2>3, Zenon
<1>16. m.intf = "ecmg" /\ m.type = "cw" /\ m.room = 1019 /\ m.length = 1020
  BY SMT, <1>1 DEF send_cw, Own, MaxTlvSize
<1>17. ASSUME NEW k \in 4 .. n + 3 PROVE Valid(m, SubSeq(cs, 1, k))
  <2>1. PICK ps : ps = SubSeq(cs, 1, k)
    OBVIOUS
  <2>2. /\ ps \in Seq(Parameters) /\ Len(ps) = k /\ DOMAIN ps = 1 .. k
        /\ \A i \in 1 .. k : ps[i] = cs[i] /\ i \in 1 .. n + 3
    BY ONLY <1>10, <2>1, n \in 0 .. 255, k \in 4 .. n + 3
  <2>3. Leads(ps)
    <3>1. 1 \in 1 .. k /\ 2 \in 1 .. k /\ 3 \in 1 .. k
      OBVIOUS
    <3>2. \A i \in 1 .. k : i > 3 => ps[i].type = cpCwComb
      BY <1>11, <1>15, <2>2, Zenon
    <3> QED  BY <1>12, <2>2, <3>1, <3>2, Zenon DEF Leads, Makes
  <2>4. \A i \in DOMAIN ps : Sound(ps[i])
    BY <1>11, <1>15, <2>2, Zenon
  <2>5. k \in Nat /\ k >= 4 /\ k <= Many
    BY SMT DEF Many
  <2>6. Valid(m, ps)
    <3>1. m.intf = "ecmg" /\ m.type = "cw"
      BY <1>16
    <3>2. ps \in Seq(Parameters) /\ Len(ps) = k
      BY <2>2
    <3> QED  BY <2>3, <2>4, <2>5, <3>1, <3>2, WordsAreValid, Zenon
  <2> QED  BY <2>1, <2>6, Zenon
<1>18. n = 0 => Wordless(m)
  <2>1. CASE n = 0
    <3>1. \A i \in DOMAIN cs : i = 1 \/ i = 2 \/ i = 3
      BY <1>11, <2>1
    <3>2. channelId # cpCwComb /\ streamId # cpCwComb /\ cpNumber # cpCwComb
      BY SMT DEF channelId, streamId, cpNumber, cpCwComb
    <3>3. cs[1].type # cpCwComb /\ cs[2].type # cpCwComb /\ cs[3].type # cpCwComb
      BY <1>12, <3>2, Zenon DEF Makes
    <3>4. \A i \in DOMAIN cs : cs[i].type # cpCwComb
      BY <3>1, <3>3, Zenon
    <3>5. m.type = "cw"
      BY SMT, <1>16
    <3> QED  BY <1>8, <3>4, <3>5, Zenon DEF Wordless
  <2> QED  BY <2>1
<1>19. Worded(m)
  <2>1. Len(cs) >= 3 /\ (Len(cs) = 3 => n = 0)
    BY ONLY <1>10, n \in 0 .. 255
  <2> QED  BY <1>8, <1>10, <1>15, <1>16, <1>17, <1>18, <2>1 DEF Worded
<1> QED  BY <1>1, <1>19, Zenon

LEMMA OwnMessageIs ==
  ASSUME NEW m \in OwnMessages
  PROVE  Plain(m) \/ Worded(m)
<1>1. CASE \E v \in Versions :
             m \in {send_channel_status(v), send_channel_test(v), send_channel_error(v),
                    send_stream_status(v), send_stream_close(v), send_stream_error(v),
                    send_ecm(v), send_channel_setup(v), send_stream_setup(v)}
  BY <1>1, ChannelStatusIsPlain, ChannelTestIsPlain, ChannelErrorIsPlain, StreamStatusIsPlain,
     StreamCloseIsPlain, StreamErrorIsPlain, EcmIsPlain, ChannelSetupIsPlain,
     StreamSetupIsPlain, Zenon
<1>2. CASE \E v \in Versions : \E n \in ControlWords : m = send_cw(v, n)
  <2>1. PICK v \in Versions, n \in ControlWords : m = send_cw(v, n)
    BY <1>2
  <2>2. n \in 0 .. 255
    BY MessagesAssumption
  <2>3. Worded(send_cw(v, n))
    BY <2>2, CwIsWorded, Zenon
  <2> QED  BY <2>1, <2>3, Zenon
<1> DEFINE Others9(v) == {send_channel_status(v), send_channel_test(v), send_channel_error(v),
                          send_stream_status(v), send_stream_close(v), send_stream_error(v),
                          send_ecm(v), send_channel_setup(v), send_stream_setup(v)}
           A == UNION {Others9(v) : v \in Versions}
           B == {send_cw(v, n) : v \in Versions, n \in ControlWords}
<1>3. m \in A \/ m \in B
  BY DEF OwnMessages
<1>4. CASE m \in A
  <2>1. \E v \in Versions : m \in Others9(v)
    <3> HIDE DEF Others9
    <3> QED  BY <1>4, Zenon
  <2> QED  BY <1>1, <2>1
<1>5. CASE m \in B
  <2>1. \E v \in Versions : \E n \in ControlWords : m = send_cw(v, n)
    BY <1>5
  <2> QED  BY <1>2, <2>1
<1> HIDE DEF A, B
<1> QED  BY <1>3, <1>4, <1>5

(* How much of a message ps is, of which td is still to be appended.       *)
Held == 74
Filled(j) == IF j <= 3 THEN 6 * j ELSE 14 * j - 24
Composed(m, td, ps) ==
  /\ td \in Seq(Parameters) /\ ps \in Seq(Parameters)
  /\ Len(td) <= Len(m.calls)
  /\ \A i \in 1 .. Len(td) : td[i] = m.calls[Len(m.calls) - Len(td) + i]
  /\ Len(ps) <= Len(m.calls) - Len(td)
  /\ \A i \in 1 .. Len(ps) : ps[i] = m.calls[i]
  /\ \/ /\ Plain(m)
        /\ Len(ps) = Len(m.calls) - Len(td) /\ Size(ps) <= 23 * Len(ps)
     \/ /\ Worded(m)
        /\ Len(ps) = Len(m.calls) - Len(td) \/ Len(ps) = Held
        /\ Len(ps) <= Held /\ Size(ps) = Filled(Len(ps))

LEMMA NothingComposed ==
  ASSUME NEW m, Plain(m) \/ Worded(m)
  PROVE  Composed(m, m.calls, <<>>)
<1>1. PICK cs : cs = m.calls
  OBVIOUS
<1>2. cs \in Seq(Parameters)
  BY <1>1 DEF Plain, Worded
<1>3. Len(cs) \in Nat /\ \A i \in 1 .. Len(cs) : i = Len(cs) - Len(cs) + i
  BY <1>2
<1>4. /\ <<>> \in Seq(Parameters) /\ Len(<<>>) = 0 /\ 1 .. 0 = {} /\ Len(cs) - Len(cs) = 0
      /\ 0 <= 23 * 0 /\ 0 <= 0 /\ Filled(0) = 0 /\ 0 <= Held
  BY <1>3 DEF Filled, Held
<1>5. Size(<<>>) = 0
  BY SizeOfNone
<1>6. Len(cs) <= Len(cs)
  BY <1>3
<1> QED  BY <1>1, <1>2, <1>3, <1>4, <1>5, <1>6 DEF Composed

(* The next parameter: where it fits, and that it does.                    *)
LEMMA OneMoreComposed ==
  ASSUME NEW m, NEW td, NEW ps, Composed(m, td, ps), td # <<>>,
         NEW qs, qs = IF Header + Size(ps) + Len(Head(td).value) + Mark <= m.length
                        THEN Append(ps, Head(td)) ELSE ps
  PROVE  Composed(m, Tail(td), qs)
<1>1. PICK cs, k, j, n : cs = m.calls /\ k = Len(td) /\ j = Len(ps) /\ n = Len(cs)
  OBVIOUS
<1>2. /\ td \in Seq(Parameters) /\ ps \in Seq(Parameters) /\ cs \in Seq(Parameters)
      /\ k \in Nat \ {0} /\ j \in Nat /\ n \in Nat /\ k <= n /\ j <= n - k
      /\ \A i \in 1 .. k : td[i] = cs[n - k + i]
      /\ \A i \in 1 .. j : ps[i] = cs[i]
  BY <1>1 DEF Composed, Plain, Worded
<1>3. PICK p : p = cs[n - k + 1]
  OBVIOUS
<1>4. p \in Parameters /\ Head(td) = p /\ Len(p.value) \in Nat
  <2>1. 1 \in 1 .. k /\ n - k + 1 \in 1 .. n
    BY <1>2
  <2>2. Head(td) = p
    BY <1>2, <1>3, <2>1
  <2>3. p \in Parameters
    BY <1>1, <1>2, <1>3, <2>1
  <2>4. \A q \in Parameters : Len(q.value) \in Nat
    BY DEF Parameters
  <2> QED  BY <2>2, <2>3, <2>4, Zenon
<1>5. PICK l, z : l = Len(p.value) /\ z = Size(ps)
  OBVIOUS
<1>6. l \in Nat /\ z \in Nat /\ Size(Append(ps, p)) = z + 4 + l
  BY <1>2, <1>4, <1>5, SizeMore DEF Header
<1>7. /\ Tail(td) \in Seq(Parameters) /\ Len(Tail(td)) = k - 1
      /\ \A i \in 1 .. k - 1 : Tail(td)[i] = cs[n - (k - 1) + i]
  <2>1. Tail(td) \in Seq(Parameters) /\ Len(Tail(td)) = k - 1
    BY <1>1, <1>2
  <2>2. ASSUME NEW i \in 1 .. k - 1 PROVE Tail(td)[i] = cs[n - (k - 1) + i]
    <3>1. Tail(td)[i] = td[i + 1]
      BY <1>1, <1>2
    <3>2. i + 1 \in 1 .. k /\ n - k + (i + 1) = n - (k - 1) + i
      BY <1>2
    <3> QED  BY <1>2, <3>1, <3>2, Zenon
  <2> QED  BY <2>1, <2>2
<1>8. qs = IF 4 + z + l + 2 <= m.length THEN Append(ps, p) ELSE ps
  BY <1>4, <1>5, Zenon DEF Header, Mark
<1>9. /\ Append(ps, p) \in Seq(Parameters) /\ Len(Append(ps, p)) = j + 1
      /\ n - k = j => \A i \in 1 .. j + 1 : Append(ps, p)[i] = cs[i]
  BY ONLY <1>1, <1>2, <1>3, <1>4
<1> DEFINE Rest(o) == /\ Len(Tail(td)) <= n
                      /\ o \in Seq(Parameters) /\ Len(o) <= n - Len(Tail(td))
                      /\ \A i \in 1 .. Len(o) : o[i] = cs[i]
<1>10. CASE Plain(m) /\ j = n - k /\ z <= 23 * j
  <2>1. l <= 19 /\ n <= 10 /\ m.length \in Nat /\ m.length >= 1000
    <3>1. n - k + 1 \in DOMAIN cs
      BY <1>1, <1>2
    <3> QED  BY <1>1, <1>3, <1>5, <1>10, <3>1 DEF Plain, Sound
  <2>2. 4 + z + l + 2 <= m.length /\ z + 4 + l <= 23 * (j + 1)
    BY ONLY <1>2, <1>6, <1>10, <2>1
  <2>3. qs = Append(ps, p)
    BY <1>8, <2>2
  <2>4. Len(qs) = n - (k - 1) /\ Size(qs) <= 23 * Len(qs) /\ k - 1 <= n /\ Len(qs) <= n - (k - 1)
    BY ONLY <1>2, <1>6, <1>9, <1>10, <2>2, <2>3
  <2>5. qs \in Seq(Parameters) /\ \A i \in 1 .. Len(qs) : qs[i] = cs[i]
    BY <1>9, <1>10, <2>3
  <2> QED  BY <1>1, <1>7, <1>10, <2>4, <2>5 DEF Composed
<1>11. CASE Worded(m) /\ (j = n - k \/ j = Held) /\ j <= Held /\ z = Filled(j)
  <2>1. m.length = 1020 /\ l = IF n - k + 1 <= 3 THEN 2 ELSE 10
    <3>1. n - k + 1 \in DOMAIN cs
      BY <1>1, <1>2
    <3> QED  BY SMT, <1>1, <1>3, <1>5, <1>11, <3>1 DEF Worded
  <2>2. CASE j < Held
    <3>1. j = n - k
      BY <1>11, <2>2 DEF Held
    <3>2. 4 + z + l + 2 <= 1020 /\ z + 4 + l = Filled(j + 1)
      BY ONLY SMT, <1>2, <1>11, <2>1, <2>2, <3>1 DEF Filled, Held
    <3>3. qs = Append(ps, p)
      BY SMT, <1>8, <2>1, <3>2
    <3>4. /\ Len(qs) = n - (k - 1) /\ Size(qs) = Filled(Len(qs)) /\ k - 1 <= n
          /\ Len(qs) <= n - (k - 1) /\ Len(qs) <= Held
      <4>1. Len(qs) = j + 1 /\ Size(qs) = Filled(j + 1)
        BY <1>6, <1>9, <3>2, <3>3
      <4> QED  BY ONLY <1>2, <2>2, <3>1, <4>1 DEF Held
    <3>5. qs \in Seq(Parameters) /\ \A i \in 1 .. Len(qs) : qs[i] = cs[i]
      BY <1>9, <3>1, <3>3
    <3> QED  BY SMT, <1>1, <1>7, <1>11, <3>4, <3>5 DEF Composed
  <2>3. CASE j = Held
    <3>1. l = 10 /\ z = 1012 /\ ~ (4 + z + l + 2 <= 1020)
      <4>1. j = 74 /\ n - k >= 74
        BY <1>2, <2>3 DEF Held
      <4>2. l = 10
        BY ONLY <1>2, <2>1, <4>1
      <4>3. z = 1012
        BY <1>11, <4>1 DEF Filled
      <4> QED  BY ONLY <4>2, <4>3
    <3>2. qs = ps
      BY SMT, <1>8, <2>1, <3>1
    <3>3. Len(qs) = Held /\ k - 1 <= n /\ Len(qs) <= n - (k - 1) /\ Size(qs) = Filled(Len(qs))
      <4>1. Len(qs) = j /\ Size(qs) = z
        BY <1>1, <1>5, <3>2, Zenon
      <4>2. k - 1 <= n /\ j <= n - (k - 1)
        BY <1>2
      <4> QED  BY <1>11, <2>3, <4>1, <4>2, Zenon
    <3> QED  BY SMT, <1>1, <1>2, <1>7, <1>11, <3>2, <3>3 DEF Composed
  <2> QED  BY <1>2, <1>11, <2>2, <2>3 DEF Held
<1>12. \/ Plain(m) /\ j = n - k /\ z <= 23 * j
       \/ Worded(m) /\ (j = n - k \/ j = Held) /\ j <= Held /\ z = Filled(j)
  BY <1>1, <1>5 DEF Composed
<1> QED  BY <1>10, <1>11, <1>12

(* What is composed to the end is let through, or was to hold words and     *)
(* has none.                                                               *)
LEMMA ComposedIsValid ==
  ASSUME NEW m, NEW ps, Composed(m, <<>>, ps)
  PROVE  Valid(m, ps) \/ Wordless(m)
<1>1. PICK cs, j, n : cs = m.calls /\ j = Len(ps) /\ n = Len(cs)
  OBVIOUS
<1>2. /\ ps \in Seq(Parameters) /\ cs \in Seq(Parameters) /\ j \in Nat /\ n \in Nat /\ j <= n
      /\ \A i \in 1 .. j : ps[i] = cs[i]
  BY <1>1 DEF Composed, Plain, Worded
<1>3. CASE Plain(m) /\ j = n
  <2>1. ps = cs
    BY <1>1, <1>2, <1>3, SameSequence
  <2> QED  BY <1>1, <1>3, <2>1, Zenon DEF Plain
<1>4. CASE Worded(m) /\ (j = n \/ j = Held)
  <2>1. /\ n >= 3 /\ Held = 74 /\ (n = 3 => Wordless(m))
        /\ \A k \in 4 .. n : Valid(m, SubSeq(cs, 1, k))
    BY <1>1, <1>4 DEF Worded, Held
  <2>2. CASE n = 3
    BY <2>1, <2>2
  <2>3. CASE n # 3
    <3>1. j \in 4 .. n
      BY ONLY <1>2, <1>4, <2>1, <2>3
    <3>2. ps = SubSeq(cs, 1, j)
      BY ONLY <1>1, <1>2
    <3>3. Valid(m, SubSeq(cs, 1, j))
      BY <2>1, <3>1, Zenon
    <3> QED  BY <3>2, <3>3, Zenon
  <2> QED  BY <2>2, <2>3
<1>5. (Plain(m) /\ j = n) \/ (Worded(m) /\ (j = n \/ j = Held))
  <2>1. Len(<<>>) = 0 /\ n - 0 = n
    BY <1>2
  <2> QED  BY <1>1, <2>1 DEF Composed
<1> QED  BY <1>3, <1>4, <1>5

(* The inductive invariant.                                                *)
IsForeign == Kind(message) /\ message.room = 0 /\ Parametered(params)
MessageInv ==
  /\ stage = "composing" => declared = message.length /\ Composed(message, todo, params)
  /\ stage = "foreign" => IsForeign
  /\ stage \in {"sent", "accepted", "refused"} => IsForeign \/ Composed(message, <<>>, params)
  /\ stage = "accepted" => Valid(message, params)
  /\ stage = "refused" => message.room = 0 \/ Wordless(message)

LEMMA OwnIsRoomy ==
  ASSUME NEW m, Plain(m) \/ Worded(m)
  PROVE  Kind(m) /\ m.room > 0 /\ m.intf = "ecmg"
<1>1. CASE Plain(m)
  BY <1>1 DEF Plain, Kind
<1>2. CASE Worded(m)
  BY <1>2 DEF Worded, Kind, EcmgTypes
<1> QED  BY <1>1, <1>2

LEMMA MessageInvKeepsMessages == MessageInv => MessageKept
<1> SUFFICES ASSUME MessageInv PROVE MessageKept
  OBVIOUS
<1>1. ASSUME stage = "composing"
      PROVE  Header + Size(params) + Mark <= message.room
  <2>1. Composed(message, todo, params)
    BY <1>1 DEF MessageInv
  <2>2. PICK j \in Nat, z \in Nat : j = Len(params) /\ z = Size(params)
    <3>1. params \in Seq(Parameters)
      BY <2>1 DEF Composed
    <3>2. [type |-> 0, number |-> 0, value |-> <<>>] \in Parameters
      BY DEF Parameters
    <3>3. Size(params) \in Nat
      BY <3>1, <3>2, SizeMore, Zenon
    <3> QED  BY <3>1, <3>3
  <2>3. CASE Plain(message) /\ z <= 23 * j /\ j <= Len(message.calls)
    <3>1. j <= 10 /\ message.room \in Nat /\ message.room >= 1000
      BY <2>2, <2>3 DEF Plain
    <3>2. 4 + z + 2 <= message.room
      BY ONLY <2>2, <2>3, <3>1
    <3> QED  BY <2>2, <3>2, Zenon DEF Header, Mark
  <2>4. CASE Worded(message) /\ j <= Held /\ z = Filled(j)
    <3>1. message.room = 1019
      BY <2>4 DEF Worded
    <3>2. 4 + z + 2 <= 1019
      BY ONLY SMT, <2>2, <2>4 DEF Held, Filled
    <3> QED  BY SMT, <2>2, <3>1, <3>2 DEF Header, Mark
  <2>5. Len(params) <= Len(message.calls)
    BY <2>1 DEF Composed, Plain, Worded
  <2> QED  BY <2>1, <2>2, <2>3, <2>4, <2>5, Zenon DEF Composed
<1>2. ASSUME stage = "sent", message.room > 0
      PROVE  /\ IsPrefix(params, message.calls)
             /\ \A i \in DOMAIN message.calls \ DOMAIN params : message.calls[i].type = cpCwComb
             /\ \A i \in DOMAIN params : NumberOf(params[i]) = params[i].number
  <2>1. Composed(message, <<>>, params)
    BY <1>2 DEF MessageInv, IsForeign
  <2>2. PICK cs, j, n : cs = message.calls /\ j = Len(params) /\ n = Len(cs)
    OBVIOUS
  <2>3. /\ params \in Seq(Parameters) /\ cs \in Seq(Parameters) /\ j \in Nat /\ n \in Nat /\ j <= n
        /\ \A i \in 1 .. j : params[i] = cs[i]
        /\ Plain(message) \/ Worded(message)
    BY <2>1, <2>2 DEF Composed, Plain, Worded
  <2>4. IsPrefix(params, message.calls)
    <3>1. SubSeq(params, 1, j) = params /\ SubSeq(cs, 1, j) = params
      BY ONLY <2>2, <2>3
    <3> QED  BY <2>2, <2>3, <3>1, Zenon DEF IsPrefix
  <2>5. ASSUME NEW i \in DOMAIN cs \ DOMAIN params PROVE cs[i].type = cpCwComb
    <3>1. j # n
      BY <2>2, <2>3
    <3>2. Len(<<>>) = 0 /\ n - 0 = n
      BY <2>3
    <3>3. Worded(message) /\ j = Held
      BY <2>1, <2>2, <3>1, <3>2 DEF Composed
    <3>4. DOMAIN cs = 1 .. n /\ DOMAIN params = 1 .. j
      BY <2>2, <2>3
    <3>5. i \in 1 .. n /\ ~ (i \in 1 .. j)
      BY <2>5, <3>4
    <3>6. i > 3
      BY ONLY <2>3, <3>3, <3>4, <3>5 DEF Held
    <3>7. i > 3 => cs[i].type = cpCwComb
      BY <2>2, <3>3, <3>4, <3>5 DEF Worded
    <3> QED  BY <3>6, <3>7
  <2>6. ASSUME NEW i \in DOMAIN params PROVE NumberOf(params[i]) = params[i].number
    <3>1. i \in DOMAIN cs /\ params[i] = cs[i]
      BY <2>2, <2>3
    <3>2. Sound(cs[i]) /\ message.intf = "ecmg"
      BY <2>2, <2>3, <3>1 DEF Plain, Worded
    <3>3. SizeOf(message, params[i].type) = ecmg_size(params[i].type)
      BY <3>2, Zenon DEF SizeOf
    <3> QED  BY <3>1, <3>2, <3>3, Zenon DEF NumberOf, Sound, ReadAsGiven
  <2> QED  BY <2>2, <2>4, <2>5, <2>6, Zenon
<1>3. stage = "refused" => message.room = 0 \/ Wordless(message)
  BY DEF MessageInv
<1>4. ASSUME stage = "accepted", NEW t \in CountedOn
      PROVE  /\ tlv_count_param(params, t) > 0
             /\ Len(tlv_find_param(params, t).value) >= SizeOf(message, t)
  <2>1. Valid(message, params)
    BY <1>4 DEF MessageInv
  <2>2. Kind(message) /\ Parametered(params)
    <3>1. CASE IsForeign
      BY <3>1 DEF IsForeign
    <3>2. CASE Composed(message, <<>>, params)
      <4>1. params \in Seq(Parameters) /\ (Plain(message) \/ Worded(message))
        BY <3>2 DEF Composed
      <4>2. params \in Seq(Typed(Nat))
        BY <4>1, Zenon DEF Typed, Parameters
      <4> QED  BY <4>1, <4>2, OwnIsRoomy, Zenon DEF Parametered
    <3> QED  BY <1>4, <3>1, <3>2 DEF MessageInv
  <2>3. PICK T : params \in Seq(Typed(T))
    BY <2>2, Zenon DEF Parametered
  <2>4. \A p \in Typed(T) : p.value \in Seq(Nat)
    BY DEF Typed
  <2>5. t \in handled(message, params) \cup Needed(message)
    BY <1>4, Zenon DEF CountedOn
  <2> QED  BY <2>1, <2>2, <2>3, <2>4, <2>5, LookedUp, Zenon
<1> QED
  BY <1>1, <1>2, <1>3, <1>4, Zenon DEF MessageKept

LEMMA InitMessageInv == ASSUME ConversionInit PROVE MessageInv
<1>1. CASE MessageIdle
  <2>1. stage = "none"
    BY <1>1 DEF MessageIdle
  <2> QED  BY <2>1 DEF MessageInv
<1>2. ASSUME NEW m \in OwnMessages, Compose(m) PROVE MessageInv
  <2>1. /\ message = m /\ stage = "composing" /\ todo = m.calls /\ params = <<>>
        /\ declared = m.length
    BY <1>2 DEF Compose
  <2>2. Composed(m, m.calls, <<>>)
    BY <1>2, OwnMessageIs, NothingComposed, Zenon
  <2> QED  BY <2>1, <2>2 DEF MessageInv
<1>3. ASSUME NEW m, Foreign(m), Kind(m), m.room = 0 PROVE MessageInv
  <2>1. message = m /\ stage = "foreign"
    BY <1>3 DEF Foreign
  <2>2. Parametered(params)
    BY <1>3, ForeignIsParametered, Zenon
  <2> QED  BY <1>3, <2>1, <2>2 DEF MessageInv, IsForeign
<1>4. CASE \E m \in OwnMessages : Compose(m)
  BY <1>2, <1>4
<1>5. CASE \E v \in Versions, t \in EcmgTypes : Foreign(Others("ecmg", t, v))
  <2>1. PICK v \in Versions, t \in EcmgTypes : Foreign(Others("ecmg", t, v))
    BY <1>5
  <2>2. PICK m : m = Others("ecmg", t, v)
    OBVIOUS
  <2>3. m.intf = "ecmg" /\ m.type = t /\ m.room = 0
    BY <2>2 DEF Others
  <2> QED  BY <1>3, <2>1, <2>2, <2>3, Zenon DEF Kind
<1>6. CASE \E t \in EmmgTypes : Foreign(Others("emmg", t, 1))
  <2>1. PICK t \in EmmgTypes : Foreign(Others("emmg", t, 1))
    BY <1>6
  <2>2. PICK m : m = Others("emmg", t, 1)
    OBVIOUS
  <2>3. m.intf = "emmg" /\ m.type = t /\ m.room = 0
    BY <2>2 DEF Others
  <2> QED  BY <1>3, <2>1, <2>2, <2>3, Zenon DEF Kind
<1> QED
  BY <1>1, <1>4, <1>5, <1>6, Zenon DEF ConversionInit, MessageInit

LEMMA StepMessageInv ==
  ASSUME MessageInv, [ConversionNext]_conversionVars PROVE MessageInv'
<1>1. CASE AppendParam
  <2>1. /\ stage = "composing" /\ todo # <<>> /\ todo' = Tail(todo)
        /\ params' = IF Fits(Head(todo)) THEN Append(params, Head(todo)) ELSE params
        /\ UNCHANGED <<message, stage, declared>>
    BY <1>1 DEF AppendParam
  <2>2. declared = message.length /\ Composed(message, todo, params)
    BY <2>1 DEF MessageInv
  <2>3. params' = IF Header + Size(params) + Len(Head(todo).value) + Mark <= message.length
                    THEN Append(params, Head(todo)) ELSE params
    BY <2>1, <2>2, Zenon DEF Fits
  <2>4. PICK m, qs, td : m = message /\ qs = params' /\ td = todo
    OBVIOUS
  <2>5. Composed(m, Tail(td), qs)
    BY <2>1, <2>2, <2>3, <2>4, OneMoreComposed, Zenon
  <2>6. Composed(message', todo', params')
    BY <2>1, <2>4, <2>5
  <2> QED  BY <2>1, <2>2, <2>6 DEF MessageInv
<1>2. CASE Send
  <2>1. stage = "composing" /\ todo = <<>> /\ stage' = "sent" /\ UNCHANGED <<message, todo, params>>
    BY <1>2 DEF Send
  <2>2. Composed(message, <<>>, params)
    BY <2>1 DEF MessageInv
  <2>3. Composed(message', <<>>, params')
    BY <2>1, <2>2, Zenon
  <2> QED  BY <2>1, <2>3 DEF MessageInv
<1>3. CASE Spoil
  <2>1. stage = "foreign" /\ UNCHANGED <<message, stage>>
    BY <1>3 DEF Spoil
  <2>2. PICK i \in DOMAIN params : params' \in Worse(i)
    BY <1>3 DEF Spoil
  <2>3. Kind(message) /\ message.room = 0 /\ Parametered(params)
    BY <2>1 DEF MessageInv, IsForeign
  <2>4. PICK ps : ps = params'
    OBVIOUS
  <2>5. Parametered(ps)
    BY <2>2, <2>3, <2>4, WorseIsParametered, Zenon
  <2>6. Kind(message') /\ message'.room = 0 /\ Parametered(params')
    BY <2>1, <2>3, <2>4, <2>5, Zenon
  <2> QED  BY <2>1, <2>6 DEF MessageInv, IsForeign
<1>4. CASE Deliver
  <2>1. stage = "foreign" /\ stage' = "sent" /\ UNCHANGED <<message, params>>
    BY <1>4 DEF Deliver
  <2>2. Kind(message') /\ message'.room = 0 /\ Parametered(params')
    BY <2>1, Zenon DEF MessageInv, IsForeign
  <2> QED  BY <2>1, <2>2 DEF MessageInv, IsForeign
<1>5. CASE Validate
  <2>1. /\ stage = "sent" /\ UNCHANGED <<message, params>>
        /\ stage' = IF Valid(message, params) THEN "accepted" ELSE "refused"
    BY <1>5 DEF Validate
  <2>2. IsForeign \/ Composed(message, <<>>, params)
    BY <2>1 DEF MessageInv
  <2>3. IsForeign' \/ Composed(message', <<>>, params')
    BY <2>1, <2>2, Zenon DEF IsForeign
  <2>4. Valid(message, params) \/ message.room = 0 \/ Wordless(message)
    BY <2>2, ComposedIsValid, Zenon DEF IsForeign
  <2>5. /\ stage' = "accepted" => Valid(message', params')
        /\ stage' = "refused" => message'.room = 0 \/ Wordless(message')
    BY <2>1, <2>4
  <2> QED  BY <2>1, <2>3, <2>5 DEF MessageInv
<1>6. CASE UNCHANGED messageVars
  <2>1. UNCHANGED <<message, stage, todo, params, declared>>
    BY <1>6 DEF messageVars
  <2> QED  BY <2>1, Zenon DEF MessageInv, IsForeign
<1> QED
  BY <1>1, <1>2, <1>3, <1>4, <1>5, <1>6 DEF ConversionNext, MessageNext, conversionVars

(* A message never outgrows its buffer, holds what it was meant to but for  *)
(* the control words its declared length has no room for, and is refused by *)
(* the other side only where it was to hold control words and none was asked *)
(* for; whoever sent it, what is let through has every parameter its readers *)
(* count on, and as many bytes of it as are read: of any protocol versions, *)
(* any numbers of control words, and as many spoilt parameters as keep all  *)
(* of them within the byte that tlv_find_param counts in.                   *)
THEOREM MessagesAreKept == ConversionSpec => []MessageKept
<1>1. ConversionInit => MessageInv
  BY InitMessageInv
<1>2. MessageInv /\ [ConversionNext]_conversionVars => MessageInv'
  BY StepMessageInv
<1>3. MessageInv => MessageKept
  BY MessageInvKeepsMessages
<1> QED  BY <1>1, <1>2, <1>3, PTL DEF ConversionSpec
=============================================================================
