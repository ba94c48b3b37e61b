------------------------------ MODULE BitFields ------------------------------
(***************************************************************************)
(* The header files of the library describe a structure by a family of      *)
(* inline functions over a byte buffer: X_init, X_set_field, X_get_field.    *)
(* This module is the algebra those functions are written in: which bits of  *)
(* the buffer a setter stores its argument in, which it forces to one or to  *)
(* zero (reserved bits, mostly), which it can only raise (a setter that ORs  *)
(* into the byte without clearing it first), and which bits the getter       *)
(* assembles into its result.                                                *)
(*                                                                           *)
(* Bit 8*k + i of a buffer is bit i of byte k, bit 0 being the most          *)
(* significant one, as the diagrams of the standards number them.  The       *)
(* argument of a setter is symbolic: what is stored at a position is the     *)
(* name of a field and the index of one of the bits of its last value, so a  *)
(* statement about the model is one about every value at once.               *)
(***************************************************************************)
EXTENDS Integers, Sequences

(* What a bit of the buffer can hold: a constant the code wrote there, what  *)
(* was in the buffer before the first call, a mixture of two values ORed     *)
(* together, or bit k of the last value given to the setter of field f.      *)
Zero == <<"zero", 0>>
One == <<"one", 0>>
Old == <<"old", 0>>
Mixed == <<"mixed", 0>>
Bit(f, k) == <<f, k>>

Bits(byte, bit, n) == (8 * byte + bit) .. (8 * byte + bit + n - 1)

(***************************************************************************)
(* Fields.  A field has                                                      *)
(*   get      the positions its getter reads, most significant bit first;    *)
(*   put      the positions its setter stores the argument in: put[p] is the *)
(*            index of the bit of the argument stored at p;                  *)
(*   raise    those of them it ORs into without clearing them first;         *)
(*   ones     the positions its setter sets whatever the argument;           *)
(*   zeros    the positions its setter clears whatever the argument;         *)
(*   rewrites the other fields the setter overwrites on purpose: the call    *)
(*            order matters, and the caller knows.                           *)
(***************************************************************************)
Field(name, byte, bit, width) ==
  [name |-> name,
   get |-> [k \in 1 .. width |-> 8 * byte + bit + k - 1],
   put |-> [p \in Bits(byte, bit, width) |-> p - (8 * byte + bit) + 1],
   raise |-> {}, ones |-> {}, zeros |-> {}, rewrites |-> {}]

(* A setter without argument that raises one bit, tested by X_has_field.     *)
Flag(name, byte, bit) ==
  [Field(name, byte, bit, 1) EXCEPT !.put = <<>>, !.ones = Bits(byte, bit, 1)]

(* A setter without argument that writes constants no getter returns.        *)
Writes(name, ones, zeros) ==
  [name |-> name, get |-> <<>>, put |-> <<>>, raise |-> {},
   ones |-> ones, zeros |-> zeros, rewrites |-> {}]

(***************************************************************************)
(* A field that BITSTREAM_GET_SET of common.h declares: n bits from a        *)
(* position, with an argument of so many bits.  Getter and setter walk from  *)
(* byte to byte; in the first one they begin in the middle, and on every     *)
(* turn they know how many bits are left.                                    *)
(***************************************************************************)
Begins(position, t) == IF t = 0 THEN position % 8 ELSE 0
BitsLeft(position, n, t) == IF t = 0 THEN n ELSE n + (position % 8) - 8 * t
Turns(position, n) == {t \in 0 .. n : BitsLeft(position, n, t) > 0}
AtMost(m, n) == IF m < n THEN m ELSE n

(* bitstream_get_type: the bits of a byte are appended to those before, and  *)
(* what does not go into the type falls out.                                 *)
bitstream_get(type, position, n) ==
  LET read[t \in Turns(position, n)] ==
        LET first == 8 * (position \div 8 + t) + Begins(position, t)
            size == AtMost(BitsLeft(position, n, t), 8 - Begins(position, t))
            these == [k \in 1 .. size |-> first + k - 1]
        IN  IF t = 0 THEN these ELSE read[t - 1] \o these
      all == read[CHOOSE t \in Turns(position, n) : t + 1 \notin Turns(position, n)]
  IN  SubSeq(all, Len(all) - AtMost(type, n) + 1, Len(all))

(* The power of two of the bit of the argument that lands on p: to the right *)
(* by the bits that are left beyond this byte, to the left if the byte has   *)
(* room for more.                                                            *)
(* Slip: never to the left. *)
PowerUnshifted(position, n, p) ==
  LET t == p \div 8 - position \div 8
      beyond == BitsLeft(position, n, t) - (8 - Begins(position, t))
  IN  7 - (p % 8) + (IF beyond > 0 THEN beyond ELSE 0)

Power(position, n, p) ==
  LET t == p \div 8 - position \div 8
  IN  7 - (p % 8) + BitsLeft(position, n, t) - (8 - Begins(position, t))

(* bitstream_set_type: the bits that the mask of each byte covers; those     *)
(* beyond the type of the argument are zeros.                                *)
bitstream_set(type, position, n) ==
  LET mask(t) == {i \in Begins(position, t) .. 7 :
                    i < Begins(position, t) + AtMost(BitsLeft(position, n, t), 8)}
      covered == UNION {{8 * (position \div 8 + t) + i : i \in mask(t)} : t \in Turns(position, n)}
      stored == {p \in covered : Power(position, n, p) < type}
  IN  [put |-> [p \in stored |-> AtMost(type, n) - Power(position, n, p)], zeros |-> covered \ stored]

BITSTREAM_GET_SET(name, type, position, n) ==
  [Writes(name, {}, bitstream_set(type, position, n).zeros) EXCEPT
     !.get = bitstream_get(type, position, n),
     !.put = bitstream_set(type, position, n).put]

(* A value the code only has a getter for: the sender, or a whole-structure   *)
(* copy, fills it in.                                                        *)
Reads(name, byte, bit, width) == [Field(name, byte, bit, width) EXCEPT !.put = <<>>]

(* A value kept on several runs of bits, each continuing the one before it.  *)
And(f, byte, bit, width) ==
  LET n == Len(f.get)
  IN  [f EXCEPT !.get = [k \in 1 .. n + width |->
                           IF k <= n THEN @[k] ELSE 8 * byte + bit + k - n - 1],
                !.put = [p \in DOMAIN @ \cup Bits(byte, bit, width) |->
                           IF p \in Bits(byte, bit, width)
                           THEN p - (8 * byte + bit) + 1 + n ELSE @[p]]]

WithOnes(f, bits) == [f EXCEPT !.ones = @ \cup bits]
WithZeros(f, bits) == [f EXCEPT !.zeros = @ \cup bits]
Raising(f, bits) == [f EXCEPT !.raise = @ \cup bits]
Rewriting(f, names) == [f EXCEPT !.rewrites = @ \cup names]

(* A setter that stores its argument elsewhere than where the getter reads.  *)
StoredAt(f, byte, bit, width, first) ==
  [f EXCEPT !.put = [p \in Bits(byte, bit, width) |-> p - (8 * byte + bit) + first]]

(* A setter that also stores bits first, first + 1, ... of its argument in a  *)
(* second place; an index past its width is a bit computed from the argument  *)
(* or taken from a neighbour.                                                *)
AlsoAt(f, byte, bit, width, first) ==
  [f EXCEPT !.put = [p \in DOMAIN @ \cup Bits(byte, bit, width) |->
                       IF p \in Bits(byte, bit, width)
                       THEN p - (8 * byte + bit) + first ELSE @[p]]]

(* A setter whose argument never reaches the bits the getter reads.          *)
NotStored(f) == [f EXCEPT !.put = <<>>]

(* The positions a setter changes, and those whose previous content it loses. *)
Footprint(f) == DOMAIN f.put \cup f.ones \cup f.zeros
Sources(f) == {f.get[k] : k \in DOMAIN f.get}

(* The buffer after a call of the setter of f.                               *)
Stored(f, mem, p) ==
  IF p \in DOMAIN f.put
  THEN IF p \in f.raise /\ mem[p] # Zero THEN Mixed ELSE Bit(f.name, f.put[p])
  ELSE IF p \in f.ones THEN One ELSE Zero

Write(f, mem) ==
  [p \in DOMAIN mem \cup Footprint(f) |->
     IF p \in Footprint(f) THEN Stored(f, mem, p) ELSE mem[p]]

(* What the getter of f must return after its setter: the bits of the last   *)
(* argument, or a one for a flag.                                            *)
Asked(f) ==
  [k \in DOMAIN f.get |-> IF DOMAIN f.put = {} THEN One ELSE Bit(f.name, k)]

Read(f, mem) == [k \in DOMAIN f.get |-> mem[f.get[k]]]

(***************************************************************************)
(* Constants an initialiser writes: a set of pairs <<position, bit>>.        *)
(***************************************************************************)
AsOne(bits) == {<<p, One>> : p \in bits}
AsZero(bits) == {<<p, Zero>> : p \in bits}
Byte(byte, v) ==
  {<<8 * byte + i, IF (v \div 2^(7 - i)) % 2 = 1 THEN One ELSE Zero>> : i \in 0 .. 7}
Bytes(first, last, v) == UNION {Byte(b, v) : b \in first .. last}

=============================================================================
