------------------------------ MODULE Structures ------------------------------
(***************************************************************************)
(* What the header file of a structure says of it: the size of the buffer,   *)
(* what X_init writes, the setters and getters, and the declared lengths     *)
(* X_validate lets through.  The tables of the structures themselves are in  *)
(* MpegDescLayouts, DvbDescLayouts, TableLayouts, StreamLayouts and          *)
(* NetLayouts, one definition per structure.                                 *)
(***************************************************************************)
EXTENDS BitFields

(***************************************************************************)
(* The lengths a validator lets through: at least a minimum, that minimum    *)
(* alone, or a minimum and a whole number of entries.  When the answer also  *)
(* depends on the content, a length is let through if it is for some content. *)
(***************************************************************************)
AtLeast(n) == [least |-> n, step |-> 1]
Exactly(n) == [least |-> n, step |-> 0]
Multiple(n, size) == [least |-> n, step |-> size]

Accepts(rule, length) ==
  IF rule.step = 0 THEN length = rule.least
  ELSE length >= rule.least /\ (length - rule.least) % rule.step = 0

(***************************************************************************)
(* A structure.  bytes is the size the code gives its fixed part (the        *)
(* X_HEADER_SIZE macro, mostly), init what X_init writes, fields its setters *)
(* and getters.  The rest is there when the structure has it:                *)
(*   open     the bits no function of the family ever writes;                *)
(*   fragile  the fields that do not keep their value: the setters that lose *)
(*            it are wrong, as the comment above the structure says;         *)
(*   head     the bytes in front of what the declared length counts;         *)
(*   length   the positions of the declared length;                          *)
(*   accepts  the rule X_validate follows, none when there is no validator;  *)
(*   further  the fields a reader must test for before it reads them: the    *)
(*            print functions do, or the getter does itself.                 *)
(***************************************************************************)
Structure(bytes, init, fields) ==
  [bytes |-> bytes, init |-> init, fields |-> fields, open |-> {}, fragile |-> {},
   head |-> 0, length |-> <<>>, accepts |-> {}, further |-> {}]

OpenAt(s, bits) == [s EXCEPT !.open = bits]
Fragile(s, names) == [s EXCEPT !.fragile = names]
Further(s, names) == [s EXCEPT !.further = names]
Accepting(s, rule) == [s EXCEPT !.accepts = {rule}]
Unchecked(s) == [s EXCEPT !.accepts = {}]

(* Two views of the same bits: the setters of the named fields rewrite the   *)
(* other fields they share bits with, and the other way round.               *)
Views(s, names) ==
  LET Shared(f) ==
        {g.name : g \in {h \in s.fields : /\ (h.name \in names) # (f.name \in names)
                                          /\ Footprint(f) \cap Sources(h) # {}}}
  IN  [s EXCEPT !.fields = {Rewriting(f, Shared(f)) : f \in @}]

(***************************************************************************)
(* Descriptors (mpeg/psi/descriptors.h): a tag, a length that counts what    *)
(* follows it, and the fields.  Most validators ask for the fixed part.      *)
(***************************************************************************)
desc_set_length == Field("length", 1, 0, 8)

LoopDescriptor(tag, bytes, init, fields) ==
  [Structure(bytes, Byte(0, tag) \cup init, fields \cup {desc_set_length}) EXCEPT
     !.head = 2, !.length = desc_set_length.get, !.accepts = {AtLeast(bytes - 2)}]

Descriptor(tag, length, bytes, init, fields) ==
  LoopDescriptor(tag, bytes, init \cup Byte(1, length), fields)

(***************************************************************************)
(* Sections (mpeg/psi/psi.h): psi_init gives byte 1 and, with the long       *)
(* syntax, byte 5; psi_validate asks for a long header and a checksum.       *)
(***************************************************************************)
psi_set_length == Field("length", 1, 4, 12)
psi_set_version ==
  Rewriting(WithZeros(WithOnes(Field("version", 5, 2, 5), Bits(5, 0, 2)), Bits(5, 7, 1)),
            {"current"})

ShortSection(tableid, byte1, bytes, init, fields) ==
  [Structure(bytes, Byte(0, tableid) \cup Byte(1, byte1) \cup init,
             fields \cup {psi_set_length}) EXCEPT
     !.head = 3, !.length = psi_set_length.get]

Section(tableid, byte1, bytes, init, fields) ==
  ShortSection(tableid, byte1, bytes, Byte(5, 192) \cup init,
    fields \cup {Field("tableidext", 3, 0, 16), psi_set_version, Flag("current", 5, 7),
                 Field("section", 6, 0, 8), Field("lastsection", 7, 0, 8)})

(***************************************************************************)
(* What makes a structure a record, as a condition on its table alone.       *)
(***************************************************************************)

(* The getter reads, bit for bit, where the setter has stored.               *)
GivesBack(f) ==
  \A k \in DOMAIN f.get :
    IF DOMAIN f.put = {} THEN f.get[k] \in f.ones
    ELSE /\ f.get[k] \in DOMAIN f.put \ f.raise
         /\ f.put[f.get[k]] = k

Named(s) ==
  \A f, g \in s.fields : /\ f.name = g.name => f = g
                         /\ f.name \notin {"zero", "one", "old", "mixed"}
                         /\ f.rewrites \subseteq {h.name : h \in s.fields}

Fits(s) ==
  /\ \A f \in s.fields : Footprint(f) \cup Sources(f) \subseteq 0 .. 8 * s.bytes - 1
  /\ s.init \subseteq (0 .. 8 * s.bytes - 1) \X {Zero, One}
  /\ \A rule \in s.accepts : Accepts(rule, rule.least)

Independent(s) ==
  \A g \in {h \in s.fields : h.name \notin s.fragile} :
    /\ Footprint(g) # {} => GivesBack(g)
    /\ \A f \in s.fields :
         f # g /\ g.name \notin f.rewrites => Footprint(f) \cap Sources(g) = {}

Complete(s) ==
  0 .. 8 * s.bytes - 1 \subseteq
    s.open \cup {b[1] : b \in s.init} \cup UNION {Footprint(f) : f \in s.fields}

WellMade(s) == Named(s) /\ Fits(s) /\ Independent(s) /\ Complete(s)

=============================================================================
