------------------------------ MODULE LoopKinds ------------------------------
(***************************************************************************)
(* The loops of entries of the structures: who hands out their entries, and *)
(* how X_validate walks them.  Positions count from the first entry, and    *)
(* loops of the same shape are the same record.                             *)
(***************************************************************************)
EXTENDS Integers

CONSTANTS
  Width,     \* values of a byte: lengths of descriptors, uint8_t variables
  LongLength \* a length of more bytes than a loop under test has

ASSUME LoopKindsAssumption ==
  Width \in Nat /\ Width >= 16 /\ LongLength \in Nat

(***************************************************************************)
(* Reading.  head is the fixed part of an entry, sizes the sizes an entry   *)
(* may announce for the whole of itself, room the bytes that must be left   *)
(* for an entry to be handed out, short the bytes before the first entry    *)
(* that the declared length counts and may already lack.  bytes holds what  *)
(* is computed in a uint8_t: the sizes of the "reader", those of the        *)
(* "validator", the "number" an entry is asked for by (where more than 255  *)
(* entries fit).  inByte: the declared length is itself a byte.             *)
(* The rest is of the validator: none, until there is one.                  *)
(***************************************************************************)
Walk(short, head, sizes) ==
  [short |-> short, head |-> head, sizes |-> sizes, room |-> head,
   inByte |-> TRUE, bytes |-> {}, rule |-> "none"]

(* Entries of one size: desc_check asks for a whole one. *)
Fixed(short, size) == Walk(short, size, {size})

(* Entries with a length in a byte: the sizes around Width are those that a *)
(* uint8_t does not hold.                                                   *)
Counted(short, head) == Walk(short, head, {head, head + 1, Width, Width + head - 1})

(* Entries of sections: the length has twelve bits or more, an entry is     *)
(* handed out as soon as a byte is left, and asked for by a uint8_t number. *)
InSection(short, head) ==
  [Walk(short, head, {head, head + 1, head + LongLength})
     EXCEPT !.room = 1, !.inByte = FALSE, !.bytes = {"number"}]

InBytes(kind, who) == [kind EXCEPT !.bytes = @ \cup {who}]
ByPointer(kind) == [kind EXCEPT !.bytes = @ \ {"number"}]

(***************************************************************************)
(* Validating: only that the length is a number of entries; a walk while    *)
(* bytes are left; while a fixed part is left; or while a whole entry is.   *)
(* A walk succeeds if it ends where the loop does.  What some ask besides   *)
(* of the inside of an entry (desc21_validate: that its substructures and   *)
(* their number fill it; those of sections: that its descriptors are good)  *)
(* is left out: more is accepted here than by the code.                     *)
(***************************************************************************)
Divides(kind) == [kind EXCEPT !.rule = "divides"]
WhileLeft(kind) == [kind EXCEPT !.rule = "left"]
WhileHead(kind) == [kind EXCEPT !.rule = "head"]
WhileWhole(kind) == [kind EXCEPT !.rule = "whole"]

-----------------------------------------------------------------------------
(* Entries of one size, in descriptors. *)

desc0a_next_language == Fixed(0, 4)
desc0a_validate == Divides(desc0a_next_language)
desc1f_next_entry == Fixed(0, 3)
desc1f_validate == Divides(desc1f_next_entry)
desc22_next_entry == Fixed(3, 4)
desc22_validate == Divides(desc22_next_entry)
desc41_next_service == Fixed(0, 3)
desc41_validate == Divides(desc41_next_service)
desc46_next_language == Fixed(0, 5)
desc46_validate == Divides(desc46_next_language)
desc49_next_code == Fixed(1, 3)
desc49_validate == Divides(desc49_next_code)
desc4b_next_reference == Fixed(0, 6)
desc4b_validate == Divides(desc4b_next_reference)
desc53_next_ca == Fixed(0, 2)
desc53_validate == Divides(desc53_next_ca)
desc54_next_content == Fixed(0, 2)
desc54_validate == Divides(desc54_next_content)
desc55_next_rating == Fixed(0, 4)
desc55_validate == Divides(desc55_next_rating)
desc58_next_lto == Fixed(0, 13)
desc58_validate == Divides(desc58_next_lto)
desc59_next_language == Fixed(0, 8)
desc59_validate == Divides(desc59_next_language)
desc62_next_frequency == Fixed(1, 4)
desc62_validate == Divides(desc62_next_frequency)
desc6f_next_application == Fixed(0, 3)
desc6f_validate == WhileHead(desc6f_next_application)
desc83p28_next_service == Fixed(0, 4)
desc83p28_validate == Divides(desc83p28_next_service)

(* The subcells of a cell: handed out as soon as a byte is left, unchecked. *)
desc6cn_next_subcell == [Fixed(0, 8) EXCEPT !.room = 1]
desc6dn_next_subcell == [Fixed(0, 5) EXCEPT !.room = 1]

(* The parts of an application descriptor, which its validator does not     *)
(* walk: profiles, and the labels of its transport protocols.               *)
ait_desc_app_next_profile == Fixed(0, 5)
ait_desc_app_next_transport_proto == Fixed(0, 1)

-----------------------------------------------------------------------------
(* Entries that announce their size, in descriptors. *)

desc45_next_data == Counted(0, 2)
desc45_validate == InBytes(WhileLeft(desc45_next_data), "validator")
desc5b_next_data == Counted(0, 4)
desc5b_validate == InBytes(WhileLeft(desc5b_next_data), "validator")
desc5d_next_data == Counted(0, 5)
desc5d_validate == InBytes(WhileLeft(desc5d_next_data), "validator")
desc5e_next_data == Counted(1, 4)
desc5e_validate == InBytes(WhileLeft(desc5e_next_data), "validator")
desc6c_next_cell == Counted(0, 10)
desc6c_validate == InBytes(WhileLeft(desc6c_next_cell), "validator")
desc6d_next_cell == Counted(0, 7)
desc6d_validate == InBytes(WhileLeft(desc6d_next_cell), "validator")

(* desc51n_get_data_size returns a uint8_t, which both use. *)
desc51n_get_data_size == InBytes(Counted(1, 4), "reader")
desc51_next_logical_cell == desc51n_get_data_size
desc51_validate == InBytes(WhileLeft(desc51_next_logical_cell), "validator")

(* An announcement refers to a service or does not. *)
desc6en_get_data_size == InBytes(Walk(2, 1, {1, 8}), "reader")
desc6e_next_announcement == desc6en_get_data_size
desc6e_validate == InBytes(WhileLeft(desc6e_next_announcement), "validator")

(* The size of an item is a uint8_t for the reader; the validator adds to a *)
(* pointer, over the description and then the text.                         *)
desc4en_get_item_length == InBytes(Counted(0, 2), "reader")
desc4e_next_item == desc4en_get_item_length
desc4e_validate == WhileLeft(desc4e_next_item)

(* desc7f19_validate and desc21_validate walk with the reader, and add up   *)
(* the sizes; the sum of the first, in a uint8_t, cannot come back to the   *)
(* declared length by a turn, as its last entry starts within the loop.     *)
desc7f19_presel_get_length == InBytes(Counted(2, 2), "reader")
desc7f19_next_presel == desc7f19_presel_get_length
desc7f19_validate == InBytes(WhileHead(desc7f19_next_presel), "validator")
desc21_next_entry == Counted(0, 1)
desc21n_next_substruct == Walk(2, 1, {1, 3})
desc21n_validate == WhileHead(desc21n_next_substruct)
desc21_validate == WhileHead(desc21_next_entry)

(* An event of a linkage descriptor refers to a stream, a network and a     *)
(* service or to less; desc4a_validate does not walk.                       *)
desc4an_get_ext_event_length == InBytes(Walk(7, 3, {3, 5, 9}), "reader")
desc4a_next_ext_event == desc4an_get_ext_event_length

-----------------------------------------------------------------------------
(* Lists of descriptors, and the loops of sections. *)

descl_next_desc ==
  [Walk(0, 2, {2, 3, Width + 1}) EXCEPT !.inByte = FALSE]
descl_validate == WhileHead(descl_next_desc)

(* n * SIZE bytes from the first: both ask for a whole entry. *)
pat_get_program == InBytes([Fixed(0, 4) EXCEPT !.inByte = FALSE], "number")
pat_validate == Divides(pat_get_program)
rst_get_status == InBytes([Fixed(0, 9) EXCEPT !.inByte = FALSE], "number")
rst_validate == Divides(rst_get_status)

nit_get_ts == InSection(4, 6)
nit_validate == WhileWhole(nit_get_ts)
bat_validate == WhileWhole(nit_get_ts)
sdt_get_service == InSection(3, 5)
sdt_validate == WhileWhole(sdt_get_service)
eit_get_event == InSection(6, 12)
eit_validate == WhileWhole(eit_get_event)
sit_get_service == InSection(2, 4)
sit_validate == WhileWhole(sit_get_service)
pmt_next_es == ByPointer(InSection(4, 5))
pmt_validate == WhileWhole(pmt_next_es)

(* ait_validate walks with the reader and does not ask where the walk ends. *)
ait_next_app == ByPointer(InSection(4, 9))

(* The parameters of a Simulcrypt message: tlv_find_param counts in a       *)
(* uint8_t, tlv_get_param takes a uint16_t.                                 *)
tlv_get_param == ByPointer(InSection(0, 4))
tlv_find_param == InBytes(tlv_get_param, "number")
tlv_validate == WhileWhole(tlv_find_param)

(* The descriptors of a program for the CA module: nobody checks them.      *)
capmti_get_info == [Walk(1, 2, {2, 3, Width + 1}) EXCEPT !.room = 1, !.inByte = FALSE]

Kinds ==
  {desc0a_validate, desc1f_validate, desc22_validate, desc41_validate,
   desc46_validate, desc49_validate, desc4b_validate, desc53_validate,
   desc54_validate, desc55_validate, desc58_validate, desc59_validate,
   desc62_validate, desc6f_validate, desc83p28_validate,
   desc6cn_next_subcell, desc6dn_next_subcell, ait_desc_app_next_profile,
   ait_desc_app_next_transport_proto,
   desc45_validate, desc5b_validate, desc5d_validate, desc5e_validate,
   desc6c_validate, desc6d_validate, desc51_validate, desc6e_validate,
   desc4e_validate, desc7f19_validate, desc21_validate, desc21n_validate,
   desc4a_next_ext_event, descl_validate, pat_validate, rst_validate,
   nit_validate, bat_validate, sdt_validate, eit_validate, sit_validate,
   pmt_validate, ait_next_app, tlv_validate, capmti_get_info}
=============================================================================
