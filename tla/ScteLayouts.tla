------------------------------ MODULE ScteLayouts ------------------------------
(*****************************************************************************)
(* The messages of digital program insertion (scte/35.h, scte/104.h), one    *)
(* definition per structure.  Most of their fields have no fixed place: where *)
(* they are depends on flags, counts and lengths in front of them.  Such a   *)
(* structure is a family with a member for each form, the form being what    *)
(* the flags and the counts say; a caller who wants a form sets them to it,   *)
(* and the setters that place other fields are not called with another value *)
(* afterwards.                                                               *)
(*****************************************************************************)
EXTENDS Structures

(* A structure kept at a byte of a larger one: its fields, and its X_init as  *)
(* a call of its own, which rewrites the fields it has bits of.               *)
Embedded(name, s, byte) ==
  LET Inside(f) == name \o "." \o f
      Moved(bits) == {b + 8 * byte : b \in bits}
      Placed(f) ==
        [name |-> Inside(f.name),
         get |-> [k \in DOMAIN f.get |-> f.get[k] + 8 * byte],
         put |-> [p \in Moved(DOMAIN f.put) |-> f.put[p - 8 * byte]],
         raise |-> Moved(f.raise), ones |-> Moved(f.ones), zeros |-> Moved(f.zeros),
         rewrites |-> {Inside(r) : r \in f.rewrites}]
      fields == {Placed(f) : f \in s.fields}
      ones == Moved({b[1] : b \in {c \in s.init : c[2] = One}})
      zeros == Moved({b[1] : b \in {c \in s.init : c[2] = Zero}})
  IN  fields \cup
        IF s.init = {} THEN {}
        ELSE {Rewriting(Writes(Inside("init"), ones, zeros),
                {f.name : f \in {g \in fields : Sources(g) \cap (ones \cup zeros) # {}}})}

(***************************************************************************)
(* The splice information section: a header of 14 bytes, a command, and a    *)
(* loop of descriptors whose length stands behind the command.               *)
(***************************************************************************)
scte35_fields ==
  {Field("protocol", 3, 0, 8), Field("encrypted", 4, 0, 1),
   Field("pts_adjustment", 4, 7, 33)}

scte35_constants == Bytes(3, 4, 0) \cup Byte(9, 0) \cup Byte(10, 255) \cup Byte(11, 240)

(* A section whose command is not known yet.                                 *)
Scte35 ==
  ShortSection(252, 48, 14, scte35_constants,
    scte35_fields \cup {Field("command_type", 13, 0, 8), Field("command_length", 11, 4, 12)})

(* What scte35_validate and the X_validate of a command ask of the command's  *)
(* length when the command takes size bytes.  The length of the descriptor    *)
(* loop is looked for behind the command: scte35_validate has compared it     *)
(* with the length of the section.                                           *)
CommandChecked(s, size) ==
  Further(Accepting([s EXCEPT !.head = 14, !.length = Field("command_length", 11, 4, 12).get],
                    AtLeast(size)),
          {"desclength"})

(* A section with a command of the given type and size, as the X_init of the  *)
(* command leaves it.                                                        *)
SpliceCommand(type, size, init, fields) ==
  CommandChecked(
    ShortSection(252, 48, 16 + size,
      scte35_constants \cup Byte(12, size) \cup Byte(13, type)
        \cup Bytes(14 + size, 15 + size, 0) \cup init,
      scte35_fields \cup fields
        \cup {Reads("command_type", 13, 0, 8), Reads("command_length", 11, 4, 12),
              Field("desclength", 14 + size, 0, 16)}),
    size)

Scte35Null == SpliceCommand(0, 0, {}, {})

(* A time that is not specified takes one byte.                              *)
Scte35SpliceTime(specified) ==
  Structure(IF specified THEN 5 ELSE 1, Byte(0, 127),
    {Field("time_specified", 0, 0, 1)}
      \cup IF specified THEN {Field("pts_time", 0, 7, 33)} ELSE {})

Scte35BreakDuration ==
  Structure(5, Byte(0, 255), {
      Field("auto_return", 0, 0, 1), Field("duration", 0, 7, 33)})

(* The insert command is initialised as a cancellation.                      *)
Scte35InsertCancelled ==
  SpliceCommand(5, 5, Byte(18, 255), {Field("event_id", 14, 0, 32), Field("cancel", 18, 0, 1)})

(* To take the cancellation back starts the flags over.                       *)
insert_flags ==
  LET flags == {"out_of_network", "program_splice", "duration", "splice_immediate"}
  IN  {Field("event_id", 14, 0, 32),
       Rewriting(WithOnes(Field("cancel", 18, 0, 1), Bits(19, 0, 8)), flags),
       Field("out_of_network", 19, 0, 1), Field("program_splice", 19, 1, 1),
       Field("duration", 19, 2, 1), Field("splice_immediate", 19, 3, 1)}

(* A slip of insert_end: the footer is looked for where a command without a   *)
(* break duration has it.                                                    *)
insert_endUnshifted(byte, lasting) ==
  {Field("unique_program_id", byte, 0, 16), Field("avail_num", byte + 2, 0, 8),
   Field("avails_expected", byte + 3, 0, 8)}
  \cup IF lasting THEN Embedded("break_duration", Scte35BreakDuration, byte) ELSE {}

(* The break duration, when there is one, and the footer close the command.  *)
insert_end(byte, lasting) ==
  LET footer == byte + (IF lasting THEN 5 ELSE 0)
  IN  {Field("unique_program_id", footer, 0, 16), Field("avail_num", footer + 2, 0, 8),
       Field("avails_expected", footer + 3, 0, 8)}
      \cup IF lasting THEN Embedded("break_duration", Scte35BreakDuration, byte) ELSE {}

(* A splice of the whole program, at a time (specified or not) or at once.   *)
Scte35Insert(time, lasting) ==
  LET stamp == Scte35SpliceTime(time = "specified")
      rest == 20 + (IF time = "immediate" THEN 0 ELSE stamp.bytes)
      size == rest - 14 + (IF lasting THEN 9 ELSE 4)
  IN  SpliceCommand(5, size, Byte(18, 255),
        insert_flags \cup insert_end(rest, lasting)
          \cup IF time = "immediate" THEN {} ELSE Embedded("splice_time", stamp, 20))

Scte35InsertComponent ==
  Structure(1, {}, {
      Field("component_tag", 0, 0, 8)})

(* A splice of single components, not at once.  scte35_insert_get_break_      *)
(* duration and the validator ask for component number count + 1, the first   *)
(* being number 0: what follows the list begins one component too late, and   *)
(* nothing fills the gap.  When the splice is immediate the walk takes splice *)
(* times into account that are not there, and where it ends depends on what   *)
(* was in the buffer: there is no form for it.                               *)
Scte35InsertComponents(names, lasting) ==
  LET gap == 21 + Len(names)
      size == gap + 1 - 14 + (IF lasting THEN 9 ELSE 4)
  IN  OpenAt(SpliceCommand(5, size, Byte(18, 255),
        insert_flags \cup insert_end(gap + 1, lasting)
          \cup {Field("component_count", 20, 0, 8)}
          \cup UNION {Embedded(names[i], Scte35InsertComponent, 20 + i) : i \in DOMAIN names}),
        Bits(gap, 0, 8))

Scte35TimeSignal(specified) ==
  LET stamp == Scte35SpliceTime(specified)
  IN  SpliceCommand(6, stamp.bytes, {}, Embedded("splice_time", stamp, 14))

Scte35BandwidthReservation == SpliceCommand(7, 0, {}, {})

Scte35Private == SpliceCommand(255, 4, {}, {Field("identifier", 14, 0, 32)})

(***************************************************************************)
(* Splice descriptors.                                                       *)
(***************************************************************************)
Scte35SpliceDesc ==
  Structure(6, {}, {
      Field("identifier", 2, 0, 32), Field("tag", 0, 0, 8),
      Field("length", 1, 0, 8)})

(* The identifier spells CUEI.                                               *)
cuei == Byte(2, 67) \cup Byte(3, 85) \cup Byte(4, 69) \cup Byte(5, 73)

Scte35AvailDesc ==
  Structure(11, Byte(0, 0) \cup Byte(1, 8) \cup cuei \cup Byte(10, 127), {
      Field("provider_avail_id", 6, 0, 32)})

seg_desc_init(bytes) == Byte(0, 2) \cup Byte(1, bytes - 2) \cup cuei \cup Byte(10, 127)
seg_desc_fields ==
  {Field("length", 1, 0, 8), Field("event_id", 6, 0, 32), Field("cancel", 10, 0, 1)}

(* While the event is cancelled the setters of the other fields do nothing.   *)
Scte35SegDescCancelled == Structure(11, seg_desc_init(11), seg_desc_fields)

(* To lift the restrictions sets them to ones, and their setters do nothing   *)
(* from then on; three of their getters look at the lifting flag first.       *)
seg_desc_flags(restricted) ==
  {Field("program_seg", 11, 0, 1), Field("has_duration", 11, 1, 1)} \cup
    IF restricted
    THEN {Field("delivery_not_restricted", 11, 2, 1), Field("web_delivery_allowed", 11, 3, 1),
          Field("no_regional_blackout", 11, 4, 1), Field("archive_allowed", 11, 5, 1),
          Field("device_restrictions", 11, 6, 2)}
    ELSE {Rewriting(WithOnes(Field("delivery_not_restricted", 11, 2, 1), Bits(11, 3, 5)),
                    {"device_restrictions"}),
          Reads("device_restrictions", 11, 6, 2)}

Scte35SegDescComponent ==
  Structure(6, Byte(1, 254), {
      Field("tag", 0, 0, 8), Field("pts_off", 1, 7, 33)})

(* The list of components, absent when the whole program is segmented.        *)
seg_desc_components(names) ==
  IF names = <<>> THEN {}
  ELSE {Field("component_count", 12, 0, 8)}
       \cup UNION {Embedded(names[i], Scte35SegDescComponent, 7 + 6 * i) : i \in DOMAIN names}
seg_desc_after_components(names) == IF names = <<>> THEN 12 ELSE 13 + 6 * Len(names)

seg_desc_duration(byte, lasting) == IF lasting THEN {Field("duration", byte, 0, 40)} ELSE {}

seg_desc_upid(byte) == {Field("upid_type", byte, 0, 8), Field("upid_length", byte + 1, 0, 8)}

seg_desc_type(byte) ==
  {Field("type_id", byte, 0, 8), Field("num", byte + 1, 0, 8), Field("expected", byte + 2, 0, 8)}

(* The sub-segment is there for two types, and when the descriptor is long    *)
(* enough.                                                                   *)
seg_desc_sub(byte, sub) ==
  IF sub THEN {Field("sub_num", byte, 0, 8), Field("sub_expected", byte + 1, 0, 8)} ELSE {}

(* The identifier itself, upid bytes, is filled in by the caller.             *)
Scte35SegDesc(restricted, names, lasting, upid, sub) ==
  LET components == seg_desc_after_components(names)
      duration == components + (IF lasting THEN 5 ELSE 0)
      type == duration + 2 + upid
      bytes == type + (IF sub THEN 5 ELSE 3)
  IN  OpenAt(Structure(bytes, seg_desc_init(bytes),
        seg_desc_fields \cup seg_desc_flags(restricted) \cup seg_desc_components(names)
          \cup seg_desc_duration(components, lasting) \cup seg_desc_upid(duration)
          \cup seg_desc_type(type) \cup seg_desc_sub(type + 3, sub)),
        Bits(duration + 2, 0, 8 * upid))

Scte35TimeDesc ==
  Structure(18, Byte(0, 3) \cup Byte(1, 20) \cup cuei \cup Bytes(6, 17, 0), {
      Field("tai_sec", 6, 0, 48), Field("tai_ns", 12, 0, 32),
      Field("utc_off", 16, 0, 16)})

(***************************************************************************)
(* Messages between an automation system and an injector: a header, and one  *)
(* operation, or a time stamp and several.                                   *)
(***************************************************************************)
scte104_fields == {Field("opid", 0, 0, 16), Field("size", 2, 0, 16)}

Scte104 == Structure(4, {}, scte104_fields)

Sized104(s, size) ==
  Accepting([s EXCEPT !.length = Field("size", 2, 0, 16).get], AtLeast(size))

Scte104s ==
  Sized104(Structure(13, {}, scte104_fields \cup {
      Field("result", 4, 0, 16), Field("result_extension", 6, 0, 16),
      Field("protocol", 8, 0, 8), Field("as_index", 9, 0, 8),
      Field("dpi_pid_index", 11, 0, 16), Field("message_number", 10, 0, 8)}), 13)

Scte104o ==
  Structure(4, {}, {
      Field("opid", 0, 0, 16), Field("data_length", 2, 0, 16)})

(* A time stamp is one of four things, told apart by its type.                *)
Scte104tNone == Structure(1, {}, {Field("type", 0, 0, 8)})

Scte104tUtc ==
  Structure(7, {}, {
      Field("type", 0, 0, 8), Field("utc_seconds", 1, 0, 32), Field("utc_microseconds", 5, 0, 16)})

Scte104tVitc ==
  Structure(5, {}, {
      Field("type", 0, 0, 8), Field("hours", 1, 0, 8), Field("minutes", 2, 0, 8),
      Field("seconds", 3, 0, 8), Field("frames", 4, 0, 8)})

Scte104tGpi ==
  Structure(3, {}, {
      Field("type", 0, 0, 8), Field("gpi_number", 1, 0, 8), Field("gpi_edge", 2, 0, 8)})

(* The number of operations follows the time stamp.                           *)
Scte104m(stamp) ==
  Sized104(Structure(11 + stamp.bytes, {}, scte104_fields \cup {
      Field("protocol", 4, 0, 8), Field("as_index", 5, 0, 8),
      Field("message_number", 6, 0, 8), Field("dpi_pid_index", 7, 0, 16),
      Field("scte35_protocol", 9, 0, 8), Field("num_ops", 10 + stamp.bytes, 0, 8)}
    \cup Embedded("timestamp", stamp, 10)), 11 + stamp.bytes)

Scte104ird ==
  Structure(1, {}, {
      Field("message_number", 0, 0, 8)})

Scte104icrd ==
  Structure(2, {}, {
      Field("message_number", 0, 0, 8), Field("cue_message_count", 1, 0, 8)})

Scte104srd ==
  Structure(14, {}, {
      Field("insert_type", 0, 0, 8), Field("event_id", 1, 0, 32),
      Field("unique_program_id", 5, 0, 16), Field("pre_roll_time", 7, 0, 16),
      Field("break_duration", 9, 0, 16), Field("avail_num", 11, 0, 8),
      Field("avails_expected", 12, 0, 8), Field("auto_return", 13, 0, 8)})

(* Operations the library only reads.                                        *)
Received(bytes, fields) == OpenAt(Structure(bytes, {}, fields), Bits(0, 0, 8 * bytes))

Scte104tsrd == Received(2, {Reads("pre_roll_time", 0, 0, 16)})

Scte104idrd == Received(1, {Reads("count", 0, 0, 8)})

(* The segmentation of Scte35SegDesc, every flag a byte of its own, behind an *)
(* identifier of upid bytes.                                                 *)
isdrd_flags == <<"type_id", "num", "expected", "duration_extension_frames",
  "delivery_not_restricted", "web_delivery_allowed", "no_regional_blackout",
  "archive_allowed", "device_restrictions", "insert_sub_info", "sub_num", "sub_expected">>

Scte104isdrd(upid) ==
  Received(21 + upid,
    {Reads("event_id", 0, 0, 32), Reads("cancel_indicator", 4, 0, 8),
     Reads("duration", 5, 0, 16), Reads("upid_type", 7, 0, 8), Reads("upid_length", 8, 0, 8)}
    \cup {Reads(isdrd_flags[i], 8 + upid + i, 0, 8) : i \in DOMAIN isdrd_flags})

(* All of them, with their names.                                            *)
ScteStructures ==
  {<<"Scte35", Scte35>>, <<"Scte35Null", Scte35Null>>,
   <<"Scte35SpliceTime", Scte35SpliceTime(TRUE)>>,
   <<"Scte35BreakDuration", Scte35BreakDuration>>,
   <<"Scte35InsertCancelled", Scte35InsertCancelled>>,
   <<"Scte35Insert", Scte35Insert("specified", TRUE)>>,
   <<"Scte35InsertUnspecified", Scte35Insert("unspecified", FALSE)>>,
   <<"Scte35InsertImmediate", Scte35Insert("immediate", TRUE)>>,
   <<"Scte35InsertImmediateEndless", Scte35Insert("immediate", FALSE)>>,
   <<"Scte35InsertComponent", Scte35InsertComponent>>,
   <<"Scte35InsertComponents", Scte35InsertComponents(<<"audio", "video">>, TRUE)>>,
   <<"Scte35TimeSignal", Scte35TimeSignal(TRUE)>>,
   <<"Scte35TimeSignalUnspecified", Scte35TimeSignal(FALSE)>>,
   <<"Scte35BandwidthReservation", Scte35BandwidthReservation>>,
   <<"Scte35Private", Scte35Private>>, <<"Scte35SpliceDesc", Scte35SpliceDesc>>,
   <<"Scte35AvailDesc", Scte35AvailDesc>>,
   <<"Scte35SegDescCancelled", Scte35SegDescCancelled>>,
   <<"Scte35SegDesc", Scte35SegDesc(TRUE, <<>>, FALSE, 0, FALSE)>>,
   <<"Scte35SegDescSub", Scte35SegDesc(FALSE, <<>>, TRUE, 8, TRUE)>>,
   <<"Scte35SegDescComponents", Scte35SegDesc(TRUE, <<"audio", "video">>, TRUE, 1, FALSE)>>,
   <<"Scte35SegDescComponent", Scte35SegDescComponent>>,
   <<"Scte35TimeDesc", Scte35TimeDesc>>, <<"Scte104", Scte104>>, <<"Scte104s", Scte104s>>,
   <<"Scte104o", Scte104o>>, <<"Scte104tNone", Scte104tNone>>,
   <<"Scte104tUtc", Scte104tUtc>>, <<"Scte104tVitc", Scte104tVitc>>,
   <<"Scte104tGpi", Scte104tGpi>>, <<"Scte104m", Scte104m(Scte104tNone)>>,
   <<"Scte104mUtc", Scte104m(Scte104tUtc)>>, <<"Scte104mVitc", Scte104m(Scte104tVitc)>>,
   <<"Scte104mGpi", Scte104m(Scte104tGpi)>>, <<"Scte104ird", Scte104ird>>,
   <<"Scte104icrd", Scte104icrd>>, <<"Scte104srd", Scte104srd>>,
   <<"Scte104tsrd", Scte104tsrd>>, <<"Scte104idrd", Scte104idrd>>,
   <<"Scte104isdrd", Scte104isdrd(4)>>}

=============================================================================
