----------------------------- MODULE TableLayouts -----------------------------
(*****************************************************************************)
(* The sections of the tables (mpeg/psi, dvb/si) and the entries of their    *)
(* loops, one definition per structure.                                      *)
(*****************************************************************************)
EXTENDS Structures

(* The header every section with the long syntax starts with.                *)
Psi ==
  Structure(8, Byte(1, 240) \cup Byte(5, 192), {
      Field("tableid", 0, 0, 8), Flag("syntax", 1, 0), psi_set_length,
      Field("tableidext", 3, 0, 16), psi_set_version, Flag("current", 5, 7),
      Field("section", 6, 0, 8), Field("lastsection", 7, 0, 8)})

Pat ==
  Accepting(Section(0, 176, 8, {}, {}), Multiple(9, 4))

Patn ==
  Structure(4, Byte(2, 224), {
      Field("program", 0, 0, 16), Field("pid", 2, 3, 13)})

Pmt ==
  Accepting(Section(2, 176, 12, Bytes(6, 7, 0) \cup Byte(8, 224) \cup Byte(10, 240), {
      Field("pcrpid", 8, 3, 13), Field("desclength", 10, 4, 12)}), AtLeast(13))

Pmtn ==
  Structure(5, Byte(1, 224) \cup Byte(3, 240), {
      Field("streamtype", 0, 0, 8), Field("pid", 1, 3, 13),
      Field("desclength", 3, 4, 12)})

Cat ==
  Accepting(Section(1, 176, 8, Bytes(3, 4, 255) \cup Bytes(6, 7, 0), {}), AtLeast(9))

Tsdt ==
  Accepting(Section(3, 176, 8, Bytes(3, 4, 255) \cup Bytes(6, 7, 0), {}), AtLeast(9))

Descs ==
  OpenAt(Structure(2, {}, {
      Field("length", 0, 4, 12)}), Bits(0, 0, 4))

(* For this transport stream; another table id marks the tables that         *)
(* describe another one, here and in the NIT and the EIT.                    *)
Sdt ==
  Accepting(Section(66, 240, 11, Byte(10, 255), {
      Field("onid", 8, 0, 16)}), AtLeast(12))

Sdtn ==
  Structure(5, Byte(2, 252) \cup Byte(3, 0), {
      Field("sid", 0, 0, 16), Flag("eitschedule", 2, 6),
      Flag("eitpresent", 2, 7), Field("running", 3, 0, 3), Flag("ca", 3, 3),
      Field("desclength", 3, 4, 12)})

Nit ==
  Accepting(Section(64, 240, 10, Byte(8, 240), {
      Field("desclength", 8, 4, 12)}), AtLeast(13))

Nith ==
  Structure(2, Byte(0, 240), {
      Field("tslength", 0, 4, 12)})

Nitn ==
  Structure(6, Byte(4, 240), {
      Field("tsid", 0, 0, 16), Field("onid", 2, 0, 16),
      Field("desclength", 4, 4, 12)})

Bat ==
  Accepting(Section(74, 240, 10, Byte(8, 240), {
      Field("desclength", 8, 4, 12)}), AtLeast(13))

Eit ==
  Accepting(Section(78, 240, 14, {}, {
      Field("tsid", 8, 0, 16), Field("onid", 10, 0, 16),
      Field("segment_last_sec_number", 12, 0, 8),
      Field("last_table_id", 13, 0, 8)}), AtLeast(15))

Eitn ==
  Structure(12, Byte(10, 0), {
      Field("event_id", 0, 0, 16), Field("start_time", 2, 0, 40),
      Field("duration_bcd", 7, 0, 24), Field("running", 10, 0, 3),
      Flag("ca", 10, 3), Field("desclength", 10, 4, 12)})

Sit ==
  Accepting(Section(127, 240, 10, Bytes(3, 4, 255) \cup Bytes(6, 7, 0), {
      WithOnes(Field("desclength", 8, 4, 12), Bits(8, 0, 4))}), AtLeast(11))

Sitn ==
  Structure(4, Byte(2, 128), {
      Field("sid", 0, 0, 16), Field("running", 2, 1, 3),
      Field("desclength", 2, 4, 12)})

(* The applications loop of an AIT whose own descriptors are still empty:    *)
(* ait_set_applength writes the length ait_get_appslength returns.           *)
Ait ==
  Accepting(OpenAt(Section(116, 240, 12, Byte(8, 240), {
      Field("desclength", 8, 4, 12), Field("appslength", 10, 4, 12)}),
          Bits(10, 0, 4)), AtLeast(11))

Aitn ==
  OpenAt(Structure(9, {}, {
      Field("desclength", 7, 4, 12), Reads("organisation_id", 0, 0, 32),
      Reads("application_id", 4, 0, 16), Reads("control_code", 6, 0, 8)}),
          Bits(0, 0, 60))

Tot ==
  Accepting(ShortSection(115, 112, 10, Byte(8, 240), {
      Field("desclength", 8, 4, 12), Field("utc", 3, 0, 40)}), AtLeast(11))

(* Slip: X_init declares the length of the header alone.                     *)
TdtDeclaredShort ==
  Accepting(ShortSection(112, 112, 8, Byte(2, 0), {
      Field("utc", 3, 0, 40)}), AtLeast(5))

Tdt ==
  Accepting(ShortSection(112, 112, 8, Byte(2, 5), {
      Field("utc", 3, 0, 40)}), AtLeast(5))

Rst ==
  Accepting(ShortSection(113, 112, 3, {}, {}), Multiple(0, 9))

Rstn ==
  Structure(9, Byte(8, 248), {
      Field("tsid", 0, 0, 16), Field("onid", 2, 0, 16),
      Field("service_id", 4, 0, 16), Field("event_id", 6, 0, 16),
      WithOnes(Field("running", 8, 5, 3), Bits(8, 0, 5))})

(* dit_validate asks for a length of at least 0 (dvb/si/dit.h:68), so the    *)
(* byte of transition_flag need not be there.                                *)
Dit ==
  Further(Accepting(ShortSection(126, 112, 4, Byte(2, 1), {
      WithOnes(Field("transition_flag", 3, 0, 1), Bits(3, 1, 7))}), AtLeast(0)),
          {"transition_flag"})

St ==
  Accepting(ShortSection(114, 112, 3, Byte(2, 0), {}), AtLeast(0))

(* All of them, with their names.                                            *)
TableStructures ==
  {<<"Psi", Psi>>, <<"Pat", Pat>>, <<"Patn", Patn>>, <<"Pmt", Pmt>>, <<"Pmtn",
   Pmtn>>, <<"Cat", Cat>>, <<"Tsdt", Tsdt>>, <<"Descs", Descs>>, <<"Sdt",
   Sdt>>, <<"Sdtn", Sdtn>>, <<"Nit", Nit>>, <<"Nith", Nith>>, <<"Nitn", Nitn>>,
   <<"Bat", Bat>>, <<"Eit", Eit>>, <<"Eitn", Eitn>>, <<"Sit", Sit>>, <<"Sitn",
   Sitn>>, <<"Ait", Ait>>, <<"Aitn", Aitn>>, <<"Tot", Tot>>, <<"Tdt", Tdt>>,
   <<"Rst", Rst>>, <<"Rstn", Rstn>>, <<"Dit", Dit>>, <<"St", St>>}

=============================================================================
