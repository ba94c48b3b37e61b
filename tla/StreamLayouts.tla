----------------------------- MODULE StreamLayouts -----------------------------
(*****************************************************************************)
(* The headers of transport packets and elementary streams, and the          *)
(* structures that travel with them (mpeg, atsc, dvb, ebu, smpte), one       *)
(* definition per structure.                                                 *)
(*****************************************************************************)
EXTENDS Structures

(* The packet header. ts_set_adaptation raises a flag here and lays out the  *)
(* adaptation field behind it.                                               *)
Ts ==
  Structure(4, Byte(0, 71) \cup Bytes(1, 3, 0), {
      Flag("transporterror", 1, 0), Flag("unitstart", 1, 1),
      Flag("transportpriority", 1, 2), Field("pid", 1, 3, 13),
      Field("cc", 3, 4, 4), Flag("payload", 3, 3), Field("scrambling", 3, 0, 2),
      Flag("adaptation", 3, 2)})

(* The adaptation field of a packet as ts_set_adaptation leaves it when the  *)
(* length covers the PCR. pcr resets pcrext on the way, and pcrext only      *)
(* raises the bit it shares a byte with: it is meant for a PCR just set.     *)
Tsaf ==
  Fragile(Structure(12, Bytes(0, 3, 0) \cup Byte(4, 7) \cup Byte(5, 0) \cup Bytes(6, 11, 255), {
      Flag("discontinuity", 5, 0),
      Rewriting(Writes("clear_discontinuity", {}, Bits(5, 0, 1)), {"discontinuity"}),
      Flag("randomaccess", 5, 1), Flag("streampriority", 5, 2), Reads("has_pcr", 5, 3, 1),
      Rewriting(WithZeros(WithOnes(Field("pcr", 6, 0, 33),
        Bits(5, 3, 1) \cup Bits(10, 1, 6)), Bits(10, 7, 9)), {"pcrext", "has_pcr"}),
      Raising(Field("pcrext", 10, 7, 9), Bits(10, 7, 1))}), {"pcrext"})

(* The header with room for both stamps, as pes_set_headerlength(10) leaves  *)
(* it. The presence bits and the markers pes_set_pts and pes_set_dts share   *)
(* are the ones of a header with both, set in this order.                    *)
Pes ==
  Structure(19, Bytes(0, 1, 0) \cup Byte(2, 1), {
      Field("streamid", 3, 0, 8), Field("length", 4, 0, 16),
      Rewriting(Writes("headerlength", Bits(6, 0, 1) \cup Bits(8, 4, 1) \cup Bits(8, 6, 1)
          \cup Bits(9, 0, 80), Bits(6, 1, 15) \cup Bits(8, 0, 4) \cup Bits(8, 5, 1)
          \cup Bits(8, 7, 1)),
        {"dataalignment", "has_pts", "has_dts", "pts", "dts"}),
      Flag("dataalignment", 6, 5), Reads("has_pts", 7, 0, 1), Reads("has_dts", 7, 0, 2),
      Rewriting(WithZeros(WithOnes(And(And(Field("pts", 9, 4, 3), 10, 0, 15), 12, 0, 15),
        Bits(7, 0, 1) \cup Bits(9, 2, 1) \cup Bits(9, 7, 1) \cup Bits(11, 7, 1)
          \cup Bits(13, 7, 1)), Bits(9, 0, 2)), {"has_pts", "has_dts"}),
      Rewriting(WithZeros(WithOnes(And(And(Field("dts", 14, 4, 3), 15, 0, 15), 17, 0, 15),
        Bits(7, 1, 1) \cup Bits(9, 2, 2) \cup Bits(14, 3, 1) \cup Bits(14, 7, 1)
          \cup Bits(16, 7, 1) \cup Bits(18, 7, 1)), Bits(9, 0, 2) \cup Bits(14, 0, 3)),
        {"has_pts", "has_dts"})})

(* mpga_set_copyright and mpga_set_original raise the two bits of the        *)
(* channel mode (mpeg/mpga.h:180 and :190).                                  *)
Mpga ==
  Fragile(Structure(4, Byte(0, 255) \cup Byte(1, 249) \cup Bytes(2, 3, 0), {
      Field("layer", 1, 5, 2), Field("bitrate_index", 2, 0, 4),
      Field("sampling_freq", 2, 4, 2), Flag("padding", 2, 6),
      Field("mode", 3, 0, 2), Field("mode_ext", 3, 2, 2),
      Flag("copyright", 3, 0), Flag("original", 3, 1),
      Field("emphasis", 3, 6, 2), Flag("id", 1, 4),
      Rewriting(Writes("clear_id", {}, Bits(1, 4, 1)), {"id"}),
      Flag("protection_absent", 1, 7),
      Rewriting(Writes("clear_protection_absent", {}, Bits(1, 7, 1)),
        {"protection_absent"}),
      Writes("mpeg25", {}, Bits(1, 3, 1))}), {"copyright", "mode", "original"})

Adts ==
  Structure(7, Byte(0, 255) \cup Byte(1, 249) \cup Bytes(2, 6, 0), {
      Field("profile", 2, 0, 2), Field("sampling_freq", 2, 2, 4),
      WithZeros(Field("channels", 2, 7, 3), Bits(2, 6, 1)), Flag("copy", 3, 2),
      Flag("home", 3, 3), Field("length", 3, 6, 13),
      Field("fullness", 5, 3, 11), Field("num_blocks", 6, 6, 2),
      Flag("protection_absent", 1, 7),
      Rewriting(Writes("clear_protection_absent", {}, Bits(1, 7, 1)),
        {"protection_absent"})})

Loas ==
  Structure(3, Byte(0, 86) \cup Byte(1, 224) \cup Byte(2, 0), {
      WithOnes(Field("length", 1, 3, 13), Bits(1, 0, 3))})

(* a52_set_bsid masks the argument as if it were already shifted             *)
(* (atsc/a52.h:200).                                                         *)
A52 ==
  Fragile(OpenAt(Structure(7, Byte(0, 11) \cup Byte(1, 119), {
      Field("crc", 2, 0, 16), Field("fscod", 4, 0, 2),
      Field("frmsizecod", 4, 2, 6),
      WithZeros(StoredAt(Field("bsid", 5, 0, 5), 5, 0, 2, 1), Bits(5, 2, 3)),
      Field("bsmod", 5, 5, 3), Field("acmod", 6, 0, 3),
      Field("cmixlev", 6, 3, 2)}), Bits(6, 5, 3)), {"bsid"})

(* a52e_get_strmtyp returns the two bits one place too high                  *)
(* (atsc/a52.h:246).                                                         *)
A52e ==
  Fragile(Structure(5, Byte(0, 11) \cup Byte(1, 119), {
      Field("substreamid", 2, 2, 3), Field("frmsiz", 2, 5, 11),
      Field("fscod", 4, 0, 2), Field("fscod2", 4, 2, 2),
      Field("acmod", 4, 4, 3), Field("lfeon", 4, 7, 1),
      Field("strmtyp", 2, 0, 2)}), {"strmtyp"})

(* The start of every extension: its initialiser writes the start code.      *)
Mp2vx ==
  OpenAt(Structure(5, Bytes(0, 1, 0) \cup Byte(2, 1) \cup Byte(3, 181), {
      Field("id", 4, 0, 4)}), Bits(4, 4, 4))

(* The quantisation matrices, whose place depends on the flags, are left     *)
(* out.                                                                      *)
Mp2vseq ==
  Structure(12,
    Bytes(0, 1, 0) \cup Byte(2, 1) \cup Byte(3, 179) \cup Byte(10, 32)
    \cup Byte(11, 0), {
      Field("horizontal", 4, 0, 12), Field("vertical", 5, 4, 12),
      Field("aspect", 7, 0, 4), Field("framerate", 7, 4, 4),
      Field("bitrate", 8, 0, 18), Field("vbvbuffer", 10, 3, 10),
      Flag("constrained", 11, 5)})

(* mp2vseqx_set_lowdelay raises a bit of the frame rate denominator, and the *)
(* denominator is stored over the flag (mpeg/mp2v.h:437 and :459).           *)
Mp2vseqx ==
  Fragile(Structure(10,
    Bytes(0, 1, 0) \cup Byte(2, 1) \cup Byte(3, 181) \cup Byte(4, 16)
    \cup Byte(5, 0) \cup Byte(7, 1) \cup Byte(9, 0), {
      Field("profilelevel", 4, 4, 8), Flag("progressive", 5, 4),
      Field("chroma", 5, 5, 2), Field("horizontal", 5, 7, 2),
      Field("vertical", 6, 1, 2),
      WithOnes(Field("bitrate", 6, 3, 12), Bits(7, 7, 1)),
      Field("vbvbuffer", 8, 0, 8), Flag("lowdelay", 9, 4),
      Field("frameraten", 9, 1, 2), Field("framerated", 9, 3, 5)}),
          {"framerated", "lowdelay"})

(* With a color description; its three setters raise the flag. The display   *)
(* size, whose place depends on the flag, is left out.                       *)
Mp2vseqdx ==
  Structure(8, Bytes(0, 1, 0) \cup Byte(2, 1) \cup Byte(3, 181) \cup Byte(4, 32), {
      Field("format", 4, 4, 3), Flag("color", 4, 7),
      Rewriting(WithOnes(Field("primaries", 5, 0, 8), Bits(4, 7, 1)), {"color"}),
      Rewriting(WithOnes(Field("transfer", 6, 0, 8), Bits(4, 7, 1)), {"color"}),
      Rewriting(WithOnes(Field("matrixcoeffs", 7, 0, 8), Bits(4, 7, 1)), {"color"})})

(* mp2vgop_get_timecode returns 16 of the 25 bits (mpeg/mp2v.h:601).         *)
Mp2vgop ==
  Fragile(Structure(8,
    Bytes(0, 1, 0) \cup Byte(2, 1) \cup Byte(3, 184) \cup Byte(7, 0), {
      Flag("closedgop", 7, 1), Flag("brokenlink", 7, 2),
      Field("timecode", 4, 0, 25)}), {"timecode"})

Mp2vpic ==
  Structure(8, Bytes(0, 1, 0) \cup Byte(2, 1) \cup Byte(3, 0) \cup Byte(7, 0), {
      Field("temporalreference", 4, 0, 10), Field("codingtype", 5, 2, 3),
      Field("vbvdelay", 5, 5, 16)})

Mp2vpicx ==
  Structure(9, Bytes(0, 1, 0) \cup Byte(2, 1) \cup Byte(3, 181) \cup Byte(4, 128)
    \cup Bytes(7, 8, 0), {
      Field("fcode00", 4, 4, 4), Field("fcode01", 5, 0, 4),
      Field("fcode10", 5, 4, 4), Field("fcode11", 6, 0, 4),
      Field("intradc", 6, 4, 2), Field("structure", 6, 6, 2), Flag("tff", 7, 0),
      Flag("framepreddct", 7, 1), Flag("concealmentmv", 7, 2),
      Flag("qscale", 7, 3), Flag("intravlc", 7, 4), Flag("alternatescan", 7, 5),
      Flag("rff", 7, 6), Flag("chroma420", 7, 7), Flag("progressive", 8, 0),
      Flag("compositedisplay", 8, 1)})

H264nal ==
  Structure(4, Bytes(0, 1, 0) \cup Byte(2, 1) \cup Byte(3, 0), {
      WithZeros(Field("ref", 3, 1, 2), Bits(3, 0, 1)), Field("type", 3, 3, 5)})

H264nalst ==
  Structure(1, Byte(0, 0), {
      WithZeros(Field("ref", 0, 1, 2), Bits(0, 0, 1)), Field("type", 0, 3, 5)})

H264sps ==
  Structure(7, Bytes(0, 1, 0) \cup Byte(2, 1) \cup Byte(3, 39) \cup Byte(5, 0), {
      Field("profile", 4, 0, 8), Field("level", 6, 0, 8)})

H264aud ==
  Structure(5, Bytes(0, 1, 0) \cup Byte(2, 1) \cup Byte(3, 9) \cup Byte(4, 16), {
      WithZeros(Field("pic_type", 4, 0, 3), Bits(4, 3, 5))})

(* The number of picture parameter sets follows the sequence parameter sets. *)
H264avcc ==
  Structure(6, Byte(0, 1) \cup Byte(4, 252) \cup Byte(5, 224), {
      Field("profile", 1, 0, 8), Field("profile_compatibility", 2, 0, 8),
      Field("level", 3, 0, 8),
      WithOnes(Field("length_size_1", 4, 6, 2), Bits(4, 0, 6)),
      WithOnes(Field("nb_sps", 5, 3, 5), Bits(5, 0, 3))})

H264avccSpsh ==
  Structure(2, {}, {
      Field("length", 0, 0, 16)})

H264avccPpsh ==
  Structure(2, {}, {
      Field("length", 0, 0, 16)})

H265nal ==
  Structure(5, Bytes(0, 1, 0) \cup Byte(2, 1) \cup Bytes(3, 4, 0), {
      Field("type", 3, 1, 6), Field("layerid", 3, 7, 6),
      Field("temporalid1", 4, 5, 3)})

H265vps ==
  OpenAt(Structure(24,
    Bytes(0, 1, 0) \cup Byte(2, 1) \cup Byte(3, 64) \cup Byte(4, 0) \cup Byte(5, 6),
    {
      Field("vps_id", 5, 0, 4), Reads("tier", 9, 2, 1), Reads("level", 23, 0, 8)}),
          Bits(6, 0, 144))

H265sps ==
  Structure(6, Bytes(0, 1, 0) \cup Byte(2, 1) \cup Byte(3, 66) \cup Bytes(4, 5, 0), {
      Field("vps_id", 5, 0, 4)})

H265aud ==
  Structure(6, Bytes(0, 1, 0) \cup Byte(2, 1) \cup Byte(3, 70) \cup Byte(4, 0)
    \cup Byte(5, 16), {
      WithZeros(Field("pic_type", 5, 0, 3), Bits(5, 3, 5))})

(* The bit h265hvcc_set_tier raises is the second one of the profile space   *)
(* (itu/h265.h:392). What has no fixed place is left out.                    *)
H265hvcc ==
  Fragile(Structure(23,
    Byte(0, 1) \cup Bytes(1, 12, 0) \cup Byte(13, 240) \cup Byte(14, 0)
    \cup Bytes(15, 16, 252) \cup Bytes(17, 18, 248) \cup Bytes(19, 22, 0), {
      Field("profile_space", 1, 0, 2), Flag("tier", 1, 1),
      Field("profile_idc", 1, 3, 5), Field("profile_compatibility", 2, 0, 32),
      Field("constraint_indicator", 6, 0, 48), Field("level_idc", 12, 0, 8),
      WithOnes(Field("min_spatial_segmentation_idc", 13, 4, 12), Bits(13, 0, 4)),
      WithOnes(Field("parallelism_type", 15, 6, 2), Bits(15, 0, 6)),
      WithOnes(Field("chroma_format", 16, 6, 2), Bits(16, 0, 6)),
      WithOnes(Field("bitdepth_luma_8", 17, 5, 3), Bits(17, 0, 5)),
      WithOnes(Field("bitdepth_chroma_8", 18, 5, 3), Bits(18, 0, 5)),
      Field("avg_frame_rate", 19, 0, 16),
      Field("constant_frame_rate", 21, 0, 2),
      WithZeros(Field("num_temporal_layers", 21, 3, 2), Bits(21, 2, 1)),
      Flag("temporal_id_nested", 21, 5), Field("length_size_1", 21, 6, 2),
      Field("num_of_arrays", 22, 0, 8)}), {"profile_space", "tier"})

H265hvccArray ==
  Structure(3, Byte(0, 0), {
      Flag("completeness", 0, 0), Field("nal_unit_type", 0, 2, 6),
      Field("num_nalus", 1, 0, 16)})

H265hvccNalu ==
  Structure(2, {}, {
      Field("length", 0, 0, 16)})

(* Each of the setters of the cipher type and of the private data flag       *)
(* clears the other one (ebu/biss.h:90 and :101), and                        *)
(* bissca_emm_set_desclength loses the upper bits of the length              *)
(* (ebu/biss.h:125).                                                         *)
BisscaEmm ==
  Fragile(Section(129, 176, 14, Bytes(6, 7, 0) \cup Byte(11, 15) \cup Byte(12, 240), {
      Field("onid", 8, 0, 16), Field("last_table_id", 10, 0, 8),
      WithZeros(Field("emm_cipher_type", 11, 0, 3), Bits(11, 3, 1)),
      WithZeros(Field("entitlement_priv_data_loop", 11, 3, 1), Bits(11, 0, 3)),
      WithZeros(StoredAt(Field("desclength", 12, 4, 12), 13, 0, 8, 5),
        Bits(12, 4, 4))}),
            {"desclength", "emm_cipher_type", "entitlement_priv_data_loop"})

BisscaEmmn ==
  Structure(264, {}, {
      Field("ekid", 0, 0, 64), Field("esd", 8, 0, 2048)})

(* bissca_ecm_set_desclength loses the upper bits of the length              *)
(* (ebu/biss.h:271). The words follow the descriptors.                       *)
BisscaEcm ==
  Fragile(Section(128, 176, 12, Bytes(6, 7, 0) \cup Byte(10, 15) \cup Byte(11, 240), {
      Field("onid", 8, 0, 16), Field("cipher_type", 10, 0, 3),
      WithZeros(StoredAt(Field("desclength", 10, 4, 12), 11, 0, 8, 5),
        Bits(10, 4, 4))}), {"desclength"})

(* What follows the descriptors of an ECM.                                   *)
BisscaEcmWords ==
  Structure(49, {}, {
      WithOnes(Field("session_key_parity", 0, 0, 1), Bits(0, 1, 7)),
      Field("iv", 1, 0, 128), Field("even_word", 17, 0, 128), Field("odd_word", 33, 0, 128)})

(* The header up to its information loop, a Capmti.                          *)
Capmt ==
  Structure(4, Byte(3, 193), {
      Field("listmanagement", 0, 0, 8), Field("program", 1, 0, 16),
      Field("version", 3, 2, 5)})

Capmtn ==
  Structure(3, Byte(1, 224), {
      Field("streamtype", 0, 0, 8), Field("pid", 1, 3, 13)})

Capmti ==
  Structure(3, Byte(0, 240), {
      Field("length", 0, 4, 12), Field("cmd", 2, 0, 8)})

Dvbvbittx ==
  Structure(1, {}, {
      WithOnes(Field("field", 0, 2, 1), Bits(0, 0, 2)),
      WithOnes(Field("line", 0, 3, 5), Bits(0, 0, 2))})

(* The four bytes of the preamble are constants of the header the program    *)
(* writes itself.                                                            *)
S337 ==
  OpenAt(Structure(8, {}, {
      Field("data_type", 5, 3, 5), Field("data_mode", 5, 1, 2),
      Flag("error", 5, 0), Field("data_type_dep", 4, 3, 5),
      Field("data_stream", 4, 0, 3), Field("length", 6, 0, 16),
      Rewriting(Writes("clear_error", {}, Bits(5, 0, 1)), {"error"})}),
          Bits(0, 0, 32))

(* smpte_fec_set_pt_recovery raises bits without clearing the old ones       *)
(* (smpte/2022_1_fec.h:92): it is meant for a cleared header.                *)
SmpteFec ==
  Fragile(Structure(16, {}, {
      Field("snbase_low", 0, 0, 16), Field("length_rec", 2, 0, 16),
      Flag("extension", 4, 0),
      Raising(Field("pt_recovery", 4, 1, 7), Bits(4, 1, 7)),
      Field("mask", 5, 0, 24), Field("ts_recovery", 8, 0, 32), Flag("n", 12, 0),
      Flag("d", 12, 1), Field("type", 12, 2, 3), Field("index", 12, 5, 3),
      Field("offset", 13, 0, 8), Field("na", 14, 0, 8),
      Field("snbase_ext", 15, 0, 8),
      Rewriting(Writes("clear_n", {}, Bits(12, 0, 1)), {"n"}),
      Rewriting(Writes("clear_d", {}, Bits(12, 1, 1)), {"d"})}), {"pt_recovery"})

(* All of them, with their names.                                            *)
StreamStructures ==
  {<<"Ts", Ts>>, <<"Tsaf", Tsaf>>, <<"Pes", Pes>>, <<"Mpga", Mpga>>,
   <<"Adts", Adts>>, <<"Loas", Loas>>, <<"A52", A52>>, <<"A52e", A52e>>,
   <<"Mp2vx", Mp2vx>>, <<"Mp2vseq", Mp2vseq>>, <<"Mp2vseqx", Mp2vseqx>>,
   <<"Mp2vseqdx", Mp2vseqdx>>, <<"Mp2vgop", Mp2vgop>>,
   <<"Mp2vpic", Mp2vpic>>, <<"Mp2vpicx", Mp2vpicx>>, <<"H264nal", H264nal>>,
   <<"H264nalst", H264nalst>>, <<"H264sps", H264sps>>,
   <<"H264aud", H264aud>>, <<"H264avcc", H264avcc>>,
   <<"H264avccSpsh", H264avccSpsh>>, <<"H264avccPpsh", H264avccPpsh>>,
   <<"H265nal", H265nal>>, <<"H265vps", H265vps>>, <<"H265sps", H265sps>>,
   <<"H265aud", H265aud>>, <<"H265hvcc", H265hvcc>>,
   <<"H265hvccArray", H265hvccArray>>, <<"H265hvccNalu", H265hvccNalu>>,
   <<"BisscaEmm", BisscaEmm>>, <<"BisscaEmmn", BisscaEmmn>>,
   <<"BisscaEcm", BisscaEcm>>, <<"BisscaEcmWords", BisscaEcmWords>>,
   <<"Capmt", Capmt>>, <<"Capmtn", Capmtn>>, <<"Capmti", Capmti>>,
   <<"Dvbvbittx", Dvbvbittx>>, <<"S337", S337>>, <<"SmpteFec", SmpteFec>>}

=============================================================================
