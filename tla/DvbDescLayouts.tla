---------------------------- MODULE DvbDescLayouts ----------------------------
(*****************************************************************************)
(* The descriptors of DVB (dvb/si/desc_*.h) and ATSC (atsc/si/desc_*.h), one *)
(* definition per structure; a letter or a name after the tag is an entry of *)
(* its loop or a part of it.                                                 *)
(*****************************************************************************)
EXTENDS Structures

(* langcod2 is stored when num_channels is 0, mainid when bsmod is below 2.  *)
(* The masks of desc81_set_sample_rate_code and desc81_set_bsid              *)
(* (atsc/si/desc_81.h:54 and :65) are one bit off.                           *)
Desc81 ==
  Fragile(Further(Accepting(Views(LoopDescriptor(129, 8, {}, {
      Raising(Field("sample_rate_code", 2, 0, 3), Bits(2, 2, 1)),
      WithZeros(Raising(Field("bsid", 2, 3, 5), Bits(2, 3, 1)), Bits(2, 2, 1)),
      Field("bit_rate_code", 3, 0, 6), Field("surround_mode", 3, 6, 2),
      Field("bsmod", 4, 0, 3), Field("num_channels", 4, 3, 4),
      Field("full_svc", 4, 7, 1), Field("langcod", 5, 0, 8),
      Field("priority", 7, 3, 2), Field("asvcflags", 7, 0, 8),
      Field("langcod2", 6, 0, 8), Field("mainid", 7, 0, 3)}), {"asvcflags"}),
          AtLeast(3)), {"asvcflags", "langcod", "langcod2", "mainid", "priority"}),
          {"bsid", "sample_rate_code"})

DescCC ==
  Descriptor(204, 2, 4, Byte(2, 128) \cup Byte(3, 192), {
      Field("bsid_flag", 2, 1, 1), Field("mainid_flag", 2, 2, 1),
      Field("asvc_flag", 2, 3, 1), Field("mixinfoexists", 2, 4, 1),
      Field("substream1_flag", 2, 5, 1), Field("substream2_flag", 2, 6, 1),
      Field("substream3_flag", 2, 7, 1), Field("full_service_flag", 3, 1, 1),
      Field("audio_service_type", 3, 2, 3),
      Field("number_of_channels", 3, 5, 3),
      Rewriting(Writes("clear_flags", Bits(2, 0, 1) \cup Bits(3, 0, 2),
        Bits(2, 1, 7) \cup Bits(3, 2, 6)),
        {"asvc_flag", "audio_service_type", "bsid_flag", "full_service_flag",
        "mainid_flag", "mixinfoexists", "number_of_channels", "substream1_flag",
        "substream2_flag", "substream3_flag"})})

(* What has no fixed place is left out.                                      *)
Desc40 ==
  LoopDescriptor(64, 2, {}, {})

Desc41 ==
  Accepting(LoopDescriptor(65, 2, {}, {}), Multiple(0, 3))

Desc41n ==
  Structure(3, {}, {
      Field("sid", 0, 0, 16), Field("type", 2, 0, 8)})

Desc42 ==
  LoopDescriptor(66, 2, {}, {})

(* desc43_set_rolloff masks the argument with 0x03 << 3 where it means       *)
(* (argument & 0x03) << 3 (dvb/si/desc_43.h:106): what it stores is always   *)
(* zero.                                                                     *)
Desc43 ==
  Fragile(Descriptor(67, 11, 13, {}, {
      Field("frequency_bcd", 2, 0, 32), Field("position_bcd", 6, 0, 16),
      Field("east", 8, 0, 1), Field("polarization", 8, 1, 2),
      WithZeros(NotStored(Field("rolloff", 8, 3, 2)), Bits(8, 3, 2)),
      Field("dvbs2", 8, 5, 1), Field("modulation", 8, 6, 2),
      Field("symbolrate_bcd", 9, 0, 28), Field("fecinner", 12, 4, 4)}), {"rolloff"})

Desc44 ==
  Descriptor(68, 11, 13, Byte(6, 255) \cup AsOne(Bits(7, 0, 4)), {
      Field("frequency_bcd", 2, 0, 32),
      WithOnes(Field("fecouter", 7, 4, 4), Bits(7, 0, 4)),
      Field("modulation", 8, 0, 8), Field("symbolrate", 9, 0, 28),
      Field("fecinner", 12, 4, 4)})

(* What has no fixed place is left out.                                      *)
Desc45 ==
  LoopDescriptor(69, 2, {}, {})

(* What has no fixed place is left out.                                      *)
Desc45n ==
  Structure(2, {}, {
      Field("service_id", 0, 0, 8), Field("data_length", 1, 0, 8)})

Desc46 ==
  Accepting(LoopDescriptor(70, 2, {}, {}), Multiple(0, 5))

Desc46n ==
  Structure(5, {}, {
      Field("teletexttype", 3, 0, 5), Field("teletextmagazine", 3, 5, 3),
      Field("teletextpage", 4, 0, 8), Field("code", 0, 0, 24)})

Desc47 ==
  LoopDescriptor(71, 2, {}, {})

(* desc48_set_length computes the length from the two names; it is left to   *)
(* the caller here, as in the other descriptors that have one. What has no   *)
(* fixed place is left out.                                                  *)
Desc48 ==
  Accepting(LoopDescriptor(72, 4, {}, {
      Field("type", 2, 0, 8), Field("provider_length", 3, 0, 8)}), AtLeast(3))

Desc49 ==
  Accepting(LoopDescriptor(73, 3, Byte(2, 127), {
      Field("country_availability_flag", 2, 0, 1)}), Multiple(1, 3))

Desc4A ==
  Descriptor(74, 7, 9, {}, {
      Field("tsid", 2, 0, 16), Field("onid", 4, 0, 16), Field("sid", 6, 0, 16),
      Field("linkage", 8, 0, 8)})

(* What has no fixed place is left out.                                      *)
Desc4AMobile ==
  Structure(5, {}, {
      WithOnes(Field("mobile_handover_type", 0, 0, 4), Bits(0, 4, 3)),
      Field("mobile_origin_type", 0, 7, 1), Field("mobile_nid", 1, 0, 16),
      Field("mobile_initial_sid", 3, 0, 16)})

Desc4AEvent ==
  Structure(3, {}, {
      Field("event_target_event_id", 0, 0, 16),
      WithOnes(Field("event_target_listed", 2, 0, 1), Bits(2, 2, 6)),
      WithOnes(Field("event_simulcast", 2, 1, 1), Bits(2, 2, 6))})

(* What has no fixed place is left out.                                      *)
Desc4An ==
  Structure(3, {}, {
      Field("ext_event_target_event_id", 0, 0, 16),
      Field("ext_event_target_listed", 2, 0, 1), Field("ext_event_simulcast", 2, 1, 1),
      Field("ext_event_link_type", 2, 2, 2), Field("ext_event_target_id_type", 2, 4, 2),
      Field("ext_event_onid_id_flag", 2, 6, 1), Field("ext_event_service_id_flag", 2, 7, 1)})

Desc4B ==
  Accepting(LoopDescriptor(75, 2, {}, {}), Multiple(0, 6))

Desc4Bn ==
  Structure(6, {}, {
      Field("tsid", 0, 0, 16), Field("onid", 2, 0, 16), Field("sid", 4, 0, 16)})

Desc4C ==
  Descriptor(76, 2, 4, {}, {
      Field("reference_sid", 2, 0, 16)})

(* What has no fixed place is left out.                                      *)
Desc4D ==
  Accepting(LoopDescriptor(77, 6, {}, {
      Field("lang", 2, 0, 24), Field("event_name_length", 5, 0, 8)}), AtLeast(5))

(* What has no fixed place is left out.                                      *)
Desc4E ==
  Accepting(LoopDescriptor(78, 7, {}, {
      Field("desc_number", 2, 0, 4), Field("last_desc_number", 2, 4, 4),
      Field("lang", 3, 0, 24), Field("items_length", 6, 0, 8)}), AtLeast(6))

Desc4F ==
  Descriptor(79, 4, 6, {}, {
      Field("reference_sid", 2, 0, 16), Field("reference_event_id", 4, 0, 16)})

Desc50 ==
  Descriptor(80, 6, 8, Byte(2, 240), {
      WithOnes(Field("stream_content", 2, 4, 4), Bits(2, 0, 4)),
      Field("component_type", 3, 0, 8), Field("component_tag", 4, 0, 8),
      Field("language", 5, 0, 24)})

(* What has no fixed place is left out.                                      *)
Desc51 ==
  Descriptor(81, 1, 3, Byte(2, 8), {
      Field("mosaic_entry_point", 2, 0, 1), Field("horizontal_cells", 2, 1, 3),
      Field("vertical_cells", 2, 5, 3)})

(* The ids behind cell_linkage_info, whose place depends on the number of    *)
(* cells, are left out. What has no fixed place is left out.                 *)
Desc51n ==
  Structure(3, {}, {
      WithOnes(Field("logical_cell_id", 0, 0, 6), Bits(0, 6, 2)),
      WithOnes(Field("logical_cell_presentation_info", 1, 5, 3), Bits(1, 0, 5)),
      Field("elementary_cell_field_length", 2, 0, 8)})

(* Slip: the setter ORs into what is there.                                  *)
Desc52Raising ==
  Descriptor(82, 1, 3, {}, {
      Raising(Field("component_tag", 2, 0, 8), Bits(2, 0, 8))})

Desc52 ==
  Descriptor(82, 1, 3, {}, {
      Field("component_tag", 2, 0, 8)})

Desc53 ==
  Accepting(LoopDescriptor(83, 2, {}, {}), Multiple(0, 2))

Desc53n ==
  Structure(2, {}, {
      Field("ca_sysid", 0, 0, 16)})

Desc54 ==
  Accepting(LoopDescriptor(84, 2, {}, {}), Multiple(0, 2))

Desc54n ==
  Structure(2, {}, {
      Field("content_l1", 0, 0, 4), Field("content_l2", 0, 4, 4),
      Field("user", 1, 0, 8)})

Desc55 ==
  Accepting(LoopDescriptor(85, 2, {}, {}), Multiple(0, 4))

Desc55n ==
  Structure(4, {}, {
      Field("rating", 3, 0, 8), Field("country_code", 0, 0, 24)})

Desc56 ==
  Accepting(LoopDescriptor(86, 2, {}, {}), Multiple(0, 5))

(* What has no fixed place is left out.                                      *)
Desc57 ==
  Descriptor(87, 3, 5, Byte(2, 192) \cup Bytes(3, 4, 128), {
      Field("foreign_availability", 2, 2, 1), Field("connection_type", 2, 3, 5),
      Field("country_prefix_length", 3, 1, 2),
      Field("international_area_code_length", 3, 3, 3),
      Field("operator_code_length", 3, 6, 2),
      Field("national_area_code_length", 4, 1, 3),
      Field("core_number_length", 4, 4, 4)})

Desc58 ==
  Accepting(LoopDescriptor(88, 2, {}, {}), Multiple(0, 13))

Desc58n ==
  Structure(13, {}, {
      Field("country_code", 0, 0, 24),
      WithOnes(Field("country_region_id", 3, 0, 6), Bits(3, 6, 1)),
      Field("lto_polarity", 3, 7, 1), Field("lt_offset", 4, 0, 16),
      Field("time_of_change", 6, 0, 40), Field("next_offset", 11, 0, 16)})

Desc59 ==
  Accepting(LoopDescriptor(89, 2, {}, {}), Multiple(0, 8))

Desc59n ==
  Structure(8, {}, {
      Field("subtitlingtype", 3, 0, 8), Field("compositionpage", 4, 0, 16),
      Field("ancillarypage", 6, 0, 16), Field("code", 0, 0, 24)})

(* timeslicing and mpefec are stored and returned negated.                   *)
Desc5A ==
  Descriptor(90, 11, 13, Byte(6, 3) \cup Bytes(9, 12, 255), {
      Field("frequency", 2, 0, 32), Field("bandwidth", 6, 0, 3),
      Field("priority", 6, 3, 1), Field("constellation", 7, 0, 2),
      Field("hierarchy", 7, 2, 3), Field("coderatehp", 7, 5, 3),
      Field("coderatelp", 8, 0, 3), Field("guard", 8, 3, 2),
      Field("transmission", 8, 5, 2), Field("otherfrequency", 8, 7, 1),
      Field("timeslicing", 6, 4, 1), Field("mpefec", 6, 5, 1)})

(* What has no fixed place is left out.                                      *)
Desc5B ==
  LoopDescriptor(91, 2, {}, {})

(* What has no fixed place is left out.                                      *)
Desc5Bn ==
  Structure(4, {}, {
      Field("code", 0, 0, 24), Field("networkname_length", 3, 0, 8)})

Desc5C ==
  LoopDescriptor(92, 2, {}, {})

Desc5D ==
  LoopDescriptor(93, 2, {}, {})

(* What has no fixed place is left out.                                      *)
Desc5Dn ==
  Structure(4, {}, {
      Field("code", 0, 0, 24), Field("provider_name_length", 3, 0, 8)})

(* What has no fixed place is left out.                                      *)
Desc5E ==
  Descriptor(94, 1, 3, {}, {
      Field("component_tag", 2, 0, 8)})

(* What has no fixed place is left out.                                      *)
Desc5En ==
  Structure(4, {}, {
      Field("code", 0, 0, 24), Field("text_length", 3, 0, 8)})

Desc5F ==
  Descriptor(95, 4, 6, {}, {
      Field("specifier", 2, 0, 32)})

Desc60 ==
  Descriptor(96, 6, 8, {}, {
      Field("new_onid", 2, 0, 16), Field("new_tsid", 4, 0, 16),
      Field("new_service_id", 6, 0, 16)})

Desc61 ==
  Descriptor(97, 1, 3, {}, {
      Field("sb_size", 2, 0, 2), Field("sb_leak_rate", 2, 2, 6)})

Desc62 ==
  Accepting(Descriptor(98, 1, 3, Byte(2, 252), {
      Field("coding_type", 2, 6, 2)}), Multiple(1, 4))

Desc62n ==
  Structure(4, {}, {
      Field("freq", 0, 0, 32)})

Desc63 ==
  Descriptor(99, 8, 10, Byte(2, 192) \cup Byte(5, 192) \cup Byte(8, 192), {
      WithOnes(Field("peak_rate", 2, 2, 22), Bits(2, 0, 2)),
      WithOnes(Field("min_overall_smoothing_rate", 5, 2, 22), Bits(5, 0, 2)),
      WithOnes(Field("max_overall_smoothing_buffer", 8, 2, 14), Bits(8, 0, 2))})

(* The language and the text follow the selector bytes: their place is not   *)
(* fixed. What has no fixed place is left out.                               *)
Desc64 ==
  Accepting(Descriptor(100, 8, 6, {}, {
      Field("broadcast_id", 2, 0, 16), Field("component_tag", 4, 0, 8),
      Field("selector_byte_length", 5, 0, 8)}), AtLeast(8))

Desc65 ==
  Descriptor(101, 1, 3, {}, {
      Field("scrambling_mode", 2, 0, 8)})

(* What has no fixed place is left out.                                      *)
Desc66 ==
  Descriptor(102, 2, 4, {}, {
      Field("broadcast_id", 2, 0, 16)})

(* What has no fixed place is left out.                                      *)
Desc67 ==
  Descriptor(103, 0, 2, {}, {})

Desc68 ==
  Descriptor(104, 0, 2, {}, {})

(* pil and the date are two views of the same bits. desc69_set_pil keeps     *)
(* four bits of the last byte out of eight (dvb/si/desc_69.h:61),            *)
(* desc69_set_hour takes the upper bits of the hour from the wrong place     *)
(* (dvb/si/desc_69.h:100).                                                   *)
Desc69 ==
  Fragile(Views(Descriptor(105, 3, 5, Byte(2, 240), {
      WithZeros(WithOnes(AlsoAt(StoredAt(Field("pil", 2, 4, 20), 2, 4, 12, 1),
        4, 4, 4, 17), Bits(2, 0, 4)), Bits(4, 0, 4)),
      WithOnes(Field("day", 2, 4, 5), Bits(2, 0, 4)), Field("month", 3, 1, 4),
      WithZeros(AlsoAt(StoredAt(Field("hour", 3, 5, 5), 3, 6, 2, 1), 4, 0, 2,
        4), Bits(3, 5, 1)),
      Field("minute", 4, 2, 6)}), {"pil"}), {"hour", "pil"})

(* The bytes the flags announce have no fixed place; desc6a_clear_flags      *)
(* starts the flags over.                                                    *)
Desc6A ==
  Descriptor(106, 1, 3, Byte(2, 15), {
      Field("component_type_flag", 2, 0, 1), Field("bsid_flag", 2, 1, 1),
      Field("mainid_flag", 2, 2, 1), Field("asvc_flag", 2, 3, 1),
      Rewriting(Writes("clear_flags", Bits(2, 4, 4), Bits(2, 0, 4)),
        {"asvc_flag", "bsid_flag", "component_type_flag", "mainid_flag"})})

(* The flags are the bits of the identifier, whose setter forces the first   *)
(* one (dvb/si/desc_6b.h:63).                                                *)
Desc6B ==
  Fragile(Views(Descriptor(107, 1, 3, Byte(2, 128), {
      WithOnes(StoredAt(Field("ancillary_data_indentifier", 2, 0, 8), 2, 1, 7,
        2), Bits(2, 0, 1)),
      Field("dvd_video_ancillary_data_flag", 2, 7, 1),
      Field("extended_ancillary_data_flag", 2, 6, 1),
      Field("announcement_switching_data_flag", 2, 5, 1),
      Field("dab_ancillary_data_flag", 2, 4, 1),
      Field("scale_factor_error_check_flag", 2, 3, 1),
      Field("mpeg4_ancillary_data_flag", 2, 2, 1),
      Field("rds_via_uecp_flag", 2, 1, 1)}), {"ancillary_data_indentifier"}),
          {"ancillary_data_indentifier"})

Desc6C ==
  LoopDescriptor(108, 2, {}, {})

Desc6Cn ==
  Structure(10, {}, {
      Field("cell_id", 0, 0, 16), Field("cell_latitude", 2, 0, 16),
      Field("cell_longtitude", 4, 0, 16),
      Field("cell_extend_of_latitude", 6, 0, 12),
      Field("cell_extend_of_longtitude", 7, 4, 12),
      Field("subcell_info_loop_length", 9, 0, 8)})

Desc6Ck ==
  Structure(8, {}, {
      Field("cell_id_extension", 0, 0, 8), Field("subcell_latitude", 1, 0, 16),
      Field("subcell_longtitude", 3, 0, 16),
      Field("subcell_extend_of_latitude", 5, 0, 12),
      Field("subcell_extend_of_longtitude", 6, 4, 12)})

Desc6D ==
  LoopDescriptor(109, 2, {}, {})

Desc6Dn ==
  Structure(7, {}, {
      Field("cell_id", 0, 0, 16), Field("frequency", 2, 0, 32),
      Field("subcell_info_loop_length", 6, 0, 8)})

Desc6Dk ==
  Structure(5, {}, {
      Field("cell_id_extension", 0, 0, 8),
      Field("transponder_frequency", 1, 0, 32)})

(* The flags are the bits of the indicator.                                  *)
Desc6E ==
  Views(Descriptor(110, 2, 4, Byte(2, 255), {
      Field("announcement_support_indicator", 2, 0, 16),
      Field("emergency_alarm_flag", 3, 7, 1),
      Field("road_traffic_flash_flag", 3, 6, 1),
      Field("public_transport_flash_flag", 3, 5, 1),
      Field("warning_message_flag", 3, 4, 1), Field("news_flash_flag", 3, 3, 1),
      Field("weather_flash_flag", 3, 2, 1),
      Field("event_announcement_flag", 3, 1, 1),
      Field("personal_call_flag", 3, 0, 1)}), {"announcement_support_indicator"})

(* The ids are there when reference_type is 1, 2 or 3, and their setters do  *)
(* nothing otherwise.                                                        *)
Desc6En ==
  Further(Structure(8, {}, {
      WithOnes(Field("announcement_type", 0, 0, 4), Bits(0, 4, 1)),
      WithOnes(Field("reference_type", 0, 5, 3), Bits(0, 4, 1)),
      Field("onid", 1, 0, 16), Field("tsid", 3, 0, 16),
      Field("service_id", 5, 0, 16), Field("component_tag", 7, 0, 8)}),
          {"component_tag", "onid", "service_id", "tsid"})

Desc6FApp ==
  OpenAt(Structure(3, {}, {
      BITSTREAM_GET_SET("type", 16, 1, 15),
      BITSTREAM_GET_SET("AIT_version_number", 8, 19, 5)}),
          Bits(0, 0, 1) \cup Bits(2, 0, 3))

Desc6F ==
  Accepting(Descriptor(111, 0, 2, {}, {}), Multiple(0, 3))

Desc7A ==
  Descriptor(122, 1, 3, Byte(2, 0), {
      Field("component_type_flag", 2, 0, 1), Field("bsid_flag", 2, 1, 1),
      Field("mainid_flag", 2, 2, 1), Field("asvc_flag", 2, 3, 1),
      Field("mixinfoexists_flag", 2, 4, 1), Field("substream1_flag", 2, 5, 1),
      Field("substream2_flag", 2, 6, 1), Field("substream3_flag", 2, 7, 1),
      Rewriting(Writes("clear_flags", {}, Bits(2, 0, 8)),
        {"asvc_flag", "bsid_flag", "component_type_flag", "mainid_flag",
        "mixinfoexists_flag", "substream1_flag", "substream2_flag",
        "substream3_flag"})})

(* desc7b_set_bit_rate_code fills the byte it shares with nblks from the     *)
(* byte before (dvb/si/desc_7b.h:70): two bits of sample_rate_code, then its *)
(* own.                                                                      *)
Desc7B ==
  Fragile(Descriptor(123, 5, 7, {}, {
      Field("sample_rate_code", 2, 0, 4), Field("nblks", 3, 2, 7),
      Field("fsize", 4, 1, 14), Field("surround_mode", 5, 7, 6),
      Field("lfe_flag", 6, 5, 1), Field("extended_surround_flag", 6, 6, 2),
      AlsoAt(AlsoAt(Field("bit_rate_code", 2, 4, 6), 3, 2, 2, 7), 3, 4, 4, 1)}),
          {"nblks"})

(* The type, added and removed by moving the length, is left out. What has   *)
(* no fixed place is left out.                                               *)
Desc7C ==
  Descriptor(124, 1, 3, {}, {
      Field("profile_and_level", 2, 0, 8)})

Desc7F ==
  Descriptor(127, 1, 3, {}, {
      BITSTREAM_GET_SET("tag_extension", 8, 16, 8)})

Desc7F00 ==
  OpenAt(Descriptor(127, 3, 5, Byte(2, 0), {
      BITSTREAM_GET_SET("number", 8, 24, 4),
      BITSTREAM_GET_SET("last_descriptor_number", 8, 28, 4),
      BITSTREAM_GET_SET("icon_id", 8, 37, 3)}), Bits(4, 0, 5))

Desc7F06 ==
  Further(Accepting(OpenAt(Descriptor(127, 2, 7, Byte(2, 6), {
      BITSTREAM_GET_SET("mix_type", 8, 24, 1),
      BITSTREAM_GET_SET("editorial_classification", 8, 25, 5),
      BITSTREAM_GET_SET("language_code_present", 8, 31, 1),
      BITSTREAM_GET_SET("language_code", 32, 32, 24)}),
          Bits(3, 6, 1)), AtLeast(2)), {"language_code"})

Desc7F15 ==
  Further(Accepting(OpenAt(Descriptor(127, 2, 5, Byte(2, 21), {
      BITSTREAM_GET_SET("ac4_config_flag", 8, 24, 1),
      BITSTREAM_GET_SET("ac4_toc_flag", 8, 25, 1),
      BITSTREAM_GET_SET("ac4_dialog_enhancement_enabled", 8, 32, 1),
      BITSTREAM_GET_SET("ac4_channel_mode", 8, 33, 2)}),
          Bits(3, 2, 6) \cup Bits(4, 3, 5)),
          AtLeast(2)), {"ac4_channel_mode", "ac4_dialog_enhancement_enabled"})

(* What has no fixed place is left out.                                      *)
Desc7F19 ==
  OpenAt(Descriptor(127, 2, 4, Byte(2, 25), {
      BITSTREAM_GET_SET("num_preselections", 8, 24, 5)}), Bits(3, 5, 3))

(* What has no fixed place is left out.                                      *)
Desc7F19Presel ==
  Structure(2, {}, {
      BITSTREAM_GET_SET("preselection_id", 8, 0, 5),
      BITSTREAM_GET_SET("audio_rendering_indication", 8, 5, 3),
      BITSTREAM_GET_SET("audio_description", 8, 8, 1),
      BITSTREAM_GET_SET("spoken_subtitles", 8, 9, 1),
      BITSTREAM_GET_SET("dialogue_enhancement", 8, 10, 1),
      BITSTREAM_GET_SET("interactivity_enabled", 8, 11, 1),
      BITSTREAM_GET_SET("language_code_present", 8, 12, 1),
      BITSTREAM_GET_SET("text_label_present", 8, 13, 1),
      BITSTREAM_GET_SET("multi_stream_info_present", 8, 14, 1),
      BITSTREAM_GET_SET("future_extension", 8, 15, 1)})

Desc7F19PreselText ==
  Structure(1, {}, {
      BITSTREAM_GET_SET("message_id", 8, 0, 8)})

Desc7F19PreselMsi ==
  OpenAt(Structure(1, {}, {
      BITSTREAM_GET_SET("num_aux_components", 8, 0, 3)}), Bits(0, 3, 5))

Desc7F19PreselExt ==
  OpenAt(Structure(1, {}, {
      BITSTREAM_GET_SET("length", 8, 3, 5)}), Bits(0, 0, 3))

Desc83P28 ==
  Accepting(LoopDescriptor(131, 2, {}, {}), Multiple(0, 4))

Desc83P28n ==
  OpenAt(Structure(4, {}, {
      Reads("sid", 0, 0, 16), Reads("visible", 2, 0, 1), Reads("lcn", 2, 6, 10)}),
          Bits(0, 0, 32))

Desc88P28 ==
  Accepting(LoopDescriptor(136, 2, {}, {}), Multiple(0, 4))

(* All of them, with their names.                                            *)
DvbDescStructures ==
  {<<"Desc81", Desc81>>, <<"DescCC", DescCC>>, <<"Desc40", Desc40>>,
   <<"Desc41", Desc41>>, <<"Desc41n", Desc41n>>, <<"Desc42", Desc42>>,
   <<"Desc43", Desc43>>, <<"Desc44", Desc44>>, <<"Desc45", Desc45>>,
   <<"Desc45n", Desc45n>>, <<"Desc46", Desc46>>, <<"Desc46n", Desc46n>>,
   <<"Desc47", Desc47>>, <<"Desc48", Desc48>>, <<"Desc49", Desc49>>,
   <<"Desc4A", Desc4A>>, <<"Desc4AMobile", Desc4AMobile>>, <<"Desc4AEvent",
   Desc4AEvent>>, <<"Desc4An", Desc4An>>, <<"Desc4B", Desc4B>>, <<"Desc4Bn",
   Desc4Bn>>, <<"Desc4C", Desc4C>>, <<"Desc4D", Desc4D>>, <<"Desc4E", Desc4E>>,
   <<"Desc4F", Desc4F>>, <<"Desc50", Desc50>>, <<"Desc51", Desc51>>,
   <<"Desc51n", Desc51n>>, <<"Desc52", Desc52>>, <<"Desc53", Desc53>>,
   <<"Desc53n", Desc53n>>, <<"Desc54", Desc54>>, <<"Desc54n", Desc54n>>,
   <<"Desc55", Desc55>>, <<"Desc55n", Desc55n>>, <<"Desc56", Desc56>>,
   <<"Desc57", Desc57>>, <<"Desc58", Desc58>>, <<"Desc58n", Desc58n>>,
   <<"Desc59", Desc59>>, <<"Desc59n", Desc59n>>, <<"Desc5A", Desc5A>>,
   <<"Desc5B", Desc5B>>, <<"Desc5Bn", Desc5Bn>>, <<"Desc5C", Desc5C>>,
   <<"Desc5D", Desc5D>>, <<"Desc5Dn", Desc5Dn>>, <<"Desc5E", Desc5E>>,
   <<"Desc5En", Desc5En>>, <<"Desc5F", Desc5F>>, <<"Desc60", Desc60>>,
   <<"Desc61", Desc61>>, <<"Desc62", Desc62>>, <<"Desc62n", Desc62n>>,
   <<"Desc63", Desc63>>, <<"Desc64", Desc64>>, <<"Desc65", Desc65>>,
   <<"Desc66", Desc66>>, <<"Desc67", Desc67>>, <<"Desc68", Desc68>>,
   <<"Desc69", Desc69>>, <<"Desc6A", Desc6A>>, <<"Desc6B", Desc6B>>,
   <<"Desc6C", Desc6C>>, <<"Desc6Cn", Desc6Cn>>, <<"Desc6Ck", Desc6Ck>>,
   <<"Desc6D", Desc6D>>, <<"Desc6Dn", Desc6Dn>>, <<"Desc6Dk", Desc6Dk>>,
   <<"Desc6E", Desc6E>>, <<"Desc6En", Desc6En>>, <<"Desc6FApp", Desc6FApp>>,
   <<"Desc6F", Desc6F>>, <<"Desc7A", Desc7A>>, <<"Desc7B", Desc7B>>,
   <<"Desc7C", Desc7C>>, <<"Desc7F", Desc7F>>, <<"Desc7F00", Desc7F00>>,
   <<"Desc7F06", Desc7F06>>, <<"Desc7F15", Desc7F15>>, <<"Desc7F19",
   Desc7F19>>, <<"Desc7F19Presel", Desc7F19Presel>>, <<"Desc7F19PreselText",
   Desc7F19PreselText>>, <<"Desc7F19PreselMsi", Desc7F19PreselMsi>>,
   <<"Desc7F19PreselExt", Desc7F19PreselExt>>, <<"Desc83P28", Desc83P28>>,
   <<"Desc83P28n", Desc83P28n>>, <<"Desc88P28", Desc88P28>>}

=============================================================================
