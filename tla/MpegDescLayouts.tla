---------------------------- MODULE MpegDescLayouts ----------------------------
(*****************************************************************************)
(* The descriptors of ISO/IEC 13818-1 (mpeg/psi/desc_*.h), one definition    *)
(* per structure; a letter or a name after the tag is an entry of its loop   *)
(* or a part of it.                                                          *)
(*****************************************************************************)
EXTENDS Structures

(* desc02_set_mpeg1_only_flag also gives the length, 1 or 3; the other       *)
(* MPEG-2 fields are read after a test of that flag.                         *)
Desc02 ==
  Further(Accepting(Descriptor(2, 1, 5, {}, {
      Field("multiple_frame_rate", 2, 0, 1), Field("frame_rate_code", 2, 1, 4),
      Field("constraint_parameter", 2, 6, 1), Field("still_picture", 2, 7, 1),
      Field("profile", 3, 0, 4), Field("level", 3, 4, 4),
      WithOnes(Field("chroma_format", 4, 0, 2), Bits(4, 3, 5)),
      WithOnes(Field("frame_rate_extension", 4, 2, 1), Bits(4, 3, 5)),
      Rewriting(WithZeros(WithOnes(AlsoAt(Field("mpeg1_only_flag", 2, 5, 1), 1,
        6, 1, 2), Bits(1, 7, 1)), Bits(1, 0, 6)), {"length"})}), AtLeast(1)),
            {"chroma_format", "frame_rate_extension", "level", "profile"})

Desc03 ==
  Descriptor(3, 1, 3, Byte(2, 7), {
      Field("free_format_flag", 2, 0, 1), Field("ID", 2, 1, 1),
      Field("layer", 2, 2, 2), Field("vbr_flag", 2, 4, 1)})

(* Slip: a setter that leaves the reserved bits as they were.                *)
Desc04NotReserved ==
  Descriptor(4, 4, 6, {}, {
      Field("type", 2, 4, 4),
      WithOnes(Field("layer_index", 3, 2, 6), Bits(3, 0, 2)),
      WithOnes(Field("embedded_layer_index", 4, 2, 6), Bits(4, 0, 2)),
      WithOnes(Field("channel", 5, 2, 6), Bits(5, 0, 2))})

Desc04 ==
  Descriptor(4, 4, 6, {}, {
      WithOnes(Field("type", 2, 4, 4), Bits(2, 0, 4)),
      WithOnes(Field("layer_index", 3, 2, 6), Bits(3, 0, 2)),
      WithOnes(Field("embedded_layer_index", 4, 2, 6), Bits(4, 0, 2)),
      WithOnes(Field("channel", 5, 2, 6), Bits(5, 0, 2))})

(* Slip: a validator that asks for nothing.                                  *)
Desc05NotChecked ==
  Accepting(Descriptor(5, 4, 6, {}, {Field("identifier", 2, 0, 32)}), AtLeast(0))

Desc05 ==
  Descriptor(5, 4, 6, {}, {
      Field("identifier", 2, 0, 32)})

(* Slip: the setter takes the next byte for its own.                         *)
Desc06NextByte ==
  Descriptor(6, 1, 3, {}, {
      StoredAt(Field("alignment", 2, 0, 8), 3, 0, 8, 1)})

Desc06 ==
  Descriptor(6, 1, 3, {}, {
      Field("alignment", 2, 0, 8)})

Desc07 ==
  Descriptor(7, 4, 6, {}, {
      Field("horizontal_size", 2, 0, 14), Field("vertical_size", 3, 6, 14),
      Field("aspect_ratio_info", 5, 4, 4)})

Desc08 ==
  Descriptor(8, 4, 6, {}, {
      Field("horizontal_offset", 2, 0, 14), Field("vertical_offset", 3, 6, 14),
      Field("window_priority", 5, 4, 4)})

Desc09 ==
  Descriptor(9, 4, 6, {}, {
      Field("sysid", 2, 0, 16), WithOnes(Field("pid", 4, 3, 13), Bits(4, 0, 3))})

Desc0A ==
  Accepting(LoopDescriptor(10, 2, {}, {}), Multiple(0, 4))

Desc0An ==
  Structure(4, {}, {
      Field("code", 0, 0, 24), Field("audiotype", 3, 0, 8)})

Desc0B ==
  Descriptor(11, 2, 4, {}, {
      WithOnes(Field("external_clock_reference_indicator", 2, 0, 1),
        Bits(2, 1, 1)),
      WithOnes(Field("clock_accuracy_integer", 2, 2, 6), Bits(2, 1, 1)),
      WithOnes(Field("clock_accuracy_exponent", 3, 0, 3), Bits(3, 3, 5))})

Desc0C ==
  Descriptor(12, 4, 6, {}, {
      Field("bound_valid", 2, 0, 1), Field("LTW_offset_lower_bound", 2, 1, 15),
      WithOnes(Field("LTW_offset_upper_bound", 4, 1, 15), Bits(4, 0, 1))})

(* What has no fixed place is left out.                                      *)
Desc0D ==
  Descriptor(13, 4, 6, {}, {
      Field("copyright_identifier", 2, 0, 32)})

Desc0E ==
  Descriptor(14, 3, 5, {}, {
      WithOnes(Field("max_bitrate", 2, 2, 22), Bits(2, 0, 2))})

Desc0F ==
  Descriptor(15, 4, 6, {}, {
      Field("private_indicator", 2, 0, 32)})

Desc10 ==
  Descriptor(16, 6, 8, {}, {
      WithOnes(Field("sb_leak_rate", 2, 2, 22), Bits(2, 0, 2)),
      WithOnes(Field("sb_size", 5, 2, 22), Bits(5, 0, 2))})

Desc11 ==
  Descriptor(17, 1, 3, {}, {
      WithOnes(Field("leak_valid_flag", 2, 7, 1), Bits(2, 0, 7))})

Desc12 ==
  Descriptor(18, 2, 4, {}, {
      Field("closed_gop_flag", 2, 0, 1), Field("identical_gop_flag", 2, 1, 1),
      Field("max_gop_length", 2, 2, 14)})

(* desc13_get_id and desc13_set_id take a byte for an identifier of 32 bits  *)
(* (mpeg/psi/desc_13.h:64).                                                  *)
Desc13 ==
  Descriptor(19, 4, 6, {}, {BITSTREAM_GET_SET("id", 8, 16, 32)})

Desc1B ==
  Descriptor(27, 1, 3, {}, {
      Field("mpeg4_visual_profile_and_level", 2, 0, 8)})

Desc1C ==
  Descriptor(28, 1, 3, {}, {Field("mpeg4_audio_profile_and_level", 2, 0, 8)})

Desc1D ==
  Descriptor(29, 3, 5, {}, {
      Field("scope", 2, 0, 8), Field("iod_label", 3, 0, 8),
      Field("iod", 4, 0, 8)})

Desc1E ==
  Descriptor(30, 2, 4, {}, {
      Field("es_id", 2, 0, 16)})

Desc1F ==
  Accepting(LoopDescriptor(31, 2, {}, {}), Multiple(0, 3))

Desc1Fn ==
  Structure(3, {}, {
      Field("es_id", 0, 0, 16), Field("flexmux_channel", 2, 0, 8)})

Desc20 ==
  Descriptor(32, 2, 4, {}, {Field("external_es_id", 2, 0, 16)})

(* What has no fixed place is left out.                                      *)
Desc21 ==
  Unchecked(LoopDescriptor(33, 2, {}, {}))

(* What has no fixed place is left out.                                      *)
Desc21n ==
  Structure(3, {}, {
      Field("length", 0, 0, 8), Field("muxcode", 1, 0, 4),
      Field("version", 1, 4, 4), Field("substruct_count", 2, 0, 8)})

Desc21k ==
  Structure(1, {}, {
      Field("slot_count", 0, 0, 5), Field("repetition_count", 0, 5, 3)})

Desc22 ==
  Accepting(Descriptor(34, 3, 5, {}, {
      Field("default_buffer_size", 2, 0, 24)}), Multiple(3, 4))

Desc22n ==
  Structure(4, {}, {
      Field("flexmux_channel", 0, 0, 8), Field("flexmux_buffer_size", 1, 0, 24)})

Desc23 ==
  Descriptor(35, 6, 8, {}, {
      Field("mb_buffer_size", 2, 0, 24), Field("tb_leak_rate", 5, 0, 24)})

(* Laid out as for a format other than 0xffff and no content reference; the  *)
(* time base values and the content id are there for indicators 1 and 2.     *)
(* What has no fixed place is left out.                                      *)
Desc24 ==
  Further(Accepting(LoopDescriptor(36, 16, {}, {
      Field("metadata_application_format", 2, 0, 16),
      WithOnes(Field("content_reference_id_record_flag", 4, 0, 1), Bits(4, 5, 3)),
      WithOnes(Field("content_time_base_indicator", 4, 1, 4), Bits(4, 5, 3)),
      WithOnes(Field("content_time_base_value", 5, 7, 33), Bits(5, 0, 7)),
      WithOnes(Field("metadata_time_base_value", 10, 7, 33), Bits(10, 0, 7)),
      WithOnes(Field("content_id", 15, 1, 7), Bits(15, 0, 1))}), AtLeast(3)),
    {"content_time_base_value", "metadata_time_base_value", "content_id"})

(* Laid out as for formats other than 0xffff and 0xff and no locator record; *)
(* the last fields are there for some values of mpeg_carriage_flags. What    *)
(* has no fixed place is left out.                                           *)
Desc25 ==
  Further(Accepting(LoopDescriptor(37, 13, {}, {
      Field("metadata_application_format", 2, 0, 16), Field("metadata_format", 4, 0, 8),
      Field("metadata_service_id", 5, 0, 8),
      WithOnes(Field("metadata_locator_record_flag", 6, 0, 1), Bits(6, 3, 5)),
      WithOnes(Field("mpeg_carriage_flags", 6, 1, 2), Bits(6, 3, 5)),
      Field("program_number", 7, 0, 16), Field("ts_location", 9, 0, 16),
      Field("ts_id", 11, 0, 16)}), AtLeast(5)),
    {"program_number", "ts_location", "ts_id"})

(* Laid out as for formats other than 0xffff and 0xff and no service         *)
(* identification record. What has no fixed place is left out.               *)
Desc26 ==
  Further(Accepting(LoopDescriptor(38, 8, {}, {
      Field("metadata_application_format", 2, 0, 16), Field("metadata_format", 4, 0, 8),
      Field("metadata_service_id", 5, 0, 8),
      WithOnes(Field("decoder_config_flags", 6, 0, 3), Bits(6, 4, 4)),
      WithOnes(Field("dsm_cc_flag", 6, 3, 1), Bits(6, 4, 4)),
      Field("decoder_config_metadata_service_id", 7, 0, 8)}), AtLeast(5)),
    {"decoder_config_metadata_service_id"})

Desc27 ==
  Descriptor(39, 9, 11, {}, {
      WithOnes(Field("input_leak_rate", 2, 2, 22), Bits(2, 0, 2)),
      WithOnes(Field("buffer_size", 5, 2, 22), Bits(5, 0, 2)),
      WithOnes(Field("output_leak_rate", 8, 2, 22), Bits(8, 0, 2))})

Desc28 ==
  Descriptor(40, 4, 6, Byte(5, 63), {
      Field("profile_idc", 2, 0, 8), Field("constraint_set0_flag", 3, 0, 1),
      Field("constraint_set1_flag", 3, 1, 1),
      Field("constraint_set2_flag", 3, 2, 1),
      Field("avc_compatible_flags", 3, 3, 5), Field("level_idc", 4, 0, 8),
      Field("avc_still_present", 5, 0, 1),
      Field("avc_24_hour_picture_flag", 5, 1, 1)})

(* Laid out as with the timing information and no 90 kHz clock, the longest  *)
(* form. Both switches give the length of the descriptor.                    *)
Desc2A ==
  Further(Accepting(Descriptor(42, 2, 17, Byte(2, 126), {
      Field("hrd_management_valid_flag", 2, 0, 1),
      Rewriting(WithOnes(WithZeros(AlsoAt(AlsoAt(
        Field("picture_and_timing_info_present", 2, 7, 1), 1, 5, 1, 1), 1, 7, 1, 1),
        Bits(1, 0, 5)), Bits(1, 6, 1)), {"length"}),
      Rewriting(WithOnes(WithZeros(AlsoAt(Field("90khz_flag", 3, 0, 1), 1, 4, 1, 2),
        Bits(1, 0, 4)), Bits(1, 5, 3) \cup Bits(3, 1, 7)), {"length"}),
      Field("N", 4, 0, 32), Field("K", 8, 0, 32), Field("num_units_in_tick", 12, 0, 32),
      WithOnes(Field("fixed_frame_rate_flag", 16, 0, 1), Bits(16, 3, 5)),
      WithOnes(Field("temporal_poc_flag", 16, 1, 1), Bits(16, 3, 5)),
      WithOnes(Field("picture_to_display_conversion_flag", 16, 2, 1), Bits(16, 3, 5))}),
      AtLeast(2)),
    {"N", "K", "num_units_in_tick", "fixed_frame_rate_flag", "temporal_poc_flag",
     "picture_to_display_conversion_flag"})

Desc2B ==
  Descriptor(43, 3, 5, {}, {
      Field("aac_profile", 2, 0, 8), Field("aac_channel_config", 3, 0, 8),
      Field("aac_additional_info", 4, 0, 8)})

Desc2C ==
  Descriptor(44, 8, 10, {}, {
      Field("fcr_es_id", 2, 0, 16), Field("fcr_resolution", 4, 0, 32),
      Field("fcr_length", 8, 0, 8), Field("fmx_rate_length", 9, 0, 8)})

Desc32 ==
  OpenAt(Descriptor(50, 24, 26, {}, {
      Reads("interlaced_video", 25, 7, 1)}), Bits(2, 0, 192))

Desc38 ==
  OpenAt(Descriptor(56, 13, 15, {}, {
      BITSTREAM_GET_SET("profile_space", 8, 16, 2),
      BITSTREAM_GET_SET("tier_flag", 8, 18, 1),
      BITSTREAM_GET_SET("profile_idc", 8, 19, 5),
      BITSTREAM_GET_SET("profile_compatibility_indication", 32, 24, 32),
      BITSTREAM_GET_SET("progressive_source_flag", 8, 56, 1),
      BITSTREAM_GET_SET("interlaced_source_flag", 8, 57, 1),
      BITSTREAM_GET_SET("non_packed_constraint_flag", 8, 58, 1),
      BITSTREAM_GET_SET("frame_only_constraint_flag", 8, 59, 1),
      BITSTREAM_GET_SET("copied_44bits", 64, 60, 44),
      BITSTREAM_GET_SET("level_idc", 8, 104, 8),
      BITSTREAM_GET_SET("temporal_layer_subset_flag", 8, 112, 1),
      BITSTREAM_GET_SET("HEVC_still_present_flag", 8, 113, 1),
      BITSTREAM_GET_SET("HEVC_24hr_picture_present_flag", 8, 114, 1),
      BITSTREAM_GET_SET("sub_pic_hrd_params_not_present_flag", 8, 115, 1),
      BITSTREAM_GET_SET("HDR_WCG_idc", 8, 118, 2)}), Bits(14, 4, 2))

Desc38TempLayerSubset ==
  OpenAt(Structure(2, {}, {
      BITSTREAM_GET_SET("id_min", 8, 0, 3),
      BITSTREAM_GET_SET("id_max", 8, 8, 3)}),
          Bits(0, 3, 5) \cup Bits(1, 3, 5))

Desc3F ==
  Descriptor(63, 1, 3, {}, {
      BITSTREAM_GET_SET("tag_extension", 8, 16, 8)})

(* What has no fixed place is left out.                                      *)
Desc3F03 ==
  Descriptor(63, 2, 4, Byte(2, 3), {
      BITSTREAM_GET_SET("hrd_management_valid_flag", 8, 24, 1),
      BITSTREAM_GET_SET("target_schedule_idx_not_present_flag", 8, 25, 1),
      BITSTREAM_GET_SET("target_schedule_idx", 8, 26, 5),
      BITSTREAM_GET_SET("picture_and_timing_info_present_flag", 8, 31, 1)})

Desc3F03Pti ==
  OpenAt(Structure(1, {}, {
      BITSTREAM_GET_SET("90kHz_flag", 8, 0, 1)}), Bits(0, 1, 7))

Desc3F03PtiScale ==
  Structure(8, {}, {
      BITSTREAM_GET_SET("n", 32, 0, 32), BITSTREAM_GET_SET("k", 32, 32, 32)})

Desc3F03PtiTrailer ==
  Structure(4, {}, {
      BITSTREAM_GET_SET("num_units_in_tick", 32, 0, 32)})

(* All of them, with their names.                                            *)
MpegDescStructures ==
  {<<"Desc02", Desc02>>, <<"Desc03", Desc03>>, <<"Desc04", Desc04>>,
   <<"Desc05", Desc05>>, <<"Desc06", Desc06>>, <<"Desc07", Desc07>>,
   <<"Desc08", Desc08>>, <<"Desc09", Desc09>>, <<"Desc0A", Desc0A>>,
   <<"Desc0An", Desc0An>>, <<"Desc0B", Desc0B>>, <<"Desc0C", Desc0C>>,
   <<"Desc0D", Desc0D>>, <<"Desc0E", Desc0E>>, <<"Desc0F", Desc0F>>,
   <<"Desc10", Desc10>>, <<"Desc11", Desc11>>, <<"Desc12", Desc12>>,
   <<"Desc13", Desc13>>, <<"Desc1B", Desc1B>>, <<"Desc1C", Desc1C>>,
   <<"Desc1D", Desc1D>>, <<"Desc1E", Desc1E>>, <<"Desc1F", Desc1F>>,
   <<"Desc1Fn", Desc1Fn>>, <<"Desc20", Desc20>>, <<"Desc21", Desc21>>,
   <<"Desc21n", Desc21n>>, <<"Desc21k", Desc21k>>, <<"Desc22", Desc22>>,
   <<"Desc22n", Desc22n>>, <<"Desc23", Desc23>>, <<"Desc24", Desc24>>,
   <<"Desc25", Desc25>>, <<"Desc26", Desc26>>, <<"Desc27", Desc27>>,
   <<"Desc28", Desc28>>, <<"Desc2A", Desc2A>>, <<"Desc2B", Desc2B>>,
   <<"Desc2C", Desc2C>>, <<"Desc32", Desc32>>, <<"Desc38", Desc38>>,
   <<"Desc38TempLayerSubset", Desc38TempLayerSubset>>, <<"Desc3F", Desc3F>>,
   <<"Desc3F03", Desc3F03>>, <<"Desc3F03Pti", Desc3F03Pti>>,
   <<"Desc3F03PtiScale", Desc3F03PtiScale>>, <<"Desc3F03PtiTrailer",
   Desc3F03PtiTrailer>>}

=============================================================================
