--------------------------- MODULE GeneratorPrograms ---------------------------
(***************************************************************************)
(* What dvb_gen_si writes: for every function of it, the structures the       *)
(* function fills and the calls it makes on each, in the order it makes them. *)
(* A program is a pair <<structure, calls>>; "init" stands for X_init, the    *)
(* name of a field for its setter, "output" for output_psi_section.  An entry *)
(* that X_get_entry gives is a structure of its own, and entries that are     *)
(* filled by the same calls are one program.  Setters of texts and of parts   *)
(* whose place depends on the content are left out, as in the tables of the   *)
(* structures, and so is the checksum.                                        *)
(***************************************************************************)

build_desc02_1 ==
  {<<"Desc02", <<"init", "multiple_frame_rate", "frame_rate_code",
   "mpeg1_only_flag", "constraint_parameter", "still_picture">>>>}

build_desc02_2 ==
  {<<"Desc02", <<"init", "multiple_frame_rate", "frame_rate_code",
   "mpeg1_only_flag", "constraint_parameter", "still_picture", "profile",
   "level", "chroma_format", "frame_rate_extension">>>>}

build_desc03 ==
  {<<"Desc03", <<"init", "free_format_flag", "ID", "layer", "vbr_flag">>>>}

build_desc04 ==
  {<<"Desc04", <<"init", "type", "layer_index", "embedded_layer_index",
   "channel">>>>}

build_desc05 ==
  {<<"Desc05", <<"init", "identifier">>>>}

build_desc06 ==
  {<<"Desc06", <<"init", "alignment">>>>}

build_desc07 ==
  {<<"Desc07", <<"init", "horizontal_size", "vertical_size",
   "aspect_ratio_info">>>>}

build_desc08 ==
  {<<"Desc08", <<"init", "horizontal_offset", "vertical_offset",
   "window_priority">>>>}

build_desc09 ==
  {<<"Desc09", <<"init", "sysid", "pid">>>>}

build_desc0a ==
  {<<"Desc0An", <<"code", "audiotype">>>>, <<"Desc0A", <<"init", "length",
   "length">>>>}

build_desc0b ==
  {<<"Desc0B", <<"init", "external_clock_reference_indicator",
   "clock_accuracy_integer", "clock_accuracy_exponent">>>>}

build_desc0c ==
  {<<"Desc0C", <<"init", "bound_valid", "LTW_offset_lower_bound",
   "LTW_offset_upper_bound">>>>}

build_desc0d ==
  {<<"Desc0D", <<"init", "copyright_identifier">>>>}

build_desc0e ==
  {<<"Desc0E", <<"init", "max_bitrate">>>>}

build_desc0f ==
  {<<"Desc0F", <<"init", "private_indicator">>>>}

build_desc10 ==
  {<<"Desc10", <<"init", "sb_leak_rate", "sb_size">>>>}

build_desc11 ==
  {<<"Desc11", <<"init", "leak_valid_flag">>>>}

build_desc12 ==
  {<<"Desc12", <<"init", "closed_gop_flag", "identical_gop_flag",
   "max_gop_length">>>>}

build_desc1b ==
  {<<"Desc1B", <<"init", "mpeg4_visual_profile_and_level">>>>}

build_desc1c ==
  {<<"Desc1C", <<"init", "mpeg4_audio_profile_and_level">>>>}

build_desc1d ==
  {<<"Desc1D", <<"init", "scope", "iod_label", "iod">>>>}

build_desc1e ==
  {<<"Desc1E", <<"init", "es_id">>>>}

build_desc1f ==
  {<<"Desc1Fn", <<"es_id", "flexmux_channel">>>>, <<"Desc1F", <<"init",
   "length", "length">>>>}

build_desc20 ==
  {<<"Desc20", <<"init", "external_es_id">>>>}

build_desc21 ==
  {<<"Desc21n", <<"muxcode", "version", "length", "substruct_count">>>>,
   <<"Desc21k", <<"repetition_count", "slot_count">>>>, <<"Desc21n",
   <<"muxcode", "version", "length", "substruct_count", "length",
   "substruct_count">>>>, <<"Desc21", <<"init", "length", "length">>>>}

build_desc22 ==
  {<<"Desc22n", <<"flexmux_channel", "flexmux_buffer_size">>>>, <<"Desc22",
   <<"init", "default_buffer_size", "length", "length">>>>}

build_desc23 ==
  {<<"Desc23", <<"init", "mb_buffer_size", "tb_leak_rate">>>>}

build_desc24_1 ==
  {<<"Desc24", <<"init", "metadata_application_format",
   "content_reference_id_record_flag", "content_time_base_indicator",
   "length">>>>}

build_desc24_2 ==
  {<<"Desc24", <<"init", "metadata_application_format",
   "content_reference_id_record_flag", "content_time_base_indicator",
   "length">>>>}

build_desc24_3 ==
  {<<"Desc24", <<"init", "metadata_application_format",
   "content_reference_id_record_flag", "content_time_base_indicator",
   "content_time_base_value", "metadata_time_base_value", "content_id",
   "length">>>>}

build_desc25 ==
  {<<"Desc25", <<"init", "metadata_application_format", "metadata_format",
   "metadata_service_id", "metadata_locator_record_flag",
   "mpeg_carriage_flags", "program_number", "ts_location", "ts_id",
   "length">>>>}

build_desc26_1 ==
  {<<"Desc26", <<"init", "metadata_application_format", "metadata_format",
   "metadata_service_id", "dsm_cc_flag", "decoder_config_flags",
   "length">>>>}

build_desc26_2 ==
  {<<"Desc26", <<"init", "metadata_application_format", "metadata_format",
   "metadata_service_id", "dsm_cc_flag", "decoder_config_flags",
   "decoder_config_metadata_service_id", "length">>>>}

build_desc27 ==
  {<<"Desc27", <<"init", "input_leak_rate", "buffer_size",
   "output_leak_rate">>>>}

build_desc28 ==
  {<<"Desc28", <<"init", "profile_idc", "constraint_set0_flag",
   "constraint_set1_flag", "constraint_set2_flag", "avc_compatible_flags",
   "level_idc", "avc_still_present", "avc_24_hour_picture_flag">>>>}

build_desc2a ==
  {<<"Desc2A", <<"init", "hrd_management_valid_flag",
   "picture_and_timing_info_present", "90khz_flag", "N", "K",
   "num_units_in_tick", "fixed_frame_rate_flag", "temporal_poc_flag",
   "picture_to_display_conversion_flag">>>>}

build_desc2b ==
  {<<"Desc2B", <<"init", "aac_profile", "aac_channel_config",
   "aac_additional_info">>>>}

build_desc2c ==
  {<<"Desc2C", <<"init", "fcr_es_id", "fcr_resolution", "fcr_length",
   "fmx_rate_length">>>>}

build_desc41 ==
  {<<"Desc41n", <<"sid", "type">>>>, <<"Desc41", <<"init", "length",
   "length">>>>}

build_desc43 ==
  {<<"Desc43", <<"init", "frequency_bcd", "position_bcd", "east",
   "polarization", "rolloff", "dvbs2", "modulation", "symbolrate_bcd",
   "fecinner">>>>}

build_desc44 ==
  {<<"Desc44", <<"init", "frequency_bcd", "fecouter", "modulation",
   "symbolrate", "fecinner">>>>}

build_desc45 ==
  {<<"Desc45n", <<"service_id", "data_length">>>>, <<"Desc45", <<"init",
   "length", "length">>>>}

build_desc46 ==
  {<<"Desc46n", <<"code", "teletexttype", "teletextmagazine",
   "teletextpage">>>>, <<"Desc46", <<"init", "length", "length">>>>}

build_desc48 ==
  {<<"Desc48", <<"init", "type", "provider_length", "length">>>>}

build_desc49 ==
  {<<"Desc49", <<"init", "country_availability_flag", "length",
   "length">>>>}

build_desc4a_std ==
  {<<"Desc4A", <<"init", "tsid", "onid", "sid", "linkage">>>>}

build_desc4a_mobile ==
  {<<"Desc4A", <<"init", "tsid", "onid", "sid", "linkage", "length">>>>}

build_desc4a_event ==
  {<<"Desc4A", <<"init", "tsid", "onid", "sid", "linkage", "length">>>>}

build_desc4a_extended_event ==
  {<<"Desc4An", <<"ext_event_target_event_id", "ext_event_target_listed",
   "ext_event_simulcast", "ext_event_link_type", "ext_event_target_id_type",
   "ext_event_onid_id_flag", "ext_event_service_id_flag">>>>, <<"Desc4A",
   <<"init", "tsid", "onid", "sid", "linkage", "length", "length">>>>}

build_desc4b ==
  {<<"Desc4Bn", <<"tsid", "onid", "sid">>>>, <<"Desc4B", <<"init", "length",
   "length">>>>}

build_desc4c ==
  {<<"Desc4C", <<"init", "reference_sid">>>>}

build_desc4d ==
  {<<"Desc4D", <<"init", "lang", "event_name_length", "length">>>>}

build_desc4e ==
  {<<"Desc4E", <<"init", "length", "desc_number", "last_desc_number",
   "lang", "items_length", "items_length", "items_length", "length">>>>}

build_desc4f ==
  {<<"Desc4F", <<"init", "reference_sid", "reference_event_id">>>>}

build_desc50 ==
  {<<"Desc50", <<"init", "stream_content", "component_type",
   "component_tag", "language">>>>}

build_desc51 ==
  {<<"Desc51n", <<"logical_cell_id", "logical_cell_presentation_info",
   "elementary_cell_field_length">>>>, <<"Desc51", <<"init",
   "mosaic_entry_point", "horizontal_cells", "vertical_cells", "length",
   "length">>>>}

build_desc52 ==
  {<<"Desc52", <<"init", "component_tag">>>>}

build_desc53 ==
  {<<"Desc53n", <<"ca_sysid">>>>, <<"Desc53", <<"init", "length",
   "length">>>>}

build_desc54 ==
  {<<"Desc54n", <<"content_l1", "content_l2", "user">>>>, <<"Desc54",
   <<"init", "length", "length">>>>}

build_desc55 ==
  {<<"Desc55n", <<"country_code", "rating">>>>, <<"Desc55", <<"init",
   "length", "length">>>>}

build_desc57 ==
  {<<"Desc57", <<"init", "foreign_availability", "connection_type",
   "country_prefix_length", "international_area_code_length",
   "operator_code_length", "national_area_code_length",
   "core_number_length", "length">>>>}

build_desc58 ==
  {<<"Desc58n", <<"country_code", "country_region_id", "lto_polarity",
   "lt_offset", "time_of_change", "next_offset">>>>, <<"Desc58", <<"init",
   "length", "length">>>>}

build_desc59 ==
  {<<"Desc59n", <<"code", "subtitlingtype", "compositionpage",
   "ancillarypage">>>>, <<"Desc59", <<"init", "length", "length">>>>}

build_desc5a ==
  {<<"Desc5A", <<"init", "frequency", "bandwidth", "priority",
   "timeslicing", "mpefec", "constellation", "hierarchy", "coderatehp",
   "coderatelp", "guard", "transmission", "otherfrequency">>>>}

build_desc5b ==
  {<<"Desc5Bn", <<"code", "networkname_length">>>>, <<"Desc5B", <<"init",
   "length", "length">>>>}

build_desc5c ==
  {<<"Desc5C", <<"init", "length", "length">>>>}

build_desc5d ==
  {<<"Desc5Dn", <<"code", "provider_name_length">>>>, <<"Desc5D", <<"init",
   "length", "length">>>>}

build_desc5e ==
  {<<"Desc5En", <<"code", "text_length">>>>, <<"Desc5E", <<"init",
   "component_tag", "length", "length">>>>}

build_desc5f ==
  {<<"Desc5F", <<"init", "specifier">>>>}

build_desc60 ==
  {<<"Desc60", <<"init", "new_onid", "new_tsid", "new_service_id">>>>}

build_desc61 ==
  {<<"Desc61", <<"init", "sb_size", "sb_leak_rate">>>>}

build_desc62 ==
  {<<"Desc62n", <<"freq">>>>, <<"Desc62", <<"init", "coding_type", "length",
   "length">>>>}

build_desc63 ==
  {<<"Desc63", <<"init", "peak_rate", "min_overall_smoothing_rate",
   "max_overall_smoothing_buffer">>>>}

build_desc64 ==
  {<<"Desc64", <<"init", "broadcast_id", "component_tag",
   "selector_byte_length", "length">>>>}

build_desc65 ==
  {<<"Desc65", <<"init", "scrambling_mode">>>>}

build_desc66 ==
  {<<"Desc66", <<"init", "broadcast_id">>>>}

build_desc69 ==
  {<<"Desc69", <<"init", "day", "month", "hour", "minute">>>>}

build_desc6a ==
  {<<"Desc6A", <<"init", "component_type_flag", "bsid_flag", "mainid_flag",
   "asvc_flag", "length">>>>}

build_desc6b ==
  {<<"Desc6B", <<"init", "dvd_video_ancillary_data_flag",
   "extended_ancillary_data_flag", "announcement_switching_data_flag",
   "dab_ancillary_data_flag", "scale_factor_error_check_flag",
   "mpeg4_ancillary_data_flag", "rds_via_uecp_flag">>>>}

build_desc6c ==
  {<<"Desc6Cn", <<"cell_id", "cell_latitude", "cell_longtitude",
   "cell_extend_of_latitude", "cell_extend_of_longtitude",
   "subcell_info_loop_length">>>>, <<"Desc6Ck", <<"cell_id_extension",
   "subcell_latitude", "subcell_longtitude", "subcell_extend_of_latitude",
   "subcell_extend_of_longtitude">>>>, <<"Desc6Cn", <<"cell_id",
   "cell_latitude", "cell_longtitude", "cell_extend_of_latitude",
   "cell_extend_of_longtitude", "subcell_info_loop_length",
   "subcell_info_loop_length", "subcell_info_loop_length">>>>, <<"Desc6C",
   <<"init", "length", "length">>>>}

build_desc6d ==
  {<<"Desc6Dn", <<"cell_id", "frequency", "subcell_info_loop_length">>>>,
   <<"Desc6Dk", <<"cell_id_extension", "transponder_frequency">>>>,
   <<"Desc6Dn", <<"cell_id", "frequency", "subcell_info_loop_length",
   "subcell_info_loop_length", "subcell_info_loop_length">>>>, <<"Desc6D",
   <<"init", "length", "length">>>>}

build_desc6e ==
  {<<"Desc6En", <<"announcement_type", "reference_type">>>>, <<"Desc6En",
   <<"announcement_type", "reference_type", "onid", "tsid", "service_id",
   "component_tag">>>>, <<"Desc6E", <<"init", "emergency_alarm_flag",
   "road_traffic_flash_flag", "public_transport_flash_flag",
   "warning_message_flag", "news_flash_flag", "weather_flash_flag",
   "event_announcement_flag", "personal_call_flag", "length", "length">>>>}

build_desc7a ==
  {<<"Desc7A", <<"init", "component_type_flag", "bsid_flag", "mainid_flag",
   "asvc_flag", "mixinfoexists_flag", "substream1_flag", "substream2_flag",
   "substream3_flag", "length">>>>}

build_desc7b ==
  {<<"Desc7B", <<"init", "sample_rate_code", "bit_rate_code", "nblks",
   "fsize", "surround_mode", "lfe_flag", "extended_surround_flag">>>>}

build_desc7c ==
  {<<"Desc7C", <<"init", "profile_and_level">>>>}

(* Slip: the section is not numbered. *)
generate_patUnnumbered ==
  {<<"Patn", <<"init", "program", "pid">>>>, <<"Pat", <<"init", "length",
   "tableidext", "version", "current", "lastsection", "output",
   "version", "current", "output", "version", "current", "length",
   "length">>>>}

generate_pat ==
  {<<"Patn", <<"init", "program", "pid">>>>, <<"Pat", <<"init", "length",
   "tableidext", "version", "current", "section", "lastsection", "output",
   "version", "current", "output", "version", "current", "length",
   "length">>>>}

generate_cat ==
  {<<"Cat", <<"init", "length", "version", "current", "output", "version",
   "current", "output", "version", "current", "length", "length">>>>,
   <<"Descs", <<"length", "length">>>>}

generate_tsdt ==
  {<<"Tsdt", <<"init", "length", "version", "current", "output", "version",
   "current", "length", "length">>>>, <<"Descs", <<"length", "length">>>>}

generate_nit ==
  {<<"Nith", <<"init", "tslength">>>>, <<"Nitn", <<"init", "tsid", "onid",
   "desclength">>>>, <<"Descs", <<"length", "length">>>>, <<"Nitn",
   <<"init", "tsid", "onid", "onid", "desclength">>>>, <<"Nit", <<"init",
   "version", "current", "tableidext", "length", "desclength", "output",
   "init", "version", "current", "tableidext", "length", "desclength",
   "desclength", "desclength", "length", "length", "length">>>>}

generate_bat ==
  {<<"Nith", <<"init", "tslength">>>>, <<"Nitn", <<"init", "tsid", "onid",
   "desclength">>>>, <<"Descs", <<"length", "length">>>>, <<"Bat", <<"init",
   "version", "current", "tableidext", "length", "desclength", "output",
   "init", "version", "current", "tableidext", "length", "desclength",
   "desclength", "desclength", "length", "length", "length">>>>}

generate_sdt ==
  {<<"Sdtn", <<"init", "sid", "running", "desclength">>>>, <<"Descs",
   <<"length", "length">>>>, <<"Sdtn", <<"init", "sid", "eitschedule",
   "running", "desclength">>>>, <<"Sdtn", <<"init", "sid", "eitschedule",
   "eitpresent", "running", "desclength">>>>, <<"Sdtn", <<"init", "sid",
   "eitschedule", "eitpresent", "running", "ca", "desclength">>>>, <<"Sdt",
   <<"init", "version", "current", "tableidext", "onid", "length", "output",
   "init", "version", "current", "tableidext", "onid", "length",
   "length">>>>}

generate_eit ==
  {<<"Eitn", <<"event_id", "start_time", "duration_bcd", "running",
   "desclength">>>>, <<"Descs", <<"length", "length">>>>, <<"Eitn",
   <<"event_id", "start_time", "duration_bcd", "running", "ca",
   "desclength">>>>, <<"Eit", <<"init", "version", "current", "length",
   "tableidext", "tsid", "onid", "segment_last_sec_number", "last_table_id",
   "output", "init", "version", "current", "tsid", "onid", "length",
   "length">>>>}

generate_tdt ==
  {<<"Tdt", <<"init", "utc", "output", "utc", "output", "utc", "output",
   "utc">>>>}

generate_tot ==
  {<<"Tot", <<"init", "length", "desclength", "utc", "output", "utc",
   "output", "utc", "desclength", "desclength", "length">>>>}

generate_rst ==
  {<<"Rstn", <<"init", "tsid", "onid", "service_id", "event_id",
   "running">>>>, <<"Rst", <<"init", "length", "output", "length",
   "length">>>>}

generate_pmt ==
  {<<"Pmtn", <<"init", "streamtype", "pid", "desclength">>>>, <<"Descs",
   <<"length", "length">>>>, <<"Pmt", <<"init", "version", "current",
   "length", "tableidext", "pcrpid", "desclength", "output", "init",
   "version", "current", "pcrpid", "length", "desclength", "desclength",
   "length", "length", "length">>>>}

generate_dit ==
  {<<"Dit", <<"init", "transition_flag", "output", "transition_flag">>>>}

generate_sit ==
  {<<"Sitn", <<"init", "sid", "running", "desclength">>>>, <<"Sit",
   <<"init", "version", "current", "length", "desclength", "output", "init",
   "version", "current", "length", "desclength", "length", "desclength",
   "desclength", "length", "length", "length">>>>, <<"Descs", <<"length",
   "length">>>>}

(* The first init of each message is scte35_init, which the one of the command *)
(* begins with.                                                              *)
generate_scte35 ==
  {<<"Scte35Null", <<"init", "length", "pts_adjustment", "init", "desclength",
   "length", "output">>>>, <<"Scte35Insert", <<"init", "length",
   "pts_adjustment", "init", "cancel", "event_id", "out_of_network",
   "program_splice", "duration", "splice_immediate", "splice_time.init",
   "splice_time.time_specified", "splice_time.pts_time",
   "break_duration.init", "break_duration.auto_return",
   "break_duration.duration", "unique_program_id", "avail_num",
   "avails_expected", "desclength", "length", "output">>>>}

Programs ==
  UNION {build_desc02_1, build_desc02_2, build_desc03, build_desc04,
    build_desc05, build_desc06, build_desc07, build_desc08, build_desc09,
    build_desc0a, build_desc0b, build_desc0c, build_desc0d, build_desc0e,
    build_desc0f, build_desc10, build_desc11, build_desc12, build_desc1b,
    build_desc1c, build_desc1d, build_desc1e, build_desc1f, build_desc20,
    build_desc21, build_desc22, build_desc23, build_desc24_1,
    build_desc24_2, build_desc24_3, build_desc25, build_desc26_1,
    build_desc26_2, build_desc27, build_desc28, build_desc2a, build_desc2b,
    build_desc2c, build_desc41, build_desc43, build_desc44, build_desc45,
    build_desc46, build_desc48, build_desc49, build_desc4a_std,
    build_desc4a_mobile, build_desc4a_event, build_desc4a_extended_event,
    build_desc4b, build_desc4c, build_desc4d, build_desc4e, build_desc4f,
    build_desc50, build_desc51, build_desc52, build_desc53, build_desc54,
    build_desc55, build_desc57, build_desc58, build_desc59, build_desc5a,
    build_desc5b, build_desc5c, build_desc5d, build_desc5e, build_desc5f,
    build_desc60, build_desc61, build_desc62, build_desc63, build_desc64,
    build_desc65, build_desc66, build_desc69, build_desc6a, build_desc6b,
    build_desc6c, build_desc6d, build_desc6e, build_desc7a, build_desc7b,
    build_desc7c, generate_pat, generate_cat, generate_tsdt, generate_nit,
    generate_bat, generate_sdt, generate_eit, generate_tdt, generate_tot,
    generate_rst, generate_pmt, generate_dit, generate_sit, generate_scte35}

=============================================================================
