------------------------------ MODULE NetLayouts ------------------------------
(*****************************************************************************)
(* The headers of IP, UDP, RTP and the formats carried over them (ietf,      *)
(* smpte, haivision), one definition per structure.                          *)
(*****************************************************************************)
EXTENDS Structures

Ethernet ==
  Structure(14, {}, {
      Field("dstaddr", 0, 0, 48), Field("srcaddr", 6, 0, 48),
      Field("lentype", 12, 0, 16)})

(* The tag follows the addresses and the type of the outer header.           *)
EthernetVlan ==
  OpenAt(Structure(18, {}, {
      Field("priority", 14, 0, 3), Field("cfi", 14, 3, 1),
      Field("id", 14, 4, 12), Field("lentype", 16, 0, 16)}), Bits(0, 0, 112))

(* The getters of the flags return the bit in its place in the byte          *)
(* (ietf/ip.h:129), and ip_get_frag_offset returns 8 of the 13 bits          *)
(* (ietf/ip.h:161).                                                          *)
Ip ==
  Fragile(Structure(20, {}, {
      Field("version", 0, 0, 4), Field("ihl", 0, 4, 4), Field("tos", 1, 0, 8),
      Field("len", 2, 0, 16), Field("id", 4, 0, 16), Field("ttl", 8, 0, 8),
      Field("proto", 9, 0, 8), Field("cksum", 10, 0, 16),
      Field("srcaddr", 12, 0, 32), Field("dstaddr", 16, 0, 32),
      Field("flag_reserved", 6, 0, 1), Field("flag_df", 6, 1, 1),
      Field("flag_mf", 6, 2, 1), Field("frag_offset", 6, 3, 13)}),
          {"flag_df", "flag_mf", "flag_reserved", "frag_offset"})

Udp ==
  Structure(8, {}, {
      Field("srcport", 0, 0, 16), Field("dstport", 2, 0, 16),
      Field("len", 4, 0, 16), Field("cksum", 6, 0, 16)})

(* Slip: the setter of the type writes the whole byte.                       *)
RtpTypeWritesByte ==
  Views(Structure(12, Byte(0, 128), {
      Flag("padding", 0, 2), Flag("extension", 0, 3), Field("cc", 0, 4, 4),
      WithZeros(Field("type", 1, 1, 7), Bits(1, 0, 1)), Field("seqnum", 2, 0, 16),
      Field("timestamp", 4, 0, 32), Field("ssrc", 8, 0, 32),
      Field("int_ssrc", 8, 0, 32), Flag("marker", 1, 0),
      Rewriting(Writes("clear_marker", {}, Bits(1, 0, 1)), {"marker"})}), {"ssrc"})

Rtp ==
  Views(Structure(12, Byte(0, 128), {
      Flag("padding", 0, 2), Flag("extension", 0, 3), Field("cc", 0, 4, 4),
      Field("type", 1, 1, 7), Field("seqnum", 2, 0, 16),
      Field("timestamp", 4, 0, 32), Field("ssrc", 8, 0, 32),
      Field("int_ssrc", 8, 0, 32), Flag("marker", 1, 0),
      Rewriting(Writes("clear_marker", {}, Bits(1, 0, 1)), {"marker"})}), {"ssrc"})

Rtpx ==
  Structure(4, {}, {
      Field("header", 0, 0, 16), Field("length", 2, 0, 16)})

Rtp2250v ==
  Structure(8, Bytes(0, 3, 0), {
      Flag("mpeg2", 0, 5), Writes("mpeg2_hdr", {}, Bits(4, 0, 32))})

Rtp2250a ==
  Structure(4, {}, {
      Writes("hdr", {}, Bits(0, 0, 32))})

(* What has no fixed place is left out.                                      *)
Rtp2435 ==
  Structure(8, {}, {
      Field("ts", 0, 0, 8), Field("offset", 1, 0, 24), Field("type", 4, 0, 8),
      Field("q", 5, 0, 8), Field("width", 6, 0, 8), Field("height", 7, 0, 8)})

(* rtp2435r_set_count raises the upper bits of the count without clearing    *)
(* the old ones (ietf/rtp2435.h:187); the two flags lie in the byte below    *)
(* it, over bits of the count.                                               *)
Rtp2435r ==
  Fragile(Structure(4, {}, {
      Flag("first", 2, 7), Flag("last", 2, 6),
      Rewriting(Writes("clear_first", {}, Bits(2, 7, 1)), {"first"}),
      Rewriting(Writes("clear_last", {}, Bits(2, 6, 1)), {"last"}),
      Field("interval", 0, 0, 16),
      WithZeros(Raising(Field("count", 2, 0, 14), Bits(2, 0, 8)), Bits(3, 6, 2))}),
          {"count", "first", "last"})

(* rtp2435q_get_length shifts the upper byte out of its result               *)
(* (ietf/rtp2435.h:237).                                                     *)
Rtp2435q ==
  Fragile(Structure(4, {}, {
      Field("mbz", 0, 0, 8), Field("precision", 1, 0, 8),
      Field("length", 2, 0, 16)}), {"length"})

Rtp3640 ==
  Structure(2, {}, {
      Field("au_headers_length", 0, 0, 16)})

(* An access unit header of the AAC-hbr mode.                                *)
Rtp3640AacHbr ==
  Structure(2, {}, {
      Field("aac_hbr_au_size", 0, 0, 13), Field("aac_hbr_au_index", 1, 5, 3)})

Rtp6184Stap ==
  Structure(2, {}, {
      Field("size", 0, 0, 16)})

Rtp6184Fu ==
  OpenAt(Structure(1, {}, {
      Flag("start", 0, 0), Flag("end", 0, 1)}), Bits(0, 2, 6))

(* rtcp_set_rc raises bits without clearing the old ones (ietf/rtcp.h:44).   *)
Rtcp ==
  Fragile(Structure(4, Byte(0, 128), {
      Raising(Field("rc", 0, 3, 5), Bits(0, 3, 5)), Field("pt", 1, 0, 8),
      Field("length", 2, 0, 16)}), {"rc"})

(* rtcp_fb_set_fmt raises bits without clearing the old ones                 *)
(* (ietf/rtcp_fb.h:14).                                                      *)
RtcpFb ==
  Fragile(OpenAt(Views(Structure(12, {}, {
      Raising(Field("fmt", 0, 3, 5), Bits(0, 3, 5)),
      Field("ssrc_pkt_sender", 4, 0, 32),
      Field("int_ssrc_pkt_sender", 4, 0, 32), Field("ssrc_media_src", 8, 0, 32)}),
          {"ssrc_pkt_sender"}), Bits(0, 0, 3) \cup Bits(1, 0, 24)), {"fmt"})

RtcpFbNack ==
  Structure(4, {}, {
      Field("packet_id", 0, 0, 16), Field("bitmask_lost", 2, 0, 16)})

(* The number of lost packets is clamped and kept as a sign and a magnitude. *)
(* The header is an Rtcp.                                                    *)
RtcpRr ==
  OpenAt(Structure(32, {}, {
      Writes("pt", Bits(1, 0, 2) \cup Bits(1, 4, 1) \cup Bits(1, 7, 1),
        Bits(1, 2, 2) \cup Bits(1, 5, 2)),
      Field("fraction_lost", 12, 0, 8), Field("highest_seqnum", 16, 0, 32),
      Field("inter_arrival_jitter", 20, 0, 32), Field("last_sr", 24, 0, 32),
      Field("delay_since_last_sr", 28, 0, 32),
      Field("cumulative_packets_lost", 13, 0, 24)}),
          Bits(0, 0, 8) \cup Bits(2, 0, 80))

RtcpSr ==
  OpenAt(Structure(28, Byte(0, 128), {
      Writes("pt", Bits(1, 0, 2) \cup Bits(1, 4, 1),
        Bits(1, 2, 2) \cup Bits(1, 5, 3)),
      Field("length", 2, 0, 16), Field("ntp_time_msw", 8, 0, 32),
      Field("ntp_time_lsw", 12, 0, 32), Field("rtp_time", 16, 0, 32),
      Field("packet_count", 20, 0, 32), Field("octet_count", 24, 0, 32)}),
          Bits(4, 0, 32))

RtcpSdes ==
  OpenAt(Structure(10, {}, {
      Writes("pt", Bits(1, 0, 2) \cup Bits(1, 4, 1) \cup Bits(1, 6, 1),
        Bits(1, 2, 2) \cup Bits(1, 5, 1) \cup Bits(1, 7, 1)),
      Field("cname", 8, 0, 8), Field("name_length", 9, 0, 8)}),
          Bits(0, 0, 8) \cup Bits(2, 0, 48))

RtcpXr ==
  OpenAt(Structure(8, {}, {
      Field("ssrc_sender", 4, 0, 32), Field("bt", 0, 0, 8),
      Field("length", 2, 0, 16)}), Bits(1, 0, 8))

RtcpXrRrtp ==
  OpenAt(Structure(12, {}, {
      Writes("reserved", {}, Bits(1, 0, 8)), Field("ntp", 4, 0, 64)}),
          Bits(0, 0, 8) \cup Bits(2, 0, 16))

RtcpXrDlrr ==
  OpenAt(Structure(16, {}, {
      Writes("reserved", {}, Bits(1, 0, 8)), Field("ssrc_receiver", 4, 0, 32),
      Field("lrr", 8, 0, 32), Field("dlrr", 12, 0, 32)}),
          Bits(0, 0, 8) \cup Bits(2, 0, 16))

Rfc4175 ==
  Structure(2, {}, {
      Field("extended_sequence_number", 0, 0, 16)})

(* A line header; all its setters but the one of the length raise bits       *)
(* without clearing the old ones (ietf/rfc4175.h:86 to :117).                *)
Rfc4175Line ==
  Fragile(Structure(6, {}, {
      Field("line_length", 0, 0, 16),
      Raising(Field("line_field_id", 2, 0, 1), Bits(2, 0, 1)),
      Raising(Field("line_number", 2, 1, 15), Bits(2, 1, 7)),
      Raising(Field("line_continuation", 4, 0, 1), Bits(4, 0, 1)),
      Raising(Field("line_offset", 4, 1, 15), Bits(4, 1, 7))}),
          {"line_continuation", "line_field_id", "line_number", "line_offset"})

Rfc8331 ==
  Structure(8, {}, {
      Field("extended_sequence_number", 0, 0, 16), Field("length", 2, 0, 16),
      Field("anc_count", 4, 0, 8),
      WithZeros(Field("f", 5, 0, 2), Bits(5, 2, 22))})

(* Most setters raise bits without clearing the old ones                     *)
(* (smpte/2022_6_hbrmt.h:61 to :179): the header is meant to be cleared      *)
(* first.                                                                    *)
SmpteHbrmt ==
  Fragile(Structure(12, {}, {
      Raising(Field("ext", 0, 0, 4), Bits(0, 0, 4)),
      Flag("video_source_format", 0, 4),
      Raising(Field("video_source_id", 0, 5, 3), Bits(0, 5, 3)),
      Field("frame_count", 1, 0, 8),
      Raising(Field("reference_for_time_stamp", 2, 0, 2), Bits(2, 0, 2)),
      Raising(Field("video_payload_scrambling", 2, 2, 2), Bits(2, 2, 2)),
      Raising(Field("fec", 2, 4, 3), Bits(2, 4, 3)),
      Raising(Field("clock_frequency", 2, 7, 4), Bits(2, 7, 4)),
      Writes("reserved", {}, Bits(3, 3, 5)),
      Raising(Field("map", 4, 0, 4), Bits(4, 0, 4)),
      Raising(Field("frame", 4, 4, 8), Bits(4, 4, 8)),
      Raising(Field("frate", 5, 4, 8), Bits(5, 4, 8)),
      Raising(Field("sample", 6, 4, 4), Bits(6, 4, 4)),
      Writes("fmt_reserve", {}, Bits(7, 0, 8)), Field("timestamp", 8, 0, 32)}),
          {"clock_frequency", "ext", "fec", "frame", "frate", "map",
          "reference_for_time_stamp", "sample", "video_payload_scrambling",
          "video_source_id"})

(* The setters of the sequence and message numbers raise their upper bits    *)
(* without clearing the old ones (haivision/srt.h:124 and :177).             *)
SrtDataPacket ==
  Fragile(Structure(16, {}, {
      Rewriting(WithZeros(Field("packet_control", 0, 0, 1), Bits(0, 1, 7)), {"data_packet_seq"}),
      Raising(Field("data_packet_seq", 0, 1, 31), Bits(0, 1, 7)),
      Field("data_packet_position", 4, 0, 2), Field("data_packet_order", 4, 2, 1),
      Field("data_packet_encryption", 4, 3, 2), Field("data_packet_retransmit", 4, 5, 1),
      Raising(Field("data_packet_message_number", 4, 6, 26), Bits(4, 6, 2)),
      Field("packet_timestamp", 8, 0, 32), Field("packet_dst_socket_id", 12, 0, 32)}),
    {"data_packet_seq", "data_packet_message_number"})

(* srt_set_control_packet_type raises the upper bits of the type             *)
(* (haivision/srt.h:216).                                                    *)
SrtControlPacket ==
  Fragile(Structure(16, {}, {
      Rewriting(WithZeros(Field("packet_control", 0, 0, 1), Bits(0, 1, 7)),
        {"control_packet_type"}),
      Raising(Field("control_packet_type", 0, 1, 15), Bits(0, 1, 7)),
      Field("control_packet_subtype", 2, 0, 16),
      Field("control_packet_type_specific", 4, 0, 32),
      Field("packet_timestamp", 8, 0, 32), Field("packet_dst_socket_id", 12, 0, 32)}),
    {"control_packet_type"})

SrtHandshake ==
  Structure(48, {}, {
      Field("handshake_version", 0, 0, 32),
      Field("handshake_encryption", 4, 0, 16),
      Field("handshake_extension", 6, 0, 16), Field("handshake_isn", 8, 0, 32),
      Field("handshake_mtu", 12, 0, 32), Field("handshake_mfw", 16, 0, 32),
      Field("handshake_type", 20, 0, 32),
      Field("handshake_socket_id", 24, 0, 32),
      Field("handshake_syn_cookie", 28, 0, 32),
      Field("handshake_ip", 32, 0, 128)})

SrtHandshakeExtension ==
  Structure(4, {}, {
      Field("handshake_extension_type", 0, 0, 16),
      Field("handshake_extension_len", 2, 0, 16)})

SrtHandshakeRequest ==
  Structure(12, {}, {
      Field("handshake_extension_srt_flags", 4, 0, 32),
      Field("handshake_extension_receiver_tsbpd_delay", 8, 0, 16),
      Field("handshake_extension_sender_tsbpd_delay", 10, 0, 16),
      Field("handshake_extension_srt_version", 0, 0, 32)})

SrtKm ==
  OpenAt(Structure(32, {}, {
      Field("kk", 3, 6, 2), Field("cipher", 8, 0, 8), Field("auth", 9, 0, 8),
      Field("klen", 15, 0, 8), Field("salt", 16, 0, 128)}),
          Bits(0, 0, 30) \cup Bits(4, 0, 32) \cup Bits(10, 0, 40))

SrtAck ==
  Structure(28, {}, {
      Field("ack_last_ack_seq", 0, 0, 32), Field("ack_rtt", 4, 0, 32),
      Field("ack_rtt_variance", 8, 0, 32),
      Field("ack_avail_bufsize", 12, 0, 32),
      Field("ack_packets_receiving_rate", 16, 0, 32),
      Field("ack_estimated_link_capacity", 20, 0, 32),
      Field("ack_receiving_rate", 24, 0, 32)})

(* The getters of both numbers shift the upper byte out before they mask it  *)
(* (haivision/srt.h:969 and :982).                                           *)
SrtDropreq ==
  Fragile(Structure(8, {}, {
      WithZeros(Field("dropreq_first_seq", 0, 1, 31), Bits(0, 0, 1)),
      WithZeros(Field("dropreq_last_seq", 4, 1, 31), Bits(4, 0, 1))}),
    {"dropreq_first_seq", "dropreq_last_seq"})

(* The size is kept on seven bits of each byte. The footer is a header with  *)
(* another tag.                                                              *)
Id3v2 ==
  Structure(10,
    Byte(0, 73) \cup Byte(1, 68) \cup Byte(2, 51) \cup Byte(3, 4)
    \cup Bytes(4, 9, 0), {
      Field("version_major", 3, 0, 8), Field("version_rev", 4, 0, 8),
      WithZeros(And(And(And(Field("size", 6, 1, 7), 7, 1, 7), 8, 1, 7), 9, 1,
        7), Bits(6, 0, 1) \cup Bits(7, 0, 1) \cup Bits(8, 0, 1)
        \cup Bits(9, 0, 1)),
      Flag("unsynchronisation", 5, 0),
      Rewriting(Writes("unset_unsynchronisation", {}, Bits(5, 0, 1)),
        {"unsynchronisation"}),
      Flag("extended_header", 5, 1),
      Rewriting(Writes("unset_extended_header", {}, Bits(5, 1, 1)),
        {"extended_header"}),
      Flag("experimental", 5, 2),
      Rewriting(Writes("unset_experimental", {}, Bits(5, 2, 1)),
        {"experimental"}),
      Flag("footer", 5, 3),
      Rewriting(Writes("unset_footer", {}, Bits(5, 3, 1)), {"footer"})})

Id3v2Frame ==
  OpenAt(Structure(10, {}, {
      Field("id", 0, 0, 32),
      WithZeros(And(And(And(Field("size", 4, 1, 7), 5, 1, 7), 6, 1, 7), 7, 1,
        7), Bits(4, 0, 1) \cup Bits(5, 0, 1) \cup Bits(6, 0, 1)
        \cup Bits(7, 0, 1)),
      Flag("tag_alter_preservation", 8, 1),
      Rewriting(Writes("unset_tag_alter_preservation", {}, Bits(8, 1, 1)),
        {"tag_alter_preservation"}),
      Flag("file_alter_preservation", 8, 2),
      Rewriting(Writes("unset_file_alter_preservation", {}, Bits(8, 2, 1)),
        {"file_alter_preservation"}),
      Flag("read_only", 8, 3),
      Rewriting(Writes("unset_read_only", {}, Bits(8, 3, 1)), {"read_only"}),
      Flag("group_identity", 9, 1),
      Rewriting(Writes("unset_group_identity", {}, Bits(9, 1, 1)),
        {"group_identity"}),
      Flag("compression", 9, 4),
      Rewriting(Writes("unset_compression", {}, Bits(9, 4, 1)), {"compression"}),
      Flag("encryption", 9, 5),
      Rewriting(Writes("unset_encryption", {}, Bits(9, 5, 1)), {"encryption"}),
      Flag("unsynchronisation", 9, 6),
      Rewriting(Writes("unset_unsynchronisation", {}, Bits(9, 6, 1)),
        {"unsynchronisation"}),
      Flag("data_length_indicator", 9, 7),
      Rewriting(Writes("unset_data_length_indicator", {}, Bits(9, 7, 1)),
        {"data_length_indicator"})}),
            Bits(8, 0, 1) \cup Bits(8, 4, 5) \cup Bits(9, 2, 2))

Tlvh ==
  Structure(1, {}, {
      Field("version", 0, 0, 8)})

Tlv ==
  Structure(4, {}, {
      Field("type", 0, 0, 16), Field("length", 2, 0, 16)})

Ecmgcw ==
  Structure(2, {}, {
      Field("cpnum", 0, 0, 16)})

(* All of them, with their names.                                            *)
NetStructures ==
  {<<"Ethernet", Ethernet>>, <<"EthernetVlan", EthernetVlan>>, <<"Ip", Ip>>,
   <<"Udp", Udp>>, <<"Rtp", Rtp>>, <<"Rtpx", Rtpx>>, <<"Rtp2250v", Rtp2250v>>,
   <<"Rtp2250a", Rtp2250a>>, <<"Rtp2435", Rtp2435>>, <<"Rtp2435r", Rtp2435r>>,
   <<"Rtp2435q", Rtp2435q>>, <<"Rtp3640", Rtp3640>>, <<"Rtp3640AacHbr",
   Rtp3640AacHbr>>, <<"Rtp6184Stap", Rtp6184Stap>>, <<"Rtp6184Fu", Rtp6184Fu>>,
   <<"Rtcp", Rtcp>>, <<"RtcpFb", RtcpFb>>, <<"RtcpFbNack", RtcpFbNack>>,
   <<"RtcpRr", RtcpRr>>, <<"RtcpSr", RtcpSr>>, <<"RtcpSdes", RtcpSdes>>,
   <<"RtcpXr", RtcpXr>>, <<"RtcpXrRrtp", RtcpXrRrtp>>, <<"RtcpXrDlrr",
   RtcpXrDlrr>>, <<"Rfc4175", Rfc4175>>, <<"Rfc4175Line", Rfc4175Line>>,
   <<"Rfc8331", Rfc8331>>, <<"SmpteHbrmt", SmpteHbrmt>>, <<"SrtDataPacket",
   SrtDataPacket>>, <<"SrtControlPacket", SrtControlPacket>>, <<"SrtHandshake",
   SrtHandshake>>, <<"SrtHandshakeExtension", SrtHandshakeExtension>>,
   <<"SrtHandshakeRequest", SrtHandshakeRequest>>, <<"SrtKm", SrtKm>>,
   <<"SrtAck", SrtAck>>, <<"SrtDropreq", SrtDropreq>>, <<"Id3v2", Id3v2>>,
   <<"Id3v2Frame", Id3v2Frame>>, <<"Tlvh", Tlvh>>, <<"Tlv", Tlv>>, <<"Ecmgcw",
   Ecmgcw>>}

=============================================================================
