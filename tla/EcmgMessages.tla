---------------------------- MODULE EcmgMessages ----------------------------
(***************************************************************************)
(* The messages of the ECMG protocol (dvb/sim.h): a version byte and a TLV *)
(* of a type, whose parameters become the fields of a record.  A parameter *)
(* that a message does not have is 0.                                      *)
(***************************************************************************)
EXTENDS Integers, Sequences, FiniteSets

(* What is wrong with the parameters: nothing; there are none at all;      *)
(* tlv_validate or ecmg_validate refuses them.                             *)
Forms == {"whole", "empty", "torn", "lacking"}

Message(ver, type, chan) ==
  [ver |-> ver, type |-> type, chan |-> chan, form |-> "whole",
   sid |-> 0, ecmid |-> 0, err |-> 0,
   max |-> 0, mindur |-> 0, nbCw |-> 0, lead |-> 0,
   encrypt |-> FALSE, combs |-> <<>>]

StreamMessage(ver, type, chan, sid) == [Message(ver, type, chan) EXCEPT !.sid = sid]

ChannelErr(ver, chan, err) == [Message(ver, "channel_error", chan) EXCEPT !.err = err]
StreamErr(ver, chan, sid, err) ==
  [StreamMessage(ver, "stream_error", chan, sid) EXCEPT !.err = err]

(* The types that an ECMG handles, and those that only it sends.           *)
ToServer == {"channel_setup", "channel_test", "channel_close", "channel_error",
             "channel_status", "stream_setup", "stream_test", "stream_closereq",
             "stream_error", "stream_status", "cw"}
FromServer == {"channel_status", "channel_test", "channel_error", "stream_status",
               "stream_test", "stream_closeresp", "stream_error", "ecm"}

(* How many of the messages ms are of this type and name this stream.     *)
CountOf(type, sid, ms) ==
  Cardinality({n \in DOMAIN ms : ms[n].type = type /\ ms[n].sid = sid})

(* Error codes. *)
BadMessage    == 1
BadVersion    == 2
UnknownType   == 3
BadChannel    == 6
UnknownStream == 7
CwEncrypted   == 14
CwMissing     == 11
BadParameter  == 15
NoEcmId       == 16
StreamInUse   == 20
=============================================================================
