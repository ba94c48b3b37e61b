----------------------------- MODULE EcmgServer -----------------------------
(***************************************************************************)
(* dvb_ecmg.c: a server that turns control words into ECMs, for one client *)
(* at a time.  The client opens a channel and streams on it, and sends     *)
(* control words for its streams.  Here the client may send any message at *)
(* any time; see Ecmg for the one of dvb_ecmg_test.c.                      *)
(*                                                                         *)
(* The server handles one message after another; what it has to say about  *)
(* one is written before it reads the next.                                *)
(***************************************************************************)
EXTENDS Integers, Sequences, FiniteSets, EcmgMessages

CONSTANTS
  StreamIds,
  Requests,   \* messages that a client may send
  NULL

(* Messages that name no stream have stream id 0.  NULL is no stream, no   *)
(* channel and no answer.                                                  *)
ASSUME ServerAssumption ==
  /\ IsFiniteSet(StreamIds) /\ 0 \in StreamIds
  /\ \A m \in Requests : /\ m.sid \in StreamIds
                         /\ m.ecmid \in Int \cup {NULL} /\ m.ver \in Nat
                         /\ NULL # <<m.chan, m.ver>>
  /\ NULL \notin [sid : StreamIds, ecmid : Int]
  /\ NULL \notin (FromServer \cup {"error"}) \X StreamIds

LatestVersion == 3

(* announced by send_channel_status *)
MaxStreams == 500
MinCpDur   == 3
LeadCw     == 1
CwPerMsg   == 2

CwLength == 10

VARIABLES
  running,     \* the process has not ended
  b_init,      \* there is no channel
  i_version,
  i_channelid,
  streams,     \* pp_streams, with NULL for an entry that is free
  out          \* the message to be written, if any: <<>> or <<m>>

vars == <<running, b_init, i_version, i_channelid, streams, out>>

Ready == running /\ out = <<>>

(* find_stream *)
SlotsOf(sid) == {i \in DOMAIN streams : streams[i] # NULL /\ streams[i].sid = sid}

Open == {streams[i].sid : i \in {j \in DOMAIN streams : streams[j] # NULL}}

Least(S) == CHOOSE i \in S : \A j \in S : i <= j

-----------------------------------------------------------------------------
(* What the main loop refuses, in the order it looks. *)

Refusal(m) ==
  IF (b_init /\ m.ver > LatestVersion) \/ (~ b_init /\ m.ver # i_version) THEN BadVersion
  ELSE IF m.form = "torn" THEN BadMessage
  ELSE IF m.form = "lacking" THEN BadParameter
  ELSE IF b_init /\ m.type # "channel_setup" THEN BadChannel
  ELSE IF m.type \notin ToServer THEN UnknownType
  ELSE 0

Refuse(m) ==
  /\ m.form # "empty" /\ Refusal(m) # 0
  /\ out' = <<ChannelErr(i_version, i_channelid, Refusal(m))>>
  /\ UNCHANGED <<running, b_init, i_version, i_channelid, streams>>

(* read_wrapper takes a message without parameters for the end of input. *)
Hangup(m) ==
  /\ m.form = "empty"
  /\ running' = FALSE
  /\ UNCHANGED <<b_init, i_version, i_channelid, streams, out>>

Accepted(m) == m.form # "empty" /\ Refusal(m) = 0

(* Handlers that name a channel, or a stream, that is not there. *)
Addressed == {"channel_test", "channel_close", "stream_setup", "stream_test",
              "stream_closereq", "cw"}

WrongChannel(m) ==
  /\ Accepted(m) /\ ~ b_init
  /\ m.type \in Addressed \cup {"channel_setup"}
  /\ m.chan # i_channelid
  /\ out' = <<ChannelErr(i_version, m.chan, BadChannel)>>
  /\ UNCHANGED <<running, b_init, i_version, i_channelid, streams>>

Here(m, type) == Accepted(m) /\ m.type = type /\ m.chan = i_channelid

NoSuchStream(m) ==
  /\ \E type \in {"stream_test", "stream_closereq", "cw"} : Here(m, type)
  /\ SlotsOf(m.sid) = {}
  /\ out' = <<StreamErr(i_version, i_channelid, m.sid, UnknownStream)>>
  /\ UNCHANGED <<running, b_init, i_version, i_channelid, streams>>

-----------------------------------------------------------------------------
(* Channels *)

Status(ver, chan) ==
  [Message(ver, "channel_status", chan) EXCEPT
     !.max = MaxStreams, !.mindur = MinCpDur, !.nbCw = CwPerMsg, !.lead = LeadCw]

(* handle_channel_setup *)
ChannelSetup(m) ==
  /\ Accepted(m) /\ m.type = "channel_setup" /\ b_init
  /\ b_init' = FALSE
  /\ i_version' = m.ver
  /\ i_channelid' = m.chan
  /\ out' = <<Status(m.ver, m.chan)>>
  /\ UNCHANGED <<running, streams>>

(* A setup of the channel that is open already, and what nobody answers.   *)
Ignore(m) ==
  /\ Accepted(m)
  /\ \/ m.type = "channel_setup" /\ ~ b_init /\ m.chan = i_channelid
     \/ m.type \in {"channel_error", "stream_error", "channel_status", "stream_status"}
  /\ UNCHANGED vars

ChannelTest(m) ==
  /\ Here(m, "channel_test")
  /\ out' = <<Status(i_version, i_channelid)>>
  /\ UNCHANGED <<running, b_init, i_version, i_channelid, streams>>

(* Slip: the streams outlive their channel. *)
ChannelCloseKeeping(m) ==
  /\ Here(m, "channel_close")
  /\ b_init' = TRUE
  /\ UNCHANGED <<running, i_version, i_channelid, streams, out>>

(* A closed channel is not acknowledged. *)
ChannelClose(m) ==
  /\ Here(m, "channel_close")
  /\ b_init' = TRUE
  /\ streams' = <<>>
  /\ UNCHANGED <<running, i_version, i_channelid, out>>

-----------------------------------------------------------------------------
(* Streams *)

StreamStatus(s) ==
  [StreamMessage(i_version, "stream_status", i_channelid, s.sid) EXCEPT
     !.ecmid = IF i_version >= 2 THEN s.ecmid ELSE 0]

Free == {i \in DOMAIN streams : streams[i] = NULL}

(* Slip: free entries are not used again. *)
StoredAtEnd(s) == Append(streams, s)

Stored(s) ==
  IF Free = {} THEN Append(streams, s) ELSE [streams EXCEPT ![Least(Free)] = s]

(* handle_stream_setup: an ECM id is needed from version 2 of the protocol *)
(* on, and not looked at before.                                           *)
StreamSetup(m) ==
  LET s == [sid |-> m.sid, ecmid |-> IF i_version >= 2 THEN m.ecmid ELSE 0]
  IN  /\ Here(m, "stream_setup")
      /\ SlotsOf(m.sid) = {}
      /\ ~ (i_version >= 2 /\ m.ecmid = NULL)
      /\ streams' = Stored(s)
      /\ out' = <<StreamStatus(s)>>
      /\ UNCHANGED <<running, b_init, i_version, i_channelid>>

StreamSetupFails(m) ==
  /\ Here(m, "stream_setup")
  /\ SlotsOf(m.sid) # {} \/ (i_version >= 2 /\ m.ecmid = NULL)
  /\ out' = <<StreamErr(i_version, i_channelid, m.sid,
                        IF SlotsOf(m.sid) # {} THEN StreamInUse ELSE NoEcmId)>>
  /\ UNCHANGED <<running, b_init, i_version, i_channelid, streams>>

StreamTest(m) ==
  /\ Here(m, "stream_test") /\ SlotsOf(m.sid) # {}
  /\ out' = <<StreamStatus(streams[Least(SlotsOf(m.sid))])>>
  /\ UNCHANGED <<running, b_init, i_version, i_channelid, streams>>

StreamClose(m) ==
  /\ Here(m, "stream_closereq") /\ SlotsOf(m.sid) # {}
  /\ out' = <<StreamMessage(i_version, "stream_closeresp", i_channelid, m.sid)>>
  /\ streams' = [streams EXCEPT ![Least(SlotsOf(m.sid))] = NULL]
  /\ UNCHANGED <<running, b_init, i_version, i_channelid>>

(* handle_cw: what is wrong with the control words, in the order it looks. *)
(* The two of them must be for crypto-periods of different parity.         *)
CwProblem(m) ==
  IF m.encrypt THEN CwEncrypted
  ELSE IF Len(m.combs) # 2 THEN CwMissing
  ELSE IF \E i \in 1 .. 2 : m.combs[i].len # CwLength THEN BadParameter
  ELSE IF m.combs[1].cp % 2 = m.combs[2].cp % 2 THEN CwMissing
  ELSE 0

Cw(m) ==
  /\ Here(m, "cw") /\ SlotsOf(m.sid) # {}
  /\ out' = <<IF CwProblem(m) = 0
                THEN StreamMessage(i_version, "ecm", i_channelid, m.sid)
                ELSE StreamErr(i_version, i_channelid, m.sid, CwProblem(m))>>
  /\ UNCHANGED <<running, b_init, i_version, i_channelid, streams>>

-----------------------------------------------------------------------------

Handle(m) ==
  \/ Refuse(m) \/ Hangup(m) \/ WrongChannel(m) \/ NoSuchStream(m) \/ Ignore(m)
  \/ ChannelSetup(m) \/ ChannelTest(m) \/ ChannelClose(m)
  \/ StreamSetup(m) \/ StreamSetupFails(m) \/ StreamTest(m) \/ StreamClose(m)
  \/ Cw(m)

(* Nothing came for SELECT_TIMEOUT: a client without channel is given up,  *)
(* one with a channel is sent a message that will fail if it is dead.      *)
TimeoutIdle ==
  /\ b_init
  /\ running' = FALSE
  /\ UNCHANGED <<b_init, i_version, i_channelid, streams, out>>

TimeoutTest ==
  /\ ~ b_init
  /\ out' = <<Message(i_version, "channel_test", i_channelid)>>
  /\ UNCHANGED <<running, b_init, i_version, i_channelid, streams>>

Timeout == TimeoutIdle \/ TimeoutTest

(* The message in out is written. *)
Write ==
  /\ running /\ out # <<>>
  /\ out' = <<>>
  /\ UNCHANGED <<running, b_init, i_version, i_channelid, streams>>

Init ==
  /\ running = TRUE
  /\ b_init = TRUE
  /\ i_version = 1
  /\ i_channelid = 0
  /\ streams = <<>>
  /\ out = <<>>

Next == \/ Ready /\ (Timeout \/ \E m \in Requests : Handle(m))
        \/ Write

Spec == Init /\ [][Next]_vars

-----------------------------------------------------------------------------

Stream == [sid : StreamIds, ecmid : Int]

TypeOK ==
  /\ running \in BOOLEAN /\ b_init \in BOOLEAN
  /\ i_version \in Nat
  /\ i_channelid \in {0} \cup {m.chan : m \in Requests}
  /\ streams \in Seq(Stream \cup {NULL})
  /\ out = <<>> \/ (out = <<out[1]>> /\ out[1].type \in FromServer)

(* Whatever the order in which streams come and go, none is stored twice,  *)
(* so that the first that find_stream finds is the only one.               *)
Distinct ==
  \A i, j \in DOMAIN streams :
    streams[i] # NULL /\ streams[j] # NULL /\ streams[i].sid = streams[j].sid => i = j

(* Free entries are used again: pp_streams, which only ever grows as long  *)
(* as the channel is open, never has more entries than there are stream    *)
(* ids.                                                                    *)
ArrayBounded == Len(streams) <= Cardinality(StreamIds)

(* What the client can rely on: see EcmgService. *)
ReplyKind(m) == IF m.type \in {"channel_error", "stream_error"} THEN "error" ELSE m.type

Service == INSTANCE EcmgService WITH
  channel <- IF b_init THEN NULL ELSE <<i_channelid, i_version>>,
  open    <- Open,
  reply   <- IF out = <<>> THEN NULL ELSE <<ReplyKind(out[1]), out[1].sid>>

(* The array of streams and the handlers behave like a set of open streams *)
(* (dvb_ecmg.c as a whole against EcmgService).                            *)
ServiceSpec == Service!Spec
=============================================================================
