---------------------------- MODULE EcmgService -----------------------------
(***************************************************************************)
(* What an ECMG promises to its client: a channel with a set of streams,   *)
(* where an answer about a stream means that the stream is there, and a    *)
(* refusal that nothing has changed.                                       *)
(***************************************************************************)
CONSTANTS StreamIds, NULL

VARIABLES
  channel, \* NULL when there is none
  open,    \* the streams of the channel
  reply    \* <<kind, stream>> to be written, NULL when there is none

vars == <<channel, open, reply>>

OpenChannel ==
  /\ reply = NULL /\ channel = NULL
  /\ channel' # NULL
  /\ reply' = <<"channel_status", 0>>
  /\ UNCHANGED open

CloseChannel ==
  /\ reply = NULL /\ channel # NULL
  /\ channel' = NULL
  /\ open' = {}
  /\ UNCHANGED reply

OpenStream(sid) ==
  /\ reply = NULL /\ channel # NULL
  /\ sid \notin open
  /\ open' = open \cup {sid}
  /\ reply' = <<"stream_status", sid>>
  /\ UNCHANGED channel

CloseStream(sid) ==
  /\ reply = NULL
  /\ sid \in open
  /\ open' = open \ {sid}
  /\ reply' = <<"stream_closeresp", sid>>
  /\ UNCHANGED channel

AnswerForStream(sid) ==
  /\ reply = NULL
  /\ sid \in open
  /\ reply' \in {<<"stream_status", sid>>, <<"ecm", sid>>}
  /\ UNCHANGED <<channel, open>>

AnswerForChannel ==
  /\ reply = NULL /\ channel # NULL
  /\ reply' \in {<<"channel_status", 0>>, <<"channel_test", 0>>}
  /\ UNCHANGED <<channel, open>>

Refuse(sid) ==
  /\ reply = NULL
  /\ reply' = <<"error", sid>>
  /\ UNCHANGED <<channel, open>>

Write ==
  /\ reply # NULL
  /\ reply' = NULL
  /\ UNCHANGED <<channel, open>>

Init == channel = NULL /\ open = {} /\ reply = NULL

Next ==
  \/ OpenChannel \/ CloseChannel \/ AnswerForChannel \/ Write \/ Refuse(0)
  \/ \E sid \in StreamIds : \/ OpenStream(sid) \/ CloseStream(sid)
                            \/ AnswerForStream(sid) \/ Refuse(sid)

Spec == Init /\ [][Next]_vars
=============================================================================
