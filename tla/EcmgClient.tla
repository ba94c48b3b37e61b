----------------------------- MODULE EcmgClient -----------------------------
(***************************************************************************)
(* dvb_ecmg_test.c: a client of an ECMG, that opens a channel, sets up     *)
(* streams one by one and sends control words for those that the server    *)
(* has confirmed, each once per crypto-period.  Here the server may send   *)
(* any message at any time; see Ecmg for the one of dvb_ecmg.c.            *)
(*                                                                         *)
(* One iteration of the main loop is one step; what it sends is then       *)
(* written message by message.  Time counts in seconds.                    *)
(***************************************************************************)
EXTENDS Integers, Sequences, FiniteSets, EcmgMessages

CONSTANTS
  Wanted,  \* i_wanted_streams
  Periods, \* crypto-periods that the client may be asked for
  Channel, \* i_channelid, drawn at random
  Answers, \* messages that a server may send
  MaxLag   \* bound: how many seconds an iteration may be late

Version == 1        \* i_version is never assigned
CpNumber == 255     \* nor is i_cp_number, once set

VARIABLES
  i_period,  \* the crypto-period, an argument of the program
  c_running, \* the process has not decided to end
  c_init,    \* the channel has not been confirmed
  c_streams, \* per stream, whether it has been confirmed; stream i has id i
  c_nbCw, c_lead,
  turn,      \* i_last_time modulo i_period
  lag,       \* seconds since i_last_time
  c_out,     \* messages to be written
  balance    \* history: see KeepsPace

vars == <<i_period, c_running, c_init, c_streams, c_nbCw, c_lead, turn, lag, c_out, balance>>

Ready == c_running /\ c_out = <<>>

StreamNames == 1 .. Wanted
Known(sid) == sid \in DOMAIN c_streams

-----------------------------------------------------------------------------
(* The answer to a message, and whether the client gives up then.          *)

Handled == FromServer \ {"stream_closeresp"}

Refusal(m) ==
  IF m.ver # Version THEN BadVersion
  ELSE IF m.form = "torn" THEN BadMessage
  ELSE IF m.form = "lacking" THEN BadParameter
  ELSE IF c_init /\ m.type # "channel_status" THEN BadChannel
  ELSE 0

Answer(m) ==
  IF Refusal(m) # 0 THEN <<ChannelErr(Version, Channel, Refusal(m))>>
  ELSE IF m.type \notin Handled THEN <<ChannelErr(Version, Channel, UnknownType)>>
  ELSE IF m.type \notin {"channel_error", "stream_error"} /\ m.chan # Channel
    THEN <<ChannelErr(Version, m.chan, BadChannel)>>
  ELSE IF m.type \in {"stream_status", "stream_test", "ecm"} /\ ~ Known(m.sid)
    THEN <<StreamErr(Version, Channel, m.sid, UnknownStream)>>
  ELSE <<>>

(* The server supports too few streams, or only longer crypto-periods.     *)
Unfit(m) == m.max < Wanted \/ m.mindur > i_period * 10

Fatal(m) ==
  \/ Refusal(m) # 0
  \/ m.type \in {"channel_test", "channel_error", "stream_test"}
  \/ m.type \in {"channel_status", "stream_status"} /\ Answer(m) # <<>>
  \/ m.type = "channel_status" /\ c_init /\ Unfit(m)

GiveUp(m) ==
  /\ m.form = "empty" \/ Fatal(m)
  /\ c_running' = FALSE
  /\ c_out' = IF m.form = "empty" THEN <<>> ELSE Answer(m)
  /\ UNCHANGED <<i_period, c_init, c_streams, c_nbCw, c_lead, turn, lag, balance>>

-----------------------------------------------------------------------------
(* What the end of an iteration sends: the setup of one more stream and    *)
(* the control words that have become due since the last iteration.        *)

(* Slip: all the control words are for the same crypto-period. *)
CwForSame(i) ==
  [StreamMessage(Version, "cw", Channel, i) EXCEPT
     !.combs = [k \in 1 .. c_nbCw' |-> [len |-> 10, cp |-> CpNumber]]]

(* send_cw, for stream i *)
CwFor(i) ==
  [StreamMessage(Version, "cw", Channel, i) EXCEPT
     !.combs = [k \in 1 .. c_nbCw' |->
                  [len |-> 10, cp |-> (CpNumber + k - (c_nbCw' - c_lead')) % 65536]]]

(* Slip: whose turn it is is not looked at. *)
TurnsOfAll(confirmed) == {t \in (1 .. lag) \X DOMAIN confirmed : confirmed[t[2]]}

(* Slip: only the present second is looked at. *)
TurnsNow(confirmed) ==
  {t \in (1 .. lag) \X DOMAIN confirmed :
     /\ confirmed[t[2]] /\ t[1] = lag
     /\ (t[2] - 1) % i_period = (turn + t[1]) % i_period}

(* check_cw: the seconds since i_last_time, and whose turn it is in each. *)
Turns(confirmed) ==
  {t \in (1 .. lag) \X DOMAIN confirmed :
     confirmed[t[2]] /\ (t[2] - 1) % i_period = (turn + t[1]) % i_period}

(* The place of a turn: second by second, and in each stream by stream.    *)
Rank(t, turns) ==
  Cardinality({u \in turns : u[1] < t[1] \/ (u[1] = t[1] /\ u[2] <= t[2])})

Due(confirmed) ==
  LET turns == Turns(confirmed)
  IN  [r \in 1 .. Cardinality(turns) |-> CwFor((CHOOSE t \in turns : Rank(t, turns) = r)[2])]

(* Slip: a new stream counts as confirmed. *)
ExtendedConfirmed(confirmed) ==
  IF Len(confirmed) < Wanted THEN Append(confirmed, TRUE) ELSE confirmed

(* create_stream *)
Extended(confirmed) ==
  IF Len(confirmed) < Wanted THEN Append(confirmed, FALSE) ELSE confirmed

(* Slip: the server is not asked for the last stream. *)
SetupsShort(confirmed) ==
  IF Len(confirmed) + 1 < Wanted
    THEN <<StreamMessage(Version, "stream_setup", Channel, Len(confirmed) + 1)>>
    ELSE <<>>

Setups(confirmed) ==
  IF Len(confirmed) < Wanted
    THEN <<StreamMessage(Version, "stream_setup", Channel, Len(confirmed) + 1)>>
    ELSE <<>>

(* The end of an iteration that has sent answer, when the streams are      *)
(* confirmed as given.  Without a channel there is nothing to do, but then *)
(* the iteration only waits.                                               *)
EndIteration(answer, confirmed) ==
  /\ c_streams' = Extended(confirmed)
  /\ c_out' = answer \o Setups(confirmed) \o Due(confirmed)
  /\ turn' = (turn + lag) % i_period
  /\ lag' = 0
  /\ balance' = [i \in StreamNames |->
       IF i \in DOMAIN confirmed /\ confirmed[i]
         THEN balance[i] + lag - i_period * CountOf("cw", i, c_out')
         ELSE 0]

-----------------------------------------------------------------------------
(* The iterations *)

ChannelConfirmed(m) ==
  /\ m.form # "empty" /\ ~ Fatal(m)
  /\ m.type = "channel_status" /\ c_init
  /\ c_init' = FALSE
  /\ c_nbCw' = m.nbCw /\ c_lead' = m.lead
  /\ EndIteration(<<>>, c_streams)
  /\ UNCHANGED <<i_period, c_running>>

StreamConfirmed(m) ==
  /\ m.form # "empty" /\ ~ Fatal(m)
  /\ m.type = "stream_status"
  /\ UNCHANGED <<i_period, c_running, c_init, c_nbCw, c_lead>>
  /\ EndIteration(<<>>, [c_streams EXCEPT ![m.sid] = TRUE])

OtherMessage(m) ==
  /\ m.form # "empty" /\ ~ Fatal(m)
  /\ m.type # "stream_status" /\ ~ (m.type = "channel_status" /\ c_init)
  /\ UNCHANGED <<i_period, c_running, c_init, c_nbCw, c_lead>>
  /\ EndIteration(Answer(m), c_streams)

Receive(m) == GiveUp(m) \/ ChannelConfirmed(m) \/ StreamConfirmed(m) \/ OtherMessage(m)

(* Nothing came for SELECT_TIMEOUT, one second. *)
NoPacket ==
  /\ ~ c_init /\ lag > 0
  /\ UNCHANGED <<i_period, c_running, c_init, c_nbCw, c_lead>>
  /\ EndIteration(<<>>, c_streams)

(* The server has gone. *)
Eof ==
  /\ c_running' = FALSE
  /\ UNCHANGED <<i_period, c_init, c_streams, c_nbCw, c_lead, turn, lag, c_out, balance>>

Write ==
  /\ c_out # <<>>
  /\ c_out' = Tail(c_out)
  /\ UNCHANGED <<i_period, c_running, c_init, c_streams, c_nbCw, c_lead, turn, lag, balance>>

(* A second passes.  As long as there is no channel, and so no stream, it  *)
(* only matters for whose turn it will be.                                 *)
Tick ==
  /\ IF c_init THEN lag' = (lag + 1) % i_period ELSE lag < MaxLag /\ lag' = lag + 1
  /\ UNCHANGED <<i_period, c_running, c_init, c_streams, c_nbCw, c_lead, turn, c_out, balance>>

Init ==
  /\ i_period \in Periods
  /\ c_running = TRUE
  /\ c_init = TRUE
  /\ c_streams = <<>>
  /\ c_nbCw = 0 /\ c_lead = 0
  /\ turn \in 0 .. i_period - 1
  /\ lag = 0
  /\ c_out = <<Message(Version, "channel_setup", Channel)>>
  /\ balance = [i \in StreamNames |-> 0]

Next ==
  \/ Ready /\ (NoPacket \/ Eof \/ \E m \in Answers : Receive(m))
  \/ Write
  \/ Tick

Spec == Init /\ [][Next]_vars

-----------------------------------------------------------------------------

TypeOK ==
  /\ i_period \in Periods
  /\ c_running \in BOOLEAN /\ c_init \in BOOLEAN
  /\ c_streams \in Seq(BOOLEAN) /\ Len(c_streams) <= Wanted
  /\ c_nbCw \in Nat /\ c_lead \in Nat
  /\ turn \in 0 .. i_period - 1
  /\ lag \in Nat
  /\ \A i \in DOMAIN c_out : c_out[i].type \in ToServer
  /\ balance \in [StreamNames -> Int]

(* However late the iterations of the main loop are, each confirmed stream *)
(* gets one control word per crypto-period: the time since its             *)
(* confirmation, less a period for every control word, stays below a       *)
(* period (check_cw and the loop that calls it).                           *)
KeepsPace == \A i \in StreamNames : balance[i] \in 1 - i_period .. i_period - 1

=============================================================================
