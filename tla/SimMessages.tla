---------------------------- MODULE SimMessages -----------------------------
(***************************************************************************)
(* The messages of the Simulcrypt protocols (dvb/sim.h): a type and a      *)
(* length, and parameters that have a type, a length and a value each.     *)
(* The programs compose them in a buffer of their own, parameter by        *)
(* parameter, and declare their length when they are done; the other side  *)
(* counts the parameters, checks their lengths, and then reads them        *)
(* without asking again.                                                   *)
(*                                                                         *)
(* A message is here the sequence of its parameters, and the walk over     *)
(* them a kind of Loops; what is composed is followed by a mark of two     *)
(* bytes, the type of a parameter that is still free.                      *)
(***************************************************************************)
EXTENDS Integers, Sequences, SequencesExt, FiniteSets

CONSTANTS
  Versions,     \* of the protocol
  ControlWords, \* numbers of control words that a server asks for, in a byte
  MaxOdd        \* bound: parameters of another's message that are not as they should be;
                \* with them there are no more than tlv_find_param, which counts in a
                \* byte, can number

ASSUME MessagesAssumption ==
  Versions \subseteq Nat /\ ControlWords \subseteq 0 .. 255 /\ MaxOdd \in 0 .. 240

VARIABLES
  message,  \* of which protocol, version and type; for one that is composed
            \* here, what it is to hold and the room its buffer has for it
  stage,    \* "composing", "foreign", "sent", "accepted" or "refused"
  todo,     \* the parameters that are still to be appended
  params,   \* the parameters that are in it
  declared, \* its length field
  odd       \* of a foreign message: how often it was made worse

messageVars == <<message, stage, todo, params, declared, odd>>

-----------------------------------------------------------------------------
(* Parameters. *)

Header == 4
Mark == 2

(* number: what the composer gave, of which value are the bytes.            *)
Param(type, number, value) == [type |-> type, number |-> number, value |-> value]
Size(ps) == Header * Len(ps) + Len(FlattenSeq([i \in DOMAIN ps |-> ps[i].value]))

(* intf_append_name and intf_find_name: a number goes byte by byte into as  *)
(* many as its type has, and comes out of as many.                          *)
Weight == <<1, 256, 65536, 16777216>>
Encoded(v, size) == [i \in 1 .. size |-> (v \div Weight[size - i + 1]) % 256]
Decoded(bytes, size) ==
  CASE size = 1 -> bytes[1]
    [] size = 2 -> bytes[1] * Weight[2] + bytes[2]
    [] size = 4 -> bytes[1] * Weight[4] + bytes[2] * Weight[3] + bytes[3] * Weight[2] + bytes[4]
    [] OTHER -> 0
Zeros(size) == [i \in 1 .. size |-> 0]

(* tlv_validate_param *)
Fits(p) == Header + Size(params) + Len(p.value) + Mark <= declared

tlv_count_param(ps, type) == Cardinality({i \in DOMAIN ps : ps[i].type = type})
tlv_find_param(ps, type) == ps[SelectInSeq(ps, LAMBDA p : p.type = type)]

(* Numbers of an ECMG and a client, by type, and their sizes. *)
superCasId == 1
sectionTsPkt == 2
delayStart == 3
delayStop == 4
transDelayStart == 5
transDelayStop == 6
repPeriod == 7
maxStreams == 8
minCpDur == 9
leadCw == 10
cwPerMsg == 11
maxCompTime == 12
accessCrit == 13
channelId == 14
streamId == 15
nomCpDur == 16
accessCritMode == 17
cpNumber == 18
cpDur == 19
cpCwComb == 20
ecm == 21
acDelayStart == 22
acDelayStop == 23
cwEncrypt == 24
ecmId == 25
errorStatus == 28672

ecmg_size(type) ==
  CASE type = superCasId -> 4
    [] type \in {sectionTsPkt, leadCw, cwPerMsg, accessCritMode} -> 1
    [] type \in {accessCrit, cpCwComb, ecm, cwEncrypt} -> 0
    [] OTHER -> 2

(* Numbers between an EMM generator and a multiplexer. *)
clientId == 1
dataChannelId == 3
dataStreamId == 4
datagram == 5
bandwidth == 6
dataType == 7
dataId == 8

emmg_size(type) ==
  CASE type = clientId -> 4
    [] type \in {sectionTsPkt, dataType} -> 1
    [] type = datagram -> 0
    [] OTHER -> 2

-----------------------------------------------------------------------------
(* Validation: how often a type may be there, and how long it must be.      *)

Many == 65535
Once(types) == {<<t, 1, 1>> : t \in types}
AtMostOnce(types) == {<<t, 0, 1>> : t \in types}
Ever(type) == {<<type, 1, Many>>}

ecmg_params(type) ==
  CASE type = "channel_setup" -> Once({channelId, superCasId})
    [] type \in {"channel_test", "channel_close"} -> Once({channelId})
    [] type = "channel_status" ->
         Once({channelId, sectionTsPkt, delayStart, delayStop, repPeriod,
               maxStreams, minCpDur, leadCw, cwPerMsg, maxCompTime})
           \cup AtMostOnce({acDelayStart, acDelayStop, transDelayStart, transDelayStop})
    [] type = "channel_error" -> Once({channelId}) \cup Ever(errorStatus)
    [] type = "stream_setup" -> Once({channelId, streamId, nomCpDur}) \cup AtMostOnce({ecmId})
    [] type \in {"stream_test", "stream_closereq", "stream_closeresp"} ->
         Once({channelId, streamId})
    [] type = "stream_status" ->
         Once({channelId, streamId, accessCritMode}) \cup AtMostOnce({ecmId})
    [] type = "stream_error" -> Once({channelId, streamId}) \cup Ever(errorStatus)
    [] type = "cw" ->
         Once({channelId, streamId, cpNumber}) \cup Ever(cpCwComb)
           \cup AtMostOnce({cwEncrypt, cpDur, accessCrit})
    [] type = "ecm" -> Once({channelId, streamId, cpNumber, ecm})
    [] OTHER -> {}

pi_ecmg_params_minlength ==
  <<0, 4, 1, 2, 2, 2, 2, 2,  2, 2, 1, 1, 2, 0, 2, 2,  2, 1, 2, 2, 0, 0, 2, 2,  0, 2>>

(* Slip: the lengths are looked up from one.                                 *)
ecmg_validate_paramEarly(p) ==
  CASE p.type \in 1 .. ecmId -> Len(p.value) >= pi_ecmg_params_minlength[p.type]
    [] p.type = errorStatus -> Len(p.value) >= 2
    [] OTHER -> TRUE

ecmg_validate_param(p) ==
  CASE p.type <= ecmId -> Len(p.value) >= pi_ecmg_params_minlength[p.type + 1]
    [] p.type = errorStatus -> Len(p.value) >= 2
    [] OTHER -> TRUE

emmg_params(type) ==
  LET client == Once({clientId, dataChannelId})
      stream == client \cup Once({dataStreamId})
  IN  CASE type \in {"channel_setup", "channel_status"} -> client \cup Once({sectionTsPkt})
        [] type \in {"channel_test", "channel_close"} -> client
        [] type = "channel_error" -> client \cup Ever(errorStatus)
        [] type \in {"stream_setup", "stream_status"} -> stream \cup Once({dataId, dataType})
        [] type \in {"stream_test", "stream_closereq", "stream_closeresp"} -> stream
        [] type = "stream_error" -> stream \cup Ever(errorStatus)
        [] type \in {"bw_req", "bw_alloc"} -> stream \cup AtMostOnce({bandwidth})
        [] type = "data_provision" ->
             Once({clientId, dataId}) \cup AtMostOnce({dataChannelId, dataStreamId})
               \cup Ever(datagram)
        [] OTHER -> {}

pi_emmg_params_length == <<0, 4, 1, 2, 2, 1, 2, 1, 2>>

emmg_validate_param(p) ==
  CASE p.type <= dataId /\ p.type # datagram -> Len(p.value) = pi_emmg_params_length[p.type + 1]
    [] p.type = errorStatus -> Len(p.value) >= 2
    [] OTHER -> TRUE

tlv_validate_count_param(ps, rule) == tlv_count_param(ps, rule[1]) \in rule[2] .. rule[3]

RulesOf(m) == IF m.intf = "ecmg" THEN ecmg_params(m.type) ELSE emmg_params(m.type)
SizeOf(m, type) == IF m.intf = "ecmg" THEN ecmg_size(type) ELSE emmg_size(type)
LongEnough(m, p) == IF m.intf = "ecmg" THEN ecmg_validate_param(p) ELSE emmg_validate_param(p)

(* ecmg_validate, emmg_validate *)
Valid(m, ps) ==
  /\ \A rule \in RulesOf(m) : tlv_validate_count_param(ps, rule)
  /\ \A i \in DOMAIN ps : LongEnough(m, ps[i])

-----------------------------------------------------------------------------
(* What the two programs compose, one record for each of their functions.   *)

MaxTlvSize == 1020
Number(type, v) == Param(type, v, Encoded(v, ecmg_size(type)))

(* The message starts behind the byte of the version. *)
Own(type, version, length, calls) ==
  [intf |-> "ecmg", type |-> type, version |-> version, room |-> MaxTlvSize - 1,
   length |-> length, calls |-> calls]
Short(type, version, calls) == Own(type, version, MaxTlvSize - Header - 1, calls)

Identified(version) == IF version >= 2 THEN <<Number(ecmId, 300)>> ELSE <<>>
ForStream(calls) == <<Number(channelId, 65535), Number(streamId, 258)>> \o calls

send_channel_status(v) ==
  Short("channel_status", v,
    <<Number(channelId, 65535), Number(sectionTsPkt, 0), Number(delayStart, 200),
      Number(delayStop, 0), Number(repPeriod, 300), Number(maxStreams, 500),
      Number(minCpDur, 3), Number(leadCw, 1), Number(cwPerMsg, 2), Number(maxCompTime, 100)>>)
send_channel_test(v) == Short("channel_test", v, <<Number(channelId, 65535)>>)
send_channel_error(v) ==
  Short("channel_error", v, <<Number(channelId, 65535), Number(errorStatus, 6)>>)
send_stream_status(v) ==
  Short("stream_status", v, ForStream(Identified(v) \o <<Number(accessCritMode, 1)>>))
send_stream_close(v) == Short("stream_closeresp", v, ForStream(<<>>))
send_stream_error(v) == Short("stream_error", v, ForStream(<<Number(errorStatus, 7)>>))

(* The ECM is a section, sixteen bytes behind its header (build_ecm), and the *)
(* buffer longer by it.                                                     *)
send_ecm(v) ==
  [Short("ecm", v, ForStream(<<Number(cpNumber, 255), Param(ecm, 0, Zeros(19))>>))
     EXCEPT !.room = @ + 19, !.length = @ + 19]

(* These two declare more than their buffer has. *)
send_channel_setup(v) ==
  Own("channel_setup", v, MaxTlvSize, <<Number(channelId, 65535), Number(superCasId, 1234567)>>)
ControlWord(n, lead, i) ==
  LET cp == 255 + i - (n - lead) IN Param(cpCwComb, cp, Encoded(cp, 2) \o Zeros(8))
send_cw(v, n) ==
  Own("cw", v, MaxTlvSize,
    ForStream(<<Number(cpNumber, 255)>> \o [i \in 1 .. n |-> ControlWord(n, 1, i)]))
send_stream_setup(v) ==
  Short("stream_setup", v, ForStream(Identified(v) \o <<Number(nomCpDur, 100)>>))

OwnMessages ==
  (UNION {{send_channel_status(v), send_channel_test(v), send_channel_error(v),
           send_stream_status(v), send_stream_close(v), send_stream_error(v), send_ecm(v),
           send_channel_setup(v), send_stream_setup(v)} : v \in Versions})
    \cup {send_cw(v, n) : v \in Versions, n \in ControlWords}

-----------------------------------------------------------------------------

Compose(m) ==
  /\ message = m /\ stage = "composing"
  /\ todo = m.calls /\ params = <<>>
  /\ declared = m.length /\ odd = 0

(* X_append_Y, tlv_append_data: nobody looks at the answer. *)
AppendParam ==
  /\ stage = "composing" /\ todo # <<>>
  /\ todo' = Tail(todo)
  /\ params' = IF Fits(Head(todo)) THEN Append(params, Head(todo)) ELSE params
  /\ UNCHANGED <<message, stage, declared, odd>>

(* tlv_find_param finds the mark, and the length is what stands before it.  *)
Send ==
  /\ stage = "composing" /\ todo = <<>>
  /\ declared' = Size(params)
  /\ stage' = "sent"
  /\ UNCHANGED <<message, todo, params, odd>>

(* Messages of other programs: every parameter that must be there is, and   *)
(* then some lack, are there twice, or have another length.                  *)
EcmgTypes == {"channel_setup", "channel_test", "channel_close", "channel_status",
              "channel_error", "stream_setup", "stream_test", "stream_closereq",
              "stream_closeresp", "stream_status", "stream_error", "cw", "ecm"}
EmmgTypes == (EcmgTypes \ {"cw", "ecm"}) \cup {"bw_req", "bw_alloc", "data_provision"}

Others(intf, type, version) ==
  [intf |-> intf, type |-> type, version |-> version, room |-> 0, length |-> 0, calls |-> <<>>]

Needed(m) == {rule[1] : rule \in {r \in RulesOf(m) : r[2] > 0}}
Foreign(m) ==
  LET nth(i) == CHOOSE t \in Needed(m) : Cardinality({u \in Needed(m) : u < t}) = i - 1
  IN  /\ message = m /\ stage = "foreign"
      /\ params = [i \in 1 .. Cardinality(Needed(m)) |->
                     Param(nth(i), 0, Zeros(SizeOf(m, nth(i))))]
      /\ todo = <<>> /\ declared = Size(params) /\ odd = 0

Worse(i) ==
  {RemoveAt(params, i), Append(params, params[i])}
    \cup {[params EXCEPT ![i].value = Zeros(size)] :
            size \in {0, Len(params[i].value) - 1, Len(params[i].value) + 1} \cap Nat}

Spoil ==
  /\ stage = "foreign" /\ odd < MaxOdd
  /\ odd' = odd + 1
  /\ \E i \in DOMAIN params : params' \in Worse(i)
  /\ declared' = Size(params')
  /\ UNCHANGED <<message, stage, todo>>

Deliver ==
  /\ stage = "foreign"
  /\ stage' = "sent"
  /\ UNCHANGED <<message, todo, params, declared, odd>>

Validate ==
  /\ stage = "sent"
  /\ stage' = IF Valid(message, params) THEN "accepted" ELSE "refused"
  /\ UNCHANGED <<message, todo, params, declared, odd>>

MessageInit ==
  \/ \E m \in OwnMessages : Compose(m)
  \/ \E v \in Versions, t \in EcmgTypes : Foreign(Others("ecmg", t, v))
  \/ \E t \in EmmgTypes : Foreign(Others("emmg", t, 1))

MessageNext == AppendParam \/ Send \/ Spoil \/ Deliver \/ Validate

-----------------------------------------------------------------------------
(* What the handlers of the two programs look up, by the type of message,   *)
(* without testing that it is there, once they have counted what they count. *)

handled(m, ps) ==
  IF m.intf # "ecmg" THEN {} ELSE
  CASE m.type = "channel_setup" -> {channelId, superCasId}
    [] m.type \in {"channel_test", "channel_close"} -> {channelId}
    [] m.type = "channel_status" ->
         {channelId, maxStreams, minCpDur, sectionTsPkt, cwPerMsg, leadCw}
    [] m.type = "channel_error" -> {channelId, errorStatus}
    [] m.type = "stream_setup" ->
         {channelId, streamId, nomCpDur}
           \cup (IF m.version >= 2 /\ tlv_count_param(ps, ecmId) = 1 THEN {ecmId} ELSE {})
    [] m.type \in {"stream_test", "stream_closereq", "stream_status"} -> {channelId, streamId}
    [] m.type = "stream_error" -> {channelId, streamId, errorStatus}
    [] m.type = "cw" -> {channelId, streamId, cpNumber, cpCwComb}
    [] m.type = "ecm" -> {channelId, streamId, cpNumber, ecm}
    [] OTHER -> {}

(* Types that a reader may count on: what it looks up, or may not lack.     *)
CountedOn == handled(message, params) \cup Needed(message)

(* Numbers come out as they went in; those of a control word are its first  *)
(* two bytes (ecmgcw_get_cpnum).                                            *)
NumberOf(p) ==
  IF p.type = cpCwComb THEN Decoded(p.value, 2) ELSE Decoded(p.value, SizeOf(message, p.type))

(* The server asked for no control word. *)
Wordless(m) == m.type = "cw" /\ \A i \in DOMAIN m.calls : m.calls[i].type # cpCwComb

(* A message of either program never outgrows its buffer, mark included, not *)
(* even where it is declared longer than the buffer is; it holds what it was *)
(* meant to, each number as it was given, but for the control words that the *)
(* declared length does not hold, which are dropped without a word; and the  *)
(* other side lets it through, unless it was to hold control words and none  *)
(* was asked for.  A message that is let through, whoever sent it, has every *)
(* parameter that a handler looks up without asking, and at least as many    *)
(* bytes of it as are read.                                                  *)
MessageKept ==
  /\ stage = "composing" => Header + Size(params) + Mark <= message.room
  /\ stage = "sent" /\ message.room > 0 =>
       /\ IsPrefix(params, message.calls)
       /\ \A i \in DOMAIN message.calls \ DOMAIN params : message.calls[i].type = cpCwComb
       /\ \A i \in DOMAIN params : NumberOf(params[i]) = params[i].number
  /\ stage = "refused" => message.room = 0 \/ Wordless(message)
  /\ stage = "accepted" =>
       \A t \in CountedOn :
         /\ tlv_count_param(params, t) > 0
         /\ Len(tlv_find_param(params, t).value) >= SizeOf(message, t)
=============================================================================
