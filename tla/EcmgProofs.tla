----------------------------- MODULE EcmgProofs -----------------------------
(***************************************************************************)
(* Proofs about the two programs: about the server, for every set of       *)
(* stream ids and whatever requests come in whatever order; about the      *)
(* client, whatever comes from its server and however late it is; and      *)
(* about the two connected by pipes.                                       *)
(***************************************************************************)
EXTENDS Ecmg, Modular, FunctionTheorems, SequenceTheorems, TLAPS

(***************************************************************************)
(* Messages counted.                                                       *)
(***************************************************************************)

(* Two messages one after the other. *)
LEMMA CountOfBoth ==
  ASSUME NEW S, NEW s \in Seq(S), NEW t \in Seq(S), NEW type, NEW sid
  PROVE  /\ CountOf(type, sid, s) \in Nat
         /\ CountOf(type, sid, s \o t) = CountOf(type, sid, s) + CountOf(type, sid, t)
<1> DEFINE hit(u) == {n \in DOMAIN u : u[n].type = type /\ u[n].sid = sid}
           l == Len(s)
           k == Len(t)
           B == {n \in l + 1 .. l + k : t[n - l].type = type /\ t[n - l].sid = sid}
           g == [n \in hit(t) |-> n + l]
<1>1. l \in Nat /\ k \in Nat /\ DOMAIN s = 1 .. l /\ DOMAIN t = 1 .. k
  OBVIOUS
<1>2. /\ s \o t \in Seq(S) /\ Len(s \o t) = l + k
      /\ \A n \in 1 .. l + k : (s \o t)[n] = IF n <= l THEN s[n] ELSE t[n - l]
  BY ConcatProperties
<1>3. DOMAIN (s \o t) = 1 .. l + k
  BY <1>2
<1>4. hit(s) \in SUBSET (1 .. l) /\ hit(t) \in SUBSET (1 .. k)
  BY <1>1
<1>5. hit(s \o t) = hit(s) \cup B
  <2>1. 1 .. l + k = (1 .. l) \cup (l + 1 .. l + k)
    BY <1>1
  <2>2. \A n \in 1 .. l : (s \o t)[n] = s[n]
    BY <1>1, <1>2
  <2>3. \A n \in l + 1 .. l + k : (s \o t)[n] = t[n - l]
    BY <1>1, <1>2
  <2> HIDE DEF l, k
  <2> QED
    BY <1>1, <1>3, <2>1, <2>2, <2>3
<1>6. hit(s) \cap B = {}
  BY <1>1, <1>4
<1>7. /\ IsFiniteSet(hit(s)) /\ IsFiniteSet(hit(t))
      /\ Cardinality(hit(s)) \in Nat /\ Cardinality(hit(t)) \in Nat
  <2>1. IsFiniteSet(1 .. l) /\ IsFiniteSet(1 .. k)
    BY <1>1, FS_Interval
  <2> HIDE DEF hit
  <2> QED
    BY <1>4, <2>1, FS_Subset, FS_CardinalityType
<1>8. g \in Bijection(hit(t), B)
  <2>1. \A n \in hit(t) : n + l \in B
    BY <1>1, <1>4
  <2>2. \A n \in B : n - l \in hit(t) /\ (n - l) + l = n
    BY <1>1
  <2>3. \A n, m \in hit(t) : n + l = m + l => n = m
    BY <1>1, <1>4
  <2> HIDE DEF hit, B, l
  <2>4. g \in Injection(hit(t), B)
    BY <2>1, <2>3 DEF Injection, IsInjective
  <2>5. g \in Surjection(hit(t), B)
    BY <2>1, <2>2 DEF Surjection
  <2> QED
    BY <2>4, <2>5 DEF Bijection
<1>9. IsFiniteSet(B) /\ Cardinality(B) = Cardinality(hit(t))
  <2> HIDE DEF hit, B, g
  <2> QED
    BY <1>7, <1>8, FS_Bijection DEF ExistsBijection
<1>10. Cardinality(hit(s \o t)) = Cardinality(hit(s)) + Cardinality(hit(t))
  <2>1. Cardinality(hit(s) \cap B) = 0
    BY <1>6, FS_EmptySet
  <2> HIDE DEF hit, B
  <2>2. Cardinality(hit(s) \cup B) = Cardinality(hit(s)) + Cardinality(B) - Cardinality(hit(s) \cap B)
    BY <1>7, <1>9, FS_Union
  <2> QED
    BY <1>5, <1>7, <1>9, <2>1, <2>2
<1> QED
  BY <1>7, <1>10 DEF CountOf

LEMMA CountOfOther ==
  ASSUME NEW ms, NEW type, NEW sid,
         \A n \in DOMAIN ms : ~ (ms[n].type = type /\ ms[n].sid = sid)
  PROVE  CountOf(type, sid, ms) = 0
<1>1. {n \in DOMAIN ms : ms[n].type = type /\ ms[n].sid = sid} = {}
  OBVIOUS
<1> QED
  BY <1>1, FS_EmptySet DEF CountOf

LEMMA CountOfOne ==
  ASSUME NEW m, NEW type, NEW sid
  PROVE  CountOf(type, sid, <<m>>) = IF m.type = type /\ m.sid = sid THEN 1 ELSE 0
<1>1. DOMAIN <<m>> = {1} /\ <<m>>[1] = m
  OBVIOUS
<1>2. CASE m.type = type /\ m.sid = sid
  <2>1. {n \in DOMAIN <<m>> : <<m>>[n].type = type /\ <<m>>[n].sid = sid} = {1}
    BY <1>1, <1>2
  <2> QED
    BY <1>2, <2>1, FS_Singleton DEF CountOf
<1>3. CASE ~ (m.type = type /\ m.sid = sid)
  BY <1>1, <1>3, CountOfOther
<1> QED
  BY <1>2, <1>3

LEMMA CountOfThree ==
  ASSUME NEW A, NEW B, NEW C, NEW a \in Seq(A), NEW b \in Seq(B), NEW c \in Seq(C),
         NEW type, NEW sid
  PROVE  CountOf(type, sid, a \o b \o c)
           = CountOf(type, sid, a) + CountOf(type, sid, b) + CountOf(type, sid, c)
<1> DEFINE S == A \cup B \cup C
<1>1. a \in Seq(S) /\ b \in Seq(S) /\ c \in Seq(S)
  BY SeqMonotonic
<1> HIDE DEF S
<1>2. a \o b \in Seq(S)
  BY <1>1, ConcatProperties
<1>3. CountOf(type, sid, a \o b) = CountOf(type, sid, a) + CountOf(type, sid, b)
  BY ONLY <1>1, CountOfBoth
<1>4. CountOf(type, sid, (a \o b) \o c) = CountOf(type, sid, a \o b) + CountOf(type, sid, c)
  BY ONLY <1>1, <1>2, CountOfBoth
<1> QED
  BY <1>3, <1>4

(***************************************************************************)
(* The server.                                                             *)
(***************************************************************************)

(* A channel that is open is that of a request. *)
ChannelAsked ==
  ~ b_init => \E m \in Requests : i_channelid = m.chan /\ i_version = m.ver

(* What is to be written is about a stream there may be. *)
OutNamed == out # <<>> => out[1].sid \in StreamIds

(* The inductive invariant. *)
ServerInv == TypeOK /\ Distinct /\ ArrayBounded /\ ChannelAsked /\ OutNamed

Entry == Stream \cup {NULL}

-----------------------------------------------------------------------------
(* The array.                                                              *)

LEMMA LeastIsIn ==
  ASSUME NEW S \in SUBSET Nat, S # {}
  PROVE  Least(S) \in S
BY HasLeast DEF Least

LEMMA SlotsAreIndices ==
  ASSUME streams \in Seq(Entry), NEW sid
  PROVE  /\ SlotsOf(sid) \in SUBSET (1 .. Len(streams))
         /\ Free \in SUBSET (1 .. Len(streams))
         /\ SlotsOf(sid) # {} => Least(SlotsOf(sid)) \in SlotsOf(sid)
         /\ Free # {} => Least(Free) \in Free
<1>1. SlotsOf(sid) \in SUBSET (1 .. Len(streams)) /\ Free \in SUBSET (1 .. Len(streams))
  BY DEF SlotsOf, Free
<1>2. 1 .. Len(streams) \subseteq Nat
  OBVIOUS
<1> QED
  BY <1>1, <1>2, LeastIsIn

(* A stream is entered at one place, which was free or after the end. *)
LEMMA EnteredAt ==
  ASSUME streams \in Seq(Entry), NEW s \in Stream
  PROVE  /\ Stored(s) \in Seq(Entry)
         /\ \E k \in 1 .. Len(streams) + 1 :
              /\ DOMAIN Stored(s) = DOMAIN streams \cup {k}
              /\ k \in DOMAIN streams => streams[k] = NULL
              /\ Stored(s)[k] = s
              /\ \A j \in DOMAIN streams \ {k} : Stored(s)[j] = streams[j]
<1>1. s \in Entry
  BY DEF Entry
<1>2. CASE Free = {}
  <2>1. Stored(s) = Append(streams, s)
    BY <1>2 DEF Stored
  <2>2. /\ Append(streams, s) \in Seq(Entry)
        /\ DOMAIN Append(streams, s) = 1 .. Len(streams) + 1
        /\ Append(streams, s)[Len(streams) + 1] = s
        /\ \A j \in 1 .. Len(streams) : Append(streams, s)[j] = streams[j]
    BY <1>1
  <2>3. /\ DOMAIN streams = 1 .. Len(streams) /\ Len(streams) \in Nat
        /\ Len(streams) + 1 \notin DOMAIN streams
        /\ 1 .. Len(streams) + 1 = DOMAIN streams \cup {Len(streams) + 1}
        /\ Len(streams) + 1 \in 1 .. Len(streams) + 1
    OBVIOUS
  <2> QED
    BY <2>1, <2>2, <2>3
<1>3. CASE Free # {}
  <2> DEFINE k == Least(Free)
  <2>1. k \in Free /\ Free \in SUBSET (1 .. Len(streams))
    BY <1>3, SlotsAreIndices
  <2>2. k \in DOMAIN streams /\ streams[k] = NULL /\ k \in 1 .. Len(streams)
    BY <2>1 DEF Free
  <2>3. Stored(s) = [streams EXCEPT ![k] = s]
    BY <1>3 DEF Stored
  <2> HIDE DEF k
  <2>4. /\ Stored(s) \in Seq(Entry) /\ DOMAIN Stored(s) = DOMAIN streams
        /\ Stored(s)[k] = s
        /\ \A j \in DOMAIN streams \ {k} : Stored(s)[j] = streams[j]
    BY <1>1, <2>2, <2>3
  <2>5. DOMAIN streams = DOMAIN streams \cup {k}
    BY <2>2
  <2>6. k \in 1 .. Len(streams) + 1
    <3>1. Len(streams) \in Nat
      OBVIOUS
    <3> QED
      BY ONLY <2>2, <3>1
  <2> QED
    BY <2>2, <2>4, <2>5, <2>6
<1> QED
  BY <1>2, <1>3

(* Without a free entry, the array has an entry for each of as many        *)
(* streams, and one more stream is one that there is not yet.              *)
LEMMA RoomForOneMore ==
  ASSUME streams \in Seq(Entry), Distinct, Free = {},
         NEW sid \in StreamIds, SlotsOf(sid) = {}
  PROVE  Len(streams) + 1 <= Cardinality(StreamIds)
<1> DEFINE I == 1 .. Len(streams)
           T == StreamIds \ {sid}
           f == [i \in I |-> streams[i].sid]
<1>1. Len(streams) \in Nat /\ DOMAIN streams = I
  OBVIOUS
<1>2. \A i \in I : streams[i] # NULL
  BY <1>1 DEF Free
<1>3. \A i \in I : streams[i].sid \in StreamIds
  BY <1>1, <1>2 DEF Entry, Stream
<1>4. \A i \in I : streams[i].sid # sid
  BY <1>1, <1>2 DEF SlotsOf
<1>5. \A i, j \in I : streams[i].sid = streams[j].sid => i = j
  BY <1>1, <1>2 DEF Distinct
<1>6. f \in Injection(I, T)
  BY <1>3, <1>4, <1>5 DEF Injection, IsInjective
<1>7. IsFiniteSet(T) /\ Cardinality(T) = Cardinality(StreamIds) - 1
  BY FS_RemoveElement, ServerAssumption
<1>8. Cardinality(I) <= Cardinality(T)
  <2> HIDE DEF I, T, f
  <2> QED
    BY <1>6, <1>7, FS_Injection
<1>9. Cardinality(I) = Len(streams)
  <2>1. 1 \in Int /\ Len(streams) \in Int
    BY <1>1
  <2>2. Cardinality(I) = IF 1 > Len(streams) THEN 0 ELSE Len(streams) - 1 + 1
    BY <2>1, FS_Interval
  <2> QED
    BY <1>1, <2>2
<1>10. Cardinality(StreamIds) \in Nat
  BY FS_CardinalityType, ServerAssumption
<1> QED
  BY <1>1, <1>7, <1>8, <1>9, <1>10

-----------------------------------------------------------------------------
(* The messages.                                                           *)

(* Every message the server writes has its type and its stream. *)
LEMMA MessageSaid ==
  ASSUME NEW v, NEW c, NEW type
  PROVE  Message(v, type, c).type = type /\ Message(v, type, c).sid = 0
BY DEF Message

LEMMA StreamMessageSaid ==
  ASSUME NEW v, NEW c, NEW type, NEW sid
  PROVE  /\ StreamMessage(v, type, c, sid).type = type
         /\ StreamMessage(v, type, c, sid).sid = sid
BY DEF Message, StreamMessage

LEMMA StatusSaid ==
  ASSUME NEW v, NEW c
  PROVE  Status(v, c).type = "channel_status" /\ Status(v, c).sid = 0
BY DEF Status, Message

LEMMA ChannelErrSaid ==
  ASSUME NEW v, NEW c, NEW e
  PROVE  ChannelErr(v, c, e).type = "channel_error" /\ ChannelErr(v, c, e).sid = 0
BY DEF ChannelErr, Message

LEMMA StreamErrSaid ==
  ASSUME NEW v, NEW c, NEW sid, NEW e
  PROVE  StreamErr(v, c, sid, e).type = "stream_error" /\ StreamErr(v, c, sid, e).sid = sid
BY DEF StreamErr, StreamMessage, Message

LEMMA StreamStatusSaid ==
  ASSUME NEW s \in Stream
  PROVE  StreamStatus(s).type = "stream_status" /\ StreamStatus(s).sid = s.sid
BY DEF StreamStatus, Message, StreamMessage

(* A message to a handler that names a channel is for the one there is. *)
LEMMA HereIsOpen ==
  ASSUME NEW m \in Requests, NEW type, type # "channel_setup", Here(m, type),
         b_init \in BOOLEAN
  PROVE  ~ b_init
BY DEF Here, Accepted, Refusal, BadVersion, BadMessage, BadParameter, BadChannel

(* The answer m is one that can be written. *)
Sayable(m) == m.type \in FromServer /\ m.sid \in StreamIds

LEMMA SaidIsSayable ==
  ASSUME NEW m, out' = <<m>>, Sayable(m)
  PROVE  /\ (out = <<>> \/ (out = <<out[1]>> /\ out[1].type \in FromServer))'
         /\ OutNamed'
BY DEF Sayable, OutNamed

-----------------------------------------------------------------------------
(* The invariant.                                                          *)

LEMMA InitServerInv == Init => ServerInv
<1> SUFFICES ASSUME Init
             PROVE  ServerInv
  OBVIOUS
<1>1. TypeOK
  BY DEF Init, TypeOK
<1>2. Distinct /\ ChannelAsked /\ OutNamed
  BY DEF Init, Distinct, ChannelAsked, OutNamed
<1>3. ArrayBounded
  <2>1. Cardinality(StreamIds) \in Nat
    BY FS_CardinalityType, ServerAssumption
  <2> QED
    BY <2>1 DEF Init, ArrayBounded
<1> QED
  BY <1>1, <1>2, <1>3 DEF ServerInv

(* The handlers that answer and change nothing else. *)
LEMMA AnswerKeepsServerInv ==
  ASSUME ServerInv, NEW m, out' = <<m>>, Sayable(m),
         UNCHANGED <<running, b_init, i_version, i_channelid, streams>>
  PROVE  ServerInv'
<1>1. OutNamed' /\ TypeOK'
  BY SaidIsSayable DEF ServerInv, TypeOK
<1>2. (Distinct /\ ArrayBounded /\ ChannelAsked)'
  BY DEF ServerInv, Distinct, ArrayBounded, ChannelAsked
<1> QED
  BY <1>1, <1>2 DEF ServerInv

LEMMA SetupKeepsServerInv ==
  ASSUME ServerInv, NEW m \in Requests, StreamSetup(m)
  PROVE  ServerInv'
<1> DEFINE s == [sid |-> m.sid, ecmid |-> IF i_version >= 2 THEN m.ecmid ELSE 0]
<1>1. /\ streams' = Stored(s) /\ out' = <<StreamStatus(s)>>
      /\ SlotsOf(m.sid) = {} /\ ~ (i_version >= 2 /\ m.ecmid = NULL)
      /\ UNCHANGED <<running, b_init, i_version, i_channelid>>
  BY DEF StreamSetup
<1>2. m.sid \in StreamIds /\ m.ecmid \in Int \cup {NULL}
  BY ServerAssumption
<1>3. s \in Stream /\ s.sid = m.sid
  BY <1>1, <1>2 DEF Stream
<1>4. streams \in Seq(Entry)
  BY DEF ServerInv, TypeOK, Entry
<1> HIDE DEF s
<1>5. PICK k \in 1 .. Len(streams) + 1 :
        /\ DOMAIN Stored(s) = DOMAIN streams \cup {k}
        /\ k \in DOMAIN streams => streams[k] = NULL
        /\ Stored(s)[k] = s
        /\ \A j \in DOMAIN streams \ {k} : Stored(s)[j] = streams[j]
  BY <1>3, <1>4, EnteredAt
<1>6. streams' \in Seq(Entry)
  BY <1>1, <1>3, <1>4, EnteredAt
<1>7. Sayable(StreamStatus(s))
  BY <1>2, <1>3, StreamStatusSaid DEF Sayable, FromServer
<1>8. TypeOK' /\ OutNamed'
  BY <1>1, <1>6, <1>7, SaidIsSayable DEF ServerInv, TypeOK, Entry
<1>9. Distinct'
  <2> SUFFICES ASSUME NEW i \in DOMAIN streams \cup {k},
                      NEW j \in DOMAIN streams \cup {k},
                      streams'[i] # NULL, streams'[j] # NULL,
                      streams'[i].sid = streams'[j].sid
               PROVE  i = j
    BY <1>1, <1>5 DEF Distinct
  <2>1. \A n \in DOMAIN streams : streams[n] # NULL => streams[n].sid # m.sid
    BY <1>1 DEF SlotsOf
  <2>2. CASE i = k \/ j = k
    BY <1>1, <1>3, <1>5, <2>1, <2>2
  <2>3. CASE i # k /\ j # k
    <3>1. streams'[i] = streams[i] /\ streams'[j] = streams[j]
      BY <1>1, <1>5, <2>3
    <3> QED
      BY <2>3, <3>1 DEF ServerInv, Distinct
  <2> QED
    BY <2>2, <2>3
<1>10. ArrayBounded'
  <2>1. CASE Free = {}
    <3>1. Len(streams) + 1 <= Cardinality(StreamIds)
      BY <1>1, <1>2, <1>4, <2>1, RoomForOneMore DEF ServerInv
    <3>2. Len(streams') = Len(streams) + 1
      BY <1>1, <1>4, <2>1 DEF Stored
    <3> QED
      BY <3>1, <3>2 DEF ArrayBounded
  <2>2. CASE Free # {}
    <3>1. Len(streams') = Len(streams)
      BY <1>1, <1>4, <2>2 DEF Stored
    <3> QED
      BY <3>1 DEF ArrayBounded, ServerInv
  <2> QED
    BY <2>1, <2>2
<1>11. ChannelAsked'
  BY <1>1 DEF ServerInv, ChannelAsked
<1> QED
  BY <1>8, <1>9, <1>10, <1>11 DEF ServerInv

LEMMA CloseKeepsServerInv ==
  ASSUME ServerInv, NEW m \in Requests, StreamClose(m)
  PROVE  ServerInv'
<1> DEFINE k == Least(SlotsOf(m.sid))
<1>1. /\ streams' = [streams EXCEPT ![k] = NULL] /\ SlotsOf(m.sid) # {}
      /\ out' = <<StreamMessage(i_version, "stream_closeresp", i_channelid, m.sid)>>
      /\ UNCHANGED <<running, b_init, i_version, i_channelid>>
  BY DEF StreamClose
<1>2. streams \in Seq(Entry) /\ m.sid \in StreamIds
  BY ServerAssumption DEF ServerInv, TypeOK, Entry
<1>3. streams' \in Seq(Entry) /\ Len(streams') = Len(streams)
  <2>1. NULL \in Entry
    BY DEF Entry
  <2>2. k \in 1 .. Len(streams)
    BY <1>1, <1>2, SlotsAreIndices
  <2> HIDE DEF k
  <2> QED
    BY <1>1, <1>2, <2>1, <2>2
<1>4. TypeOK' /\ OutNamed'
  <2>1. Sayable(StreamMessage(i_version, "stream_closeresp", i_channelid, m.sid))
    BY <1>2, StreamMessageSaid DEF Sayable, FromServer
  <2> QED
    BY <1>1, <1>3, <2>1, SaidIsSayable DEF ServerInv, TypeOK, Entry
<1> HIDE DEF k
<1>5. Distinct'
  <2>1. DOMAIN streams' = DOMAIN streams
    BY <1>1
  <2>2. \A i \in DOMAIN streams : streams'[i] # NULL => streams'[i] = streams[i]
    BY <1>1
  <2> QED
    BY <2>1, <2>2 DEF ServerInv, Distinct
<1>6. ArrayBounded' /\ ChannelAsked'
  BY <1>1, <1>3 DEF ServerInv, ArrayBounded, ChannelAsked
<1> QED
  BY <1>4, <1>5, <1>6 DEF ServerInv

(* What each of the other handlers answers. *)
LEMMA OthersKeepServerInv ==
  ASSUME ServerInv, NEW m \in Requests,
         \/ Refuse(m) \/ WrongChannel(m) \/ NoSuchStream(m) \/ ChannelTest(m)
         \/ StreamSetupFails(m) \/ StreamTest(m) \/ Cw(m)
  PROVE  ServerInv'
<1> SUFFICES \E a : /\ out' = <<a>> /\ Sayable(a)
                    /\ UNCHANGED <<running, b_init, i_version, i_channelid, streams>>
  BY AnswerKeepsServerInv
<1>0. /\ m.sid \in StreamIds /\ 0 \in StreamIds /\ streams \in Seq(Entry)
      /\ "channel_error" \in FromServer /\ "stream_error" \in FromServer
      /\ "channel_status" \in FromServer
      /\ "ecm" \in FromServer /\ "stream_status" \in FromServer
  BY ServerAssumption DEF ServerInv, TypeOK, Entry, FromServer
<1>1. CASE Refuse(m)
  BY <1>0, <1>1, ChannelErrSaid DEF Refuse, Sayable
<1>2. CASE WrongChannel(m)
  BY <1>0, <1>2, ChannelErrSaid DEF WrongChannel, Sayable
<1>3. CASE NoSuchStream(m)
  BY <1>0, <1>3, StreamErrSaid DEF NoSuchStream, Sayable
<1>4. CASE ChannelTest(m)
  BY <1>0, <1>4, StatusSaid DEF ChannelTest, Sayable
<1>5. CASE StreamSetupFails(m)
  BY <1>0, <1>5, StreamErrSaid DEF StreamSetupFails, Sayable
<1>6. CASE StreamTest(m)
  <2>1. SlotsOf(m.sid) # {}
    BY <1>6 DEF StreamTest
  <2>2. Least(SlotsOf(m.sid)) \in SlotsOf(m.sid)
    BY <1>0, <2>1, SlotsAreIndices
  <2>3. streams[Least(SlotsOf(m.sid))] \in Stream
    BY <1>0, <2>2 DEF SlotsOf, Entry
  <2>4. Sayable(StreamStatus(streams[Least(SlotsOf(m.sid))]))
    BY <1>0, <2>3, StreamStatusSaid DEF Sayable, Stream
  <2> QED
    BY <1>6, <2>4 DEF StreamTest
<1>7. CASE Cw(m)
  BY <1>0, <1>7, StreamErrSaid, StreamMessageSaid DEF Cw, Sayable
<1> QED
  BY <1>1, <1>2, <1>3, <1>4, <1>5, <1>6, <1>7

LEMMA TimeoutTestKeepsServerInv ==
  ASSUME ServerInv, TimeoutTest
  PROVE  ServerInv'
<1>1. Sayable(Message(i_version, "channel_test", i_channelid))
  BY MessageSaid, ServerAssumption DEF Sayable, FromServer
<1> QED
  BY <1>1, AnswerKeepsServerInv DEF TimeoutTest

LEMMA ChannelSetupKeepsServerInv ==
  ASSUME ServerInv, NEW m \in Requests, ChannelSetup(m)
  PROVE  ServerInv'
<1>1. Sayable(Status(m.ver, m.chan))
  BY StatusSaid, ServerAssumption DEF Sayable, FromServer
<1>2. TypeOK' /\ OutNamed'
  BY <1>1, SaidIsSayable, ServerAssumption DEF ChannelSetup, ServerInv, TypeOK
<1>3. (Distinct /\ ArrayBounded /\ ChannelAsked)'
  BY DEF ChannelSetup, ServerInv, Distinct, ArrayBounded, ChannelAsked
<1> QED
  BY <1>2, <1>3 DEF ServerInv

LEMMA ChannelCloseKeepsServerInv ==
  ASSUME ServerInv, NEW m \in Requests, ChannelClose(m)
  PROVE  ServerInv'
<1>1. TypeOK' /\ OutNamed'
  BY DEF ChannelClose, ServerInv, TypeOK, OutNamed
<1>2. Distinct' /\ ChannelAsked'
  BY DEF ChannelClose, ServerInv, Distinct, ChannelAsked
<1>3. ArrayBounded'
  <2>1. Cardinality(StreamIds) \in Nat /\ Len(<<>>) = 0
    BY FS_CardinalityType, ServerAssumption
  <2> QED
    BY <2>1 DEF ChannelClose, ArrayBounded
<1> QED
  BY <1>1, <1>2, <1>3 DEF ServerInv

(***************************************************************************)
(* Every step keeps the invariant.                                         *)
(***************************************************************************)
LEMMA StepKeepsServerInv ==
  ASSUME ServerInv, [Next]_vars
  PROVE  ServerInv'
<1>1. CASE UNCHANGED vars
  BY <1>1 DEF ServerInv, TypeOK, Distinct, ArrayBounded, ChannelAsked, OutNamed, vars
<1>2. CASE Ready /\ Timeout
  <2>1. CASE TimeoutIdle
    BY <2>1 DEF TimeoutIdle, ServerInv, TypeOK, Distinct, ArrayBounded, ChannelAsked, OutNamed
  <2>2. CASE TimeoutTest
    BY <2>2, TimeoutTestKeepsServerInv
  <2> QED
    BY <1>2, <2>1, <2>2 DEF Timeout
<1>3. CASE \E m \in Requests : Handle(m)
  <2> SUFFICES ASSUME NEW m \in Requests, Handle(m)
               PROVE  ServerInv'
    BY <1>3
  <2>1. CASE Hangup(m)
    BY <2>1 DEF Hangup, ServerInv, TypeOK, Distinct, ArrayBounded, ChannelAsked, OutNamed
  <2>2. CASE Ignore(m)
    BY <1>1, <2>2 DEF Ignore
  <2> QED
    BY <2>1, <2>2, OthersKeepServerInv, ChannelSetupKeepsServerInv, ChannelCloseKeepsServerInv,
       SetupKeepsServerInv, CloseKeepsServerInv DEF Handle
<1>4. CASE Write
  BY <1>4 DEF Write, ServerInv, TypeOK, Distinct, ArrayBounded, ChannelAsked, OutNamed
<1> QED
  BY <1>1, <1>2, <1>3, <1>4 DEF Next

(* What dvb_ecmg.c keeps true throughout: one entry for each open stream,  *)
(* no more entries than stream ids, an open channel that is one asked for, *)
(* and answers that name stream ids.                                       *)
THEOREM ServerSafe == Spec => []ServerInv
<1>1. Init => ServerInv
  BY InitServerInv
<1>2. ServerInv /\ [Next]_vars => ServerInv'
  BY StepKeepsServerInv
<1> QED
  BY <1>1, <1>2, PTL DEF Spec

-----------------------------------------------------------------------------
(* The service.                                                            *)

channel == IF b_init THEN NULL ELSE <<i_channelid, i_version>>
reply   == IF out = <<>> THEN NULL ELSE <<ReplyKind(out[1]), out[1].sid>>

LEMMA ReplyWritten ==
  ASSUME NEW m, out' = <<m>>
  PROVE  reply' = <<ReplyKind(m), m.sid>>
BY DEF reply, ReplyKind

LEMMA ReplyIsSomething ==
  ASSUME ServerInv, out # <<>>
  PROVE  reply # NULL
<1>1. out[1].type \in FromServer /\ out[1].sid \in StreamIds
  BY DEF ServerInv, TypeOK, OutNamed
<1>2. ReplyKind(out[1]) \in FromServer \cup {"error"}
  BY <1>1 DEF ReplyKind
<1>3. <<ReplyKind(out[1]), out[1].sid>> \in (FromServer \cup {"error"}) \X StreamIds
  BY <1>1, <1>2
<1> QED
  BY <1>3, ServerAssumption DEF reply

LEMMA ChannelIsSomething ==
  ASSUME ServerInv, ~ b_init
  PROVE  channel # NULL
<1>1. PICK m \in Requests : i_channelid = m.chan /\ i_version = m.ver
  BY DEF ServerInv, ChannelAsked
<1> QED
  BY <1>1, ServerAssumption DEF channel

(* The streams that are open are those that find_stream finds. *)
LEMMA OpenIsFound ==
  ASSUME NEW sid
  PROVE  sid \in Open <=> SlotsOf(sid) # {}
BY DEF Open, SlotsOf

(* A stream that is stored is one more that is open, and the others stay.  *)
LEMMA StoredOpens ==
  ASSUME streams \in Seq(Entry), NEW s \in Stream, streams' = Stored(s)
  PROVE  Open' = Open \cup {s.sid}
<1>1. s # NULL
  BY ServerAssumption DEF Stream
<1>2. PICK k \in 1 .. Len(streams) + 1 :
        /\ DOMAIN Stored(s) = DOMAIN streams \cup {k}
        /\ k \in DOMAIN streams => streams[k] = NULL
        /\ Stored(s)[k] = s
        /\ \A j \in DOMAIN streams \ {k} : Stored(s)[j] = streams[j]
  BY EnteredAt
<1>3. Open' = {streams'[i].sid : i \in {j \in DOMAIN streams' : streams'[j] # NULL}}
  BY DEF Open
<1>4. {j \in DOMAIN streams' : streams'[j] # NULL}
        = {j \in DOMAIN streams : streams[j] # NULL} \cup {k}
  BY <1>1, <1>2
<1>5. \A j \in DOMAIN streams : streams[j] # NULL => streams'[j] = streams[j]
  BY <1>2
<1> QED
  BY <1>2, <1>3, <1>4, <1>5 DEF Open

LEMMA SetupOpens ==
  ASSUME ServerInv, NEW m \in Requests, StreamSetup(m)
  PROVE  Open' = Open \cup {m.sid}
<1> DEFINE s == [sid |-> m.sid, ecmid |-> IF i_version >= 2 THEN m.ecmid ELSE 0]
<1>1. streams' = Stored(s) /\ ~ (i_version >= 2 /\ m.ecmid = NULL)
  BY DEF StreamSetup
<1>2. m.sid \in StreamIds /\ m.ecmid \in Int \cup {NULL}
  BY ServerAssumption
<1>3. s \in Stream /\ s.sid = m.sid
  BY <1>1, <1>2 DEF Stream
<1>4. streams \in Seq(Entry)
  BY DEF ServerInv, TypeOK, Entry
<1> HIDE DEF s
<1> QED
  BY <1>1, <1>3, <1>4, StoredOpens

(* A stream that is closed is not open any more, and the others stay: it   *)
(* had one entry.                                                          *)
LEMMA CloseCloses ==
  ASSUME ServerInv, NEW m \in Requests, StreamClose(m)
  PROVE  Open' = Open \ {m.sid}
<1> DEFINE k == Least(SlotsOf(m.sid))
           U == {j \in DOMAIN streams : streams[j] # NULL}
<1>1. streams' = [streams EXCEPT ![k] = NULL] /\ SlotsOf(m.sid) # {}
  BY DEF StreamClose
<1>2. streams \in Seq(Entry)
  BY DEF ServerInv, TypeOK, Entry
<1>3. k \in SlotsOf(m.sid)
  BY <1>1, <1>2, SlotsAreIndices
<1>4. k \in U /\ streams[k].sid = m.sid
  BY <1>3 DEF SlotsOf
<1>5. \A j \in U : streams[j].sid = m.sid => j = k
  BY <1>4 DEF ServerInv, Distinct
<1> HIDE DEF k
<1>6. DOMAIN streams' = DOMAIN streams /\ streams'[k] = NULL
  BY <1>1, <1>4
<1>7. {j \in DOMAIN streams' : streams'[j] # NULL} = U \ {k}
  BY <1>1, <1>4, <1>6
<1>8. \A j \in U \ {k} : streams'[j] = streams[j]
  BY <1>1
<1>9. Open' = {streams'[i].sid : i \in U \ {k}} /\ Open = {streams[i].sid : i \in U}
  BY <1>7 DEF Open
<1> HIDE DEF U
<1> QED
  BY <1>4, <1>5, <1>8, <1>9

(* The handlers, as steps of the service. *)

LEMMA RefusalIsStep ==
  ASSUME ServerInv, NEW m \in Requests, out = <<>>,
         Refuse(m) \/ WrongChannel(m) \/ NoSuchStream(m) \/ StreamSetupFails(m)
  PROVE  \E sid \in StreamIds : Service!Refuse(sid)
<1>1. m.sid \in StreamIds /\ 0 \in StreamIds
  BY ServerAssumption
<1>2. \E a, sid : /\ out' = <<a>> /\ sid \in {0, m.sid}
                  /\ a.sid = sid /\ a.type \in {"channel_error", "stream_error"}
  BY ChannelErrSaid, StreamErrSaid DEF Refuse, WrongChannel, NoSuchStream, StreamSetupFails
<1>3. PICK a, sid : /\ out' = <<a>> /\ sid \in {0, m.sid}
                   /\ a.sid = sid /\ a.type \in {"channel_error", "stream_error"}
  BY <1>2
<1>4. reply' = <<"error", sid>>
  BY <1>3, ReplyWritten DEF ReplyKind
<1>5. UNCHANGED <<channel, Open>> /\ reply = NULL
  BY DEF Refuse, WrongChannel, NoSuchStream, StreamSetupFails, channel, reply, Open
<1> QED
  BY <1>1, <1>3, <1>4, <1>5 DEF Service!Refuse, channel, reply

LEMMA ChannelAnswerIsStep ==
  ASSUME ServerInv, NEW m \in Requests, out = <<>>, ChannelTest(m)
  PROVE  Service!AnswerForChannel
<1>1. ~ b_init
  BY HereIsOpen DEF ChannelTest, ServerInv, TypeOK
<1>2. reply' = <<"channel_status", 0>>
  BY ReplyWritten, StatusSaid DEF ChannelTest, ReplyKind
<1>3. channel # NULL
  BY <1>1, ChannelIsSomething
<1>4. UNCHANGED <<channel, Open>> /\ reply = NULL
  BY DEF ChannelTest, channel, reply, Open
<1> QED
  BY <1>2, <1>3, <1>4 DEF Service!AnswerForChannel, channel, reply

LEMMA TimeoutTestIsStep ==
  ASSUME ServerInv, out = <<>>, TimeoutTest
  PROVE  Service!AnswerForChannel
<1>1. reply' = <<"channel_test", 0>>
  BY ReplyWritten, MessageSaid DEF TimeoutTest, ReplyKind
<1>2. channel # NULL
  BY ChannelIsSomething DEF TimeoutTest
<1>3. UNCHANGED <<channel, Open>> /\ reply = NULL
  BY DEF TimeoutTest, channel, reply, Open
<1> QED
  BY <1>1, <1>2, <1>3 DEF Service!AnswerForChannel, channel, reply

LEMMA StreamAnswerIsStep ==
  ASSUME ServerInv, NEW m \in Requests, out = <<>>, StreamTest(m) \/ Cw(m)
  PROVE  \E sid \in StreamIds : Service!AnswerForStream(sid) \/ Service!Refuse(sid)
<1>0. m.sid \in StreamIds /\ streams \in Seq(Entry)
  BY ServerAssumption DEF ServerInv, TypeOK, Entry
<1>1. m.sid \in Open /\ SlotsOf(m.sid) # {}
  BY OpenIsFound DEF StreamTest, Cw
<1>2. UNCHANGED <<channel, Open>> /\ reply = NULL
  BY DEF StreamTest, Cw, channel, reply, Open
<1>3. CASE StreamTest(m)
  <2> DEFINE s == streams[Least(SlotsOf(m.sid))]
  <2>1. Least(SlotsOf(m.sid)) \in SlotsOf(m.sid)
    BY <1>0, <1>1, SlotsAreIndices
  <2>2. s \in Stream /\ s.sid = m.sid
    BY <1>0, <2>1 DEF SlotsOf, Entry
  <2>3. out' = <<StreamStatus(s)>>
    BY <1>3 DEF StreamTest
  <2> HIDE DEF s
  <2>4. reply' = <<"stream_status", m.sid>>
    BY <2>2, <2>3, ReplyWritten, StreamStatusSaid DEF ReplyKind
  <2> QED
    BY <1>0, <1>1, <1>2, <2>4 DEF Service!AnswerForStream, channel, reply
<1>4. CASE Cw(m)
  <2>1. reply' \in {<<"ecm", m.sid>>, <<"error", m.sid>>}
    BY <1>4, ReplyWritten, StreamErrSaid, StreamMessageSaid DEF Cw, ReplyKind
  <2> QED
    BY <1>0, <1>1, <1>2, <2>1
       DEF Service!AnswerForStream, Service!Refuse, channel, reply
<1> QED
  BY <1>3, <1>4

LEMMA ChannelSetupIsStep ==
  ASSUME ServerInv, NEW m \in Requests, out = <<>>, ChannelSetup(m)
  PROVE  Service!OpenChannel
<1>1. channel = NULL /\ reply = NULL /\ UNCHANGED Open
  BY DEF ChannelSetup, channel, reply, Open
<1>2. channel' = <<m.chan, m.ver>> /\ channel' # NULL
  BY ServerAssumption DEF ChannelSetup, channel
<1>3. reply' = <<"channel_status", 0>>
  BY ReplyWritten, StatusSaid DEF ChannelSetup, ReplyKind
<1> QED
  BY <1>1, <1>2, <1>3 DEF Service!OpenChannel, channel, reply

LEMMA ChannelCloseIsStep ==
  ASSUME ServerInv, NEW m \in Requests, out = <<>>, ChannelClose(m)
  PROVE  Service!CloseChannel
<1>1. channel # NULL
  BY HereIsOpen, ChannelIsSomething DEF ChannelClose, ServerInv, TypeOK
<1>2. channel' = NULL /\ reply = NULL /\ UNCHANGED reply
  BY DEF ChannelClose, channel, reply
<1>3. Open' = {}
  BY DEF ChannelClose, Open
<1> QED
  BY <1>1, <1>2, <1>3 DEF Service!CloseChannel, channel, reply

LEMMA StreamSetupIsStep ==
  ASSUME ServerInv, NEW m \in Requests, out = <<>>, StreamSetup(m)
  PROVE  Service!OpenStream(m.sid)
<1>1. channel # NULL
  BY HereIsOpen, ChannelIsSomething DEF StreamSetup, ServerInv, TypeOK
<1>2. UNCHANGED channel /\ reply = NULL
  BY DEF StreamSetup, channel, reply
<1>3. m.sid \notin Open /\ Open' = Open \cup {m.sid}
  BY OpenIsFound, SetupOpens DEF StreamSetup
<1> DEFINE s == [sid |-> m.sid, ecmid |-> IF i_version >= 2 THEN m.ecmid ELSE 0]
<1>4. s \in Stream /\ s.sid = m.sid /\ out' = <<StreamStatus(s)>>
  BY ServerAssumption DEF StreamSetup, Stream
<1> HIDE DEF s
<1>5. reply' = <<"stream_status", m.sid>>
  BY <1>4, ReplyWritten, StreamStatusSaid DEF ReplyKind
<1> QED
  BY <1>1, <1>2, <1>3, <1>5 DEF Service!OpenStream, channel, reply

LEMMA StreamCloseIsStep ==
  ASSUME ServerInv, NEW m \in Requests, out = <<>>, StreamClose(m)
  PROVE  Service!CloseStream(m.sid)
<1>1. UNCHANGED channel /\ reply = NULL
  BY DEF StreamClose, channel, reply
<1>2. m.sid \in Open /\ Open' = Open \ {m.sid}
  BY OpenIsFound, CloseCloses DEF StreamClose
<1>3. reply' = <<"stream_closeresp", m.sid>>
  BY ReplyWritten, StreamMessageSaid DEF StreamClose, ReplyKind
<1> QED
  BY <1>1, <1>2, <1>3 DEF Service!CloseStream, channel, reply

LEMMA StepIsServiceStep ==
  ASSUME ServerInv, [Next]_vars
  PROVE  [Service!Next]_(Service!vars)
<1>1. CASE UNCHANGED vars
  BY <1>1 DEF vars, Service!vars, Open
<1>2. CASE Ready /\ Timeout
  <2>1. CASE TimeoutIdle
    BY <2>1 DEF TimeoutIdle, Service!vars, Open
  <2>2. CASE TimeoutTest
    BY <1>2, <2>2, TimeoutTestIsStep DEF Ready, Service!Next
  <2> QED
    BY <1>2, <2>1, <2>2 DEF Timeout
<1>3. CASE Ready /\ \E m \in Requests : Handle(m)
  <2> SUFFICES ASSUME NEW m \in Requests, Handle(m), out = <<>>
               PROVE  [Service!Next]_(Service!vars)
    BY <1>3 DEF Ready
  <2>0. m.sid \in StreamIds
    BY ServerAssumption
  <2>1. CASE Refuse(m) \/ WrongChannel(m) \/ NoSuchStream(m) \/ StreamSetupFails(m)
    BY <2>1, RefusalIsStep DEF Service!Next
  <2>2. CASE Hangup(m)
    BY <2>2 DEF Hangup, Service!vars, Open
  <2>3. CASE Ignore(m)
    BY <1>1, <2>3 DEF Ignore
  <2>4. CASE ChannelSetup(m)
    BY <2>4, ChannelSetupIsStep DEF Service!Next
  <2>5. CASE ChannelTest(m)
    BY <2>5, ChannelAnswerIsStep DEF Service!Next
  <2>6. CASE ChannelClose(m)
    BY <2>6, ChannelCloseIsStep DEF Service!Next
  <2>7. CASE StreamSetup(m)
    BY <2>0, <2>7, StreamSetupIsStep DEF Service!Next
  <2>8. CASE StreamTest(m) \/ Cw(m)
    BY <2>8, StreamAnswerIsStep DEF Service!Next
  <2>9. CASE StreamClose(m)
    BY <2>0, <2>9, StreamCloseIsStep DEF Service!Next
  <2> QED
    BY <2>1, <2>2, <2>3, <2>4, <2>5, <2>6, <2>7, <2>8, <2>9 DEF Handle
<1>4. CASE Write
  <2>1. reply # NULL /\ reply' = NULL /\ UNCHANGED <<channel, Open>>
    BY <1>4, ReplyIsSomething DEF Write, reply, channel, Open
  <2> QED
    BY <2>1 DEF Service!Next, Service!Write, reply, channel
<1> QED
  BY <1>1, <1>2, <1>3, <1>4 DEF Next

-----------------------------------------------------------------------------
(***************************************************************************)
(* The results.                                                            *)
(***************************************************************************)

(* The variables of the server keep to their types: dvb_ecmg.c never holds *)
(* a stream that is no stream, nor sends what only a client would.         *)
THEOREM TypeCorrect == Spec => []TypeOK
<1>1. ServerInv => TypeOK
  BY DEF ServerInv
<1> QED
  BY <1>1, ServerSafe, PTL

(* No stream has two entries in pp_streams, so that it does not matter     *)
(* that find_stream stops at the first.                                    *)
THEOREM OneEntryEach == Spec => []Distinct
<1>1. ServerInv => Distinct
  BY DEF ServerInv
<1> QED
  BY <1>1, ServerSafe, PTL

(* Whatever streams are set up and closed, in whatever order, pp_streams   *)
(* never has more entries than there are stream ids.                       *)
THEOREM ArrayIsBounded == Spec => []ArrayBounded
<1>1. ServerInv => ArrayBounded
  BY DEF ServerInv
<1> QED
  BY <1>1, ServerSafe, PTL

(* The server is an ECMG as its client knows it (EcmgService): what it     *)
(* answers about a stream is so, and what it refuses changes nothing.      *)
THEOREM ImplementsService == Spec => ServiceSpec
<1>1. Init => Service!Init
  BY DEF Init, Service!Init, Open
<1>2. ServerInv /\ [Next]_vars => [Service!Next]_(Service!vars)
  BY StepIsServiceStep
<1> QED
  BY <1>1, <1>2, ServerSafe, PTL DEF Spec, ServiceSpec, Service!Spec

(***************************************************************************)
(* The client.                                                             *)
(***************************************************************************)

LEMMA SameCount == \A S : Client!Cardinality(S) = Cardinality(S)
BY DEF Client!Cardinality, Cardinality, Client!IsFiniteSet, IsFiniteSet

(* The turns have the places from the first to the last. *)
LEMMA RankIsPlace ==
  ASSUME NEW T \in SUBSET (Nat \X Nat), IsFiniteSet(T)
  PROVE  /\ Cardinality(T) \in Nat
         /\ \A t \in T : Client!Rank(t, T) \in 1 .. Cardinality(T)
         /\ \A t, u \in T : Client!Rank(t, T) = Client!Rank(u, T) => t = u
         /\ \A r \in 1 .. Cardinality(T) : \E t \in T : Client!Rank(t, T) = r
<1> DEFINE upto(t) == {u \in T : u[1] < t[1] \/ (u[1] = t[1] /\ u[2] <= t[2])}
           rank(t) == Client!Rank(t, T)
           n == Cardinality(T)
           R == {rank(t) : t \in T}
           f == [t \in T |-> rank(t)]
<1>1. \A t : rank(t) = Cardinality(upto(t))
  BY SameCount DEF Client!Rank
<1>2. \A t \in T : t[1] \in Nat /\ t[2] \in Nat /\ t = <<t[1], t[2]>>
  OBVIOUS
<1>3. \A t \in T : t \in upto(t) /\ upto(t) \in SUBSET T
  BY <1>2
<1>4. n \in Nat
  BY FS_CardinalityType
<1>5. \A t \in T : IsFiniteSet(upto(t)) /\ rank(t) \in 1 .. n
  <2> SUFFICES ASSUME NEW t \in T
               PROVE  IsFiniteSet(upto(t)) /\ rank(t) \in 1 .. n
    OBVIOUS
  <2>1. upto(t) \in SUBSET T /\ upto(t) # {}
    BY <1>3
  <2>2. rank(t) = Cardinality(upto(t))
    BY <1>1
  <2> HIDE DEF upto, rank
  <2>3. IsFiniteSet(upto(t)) /\ Cardinality(upto(t)) <= n
    BY <2>1, FS_Subset
  <2>4. Cardinality(upto(t)) \in Nat /\ Cardinality(upto(t)) # 0
    BY <2>1, <2>3, FS_CardinalityType, FS_EmptySet
  <2> QED
    BY <1>4, <2>2, <2>3, <2>4
<1>6. ASSUME NEW t \in T, NEW u \in T, t[1] < u[1] \/ (t[1] = u[1] /\ t[2] < u[2])
      PROVE  rank(t) < rank(u)
  <2>1. upto(t) \in SUBSET upto(u) /\ u \notin upto(t)
    BY <1>2, <1>6
  <2>2. upto(t) # upto(u)
    BY <1>3, <2>1
  <2>3. IsFiniteSet(upto(u)) /\ rank(t) \in 1 .. n /\ rank(u) \in 1 .. n
    BY <1>5
  <2>4. rank(t) = Cardinality(upto(t)) /\ rank(u) = Cardinality(upto(u))
    BY <1>1
  <2> HIDE DEF upto, rank
  <2>5. Cardinality(upto(t)) <= Cardinality(upto(u)) /\ Cardinality(upto(t)) # Cardinality(upto(u))
    BY <2>1, <2>2, <2>3, FS_Subset
  <2> QED
    BY <2>3, <2>4, <2>5
<1>7. ASSUME NEW t \in T, NEW u \in T, rank(t) = rank(u)
      PROVE  t = u
  <2>1. ~ (rank(t) < rank(u)) /\ ~ (rank(u) < rank(t))
    <3> HIDE DEF rank, upto, n
    <3>1. rank(t) \in 1 .. n
      BY <1>5
    <3> QED
      BY <1>7, <3>1
  <2>2. t[1] = u[1] /\ t[2] = u[2]
    <3> HIDE DEF rank
    <3> QED
      BY <1>2, <1>6, <2>1
  <2> QED
    BY <1>2, <2>2
<1>8. R = 1 .. n
  <2> HIDE DEF rank
  <2>1. R \in SUBSET (1 .. n)
    BY <1>5
  <2>2. f \in Injection(T, R)
    BY <1>7 DEF Injection, IsInjective
  <2>3. f \in Surjection(T, R)
    BY DEF Surjection
  <2>4. f \in Bijection(T, R)
    BY <2>2, <2>3 DEF Bijection
  <2>5. Cardinality(R) = n
    <3> HIDE DEF R, f
    <3> QED
      BY <2>4, FS_Bijection DEF ExistsBijection
  <2>6. IsFiniteSet(1 .. n) /\ Cardinality(1 .. n) = n
    BY <1>4, FS_Interval
  <2> HIDE DEF R, n
  <2> QED
    BY <2>1, <2>5, <2>6, FS_Subset
<1> QED
  BY <1>4, <1>5, <1>7, <1>8

(* What the client sends is named by its type and stream. *)
LEMMA CwSaid ==
  ASSUME NEW i
  PROVE  Client!CwFor(i).type = "cw" /\ Client!CwFor(i).sid = i
BY DEF Client!CwFor, Client!StreamMessage, Client!Message

LEMMA ClientErrSaid ==
  \A c, sid, e :
    /\ Client!ChannelErr(Client!Version, c, e).type = "channel_error"
    /\ Client!StreamErr(Client!Version, c, sid, e).type = "stream_error"
BY DEF Client!ChannelErr, Client!StreamErr, Client!StreamMessage, Client!Message

(* The control words that are due are those of the turns, each at its      *)
(* place.                                                                  *)
LEMMA DueAtTurns ==
  ASSUME NEW confirmed \in Seq(BOOLEAN), lag \in Nat
  PROVE  LET T   == Client!Turns(confirmed)
             due == Client!Due(confirmed)
         IN  /\ T \in SUBSET (Nat \X Nat) /\ IsFiniteSet(T) /\ Cardinality(T) \in Nat
             /\ DOMAIN due = 1 .. Cardinality(T)
             /\ due \in Seq({due[r] : r \in 1 .. Cardinality(T)})
             /\ \A r \in 1 .. Cardinality(T) :
                  \E t \in T : Client!Rank(t, T) = r /\ due[r] = Client!CwFor(t[2])
             /\ \A t \in T : due[Client!Rank(t, T)] = Client!CwFor(t[2])
<1> DEFINE T == Client!Turns(confirmed)
           due == Client!Due(confirmed)
           n == Cardinality(T)
           at(r) == CHOOSE t \in T : Client!Rank(t, T) = r
<1>1. T \in SUBSET ((1 .. lag) \X (1 .. Len(confirmed)))
  BY DEF Client!Turns
<1>2. Len(confirmed) \in Nat
  OBVIOUS
<1>3. T \in SUBSET (Nat \X Nat)
  <2> HIDE DEF T
  <2> QED
    BY <1>1, <1>2
<1>4. IsFiniteSet(T) /\ n \in Nat
  <2>1. IsFiniteSet(1 .. lag) /\ IsFiniteSet(1 .. Len(confirmed))
    BY <1>2, FS_Interval
  <2>2. IsFiniteSet((1 .. lag) \X (1 .. Len(confirmed)))
    BY <2>1, FS_Product
  <2> HIDE DEF T
  <2> QED
    BY <1>1, <2>2, FS_Subset, FS_CardinalityType
<1>5. due = [r \in 1 .. n |-> Client!CwFor(at(r)[2])]
  BY SameCount DEF Client!Due
<1> HIDE DEF T, due
<1>6. \A r \in 1 .. n : at(r) \in T /\ Client!Rank(at(r), T) = r
  BY <1>3, <1>4, RankIsPlace
<1>7. \A t \in T : Client!Rank(t, T) \in 1 .. n /\ at(Client!Rank(t, T)) = t
  BY <1>3, <1>4, RankIsPlace
<1>8. \A r \in 1 .. n : due[r] = Client!CwFor(at(r)[2])
  BY <1>5
<1>9. \A t \in T : due[Client!Rank(t, T)] = Client!CwFor(t[2])
  <2> HIDE DEF at, n
  <2> QED
    BY <1>7, <1>8
<1>10. due \in Seq({due[r] : r \in 1 .. n})
  BY <1>4, <1>5
<1> QED
  BY <1>3, <1>4, <1>5, <1>6, <1>8, <1>9, <1>10 DEF T, due

(* A stream that is confirmed has a control word for each second that is   *)
(* its turn.                                                               *)
LEMMA DueCounts ==
  ASSUME NEW confirmed \in Seq(BOOLEAN), lag \in Nat,
         NEW i \in DOMAIN confirmed, confirmed[i]
  PROVE  CountOf("cw", i, Client!Due(confirmed))
           = Cardinality({k \in 1 .. lag : (i - 1) % i_period = (turn + k) % i_period})
<1> DEFINE T == Client!Turns(confirmed)
           due == Client!Due(confirmed)
           n == Cardinality(T)
           K == {k \in 1 .. lag : (i - 1) % i_period = (turn + k) % i_period}
           A == {r \in DOMAIN due : due[r].type = "cw" /\ due[r].sid = i}
           g == [k \in K |-> Client!Rank(<<k, i>>, T)]
<1>1. /\ T \in SUBSET (Nat \X Nat) /\ IsFiniteSet(T) /\ n \in Nat
      /\ DOMAIN due = 1 .. n
      /\ \A r \in 1 .. n :
           \E t \in T : Client!Rank(t, T) = r /\ due[r] = Client!CwFor(t[2])
      /\ \A t \in T : due[Client!Rank(t, T)] = Client!CwFor(t[2])
  BY DueAtTurns
<1>2. \A k : k \in K <=> <<k, i>> \in T
  BY DEF Client!Turns
<1>3. \A t \in T : t = <<t[1], t[2]>>
  BY <1>1
<1>4. IsFiniteSet(K)
  <2>1. IsFiniteSet(1 .. lag) /\ K \in SUBSET (1 .. lag)
    BY FS_Interval
  <2> HIDE DEF K
  <2> QED
    BY <2>1, FS_Subset
<1>5. /\ \A t \in T : Client!Rank(t, T) \in 1 .. n
      /\ \A t, u \in T : Client!Rank(t, T) = Client!Rank(u, T) => t = u
  <2> HIDE DEF T
  <2> QED
    BY <1>1, RankIsPlace
<1> HIDE DEF T, due, K, n
<1>6. \A k \in K : g[k] \in A
  <2> SUFFICES ASSUME NEW k \in K
               PROVE  Client!Rank(<<k, i>>, T) \in A
    OBVIOUS
  <2>1. <<k, i>> \in T /\ <<k, i>>[2] = i
    BY <1>2
  <2>2. due[Client!Rank(<<k, i>>, T)] = Client!CwFor(<<k, i>>[2])
    BY <1>1, <2>1
  <2> QED
    BY <1>1, <1>5, <2>1, <2>2, CwSaid
<1>7. \A k, j \in K : g[k] = g[j] => k = j
  <2> SUFFICES ASSUME NEW k \in K, NEW j \in K, Client!Rank(<<k, i>>, T) = Client!Rank(<<j, i>>, T)
               PROVE  k = j
    OBVIOUS
  <2>1. <<k, i>> = <<j, i>>
    BY <1>2, <1>5
  <2> QED
    BY <2>1
<1>8. \A r \in A : \E k \in K : g[k] = r
  <2> SUFFICES ASSUME NEW r \in A
               PROVE  \E k \in K : Client!Rank(<<k, i>>, T) = r
    OBVIOUS
  <2>1. r \in 1 .. n /\ due[r].sid = i
    BY <1>1
  <2>2. PICK t \in T : Client!Rank(t, T) = r /\ due[r] = Client!CwFor(t[2])
    BY <1>1, <2>1
  <2>3. t[2] = i
    BY <2>1, <2>2, CwSaid
  <2>4. t = <<t[1], i>>
    BY <1>3, <2>3
  <2> QED
    BY <1>2, <2>2, <2>4
<1>9. g \in Bijection(K, A)
  <2>1. g \in [K -> A] /\ DOMAIN g = K
    BY <1>6
  <2> HIDE DEF A, g
  <2> QED
    BY <1>7, <1>8, <2>1 DEF Bijection, Injection, Surjection, IsInjective
<1>10. Cardinality(A) = Cardinality(K)
  <2> HIDE DEF A, g
  <2> QED
    BY <1>4, <1>9, FS_Bijection DEF ExistsBijection
<1> QED
  BY <1>10 DEF CountOf, due, K

LEMMA SameCountOf ==
  \A type, sid, ms : Client!CountOf(type, sid, ms) = CountOf(type, sid, ms)
BY SameCount DEF Client!CountOf, CountOf

(* How many seconds ago it was the turn of stream i. *)
Phase(i) == (turn - (i - 1)) % i_period

(* What a confirmed stream has been given short of its due was short when  *)
(* it was confirmed, and is less than a period.                            *)
PaceInv ==
  \A i \in Client!StreamNames :
    IF i \in DOMAIN c_streams /\ c_streams[i]
      THEN balance[i] - Phase(i) \in 1 - i_period .. 0
      ELSE balance[i] = 0

ClientInv ==
  /\ i_period \in Nat \ {0} /\ turn \in Int /\ lag \in Nat
  /\ c_streams \in Seq(BOOLEAN)
  /\ balance \in [Client!StreamNames -> Int]
  /\ PaceInv

(* Messages that are no control words. *)
NoCw(ms) == ms \in Seq({ms[n] : n \in DOMAIN ms}) /\ \A n \in DOMAIN ms : ms[n].type # "cw"

LEMMA SetupsAreNoCw ==
  ASSUME NEW confirmed
  PROVE  NoCw(Client!Setups(confirmed))
<1> DEFINE m == Client!StreamMessage(Client!Version, "stream_setup", Channel, Len(confirmed) + 1)
<1>1. m.type = "stream_setup"
  BY DEF Client!StreamMessage, Client!Message
<1>2. Client!Setups(confirmed) = <<m>> \/ Client!Setups(confirmed) = <<>>
  BY DEF Client!Setups
<1> HIDE DEF m
<1>3. NoCw(<<m>>) /\ NoCw(<<>>)
  BY <1>1 DEF NoCw
<1> QED
  BY <1>2, <1>3

LEMMA ExtendedKeeps ==
  ASSUME NEW confirmed \in Seq(BOOLEAN)
  PROVE  /\ Client!Extended(confirmed) \in Seq(BOOLEAN)
         /\ \A i : i \in DOMAIN Client!Extended(confirmed) /\ Client!Extended(confirmed)[i]
                   <=> i \in DOMAIN confirmed /\ confirmed[i]
<1>1. CASE Len(confirmed) < Wanted
  <2>1. Client!Extended(confirmed) = Append(confirmed, FALSE)
    BY <1>1 DEF Client!Extended
  <2>2. /\ Append(confirmed, FALSE) \in Seq(BOOLEAN)
        /\ Len(confirmed) \in Nat
        /\ DOMAIN Append(confirmed, FALSE) = 1 .. Len(confirmed) + 1
        /\ DOMAIN confirmed = 1 .. Len(confirmed)
        /\ \A i \in 1 .. Len(confirmed) : Append(confirmed, FALSE)[i] = confirmed[i]
        /\ Append(confirmed, FALSE)[Len(confirmed) + 1] = FALSE
    OBVIOUS
  <2>3. 1 .. Len(confirmed) + 1 = (1 .. Len(confirmed)) \cup {Len(confirmed) + 1}
    BY <2>2
  <2> QED
    BY <2>1, <2>2, <2>3
<1>2. CASE ~ (Len(confirmed) < Wanted)
  BY <1>2 DEF Client!Extended
<1> QED
  BY <1>1, <1>2

(* Over the seconds since the last iteration, a stream gets a control word *)
(* for each period that ends.                                              *)
LEMMA IterationPays ==
  ASSUME ClientInv, NEW confirmed \in Seq(BOOLEAN), NEW answer, NoCw(answer),
         Client!EndIteration(answer, confirmed), i_period' = i_period,
         NEW i \in DOMAIN confirmed, confirmed[i]
  PROVE  /\ Phase(i) \in 0 .. i_period - 1
         /\ Phase(i)' \in 0 .. i_period - 1
         /\ i_period * CountOf("cw", i, c_out') = lag + Phase(i) - Phase(i)'
<1> DEFINE K == {k \in 1 .. lag : (i - 1) % i_period = (turn + k) % i_period}
           setups == Client!Setups(confirmed)
           due == Client!Due(confirmed)
<1>1. /\ i_period \in Nat \ {0} /\ turn \in Int /\ lag \in Nat
      /\ i - 1 \in Int
  BY DEF ClientInv
<1>2. c_out' = answer \o setups \o due /\ turn' = (turn + lag) % i_period
  BY DEF Client!EndIteration
<1>3. PICK D : due \in Seq(D)
  BY <1>1, DueAtTurns
<1>4. CountOf("cw", i, answer) = 0 /\ CountOf("cw", i, setups) = 0
  <2>1. NoCw(setups)
    BY SetupsAreNoCw
  <2> HIDE DEF setups
  <2> QED
    BY <2>1, CountOfOther DEF NoCw
<1>5. CountOf("cw", i, due) = Cardinality(K)
  BY <1>1, DueCounts
<1>6. PICK A, B : answer \in Seq(A) /\ setups \in Seq(B)
  BY SetupsAreNoCw DEF NoCw
<1> HIDE DEF setups, due, K
<1>7. CountOf("cw", i, c_out') = CountOf("cw", i, answer) + CountOf("cw", i, setups) + CountOf("cw", i, due)
  <2>1. answer \in Seq(A) /\ setups \in Seq(B) /\ due \in Seq(D)
    BY <1>3, <1>6
  <2>2. CountOf("cw", i, answer \o setups \o due)
          = CountOf("cw", i, answer) + CountOf("cw", i, setups) + CountOf("cw", i, due)
    BY ONLY <2>1, CountOfThree
  <2> QED
    BY <1>2, <2>2
<1>8. PICK a \in Int : a = i - 1
  BY <1>1
<1>9. /\ Cardinality(K) \in Nat
      /\ i_period * Cardinality(K) = lag + ((turn - a) % i_period) - ((turn + lag - a) % i_period)
  <2>1. K = {k \in 1 .. lag : a % i_period = (turn + k) % i_period}
    BY <1>8 DEF K
  <2> QED
    BY ONLY ZenonT(60), <1>1, <1>8, <2>1, Visits
<1>10. Phase(i) = (turn - a) % i_period /\ Phase(i)' = (turn' - a) % i_period
  BY <1>8 DEF Phase
<1>11. (turn' - a) % i_period = (turn + lag - a) % i_period
  <2>1. PICK x \in Int : x = turn + lag
    BY <1>1
  <2>2. PICK y \in Int : y = -a
    OBVIOUS
  <2>3. ((x % i_period) + y) % i_period = (x + y) % i_period
    BY ONLY <1>1, x \in Int, y \in Int, AddRemainder
  <2>4. x % i_period \in Int
    BY <1>1, Division
  <2>5. (x % i_period) + y = turn' - a /\ x + y = turn + lag - a
    BY <1>1, <1>2, <2>1, <2>2, <2>4
  <2> QED
    BY <2>3, <2>5
<1>12. /\ (turn - a) % i_period \in 0 .. i_period - 1
       /\ (turn + lag - a) % i_period \in 0 .. i_period - 1
  <2>1. turn - a \in Int /\ turn + lag - a \in Int
    BY <1>1
  <2> QED
    BY <1>1, <2>1, Division
<1> QED
  BY <1>4, <1>5, <1>7, <1>9, <1>10, <1>11, <1>12

LEMMA IterationKeepsClientInv ==
  ASSUME ClientInv, NEW confirmed \in Seq(BOOLEAN), NEW answer, NoCw(answer),
         Client!EndIteration(answer, confirmed), i_period' = i_period,
         DOMAIN confirmed = DOMAIN c_streams,
         \A i \in DOMAIN c_streams : c_streams[i] => confirmed[i]
  PROVE  ClientInv'
<1>1. /\ i_period \in Nat \ {0} /\ turn \in Int /\ lag \in Nat
      /\ balance \in [Client!StreamNames -> Int]
  BY DEF ClientInv
<1>2. /\ c_streams' = Client!Extended(confirmed)
      /\ turn' = (turn + lag) % i_period /\ lag' = 0
  BY DEF Client!EndIteration
<1>3. balance' = [i \in Client!StreamNames |->
                    IF i \in DOMAIN confirmed /\ confirmed[i]
                      THEN balance[i] + lag - i_period * CountOf("cw", i, c_out')
                      ELSE 0]
  BY SameCountOf DEF Client!EndIteration
<1>4. /\ c_streams' \in Seq(BOOLEAN)
      /\ \A i : i \in DOMAIN c_streams' /\ c_streams'[i] <=> i \in DOMAIN confirmed /\ confirmed[i]
  BY <1>2, ExtendedKeeps
<1>5. turn' \in Int
  <2>1. turn + lag \in Int
    BY <1>1
  <2> QED
    BY <1>1, <1>2, <2>1, Division
<1>6. ASSUME NEW i \in Client!StreamNames, i \in DOMAIN confirmed, confirmed[i]
      PROVE  balance'[i] \in Int /\ balance'[i] - Phase(i)' \in 1 - i_period .. 0
  <2> DEFINE paid == i_period * CountOf("cw", i, c_out')
  <2>1. /\ Phase(i) \in 0 .. i_period - 1 /\ Phase(i)' \in 0 .. i_period - 1
        /\ paid = lag + Phase(i) - Phase(i)'
    BY <1>6, IterationPays
  <2>2. balance'[i] = balance[i] + lag - paid /\ balance[i] \in Int
    BY <1>1, <1>3, <1>6
  <2>3. balance[i] - Phase(i) \in 1 - i_period .. 0 \/ balance[i] = 0
    BY DEF ClientInv, PaceInv
  <2> HIDE DEF paid
  <2>4. PICK P \in Nat \ {0} : P = i_period
    BY <1>1
  <2>5. PICK p \in 0 .. P - 1, q \in 0 .. P - 1 : p = Phase(i) /\ q = Phase(i)'
    BY <2>1, <2>4
  <2>6. PICK l \in Nat : l = lag
    BY <1>1
  <2>7. PICK d \in Int : d = paid /\ d = l + p - q
    BY <2>1, <2>5, <2>6
  <2>8. PICK b \in Int : b = balance[i]
    BY <2>2
  <2>9. balance'[i] = b + l - d
    BY <2>2, <2>6, <2>7, <2>8
  <2>10. b - p \in 1 - P .. 0 \/ b = 0
    BY <2>3, <2>4, <2>5, <2>8
  <2>11. b + l - d \in Int /\ (b + l - d) - q \in 1 - P .. 0
    BY ONLY <2>7, <2>10, b \in Int, l \in Nat, p \in 0 .. P - 1, q \in 0 .. P - 1, P \in Nat \ {0}
  <2> QED
    BY <2>4, <2>5, <2>9, <2>11
<1>7. ASSUME NEW i \in Client!StreamNames, ~ (i \in DOMAIN confirmed /\ confirmed[i])
      PROVE  balance'[i] = 0
  BY <1>3, <1>7
<1>8. balance' \in [Client!StreamNames -> Int]
  <2>1. \A i \in Client!StreamNames : balance'[i] \in Int
    BY <1>6, <1>7
  <2>2. DOMAIN balance' = Client!StreamNames /\ balance' = [i \in Client!StreamNames |-> balance'[i]]
    BY <1>3
  <2> QED
    BY <2>1, <2>2
<1>9. PaceInv'
  <2> SUFFICES ASSUME NEW i \in Client!StreamNames
               PROVE  IF i \in DOMAIN c_streams' /\ c_streams'[i]
                        THEN balance'[i] - Phase(i)' \in 1 - i_period' .. 0
                        ELSE balance'[i] = 0
    BY DEF PaceInv
  <2> QED
    BY <1>4, <1>6, <1>7
<1> QED
  BY <1>1, <1>2, <1>4, <1>5, <1>8, <1>9 DEF ClientInv, Client!StreamNames

(* What does not touch streams, turns and what they have been given.       *)
LEMMA OthersKeepClientInv ==
  ASSUME ClientInv, UNCHANGED <<i_period, c_streams, turn, balance>>, lag' \in Nat
  PROVE  ClientInv'
BY DEF ClientInv, PaceInv, Phase, Client!StreamNames

LEMMA ReceiveKeepsClientInv ==
  ASSUME ClientInv, NEW m, Client!Receive(m)
  PROVE  ClientInv'
<1>0. c_streams \in Seq(BOOLEAN) /\ lag \in Nat
  BY DEF ClientInv
<1>1. CASE Client!GiveUp(m)
  BY <1>0, <1>1, OthersKeepClientInv DEF Client!GiveUp
<1>2. NoCw(<<>>)
  BY DEF NoCw
<1>3. CASE Client!ChannelConfirmed(m)
  BY <1>0, <1>2, <1>3, IterationKeepsClientInv DEF Client!ChannelConfirmed
<1>4. CASE Client!StreamConfirmed(m)
  <2> DEFINE confirmed == [c_streams EXCEPT ![m.sid] = TRUE]
  <2>1. Client!EndIteration(<<>>, confirmed) /\ i_period' = i_period
    BY <1>4 DEF Client!StreamConfirmed
  <2>2. m.sid \in DOMAIN c_streams
    BY <1>4 DEF Client!StreamConfirmed, Client!Fatal, Client!Answer, Client!Known
  <2>3. /\ confirmed \in Seq(BOOLEAN) /\ DOMAIN confirmed = DOMAIN c_streams
        /\ \A i \in DOMAIN c_streams : c_streams[i] => confirmed[i]
    BY <1>0, <2>2
  <2> HIDE DEF confirmed
  <2> QED
    BY <1>2, <2>1, <2>3, IterationKeepsClientInv
<1>5. CASE Client!OtherMessage(m)
  <2>1. NoCw(Client!Answer(m))
    <3>1. PICK a : /\ a.type \in {"channel_error", "stream_error"}
                   /\ Client!Answer(m) \in {<<a>>, <<>>}
      BY ClientErrSaid DEF Client!Answer
    <3>2. NoCw(<<a>>)
      BY <3>1 DEF NoCw
    <3> QED
      BY <1>2, <3>1, <3>2
  <2> QED
    BY <1>0, <1>5, <2>1, IterationKeepsClientInv DEF Client!OtherMessage
<1> QED
  BY <1>1, <1>3, <1>4, <1>5 DEF Client!Receive

LEMMA ClientStepKeepsInv ==
  ASSUME ClientInv, [Client!Next]_(Client!vars)
  PROVE  ClientInv'
<1>0. c_streams \in Seq(BOOLEAN) /\ lag \in Nat /\ i_period \in Nat \ {0}
  BY DEF ClientInv
<1>1. CASE UNCHANGED Client!vars
  BY <1>0, <1>1, OthersKeepClientInv DEF Client!vars
<1>2. CASE Client!NoPacket
  <2>1. NoCw(<<>>)
    BY DEF NoCw
  <2> QED
    BY <1>0, <1>2, <2>1, IterationKeepsClientInv DEF Client!NoPacket
<1>3. CASE Client!Eof \/ Client!Write
  BY <1>0, <1>3, OthersKeepClientInv DEF Client!Eof, Client!Write
<1>4. CASE Client!Tick
  <2>1. (lag + 1) % i_period \in Nat
    <3>1. lag + 1 \in Int
      BY <1>0
    <3> QED
      BY <1>0, <3>1, Division
  <2> QED
    BY <1>0, <1>4, <2>1, OthersKeepClientInv DEF Client!Tick
<1> QED
  BY <1>1, <1>2, <1>3, <1>4, ReceiveKeepsClientInv DEF Client!Next

LEMMA InitClientInv == Client!Init => ClientInv
<1> SUFFICES ASSUME Client!Init
             PROVE  ClientInv
  OBVIOUS
<1>1. i_period \in Nat \ {0}
  BY ClientAssumption DEF Client!Init
<1>2. turn \in Int /\ lag \in Nat /\ c_streams \in Seq(BOOLEAN) /\ DOMAIN c_streams = {}
  BY <1>1 DEF Client!Init
<1>3. balance \in [Client!StreamNames -> Int] /\ PaceInv
  BY <1>2 DEF Client!Init, PaceInv
<1> QED
  BY <1>1, <1>2, <1>3 DEF ClientInv

LEMMA ClientInvPaces == ClientInv => KeepsPace
<1> SUFFICES ASSUME ClientInv, NEW i \in Client!StreamNames
             PROVE  balance[i] \in 1 - i_period .. i_period - 1
  BY DEF KeepsPace, Client!KeepsPace
<1>1. i_period \in Nat \ {0} /\ balance[i] \in Int /\ turn - (i - 1) \in Int
  BY DEF ClientInv, Client!StreamNames
<1>2. Phase(i) \in 0 .. i_period - 1
  BY <1>1, Division DEF Phase
<1>3. balance[i] - Phase(i) \in 1 - i_period .. 0 \/ balance[i] = 0
  BY DEF ClientInv, PaceInv
<1> QED
  BY <1>1, <1>2, <1>3

(* However late the iterations of dvb_ecmg_test.c are, and whatever comes  *)
(* from the server, each confirmed stream gets one control word for each   *)
(* crypto-period (check_cw and the loop that calls it).                    *)
THEOREM PaceIsKept == Client!Spec => []KeepsPace
BY ClientInvPaces, InitClientInv, ClientStepKeepsInv, PTL DEF Client!Spec

(***************************************************************************)
(* The two together.                                                       *)
(***************************************************************************)

(* What the two write, once each knows the channel: the server is asked    *)
(* for streams, and gets control words for those that are open; the client *)
(* gets answers about streams that are open.                               *)
Request  == Message(1, "channel_setup", Channel)
SetupOf(i) == StreamMessage(1, "stream_setup", Channel, i)
CwOf(i) ==
  [StreamMessage(1, "cw", Channel, i) EXCEPT
     !.combs = [k \in 1 .. 2 |-> [len |-> 10, cp |-> (255 + k - (2 - 1)) % 65536]]]
Probe    == Message(1, "channel_test", Channel)
StatusOf(i) == StreamMessage(1, "stream_status", Channel, i)
EcmOf(i) == StreamMessage(1, "ecm", Channel, i)

ForServer == {SetupOf(i) : i \in 1 .. Wanted} \cup {CwOf(i) : i \in Open}
ForClient ==
  {Status(1, Channel), Probe} \cup {StatusOf(i) : i \in Open} \cup {EcmOf(i) : i \in Open}

(* The channel has been asked for, and nothing else happened. *)
Asking ==
  /\ c_init /\ c_running /\ c_streams = <<>> /\ streams = <<>>
  /\ s2c = <<>> /\ out = <<>>
  /\ \/ c_out = <<Request>> /\ c2s = <<>>
     \/ c_out = <<>> /\ c2s = <<Request>>

(* The channel is open, and its status is the first that the client reads. *)
Talking ==
  /\ i_version = 1 /\ i_channelid = Channel
  /\ c2s \in Seq(ForServer) /\ c_out \in Seq(ForServer)
  /\ s2c \in Seq(ForClient) /\ (out = <<>> \/ \E m \in ForClient : out = <<m>>)
  /\ IF c_init
       THEN c_running => /\ c_out = <<>> /\ c2s = <<>> /\ c_streams = <<>>
                         /\ Down # <<>> /\ Head(Down) = Status(1, Channel)
       ELSE c_nbCw = 2 /\ c_lead = 1

ChannelInv == IF b_init THEN Asking ELSE Talking

StreamsInv ==
  /\ c_streams \in Seq(BOOLEAN) /\ Len(c_streams) <= Wanted
  /\ streams \in Seq(Entry)
  /\ Open \subseteq DOMAIN c_streams
  /\ \A i \in DOMAIN c_streams : c_streams[i] => i \in Open

(* Each stream that the client has asked for and that is not open yet has  *)
(* its setup on the way, each one that is open and not confirmed yet its   *)
(* status.                                                                 *)
SetupsInv ==
  \A i \in 1 .. Wanted :
    CountOf("stream_setup", i, Up) = IF i \in DOMAIN c_streams \ Open THEN 1 ELSE 0
StatusInv ==
  c_running => \A i \in 1 .. Wanted :
    CountOf("stream_status", i, Down) = IF i \in Open /\ ~ c_streams[i] THEN 1 ELSE 0

PairInv == ClientInv /\ ChannelInv /\ StreamsInv /\ SetupsInv /\ StatusInv

-----------------------------------------------------------------------------
(* Sequences of messages.                                                  *)

LEMMA CountOfTail ==
  ASSUME NEW S, NEW s \in Seq(S), s # <<>>, NEW type, NEW sid
  PROVE  /\ CountOf(type, sid, s) \in Nat
         /\ CountOf(type, sid, Tail(s)) =
              CountOf(type, sid, s) - (IF Head(s).type = type /\ Head(s).sid = sid THEN 1 ELSE 0)
<1>1. Head(s) \in S /\ Tail(s) \in Seq(S)
  BY HeadTailProperties
<1>2. <<Head(s)>> \in Seq(S)
  BY <1>1
<1>3. s = <<Head(s)>> \o Tail(s)
  OBVIOUS
<1>4. PICK h, t : h = <<Head(s)>> /\ t = Tail(s)
  OBVIOUS
<1>5. h \in Seq(S) /\ t \in Seq(S) /\ s = h \o t
  BY <1>1, <1>2, <1>3, <1>4
<1>6. /\ CountOf(type, sid, h) \in Nat /\ CountOf(type, sid, t) \in Nat
      /\ CountOf(type, sid, h \o t) = CountOf(type, sid, h) + CountOf(type, sid, t)
  BY ONLY <1>5, CountOfBoth
<1>7. CountOf(type, sid, h) = IF Head(s).type = type /\ Head(s).sid = sid THEN 1 ELSE 0
  BY <1>4, CountOfOne
<1>8. CountOf(type, sid, s) = CountOf(type, sid, h) + CountOf(type, sid, t)
  BY <1>5, <1>6
<1>9. PICK a \in Nat, b \in Nat : a = CountOf(type, sid, h) /\ b = CountOf(type, sid, t)
  BY <1>6
<1>10. CountOf(type, sid, s) = a + b /\ CountOf(type, sid, Tail(s)) = b
  BY <1>4, <1>8, <1>9
<1>11. b = (a + b) - a /\ a + b \in Nat
  OBVIOUS
<1> QED
  BY <1>7, <1>9, <1>10, <1>11

(* A message that is moved from the head of one to the end of the other.   *)
LEMMA MovedAlong ==
  ASSUME NEW S, NEW p \in Seq(S), NEW q \in Seq(S), q # <<>>
  PROVE  /\ Append(p, Head(q)) \in Seq(S) /\ Tail(q) \in Seq(S)
         /\ Append(p, Head(q)) \o Tail(q) = p \o q
OBVIOUS

LEMMA CountOfNone ==
  ASSUME NEW type, NEW sid
  PROVE  CountOf(type, sid, <<>>) = 0
BY CountOfOther

(* The messages that the two write. *)

LEMMA ClientMessages ==
  \A v, t, c, i : /\ Client!Message(v, t, c) = Message(v, t, c)
                  /\ Client!StreamMessage(v, t, c, i) = StreamMessage(v, t, c, i)
BY DEF Client!Message, Client!StreamMessage, Message, StreamMessage

LEMMA StreamMessageIs ==
  ASSUME NEW type, NEW i
  PROVE  /\ StreamMessage(1, type, Channel, i).ver = 1
         /\ StreamMessage(1, type, Channel, i).type = type
         /\ StreamMessage(1, type, Channel, i).chan = Channel
         /\ StreamMessage(1, type, Channel, i).form = "whole"
         /\ StreamMessage(1, type, Channel, i).sid = i
BY DEF StreamMessage, Message

LEMMA CwIs ==
  ASSUME NEW i
  PROVE  /\ CwOf(i).ver = 1 /\ CwOf(i).type = "cw" /\ CwOf(i).chan = Channel
         /\ CwOf(i).form = "whole" /\ CwOf(i).sid = i
         /\ CwProblem(CwOf(i)) = 0
<1> DEFINE w == [k \in 1 .. 2 |-> [len |-> 10, cp |-> (255 + k - (2 - 1)) % 65536]]
<1>1. /\ CwOf(i).ver = 1 /\ CwOf(i).type = "cw" /\ CwOf(i).chan = Channel
      /\ CwOf(i).form = "whole" /\ CwOf(i).sid = i /\ CwOf(i).encrypt = FALSE
      /\ CwOf(i).combs = w
  BY DEF CwOf, StreamMessage, Message
<1>2. /\ Len(w) = 2
      /\ w[1].len = 10 /\ w[2].len = 10 /\ w[1].cp = 255 /\ w[2].cp = 256
  OBVIOUS
<1> HIDE DEF w
<1>3. CwProblem(CwOf(i)) = 0
  <2>1. 255 % 2 # 256 % 2
    OBVIOUS
  <2>2. ~ \E k \in 1 .. 2 : w[k].len # CwLength
    BY <1>2 DEF CwLength
  <2> QED
    BY <1>1, <1>2, <2>1, <2>2 DEF CwProblem
<1> QED
  BY <1>1, <1>3

LEMMA ChannelMessageIs ==
  /\ LET m == Request
     IN  m.ver = 1 /\ m.type = "channel_setup" /\ m.chan = Channel /\ m.form = "whole"
  /\ LET m == Probe
     IN  m.ver = 1 /\ m.type = "channel_test" /\ m.chan = Channel /\ m.form = "whole"
  /\ LET m == Status(1, Channel)
     IN  /\ m.ver = 1 /\ m.type = "channel_status" /\ m.chan = Channel /\ m.form = "whole"
         /\ m.nbCw = 2 /\ m.lead = 1
BY DEF Request, Probe, Status, Message, CwPerMsg, LeadCw

(* The client has nothing to say to what the server writes. *)
LEMMA ClientContent ==
  ASSUME NEW m \in ForClient, c_init => m = Status(1, Channel), Open \subseteq DOMAIN c_streams
  PROVE  Client!Refusal(m) = 0 /\ Client!Answer(m) = <<>> /\ m.form # "empty"
<1>1. /\ m.ver = 1 /\ m.form = "whole" /\ m.chan = Channel
      /\ m.type \in {"channel_status", "channel_test", "stream_status", "ecm"}
      /\ m.type \in {"stream_status", "ecm"} => m.sid \in Open
      /\ c_init => m.type = "channel_status"
  <2>1. CASE m \in {Status(1, Channel), Probe}
    BY <2>1, ChannelMessageIs
  <2>2. CASE \E i \in Open : m = StatusOf(i)
    <3>1. PICK i \in Open : m = StreamMessage(1, "stream_status", Channel, i)
      BY <2>2 DEF StatusOf
    <3>2. /\ m.ver = 1 /\ m.type = "stream_status" /\ m.chan = Channel /\ m.form = "whole"
          /\ m.sid = i
      BY ONLY <3>1, StreamMessageIs
    <3>3. Status(1, Channel).type = "channel_status"
      BY ChannelMessageIs
    <3> QED
      BY <3>2, <3>3
  <2>3. CASE \E i \in Open : m = EcmOf(i)
    <3>1. PICK i \in Open : m = StreamMessage(1, "ecm", Channel, i)
      BY <2>3 DEF EcmOf
    <3>2. /\ m.ver = 1 /\ m.type = "ecm" /\ m.chan = Channel /\ m.form = "whole"
          /\ m.sid = i
      BY ONLY <3>1, StreamMessageIs
    <3>3. Status(1, Channel).type = "channel_status"
      BY ChannelMessageIs
    <3> QED
      BY <3>2, <3>3
  <2> QED
    BY <2>1, <2>2, <2>3 DEF ForClient
<1>2. Client!Refusal(m) = 0
  BY <1>1 DEF Client!Refusal, Client!Version
<1>3. m.type \in Client!Handled
  BY <1>1 DEF Client!Handled, Client!FromServer
<1>4. Client!Answer(m) = <<>>
  BY <1>1, <1>2, <1>3 DEF Client!Answer, Client!Known
<1> QED
  BY <1>1, <1>2, <1>4

(* The client sends control words only as the server wants them.           *)
LEMMA CwForIs ==
  ASSUME c_nbCw' = 2, c_lead' = 1, NEW i
  PROVE  Client!CwFor(i) = CwOf(i)
BY ClientMessages DEF Client!CwFor, CwOf, Client!Version, Client!CpNumber

-----------------------------------------------------------------------------
(* The client's steps.                                                     *)

(* Streams that stay as they are leave the messages about them as they are. *)
LEMMA OpenStays ==
  ASSUME streams' = streams
  PROVE  Open' = Open /\ ForServer' = ForServer /\ ForClient' = ForClient
BY DEF Open, ForServer, ForClient

LEMMA UpDown ==
  ASSUME Talking
  PROVE  /\ \A type, sid :
              CountOf(type, sid, Up) = CountOf(type, sid, c2s) + CountOf(type, sid, c_out)
         /\ \A type, sid :
              CountOf(type, sid, Down) = CountOf(type, sid, s2c) + CountOf(type, sid, out)
         /\ \A type, sid : /\ CountOf(type, sid, c2s) \in Nat /\ CountOf(type, sid, c_out) \in Nat
                           /\ CountOf(type, sid, s2c) \in Nat /\ CountOf(type, sid, out) \in Nat
         /\ out \in Seq(ForClient)
<1>1. /\ c2s \in Seq(ForServer) /\ c_out \in Seq(ForServer)
      /\ s2c \in Seq(ForClient)
  BY DEF Talking
<1>2. out \in Seq(ForClient)
  <2>1. CASE out = <<>>
    BY <2>1
  <2>2. CASE \E m \in ForClient : out = <<m>>
    BY <2>2
  <2> QED
    BY <2>1, <2>2 DEF Talking
<1> QED
  BY <1>1, <1>2, CountOfBoth DEF Up, Down

(* What an iteration of the client sends, when the streams are confirmed   *)
(* as given.                                                               *)
Sendable(confirmed) ==
  {SetupOf(i) : i \in 1 .. Wanted} \cup {CwOf(i) : i \in {j \in DOMAIN confirmed : confirmed[j]}}

LEMMA IterationSends ==
  ASSUME NEW confirmed \in Seq(BOOLEAN), Len(confirmed) <= Wanted, lag \in Nat,
         Client!EndIteration(<<>>, confirmed), c_nbCw' = 2, c_lead' = 1
  PROVE  /\ c_out' \in Seq(Sendable(confirmed))
         /\ Len(c_out') = (IF Len(confirmed) < Wanted THEN 1 ELSE 0)
                            + Cardinality(Client!Turns(confirmed))
         /\ \A i \in 1 .. Wanted :
              CountOf("stream_setup", i, c_out') = IF i = Len(confirmed) + 1 THEN 1 ELSE 0
<1> DEFINE setups == Client!Setups(confirmed)
           due == Client!Due(confirmed)
           T == Client!Turns(confirmed)
           n == Len(confirmed) + 1
<1>1. Len(confirmed) \in Nat /\ Wanted \in Nat
  BY ClientAssumption
<1>2. c_out' = <<>> \o setups \o due
  BY DEF Client!EndIteration
<1>3. setups \in Seq(Sendable(confirmed))
  <2>1. setups = IF Len(confirmed) < Wanted THEN <<SetupOf(n)>> ELSE <<>>
    BY ClientMessages DEF Client!Setups, SetupOf, Client!Version
  <2>2. Len(confirmed) < Wanted => SetupOf(n) \in Sendable(confirmed)
    BY <1>1 DEF Sendable
  <2> HIDE DEF setups, n
  <2> QED
    BY <2>1, <2>2
<1>4. /\ DOMAIN due = 1 .. Cardinality(T) /\ Cardinality(T) \in Nat
      /\ due \in Seq({due[r] : r \in 1 .. Cardinality(T)})
      /\ \A r \in 1 .. Cardinality(T) : \E t \in T : due[r] = Client!CwFor(t[2])
  BY DueAtTurns
<1>5. \A t \in T : t[2] \in {j \in DOMAIN confirmed : confirmed[j]}
  BY DEF Client!Turns
<1> HIDE DEF due, T
<1>6. \A r \in 1 .. Cardinality(T) :
        \E i \in {j \in DOMAIN confirmed : confirmed[j]} : due[r] = CwOf(i)
  BY <1>4, <1>5, CwForIs
<1>7. due \in Seq(Sendable(confirmed))
  <2>1. {due[r] : r \in 1 .. Cardinality(T)} \subseteq Sendable(confirmed)
    BY <1>6 DEF Sendable
  <2> QED
    BY <1>4, <2>1, SeqMonotonic
<1>8. \A i : CountOf("stream_setup", i, due) = 0
  <2> SUFFICES ASSUME NEW i
               PROVE  CountOf("stream_setup", i, due) = 0
    OBVIOUS
  <2>1. \A r \in DOMAIN due : due[r].type = "cw"
    BY <1>4, <1>6, CwIs
  <2> QED
    BY <2>1, CountOfOther
<1>9. \A i \in 1 .. Wanted : CountOf("stream_setup", i, setups) = IF i = n THEN 1 ELSE 0
  <2> SUFFICES ASSUME NEW i \in 1 .. Wanted
               PROVE  CountOf("stream_setup", i, setups) = IF i = n THEN 1 ELSE 0
    OBVIOUS
  <2>1. setups = IF Len(confirmed) < Wanted THEN <<SetupOf(n)>> ELSE <<>>
    BY ClientMessages DEF Client!Setups, SetupOf, Client!Version
  <2>2. SetupOf(n).type = "stream_setup" /\ SetupOf(n).sid = n
    BY StreamMessageIs DEF SetupOf
  <2>3. i = n => Len(confirmed) < Wanted
    BY <1>1
  <2> HIDE DEF setups, n
  <2>4. CountOf("stream_setup", i, <<SetupOf(n)>>) = IF i = n THEN 1 ELSE 0
    BY <2>2, CountOfOne
  <2> QED
    BY <2>1, <2>3, <2>4, CountOfNone
<1> HIDE DEF setups, n
<1>10. c_out' = setups \o due
  <2>1. <<>> \o setups = setups
    BY <1>3, ConcatEmptySeq
  <2> QED
    BY <1>2, <2>1
<1>11. /\ setups \o due \in Seq(Sendable(confirmed))
       /\ \A i : CountOf("stream_setup", i, setups \o due) =
                   CountOf("stream_setup", i, setups) + CountOf("stream_setup", i, due)
       /\ \A i : CountOf("stream_setup", i, setups) \in Nat
  BY <1>3, <1>7, ConcatProperties, CountOfBoth
<1>12. \A i \in 1 .. Wanted : CountOf("stream_setup", i, c_out') = IF i = n THEN 1 ELSE 0
  BY <1>8, <1>9, <1>10, <1>11
<1>13. Len(c_out') = (IF Len(confirmed) < Wanted THEN 1 ELSE 0) + Cardinality(T)
  <2>1. Len(setups \o due) = Len(setups) + Len(due)
    BY <1>3, <1>7, ConcatProperties
  <2>2. Len(setups) = IF Len(confirmed) < Wanted THEN 1 ELSE 0
    BY ClientMessages DEF setups, Client!Setups
  <2>3. Len(due) = Cardinality(T)
    BY <1>4, <1>7
  <2> QED
    BY <1>10, <2>1, <2>2, <2>3
<1> QED
  BY <1>10, <1>11, <1>12, <1>13 DEF n, T

LEMMA IterationKeepsPairInv ==
  ASSUME PairInv, ClientInv', ~ b_init, c_out = <<>>,
         NEW confirmed \in Seq(BOOLEAN), DOMAIN confirmed = DOMAIN c_streams,
         \A i \in DOMAIN confirmed : confirmed[i] => i \in Open,
         Client!EndIteration(<<>>, confirmed),
         ~ c_init', c_nbCw' = 2, c_lead' = 1, s2c' \in Seq(ForClient),
         \A i \in 1 .. Wanted :
           CountOf("stream_status", i, s2c' \o out) = IF i \in Open /\ ~ confirmed[i] THEN 1 ELSE 0,
         UNCHANGED <<vars, c2s>>
  PROVE  PairInv'
<1>1. Open' = Open /\ ForServer' = ForServer /\ ForClient' = ForClient /\ streams' = streams
  BY OpenStays DEF vars
<1>2. /\ c_streams \in Seq(BOOLEAN) /\ Len(c_streams) <= Wanted /\ lag \in Nat
      /\ Open \subseteq DOMAIN c_streams /\ streams \in Seq(Entry)
      /\ Wanted \in Nat /\ Talking
  BY ClientAssumption DEF PairInv, StreamsInv, ClientInv, ChannelInv
<1>3. Len(confirmed) = Len(c_streams) /\ Len(c_streams) \in Nat
      /\ DOMAIN c_streams = 1 .. Len(c_streams)
  <2>1. /\ DOMAIN confirmed = 1 .. Len(confirmed) /\ DOMAIN c_streams = 1 .. Len(c_streams)
        /\ Len(confirmed) \in Nat /\ Len(c_streams) \in Nat
    BY <1>2
  <2>2. PICK a \in Nat, b \in Nat : a = Len(confirmed) /\ b = Len(c_streams) /\ 1 .. a = 1 .. b
    BY <2>1
  <2>3. a = b
    <3>1. ~ (a < b)
      <4>1. a < b => b \in 1 .. b /\ b \notin 1 .. a
        OBVIOUS
      <4> QED
        BY <2>2, <4>1
    <3>2. ~ (b < a)
      <4>1. b < a => a \in 1 .. a /\ a \notin 1 .. b
        OBVIOUS
      <4> QED
        BY <2>2, <4>1
    <3> QED
      BY <3>1, <3>2
  <2> QED
    BY <2>1, <2>2, <2>3
<1>4. /\ c_out' \in Seq(ForServer)
      /\ \A i \in 1 .. Wanted :
           CountOf("stream_setup", i, c_out') = IF i = Len(c_streams) + 1 THEN 1 ELSE 0
  <2>1. Sendable(confirmed) \subseteq ForServer
    BY DEF Sendable, ForServer
  <2> QED
    BY <1>2, <1>3, <2>1, IterationSends, SeqMonotonic
<1>5. c_streams' = Client!Extended(confirmed)
  BY DEF Client!EndIteration
<1>6. /\ c_streams' \in Seq(BOOLEAN)
      /\ \A i : i \in DOMAIN c_streams' /\ c_streams'[i] <=> i \in DOMAIN confirmed /\ confirmed[i]
  BY <1>5, ExtendedKeeps
<1>7. /\ Len(c_streams') = IF Len(c_streams) < Wanted THEN Len(c_streams) + 1 ELSE Len(c_streams)
      /\ DOMAIN c_streams' = 1 .. Len(c_streams')
  <2>1. Client!Extended(confirmed) = IF Len(c_streams) < Wanted THEN Append(confirmed, FALSE) ELSE confirmed
    BY <1>3 DEF Client!Extended
  <2> QED
    BY <1>3, <1>5, <1>6, <2>1
<1>8. StreamsInv'
  <2>1. Len(c_streams') <= Wanted
    BY <1>2, <1>3, <1>7
  <2>2. DOMAIN c_streams \subseteq DOMAIN c_streams'
    BY <1>2, <1>3, <1>7
  <2> QED
    BY <1>1, <1>2, <1>6, <2>1, <2>2 DEF StreamsInv, Entry, Stream
<1>9. ChannelInv'
  <2>1. Talking'
    BY <1>1, <1>2, <1>4 DEF Talking, vars
  <2> QED
    BY <2>1 DEF ChannelInv, vars
<1>10. SetupsInv'
  <2> SUFFICES ASSUME NEW i \in 1 .. Wanted
               PROVE  CountOf("stream_setup", i, Up') = IF i \in DOMAIN c_streams' \ Open THEN 1 ELSE 0
    BY <1>1 DEF SetupsInv
  <2>1. CountOf("stream_setup", i, Up') = CountOf("stream_setup", i, c2s) + CountOf("stream_setup", i, c_out')
    <3>1. c2s \in Seq(ForServer) /\ c_out' \in Seq(ForServer)
      BY <1>2, <1>4 DEF Talking
    <3> QED
      BY <3>1, CountOfBoth DEF Up
  <2>2. CountOf("stream_setup", i, c2s) = IF i \in DOMAIN c_streams \ Open THEN 1 ELSE 0
    <3>1. CountOf("stream_setup", i, Up) = CountOf("stream_setup", i, c2s) + 0
      BY <1>2, UpDown, CountOfNone
    <3>2. CountOf("stream_setup", i, c2s) \in Nat
      BY <1>2, UpDown
    <3> QED
      BY <3>1, <3>2 DEF PairInv, SetupsInv
  <2>3. CountOf("stream_setup", i, c_out') = IF i = Len(c_streams) + 1 THEN 1 ELSE 0
    BY <1>4
  <2>4. i \in DOMAIN c_streams' <=> i \in DOMAIN c_streams \/ i = Len(c_streams) + 1
    BY <1>2, <1>3, <1>7
  <2>5. Len(c_streams) + 1 \notin DOMAIN c_streams
    BY <1>3
  <2> QED
    BY <1>2, <2>1, <2>2, <2>3, <2>4, <2>5
<1>11. StatusInv'
  <2>1. Down' = s2c' \o out
    BY DEF Down, vars
  <2>2. \A i \in Open : c_streams'[i] <=> confirmed[i]
    <3>1. \A i \in Open : i \in DOMAIN c_streams /\ i \in DOMAIN c_streams'
      BY <1>2, <1>3, <1>7
    <3> QED
      BY <1>6, <3>1
  <2> QED
    BY <1>1, <2>1, <2>2 DEF StatusInv
<1> QED
  BY <1>8, <1>9, <1>10, <1>11 DEF PairInv

(* What is common to all the messages that the client reads.               *)
LEMMA ClientReads ==
  ASSUME PairInv, c_running, c_out = <<>>, s2c # <<>>
  PROVE  /\ ~ b_init /\ Talking
         /\ Head(s2c) \in ForClient /\ Tail(s2c) \in Seq(ForClient)
         /\ c_init => Head(s2c) = Status(1, Channel)
         /\ Open \subseteq DOMAIN c_streams
         /\ \A i \in 1 .. Wanted :
              CountOf("stream_status", i, Tail(s2c) \o out) =
                CountOf("stream_status", i, Down)
                  - (IF Head(s2c).type = "stream_status" /\ Head(s2c).sid = i THEN 1 ELSE 0)
<1>1. ~ b_init /\ Talking
  BY DEF PairInv, ChannelInv, Asking
<1>2. s2c \in Seq(ForClient) /\ out \in Seq(ForClient)
  BY <1>1, UpDown DEF Talking
<1>3. Head(s2c) \in ForClient /\ Tail(s2c) \in Seq(ForClient)
  BY <1>2, HeadTailProperties
<1>4. c_init => Head(s2c) = Status(1, Channel)
  <2>1. Head(s2c \o out) = Head(s2c)
    BY <1>2
  <2> QED
    BY <1>1, <2>1 DEF Talking, Down
<1>5. Open \subseteq DOMAIN c_streams
  BY DEF PairInv, StreamsInv
<1>6. ASSUME NEW i \in 1 .. Wanted
      PROVE  CountOf("stream_status", i, Tail(s2c) \o out) =
               CountOf("stream_status", i, Down)
                 - (IF Head(s2c).type = "stream_status" /\ Head(s2c).sid = i THEN 1 ELSE 0)
  <2> DEFINE d == IF Head(s2c).type = "stream_status" /\ Head(s2c).sid = i THEN 1 ELSE 0
  <2>1. PICK a, b, c : /\ a \in Nat /\ a = CountOf("stream_status", i, s2c)
                      /\ b \in Nat /\ b = CountOf("stream_status", i, out)
                      /\ c = CountOf("stream_status", i, Tail(s2c))
    BY <1>1, UpDown
  <2>2. c = a - d
    BY <1>2, <2>1, CountOfTail
  <2>3. CountOf("stream_status", i, Tail(s2c) \o out) = c + b
    BY <1>2, <1>3, <2>1, CountOfBoth
  <2>4. CountOf("stream_status", i, Down) = a + b
    BY <1>1, <2>1, UpDown
  <2>5. d \in Int
    OBVIOUS
  <2> HIDE DEF d
  <2>6. c + b = (a + b) - d
    BY <2>1, <2>2, <2>5
  <2> QED
    BY <2>3, <2>4, <2>6 DEF d
<1> QED
  BY <1>1, <1>3, <1>4, <1>5, <1>6

LEMMA ClientReceiveKeepsPairInv ==
  ASSUME PairInv, ClientReceive
  PROVE  PairInv'
<1> DEFINE m == Head(s2c)
<1>0. /\ c_running /\ c_out = <<>> /\ s2c # <<>> /\ Client!Receive(m)
      /\ s2c' = Tail(s2c) /\ UNCHANGED <<vars, quiet, c2s>>
  BY DEF ClientReceive, Client!Ready
<1>1. ClientInv'
  BY <1>0, ReceiveKeepsClientInv DEF PairInv
<1>2. /\ ~ b_init /\ Talking /\ m \in ForClient /\ Tail(s2c) \in Seq(ForClient)
      /\ c_init => m = Status(1, Channel)
      /\ Open \subseteq DOMAIN c_streams
      /\ \A i \in 1 .. Wanted :
           CountOf("stream_status", i, Tail(s2c) \o out) =
             CountOf("stream_status", i, Down)
               - (IF m.type = "stream_status" /\ m.sid = i THEN 1 ELSE 0)
  BY <1>0, ClientReads
<1>3. Client!Refusal(m) = 0 /\ Client!Answer(m) = <<>> /\ m.form # "empty"
  BY <1>2, ClientContent
<1>4. /\ Open' = Open /\ ForServer' = ForServer /\ ForClient' = ForClient
      /\ UNCHANGED <<running, b_init, i_version, i_channelid, streams, out, c2s>>
  BY <1>0, OpenStays DEF vars
<1> HIDE DEF m
<1>5. \A i \in 1 .. Wanted :
        CountOf("stream_status", i, Down) = IF i \in Open /\ ~ c_streams[i] THEN 1 ELSE 0
  BY <1>0 DEF PairInv, StatusInv
<1>6. /\ c_streams \in Seq(BOOLEAN) /\ DOMAIN c_streams \subseteq 1 .. Wanted
      /\ \A i \in DOMAIN c_streams : c_streams[i] => i \in Open
  <2>1. c_streams \in Seq(BOOLEAN) /\ Len(c_streams) <= Wanted /\ Wanted \in Nat
    BY ClientAssumption DEF PairInv, StreamsInv
  <2>2. Len(c_streams) \in Nat /\ DOMAIN c_streams = 1 .. Len(c_streams)
    BY <2>1
  <2> QED
    BY <2>1, <2>2 DEF PairInv, StreamsInv
<1>7. CASE Client!GiveUp(m)
  <2>1. /\ c_running' = FALSE /\ c_out' = <<>>
        /\ UNCHANGED <<c_init, c_streams, c_nbCw, c_lead>>
    BY <1>3, <1>7 DEF Client!GiveUp
  <2>2. ChannelInv'
    <3>1. Talking'
      BY <1>0, <1>2, <1>4, <2>1 DEF Talking
    <3> QED
      BY <1>2, <1>4, <3>1 DEF ChannelInv
  <2>3. SetupsInv' /\ StatusInv' /\ StreamsInv'
    <3>1. Up' = Up
      BY <1>0, <1>4, <2>1 DEF Up
    <3> QED
      BY <1>4, <2>1, <3>1 DEF PairInv, SetupsInv, StatusInv, StreamsInv, Entry, Stream
  <2> QED
    BY <1>1, <2>2, <2>3 DEF PairInv
<1>8. ASSUME m.type # "stream_status", Client!EndIteration(<<>>, c_streams),
             ~ c_init', c_nbCw' = 2, c_lead' = 1
      PROVE  PairInv'
  <2>1. \A i \in 1 .. Wanted :
          CountOf("stream_status", i, s2c' \o out) = IF i \in Open /\ ~ c_streams[i] THEN 1 ELSE 0
    <3>1. \A i \in 1 .. Wanted :
            CountOf("stream_status", i, Tail(s2c) \o out) = CountOf("stream_status", i, Down) - 0
      BY <1>2, <1>8
    <3> QED
      BY <1>0, <1>5, <3>1
  <2> QED
    BY <1>0, <1>1, <1>2, <1>6, <1>8, <2>1, IterationKeepsPairInv
<1>9. CASE Client!ChannelConfirmed(m)
  <2>1. m = Status(1, Channel)
    BY <1>2, <1>9 DEF Client!ChannelConfirmed
  <2>2. m.type # "stream_status" /\ m.nbCw = 2 /\ m.lead = 1
    BY <2>1, ChannelMessageIs
  <2> QED
    BY <1>8, <1>9, <2>2 DEF Client!ChannelConfirmed
<1>10. ASSUME ~ c_init
       PROVE  c_nbCw = 2 /\ c_lead = 1
  BY <1>2, <1>10 DEF Talking
<1>11. CASE Client!StreamConfirmed(m)
  <2> DEFINE confirmed == [c_streams EXCEPT ![m.sid] = TRUE]
  <2>1. /\ m.type = "stream_status" /\ UNCHANGED <<c_init, c_nbCw, c_lead>>
        /\ Client!EndIteration(<<>>, confirmed)
    BY <1>11 DEF Client!StreamConfirmed
  <2>2. ~ c_init
    BY <1>2, <2>1, ChannelMessageIs
  <2>3. m.sid \in Open
    <3>1. Status(1, Channel).type # "stream_status" /\ Probe.type # "stream_status"
      BY ChannelMessageIs
    <3>2. \A i : StatusOf(i).sid = i /\ EcmOf(i).sid = i
      BY StreamMessageIs DEF StatusOf, EcmOf
    <3> QED
      BY <1>2, <2>1, <3>1, <3>2 DEF ForClient
  <2>4. /\ confirmed \in Seq(BOOLEAN) /\ DOMAIN confirmed = DOMAIN c_streams
        /\ \A i \in DOMAIN c_streams : confirmed[i] = IF i = m.sid THEN TRUE ELSE c_streams[i]
    BY <1>2, <1>6, <2>3
  <2> HIDE DEF confirmed
  <2>5. \A i \in 1 .. Wanted :
          CountOf("stream_status", i, s2c' \o out) = IF i \in Open /\ ~ confirmed[i] THEN 1 ELSE 0
    <3> SUFFICES ASSUME NEW i \in 1 .. Wanted
                 PROVE  CountOf("stream_status", i, s2c' \o out) = IF i \in Open /\ ~ confirmed[i] THEN 1 ELSE 0
      OBVIOUS
    <3>1. CountOf("stream_status", i, s2c' \o out) =
            CountOf("stream_status", i, Down) - (IF m.sid = i THEN 1 ELSE 0)
      BY <1>0, <1>2, <2>1
    <3>2. CountOf("stream_status", i, Down) = IF i \in Open /\ ~ c_streams[i] THEN 1 ELSE 0
      BY <1>5
    <3>3. CountOf("stream_status", i, s2c' \o out) \in Nat
      BY <1>0, <1>2, UpDown, CountOfBoth, ConcatProperties
    <3>4. PICK d \in Int, c \in Nat : /\ d = CountOf("stream_status", i, Down)
                                     /\ c = CountOf("stream_status", i, s2c' \o out)
      BY <3>2, <3>3
    <3>5. CASE m.sid = i
      <4>1. i \in Open /\ i \in DOMAIN c_streams /\ confirmed[i]
        BY <1>2, <2>3, <2>4, <3>5
      <4>2. c = d - 1 /\ d \in {0, 1}
        BY <3>1, <3>2, <3>4, <3>5
      <4>3. c = 0
        BY ONLY <3>4, <4>2
      <4> QED
        BY <3>4, <4>1, <4>3
    <3>6. CASE m.sid # i
      <4>1. c = d - 0
        BY <3>1, <3>4, <3>6
      <4>2. c = d
        BY ONLY <3>4, <4>1
      <4>3. i \in Open => (confirmed[i] <=> c_streams[i])
        BY <1>2, <1>6, <2>4, <3>6
      <4> QED
        BY <3>2, <3>4, <4>2, <4>3
    <3> QED
      BY <3>5, <3>6
  <2>6. \A i \in DOMAIN confirmed : confirmed[i] => i \in Open
    BY <1>6, <2>3, <2>4
  <2> QED
    BY <1>0, <1>1, <1>2, <1>10, <2>1, <2>2, <2>4, <2>5, <2>6, IterationKeepsPairInv
<1>12. CASE Client!OtherMessage(m)
  <2>1. /\ m.type # "stream_status" /\ ~ (m.type = "channel_status" /\ c_init)
        /\ UNCHANGED <<c_init, c_nbCw, c_lead>> /\ Client!EndIteration(<<>>, c_streams)
    BY <1>3, <1>12 DEF Client!OtherMessage
  <2>2. ~ c_init
    BY <1>2, <2>1, ChannelMessageIs
  <2> QED
    BY <1>8, <1>10, <2>1, <2>2
<1> QED
  BY <1>0, <1>7, <1>9, <1>11, <1>12 DEF Client!Receive

LEMMA ClientNoPacketKeepsPairInv ==
  ASSUME PairInv, ClientNoPacket
  PROVE  PairInv'
<1>1. /\ c_running /\ c_out = <<>> /\ s2c = <<>> /\ Client!NoPacket
      /\ UNCHANGED <<vars, quiet, c2s, s2c>>
  BY DEF ClientNoPacket, Client!Ready
<1>2. /\ ~ c_init /\ UNCHANGED <<c_init, c_nbCw, c_lead, i_period>>
      /\ Client!EndIteration(<<>>, c_streams)
  BY <1>1 DEF Client!NoPacket
<1>3. ~ b_init /\ Talking
  BY <1>2 DEF PairInv, ChannelInv, Asking
<1>4. c_streams \in Seq(BOOLEAN) /\ \A i \in DOMAIN c_streams : c_streams[i] => i \in Open
  BY DEF PairInv, StreamsInv
<1>5. ClientInv'
  <2>1. NoCw(<<>>)
    BY DEF NoCw
  <2> QED
    BY <1>2, <1>4, <2>1, IterationKeepsClientInv DEF PairInv
<1>6. \A i \in 1 .. Wanted :
        CountOf("stream_status", i, s2c' \o out) = IF i \in Open /\ ~ c_streams[i] THEN 1 ELSE 0
  BY <1>1 DEF PairInv, StatusInv, Down
<1>7. c_nbCw' = 2 /\ c_lead' = 1 /\ s2c' \in Seq(ForClient)
  BY <1>1, <1>2, <1>3 DEF Talking
<1> QED
  BY <1>1, <1>2, <1>3, <1>4, <1>5, <1>6, <1>7, IterationKeepsPairInv

LEMMA ClientWriteKeepsPairInv ==
  ASSUME PairInv, ClientWrite
  PROVE  PairInv'
<1>1. /\ c_out # <<>> /\ c_out' = Tail(c_out) /\ c2s' = Append(c2s, Head(c_out))
      /\ UNCHANGED <<i_period, c_running, c_init, c_streams, c_nbCw, c_lead, turn, lag, balance>>
      /\ UNCHANGED <<running, b_init, i_version, i_channelid, streams, out, s2c>>
  BY DEF ClientWrite, Client!Write, vars
<1>2. Open' = Open /\ ForServer' = ForServer /\ ForClient' = ForClient
  BY <1>1, OpenStays
<1>3. ClientInv'
  BY <1>1, OthersKeepClientInv DEF PairInv, ClientInv
<1>4. CASE b_init
  <2>1. c_out = <<Request>> /\ c2s = <<>>
    BY <1>1, <1>4 DEF PairInv, ChannelInv, Asking
  <2>2. c_out' = <<>> /\ c2s' = <<Request>>
    BY <1>1, <2>1
  <2>3. ChannelInv'
    BY <1>1, <1>4, <2>2 DEF PairInv, ChannelInv, Asking, Request
  <2>4. Up' = Up /\ Down' = Down
    <3>1. <<>> \o <<Request>> = <<Request>> \o <<>>
      OBVIOUS
    <3> QED
      BY <1>1, <2>1, <2>2, <3>1 DEF Up, Down
  <2> QED
    BY <1>1, <1>2, <1>3, <2>3, <2>4 DEF PairInv, StreamsInv, SetupsInv, StatusInv, Entry, Stream
<1>5. CASE ~ b_init
  <2>1. Talking /\ c2s \in Seq(ForServer) /\ c_out \in Seq(ForServer)
    BY <1>5 DEF PairInv, ChannelInv, Talking
  <2>2. c2s' \in Seq(ForServer) /\ c_out' \in Seq(ForServer) /\ Up' = Up
    BY <1>1, <2>1, MovedAlong DEF Up
  <2>3. Down' = Down
    BY <1>1 DEF Down
  <2>4. ChannelInv'
    BY <1>1, <1>2, <1>5, <2>1, <2>2, <2>3 DEF ChannelInv, Talking
  <2> QED
    BY <1>1, <1>2, <1>3, <2>2, <2>3, <2>4 DEF PairInv, StreamsInv, SetupsInv, StatusInv, Entry, Stream
<1> QED
  BY <1>4, <1>5

-----------------------------------------------------------------------------
(* The server's steps.                                                     *)

(* Which handler takes a message that the client sends.                    *)

LEMMA RequestHandled ==
  ASSUME b_init, Handle(Request)
  PROVE  ChannelSetup(Request)
<1>1. PICK m : m = Request
  OBVIOUS
<1>2. m.ver = 1 /\ m.type = "channel_setup" /\ m.form = "whole"
  BY <1>1, ChannelMessageIs
<1>3. Refusal(m) = 0
  BY <1>2 DEF Refusal, LatestVersion, ToServer
<1> QED
  BY <1>1, <1>2, <1>3 DEF Handle, Refuse, Hangup, WrongChannel, NoSuchStream, Ignore, Here,
     ChannelTest, ChannelClose, StreamSetup, StreamSetupFails, StreamTest, StreamClose, Cw

LEMMA NothingRefused ==
  ASSUME ~ b_init, i_version = 1, NEW m, m.ver = 1, m.form = "whole", m.type \in ToServer
  PROVE  Refusal(m) = 0
BY DEF Refusal, ToServer

LEMMA SetupHandled ==
  ASSUME ~ b_init, i_version = 1, i_channelid = Channel, NEW i, i \notin Open, Handle(SetupOf(i))
  PROVE  StreamSetup(SetupOf(i))
<1>1. PICK m : m = SetupOf(i)
  OBVIOUS
<1>2. m.ver = 1 /\ m.type = "stream_setup" /\ m.chan = Channel /\ m.form = "whole" /\ m.sid = i
  BY <1>1, StreamMessageIs DEF SetupOf
<1>3. Refusal(m) = 0
  BY <1>2, NothingRefused DEF ToServer
<1>4. SlotsOf(m.sid) = {}
  BY <1>2, OpenIsFound
<1> QED
  BY <1>1, <1>2, <1>3, <1>4 DEF Handle, Refuse, Hangup, WrongChannel, NoSuchStream, Ignore, Here,
     ChannelSetup, ChannelTest, ChannelClose, StreamSetupFails, StreamTest, StreamClose, Cw

LEMMA CwHandled ==
  ASSUME ~ b_init, i_version = 1, i_channelid = Channel, NEW i \in Open, Handle(CwOf(i))
  PROVE  Cw(CwOf(i))
<1>1. PICK m : m = CwOf(i)
  OBVIOUS
<1>2. m.ver = 1 /\ m.type = "cw" /\ m.chan = Channel /\ m.form = "whole" /\ m.sid = i
  BY <1>1, CwIs
<1>3. Refusal(m) = 0
  BY <1>2, NothingRefused DEF ToServer
<1>4. SlotsOf(m.sid) # {}
  BY <1>2, OpenIsFound
<1> QED
  BY <1>1, <1>2, <1>3, <1>4 DEF Handle, Refuse, Hangup, WrongChannel, NoSuchStream, Ignore, Here,
     ChannelSetup, ChannelTest, ChannelClose, StreamSetup, StreamSetupFails, StreamTest, StreamClose

(* What is common to all the messages that the server reads.               *)
LEMMA ServerReads ==
  ASSUME PairInv, ~ b_init, c2s # <<>>
  PROVE  /\ Talking /\ Head(c2s) \in ForServer /\ Tail(c2s) \in Seq(ForServer)
         /\ \A i \in 1 .. Wanted :
              /\ CountOf("stream_setup", i, Tail(c2s) \o c_out) \in Nat
              /\ CountOf("stream_setup", i, Tail(c2s) \o c_out) =
                   CountOf("stream_setup", i, Up)
                     - (IF Head(c2s).type = "stream_setup" /\ Head(c2s).sid = i THEN 1 ELSE 0)
<1>1. Talking /\ c2s \in Seq(ForServer) /\ c_out \in Seq(ForServer)
  BY DEF PairInv, ChannelInv, Talking
<1>2. Head(c2s) \in ForServer /\ Tail(c2s) \in Seq(ForServer)
  BY <1>1, HeadTailProperties
<1>3. ASSUME NEW i \in 1 .. Wanted
      PROVE  /\ CountOf("stream_setup", i, Tail(c2s) \o c_out) \in Nat
             /\ CountOf("stream_setup", i, Tail(c2s) \o c_out) =
                  CountOf("stream_setup", i, Up)
                    - (IF Head(c2s).type = "stream_setup" /\ Head(c2s).sid = i THEN 1 ELSE 0)
  <2> DEFINE d == IF Head(c2s).type = "stream_setup" /\ Head(c2s).sid = i THEN 1 ELSE 0
  <2>1. PICK a, b, c : /\ a \in Nat /\ a = CountOf("stream_setup", i, c2s)
                      /\ b \in Nat /\ b = CountOf("stream_setup", i, c_out)
                      /\ c = CountOf("stream_setup", i, Tail(c2s))
    BY <1>1, UpDown
  <2>2. c = a - d
    BY <1>1, <2>1, CountOfTail
  <2>3. c \in Nat
    BY <1>2, <2>1, CountOfBoth
  <2>4. CountOf("stream_setup", i, Tail(c2s) \o c_out) = c + b
    BY <1>1, <1>2, <2>1, CountOfBoth
  <2>5. CountOf("stream_setup", i, Up) = a + b
    BY <1>1, <2>1, UpDown
  <2>6. d \in Int
    OBVIOUS
  <2> HIDE DEF d
  <2>7. c + b = (a + b) - d /\ c + b \in Nat
    BY <2>1, <2>2, <2>3, <2>6
  <2> QED
    BY <2>4, <2>5, <2>7 DEF d
<1> QED
  BY <1>1, <1>2, <1>3

(* With one more stream open, or none, there is no less that may be said.  *)
LEMMA MoreMaySay ==
  ASSUME Open \subseteq Open'
  PROVE  ForServer \subseteq ForServer' /\ ForClient \subseteq ForClient'
BY DEF ForServer, ForClient

(* The server answers, and all else stays.                                 *)
LEMMA AnswerKeepsPairInv ==
  ASSUME PairInv, ~ b_init, out = <<>>, NEW m, out' = <<m>>, m \in ForClient',
         Open \subseteq Open', c2s' \in Seq(ForServer),
         ~ c_init \/ ~ c_running,
         UNCHANGED <<clientVars, s2c, b_init, i_version, i_channelid>>
  PROVE  /\ ClientInv' /\ ChannelInv'
         /\ \A i \in 1 .. Wanted :
              CountOf("stream_status", i, Down') =
                CountOf("stream_status", i, Down)
                  + (IF m.type = "stream_status" /\ m.sid = i THEN 1 ELSE 0)
<1>1. Talking
  BY DEF PairInv, ChannelInv
<1>2. /\ c2s' \in Seq(ForServer') /\ c_out \in Seq(ForServer') /\ s2c \in Seq(ForClient')
  BY <1>1, MoreMaySay, SeqMonotonic DEF Talking
<1>3. ClientInv'
  BY OthersKeepClientInv DEF PairInv, ClientInv, clientVars
<1>4. Talking'
  BY <1>1, <1>2 DEF Talking, clientVars
<1>5. ASSUME NEW i \in 1 .. Wanted
      PROVE  CountOf("stream_status", i, Down') =
               CountOf("stream_status", i, Down)
                 + (IF m.type = "stream_status" /\ m.sid = i THEN 1 ELSE 0)
  <2>1. s2c \in Seq(ForClient') /\ <<m>> \in Seq(ForClient') /\ Down' = s2c \o <<m>>
    BY <1>2 DEF Down
  <2>2. CountOf("stream_status", i, Down') =
          CountOf("stream_status", i, s2c) + CountOf("stream_status", i, <<m>>)
    <3>1. PICK C : C = ForClient'
      OBVIOUS
    <3> QED
      BY <2>1, <3>1, CountOfBoth
  <2>3. Down = s2c
    BY <1>1 DEF Down, Talking
  <2> QED
    BY <2>2, <2>3, CountOfOne
<1> QED
  BY <1>3, <1>4, <1>5 DEF ChannelInv

(* The server opens the channel. *)
LEMMA ChannelSetupKeepsPairInv ==
  ASSUME PairInv, b_init, ServerReceive
  PROVE  PairInv'
<1>1. /\ Asking /\ c2s # <<>> /\ Handle(Head(c2s)) /\ c2s' = Tail(c2s)
      /\ UNCHANGED <<clientVars, s2c>>
  BY DEF PairInv, ChannelInv, ServerReceive
<1>2. c2s = <<Request>> /\ c_out = <<>>
  BY <1>1 DEF Asking
<1>3. Head(c2s) = Request /\ c2s' = <<>>
  BY <1>1, <1>2
<1>4. ChannelSetup(Request)
  BY <1>1, <1>3, RequestHandled
<1>5. /\ ~ b_init' /\ i_version' = 1 /\ i_channelid' = Channel
      /\ out' = <<Status(1, Channel)>> /\ streams' = streams
  BY <1>4, ChannelMessageIs DEF ChannelSetup
<1>6. Open = {} /\ Open' = {}
  BY <1>1, <1>5 DEF Asking, Open
<1>7. /\ c_init' /\ c_running' /\ c_streams' = <<>> /\ s2c' = <<>> /\ c_out' = <<>>
  BY <1>1, <1>2 DEF Asking, clientVars
<1>8. ClientInv'
  BY <1>1, OthersKeepClientInv DEF PairInv, ClientInv, clientVars
<1>9. Down' = <<Status(1, Channel)>> /\ Up' = <<>>
  BY <1>3, <1>5, <1>7 DEF Down, Up
<1>10. ChannelInv'
  <2>1. Status(1, Channel) \in ForClient'
    <3>1. PICK z : z = Status(1, Channel) /\ z = Status(1, Channel)'
      BY DEF Status, Message
    <3> QED
      BY <3>1 DEF ForClient
  <2>2. Down' # <<>> /\ Head(Down') = Status(1, Channel)
    BY <1>9
  <2>3. Status(1, Channel)' = Status(1, Channel)
    BY DEF Status, Message
  <2>4. Talking'
    BY <1>3, <1>5, <1>7, <2>1, <2>2, <2>3 DEF Talking
  <2> QED
    BY <1>5, <2>4 DEF ChannelInv
<1>11. StreamsInv'
  <2>1. Len(<<>>) <= Wanted
    BY ClientAssumption
  <2> QED
    BY <1>1, <1>5, <1>6, <1>7, <2>1 DEF PairInv, StreamsInv, Asking, Entry, Stream
<1>12. SetupsInv' /\ StatusInv'
  <2>1. \A i : CountOf("stream_setup", i, Up') = 0
    BY <1>9, CountOfNone
  <2>2. \A i : CountOf("stream_status", i, Down') = 0
    BY <1>9, CountOfOne, ChannelMessageIs
  <2> QED
    BY <1>6, <1>7, <2>1, <2>2 DEF SetupsInv, StatusInv
<1> QED
  BY <1>8, <1>10, <1>11, <1>12 DEF PairInv

(* What the server makes of the setup of a stream. *)
LEMMA SetupAnswered ==
  ASSUME PairInv, ~ b_init, ServerReceive, NEW i \in 1 .. Wanted, Head(c2s) = SetupOf(i)
  PROVE  /\ i \in DOMAIN c_streams /\ i \notin Open
         /\ streams' = Stored([sid |-> i, ecmid |-> 0]) /\ out' = <<StatusOf(i)>>
         /\ UNCHANGED <<running, b_init, i_version, i_channelid>>
<1>1. /\ c2s # <<>> /\ out = <<>> /\ Handle(SetupOf(i)) /\ c2s' = Tail(c2s)
      /\ UNCHANGED <<clientVars, s2c>>
  BY DEF ServerReceive, Ready
<1>2. /\ Talking /\ Tail(c2s) \in Seq(ForServer)
      /\ \A j \in 1 .. Wanted :
           /\ CountOf("stream_setup", j, Tail(c2s) \o c_out) \in Nat
           /\ CountOf("stream_setup", j, Tail(c2s) \o c_out) =
                CountOf("stream_setup", j, Up)
                  - (IF Head(c2s).type = "stream_setup" /\ Head(c2s).sid = j THEN 1 ELSE 0)
  BY <1>1, ServerReads
<1>3. Head(c2s).type = "stream_setup" /\ Head(c2s).sid = i /\ SetupOf(i).sid = i
  BY StreamMessageIs DEF SetupOf
<1>4. \A j \in 1 .. Wanted :
        CountOf("stream_setup", j, Up) = IF j \in DOMAIN c_streams \ Open THEN 1 ELSE 0
  BY DEF PairInv, SetupsInv
<1>5. i \in DOMAIN c_streams /\ i \notin Open
  <2>1. CountOf("stream_setup", i, Up) - 1 \in Nat
    BY <1>2, <1>3
  <2>2. 0 - 1 \notin Nat
    OBVIOUS
  <2> QED
    BY <1>4, <2>1, <2>2
<1>6. i_version = 1 /\ i_channelid = Channel
  BY <1>2 DEF Talking
<1>7. StreamSetup(SetupOf(i))
  BY <1>1, <1>5, <1>6, SetupHandled
<1> DEFINE s == [sid |-> i, ecmid |-> 0]
<1>8. /\ streams' = Stored(s) /\ out' = <<StreamStatus(s)>>
      /\ UNCHANGED <<running, b_init, i_version, i_channelid>>
  <2>1. ~ (i_version >= 2)
    BY <1>6
  <2> QED
    BY <1>3, <1>7, <2>1 DEF StreamSetup
<1>9. s \in Stream /\ s.sid = i
  BY PipeAssumption DEF Stream
<1>10. StreamStatus(s) = StatusOf(i)
  <2>1. PICK r : r = StatusOf(i)
    OBVIOUS
  <2>2. r = [ver |-> 1, type |-> "stream_status", chan |-> Channel, form |-> "whole",
             sid |-> i, ecmid |-> 0, err |-> 0, max |-> 0, mindur |-> 0, nbCw |-> 0, lead |-> 0,
             encrypt |-> FALSE, combs |-> <<>>]
    BY <2>1 DEF StatusOf, StreamMessage, Message
  <2>3. StreamStatus(s) = [r EXCEPT !.ecmid = 0]
    <3>1. (IF i_version >= 2 THEN s.ecmid ELSE 0) = 0
      BY <1>6
    <3> QED
      BY <1>6, <1>9, <2>1, <3>1 DEF StreamStatus, StatusOf
  <2>4. [r EXCEPT !.ecmid = 0] = r
    <3>1. r = [x \in DOMAIN r |-> r[x]] /\ r["ecmid"] = 0
      BY <2>2
    <3>2. \A f : f = [x \in DOMAIN f |-> f[x]] /\ f["ecmid"] = 0 => [f EXCEPT !["ecmid"] = 0] = f
      OBVIOUS
    <3> QED
      BY <3>1, <3>2
  <2> QED
    BY <2>1, <2>3, <2>4
<1> QED
  BY <1>5, <1>8, <1>10

(* The server opens a stream. *)
LEMMA StreamSetupKeepsPairInv ==
  ASSUME PairInv, ~ b_init, ServerReceive, NEW i \in 1 .. Wanted, Head(c2s) = SetupOf(i)
  PROVE  PairInv'
<1>1. /\ c2s # <<>> /\ out = <<>> /\ Handle(SetupOf(i)) /\ c2s' = Tail(c2s)
      /\ UNCHANGED <<clientVars, s2c>>
  BY DEF ServerReceive, Ready
<1>2. /\ Talking /\ Tail(c2s) \in Seq(ForServer)
      /\ \A j \in 1 .. Wanted :
           /\ CountOf("stream_setup", j, Tail(c2s) \o c_out) \in Nat
           /\ CountOf("stream_setup", j, Tail(c2s) \o c_out) =
                CountOf("stream_setup", j, Up)
                  - (IF Head(c2s).type = "stream_setup" /\ Head(c2s).sid = j THEN 1 ELSE 0)
  BY <1>1, ServerReads
<1>3. Head(c2s).type = "stream_setup" /\ Head(c2s).sid = i /\ SetupOf(i).sid = i
  BY StreamMessageIs DEF SetupOf
<1>4. \A j \in 1 .. Wanted :
        CountOf("stream_setup", j, Up) = IF j \in DOMAIN c_streams \ Open THEN 1 ELSE 0
  BY DEF PairInv, SetupsInv
<1> DEFINE s == [sid |-> i, ecmid |-> 0]
<1>5. /\ i \in DOMAIN c_streams /\ i \notin Open
      /\ streams' = Stored(s) /\ out' = <<StatusOf(i)>>
      /\ UNCHANGED <<running, b_init, i_version, i_channelid>>
  BY SetupAnswered
<1>9. s \in Stream /\ s.sid = i
  BY PipeAssumption DEF Stream
<1> HIDE DEF s
<1>11. streams \in Seq(Entry)
  BY DEF PairInv, StreamsInv
<1>12. Open' = Open \cup {i} /\ streams' \in Seq(Entry)
  BY <1>5, <1>9, <1>11, StoredOpens, EnteredAt
<1>13. StatusOf(i) \in ForClient' /\ StatusOf(i).type = "stream_status" /\ StatusOf(i).sid = i
  <2>1. StatusOf(i)' = StatusOf(i)
    BY DEF StatusOf, StreamMessage, Message
  <2> QED
    BY <1>12, <2>1, StreamMessageIs DEF ForClient, StatusOf
<1>14. ~ c_init \/ ~ c_running
  BY <1>1, <1>2 DEF Talking
<1>15. /\ ClientInv' /\ ChannelInv'
       /\ \A j \in 1 .. Wanted :
            CountOf("stream_status", j, Down') =
              CountOf("stream_status", j, Down) + (IF i = j THEN 1 ELSE 0)
  BY <1>1, <1>2, <1>5, <1>12, <1>13, <1>14, AnswerKeepsPairInv
<1>16. UNCHANGED <<c_running, c_streams, c_out>>
  BY <1>1 DEF clientVars
<1>17. StreamsInv'
  BY <1>5, <1>12, <1>16 DEF PairInv, StreamsInv, Entry, Stream
<1>18. SetupsInv'
  <2> SUFFICES ASSUME NEW j \in 1 .. Wanted
               PROVE  CountOf("stream_setup", j, Up') =
                        IF j \in DOMAIN c_streams \ (Open \cup {i}) THEN 1 ELSE 0
    BY <1>12, <1>16 DEF SetupsInv
  <2>1. CountOf("stream_setup", j, Up') =
          CountOf("stream_setup", j, Up) - (IF i = j THEN 1 ELSE 0)
    BY <1>1, <1>2, <1>3, <1>16 DEF Up
  <2>2. CASE i = j
    BY <1>4, <1>5, <2>1, <2>2
  <2>3. CASE i # j
    BY <1>4, <2>1, <2>3
  <2> QED
    BY <2>2, <2>3
<1>19. StatusInv'
  <2> SUFFICES ASSUME c_running, NEW j \in 1 .. Wanted
               PROVE  CountOf("stream_status", j, Down') =
                        IF j \in Open \cup {i} /\ ~ c_streams[j] THEN 1 ELSE 0
    BY <1>12, <1>16 DEF StatusInv
  <2>1. CountOf("stream_status", j, Down) = IF j \in Open /\ ~ c_streams[j] THEN 1 ELSE 0
    BY DEF PairInv, StatusInv
  <2>2. CountOf("stream_status", j, Down') =
          CountOf("stream_status", j, Down) + (IF i = j THEN 1 ELSE 0)
    BY <1>15
  <2>3. CASE i = j
    <3>1. ~ c_streams[i]
      BY <1>5 DEF PairInv, StreamsInv
    <3> QED
      BY <1>5, <2>1, <2>2, <2>3, <3>1
  <2>4. CASE i # j
    BY <2>1, <2>2, <2>4
  <2> QED
    BY <2>3, <2>4
<1> QED
  BY <1>15, <1>17, <1>18, <1>19 DEF PairInv

(* The server answers a control word with an ECM. *)
LEMMA CwAnswered ==
  ASSUME PairInv, ~ b_init, ServerReceive, NEW i \in Open, Head(c2s) = CwOf(i)
  PROVE  /\ out' = <<EcmOf(i)>>
         /\ UNCHANGED <<running, b_init, i_version, i_channelid, streams>>
<1>1. /\ c2s # <<>> /\ out = <<>> /\ Handle(CwOf(i)) /\ c2s' = Tail(c2s)
      /\ UNCHANGED <<clientVars, s2c>>
  BY DEF ServerReceive, Ready
<1>2. Talking
  BY DEF PairInv, ChannelInv
<1>3. i_version = 1 /\ i_channelid = Channel
  BY <1>2 DEF Talking
<1>4. Cw(CwOf(i))
  BY <1>1, <1>3, CwHandled
<1> QED
  BY <1>3, <1>4, CwIs DEF Cw, EcmOf

(* The server answers a control word with an ECM, whose stream is open.    *)
LEMMA CwKeepsPairInv ==
  ASSUME PairInv, ~ b_init, ServerReceive, NEW i \in Open, Head(c2s) = CwOf(i)
  PROVE  PairInv'
<1>1. /\ c2s # <<>> /\ out = <<>> /\ Handle(CwOf(i)) /\ c2s' = Tail(c2s)
      /\ UNCHANGED <<clientVars, s2c>>
  BY DEF ServerReceive, Ready
<1>2. /\ Talking /\ Tail(c2s) \in Seq(ForServer)
      /\ \A j \in 1 .. Wanted :
           CountOf("stream_setup", j, Tail(c2s) \o c_out) =
                CountOf("stream_setup", j, Up)
                  - (IF Head(c2s).type = "stream_setup" /\ Head(c2s).sid = j THEN 1 ELSE 0)
  BY <1>1, ServerReads
<1>5. /\ out' = <<EcmOf(i)>>
      /\ UNCHANGED <<running, b_init, i_version, i_channelid, streams>>
  BY CwAnswered
<1>6. Open' = Open /\ ForServer' = ForServer /\ ForClient' = ForClient
  BY <1>5, OpenStays
<1>7. EcmOf(i) \in ForClient /\ EcmOf(i).type = "ecm"
  BY StreamMessageIs DEF ForClient, EcmOf
<1>8. ~ c_init \/ ~ c_running
  BY <1>1, <1>2 DEF Talking
<1>9. /\ ClientInv' /\ ChannelInv'
      /\ \A j \in 1 .. Wanted :
           CountOf("stream_status", j, Down') = CountOf("stream_status", j, Down) + 0
  BY <1>1, <1>2, <1>5, <1>6, <1>7, <1>8, AnswerKeepsPairInv
<1>10. UNCHANGED <<c_running, c_streams, c_out>>
  BY <1>1 DEF clientVars
<1>11. StreamsInv'
  BY <1>5, <1>6, <1>10 DEF PairInv, StreamsInv, Entry, Stream
<1>12. SetupsInv'
  <2> SUFFICES ASSUME NEW j \in 1 .. Wanted
               PROVE  CountOf("stream_setup", j, Up') =
                        IF j \in DOMAIN c_streams \ Open THEN 1 ELSE 0
    BY <1>6, <1>10 DEF SetupsInv
  <2>1. CountOf("stream_setup", j, Up') = CountOf("stream_setup", j, Up) - 0
    BY <1>1, <1>2, <1>10, CwIs DEF Up
  <2>2. CountOf("stream_setup", j, Up) = IF j \in DOMAIN c_streams \ Open THEN 1 ELSE 0
    BY DEF PairInv, SetupsInv
  <2> QED
    BY <2>1, <2>2
<1>13. StatusInv'
  <2> SUFFICES ASSUME c_running, NEW j \in 1 .. Wanted
               PROVE  CountOf("stream_status", j, Down') =
                        IF j \in Open /\ ~ c_streams[j] THEN 1 ELSE 0
    BY <1>6, <1>10 DEF StatusInv
  <2>1. CountOf("stream_status", j, Down) = IF j \in Open /\ ~ c_streams[j] THEN 1 ELSE 0
    BY DEF PairInv, StatusInv
  <2> QED
    BY <1>9, <2>1
<1> QED
  BY <1>9, <1>11, <1>12, <1>13 DEF PairInv

LEMMA ServerReceiveKeepsPairInv ==
  ASSUME PairInv, ServerReceive
  PROVE  PairInv'
<1>1. CASE b_init
  BY <1>1, ChannelSetupKeepsPairInv
<1>2. CASE ~ b_init
  <2>1. Head(c2s) \in ForServer
    BY <1>2, ServerReads DEF ServerReceive
  <2> QED
    BY <1>2, <2>1, StreamSetupKeepsPairInv, CwKeepsPairInv DEF ForServer
<1> QED
  BY <1>1, <1>2

(* The server asks a client that is silent whether it is still there. *)
LEMMA ServerTimeoutKeepsPairInv ==
  ASSUME PairInv, ServerTimeout
  PROVE  PairInv'
<1>1. out = <<>> /\ UNCHANGED <<clientVars, c2s, s2c>>
  BY DEF ServerTimeout, Ready
<1>2. UNCHANGED <<b_init, i_version, i_channelid, streams>>
  BY DEF ServerTimeout, Timeout, TimeoutIdle, TimeoutTest
<1>3. UNCHANGED <<c_init, c_running, c_streams, c_nbCw, c_lead, c_out, i_period, turn, lag, balance>>
  BY <1>1 DEF clientVars
<1>4. Open' = Open /\ ForServer' = ForServer /\ ForClient' = ForClient
  BY <1>2, OpenStays
<1>5. ClientInv'
  BY <1>3, OthersKeepClientInv DEF PairInv, ClientInv
<1>6. StreamsInv' /\ SetupsInv'
  BY <1>1, <1>2, <1>3, <1>4 DEF PairInv, StreamsInv, SetupsInv, Up, Entry, Stream
<1>7. CASE TimeoutIdle
  <2>1. UNCHANGED <<out, Down>>
    BY <1>1, <1>7 DEF TimeoutIdle, Down
  <2>2. ChannelInv' /\ StatusInv'
    BY <1>1, <1>2, <1>3, <1>4, <1>7, <2>1
       DEF TimeoutIdle, PairInv, ChannelInv, Asking, StatusInv
  <2> QED
    BY <1>5, <1>6, <2>2 DEF PairInv
<1>8. CASE TimeoutTest
  <2>1. ~ b_init /\ Talking
    BY <1>8 DEF TimeoutTest, PairInv, ChannelInv
  <2>2. out' = <<Probe>> /\ Probe \in ForClient /\ Probe.type = "channel_test"
    BY <1>8, <2>1, ChannelMessageIs DEF TimeoutTest, Talking, Probe, ForClient
  <2>3. s2c \in Seq(ForClient) /\ Down = s2c /\ Down' = s2c \o <<Probe>>
    BY <1>1, <2>1, <2>2 DEF Talking, Down
  <2>4. Down # <<>> => Down' # <<>> /\ Head(Down') = Head(Down)
    BY <2>2, <2>3
  <2>5. ChannelInv'
    <3>1. Talking'
      BY <1>1, <1>2, <1>3, <1>4, <2>1, <2>2, <2>4 DEF Talking, Status, Message
    <3> QED
      BY <1>2, <2>1, <3>1 DEF ChannelInv
  <2>6. StatusInv'
    <3>1. ASSUME NEW i \in 1 .. Wanted
          PROVE  CountOf("stream_status", i, Down') = CountOf("stream_status", i, Down)
      <4>1. CountOf("stream_status", i, <<Probe>>) = 0
        BY <2>2, CountOfOne
      <4>2. <<Probe>> \in Seq(ForClient)
        BY <2>2
      <4>3. /\ CountOf("stream_status", i, s2c) \in Nat
            /\ CountOf("stream_status", i, Down') = CountOf("stream_status", i, s2c) + 0
        BY <2>3, <4>1, <4>2, CountOfBoth
      <4> QED
        BY <2>3, <4>3
    <3> QED
      BY <1>3, <1>4, <3>1 DEF PairInv, StatusInv
  <2> QED
    BY <1>5, <1>6, <2>5, <2>6 DEF PairInv
<1> QED
  BY <1>7, <1>8 DEF ServerTimeout, Timeout

(* What the server writes to a client that is there arrives; one that has  *)
(* gone has nothing to be told.                                            *)
LEMMA ServerWriteKeepsPairInv ==
  ASSUME PairInv, ServerWrite
  PROVE  PairInv'
<1>1. /\ out # <<>> /\ out' = <<>>
      /\ UNCHANGED <<b_init, i_version, i_channelid, streams, clientVars, c2s>>
  BY DEF ServerWrite, Write
<1>2. UNCHANGED <<c_init, c_running, c_streams, c_nbCw, c_lead, c_out, i_period, turn, lag, balance>>
  BY <1>1 DEF clientVars
<1>3. Open' = Open /\ ForServer' = ForServer /\ ForClient' = ForClient
  BY <1>1, OpenStays
<1>4. ClientInv'
  BY <1>2, OthersKeepClientInv DEF PairInv, ClientInv
<1>5. StreamsInv' /\ SetupsInv'
  BY <1>1, <1>2, <1>3 DEF PairInv, StreamsInv, SetupsInv, Up, Entry, Stream
<1>6. ~ b_init /\ Talking
  BY <1>1 DEF PairInv, ChannelInv, Asking
<1>7. PICK m \in ForClient : out = <<m>>
  BY <1>1, <1>6 DEF Talking
<1>8. s2c \in Seq(ForClient)
  BY <1>6 DEF Talking
<1>9. CASE ~ c_running
  <2>1. s2c' \in Seq(ForClient)
    <3>1. s2c' = s2c \/ s2c' = Append(s2c, m)
      BY <1>7 DEF ServerWrite
    <3> QED
      BY <1>7, <1>8, <3>1
  <2>2. Talking'
    BY <1>1, <1>2, <1>3, <1>6, <1>9, <2>1 DEF Talking
  <2> QED
    BY <1>1, <1>2, <1>4, <1>5, <1>6, <1>9, <2>2 DEF PairInv, ChannelInv, StatusInv
<1>10. CASE c_running
  <2>1. s2c' = Append(s2c, m)
    BY <1>7, <1>10 DEF ServerWrite, ClientGone
  <2>2. s2c' \in Seq(ForClient) /\ Down' = Down
    <3>1. Append(s2c, m) \in Seq(ForClient) /\ Append(s2c, m) \o <<>> = s2c \o <<m>>
      BY <1>7, <1>8
    <3> QED
      BY <1>1, <1>7, <2>1, <3>1 DEF Down
  <2>3. Talking'
    BY <1>1, <1>2, <1>3, <1>6, <2>2 DEF Talking, Status, Message
  <2>4. StatusInv'
    BY <1>2, <1>3, <2>2 DEF PairInv, StatusInv
  <2> QED
    BY <1>1, <1>4, <1>5, <1>6, <2>3, <2>4 DEF PairInv, ChannelInv
<1> QED
  BY <1>9, <1>10

(* The rest is about time and about the end of a program. *)
LEMMA OthersKeepPairInv ==
  ASSUME PairInv, lag' \in Nat,
         UNCHANGED <<i_period, c_running, c_init, c_streams, c_nbCw, c_lead, turn, c_out, balance>>,
         UNCHANGED <<b_init, i_version, i_channelid, streams, out, c2s, s2c>>
  PROVE  PairInv'
<1>1. Open' = Open /\ ForServer' = ForServer /\ ForClient' = ForClient
  BY OpenStays
<1>2. ClientInv'
  BY OthersKeepClientInv DEF PairInv
<1>3. Up' = Up /\ Down' = Down
  BY DEF Up, Down
<1>4. ChannelInv'
  BY <1>1, <1>3 DEF PairInv, ChannelInv, Asking, Talking, Request, Status, Message
<1>5. StreamsInv' /\ SetupsInv' /\ StatusInv'
  BY <1>1, <1>3 DEF PairInv, StreamsInv, SetupsInv, StatusInv, Entry, Stream
<1> QED
  BY <1>2, <1>4, <1>5 DEF PairInv

LEMMA StepKeepsPairInv ==
  ASSUME PairInv, [EcmgNext]_allVars
  PROVE  PairInv'
<1>0. i_period \in Nat \ {0} /\ lag \in Nat
  BY DEF PairInv, ClientInv
<1>1. CASE UNCHANGED allVars
  BY <1>0, <1>1, OthersKeepPairInv DEF allVars, clientVars, vars
<1>2. CASE ClientStep
  BY <1>2, ClientReceiveKeepsPairInv, ClientNoPacketKeepsPairInv DEF ClientStep
<1>3. CASE ServerEof
  BY <1>0, <1>3, OthersKeepPairInv DEF ServerEof, clientVars
<1>4. CASE Second
  <2>1. (lag + 1) % i_period \in Nat
    <3>1. lag + 1 \in Int
      BY <1>0
    <3> QED
      BY <1>0, <3>1, Division
  <2>2. lag' \in Nat
    BY <1>0, <1>4, <2>1 DEF Second, Client!Tick
  <2> QED
    BY <1>4, <2>2, OthersKeepPairInv DEF Second, Client!Tick, vars
<1> QED
  BY <1>1, <1>2, <1>3, <1>4, ClientWriteKeepsPairInv, ServerReceiveKeepsPairInv,
     ServerTimeoutKeepsPairInv, ServerWriteKeepsPairInv DEF EcmgNext

LEMMA InitPairInv == EcmgInit => PairInv
<1> SUFFICES ASSUME EcmgInit
             PROVE  PairInv
  OBVIOUS
<1>1. /\ b_init /\ streams = <<>> /\ out = <<>> /\ s2c = <<>> /\ c2s = <<>>
      /\ c_init /\ c_running /\ c_streams = <<>> /\ c_out = <<Request>>
  BY ClientMessages DEF EcmgInit, Init, Client!Init, Client!Version, Request
<1>2. ClientInv
  BY InitClientInv DEF EcmgInit
<1>3. ChannelInv
  BY <1>1 DEF ChannelInv, Asking
<1>4. Open = {}
  BY <1>1 DEF Open
<1>5. StreamsInv
  <2>1. Len(<<>>) <= Wanted
    BY ClientAssumption
  <2> QED
    BY <1>1, <1>4, <2>1 DEF StreamsInv
<1>6. SetupsInv /\ StatusInv
  <2>1. Up = <<Request>> /\ Down = <<>>
    BY <1>1 DEF Up, Down
  <2> QED
    BY <1>1, <1>4, <2>1, CountOfNone, CountOfOne, ChannelMessageIs DEF SetupsInv, StatusInv
<1> QED
  BY <1>2, <1>3, <1>5, <1>6 DEF PairInv

-----------------------------------------------------------------------------
(* What they keep together.                                                *)

LEMMA PairAgrees ==
  ASSUME PairInv
  PROVE  Agreed
<1> SUFFICES ASSUME c_running
             PROVE  /\ ~ c_init => ~ b_init /\ i_channelid = Channel /\ i_version = Client!Version
                    /\ \A i \in DOMAIN c_streams :
                         /\ CountOf("stream_setup", i, Up) + CountOf("stream_status", i, Down)
                              = (IF c_streams[i] THEN 0 ELSE 1)
                         /\ i \in Open <=> CountOf("stream_setup", i, Up) = 0
                    /\ \A i \in Open : Client!Known(i)
  BY DEF Agreed
<1>1. ~ c_init => ~ b_init /\ i_channelid = Channel /\ i_version = Client!Version
  BY DEF PairInv, ChannelInv, Asking, Talking, Client!Version
<1>2. \A i \in Open : Client!Known(i)
  BY DEF PairInv, StreamsInv, Client!Known
<1>3. ASSUME NEW i \in DOMAIN c_streams
      PROVE  /\ CountOf("stream_setup", i, Up) + CountOf("stream_status", i, Down)
                  = (IF c_streams[i] THEN 0 ELSE 1)
             /\ i \in Open <=> CountOf("stream_setup", i, Up) = 0
  <2>1. i \in 1 .. Wanted
    <3>1. c_streams \in Seq(BOOLEAN) /\ Len(c_streams) <= Wanted /\ Wanted \in Nat
      BY ClientAssumption DEF PairInv, StreamsInv
    <3>2. DOMAIN c_streams = 1 .. Len(c_streams) /\ Len(c_streams) \in Nat
      BY <3>1
    <3> QED
      BY <3>1, <3>2
  <2>2. CountOf("stream_setup", i, Up) = IF i \notin Open THEN 1 ELSE 0
    BY <2>1 DEF PairInv, SetupsInv
  <2>3. CountOf("stream_status", i, Down) = IF i \in Open /\ ~ c_streams[i] THEN 1 ELSE 0
    BY <2>1 DEF PairInv, StatusInv
  <2>4. c_streams[i] => i \in Open
    BY DEF PairInv, StreamsInv
  <2> QED
    BY <2>2, <2>3, <2>4
<1> QED
  BY <1>1, <1>2, <1>3

(* Nothing that is on the way is an error. *)
LEMMA PairIsContent ==
  ASSUME PairInv
  PROVE  NoComplaint
<1> DEFINE Fine == {m \in ForServer \cup ForClient \cup {Request} :
                      m.type \notin {"channel_error", "stream_error"}}
<1>1. ForServer \subseteq Fine
  <2>1. \A i : SetupOf(i).type = "stream_setup" /\ CwOf(i).type = "cw"
    BY StreamMessageIs, CwIs DEF SetupOf
  <2> QED
    BY <2>1 DEF ForServer
<1>2. ForClient \subseteq Fine
  <2>1. \A i : StatusOf(i).type = "stream_status" /\ EcmOf(i).type = "ecm"
    BY StreamMessageIs DEF StatusOf, EcmOf
  <2>2. Status(1, Channel).type = "channel_status" /\ Probe.type = "channel_test"
    BY ChannelMessageIs
  <2> QED
    BY <2>1, <2>2 DEF ForClient
<1>3. Request \in Fine
  BY ChannelMessageIs
<1>4. \A m \in Fine : m.type \notin {"channel_error", "stream_error"}
  OBVIOUS
<1> HIDE DEF Fine
<1>5. Up \in Seq(Fine) /\ Down \in Seq(Fine)
  <2>1. CASE b_init
    <3>1. s2c = <<>> /\ out = <<>> /\ (\/ c_out = <<Request>> /\ c2s = <<>>
                                       \/ c_out = <<>> /\ c2s = <<Request>>)
      BY <2>1 DEF PairInv, ChannelInv, Asking
    <3>2. <<Request>> \o <<>> = <<Request>> /\ <<>> \o <<Request>> = <<Request>>
      OBVIOUS
    <3>3. Down = <<>> /\ Up = <<Request>>
      <4>1. Down = <<>>
        BY <3>1 DEF Down
      <4> QED
        BY <3>1, <3>2, <4>1 DEF Up
    <3> QED
      BY <1>3, <3>3
  <2>2. CASE ~ b_init
    <3>1. Talking
      BY <2>2 DEF PairInv, ChannelInv
    <3>2. /\ c2s \in Seq(ForServer) /\ c_out \in Seq(ForServer)
          /\ s2c \in Seq(ForClient) /\ out \in Seq(ForClient)
      BY <3>1, UpDown DEF Talking
    <3>3. Up \in Seq(ForServer) /\ Down \in Seq(ForClient)
      BY <3>2, ConcatProperties DEF Up, Down
    <3> QED
      BY <1>1, <1>2, <3>3, SeqMonotonic
  <2> QED
    BY <2>1, <2>2
<1>6. Up \o Down \in Seq(Fine)
  BY <1>5, ConcatProperties
<1> QED
  BY <1>4, <1>6 DEF NoComplaint

(* The client of dvb_ecmg_test.c and the server of dvb_ecmg.c keep the     *)
(* invariant of the pair, for any number of streams, any capacity of the   *)
(* pipes, any timeout and any lateness.                                    *)
THEOREM PairSafe == EcmgSpec => []PairInv
<1>1. EcmgInit => PairInv
  BY InitPairInv
<1>2. PairInv /\ [EcmgNext]_allVars => PairInv'
  BY StepKeepsPairInv
<1> QED
  BY <1>1, <1>2, PTL DEF EcmgSpec

(* They agree on the channel and on its streams: what the client takes for *)
(* confirmed is there, and for each stream it waits for, either the setup  *)
(* or the status that confirms it is on the way, once.                     *)
THEOREM TheTwoAgree == EcmgSpec => []Agreed
<1>1. PairInv => Agreed
  BY PairAgrees
<1> QED
  BY <1>1, PairSafe, PTL

(* Neither ever has anything to complain about in what the other sends: no *)
(* error is written by either of the two programs.                         *)
THEOREM NobodyComplains == EcmgSpec => []NoComplaint
<1>1. PairInv => NoComplaint
  BY PairIsContent
<1> QED
  BY <1>1, PairSafe, PTL

(* Connected to that server, the client still gives each confirmed stream  *)
(* one control word per crypto-period (check_cw).                          *)
THEOREM PairKeepsPace == EcmgSpec => []KeepsPace
<1>1. PairInv => KeepsPace
  BY ClientInvPaces DEF PairInv
<1> QED
  BY <1>1, PairSafe, PTL

(***************************************************************************)
(* Time and room.                                                          *)
(***************************************************************************)

Confirmed == {i \in DOMAIN c_streams : c_streams[i]}

(* What is on the way once the channel is confirmed and as long as the     *)
(* server does not ask whether the client is there: control words and ECMs *)
(* are about streams that are confirmed.                                   *)
Asked    == {SetupOf(i) : i \in 1 .. Wanted} \cup {CwOf(i) : i \in Confirmed}
Answered == {StatusOf(i) : i \in 1 .. Wanted} \cup {EcmOf(i) : i \in Confirmed}

OnTheWay ==
  IF c_init THEN ~ b_init => Down = <<Status(1, Channel)>>
            ELSE Up \in Seq(Asked) /\ Down \in Seq(Answered)

(* While nothing is on the way to it, the server has been waiting no       *)
(* longer than since the last turn of some stream, or, before any is       *)
(* confirmed, than since the last iteration of the client.                 *)
WaitInv ==
  ~ c_init /\ Up = <<>> =>
    \/ \E i \in Confirmed : quiet <= Phase(i) + lag
    \/ Confirmed = {} /\ quiet <= lag

QuietInv ==
  /\ c_running
  /\ quiet \in Nat /\ quiet < i_period + MaxLag
  /\ c_init \/ out # <<>> => quiet = 0
  /\ ~ c_init => c_streams # <<>> /\ lag <= MaxLag
  /\ OnTheWay
  /\ WaitInv

(* The crypto-period is short for the server, which supports as many       *)
(* streams as are wanted of it.                                            *)
Prompt == Wanted \in 1 .. MaxStreams /\ i_period + MaxLag < Patience

(* What the types of the numbers are, and what the pair is like once the   *)
(* channel is confirmed.                                                   *)
LEMMA PairFacts ==
  ASSUME PairInv
  PROVE  /\ i_period \in Nat \ {0} /\ lag \in Nat /\ MaxLag \in Nat /\ Wanted \in Nat
         /\ c_streams \in Seq(BOOLEAN) /\ Len(c_streams) \in Nat
         /\ DOMAIN c_streams = 1 .. Len(c_streams) /\ Len(c_streams) <= Wanted
         /\ \A i \in DOMAIN c_streams : Phase(i) \in 0 .. i_period - 1
         /\ Confirmed \subseteq Open /\ Open \subseteq DOMAIN c_streams
         /\ ~ c_init => ~ b_init
         /\ ~ b_init => Talking
<1>1. /\ i_period \in Nat \ {0} /\ lag \in Nat /\ turn \in Int
      /\ c_streams \in Seq(BOOLEAN) /\ Len(c_streams) <= Wanted
  BY DEF PairInv, ClientInv, StreamsInv
<1>2. Len(c_streams) \in Nat /\ DOMAIN c_streams = 1 .. Len(c_streams)
  BY <1>1
<1>3. ASSUME NEW i \in DOMAIN c_streams
      PROVE  Phase(i) \in 0 .. i_period - 1
  <2>1. turn - (i - 1) \in Int
    BY <1>1, <1>2
  <2> QED
    BY <1>1, <2>1, Division DEF Phase
<1>4. Confirmed \subseteq Open /\ Open \subseteq DOMAIN c_streams
  BY DEF PairInv, StreamsInv, Confirmed
<1>5. (~ c_init => ~ b_init) /\ (~ b_init => Talking)
  BY DEF PairInv, ChannelInv, Asking
<1> QED
  BY <1>1, <1>2, <1>3, <1>4, <1>5, ClientAssumption

LEMMA AskedIs ==
  /\ \A m \in Asked : m.type = "stream_setup" \/ (m.type = "cw" /\ Confirmed # {})
  /\ \A m \in Answered : m.type = "stream_status" \/ (m.type = "ecm" /\ Confirmed # {})
<1>1. \A i : SetupOf(i).type = "stream_setup" /\ CwOf(i).type = "cw"
  BY StreamMessageIs, CwIs DEF SetupOf
<1>2. \A i : StatusOf(i).type = "stream_status" /\ EcmOf(i).type = "ecm"
  BY StreamMessageIs DEF StatusOf, EcmOf
<1> QED
  BY <1>1, <1>2 DEF Asked, Answered

(* The client does not give up for what this server writes, unless it is   *)
(* asked whether it is there.                                              *)
LEMMA Fitting ==
  ASSUME Prompt, PairInv, NEW m \in ForClient, c_init => m = Status(1, Channel),
         m.type # "channel_test"
  PROVE  ~ Client!GiveUp(m)
<1>1. Client!Refusal(m) = 0 /\ Client!Answer(m) = <<>> /\ m.form # "empty"
  BY ClientContent, PairFacts
<1>2. m.type \in {"channel_status", "stream_status", "ecm"}
  <2>1. \A i : StatusOf(i).type = "stream_status" /\ EcmOf(i).type = "ecm"
    BY StreamMessageIs DEF StatusOf, EcmOf
  <2>2. Status(1, Channel).type = "channel_status" /\ Probe.type = "channel_test"
    BY ChannelMessageIs
  <2> QED
    BY <2>1, <2>2 DEF ForClient
<1>3. m = Status(1, Channel) => ~ Client!Unfit(m)
  <2>1. Status(1, Channel).max = 500 /\ Status(1, Channel).mindur = 3
    BY DEF Status, Message, MaxStreams, MinCpDur
  <2>2. i_period \in Nat \ {0} /\ Wanted \in Nat
    BY PairFacts
  <2>3. ~ (3 > i_period * 10) /\ ~ (500 < Wanted)
    BY <2>2 DEF Prompt, MaxStreams
  <2> QED
    BY <2>1, <2>3 DEF Client!Unfit
<1>4. ~ Client!Fatal(m)
  BY <1>1, <1>2, <1>3 DEF Client!Fatal
<1> QED
  BY <1>1, <1>4 DEF Client!GiveUp

(* What does not touch the streams leaves the messages about them as they  *)
(* are.                                                                    *)
LEMMA ConfirmedStays ==
  ASSUME c_streams' = c_streams
  PROVE  Confirmed' = Confirmed /\ Asked' = Asked /\ Answered' = Answered
BY DEF Confirmed, Asked, Answered, SetupOf, CwOf, StatusOf, EcmOf, StreamMessage, Message

-----------------------------------------------------------------------------
(* The steps.                                                              *)

LEMMA IterationIsPrompt ==
  ASSUME Prompt, PairInv, QuietInv, ~ b_init, c_out = <<>>,
         NEW confirmed \in Seq(BOOLEAN), DOMAIN confirmed = DOMAIN c_streams,
         Len(confirmed) = Len(c_streams),
         \A i \in DOMAIN confirmed : c_streams[i] => confirmed[i],
         c_init => c_streams = <<>> /\ c2s = <<>>,
         ~ c_init => s2c = <<>> \/ \E i \in DOMAIN confirmed : confirmed[i],
         Client!EndIteration(<<>>, confirmed),
         c_running', ~ c_init', c_nbCw' = 2, c_lead' = 1, i_period' = i_period,
         Down' \in Seq(Answered'),
         UNCHANGED <<vars, quiet, c2s>>
  PROVE  QuietInv'
<1>1. /\ i_period \in Nat \ {0} /\ lag \in Nat /\ MaxLag \in Nat /\ Wanted \in Nat
      /\ c_streams \in Seq(BOOLEAN) /\ Len(c_streams) \in Nat
      /\ DOMAIN c_streams = 1 .. Len(c_streams) /\ Len(c_streams) <= Wanted
      /\ \A i \in DOMAIN c_streams : Phase(i) \in 0 .. i_period - 1
      /\ Confirmed \subseteq Open /\ Open \subseteq DOMAIN c_streams
  BY PairFacts
<1>2. /\ c_out' \in Seq(Sendable(confirmed))
      /\ Len(c_out') = (IF Len(confirmed) < Wanted THEN 1 ELSE 0)
                         + Cardinality(Client!Turns(confirmed))
      /\ Cardinality(Client!Turns(confirmed)) \in Nat
  BY <1>1, IterationSends, DueAtTurns
<1>3. /\ c_streams' = Client!Extended(confirmed) /\ lag' = 0
  BY DEF Client!EndIteration
<1>4. Confirmed' = {i \in DOMAIN confirmed : confirmed[i]}
  BY <1>3, ExtendedKeeps DEF Confirmed
<1>5. Confirmed \subseteq Confirmed'
  BY <1>4 DEF Confirmed
<1>6. Sendable(confirmed) = Asked' /\ Asked \subseteq Asked'
  <2>1. \A i : SetupOf(i)' = SetupOf(i) /\ CwOf(i)' = CwOf(i)
    BY DEF SetupOf, CwOf, StreamMessage, Message
  <2>2. Asked' = {SetupOf(i) : i \in 1 .. Wanted} \cup {CwOf(i) : i \in Confirmed'}
    BY <2>1 DEF Asked
  <2> QED
    BY <1>4, <1>5, <2>2 DEF Sendable, Asked
<1>7. Up' \in Seq(Asked')
  <2>1. c2s \in Seq(Asked')
    <3>1. CASE c_init
      BY <3>1
    <3>2. CASE ~ c_init
      <4>1. Up \in Seq(Asked)
        BY <3>2 DEF QuietInv, OnTheWay
      <4>2. c2s \o <<>> = c2s
        <5>1. Talking
          BY PairFacts
        <5> QED
          BY <5>1, ConcatEmptySeq DEF Talking
      <4> QED
        BY <1>6, <4>1, <4>2, SeqMonotonic DEF Up
    <3> QED
      BY <3>1, <3>2
  <2>2. PICK A : A = Asked'
    OBVIOUS
  <2>3. c2s \in Seq(A) /\ c_out' \in Seq(A)
    BY <1>2, <1>6, <2>1, <2>2
  <2>4. c2s \o c_out' \in Seq(A)
    BY <2>3, ConcatProperties
  <2> QED
    BY <2>2, <2>4 DEF Up
<1>8. OnTheWay'
  BY <1>7 DEF OnTheWay
<1>9. c_streams' # <<>>
  <2>1. CASE Len(confirmed) < Wanted
    <3>1. Append(confirmed, FALSE) # <<>>
      <4>1. \A s \in Seq(BOOLEAN) : Len(Append(s, FALSE)) = Len(s) + 1 /\ Len(s) \in Nat
        OBVIOUS
      <4>2. PICK n \in Nat : n + 1 = Len(Append(confirmed, FALSE))
        BY <4>1
      <4>3. n + 1 # 0 /\ Len(<<>>) = 0
        OBVIOUS
      <4> QED
        BY <4>2, <4>3
    <3>2. c_streams' = Append(confirmed, FALSE)
      BY <1>3, <2>1 DEF Client!Extended
    <3> QED
      BY ONLY <3>1, <3>2, Zenon
  <2>2. CASE ~ (Len(confirmed) < Wanted)
    BY <1>1, <1>3, <2>2 DEF Client!Extended, Prompt
  <2> QED
    BY <2>1, <2>2
<1>10. WaitInv'
  <2> SUFFICES ASSUME Up' = <<>>
               PROVE  \/ \E i \in Confirmed' : quiet <= Phase(i)' + 0
                      \/ Confirmed' = {} /\ quiet <= 0
    BY <1>3 DEF WaitInv
  <2>1. c2s = <<>> /\ c_out' = <<>>
    <3>1. Len(c2s \o c_out') = 0
      BY DEF Up
    <3>2. Talking
      BY PairFacts
    <3>3. c2s \in Seq(ForServer) /\ c_out' \in Seq(Sendable(confirmed))
      BY <1>2, <3>2 DEF Talking
    <3>4. Len(c2s \o c_out') = Len(c2s) + Len(c_out') /\ Len(c2s) \in Nat /\ Len(c_out') \in Nat
      BY <3>3
    <3> QED
      BY <3>1, <3>3, <3>4
  <2>2. ~ (Len(confirmed) < Wanted)
    BY <1>2, <2>1
  <2>3. ~ c_init /\ Len(c_streams) >= 1
    BY <1>1, <2>2 DEF Prompt
  <2>4. quiet \in Nat
    BY DEF QuietInv
  <2>5. ASSUME NEW i \in Confirmed'
        PROVE  Phase(i)' = lag + Phase(i) /\ Phase(i) \in Nat
    <3>1. i \in DOMAIN confirmed /\ confirmed[i]
      BY <1>4
    <3>2. NoCw(<<>>) /\ ClientInv
      BY DEF NoCw, PairInv
    <3>3. /\ Phase(i) \in 0 .. i_period - 1
          /\ Phase(i)' \in 0 .. i_period - 1
          /\ i_period * CountOf("cw", i, c_out') = lag + Phase(i) - Phase(i)'
      BY <3>1, <3>2, IterationPays
    <3>4. CountOf("cw", i, c_out') = 0
      BY <2>1, CountOfNone
    <3>5. i_period * 0 = 0
      BY <1>1
    <3>6. 0 = lag + Phase(i) - Phase(i)'
      BY <3>3, <3>4, <3>5
    <3> QED
      BY <1>1, <3>3, <3>6
  <2>6. Up = <<>>
    BY <2>1 DEF Up
  <2>7. CASE \E i \in Confirmed : quiet <= Phase(i) + lag
    <3>1. PICK i \in Confirmed : quiet <= Phase(i) + lag
      BY <2>7
    <3>2. i \in Confirmed' /\ Phase(i)' = lag + Phase(i) /\ Phase(i) \in Nat
      BY <1>5, <2>5
    <3>3. quiet <= Phase(i)' + 0
      BY <1>1, <2>4, <3>1, <3>2
    <3> QED
      BY <3>2, <3>3
  <2>8. CASE Confirmed = {} /\ quiet <= lag
    <3>1. CASE Confirmed' # {}
      <4>1. PICK i : i \in Confirmed'
        BY <3>1
      <4>2. Phase(i)' = lag + Phase(i) /\ Phase(i) \in Nat
        BY <2>5, <4>1
      <4>3. quiet <= Phase(i)' + 0
        BY <1>1, <2>4, <2>8, <4>2
      <4> QED
        BY <4>1, <4>3
    <3>2. CASE Confirmed' = {}
      <4>1. s2c = <<>>
        BY <1>4, <2>3, <3>2
      <4>2. CountOf("stream_setup", 1, Up) = 0
        BY <2>6, CountOfNone
      <4>3. 1 \in DOMAIN c_streams /\ 1 \in 1 .. Wanted
        BY <1>1, <2>3 DEF Prompt
      <4>4. ~ c_streams[1]
        BY <2>8, <4>3 DEF Confirmed
      <4>5. 1 \in Open
        BY <4>2, <4>3 DEF PairInv, SetupsInv
      <4>6. CountOf("stream_status", 1, Down) = 1
        BY <4>3, <4>4, <4>5 DEF PairInv, StatusInv, QuietInv
      <4>7. CASE out = <<>>
        <5>1. Down = <<>>
          BY <4>1, <4>7 DEF Down
        <5> QED
          BY <4>6, <5>1, CountOfNone
      <4>8. CASE out # <<>>
        BY <3>2, <4>8 DEF QuietInv
      <4> QED
        BY <4>7, <4>8
    <3> QED
      BY <3>1, <3>2
  <2> QED
    BY <2>3, <2>6, <2>7, <2>8 DEF QuietInv, WaitInv
<1>11. c_running' /\ quiet' \in Nat /\ quiet' < i_period' + MaxLag
  BY DEF QuietInv
<1>12. (c_init \/ out # <<>> => quiet = 0)'
  BY DEF QuietInv, vars
<1>13. (~ c_init => c_streams # <<>> /\ lag <= MaxLag)'
  BY <1>1, <1>3, <1>9
<1> QED
  BY <1>8, <1>10, <1>11, <1>12, <1>13 DEF QuietInv

LEMMA ReceiveIsPrompt ==
  ASSUME Prompt, PairInv, PairInv', QuietInv, ClientReceive
  PROVE  /\ QuietInv' /\ ~ c_init'
         /\ \E confirmed \in Seq(BOOLEAN) :
              /\ Len(confirmed) = Len(c_streams)
              /\ Client!EndIteration(<<>>, confirmed)
         /\ s2c # <<>> /\ s2c' = Tail(s2c)
<1> DEFINE m == Head(s2c)
<1>0. /\ c_running /\ c_out = <<>> /\ s2c # <<>> /\ Client!Receive(m)
      /\ s2c' = Tail(s2c) /\ UNCHANGED <<vars, quiet, c2s>>
  BY DEF ClientReceive, Client!Ready
<1>1. /\ ~ b_init /\ Talking /\ m \in ForClient /\ Tail(s2c) \in Seq(ForClient)
      /\ c_init => m = Status(1, Channel)
  BY <1>0, ClientReads
<1>2. s2c \in Seq(ForClient) /\ out \in Seq(ForClient)
  BY <1>1, UpDown DEF Talking
<1>3. Head(Down) = m /\ Tail(Down) = Tail(s2c) \o out /\ Down # <<>>
  BY <1>0, <1>2 DEF Down
<1>4. ~ c_init => m \in Answered /\ Tail(s2c) \o out \in Seq(Answered)
  <2>1. ~ c_init => Down \in Seq(Answered)
    BY DEF QuietInv, OnTheWay
  <2> QED
    BY <1>3, <2>1, HeadTailProperties
<1>5. c_init => Tail(s2c) \o out = <<>>
  BY <1>1, <1>3 DEF QuietInv, OnTheWay
<1>6. m.type # "channel_test"
  <2>1. Status(1, Channel).type = "channel_status"
    BY ChannelMessageIs
  <2> QED
    BY <1>1, <1>4, <2>1, AskedIs
<1>7. Client!Refusal(m) = 0 /\ Client!Answer(m) = <<>>
  BY <1>1, ClientContent, PairFacts
<1>8. ~ Client!GiveUp(m)
  BY <1>1, <1>6, Fitting
<1> HIDE DEF m
<1>9. /\ c_streams \in Seq(BOOLEAN) /\ DOMAIN c_streams = 1 .. Len(c_streams)
      /\ Len(c_streams) \in Nat
  BY PairFacts
<1>10. c_init => c_streams = <<>> /\ c2s = <<>>
  BY <1>0, <1>1 DEF Talking
<1>11. ASSUME NEW confirmed \in Seq(BOOLEAN), DOMAIN confirmed = DOMAIN c_streams,
              Len(confirmed) = Len(c_streams),
              \A i \in DOMAIN confirmed : c_streams[i] => confirmed[i],
              ~ c_init => \E i \in DOMAIN confirmed : confirmed[i],
              Client!EndIteration(<<>>, confirmed),
              c_running', ~ c_init', c_nbCw' = 2, c_lead' = 1, i_period' = i_period
       PROVE  QuietInv'
  <2>1. Confirmed' = {i \in DOMAIN confirmed : confirmed[i]}
    BY <1>11, ExtendedKeeps DEF Confirmed, Client!EndIteration
  <2>2. Confirmed \subseteq Confirmed'
    BY <1>11, <2>1 DEF Confirmed
  <2>3. Answered \subseteq Answered'
    BY <2>2 DEF Answered, StatusOf, EcmOf, StreamMessage, Message
  <2>4. Down' = Tail(s2c) \o out
    BY <1>0 DEF Down, vars
  <2>5. Down' \in Seq(Answered')
    <3>1. CASE c_init
      <4>1. Down' = <<>>
        BY <1>5, <2>4, <3>1
      <4>2. \A A : <<>> \in Seq(A)
        OBVIOUS
      <4> QED
        BY ONLY <4>1, <4>2, Zenon
    <3>2. CASE ~ c_init
      BY <1>4, <2>3, <2>4, <3>2, SeqMonotonic
    <3> QED
      BY <3>1, <3>2
  <2> QED
    BY <1>0, <1>1, <1>10, <1>11, <2>5, IterationIsPrompt
<1>12. c_running' /\ i_period' = i_period /\ ~ c_init' /\ c_nbCw' = 2 /\ c_lead' = 1
  <2>1. CASE Client!ChannelConfirmed(m)
    <3>1. c_init
      BY <2>1 DEF Client!ChannelConfirmed
    <3>2. m.nbCw = 2 /\ m.lead = 1
      BY <1>1, <3>1, ChannelMessageIs
    <3> QED
      BY <1>0, <2>1, <3>2 DEF Client!ChannelConfirmed
  <2>2. CASE Client!StreamConfirmed(m) \/ Client!OtherMessage(m)
    <3>1. Status(1, Channel).type = "channel_status"
      BY ChannelMessageIs
    <3>2. ~ c_init
      BY <1>1, <2>2, <3>1 DEF Client!StreamConfirmed, Client!OtherMessage
    <3>3. c_nbCw = 2 /\ c_lead = 1
      BY <1>1, <3>2 DEF Talking
    <3>4. UNCHANGED <<i_period, c_running, c_init, c_nbCw, c_lead>>
      <4>1. CASE Client!StreamConfirmed(m)
        BY <4>1 DEF Client!StreamConfirmed
      <4>2. CASE Client!OtherMessage(m)
        BY <4>2 DEF Client!OtherMessage
      <4> QED
        BY <2>2, <4>1, <4>2
    <3> QED
      BY <1>0, <3>2, <3>3, <3>4
  <2> QED
    BY <1>0, <1>8, <2>1, <2>2 DEF Client!Receive
<1>13. CASE Client!ChannelConfirmed(m)
  <2>1. c_init /\ Client!EndIteration(<<>>, c_streams)
    BY <1>13 DEF Client!ChannelConfirmed
  <2> QED
    BY <1>0, <1>9, <1>11, <1>12, <2>1
<1>14. CASE Client!StreamConfirmed(m)
  <2> DEFINE confirmed == [c_streams EXCEPT ![m.sid] = TRUE]
  <2>1. Client!EndIteration(<<>>, confirmed)
    BY <1>14 DEF Client!StreamConfirmed
  <2>2. m.sid \in DOMAIN c_streams
    BY <1>14 DEF Client!StreamConfirmed, Client!Fatal, Client!Answer, Client!Known
  <2>3. /\ confirmed \in Seq(BOOLEAN) /\ DOMAIN confirmed = DOMAIN c_streams
        /\ Len(confirmed) = Len(c_streams)
        /\ \A i \in DOMAIN confirmed : c_streams[i] => confirmed[i]
        /\ confirmed[m.sid]
    BY <1>9, <2>2
  <2> HIDE DEF confirmed
  <2>4. \E i \in DOMAIN confirmed : confirmed[i]
    BY <2>2, <2>3
  <2> QED
    BY <1>0, <1>11, <1>12, <2>1, <2>3, <2>4
<1>15. CASE Client!OtherMessage(m)
  <2>1. Client!EndIteration(<<>>, c_streams) /\ m.type # "stream_status"
    BY <1>7, <1>15 DEF Client!OtherMessage
  <2>2. ~ c_init => \E i \in DOMAIN c_streams : c_streams[i]
    BY <1>4, <2>1, AskedIs DEF Confirmed
  <2> QED
    BY <1>0, <1>9, <1>11, <1>12, <2>1, <2>2
<1> QED
  BY <1>0, <1>8, <1>13, <1>14, <1>15 DEF Client!Receive

LEMMA NoPacketIsPrompt ==
  ASSUME Prompt, PairInv, QuietInv, ClientNoPacket
  PROVE  QuietInv'
<1>1. /\ c_running /\ c_out = <<>> /\ s2c = <<>> /\ Client!NoPacket
      /\ UNCHANGED <<vars, quiet, c2s, s2c>>
  BY DEF ClientNoPacket, Client!Ready
<1>2. /\ ~ c_init /\ UNCHANGED <<i_period, c_running, c_init, c_nbCw, c_lead>>
      /\ Client!EndIteration(<<>>, c_streams)
  BY <1>1 DEF Client!NoPacket
<1>3. ~ b_init /\ Talking /\ c_streams \in Seq(BOOLEAN)
  BY <1>2, PairFacts
<1>4. c_nbCw' = 2 /\ c_lead' = 1
  BY <1>2, <1>3 DEF Talking
<1>5. Down' \in Seq(Answered')
  <2>1. Confirmed' = Confirmed
    BY <1>2, <1>3, ExtendedKeeps DEF Confirmed, Client!EndIteration
  <2>2. Answered' = Answered
    BY <2>1 DEF Answered, StatusOf, EcmOf, StreamMessage, Message
  <2>3. Down' = Down
    BY <1>1 DEF Down, vars
  <2> QED
    BY <1>2, <2>2, <2>3 DEF QuietInv, OnTheWay
<1> QED
  BY <1>1, <1>2, <1>3, <1>4, <1>5, IterationIsPrompt

(* What a message does that is moved along. *)
LEMMA MovesArePrompt ==
  ASSUME PairInv, QuietInv,
         UNCHANGED <<i_period, c_running, c_init, c_streams, turn, lag>>,
         UNCHANGED <<b_init, quiet, Up, Down>>, out' = out \/ out' = <<>>
  PROVE  QuietInv'
<1>1. Confirmed' = Confirmed /\ Asked' = Asked /\ Answered' = Answered
  BY ConfirmedStays
<1>2. OnTheWay'
  BY <1>1 DEF QuietInv, OnTheWay, Status, Message
<1>3. \A i : Phase(i)' = Phase(i)
  BY DEF Phase
<1>4. WaitInv'
  BY <1>1, <1>3 DEF QuietInv, WaitInv
<1> QED
  BY <1>2, <1>4 DEF QuietInv

LEMMA WriteIsPrompt ==
  ASSUME PairInv, QuietInv, ClientWrite
  PROVE  QuietInv' /\ UNCHANGED <<Up, Down>>
<1>1. /\ c_out # <<>> /\ c_out' = Tail(c_out) /\ c2s' = Append(c2s, Head(c_out))
      /\ UNCHANGED <<i_period, c_running, c_init, c_streams, c_nbCw, c_lead, turn, lag, balance>>
      /\ UNCHANGED <<running, b_init, i_version, i_channelid, streams, out, s2c, quiet>>
  BY DEF ClientWrite, Client!Write, vars
<1>2. Up' = Up
  <2>1. CASE b_init
    <3>1. c_out = <<Request>> /\ c2s = <<>>
      BY <1>1, <2>1 DEF PairInv, ChannelInv, Asking
    <3>2. c_out' = <<>> /\ c2s' = <<Request>> /\ <<>> \o <<Request>> = <<Request>> \o <<>>
      BY <1>1, <3>1
    <3> QED
      BY <3>1, <3>2 DEF Up
  <2>2. CASE ~ b_init
    <3>1. c2s \in Seq(ForServer) /\ c_out \in Seq(ForServer)
      BY <2>2, PairFacts DEF Talking
    <3> QED
      BY <1>1, <3>1, MovedAlong DEF Up
  <2> QED
    BY <2>1, <2>2
<1>3. Down' = Down
  BY <1>1 DEF Down
<1> QED
  BY <1>1, <1>2, <1>3, MovesArePrompt

LEMMA ServerWriteIsPrompt ==
  ASSUME PairInv, QuietInv, ServerWrite
  PROVE  QuietInv' /\ UNCHANGED <<Up, Down>>
<1>1. /\ out # <<>> /\ out' = <<>> /\ s2c' = Append(s2c, out[1])
      /\ UNCHANGED <<b_init, i_version, i_channelid, streams, clientVars, c2s, quiet>>
  BY DEF ServerWrite, Write, ClientGone, QuietInv
<1>2. UNCHANGED <<c_init, c_running, c_streams, c_nbCw, c_lead, c_out, i_period, turn, lag, balance>>
  BY <1>1 DEF clientVars
<1>3. Talking
  BY <1>1 DEF PairInv, ChannelInv, Asking
<1>4. PICK m \in ForClient : out = <<m>>
  BY <1>1, <1>3 DEF Talking
<1>5. Down' = Down
  <2>1. s2c \in Seq(ForClient)
    BY <1>3 DEF Talking
  <2>2. Append(s2c, m) \o <<>> = s2c \o <<m>>
    BY <1>4, <2>1
  <2> QED
    BY <1>1, <1>4, <2>2 DEF Down
<1>6. Up' = Up
  BY <1>1, <1>2 DEF Up
<1> QED
  BY <1>1, <1>2, <1>5, <1>6, MovesArePrompt

(* The crypto-period is chosen once. *)
LEMMA PeriodStays ==
  ASSUME [EcmgNext]_allVars
  PROVE  i_period' = i_period
BY DEF EcmgNext, allVars, clientVars, ClientStep, ClientReceive, ClientNoPacket, ClientWrite,
   ServerReceive, ServerTimeout, ServerWrite, ServerEof, Second, Client!Receive, Client!GiveUp,
   Client!ChannelConfirmed, Client!StreamConfirmed, Client!OtherMessage, Client!NoPacket,
   Client!Write, Client!Tick

(* The server reads: what it answers is about a stream that was asked for, *)
(* or about one that is confirmed, and its waiting starts anew.            *)
LEMMA ServerReceiveIsPrompt ==
  ASSUME PairInv, QuietInv, ServerReceive
  PROVE  /\ QuietInv'
         /\ ~ c_init => \E m : out = <<>> /\ out' = <<m>> /\ c2s # <<>> /\ c2s' = Tail(c2s)
<1>1. /\ c2s # <<>> /\ out = <<>> /\ Handle(Head(c2s)) /\ c2s' = Tail(c2s)
      /\ UNCHANGED <<clientVars, s2c>> /\ quiet' = 0
  BY DEF ServerReceive, Ready
<1>2. UNCHANGED <<i_period, c_running, c_init, c_streams, c_out, turn, lag>>
  BY <1>1 DEF clientVars
<1>3. Confirmed' = Confirmed /\ Asked' = Asked /\ Answered' = Answered
  BY <1>2, ConfirmedStays
<1>4. /\ i_period \in Nat \ {0} /\ lag \in Nat /\ MaxLag \in Nat
      /\ c_streams \in Seq(BOOLEAN) /\ DOMAIN c_streams = 1 .. Len(c_streams)
      /\ \A i \in DOMAIN c_streams : Phase(i) \in 0 .. i_period - 1
      /\ Confirmed \subseteq Open
      /\ ~ c_init => ~ b_init
      /\ ~ b_init => Talking
  BY PairFacts
<1>5. WaitInv'
  <2>1. ASSUME NEW i \in Confirmed
        PROVE  0 <= Phase(i)' + lag
    <3>1. i \in DOMAIN c_streams /\ Phase(i)' = Phase(i)
      BY <1>2 DEF Confirmed, Phase
    <3> QED
      BY <1>4, <3>1
  <2>2. 0 <= lag
    BY <1>4
  <2> QED
    BY <1>1, <1>2, <1>3, <2>1, <2>2 DEF WaitInv
<1>6. /\ c_running' /\ quiet' \in Nat /\ quiet' < i_period' + MaxLag
      /\ c_init' \/ out' # <<>> => quiet' = 0
      /\ ~ c_init' => c_streams' # <<>> /\ lag' <= MaxLag
  <2>1. 0 < i_period + MaxLag
    BY <1>4
  <2> QED
    BY <1>1, <1>2, <2>1 DEF QuietInv
<1>7. CASE c_init
  <2>1. b_init
    BY <1>1, <1>4, <1>7 DEF Talking, QuietInv
  <2>2. Asking
    BY <2>1 DEF PairInv, ChannelInv
  <2>3. c2s = <<Request>> /\ s2c = <<>>
    BY <1>1, <2>2 DEF Asking
  <2>4. ChannelSetup(Request)
    BY <1>1, <2>1, <2>3, RequestHandled
  <2>5. out' = <<Status(1, Channel)>>
    BY <2>4, ChannelMessageIs DEF ChannelSetup
  <2>6. Down' = <<Status(1, Channel)>>'
    <3>1. <<>> \o <<Status(1, Channel)>> = <<Status(1, Channel)>>
      OBVIOUS
    <3>2. Status(1, Channel)' = Status(1, Channel)
      BY DEF Status, Message
    <3> QED
      BY <1>1, <2>3, <2>5, <3>1, <3>2 DEF Down
  <2>7. OnTheWay'
    BY <1>2, <1>7, <2>6 DEF OnTheWay
  <2> QED
    BY <1>5, <1>6, <1>7, <2>7 DEF QuietInv
<1>8. CASE ~ c_init
  <2>1. ~ b_init /\ Talking
    BY <1>4, <1>8
  <2>2. Up \in Seq(Asked) /\ Down \in Seq(Answered)
    BY <1>8 DEF QuietInv, OnTheWay
  <2>3. Head(c2s) \in Asked /\ Up' \in Seq(Asked)
    <3>1. c2s \in Seq(ForServer) /\ c_out \in Seq(ForServer)
      BY <2>1 DEF Talking
    <3>2. Head(Up) = Head(c2s) /\ Tail(Up) = Tail(c2s) \o c_out /\ Up # <<>>
      BY <1>1, <3>1 DEF Up
    <3>3. Up' = Tail(Up)
      BY <1>1, <1>2, <3>2 DEF Up
    <3> QED
      BY <2>2, <3>2, <3>3, HeadTailProperties
  <2>4. PICK m \in Answered : out' = <<m>>
    <3>1. CASE \E i \in 1 .. Wanted : Head(c2s) = SetupOf(i)
      BY <2>1, <3>1, SetupAnswered DEF Answered
    <3>2. CASE \E i \in Confirmed : Head(c2s) = CwOf(i)
      BY <1>4, <2>1, <3>2, CwAnswered DEF Answered
    <3> QED
      BY <2>3, <3>1, <3>2 DEF Asked
  <2>5. Down' \in Seq(Answered)
    <3>1. s2c \in Seq(Answered)
      <4>1. s2c \in Seq(ForClient)
        BY <2>1 DEF Talking
      <4>2. s2c \o <<>> = s2c
        BY <4>1, ConcatEmptySeq
      <4> QED
        BY <1>1, <2>2, <4>2 DEF Down
    <3>2. <<m>> \in Seq(Answered)
      OBVIOUS
    <3>3. Down' = s2c \o <<m>>
      BY <1>1, <2>4 DEF Down
    <3> QED
      BY <3>1, <3>2, <3>3, ConcatProperties
  <2>6. OnTheWay'
    BY <1>2, <1>3, <1>8, <2>3, <2>5 DEF OnTheWay
  <2> QED
    BY <1>1, <1>5, <1>6, <2>4, <2>6 DEF QuietInv
<1> QED
  BY <1>7, <1>8

LEMMA SecondIsPrompt ==
  ASSUME PairInv, QuietInv, Second
  PROVE  QuietInv'
<1>1. /\ InTime /\ Client!Tick
      /\ UNCHANGED <<running, b_init, i_version, i_channelid, streams, out, c2s, s2c>>
      /\ UNCHANGED <<i_period, c_running, c_init, c_streams, turn, c_out>>
      /\ quiet' = quiet \/ (Ready /\ c2s = <<>> /\ quiet' = quiet + 1)
  <2>1. quiet' = quiet \/ (Ready /\ c2s = <<>> /\ quiet' = quiet + 1)
    BY DEF Second
  <2>2. InTime /\ Client!Tick /\ UNCHANGED <<vars, c2s, s2c>>
    BY DEF Second
  <2> QED
    BY <2>1, <2>2 DEF Client!Tick, vars
<1>2. /\ i_period \in Nat \ {0} /\ lag \in Nat /\ MaxLag \in Nat
      /\ c_streams \in Seq(BOOLEAN)
      /\ \A i \in DOMAIN c_streams : Phase(i) \in 0 .. i_period - 1
      /\ ~ c_init => ~ b_init
      /\ ~ b_init => Talking
  BY PairFacts
<1>3. Confirmed' = Confirmed /\ Asked' = Asked /\ Answered' = Answered
  BY <1>1, ConfirmedStays
<1>4. Up' = Up /\ Down' = Down
  BY <1>1 DEF Up, Down
<1>5. OnTheWay'
  BY <1>1, <1>3, <1>4 DEF QuietInv, OnTheWay, Status, Message
<1>6. \A i : Phase(i)' = Phase(i)
  BY <1>1 DEF Phase
<1>7. quiet \in Nat /\ quiet < i_period + MaxLag
  BY DEF QuietInv
<1>8. Ready /\ c2s = <<>> => c_out = <<>> /\ out = <<>> /\ (c_init => s2c = <<>>)
  <2>1. c2s = <<>> => Room(c2s)
    BY PipeAssumption DEF Room
  <2> QED
    BY <1>1, <2>1 DEF InTime, Ready
<1>9. CASE c_init
  <2>1. ~ (Ready /\ c2s = <<>>)
    <3> SUFFICES ASSUME Ready, c2s = <<>>
                 PROVE  FALSE
      OBVIOUS
    <3>1. c_out = <<>> /\ out = <<>> /\ s2c = <<>>
      BY <1>8, <1>9
    <3>2. CASE b_init
      BY <3>1, <3>2 DEF PairInv, ChannelInv, Asking
    <3>3. CASE ~ b_init
      <4>1. Down = <<>>
        BY <3>1 DEF Down
      <4> QED
        BY <1>9, <3>3, <4>1 DEF QuietInv, OnTheWay
    <3> QED
      BY <3>2, <3>3
  <2>2. quiet' = quiet
    BY <1>1, <2>1
  <2>3. WaitInv'
    BY <1>1, <1>9 DEF WaitInv
  <2> QED
    BY <1>1, <1>5, <1>9, <2>2, <2>3 DEF QuietInv
<1>10. CASE ~ c_init
  <2>1. lag < MaxLag /\ lag' = lag + 1
    BY <1>1, <1>10 DEF Client!Tick
  <2>2. lag' <= MaxLag
    BY <1>2, <2>1
  <2>3. CASE Ready /\ c2s = <<>> /\ quiet' = quiet + 1
    <3>1. c_out = <<>> /\ out = <<>>
      BY <1>8, <2>3
    <3>2. Up = <<>>
      BY <2>3, <3>1 DEF Up
    <3>3. CASE \E i \in Confirmed : quiet <= Phase(i) + lag
      <4>1. PICK i \in Confirmed : quiet <= Phase(i) + lag
        BY <3>3
      <4>2. PICK p \in 0 .. i_period - 1 : p = Phase(i)
        BY <1>2 DEF Confirmed
      <4>3. quiet' <= Phase(i)' + lag'
        <5>1. quiet + 1 <= p + (lag + 1)
          BY <1>2, <1>7, <4>1, <4>2
        <5> QED
          BY <1>6, <2>1, <2>3, <4>2, <5>1
      <4>4. quiet' < i_period + MaxLag
        <5>1. quiet + 1 < i_period + MaxLag
          BY <1>2, <1>7, <2>1, <4>1, <4>2
        <5> QED
          BY <2>3, <5>1
      <4>5. WaitInv'
        BY <1>3, <4>3 DEF WaitInv
      <4> QED
        BY <1>1, <1>5, <1>7, <1>10, <2>2, <2>3, <3>1, <4>4, <4>5 DEF QuietInv
    <3>4. CASE Confirmed = {} /\ quiet <= lag
      <4>1. quiet' <= lag' /\ quiet' < i_period + MaxLag
        BY <1>2, <1>7, <2>1, <2>3, <3>4
      <4>2. WaitInv'
        BY <1>3, <3>4, <4>1 DEF WaitInv
      <4> QED
        BY <1>1, <1>5, <1>7, <1>10, <2>2, <2>3, <3>1, <4>1, <4>2 DEF QuietInv
    <3> QED
      BY <1>10, <3>2, <3>3, <3>4 DEF QuietInv, WaitInv
  <2>4. CASE quiet' = quiet
    <3>1. WaitInv'
      <4> SUFFICES ASSUME Up = <<>>
                   PROVE  \/ \E i \in Confirmed : quiet <= Phase(i) + lag'
                          \/ Confirmed = {} /\ quiet <= lag'
        BY <1>3, <1>4, <1>6, <2>4 DEF WaitInv
      <4>1. CASE \E i \in Confirmed : quiet <= Phase(i) + lag
        <5>1. PICK i \in Confirmed : quiet <= Phase(i) + lag
          BY <4>1
        <5>2. PICK p \in 0 .. i_period - 1 : p = Phase(i)
          BY <1>2 DEF Confirmed
        <5>3. quiet <= Phase(i) + lag'
          BY <1>2, <1>7, <2>1, <5>1, <5>2
        <5> QED
          BY <5>3
      <4>2. CASE Confirmed = {} /\ quiet <= lag
        BY <1>2, <1>7, <2>1, <4>2
      <4> QED
        BY <1>10, <4>1, <4>2 DEF QuietInv, WaitInv
    <3> QED
      BY <1>1, <1>5, <1>10, <2>2, <2>4, <3>1 DEF QuietInv
  <2> QED
    BY <1>1, <2>3, <2>4
<1> QED
  BY <1>9, <1>10

(* The server never gets tired of waiting. *)
LEMMA NoTimeout ==
  ASSUME Prompt, PairInv, QuietInv
  PROVE  ~ ServerTimeout
<1>1. quiet \in Nat /\ quiet < i_period + MaxLag /\ i_period + MaxLag < Patience
  BY DEF QuietInv, Prompt
<1>2. quiet # Patience
  BY <1>1, PairFacts, PipeAssumption
<1> QED
  BY <1>2 DEF ServerTimeout

LEMMA StepIsPrompt ==
  ASSUME Prompt, PairInv, PairInv', QuietInv, [EcmgNext]_allVars
  PROVE  QuietInv'
<1>1. CASE UNCHANGED allVars
  <2>1. UNCHANGED <<Up, Down>>
    BY <1>1 DEF allVars, clientVars, vars, Up, Down
  <2> QED
    BY <1>1, <2>1, MovesArePrompt DEF allVars, clientVars, vars
<1>2. ~ ServerEof
  BY DEF ServerEof, ClientGone, QuietInv
<1>3. ~ ServerTimeout
  BY NoTimeout
<1> QED
  BY <1>1, <1>2, <1>3, ReceiveIsPrompt, NoPacketIsPrompt, WriteIsPrompt, ServerReceiveIsPrompt,
     ServerWriteIsPrompt, SecondIsPrompt DEF EcmgNext, ClientStep

LEMMA InitQuietInv == EcmgInit => QuietInv
<1> SUFFICES ASSUME EcmgInit
             PROVE  QuietInv
  OBVIOUS
<1>1. PairInv
  BY InitPairInv
<1>2. c_running /\ c_init /\ b_init /\ quiet = 0
  BY DEF EcmgInit, Init, Client!Init
<1>3. 0 < i_period + MaxLag
  BY <1>1, PairFacts
<1> QED
  BY <1>2, <1>3 DEF QuietInv, OnTheWay, WaitInv

(* For any number of streams that the server supports, any lateness and    *)
(* any crypto-period that, with it, stays below the timeout of the server, *)
(* the server never asks the client whether it is there, and so the client *)
(* never ends (select_wrapper of dvb_ecmg.c, handle_channel_test of        *)
(* dvb_ecmg_test.c).                                                       *)
THEOREM NobodyIsReset == Wanted \in 1 .. MaxStreams => (EcmgSpec => []NotReset)
<1> SUFFICES ASSUME Wanted \in 1 .. MaxStreams
             PROVE  EcmgSpec => []NotReset
  OBVIOUS
<1> DEFINE PromptInv == PairInv /\ (Prompt => QuietInv)
<1>1. EcmgInit => PromptInv
  BY InitPairInv, InitQuietInv
<1>2. PromptInv /\ [EcmgNext]_allVars => PromptInv'
  <2> SUFFICES ASSUME PromptInv, [EcmgNext]_allVars
               PROVE  PromptInv'
    OBVIOUS
  <2>1. PairInv'
    BY StepKeepsPairInv
  <2>2. Prompt' => Prompt
    BY PeriodStays DEF Prompt
  <2> QED
    BY <2>1, <2>2, StepIsPrompt
<1>3. PromptInv => NotReset
  BY DEF Prompt, QuietInv, NotReset
<1> QED
  BY <1>1, <1>2, <1>3, PTL DEF EcmgSpec

-----------------------------------------------------------------------------
(* Room in the pipes.                                                      *)

(* What the two have on the way, in the course of setting streams up and   *)
(* from then on.                                                           *)
Load == Len(Up) + Len(Down)

LoadInv ==
  /\ Len(c2s) <= Capacity
  /\ ~ c_init => \/ c_streams = <<FALSE>> /\ Load <= 1
                 \/ Len(c_streams) >= 2 /\ Load <= 2 * Len(c_streams) - 2
                 \/ Len(c_streams) = Wanted /\ Load <= Capacity + 2

(* The client is never late, no two streams have their turn in the same    *)
(* second, and there are not many more of them than a pipe can hold        *)
(* messages.                                                               *)
Steady == Prompt /\ MaxLag = 1 /\ Wanted <= i_period /\ Wanted <= Capacity + 1

LEMMA Lengths ==
  ASSUME Talking
  PROVE  /\ Len(c2s) \in Nat /\ Len(c_out) \in Nat /\ Len(s2c) \in Nat /\ Len(out) \in {0, 1}
         /\ Len(Up) = Len(c2s) + Len(c_out) /\ Len(Down) = Len(s2c) + Len(out)
<1>1. c2s \in Seq(ForServer) /\ c_out \in Seq(ForServer) /\ s2c \in Seq(ForClient)
      /\ out \in Seq(ForClient)
  BY UpDown DEF Talking
<1>2. out = <<>> \/ \E m : out = <<m>>
  BY DEF Talking
<1> QED
  BY <1>1, <1>2 DEF Up, Down

(* An iteration sends at most one control word, and none as long as no     *)
(* stream is confirmed.                                                    *)
LEMMA OneTurn ==
  ASSUME Steady, PairInv, NEW confirmed \in Seq(BOOLEAN), Len(confirmed) = Len(c_streams),
         lag <= 1 \/ confirmed = <<>>
  PROVE  /\ Cardinality(Client!Turns(confirmed)) \in {0, 1}
         /\ (\A i \in DOMAIN confirmed : ~ confirmed[i]) =>
              Cardinality(Client!Turns(confirmed)) = 0
<1> DEFINE T == Client!Turns(confirmed)
<1>1. /\ i_period \in Nat \ {0} /\ lag \in Nat /\ Wanted \in Nat
      /\ Len(c_streams) \in Nat /\ Len(c_streams) <= Wanted
  BY PairFacts
<1>2. \A t \in T : /\ t = <<t[1], t[2]>> /\ t[1] \in 1 .. lag /\ t[2] \in 1 .. Len(confirmed)
                   /\ confirmed[t[2]]
                   /\ (t[2] - 1) % i_period = (turn + t[1]) % i_period
  BY DEF Client!Turns
<1> HIDE DEF T
<1>3. ASSUME NEW t \in T
      PROVE  t[1] = 1 /\ t[2] - 1 \in 0 .. i_period - 1 /\ (t[2] - 1) % i_period = t[2] - 1
  <2>1. PICK a \in 1 .. lag, b \in 1 .. Len(confirmed) : a = t[1] /\ b = t[2]
    BY <1>2
  <2>2. Wanted <= i_period
    BY DEF Steady
  <2>3. a = 1 /\ b - 1 \in 0 .. i_period - 1
    <3>1. Len(confirmed) # 0
      BY <1>1, <2>1
    <3>2. lag <= 1
      BY <3>1
    <3> QED
      BY <1>1, <2>1, <2>2, <3>2
  <2>4. (b - 1) % i_period = b - 1
    BY <1>1, <2>3
  <2> QED
    BY <2>1, <2>3, <2>4
<1>4. \A t, u \in T : t = u
  <2> SUFFICES ASSUME NEW t \in T, NEW u \in T
               PROVE  t = u
    OBVIOUS
  <2>1. t[1] = u[1] /\ t[2] - 1 = u[2] - 1
    BY <1>2, <1>3
  <2>2. t[2] \in Int /\ u[2] \in Int
    BY <1>1, <1>2
  <2>3. t[2] = u[2]
    BY <2>1, <2>2
  <2> QED
    BY <1>2, <2>1, <2>3
<1>5. Cardinality(T) \in {0, 1}
  <2>1. CASE T = {}
    BY <2>1, FS_EmptySet
  <2>2. CASE T # {}
    <3>1. PICK t : t \in T
      BY <2>2
    <3>2. T = {t}
      BY <1>4, <3>1
    <3> QED
      BY <3>2, FS_Singleton
  <2> QED
    BY <2>1, <2>2
<1>6. ASSUME \A i \in DOMAIN confirmed : ~ confirmed[i]
      PROVE  Cardinality(T) = 0
  <2>1. T = {}
    BY <1>2, <1>6
  <2> QED
    BY <2>1, FS_EmptySet
<1> QED
  BY <1>5, <1>6 DEF T

(* How an iteration adds to what is on the way: the first setup, one more, *)
(* or none.                                                                *)
LEMMA IterationLoads ==
  ASSUME Steady, PairInv, LoadInv, ~ b_init, c_out = <<>>, ~ c_init => lag <= 1,
         NEW confirmed \in Seq(BOOLEAN), Len(confirmed) = Len(c_streams),
         Client!EndIteration(<<>>, confirmed), c_nbCw' = 2, c_lead' = 1, c2s' = c2s,
         \/ c_init /\ c_streams = <<>> /\ c2s = <<>> /\ Len(Down') = 0
         \/ ~ c_init /\ Len(Down') = Len(Down) - 1
         \/ ~ c_init /\ Len(Down') = Len(Down) /\ s2c = <<>> /\ confirmed = c_streams
  PROVE  LoadInv'
<1> DEFINE T == Client!Turns(confirmed)
<1>1. /\ Wanted \in Nat /\ Wanted >= 1 /\ lag \in Nat /\ c_streams \in Seq(BOOLEAN)
      /\ Len(c_streams) \in Nat /\ Len(c_streams) <= Wanted /\ Talking
  BY PairFacts DEF Steady, Prompt
<1>2. Len(c_out') = (IF Len(c_streams) < Wanted THEN 1 ELSE 0) + Cardinality(T)
      /\ c_out' \in Seq(Sendable(confirmed))
  BY <1>1, IterationSends
<1>3. /\ Cardinality(T) \in {0, 1}
      /\ (\A i \in DOMAIN confirmed : ~ confirmed[i]) => Cardinality(T) = 0
  <2>1. c_init => Len(confirmed) = 0
    OBVIOUS
  <2> QED
    BY <2>1, OneTurn
<1> HIDE DEF T
<1>4. /\ Len(c2s) \in Nat /\ Len(s2c) \in Nat /\ Len(out) \in {0, 1}
      /\ Len(Up) = Len(c2s) /\ Len(Down) = Len(s2c) + Len(out)
  BY <1>1, Lengths
<1>5. Len(Up') = Len(c2s) + Len(c_out')
  <2>1. c2s \in Seq(ForServer)
    BY <1>1 DEF Talking
  <2> QED
    BY <1>2, <2>1 DEF Up
<1>6. PICK L \in Nat, M \in Nat, w \in {0, 1}, u \in Nat, r \in Nat, o \in {0, 1}, C \in Nat, W \in Nat :
        /\ L = Len(c_streams) /\ M = Len(c_streams') /\ w = Cardinality(T)
        /\ u = Len(c2s) /\ r = Len(s2c) /\ o = Len(out) /\ C = Capacity /\ W = Wanted
  <2>1. Len(c_streams') \in Nat
    BY ExtendedKeeps DEF Client!EndIteration
  <2> QED
    BY <1>1, <1>3, <1>4, <2>1, PipeAssumption
<1>7. M = IF L < W THEN L + 1 ELSE L
  BY <1>6 DEF Client!EndIteration, Client!Extended
<1>8. Load = u + (r + o) /\ Load' = u + ((IF L < W THEN 1 ELSE 0) + w) + Len(Down')
  BY <1>2, <1>4, <1>5, <1>6 DEF Load
<1>9. L <= W /\ W >= 1 /\ u <= C
  BY <1>1, <1>6 DEF LoadInv
<1>10. Len(c2s') <= Capacity
  BY DEF LoadInv
<1>11. CASE c_init /\ c_streams = <<>> /\ c2s = <<>> /\ Len(Down') = 0
  <2>1. L = 0 /\ u = 0 /\ confirmed = <<>>
    BY <1>6, <1>11
  <2>2. w = 0
    BY <1>3, <1>6, <2>1
  <2>3. c_streams' = <<FALSE>>
    <3>1. c_streams' = Append(<<>>, FALSE)
      <4>1. Len(confirmed) < Wanted
        BY <1>6, <1>9, <2>1
      <4> QED
        BY <2>1, <4>1 DEF Client!EndIteration, Client!Extended
    <3>2. Append(<<>>, FALSE) = <<FALSE>>
      OBVIOUS
    <3> QED
      BY <3>1, <3>2
  <2>4. Load' <= 1
    BY <1>6, <1>8, <1>9, <1>11, <2>1, <2>2
  <2> QED
    BY <1>10, <2>3, <2>4 DEF LoadInv
<1>12. CASE ~ c_init
  <2>1. PICK d \in Nat, e \in Int, s \in {0, 1}, t \in Int :
          /\ d = Load /\ e = Load' /\ s = (IF L < W THEN 1 ELSE 0) /\ t = Len(Down')
          /\ d = u + (r + o) /\ e = u + (s + w) + t
    <3>1. PICK s \in {0, 1} : s = IF L < W THEN 1 ELSE 0
      OBVIOUS
    <3>2. PICK t \in Int : t = Len(Down')
      <4>1. Len(Down) = r + o
        BY <1>4, <1>6
      <4>2. r + o \in Int /\ (r + o) - 1 \in Int
        OBVIOUS
      <4> QED
        BY <1>12, <4>1, <4>2
    <3>3. u + (r + o) \in Nat /\ u + (s + w) + t \in Int
      OBVIOUS
    <3> QED
      BY <1>8, <3>1, <3>2, <3>3
  <2>2. \/ e = d + s + w - 1
        \/ e = d + s + w /\ d <= C + 1 /\ confirmed = c_streams
    <3>1. CASE Len(Down') = Len(Down) - 1
      <4>1. t = (r + o) - 1
        BY <1>4, <1>6, <2>1, <3>1
      <4> QED
        BY <2>1, <4>1
    <3>2. CASE Len(Down') = Len(Down) /\ s2c = <<>> /\ confirmed = c_streams
      <4>1. r = 0 /\ t = r + o
        BY <1>4, <1>6, <2>1, <3>2
      <4>2. e = d + s + w /\ d <= C + 1
        BY <1>9, <2>1, <4>1
      <4> QED
        BY <3>2, <4>2
    <3> QED
      BY <1>12, <3>1, <3>2
  <2> SUFFICES \/ M >= 2 /\ e <= 2 * M - 2
               \/ M = W /\ e <= C + 2
    BY <1>6, <1>10, <2>1 DEF LoadInv
  <2>3. CASE c_streams = <<FALSE>> /\ Load <= 1
    <3>1. L = 1 /\ d <= 1
      BY <1>6, <2>1, <2>3
    <3>2. confirmed = c_streams => w = 0
      <4> SUFFICES ASSUME confirmed = <<FALSE>>
                   PROVE  w = 0
        BY <2>3
      <4>1. DOMAIN <<FALSE>> = {1} /\ ~ <<FALSE>>[1]
        OBVIOUS
      <4>2. \A i \in DOMAIN confirmed : ~ confirmed[i]
        BY <4>1
      <4> QED
        BY <1>3, <1>6, <4>2
    <3>3. e <= 1 + s
      BY <2>2, <3>1, <3>2
    <3> QED
      BY <1>7, <1>9, <2>1, <3>1, <3>3
  <2>4. CASE Len(c_streams) >= 2 /\ Load <= 2 * Len(c_streams) - 2
    <3>1. L >= 2 /\ d <= 2 * L - 2
      BY <1>6, <2>1, <2>4
    <3> QED
      BY ONLY <1>7, <1>9, <2>1, <2>2, <3>1, L \in Nat, M \in Nat, u \in Nat, C \in Nat, W \in Nat, w \in {0, 1}, d \in Nat, e \in Int
  <2>5. CASE Len(c_streams) = Wanted /\ Load <= Capacity + 2
    <3>1. L = W /\ d <= C + 2
      BY <1>6, <2>1, <2>5
    <3> QED
      BY ONLY <1>7, <1>9, <2>1, <2>2, <3>1, L \in Nat, M \in Nat, u \in Nat, C \in Nat, W \in Nat, w \in {0, 1}, d \in Nat, e \in Int
  <2> QED
    BY <1>12, <2>3, <2>4, <2>5 DEF LoadInv
<1> QED
  BY <1>11, <1>12

LEMMA PipeIsSequence ==
  ASSUME PairInv
  PROVE  \E S : c2s \in Seq(S)
<1>1. CASE b_init
  <2>1. c2s = <<>> \/ c2s = <<Request>>
    BY <1>1 DEF PairInv, ChannelInv, Asking
  <2>2. <<>> \in Seq({Request}) /\ <<Request>> \in Seq({Request})
    OBVIOUS
  <2> QED
    BY <2>1, <2>2, Zenon
<1>2. CASE ~ b_init
  BY <1>2, PairFacts DEF Talking
<1> QED
  BY <1>1, <1>2

LEMMA StepLoads ==
  ASSUME Steady, PairInv, PairInv', QuietInv, LoadInv, [EcmgNext]_allVars
  PROVE  LoadInv'
<1>1. /\ lag \in Nat /\ Capacity \in Nat /\ c_streams \in Seq(BOOLEAN) /\ (~ c_init => ~ b_init)
      /\ (~ b_init => Talking) /\ (~ c_init => lag <= 1)
  BY PairFacts, PipeAssumption DEF QuietInv, Steady
<1>2. CASE UNCHANGED allVars
  BY <1>2 DEF allVars, clientVars, vars, LoadInv, Load, Up, Down
<1>3. CASE ClientReceive
  <2>1. PICK confirmed \in Seq(BOOLEAN) :
          Len(confirmed) = Len(c_streams) /\ Client!EndIteration(<<>>, confirmed)
    BY <1>3, ReceiveIsPrompt DEF Steady
  <2>2. /\ s2c # <<>> /\ s2c' = Tail(s2c) /\ ~ c_init' /\ c_running /\ c_out = <<>>
        /\ UNCHANGED <<vars, quiet, c2s>>
    BY <1>3, ReceiveIsPrompt DEF Steady, ClientReceive, Client!Ready
  <2>3. ~ b_init /\ Talking /\ Talking'
    BY <1>3, <2>2, ClientReads DEF PairInv, ChannelInv, vars
  <2>4. c_nbCw' = 2 /\ c_lead' = 1
    BY <2>2, <2>3 DEF Talking
  <2>5. s2c \in Seq(ForClient) /\ out \in Seq(ForClient) /\ out' = out
    BY <2>2, <2>3, UpDown DEF Talking, vars
  <2>6. Len(Down') = Len(Down) - 1
    <3>1. Len(Tail(s2c) \o out) = Len(s2c \o out) - 1
      BY <2>2, <2>5
    <3> QED
      BY <2>2, <2>5, <3>1 DEF Down
  <2>7. CASE c_init
    <3>1. c_streams = <<>> /\ c2s = <<>>
      BY <2>2, <2>3, <2>7 DEF Talking
    <3>2. Down = <<Status(1, Channel)>>
      BY <2>3, <2>7 DEF QuietInv, OnTheWay
    <3>3. Len(Down') = 0
      BY <2>6, <3>2
    <3> QED
      BY <2>1, <2>2, <2>3, <2>4, <2>7, <3>1, <3>3, IterationLoads
  <2>8. CASE ~ c_init
    BY <1>1, <2>1, <2>2, <2>3, <2>4, <2>6, <2>8, IterationLoads
  <2> QED
    BY <2>7, <2>8
<1>4. CASE ClientNoPacket
  <2>1. /\ c_running /\ c_out = <<>> /\ s2c = <<>> /\ Client!NoPacket
        /\ UNCHANGED <<vars, quiet, c2s, s2c>>
    BY <1>4 DEF ClientNoPacket, Client!Ready
  <2>2. ~ c_init /\ UNCHANGED <<c_nbCw, c_lead>> /\ Client!EndIteration(<<>>, c_streams)
    BY <2>1 DEF Client!NoPacket
  <2>3. ~ b_init /\ c_nbCw' = 2 /\ c_lead' = 1
    BY <1>1, <2>2 DEF Talking
  <2>4. Down' = Down
    BY <2>1 DEF Down, vars
  <2> QED
    BY <1>1, <2>1, <2>2, <2>3, <2>4, IterationLoads
<1>5. CASE ClientWrite
  <2>1. UNCHANGED <<Up, Down, c_init, c_streams>> /\ Room(c2s) /\ c2s' = Append(c2s, Head(c_out))
    BY <1>5, WriteIsPrompt DEF ClientWrite, Client!Write
  <2>2. Len(c2s') <= Capacity
    <3>1. \E S : c2s \in Seq(S)
      BY <1>1, PipeIsSequence
    <3>2. PICK S, h : c2s \in Seq(S \cup {h}) /\ h = Head(c_out)
      BY <3>1, SeqMonotonic
    <3>3. Len(Append(c2s, h)) = Len(c2s) + 1 /\ Len(c2s) \in Nat
      BY <3>2
    <3> QED
      BY <1>1, <2>1, <3>2, <3>3 DEF Room
  <2> QED
    BY <2>1, <2>2 DEF LoadInv, Load
<1>6. CASE ServerWrite
  <2>1. UNCHANGED <<Up, Down, c_init, c_streams, c2s>>
    BY <1>6, ServerWriteIsPrompt DEF ServerWrite, clientVars
  <2> QED
    BY <2>1 DEF LoadInv, Load
<1>7. CASE Second
  <2>1. UNCHANGED <<Up, Down, c_init, c_streams, c2s>>
    BY <1>7 DEF Second, Client!Tick, vars, Up, Down
  <2> QED
    BY <2>1 DEF LoadInv, Load
<1>8. CASE ServerReceive
  <2>1. c2s # <<>> /\ c2s' = Tail(c2s) /\ UNCHANGED <<clientVars, s2c>> /\ out = <<>>
    BY <1>8 DEF ServerReceive, Ready
  <2>2. \E S : c2s \in Seq(S)
    BY <1>1, PipeIsSequence
  <2>3. Len(c2s') = Len(c2s) - 1 /\ Len(c2s) \in Nat
    BY <2>1, <2>2
  <2>4. Len(c2s') <= Capacity
    BY <1>1, <2>3 DEF LoadInv
  <2>5. ~ c_init => Load' = Load
    <3> SUFFICES ASSUME ~ c_init
                 PROVE  Load' = Load
      OBVIOUS
    <3>1. PICK m : out' = <<m>>
      BY <1>8, ServerReceiveIsPrompt
    <3>2. Talking
      BY <1>1
    <3>3. c2s \in Seq(ForServer) /\ c_out \in Seq(ForServer) /\ s2c \in Seq(ForClient)
      BY <3>2 DEF Talking
    <3>4. Len(Tail(c2s) \o c_out) = Len(c2s) - 1 + Len(c_out) /\ Len(c_out) \in Nat
      BY <2>1, <3>3
    <3>5. Len(s2c \o <<m>>) = Len(s2c) + 1 /\ Len(s2c) \in Nat
      <4>1. s2c \in Seq(ForClient \cup {m}) /\ <<m>> \in Seq(ForClient \cup {m})
        BY <3>3, SeqMonotonic
      <4> QED
        BY <4>1
    <3>6. Len(Up) = Len(c2s) + Len(c_out) /\ Len(Down) = Len(s2c) + 0
      BY <2>1, <3>2, Lengths
    <3>7. Up' = Tail(c2s) \o c_out /\ Down' = s2c \o <<m>>
      BY <2>1, <3>1 DEF Up, Down, clientVars
    <3>8. PICK a \in Nat, b \in Nat, c \in Nat : a = Len(c2s) /\ b = Len(c_out) /\ c = Len(s2c)
      BY <2>3, <3>4, <3>5
    <3>9. Load = (a + b) + (c + 0)
      BY <3>6, <3>8 DEF Load
    <3>10. Load' = (a - 1 + b) + (c + 1)
      BY <3>4, <3>5, <3>7, <3>8 DEF Load
    <3> QED
      BY <3>9, <3>10
  <2> QED
    BY <2>1, <2>4, <2>5 DEF LoadInv, clientVars
<1>9. ~ ServerEof
  BY DEF ServerEof, ClientGone, QuietInv
<1>10. ~ ServerTimeout
  BY NoTimeout DEF Steady
<1> QED
  BY <1>2, <1>3, <1>4, <1>5, <1>6, <1>7, <1>8, <1>9, <1>10 DEF EcmgNext, ClientStep

LEMMA InitLoadInv == EcmgInit => LoadInv
BY PipeAssumption DEF EcmgInit, Client!Init, LoadInv

(* Where both pipes are full and both programs have more to write, there   *)
(* is more on the way than there ever is.                                  *)
LEMMA NoneStandsOff ==
  ASSUME Steady, PairInv, QuietInv, LoadInv
  PROVE  NoStandoff
<1> SUFFICES ASSUME c_out # <<>>, ~ Room(c2s), out # <<>>, ~ Room(s2c)
             PROVE  FALSE
  BY DEF NoStandoff
<1>1. ~ b_init /\ Talking
  BY DEF PairInv, ChannelInv, Asking
<1>2. ~ c_init
  BY <1>1 DEF Talking, QuietInv
<1>3. /\ Len(c2s) \in Nat /\ Len(c_out) \in Nat /\ Len(s2c) \in Nat /\ Len(out) \in {0, 1}
      /\ Len(Up) = Len(c2s) + Len(c_out) /\ Len(Down) = Len(s2c) + Len(out)
  BY <1>1, Lengths
<1>4. Len(c_out) # 0 /\ Len(out) # 0
  <2>1. c_out \in Seq(ForServer) /\ out \in Seq(ForClient)
    BY <1>1, UpDown DEF Talking
  <2> QED
    BY <2>1
<1>5. Capacity \in Nat \ {0} /\ Len(c_streams) \in Nat /\ Len(c_streams) <= Wanted /\ Wanted \in Nat
  BY PairFacts, PipeAssumption
<1>6. Load >= 2 * Capacity + 2
  BY <1>3, <1>4, <1>5 DEF Load, Room
<1>7. Wanted <= Capacity + 1
  BY DEF Steady
<1>8. PICK l \in Nat : l = Load
  BY <1>3 DEF Load
<1>9. \/ l <= 1
      \/ l <= 2 * Len(c_streams) - 2
      \/ l <= Capacity + 2
  BY <1>2, <1>8 DEF LoadInv
<1> QED
  BY <1>5, <1>6, <1>7, <1>8, <1>9

(* When the client is never late, no two of its streams have their turn in *)
(* the same second, its crypto-period is shorter than the timeout of the   *)
(* server, and it wants at most one stream more than a pipe holds          *)
(* messages, then the two never wait for each other to read, both with     *)
(* their pipes full (write_wrapper of both programs).                      *)
THEOREM NobodyStandsOff == EcmgSpec /\ Steady => []NoStandoff
<1> DEFINE SteadyInv == Steady /\ PairInv /\ QuietInv /\ LoadInv
<1>1. EcmgInit /\ Steady => SteadyInv
  BY InitPairInv, InitQuietInv, InitLoadInv
<1>2. SteadyInv /\ [EcmgNext]_allVars => SteadyInv'
  <2> SUFFICES ASSUME SteadyInv, [EcmgNext]_allVars
               PROVE  SteadyInv'
    OBVIOUS
  <2>1. PairInv'
    BY StepKeepsPairInv
  <2>2. Prompt /\ Steady'
    BY PeriodStays DEF Prompt, Steady
  <2> QED
    BY <2>1, <2>2, StepIsPrompt, StepLoads
<1>3. SteadyInv => NoStandoff
  BY NoneStandsOff
<1> QED
  BY <1>1, <1>2, <1>3, PTL DEF EcmgSpec
=============================================================================
