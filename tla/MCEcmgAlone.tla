---------------------------- MODULE MCEcmgAlone -----------------------------
(***************************************************************************)
(* The server and the client of the examples, each alone with a peer that  *)
(* sends anything at any time.                                             *)
(***************************************************************************)
EXTENDS EcmgPrograms

VARIABLE alone \* the program that runs

-----------------------------------------------------------------------------
(* What a client may send to the server: on two channels, for the streams  *)
(* there are, in an old and a new version of the protocol and in one that  *)
(* does not exist, everything that the handlers tell apart.                *)

Versions == {1, 2, 4}
Channels == {1, 2}

OnChannel(type) == {Message(v, type, c) : v \in Versions, c \in Channels}

(* No stream id is 0, the value of a parameter that is not there. *)
OnStream(type) ==
  {StreamMessage(v, type, c, s) : v \in Versions, c \in Channels, s \in StreamIds \ {0}}

Comb(len, cp) == [len |-> len, cp |-> cp]
Words == {<<>>, <<Comb(10, 7)>>, <<Comb(10, 7), Comb(10, 8)>>, <<Comb(10, 7), Comb(10, 9)>>,
          <<Comb(10, 7), Comb(8, 8)>>}

MCRequests ==
  UNION {OnChannel(type) : type \in {"channel_setup", "channel_test", "channel_close",
                                     "channel_error", "unknown"}}
  \cup UNION {OnStream(type) : type \in {"stream_test", "stream_closereq", "stream_status"}}
  \cup {[m EXCEPT !.ecmid = e] : m \in OnStream("stream_setup"), e \in {5, NULL}}
  \cup {[m EXCEPT !.encrypt = b, !.combs = w] :
          m \in OnStream("cw"), b \in BOOLEAN, w \in Words}
  \cup {[m EXCEPT !.form = f] : m \in OnChannel("channel_setup"),
                                f \in {"empty", "torn", "lacking"}}

-----------------------------------------------------------------------------
(* What a server may send to the client: statuses whose minimum duration,   *)
(* in tenths of a second, is as long as one of the crypto-periods or a bit  *)
(* longer, so that a client of any period meets one that it accepts and one *)
(* that it does not; the other answers fit each client but for what is      *)
(* wrong with them.                                                         *)

StatusFor(mindur) ==
  [Message(1, "channel_status", Channel) EXCEPT
     !.max = Wanted, !.mindur = mindur, !.nbCw = 1, !.lead = 1]

Shortest == CHOOSE p \in Periods : \A q \in Periods : p <= q
Fit == StatusFor(Shortest * 10)

MCAnswers ==
  {StatusFor(p * 10) : p \in Periods} \cup {StatusFor(p * 10 + 1) : p \in Periods}
  \cup {[Fit EXCEPT !.max = Wanted - 1], [Fit EXCEPT !.ver = 2],
        [Fit EXCEPT !.chan = Channel + 1]}
  \cup {[Fit EXCEPT !.form = f] : f \in {"torn", "lacking", "empty"}}
  \cup {Message(1, t, c) : t \in {"channel_test", "channel_error"}, c \in Channel .. Channel + 1}
  \cup {StreamMessage(1, t, c, s) :
          t \in {"stream_status", "stream_test", "stream_error", "ecm", "stream_closeresp"},
          c \in Channel .. Channel + 1, s \in 1 .. Wanted + 1}

-----------------------------------------------------------------------------

AloneInit ==
  /\ Init /\ Client!Init
  /\ alone \in {"server", "client"}
  /\ alone = "server" => i_period = Shortest /\ turn = 0

AloneNext ==
  \/ alone = "server" /\ Next /\ UNCHANGED <<clientVars, alone>>
  \/ alone = "client" /\ Client!Next /\ UNCHANGED <<vars, alone>>

AloneSpec == AloneInit /\ [][AloneNext]_<<vars, clientVars, alone>>
=============================================================================
