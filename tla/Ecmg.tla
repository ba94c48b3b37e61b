-------------------------------- MODULE Ecmg --------------------------------
(***************************************************************************)
(* The client of dvb_ecmg_test.c and the server of dvb_ecmg.c, connected   *)
(* by a pipe in each direction (a TCP connection, FIFOs), as the comments  *)
(* at the head of both programs describe.  A pipe holds a limited number   *)
(* of messages, and a process that writes into a full one waits.           *)
(*                                                                         *)
(* Time is that of EcmgClient.  A write that need not wait takes no time,  *)
(* and the client is late by no more than MaxLag.                          *)
(***************************************************************************)
EXTENDS EcmgPrograms

CONSTANTS
  Patience, \* SELECT_TIMEOUT of the server
  Capacity  \* messages that a pipe can hold

VARIABLES
  quiet,    \* how long the server has been waiting for a message
  c2s, s2c  \* the pipes

allVars == <<vars, clientVars, quiet, c2s, s2c>>

ASSUME PipeAssumption ==
  /\ 1 .. Wanted \subseteq StreamIds
  /\ Patience \in Nat \ {0} /\ Capacity \in Nat \ {0}

Requested == {Message(Client!Version, "channel_setup", Channel)}

Room(pipe) == Len(pipe) < Capacity

-----------------------------------------------------------------------------
(* The client *)

ClientReceive ==
  /\ Client!Ready /\ s2c # <<>>
  /\ Client!Receive(Head(s2c))
  /\ s2c' = Tail(s2c)
  /\ UNCHANGED <<vars, quiet, c2s>>

ClientNoPacket ==
  /\ Client!Ready /\ s2c = <<>>
  /\ Client!NoPacket
  /\ UNCHANGED <<vars, quiet, c2s, s2c>>

ClientWrite ==
  /\ Client!Write
  /\ Room(c2s)
  /\ c2s' = Append(c2s, Head(c_out))
  /\ UNCHANGED <<vars, quiet, s2c>>

ClientGone == ~ c_running /\ c_out = <<>>

(* The server *)

(* Slip: the timeout is not started anew for each message. *)
ServerReceiveQuiet ==
  /\ Ready /\ c2s # <<>>
  /\ Handle(Head(c2s))
  /\ c2s' = Tail(c2s)
  /\ UNCHANGED <<clientVars, quiet, s2c>>

ServerReceive ==
  /\ Ready /\ c2s # <<>>
  /\ Handle(Head(c2s))
  /\ c2s' = Tail(c2s)
  /\ quiet' = 0
  /\ UNCHANGED <<clientVars, s2c>>

ServerTimeout ==
  /\ Ready /\ c2s = <<>> /\ quiet = Patience
  /\ Timeout
  /\ quiet' = 0
  /\ UNCHANGED <<clientVars, c2s, s2c>>

(* What is written to a client that has gone is lost. *)
ServerWrite ==
  /\ Write
  /\ Room(s2c) \/ ClientGone
  /\ s2c' = IF ClientGone THEN s2c ELSE Append(s2c, out[1])
  /\ UNCHANGED <<clientVars, quiet, c2s>>

(* Slip: the end of input is taken for an interrupted read. *)
ServerEofAgain ==
  /\ Ready /\ c2s = <<>> /\ ClientGone
  /\ UNCHANGED allVars

(* read_wrapper meets the end of input. *)
ServerEof ==
  /\ Ready /\ c2s = <<>> /\ ClientGone
  /\ running' = FALSE
  /\ UNCHANGED <<clientVars, b_init, i_version, i_channelid, streams, out, quiet, c2s, s2c>>

-----------------------------------------------------------------------------

InTime ==
  /\ c_out = <<>> \/ ~ Room(c2s)
  /\ out = <<>> \/ ~ Room(s2c)
  /\ c_init => s2c = <<>>

(* A second passes; the server counts it when it has nothing to read, up   *)
(* to its timeout.                                                         *)
Second ==
  /\ c_running /\ running /\ InTime
  /\ Client!Tick
  /\ IF Ready /\ c2s = <<>>
       THEN quiet < Patience /\ quiet' = quiet + 1
       ELSE quiet' = quiet
  /\ UNCHANGED <<vars, c2s, s2c>>

EcmgInit ==
  /\ Init /\ Client!Init
  /\ quiet = 0
  /\ c2s = <<>> /\ s2c = <<>>

ClientStep == ClientReceive \/ ClientNoPacket
EcmgNext ==
  \/ ClientStep \/ ClientWrite
  \/ ServerReceive \/ ServerTimeout \/ ServerWrite \/ ServerEof
  \/ Second

(* Both processes do nothing but wait for each other and for the clock.    *)
EcmgSpec ==
  /\ EcmgInit /\ [][EcmgNext]_allVars
  /\ WF_allVars(ClientStep) /\ WF_allVars(ClientWrite)
  /\ WF_allVars(ServerReceive) /\ WF_allVars(ServerTimeout)
  /\ WF_allVars(ServerWrite) /\ WF_allVars(ServerEof)
  /\ WF_allVars(Second)

-----------------------------------------------------------------------------

(* What the server, and the client, have yet to read, in that order.       *)
Up   == c2s \o c_out
Down == s2c \o out

(* The two agree on the channel and on its streams: what the client takes  *)
(* for confirmed is there, and for a stream that it waits for either its   *)
(* setup or the status that confirms it is on the way, once (the handlers  *)
(* of both sides together).                                                *)
Agreed ==
  c_running =>
    /\ ~ c_init => ~ b_init /\ i_channelid = Channel /\ i_version = Client!Version
    /\ \A i \in DOMAIN c_streams :
         LET setup  == CountOf("stream_setup", i, Up)
             status == CountOf("stream_status", i, Down)
         IN  /\ setup + status = (IF c_streams[i] THEN 0 ELSE 1)
             /\ i \in Open <=> setup = 0
    /\ \A i \in Open : Client!Known(i)

(* No program has anything to complain about in what the other one sends.  *)
NoComplaint ==
  \A i \in DOMAIN (Up \o Down) : (Up \o Down)[i].type \notin {"channel_error", "stream_error"}

(* The two never wait for each other to read, both with their pipes full   *)
(* (write_wrapper blocks, and neither reads while it does).                *)
NoStandoff ==
  ~ (c_out # <<>> /\ ~ Room(c2s) /\ out # <<>> /\ ~ Room(s2c))

(* The client is not taken for dead, and does not end for it, as long as   *)
(* its crypto-periods are shorter than the timeout of the server           *)
(* (handle_channel_test of the client ends it, and each control word       *)
(* restarts the timeout).                                                  *)
NotReset == i_period + MaxLag < Patience => c_running

(* ECMs keep coming for every stream that was asked for, unless the client *)
(* has given up: every stream gets set up, and the two never wait for each *)
(* other (main of both programs).                                          *)
EcmAt(i) == s2c # <<>> /\ Head(s2c).type = "ecm" /\ Head(s2c).sid = i
EcmsKeepComing == \A i \in Client!StreamNames : []<>(EcmAt(i) \/ ~ c_running)

(* Once the client has given up, so does the server, which finds the end   *)
(* of its input (read_wrapper).                                            *)
EndsTogether == [](~ c_running => <> ~ running)
=============================================================================
