---------------------------- MODULE EcmgPrograms ----------------------------
(***************************************************************************)
(* The server of dvb_ecmg.c and the client of dvb_ecmg_test.c, side by     *)
(* side: each has state of its own.  How they are connected is said by     *)
(* Ecmg; in MCEcmgAlone they are not.                                      *)
(***************************************************************************)
EXTENDS EcmgServer

CONSTANTS Wanted, Periods, Channel, Answers, MaxLag \* see EcmgClient

ASSUME ClientAssumption ==
  Wanted \in Nat /\ Periods \subseteq Nat \ {0} /\ MaxLag \in Nat

VARIABLES
  i_period, c_running, c_init, c_streams, c_nbCw, c_lead, turn, lag, c_out, balance
            \* see EcmgClient

clientVars == <<i_period, c_running, c_init, c_streams, c_nbCw, c_lead, turn, lag, c_out, balance>>

Client == INSTANCE EcmgClient

(* However late the iterations of the client's main loop are, each         *)
(* confirmed stream gets one control word per crypto-period (check_cw; see *)
(* EcmgClient).                                                            *)
KeepsPace == Client!KeepsPace
=============================================================================
