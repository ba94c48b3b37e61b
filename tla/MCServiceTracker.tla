-------------------------- MODULE MCServiceTracker --------------------------
(***************************************************************************)
(* The two programs that follow a PAT, the receiver (ServiceTracker) and   *)
(* the printer of the PCR PID, each by itself, with two services that      *)
(* come, go, swap and share the PIDs of their PMTs, with PSI streams that  *)
(* share PIDs too, in a PAT of one or two sections.                        *)
(***************************************************************************)
EXTENDS PcrPrinter

Prog(s, p) == [sid |-> s, pid |-> p, sec |-> 0]
ProgIn(s, p, n) == [sid |-> s, pid |-> p, sec |-> n]

PmtOn(p, s, pids) ==
  [pid |-> p, pmt |-> [sid |-> s, es |-> {[n |-> i, pid |-> pids[i]] : i \in DOMAIN pids}]]
EitOf(s, v) == [sid |-> s, num |-> 0, ver |-> v]

Air(p, ms, es) == [pat |-> p, pmts |-> ms, eits |-> es]

Both    == Air(<<Prog(1, 1), Prog(2, 2)>>,
               {PmtOn(1, 1, <<3>>), PmtOn(2, 2, <<3, 3>>)}, {EitOf(1, 0)})
Swapped == Air(<<Prog(2, 1), Prog(1, 2)>>,
               {PmtOn(2, 1, <<3>>), PmtOn(1, 2, <<>>)}, {EitOf(1, 0), EitOf(2, 0)})
Shared  == Air(<<Prog(0, 3), Prog(2, 1), Prog(1, 1)>>,
               {PmtOn(1, 1, <<2>>), PmtOn(1, 2, <<3, 3>>)}, {EitOf(2, 1)})
OnlyOne == Air(<<Prog(1, 1)>>, {PmtOn(1, 1, <<3>>)}, {EitOf(1, 1)})
OnlyTwo == Air(<<Prog(2, 1)>>, {PmtOn(1, 2, <<3>>)}, {})
Nothing == Air(<<>>, {PmtOn(1, 2, <<2>>)}, {EitOf(2, 0)})

(* A PAT of two sections, and PMTs and EITs of no service at all. *)
Sections == Air(<<ProgIn(0, 3, 0), ProgIn(1, 1, 1), ProgIn(2, 2, 1)>>,
                {PmtOn(1, 0, <<3>>), PmtOn(1, 1, <<3>>)}, {EitOf(0, 0)})

(* The only program is in the second section of its PAT. *)
LateOne == Air(<<ProgIn(0, 3, 0), ProgIn(1, 1, 1)>>, {PmtOn(1, 1, <<3>>)}, {})

AllAirs ==
  {Both, Swapped, Shared, OnlyOne, OnlyTwo, Nothing, Sections, LateOne}

-----------------------------------------------------------------------------

(* The receiver prints no PID: it stands aside of PcrPrinter's actions.    *)
Aside == [pid |-> NoPid, pmt |-> NULL]
Receives == printed = Aside

MCInit == \/ Init /\ printed = Aside
          \/ PcrInit

MCNext == \/ Receives /\ Next /\ UNCHANGED printed
          \/ PcrNext

(* FairSpec for the one, PcrFairness for the other. *)
MCSpec ==
  /\ MCInit /\ [][MCNext]_pcrVars
  /\ WF_vars(Receives /\ Walk) /\ WF_vars(Receives /\ ReceivePat)
  /\ \A m \in AllPmts : WF_vars(Receives /\ ReceivePmt(m))
  /\ \A e \in AllEits : WF_vars(Receives /\ ReceiveEit(e))
  /\ PcrFairness

(* Once what is on air settles, the receiver has the PAT, the PMTs of its  *)
(* programs and the EIT sections of the services that are on air.          *)
ReceiverFollows ==
  <>[](Receives /\ pc # "undefined" /\ Len(slots) < MaxSlots) => <>[]Following
=============================================================================
