----------------------------- MODULE PcrPrinter -----------------------------
(***************************************************************************)
(* mpeg_print_pcr.c: prints the PID of the clock (PCR) of the first        *)
(* program whose PMT it gets hold of, and exits.  It follows the PAT the   *)
(* way dvb_print_si.c does (see ServiceTracker), but keeps neither PMTs    *)
(* nor EITs, and passes over a PMT of a service it does not know, or on    *)
(* another PID than the service is entered with.                           *)
(***************************************************************************)
EXTENDS ServiceTracker

VARIABLE printed \* the PMT whose PCR PID has been printed, and its PID

pcrVars == <<vars, printed>>

(* handle_pat's removal: the first entry of the service is given up. *)
GiveUpProgram ==
  /\ pc = "remove"
  /\ todo # <<>>
  /\ LET sid == Head(todo).sid IN
       /\ sid # 0 /\ ~ Lists(pat, sid) /\ Matching(sid) # {}
       /\ slots' = [slots EXCEPT ![Least(Matching(sid))].sid = 0]
  /\ todo' = Tail(todo)
  /\ UNCHANGED <<air, changes, pat, old, pc, refs>>

HandlePat ==
  \/ ReceivePat
  \/ SkipAdd \/ AddProgram \/ AddDone
  \/ SkipRemove \/ GiveUpProgram \/ RemoveDone

(* Slip: only the first entry of the array is looked at. *)
EnteredFirst(m) ==
  slots # <<>> /\ slots[1].sid = m.pmt.sid /\ slots[1].pid = m.pid

(* The PMT is on the PID that its service is entered with. *)
Entered(m) == Known(m.pmt.sid) /\ slots[EntryOf(m.pmt.sid)].pid = m.pid

(* handle_pmt, on a PID that is read. *)
PrintPmt(m) ==
  /\ pc = "idle"
  /\ m \in air.pmts
  /\ refs[m.pid] # 0
  /\ Entered(m)
  /\ printed' = m

(* main() subscribes to the PAT alone. *)
PcrInit ==
  /\ air \in Airs
  /\ changes = 0
  /\ pat = <<>> /\ old = <<>> /\ todo = <<>>
  /\ pc = "idle"
  /\ slots = <<>>
  /\ refs = [p \in Pids |-> 0]
  /\ printed = NULL

(* The program that has printed a PID is over. *)
PcrNext ==
  /\ printed = NULL
  /\ \/ Change /\ UNCHANGED printed
     \/ HandlePat /\ UNCHANGED printed
     \/ \E m \in AllPmts : PrintPmt(m) /\ UNCHANGED vars

PcrSpec == PcrInit /\ [][PcrNext]_pcrVars

(* The handler is a loop of one thread, and whatever is on air is          *)
(* repeated.                                                               *)
PcrFairness ==
  /\ WF_pcrVars(printed = NULL /\ HandlePat /\ UNCHANGED printed)
  /\ \A m \in AllPmts :
       WF_pcrVars(printed = NULL /\ PrintPmt(m) /\ UNCHANGED vars)

(* Some program of the PAT on air has its PMT there, on its PID. *)
PmtOnAir ==
  \E i \in DOMAIN air.pat, m \in air.pmts :
    air.pat[i].sid # 0 /\ air.pat[i].sid = m.pmt.sid /\ air.pat[i].pid = m.pid

(* Once what is on air settles with a program whose PMT is on the PID the  *)
(* PAT gives it, the program ends: however services came, moved and went   *)
(* before, the PID is read and the first entry of the service, the one     *)
(* that handle_pmt looks at, is not an outdated one.                       *)
ClockFound == <>[]PmtOnAir => <>(printed # NULL)
=============================================================================
