--------------------------- MODULE ServiceTracker ---------------------------
(***************************************************************************)
(* What dvb_print_si.c knows of the services of a transport stream: the    *)
(* PAT in force, an array of services (sid_t) with the PMT and the EIT     *)
(* sections of each, and how many reasons there are to read each PID       *)
(* (i_psi_refcount).  A PID without a reason is not read.                  *)
(*                                                                         *)
(* handle_pat walks first the new PAT, then the old one; each walk is      *)
(* modelled one program at a time.  Tables reach the handlers whole (see   *)
(* PsiTable) and valid, from whatever is on air.                           *)
(***************************************************************************)
EXTENDS Integers, Sequences, FiniteSets

CONSTANTS
  Sids,       \* program numbers; 0 is the network PID in a PAT, and marks
              \* an entry of the array that is not in use
  Pids,       \* PIDs that carry PMTs or sections of an elementary stream
  FixedPids,  \* those of them that main() subscribes to
  EitNums,    \* section numbers of EITs
  Airs,       \* what may be on air: a PAT, PMTs and EIT sections
  MaxChanges, \* bound: how often what is on air changes
  MaxSlots,   \* bound: entries of the array of services
  NULL

(* A program of a PAT, and the section of the PAT it is listed in. *)
Program == [sid : Sids, pid : Pids, sec : Nat]

(* A PMT: the PSI streams that handle_pmt_es selects (SCTE 35 and AIT). *)
Pmt == [sid : Sids, es : SUBSET [n : Nat, pid : Pids]]
Eit == [sid : Sids, num : EitNums, ver : Nat]

(* A PAT lists a program once.  pat_table_validate would also let it be    *)
(* listed twice with the same PID.                                         *)
Once(p) == \A i, j \in DOMAIN p : p[i].sid = p[j].sid => i = j

ASSUME TrackerAssumption ==
  /\ 0 \in Sids /\ Sids \subseteq Nat
  /\ Pids \subseteq Nat \ {0} /\ FixedPids \subseteq Pids
  /\ NULL \notin Pmt /\ NULL \notin Eit
  /\ MaxChanges \in Nat /\ MaxSlots \in Nat
  /\ \A a \in Airs : /\ a.pat \in Seq(Program) /\ Once(a.pat)
                     /\ \A m \in a.pmts : /\ m.pid \in Pids /\ m.pmt \in Pmt
                                          /\ IsFiniteSet(m.pmt.es)
                     /\ a.eits \subseteq Eit

VARIABLES
  air,     \* what is on air
  changes, \* how often it has changed
  pat,     \* pp_current_pat_sections; <<>> also when there is none
  old,     \* pp_old_pat_sections
  todo,    \* the programs still to be walked
  pc,      \* idle, add (walking pat), remove (walking old) or undefined
  slots,   \* pp_sids
  refs     \* i_psi_refcount of each PID

vars == <<air, changes, pat, old, todo, pc, slots, refs>>

Least(S) == CHOOSE i \in S : \A j \in S : i <= j

(* pat_table_find_program *)
Entries(table, sid) == {i \in DOMAIN table : table[i].sid = sid}
Lists(table, sid) == Entries(table, sid) # {}
PidIn(table, sid) == table[Least(Entries(table, sid))].pid

(* The entries of the array with some sid; the loops stop at the first. *)
Matching(sid) == {i \in DOMAIN slots : slots[i].sid = sid}

(* The PID of an entry that only an EIT has made. *)
NoPid == 0

NoEits == [n \in EitNums |-> NULL]

NewSlot(sid, pid) == [sid |-> sid, pid |-> pid, pmt |-> NULL, eit |-> NoEits]

(* handle_pmt_es: how many reasons a PMT gives to read PID p. *)
EsOn(pmt, p) ==
  IF pmt = NULL THEN 0 ELSE Cardinality({e \in pmt.es : e.pid = p})

One(cond) == IF cond THEN 1 ELSE 0

-----------------------------------------------------------------------------
(* handle_pat *)

(* Slip: only the number of programs is compared. *)
ReceivePatShorter ==
  /\ pc = "idle"
  /\ Len(air.pat) # Len(pat)
  /\ old' = pat
  /\ pat' = air.pat
  /\ todo' = air.pat
  /\ pc' = "add"
  /\ UNCHANGED <<air, changes, slots, refs>>

(* A PAT that differs from the one in force is switched in.  An identical  *)
(* one changes nothing.                                                    *)
ReceivePat ==
  /\ pc = "idle"
  /\ air.pat # pat
  /\ old' = pat
  /\ pat' = air.pat
  /\ todo' = air.pat
  /\ pc' = "add"
  /\ UNCHANGED <<air, changes, slots, refs>>

(* Nothing is new about the program. *)
Same(g) == g.sid = 0 \/ (Lists(old, g.sid) /\ PidIn(old, g.sid) = g.pid)

SkipAdd ==
  /\ pc = "add"
  /\ todo # <<>>
  /\ Same(Head(todo))
  /\ todo' = Tail(todo)
  /\ UNCHANGED <<air, changes, pat, old, pc, slots, refs>>

(* Slip: an entry that is already there keeps its PID. *)
PlacedStale(g) ==
  LET found == Matching(g.sid) \cup Matching(0) IN
  IF found = {}
    THEN Append(slots, NewSlot(g.sid, g.pid))
    ELSE [slots EXCEPT ![Least(found)].sid = g.sid]

(* The array with program g in it: in the first entry that is the          *)
(* program's own or not in use, whichever comes first.                     *)
Placed(g) ==
  LET found == Matching(g.sid) \cup Matching(0) IN
  IF found = {}
    THEN Append(slots, NewSlot(g.sid, g.pid))
    ELSE [slots EXCEPT ![Least(found)].sid = g.sid, ![Least(found)].pid = g.pid]

(* Slip: the PID that carried the program's PMT until now is given up,     *)
(* but the new one is not taken on if the program was known.               *)
CountedOnce(g) ==
  [p \in Pids |->
    refs[p] - One(Lists(old, g.sid) /\ PidIn(old, g.sid) = p)
            + One(~ Lists(old, g.sid) /\ p = g.pid)]

(* A program that is new, or has moved: its new PMT PID gets a reason to   *)
(* be read, and the previous one loses one.                                *)
Counted(g) ==
  [p \in Pids |->
    refs[p] - One(Lists(old, g.sid) /\ PidIn(old, g.sid) = p) + One(p = g.pid)]

AddProgram ==
  /\ pc = "add"
  /\ todo # <<>>
  /\ ~ Same(Head(todo))
  /\ Len(Placed(Head(todo))) <= MaxSlots
  /\ slots' = Placed(Head(todo))
  /\ refs' = Counted(Head(todo))
  /\ todo' = Tail(todo)
  /\ UNCHANGED <<air, changes, pat, old, pc>>

AddDone ==
  /\ pc = "add"
  /\ todo = <<>>
  /\ pc' = "remove"
  /\ todo' = old
  /\ UNCHANGED <<air, changes, pat, old, slots, refs>>

SkipRemove ==
  /\ pc = "remove"
  /\ todo # <<>>
  /\ LET sid == Head(todo).sid
     IN  sid = 0 \/ Lists(pat, sid) \/ Matching(sid) = {}
  /\ todo' = Tail(todo)
  /\ UNCHANGED <<air, changes, pat, old, pc, slots, refs>>

(* Slip: the PMT of a service that is gone is not forgotten. *)
Vacated(i) == [slots[i] EXCEPT !.sid = 0]

(* The first entry of the service is given up, with the PMT it has. *)
Freed(i) == [slots[i] EXCEPT !.sid = 0, !.pmt = NULL]

(* A program that is gone: the streams of its PMT lose a reason to be      *)
(* read, but the PID of its PMT does not.  The EIT sections that are       *)
(* dropped are those of the entry that has for index the PAT's section.    *)
RemoveProgram ==
  /\ pc = "remove"
  /\ todo # <<>>
  /\ LET g == Head(todo)
         i == Least(Matching(g.sid))
     IN  /\ g.sid # 0 /\ ~ Lists(pat, g.sid) /\ Matching(g.sid) # {}
         /\ g.sec + 1 \in DOMAIN slots
         /\ slots' = [[slots EXCEPT ![i] = Freed(i)] EXCEPT ![g.sec + 1].eit = NoEits]
         /\ refs' = [p \in Pids |-> refs[p] - EsOn(slots[i].pmt, p)]
  /\ todo' = Tail(todo)
  /\ UNCHANGED <<air, changes, pat, old, pc>>

(* The same, with an index past the end of the array: what happens then    *)
(* is undefined.                                                           *)
RemoveUndefined ==
  /\ pc = "remove"
  /\ todo # <<>>
  /\ LET g == Head(todo)
     IN  /\ g.sid # 0 /\ ~ Lists(pat, g.sid) /\ Matching(g.sid) # {}
         /\ g.sec + 1 \notin DOMAIN slots
  /\ pc' = "undefined"
  /\ UNCHANGED <<air, changes, pat, old, todo, slots, refs>>

RemoveDone ==
  /\ pc = "remove"
  /\ todo = <<>>
  /\ pc' = "idle"
  /\ old' = <<>>
  /\ UNCHANGED <<air, changes, pat, todo, slots, refs>>

Walk == \/ SkipAdd \/ AddProgram \/ AddDone
        \/ SkipRemove \/ RemoveProgram \/ RemoveUndefined \/ RemoveDone

-----------------------------------------------------------------------------
(* handle_pmt and handle_eit_section *)

(* The array with an entry for sid, and the index of that entry.  Nothing  *)
(* matches sid 0.                                                          *)
Known(sid) == sid # 0 /\ Matching(sid) # {}
WithEntry(sid, pid) == IF Known(sid) THEN slots ELSE Append(slots, NewSlot(sid, pid))
EntryOf(sid) == IF Known(sid) THEN Least(Matching(sid)) ELSE Len(slots) + 1

Selected(was, pmt) == [p \in Pids |-> refs[p] - EsOn(was, p) + EsOn(pmt, p)]

(* A PMT on a PID that is read.  A service that is not known (a ghost)     *)
(* gets an entry.  The PMT in force is left alone if it is identical.      *)
ReceivePmt(m) ==
  LET s == WithEntry(m.pmt.sid, m.pid)
      i == EntryOf(m.pmt.sid)
  IN  /\ pc = "idle"
      /\ m \in air.pmts
      /\ refs[m.pid] # 0
      /\ Len(s) <= MaxSlots
      /\ s[i].pmt # m.pmt
      /\ refs' = Selected(s[i].pmt, m.pmt)
      /\ slots' = [s EXCEPT ![i].pmt = m.pmt]
      /\ UNCHANGED <<air, changes, pat, old, todo, pc>>

(* An EIT section, on a PID that is always read. *)
ReceiveEit(e) ==
  LET s == WithEntry(e.sid, NoPid)
      i == EntryOf(e.sid)
  IN  /\ pc = "idle"
      /\ e \in air.eits
      /\ Len(s) <= MaxSlots
      /\ s[i].eit[e.num] # e
      /\ slots' = [s EXCEPT ![i].eit[e.num] = e]
      /\ UNCHANGED <<air, changes, pat, old, todo, pc, refs>>

-----------------------------------------------------------------------------

(* Something else is on air. *)
Change ==
  /\ changes < MaxChanges
  /\ changes' = changes + 1
  /\ air' \in Airs \ {air}
  /\ UNCHANGED <<pat, old, todo, pc, slots, refs>>

Init ==
  /\ air \in Airs
  /\ changes = 0
  /\ pat = <<>> /\ old = <<>> /\ todo = <<>>
  /\ pc = "idle"
  /\ slots = <<>>
  /\ refs = [p \in Pids |-> One(p \in FixedPids)]

AllPmts == UNION {a.pmts : a \in Airs}
AllEits == UNION {a.eits : a \in Airs}

Next ==
  \/ Change
  \/ ReceivePat
  \/ Walk
  \/ \E m \in AllPmts : ReceivePmt(m)
  \/ \E e \in AllEits : ReceiveEit(e)

Spec == Init /\ [][Next]_vars

(* The walks are loops of one thread, and whatever is on air is repeated.  *)
FairSpec ==
  /\ Spec
  /\ WF_vars(Walk) /\ WF_vars(ReceivePat)
  /\ \A m \in AllPmts : WF_vars(ReceivePmt(m))
  /\ \A e \in AllEits : WF_vars(ReceiveEit(e))

-----------------------------------------------------------------------------

Slot == [sid : Sids, pid : Pids \cup {NoPid}, pmt : Pmt \cup {NULL},
         eit : [EitNums -> Eit \cup {NULL}]]

TypeOK ==
  /\ air \in Airs
  /\ changes \in 0 .. MaxChanges
  /\ pat \in Seq(Program) /\ old \in Seq(Program) /\ todo \in Seq(Program)
  /\ pc \in {"idle", "add", "remove", "undefined"}
  /\ slots \in Seq(Slot) /\ Len(slots) <= MaxSlots
  /\ refs \in [Pids -> Int]

(* The reasons there are to read PID p: main() subscribed to it; it        *)
(* carries the PMT of a program (of the new PAT, or of the old one as long *)
(* as the walk has not got to the program); a PMT selects a stream on it.  *)
Waiting == IF pc = "add" THEN {todo[i].sid : i \in DOMAIN todo} ELSE {}
Programs(table, p, sids) ==
  {table[i].sid : i \in {j \in DOMAIN table : table[j].pid = p /\ table[j].sid \in sids}}
PmtReasons(p) ==
  Programs(pat, p, (Sids \ {0}) \ Waiting) \cup Programs(old, p, Waiting \ {0})
EsReasons(p) ==
  UNION {{<<i, e>> : e \in {d \in slots[i].pmt.es : d.pid = p}} :
           i \in {j \in DOMAIN slots : slots[j].pmt # NULL}}

(* What the counts say beyond that.                                        *)
Excess(p) == refs[p] - One(p \in FixedPids) - Cardinality(PmtReasons(p))
                     - Cardinality(EsReasons(p))

(* Programs on PMT PID p that the PAT just switched in leaves out. *)
Withdrawn(p) ==
  {i \in DOMAIN pat : pat[i].sid # 0 /\ pat[i].pid = p /\ ~ Lists(pat', pat[i].sid)}

(* Every reason is counted once, whatever the order in which programs      *)
(* come, move, share PIDs and go and PMTs change: no PID that is still     *)
(* needed stops being read, and a count exceeds the reasons there are only *)
(* by the programs that were withdrawn while their PMTs were on that PID,  *)
(* whose reference handle_pat never gives back.                            *)
RefsExact ==
  [][\A p \in Pids : Excess(p)' = Excess(p) + Cardinality(Withdrawn(p))]_vars

(* A program of the PAT in force is known under the PID the PAT gives it:  *)
(* its PMT is never taken for a ghost, although the entry that is looked   *)
(* up may not be the only one the service has.                             *)
AnnouncedKnown ==
  pc = "idle" =>
    \A i \in DOMAIN pat : pat[i].sid # 0 =>
      /\ Matching(pat[i].sid) # {}
      /\ slots[Least(Matching(pat[i].sid))].pid = pat[i].pid

(* The PAT, the PMT of each of its programs and the EIT sections of the    *)
(* known services are those on air.                                        *)
Following ==
  /\ pc = "idle" /\ pat = air.pat
  /\ \A i \in DOMAIN pat : \A m \in air.pmts :
       pat[i].sid # 0 /\ m.pmt.sid = pat[i].sid /\ m.pid = pat[i].pid
       => slots[Least(Matching(m.pmt.sid))].pmt = m.pmt
  /\ \A e \in air.eits :
       Known(e.sid) /\ slots[Least(Matching(e.sid))].eit[e.num] = e
=============================================================================
