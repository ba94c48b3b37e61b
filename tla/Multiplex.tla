----------------------------- MODULE Multiplex -----------------------------
(***************************************************************************)
(* The stream of dvb_gen_si.c, read by dvb_print_si.c: sections on several *)
(* PIDs, one after the other, whose packets all take their number from one *)
(* continuity counter, and a receiver with a buffer and a last counter for *)
(* each PID.  The receiver looks at the packets of a PID only while there  *)
(* is a reason to (i_psi_refcount), but notes the counter of all of them.  *)
(* Packets may be lost in between.                                         *)
(*                                                                         *)
(* Cells and sizes are those of PsiTransport; output_psi_section closes    *)
(* the last packet of a section, so a packet holds bytes of one section.   *)
(***************************************************************************)
EXTENDS Integers, Sequences

CONSTANTS
  MuxPids,    \* the PIDs the generator writes to
  Optional,   \* those of them that a PMT may select, and give up
  Sizes,      \* sizes, header included, of the sections
  Cap,        \* payload bytes of a packet
  Hdr,        \* PSI_HEADER_SIZE
  MaxPrivate, \* PSI_PRIVATE_MAX_SIZE
  CCMod,      \* values of the continuity counter
  MaxPackets, \* bound: packets written
  None

ASSUME MultiplexAssumption ==
  /\ Optional \subseteq MuxPids
  /\ Hdr \in Nat \ {0} /\ MaxPrivate \in Nat
  /\ Sizes \subseteq Hdr .. MaxPrivate
  /\ Cap \in Nat /\ Cap >= 2
  /\ CCMod \in Nat /\ CCMod >= 2
  /\ MaxPackets \in Nat
  /\ None \notin [pid : MuxPids, num : Nat, of : Nat]
  /\ None \notin [pid : MuxPids, cc : Nat, start : BOOLEAN,
                  cells : Seq([num : Nat, at : Nat, of : Nat])]

VARIABLES
  cc,      \* generator: the one continuity counter
  section, \* generator: the section being output, None between sections
  off,     \* generator: the section offset
  written, \* packets written so far, which numbers the sections too
  pkt,     \* the packet on its way, or being handled; None
  reads,   \* receiver: PIDs whose i_psi_refcount is not 0
  lastCc,  \* receiver: i_last_cc of each PID
  buf,     \* receiver: p_psi_buffer of each PID, <<>> when NULL
  pos,     \* receiver: p_payload, as a position in pkt; 0 before handling
  first,   \* receiver: about to continue the buffered section (ts_section)
  given,   \* receiver: the bytes last given to handle_section
  arrived, \* history: number of the last packet of each PID that arrived
  handled, \* history: number of the last one that was also looked at
  blind,   \* history: PIDs whose buffer goes on after packets not handled
  intact   \* history: no packet of the section has met with anything

generator == <<cc, section, off, written>>
reader == <<lastCc, buf, pos, first, given>>
history == <<arrived, handled, blind, intact>>
vars == <<generator, pkt, reads, reader, history>>

(* A byte: its place, the number of its section, and that section's size.  *)
Pad == [num |-> 0, at |-> 0, of |-> 0]
Bytes(s, from, n) ==
  [i \in 1 .. n |-> [num |-> s.num, at |-> from + i - 1, of |-> s.of]]
Padding(n) == [i \in 1 .. n |-> Pad]

Least(a, b) == IF a <= b THEN a ELSE b

-----------------------------------------------------------------------------
(* The generator. *)

(* generate_xxx: the next section, on any PID. *)
Generate(p, size) ==
  /\ section = None /\ pkt = None
  /\ section' = [pid |-> p, num |-> written + 1, of |-> size]
  /\ off' = 0
  /\ intact' = TRUE
  /\ UNCHANGED <<cc, written, pkt, reads, reader, arrived, handled, blind>>

(* Slip: the counter is not advanced by the last packet of a section. *)
NextCcWithin(done) == IF done THEN cc ELSE (cc + 1) % CCMod

NextCc(done) == (cc + 1) % CCMod

(* output_psi_section, one turn of its loop: psi_split_section puts a      *)
(* pointer_field before the first bytes, psi_split_end fills the last      *)
(* packet.                                                                 *)
Output ==
  LET room == IF off = 0 THEN Cap - 1 ELSE Cap
      n == Least(room, section.of - off)
  IN  /\ section # None /\ pkt = None
      /\ off < section.of
      /\ written < MaxPackets
      /\ pkt' = [pid |-> section.pid, cc |-> cc, start |-> off = 0,
                 cells |-> Bytes(section, off, n) \o Padding(room - n)]
      /\ off' = off + n
      /\ cc' = NextCc(off + n = section.of)
      /\ written' = written + 1
      /\ UNCHANGED <<section, reads, reader, history>>

OutputDone ==
  /\ section # None /\ pkt = None
  /\ off = section.of
  /\ section' = None
  /\ UNCHANGED <<cc, off, written, pkt, reads, reader, history>>

-----------------------------------------------------------------------------
(* The channel, and the reference counts. *)

Waiting == pkt # None /\ pos = 0

Lose ==
  /\ Waiting
  /\ pkt' = None
  /\ intact' = FALSE
  /\ UNCHANGED <<generator, reads, reader, arrived, handled, blind>>

(* A PMT selects a stream on the PID, or stops doing so (ServiceTracker).  *)
(* Nothing else happens to the state of the PID.                           *)
Subscribe(p) ==
  /\ pkt = None
  /\ reads' = IF p \in reads THEN reads \ {p} ELSE reads \cup {p}
  /\ UNCHANGED <<generator, pkt, reader, history>>

-----------------------------------------------------------------------------
(* The receiver: main's loop around handle_psi_packet. *)

(* Packets since the last one of the PID that arrived. *)
Age == written - arrived[pkt.pid]
SawAny == arrived[pkt.pid] # 0

(* What main does after a packet, looked at or not. *)
Noted ==
  /\ lastCc' = [lastCc EXCEPT ![pkt.pid] = pkt.cc]
  /\ arrived' = [arrived EXCEPT ![pkt.pid] = written]
  /\ pkt' = None
  /\ pos' = 0

(* A PID that nobody reads: its buffer stays as it is. *)
PassBy ==
  /\ Waiting
  /\ pkt.pid \notin reads
  /\ Noted
  /\ intact' = FALSE
  /\ UNCHANGED <<generator, reads, buf, first, given, handled, blind>>

(* ts_check_duplicate: what looks like a repetition is not looked at.  It  *)
(* costs the section its first packet if a whole number of periods of the  *)
(* counter have gone by since the last packet of the PID.                  *)
TakeForRepetition ==
  /\ Waiting
  /\ pkt.pid \in reads
  /\ pkt.cc = lastCc[pkt.pid]
  /\ Noted
  /\ intact' = (intact /\ ~ (SawAny /\ Age % CCMod = 0))
  /\ UNCHANGED <<generator, reads, buf, first, given, handled, blind>>

(* Slip: the counter is not checked. *)
DiscontinuityUnseen == FALSE

Discontinuity ==
  lastCc[pkt.pid] # -1 /\ (lastCc[pkt.pid] + CCMod + 1 - pkt.cc) % CCMod # 0

EndOfPacket == Len(pkt.cells) + 1

(* ts_next_section: pointer_field is 0, or there is no section to start. *)
NextSection == IF pkt.start THEN 1 ELSE EndOfPacket

(* The buffer goes on although packets were not looked at: they came while *)
(* the PID was not read, or were lost, a whole number of periods of them.  *)
Unseen ==
  \/ arrived[pkt.pid] # handled[pkt.pid]
  \/ Age # 1 /\ Age % CCMod = 1

(* handle_psi_packet up to its first call of psi_assemble_payload. *)
LookAt ==
  LET p == pkt.pid
      kept == IF Discontinuity THEN <<>> ELSE buf[p]
      isBlind == kept # <<>> /\ (p \in blind \/ Unseen)
  IN  /\ Waiting
      /\ p \in reads
      /\ pkt.cc # lastCc[p]
      /\ buf' = [buf EXCEPT ![p] = kept]
      /\ first' = (kept # <<>>)
      /\ pos' = IF kept # <<>> THEN 1 ELSE NextSection
      /\ blind' = IF isBlind THEN blind \cup {p} ELSE blind \ {p}
      /\ intact' = (intact /\ ~ isBlind)
      /\ UNCHANGED <<generator, pkt, reads, lastCc, given, arrived, handled>>

Reading == pkt # None /\ pos # 0 /\ pos < EndOfPacket
Buffer == buf[pkt.pid]

(* Where reading goes on after a call that stopped at q. *)
ReadFrom(q) == IF first THEN NextSection ELSE q

Copied == Least(EndOfPacket - pos, MaxPrivate + Hdr - Len(Buffer))
Filled == Buffer \o SubSeq(pkt.cells, pos, pos + Copied - 1)

(* The size a buffer declares.  If other bytes are where the length should *)
(* be, it is arbitrary, but more than what was not enough before.          *)
DeclaredSizes(b) ==
  LET c == b[Hdr] IN
  IF c # Pad /\ c.at = Hdr - 1
    THEN {c.of}
    ELSE {s \in Hdr .. MaxPrivate + 1 : Len(Buffer) >= Hdr => s > Len(Buffer)}

AssembleStuffing ==
  /\ Reading
  /\ Buffer = <<>> /\ pkt.cells[pos] = Pad
  /\ pos' = ReadFrom(EndOfPacket)
  /\ first' = FALSE
  /\ UNCHANGED <<buf, given>>

Assembling == Reading /\ (Buffer = <<>> => pkt.cells[pos] # Pad)

AssembleMore ==
  /\ Assembling
  /\ Len(Filled) >= Hdr =>
       \E s \in DeclaredSizes(Filled) : s <= MaxPrivate /\ s > Len(Filled)
  /\ buf' = [buf EXCEPT ![pkt.pid] = Filled]
  /\ pos' = ReadFrom(pos + Copied)
  /\ first' = FALSE
  /\ UNCHANGED given

AssembleInvalid ==
  /\ Assembling
  /\ Len(Filled) >= Hdr
  /\ \E s \in DeclaredSizes(Filled) : s > MaxPrivate
  /\ buf' = [buf EXCEPT ![pkt.pid] = <<>>]
  /\ pos' = ReadFrom(EndOfPacket)
  /\ first' = FALSE
  /\ UNCHANGED given

AssembleWhole ==
  /\ Assembling
  /\ Len(Filled) >= Hdr
  /\ \E s \in DeclaredSizes(Filled) :
       /\ s <= MaxPrivate
       /\ s <= Len(Filled)
       /\ given' = SubSeq(Filled, 1, s)
       /\ pos' = ReadFrom(pos + Copied - (Len(Filled) - s))
  /\ buf' = [buf EXCEPT ![pkt.pid] = <<>>]
  /\ first' = FALSE

(* psi_assemble_payload, as in PsiTransport. *)
Assemble ==
  /\ AssembleStuffing \/ AssembleMore \/ AssembleInvalid \/ AssembleWhole
  /\ UNCHANGED <<generator, pkt, reads, lastCc, history>>

PacketDone ==
  /\ pkt # None /\ pos >= EndOfPacket
  /\ Noted
  /\ handled' = [handled EXCEPT ![pkt.pid] = written]
  /\ UNCHANGED <<generator, reads, buf, first, given, blind, intact>>

-----------------------------------------------------------------------------

Init ==
  /\ cc = 0 /\ section = None /\ off = 0 /\ written = 0
  /\ pkt = None
  /\ reads = MuxPids \ Optional
  /\ lastCc = [p \in MuxPids |-> -1]
  /\ buf = [p \in MuxPids |-> <<>>]
  /\ pos = 0 /\ first = FALSE /\ given = <<>>
  /\ arrived = [p \in MuxPids |-> 0] /\ handled = [p \in MuxPids |-> 0]
  /\ blind = {} /\ intact = FALSE

Next ==
  \/ \E p \in MuxPids, s \in Sizes : Generate(p, s)
  \/ Output \/ OutputDone
  \/ Lose
  \/ \E p \in Optional : Subscribe(p)
  \/ PassBy \/ TakeForRepetition \/ LookAt \/ Assemble \/ PacketDone

Spec == Init /\ [][Next]_vars

-----------------------------------------------------------------------------

(* Sections are spliced only where the receiver cannot see it: unless the  *)
(* buffer went on after packets that were not looked at while the PID was  *)
(* not read, or after a loss of a whole number of periods of the counter,  *)
(* what is given to handle_section is a section that was sent, whole.      *)
Genuine(s) ==
  \A i \in DOMAIN s : s[i] = [num |-> s[1].num, at |-> i - 1, of |-> Len(s)]
SplicedOnlyBlind ==
  [][given' # given => Genuine(given') \/ pkt.pid \in blind]_vars

(* A section whose packets all arrived and were looked at is given to      *)
(* handle_section.  The counter that all PIDs share costs a section only   *)
(* when a whole number of its periods went by since the last packet of the *)
(* PID: fewer packets of other PIDs, or more, do no harm.                  *)
MissedOnlyAsRepetition ==
  section # None /\ off = section.of /\ pkt = None /\ intact =>
    given = Bytes(section, 0, section.of)
=============================================================================
