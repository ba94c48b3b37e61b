---------------------------- MODULE PsiTransport ----------------------------
(***************************************************************************)
(* PSI sections carried in the TS packets of one PID: psi_split_section    *)
(* and its caller on one side, handle_psi_packet and psi_assemble_payload  *)
(* on the other, and between them a channel that loses and repeats         *)
(* packets.                                                                *)
(*                                                                         *)
(* A byte of payload is a cell: byte `at` of section `sec`, or the 0xff    *)
(* of stuffing.  Sizes are parameters (188, 3, 4093 and 16 in the code).   *)
(***************************************************************************)
EXTENDS Integers, Sequences

CONSTANTS
  N,          \* sections sent
  Sizes,      \* sizes, header included, that a section may have
  Cap,        \* payload bytes of a packet without adaptation field
  Hdr,        \* PSI_HEADER_SIZE: the section length is known after Hdr bytes
  MaxPrivate, \* PSI_PRIVATE_MAX_SIZE
  CCMod,      \* values of the continuity counter
  MaxLoss     \* packets that may be lost in a row

(* Cap <= MaxPrivate, 184 and 4093: a section that is dropped for its size *)
(* does not end in the packet it starts in.                                *)
ASSUME TransportAssumption ==
  /\ N \in Nat
  /\ Hdr \in Nat \ {0}
  /\ MaxPrivate \in Nat
  /\ Sizes \subseteq Hdr .. MaxPrivate + Hdr
  /\ Cap \in Nat /\ Cap >= 2 /\ Cap <= MaxPrivate
  /\ CCMod \in Nat /\ CCMod >= 2
  /\ MaxLoss \in 0 .. CCMod - 2

Pad == [sec |-> 0, at |-> 0]

Cell == [sec : 0 .. N, at : Nat]

VARIABLES
  size,   \* sizes of the sections, fixed from the start
  sec,    \* sender: section being split
  off,    \* sender: the section offset
  pkt,    \* sender: packet being filled
  sent,   \* channel: every packet written, in order
  cursor, \* channel: packets that have left it
  lost,   \* channel: packets that were lost
  rx,     \* receiver: packet last received, 0 before any
  lastCc, \* receiver: i_last_cc
  buf,    \* receiver: p_psi_buffer, <<>> when NULL
  first,  \* receiver: about to continue the buffered section (ts_section)
  pos,    \* receiver: p_payload, as a position in the cells of packet rx
  out     \* receiver: sections given to handle_section

senderVars == <<size, sec, off, pkt, sent>>
receiverVars == <<rx, lastCc, buf, first, pos, out>>
vars == <<senderVars, cursor, lost, receiverVars>>

Bytes(k, from, n) == [i \in 1 .. n |-> [sec |-> k, at |-> from + i - 1]]

(* The whole of section k. *)
Section(k) == Bytes(k, 0, size[k])

Least(a, b) == IF a <= b THEN a ELSE b

-----------------------------------------------------------------------------
(* The sender.                                                             *)

(* A packet of which nothing is filled: the ts offset is 0.   *)
NoPacket == [start |-> FALSE, ptr |-> 0, cells |-> <<>>]

(* Payload bytes in use: the pointer_field is one of them. *)
Used(p) == Len(p.cells) + IF p.start THEN 1 ELSE 0

(* psi_split_end: the rest of the packet is stuffing. *)
Stuffed(p) == [p EXCEPT !.cells = @ \o [i \in 1 .. Cap - Used(p) |-> Pad]]

(* Where a section starts, the packet gets its pointer_field, which counts *)
(* the bytes of the previous section that come before.                     *)
Started(p) ==
  IF off = 0 /\ ~ p.start
    THEN [p EXCEPT !.start = TRUE, !.ptr = Len(p.cells)]
    ELSE p

(* psi_split_section finds no room for a pointer_field and a first byte. *)
SplitNoRoom ==
  /\ sec <= N /\ off = 0
  /\ Used(pkt) < Cap /\ Cap - Used(pkt) < 2
  /\ pkt' = Stuffed(pkt)
  /\ UNCHANGED <<size, sec, off, sent>>

(* psi_split_section copies what fits of the section, and its caller goes  *)
(* to the next section once all of it is copied.                           *)
SplitCopy ==
  LET p == Started(pkt)
      n == Least(Cap - Used(p), size[sec] - off)
      done == off + n = size[sec]
  IN  /\ sec <= N
      /\ Used(pkt) < Cap
      /\ off = 0 => Cap - Used(pkt) >= 2
      /\ pkt' = [p EXCEPT !.cells = @ \o Bytes(sec, off, n)]
      /\ sec' = IF done THEN sec + 1 ELSE sec
      /\ off' = IF done THEN 0 ELSE off + n
      /\ UNCHANGED <<size, sent>>

(* The caller closes the packet after a section (output_psi_section always *)
(* does; not doing it puts several sections in a packet).                  *)
SplitEnd ==
  /\ off = 0
  /\ 0 < Used(pkt) /\ Used(pkt) < Cap
  /\ pkt' = Stuffed(pkt)
  /\ UNCHANGED <<size, sec, off, sent>>

(* A full packet is written, with the next continuity counter. *)
Emit ==
  /\ Used(pkt) = Cap
  /\ sent' = Append(sent, [cc |-> Len(sent) % CCMod, start |-> pkt.start,
                           ptr |-> pkt.ptr, cells |-> pkt.cells])
  /\ pkt' = NoPacket
  /\ UNCHANGED <<size, sec, off>>

Sender == /\ SplitNoRoom \/ SplitCopy \/ SplitEnd \/ Emit
          /\ UNCHANGED <<cursor, lost, receiverVars>>

-----------------------------------------------------------------------------
(* The receiver.                                                           *)

CellsRx == IF rx = 0 THEN <<>> ELSE sent[rx].cells

(* handle_psi_packet is done with packet rx. *)
Idle == pos > Len(CellsRx)

(* Slip: the pointer_field is taken to count itself. *)
NextSectionEarly(p) == IF p.start THEN p.ptr ELSE Len(p.cells) + 1

(* ts_next_section: after the pointer_field, or the end of the packet. *)
NextSection(p) == IF p.start THEN p.ptr + 1 ELSE Len(p.cells) + 1

(* Slips: the counter is not checked, or is expected not to move. *)
DiscontinuityUnseen(cc) == FALSE
DiscontinuityShifted(cc) == lastCc # -1 /\ (lastCc + CCMod - cc) % CCMod # 0

Discontinuity(cc) == lastCc # -1 /\ (lastCc + CCMod + 1 - cc) % CCMod # 0

(* ts_check_duplicate: the packet is ignored. *)
ReceiveDuplicate(q) ==
  /\ sent[q].cc = lastCc
  /\ rx' = q
  /\ pos' = Len(sent[q].cells) + 1
  /\ UNCHANGED <<lastCc, buf, first, out>>

(* Slip: a repeated packet is not told from a new one. *)
ReceiveAny(q) ==
  LET p == sent[q]
      kept == IF Discontinuity(p.cc) THEN <<>> ELSE buf
  IN  /\ rx' = q
      /\ lastCc' = p.cc
      /\ buf' = kept
      /\ first' = (kept # <<>>)
      /\ pos' = IF kept # <<>> THEN 1 ELSE NextSection(p)
      /\ UNCHANGED out

(* handle_psi_packet up to its first call of psi_assemble_payload: a       *)
(* discontinuity resets the buffer; a section under way is continued from  *)
(* ts_section, otherwise reading starts at ts_next_section.                *)
ReceiveNew(q) ==
  LET p == sent[q]
      kept == IF Discontinuity(p.cc) THEN <<>> ELSE buf
  IN  /\ p.cc # lastCc
      /\ rx' = q
      /\ lastCc' = p.cc
      /\ buf' = kept
      /\ first' = (kept # <<>>)
      /\ pos' = IF kept # <<>> THEN 1 ELSE NextSection(p)
      /\ UNCHANGED out

(* Where reading goes on after a call that stopped at p: the call on       *)
(* ts_section is followed by a fresh start at ts_next_section.             *)
ReadFrom(p) == IF first THEN NextSection(sent[rx]) ELSE p

EndOfPacket == Len(CellsRx) + 1

(* Slip: the room left in the buffer is not looked at. *)
CopiedAll == Len(CellsRx) - pos + 1

(* What is copied to the buffer: all that is left of the packet, as far as *)
(* the buffer has room.                                                    *)
Copied ==
  Least(Len(CellsRx) - pos + 1, MaxPrivate + Hdr - Len(buf))

Filled == buf \o SubSeq(CellsRx, pos, pos + Copied - 1)

(* The section size a buffer declares.  The length is in the header of the *)
(* section that the buffer starts with; should those bytes belong to       *)
(* anything else, it is arbitrary.                                         *)
DeclaredSizes(b) ==
  LET c == b[Hdr] IN
  IF c # Pad /\ c.at = Hdr - 1 THEN {size[c.sec]}
    ELSE Hdr .. MaxPrivate + Hdr + 1

(* Slip: the stuffing is not skipped. *)
StuffingKept ==
  /\ ~ Idle
  /\ buf = <<>> /\ CellsRx[pos] = Pad
  /\ UNCHANGED receiverVars

(* psi_assemble_payload on an empty buffer and a 0xff: stuffing up to the  *)
(* end of the packet.                                                      *)
AssembleStuffing ==
  /\ ~ Idle
  /\ buf = <<>> /\ CellsRx[pos] = Pad
  /\ pos' = ReadFrom(EndOfPacket)
  /\ first' = FALSE
  /\ UNCHANGED <<rx, lastCc, buf, out>>

Assembling == ~ Idle /\ (buf = <<>> => CellsRx[pos] # Pad)

(* The section goes on in the next packet. *)
AssembleMore ==
  /\ Assembling
  /\ Len(Filled) >= Hdr =>
       \E s \in DeclaredSizes(Filled) : s <= MaxPrivate /\ s > Len(Filled)
  /\ buf' = Filled
  /\ pos' = ReadFrom(pos + Copied)
  /\ first' = FALSE
  /\ UNCHANGED <<rx, lastCc, out>>

(* The section is too large: it is dropped, with the rest of the packet. *)
AssembleInvalid ==
  /\ Assembling
  /\ Len(Filled) >= Hdr
  /\ \E s \in DeclaredSizes(Filled) : s > MaxPrivate
  /\ buf' = <<>>
  /\ pos' = ReadFrom(EndOfPacket)
  /\ first' = FALSE
  /\ UNCHANGED <<rx, lastCc, out>>

(* The section is whole: it is handed out, and the bytes copied beyond its *)
(* end go back to the payload.                                             *)
AssembleWhole ==
  /\ Assembling
  /\ Len(Filled) >= Hdr
  /\ \E s \in DeclaredSizes(Filled) :
       /\ s <= MaxPrivate
       /\ s <= Len(Filled)
       /\ out' = Append(out, SubSeq(Filled, 1, s))
       /\ pos' = ReadFrom(pos + Copied - (Len(Filled) - s))
  /\ buf' = <<>>
  /\ first' = FALSE
  /\ UNCHANGED <<rx, lastCc>>

Assemble ==
  /\ AssembleStuffing \/ AssembleMore \/ AssembleInvalid \/ AssembleWhole
  /\ UNCHANGED <<senderVars, cursor, lost>>

-----------------------------------------------------------------------------
(* The channel.                                                            *)

Receive(q) == ReceiveDuplicate(q) \/ ReceiveNew(q)

Arrive ==
  /\ Idle
  /\ cursor < Len(sent)
  /\ Receive(cursor + 1)
  /\ cursor' = cursor + 1
  /\ UNCHANGED <<senderVars, lost>>

(* The packet that has just arrived arrives once more. *)
Repeat ==
  /\ Idle
  /\ rx > 0 /\ cursor = rx
  /\ Receive(rx)
  /\ UNCHANGED <<senderVars, cursor, lost>>

Lose ==
  /\ cursor < Len(sent)
  /\ cursor - rx < MaxLoss
  /\ cursor' = cursor + 1
  /\ lost' = lost \cup {cursor + 1}
  /\ UNCHANGED <<senderVars, receiverVars>>

Init ==
  /\ size \in [1 .. N -> Sizes]
  /\ sec = 1 /\ off = 0
  /\ pkt = NoPacket
  /\ sent = <<>>
  /\ cursor = 0 /\ lost = {}
  /\ rx = 0 /\ lastCc = -1
  /\ buf = <<>> /\ first = FALSE /\ pos = 1
  /\ out = <<>>

Next == Sender \/ Arrive \/ Repeat \/ Lose \/ Assemble

Spec == Init /\ [][Next]_vars

(* The sender and the receiver each run on; a packet in the channel gets   *)
(* through or is lost.                                                     *)
FairSpec == Spec /\ WF_vars(Sender) /\ WF_vars(Arrive) /\ WF_vars(Assemble)

-----------------------------------------------------------------------------

Packet == [cc : 0 .. CCMod - 1, start : BOOLEAN, ptr : Nat, cells : Seq(Cell)]

TypeOK ==
  /\ size \in [1 .. N -> Sizes]
  /\ sec \in 1 .. N + 1
  /\ off \in Nat
  /\ pkt \in [start : BOOLEAN, ptr : Nat, cells : Seq(Cell)]
  /\ sent \in Seq(Packet)
  /\ cursor \in 0 .. Len(sent)
  /\ lost \subseteq 1 .. cursor
  /\ rx \in 0 .. cursor
  /\ lastCc \in -1 .. CCMod - 1
  /\ buf \in Seq(Cell)
  /\ first \in BOOLEAN
  /\ pos \in Nat \ {0}
  /\ out \in Seq(Seq(Cell))

(* The buffer of PSI_PRIVATE_MAX_SIZE + PSI_HEADER_SIZE bytes is never     *)
(* overrun, and reading never goes past the end of the packet              *)
(* (psi_assemble_payload's memcpy).                                        *)
InBounds ==
  /\ Len(buf) <= MaxPrivate + Hdr
  /\ pos <= EndOfPacket
  /\ ~ Idle => Copied > 0 /\ Len(Filled) <= MaxPrivate + Hdr

(* Every section handed out is one that was sent, whole, and sections come *)
(* out in the order they were sent, each at most once: neither losses nor  *)
(* repeated packets splice, reorder or repeat sections.                    *)
OutIsGenuine ==
  /\ \A i \in DOMAIN out : out[i] # <<>> /\ out[i] = Section(out[i][1].sec)
  /\ \A i, j \in DOMAIN out : i < j => out[i][1].sec < out[j][1].sec

(* The same, as a refinement: the packets implement the pipe of sections.  *)
LastOut == IF out = <<>> THEN 0 ELSE out[Len(out)][1].sec
Pipe == INSTANCE SectionPipe
          WITH content <- [k \in 1 .. N |-> Section(k)],
               entered <- sec - 1, leftAs <- LastOut
PipeSpec == Pipe!Spec

(* A section none of whose packets was lost is handed out once its last    *)
(* packet is handled, whatever was lost before it.                         *)
Carries(cells, k) == \E i \in DOMAIN cells : cells[i].sec = k
Carriers(k) == {q \in DOMAIN sent : Carries(sent[q].cells, k)}
Delivered(k) ==
  /\ Idle
  /\ ~ Carries(pkt.cells, k)
  /\ Carriers(k) \subseteq (1 .. cursor) \ lost
  => \E i \in DOMAIN out : out[i] = Section(k)
NothingMissed ==
  \A k \in 1 .. sec - 1 : size[k] <= MaxPrivate => Delivered(k)

(* The same for every section that the buffers have room for: PSI_MAX_SIZE *)
(* and PSI_PRIVATE_MAX_SIZE are the largest values of section_length,      *)
(* which does not count the header (psi_allocate, psi_private_allocate).   *)
NothingThatFitsMissed ==
  \A k \in 1 .. sec - 1 : size[k] <= MaxPrivate + Hdr => Delivered(k)

(* handle_psi_packet always gets to the end of the packet: each call of    *)
(* psi_assemble_payload in its loop moves on.                              *)
PacketHandled == ~ Idle ~> Idle

-----------------------------------------------------------------------------
(* The inductive invariant behind OutIsGenuine.                            *)

LastCell(cells) == cells[Len(cells)]

(* A cell after which a section may start: the end of one, or stuffing. *)
Ends(c) == c.sec = 0 \/ c.at = size[c.sec] - 1

Starts(c) == c.sec # 0 /\ c.at = 0

(* d may come after c. *)
Link(c, d) == IF Ends(c) THEN d.at = 0
                         ELSE d = [sec |-> c.sec, at |-> c.at + 1]

(* Within a packet sections run on, one after the other, then stuffing.    *)
Runs(cells) ==
  \A p, q \in DOMAIN cells :
    /\ p <= q /\ cells[p].sec # 0
    /\ cells[p].at + (q - p) < size[cells[p].sec]
    => cells[q] = [sec |-> cells[p].sec, at |-> cells[p].at + (q - p)]

Linked(cells) ==
  \A p \in DOMAIN cells : p < Len(cells) => Link(cells[p], cells[p + 1])

(* The pointer_field leads to the first section that starts in a packet.   *)
Pointed(p) ==
  IF p.start
    THEN /\ p.ptr < Len(p.cells)
         /\ Starts(p.cells[p.ptr + 1])
         /\ \A i \in 1 .. p.ptr : ~ Starts(p.cells[i])
    ELSE \A i \in DOMAIN p.cells : ~ Starts(p.cells[i])

(* Every cell written is of an earlier section, or an earlier byte of the  *)
(* section being split.                                                    *)
Written(cells) ==
  \A i \in DOMAIN cells :
    LET c == cells[i] IN
    c.sec # 0 => /\ c.at < size[c.sec]
                 /\ c.sec < sec \/ (c.sec = sec /\ c.at < off)

PacketInv(p) == Runs(p.cells) /\ Linked(p.cells) /\ Pointed(p) /\ Written(p.cells)

(* The last cell written before what the sender writes next. *)
TailIs(c) == IF off > 0 THEN c = [sec |-> sec, at |-> off - 1] ELSE Ends(c)

SenderInv ==
  /\ \A q \in DOMAIN sent : /\ PacketInv(sent[q])
                            /\ Used(sent[q]) = Cap
                            /\ sent[q].cc = (q - 1) % CCMod
  /\ PacketInv(pkt)
  /\ Used(pkt) <= Cap
  /\ pkt.cells = <<>> => pkt = NoPacket
  /\ off > 0 => sec <= N /\ off < size[sec]
  /\ pkt.cells # <<>> => TailIs(LastCell(pkt.cells))
  /\ pkt.cells = <<>> /\ sent # <<>> => TailIs(LastCell(sent[Len(sent)].cells))
  /\ pkt.cells = <<>> /\ sent = <<>> => off = 0

(* Packets follow one another like the cells within them. *)
CrossInv ==
  /\ \A q \in DOMAIN sent : q < Len(sent) =>
       Link(LastCell(sent[q].cells), sent[q + 1].cells[1])
  /\ sent # <<>> /\ pkt.cells # <<>> =>
       Link(LastCell(sent[Len(sent)].cells), pkt.cells[1])

(* A section starts only after the bytes of earlier sections. *)
Precede(cells1, cells2) ==
  \A i \in DOMAIN cells1, j \in DOMAIN cells2 :
    Starts(cells2[j]) => cells1[i].sec < cells2[j].sec
OrderInv ==
  /\ \A q, r \in DOMAIN sent : q < r => Precede(sent[q].cells, sent[r].cells)
  /\ \A q \in DOMAIN sent : Precede(sent[q].cells, pkt.cells)
  /\ \A p \in {pkt} \cup {sent[q] : q \in DOMAIN sent} :
       \A i, j \in DOMAIN p.cells :
         i < j /\ Starts(p.cells[j]) => p.cells[i].sec < p.cells[j].sec

(* The buffer holds the start of a section, up to the last cell received.  *)
BufferInv ==
  buf # <<>> =>
    LET k == buf[1].sec IN
    /\ rx > 0
    /\ k \in 1 .. N
    /\ Len(buf) < size[k]
    /\ Len(buf) >= Hdr => size[k] <= MaxPrivate
    /\ buf = Bytes(k, 0, Len(buf))
    /\ LastOut < k
    /\ IF first THEN CellsRx[1] = [sec |-> k, at |-> Len(buf)]
                ELSE Idle /\ LastCell(CellsRx) = [sec |-> k, at |-> Len(buf) - 1]

ReadingInv ==
  /\ lastCc = IF rx = 0 THEN -1 ELSE (rx - 1) % CCMod
  /\ cursor - rx <= MaxLoss
  /\ pos <= Len(CellsRx) + 1
  /\ first => buf # <<>> /\ pos = 1
  /\ buf = <<>> /\ ~ Idle => CellsRx[pos].at = 0
  /\ LastOut < sec
  /\ \A i \in DOMAIN CellsRx : i >= pos /\ Starts(CellsRx[i]) => LastOut < CellsRx[i].sec
  /\ \A p \in {pkt} \cup {sent[q] : q \in rx + 1 .. Len(sent)} :
       \A i \in DOMAIN p.cells : Starts(p.cells[i]) => LastOut < p.cells[i].sec

TransportInv == SenderInv /\ CrossInv /\ OrderInv /\ BufferInv /\ ReadingInv
=============================================================================
