------------------------------ MODULE Restamp -------------------------------
(***************************************************************************)
(* mpeg_restamp.c: the clock references (PCR) of a transport stream whose  *)
(* clock jumps are rewritten so that they run on, and the time stamps (PTS *)
(* and DTS) are moved with them.                                           *)
(*                                                                         *)
(* Clocks count modulo M.  The wall clock is only ever used for the time   *)
(* since the last PCR.                                                     *)
(***************************************************************************)
EXTENDS Integers

CONSTANTS
  M,           \* TS_CLOCK_MAX
  MaxInterval, \* MAX_PCR_INTERVAL
  MaxElapsed   \* bound: wall clock time between two PCRs

ASSUME ClockAssumption ==
  /\ M \in Nat \ {0}
  /\ MaxInterval \in Nat /\ MaxInterval < M
  /\ MaxElapsed \in Nat

Clock == 0 .. M - 1

VARIABLES
  last,    \* i_last_pcr: M when there is none
  elapsed, \* wall clock time since i_last_pcr_date
  offset,  \* i_pcr_offset
  out,     \* the last PCR written, M when there is none
  ts,      \* the last time stamp read, and what was written for it;
  tsOut    \* M when there is none since the last PCR

vars == <<last, elapsed, offset, out, ts, tsOut>>

(* "handle 2^33 wrap-arounds" *)
Delta(pcr) == (M + pcr - (last % M)) % M

Continuous(pcr, discontinuity) == Delta(pcr) <= MaxInterval /\ ~ discontinuity

(* Slip: the sum may go past the largest clock value. *)
MovedPast(by, t) == t + by

Moved(by, t) == (t + by) % M

(* The PCR that was due: the last one, plus the time that has passed. *)
Due == Moved(elapsed, last)

(* Slip: the offset so far is not taken into account. *)
NewOffsetAlone(pcr) == (M + Due - pcr) % M

NewOffset(pcr) == (offset + M + Due - pcr) % M

(* The very first PCR. *)
PcrFirst(pcr) ==
  /\ last = M
  /\ offset' = offset

(* A PCR that follows the last one closely enough. *)
PcrContinuous(pcr, discontinuity) ==
  /\ last # M
  /\ Continuous(pcr, discontinuity)
  /\ offset' = offset

(* A PCR that does not: from now on it is moved to where it was due. *)
PcrJump(pcr, discontinuity) ==
  /\ last # M
  /\ ~ Continuous(pcr, discontinuity)
  /\ offset' = NewOffset(pcr)

(* handle_pcr *)
HandlePcr(pcr, discontinuity) ==
  /\ PcrFirst(pcr) \/ PcrContinuous(pcr, discontinuity) \/ PcrJump(pcr, discontinuity)
  /\ last' = pcr
  /\ elapsed' = 0
  /\ out' = IF offset' = 0 THEN pcr ELSE Moved(offset', pcr)

(* Slip: the time stamps of the packet are handled before its PCR. *)
HandleTsBefore(t) ==
  /\ ts' = t
  /\ tsOut' = IF t = M THEN M ELSE Moved(offset, t)

(* handle_ts, once the PCR of the packet, if any, has been handled; t is   *)
(* M for a packet without time stamp.                                      *)
HandleTs(t) ==
  /\ ts' = t
  /\ tsOut' = IF t = M THEN M ELSE Moved(offset', t)

PacketWithPcr ==
  \E pcr \in Clock, discontinuity \in BOOLEAN, t \in 0 .. M :
    HandlePcr(pcr, discontinuity) /\ HandleTs(t)

PacketWithoutPcr ==
  /\ UNCHANGED <<last, elapsed, offset, out>>
  /\ \E t \in Clock : HandleTs(t)

(* Time passes between two packets. *)
Wait ==
  /\ elapsed < MaxElapsed
  /\ elapsed' = elapsed + 1
  /\ UNCHANGED <<last, offset, out, ts, tsOut>>

Init ==
  /\ last = M /\ elapsed = 0 /\ offset = 0
  /\ out = M /\ ts = M /\ tsOut = M

Next == PacketWithPcr \/ PacketWithoutPcr \/ Wait

Spec == Init /\ [][Next]_vars

-----------------------------------------------------------------------------

TypeOK ==
  /\ last \in 0 .. M /\ out \in 0 .. M
  /\ ts \in 0 .. M /\ tsOut \in 0 .. M
  /\ offset \in Clock
  /\ elapsed \in 0 .. MaxElapsed

(* The PCR written is the one read, moved by the offset. *)
OutMoved ==
  IF last = M THEN offset = 0 /\ out = M
              ELSE out = Moved(offset, last)

(* Time stamps keep their distance to the PCR, before and after a jump: a  *)
(* decoder presents what it would have (the PCR of a packet is handled     *)
(* before its PTS and DTS).                                                *)
DistanceKept ==
  ts # M /\ last # M => (M + tsOut - out) % M = (M + ts - last) % M

(* The clock that is written never jumps: from one PCR to the next it runs *)
(* on by no more than MAX_PCR_INTERVAL, or by the time that has passed,    *)
(* wherever the clock that is read has got to.                             *)
RunsOn ==
  [][out # M => \E d \in 0 .. MaxInterval \cup {elapsed} : out' = Moved(d, out)]_vars
=============================================================================
