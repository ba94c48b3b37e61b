# A formal model of bitstream

`bitstream` is a set of C headers (`mpeg/`, `dvb/`, `atsc/`, `ietf/`, `id3/`, `scte/`,
`smpte/`, ...) with static inline getters, setters and validators of broadcast formats,
and a handful of programs (`examples/`) that put them together. Nearly all headers are
stateless. The state, and what is hard, is in

* `mpeg/psi/psi.h`: sections split over packets, reassembled, and gathered into tables;
* the programs: a receiver that follows the services of a stream, a generator, an ECM
  generator with its client, and a restamper.

The project models those first, then the headers: as layouts (which bits a setter writes), as loops
(how entries are written, validated and walked), and as conversions (dates, texts, messages, ID3
tags). Every module names at its head the code it stands for; `PROJECT.json` maps each definition to
its lines.

## 1. Inventory

| Component | Source | State | Operations | Made correct by |
|---|---|---|---|---|
| TS packet layer | `mpeg/ts.h` | none (4-bit continuity counter in the packet) | `ts_check_duplicate`, `ts_check_discontinuity`, `ts_section`, `ts_next_section`, `ts_payload` | the counter tells a repeated packet and a gap from the next packet; the pointer_field leads to the first section |
| Sections over packets | `mpeg/psi/psi.h` 316-431 | a buffer and the bytes used of it (receiver); section and ts offsets (sender) | `psi_split_section`, `psi_split_end`, `psi_assemble_*` | what comes out is what went in, in order, at most once |
| Tables | `mpeg/psi/psi.h` 434-536 | 256 section pointers per table, next and current | `psi_table_section`, `_validate`, `_compare`, `_copy`, `_free` | a table in force is whole, of one version; blocks have one owner |
| SI receiver | `examples/dvb_print_si.c` | per PID: buffer, last counter, `i_psi_refcount`; per table: next/current; services (`pp_sids`), bouquets | `handle_psi_packet`, `handle_section`, one `handle_*` per table | a PID that is needed is read; what is on air is followed |
| PCR printer | `examples/mpeg_print_pcr.c` | as the receiver, less tables | `handle_pat`, `handle_pmt` | it ends once a PMT of an announced service is on air |
| SI generator | `examples/dvb_gen_si.c` | one continuity counter | `output_psi_section`, `build_*`, `generate_*` | a receiver gets the sections; a section says what was asked, and nothing of the buffer before |
| ECMG server | `examples/dvb_ecmg.c` | channel, version, array of streams with holes | one `handle_*` per message, timeout | channel and streams are what the client was told |
| ECMG client | `examples/dvb_ecmg_test.c` | channel, streams (confirmed or not), crypto-period clock | the same, plus `create_stream`, `check_cw`, `send_cw` | one control word per stream and crypto-period |
| Simulcrypt messages | `dvb/sim.h` | none | TLV setters and getters, counts, `ecmg_validate`, `emmg_validate` | what is composed is accepted and read as it was meant; what is accepted can be read |
| Restamper | `examples/mpeg_restamp.c` | last PCR, its date, offset | `handle_pcr`, `handle_ts` | the clock runs on, stamps keep their distance |
| Dates and texts | `dvb/si/datetime.h`, `dvb/si/strings.h`, `common.h`, `iconv_wrapper` of the receiver | the last converter and its character set | encode, decode, convert, escape | what is written is what is read, whatever was read before |
| ID3 tags | `id3/id3v2.h` | none | unsynchronise, undo, frame by frame | no false start of a frame, and the content survives |
| RTP checker | `examples/rtp_check_seqnum.c`, `ietf/` | expected sequence number | main loop | gaps are reported |
| Formats | `mpeg/psi/desc_*.h`, `dvb/si/*`, `atsc/`, `ietf/`, `id3/`, `scte/`, `smpte/`, `haivision/`, `ebu/`, `ieee/`, `itu/`, codecs | none | getters, setters, `init`, `validate`, loops of entries | fields do not overlap; what a validator accepts can be read |

How they interact: the generator calls `psi_split_section` and writes packets; a channel loses
and repeats them; `handle_psi_packet` feeds `psi_assemble_payload`; `handle_section` gives
sections to `psi_table_section`; whole tables reach `handle_pat`, `handle_pmt`, ..., which
change the reference counts that decide which packets are looked at. The ECMG server and
client are two processes connected by a pipe in each direction. There are no threads, no
callbacks but for printing, and nothing is persisted, so there is no crash recovery to model:
what is hard is loss and repetition, the order of sections and tables, interleaving of the two
ECMG processes with blocking writes, time-outs, counters at their limits, and loops over
structures that other calls have moved.

## 2. Modules

| Module | Stands for |
|---|---|
| `SectionPipe` | abstract: a pipe of whole sections that may lose but not splice, reorder or repeat |
| `PsiTransport` | sender (`output_psi_section`, `psi_split_*`), channel, receiver (`handle_psi_packet`, `psi_assemble_*`, `ts_*`) on one PID; refines `SectionPipe` |
| `PsiTransportProofs` | its proofs |
| `Multiplex`, `MultiplexProofs` | the generator and the receiver on several PIDs: one counter for all of them, PIDs that are read only now and then; its proofs |
| `PsiTable`, `PsiTableProofs` | `psi_table_*` and the sequence store / compare / validate / switch of every table handler; its proofs |
| `ServiceTracker` | `handle_pat`, `handle_pmt`, `handle_pmt_es`, `handle_eit_section`, `i_psi_refcount` of the receiver |
| `PcrPrinter` | `mpeg_print_pcr.c`: the same `handle_pat` but for the removal, and a `handle_pmt` that prints and ends |
| `MCServiceTracker` | what is on air, and a run of either program |
| `ServiceTrackerProofs` | proofs about both programs |
| `Restamp` | `mpeg_restamp.c` |
| `Modular` | lemmas on arithmetic modulo a constant, and that a set of numbers has a least member: used by the other proofs |
| `EcmgMessages` | messages of the ECMG/SCS protocol, as records |
| `EcmgService` | abstract: a channel with a set of open streams and one pending answer |
| `EcmgServer` | `dvb_ecmg.c`; refines `EcmgService` |
| `EcmgClient` | `dvb_ecmg_test.c`, with time |
| `EcmgPrograms` | the state of both: extends the server, has an instance of the client |
| `MCEcmgAlone` | each of the two with a peer that sends anything |
| `Ecmg` | both, with bounded pipes between them, blocking writes, time-outs |
| `EcmgProofs` | proofs about the server, the client and the two together |
| `SimMessages` | `dvb/sim.h`: composition and validation of messages, parameter by parameter |
| `DvbTime`, `DvbStrings`, `Id3Tags` | `datetime.h`; `strings.h`, `iconv_wrapper` and `bitstream_xml_escape`; `id3v2.h` |
| `Conversions` | a run of one of these four |
| `ConversionProofs` | proofs about `Restamp` and `Conversions` |
| `BitFields`, `Structures` | the algebra the header files are written in: which bits a setter stores, forces, clears or only raises, what an initialiser writes, what a validator lets through; the condition `WellMade` |
| `MpegDescLayouts`, `DvbDescLayouts`, `TableLayouts`, `StreamLayouts`, `NetLayouts`, `ScteLayouts` | the tables: 282 structures |
| `Layouts` | a program that builds or receives one of them and calls setters |
| `GeneratorPrograms`, `Generator` | the calls that each function of `dvb_gen_si.c` makes, and a generator that makes them one by one |
| `MCLayouts` | all structures and programs |
| `StructureProofs` | proofs about `Layouts` and `Loops` |
| `EntryList` | abstract: a list that one appends to, closes and reads |
| `LoopKinds`, `Loops` | the loops of entries of all structures: how they are written, validated and walked; refines `EntryList` |

### How state and actions correspond to the code

**PsiTransport.** A payload byte is a cell: which byte of which section, or stuffing, so that
splicing is visible. Sender variables `sec`, `off`, `pkt` are the section, `*pi_section_offset`
and the packet being filled (`*pi_ts_offset` is `Used(pkt)`). `SplitNoRoom`, `SplitCopy`,
`SplitEnd` and `Emit` are the branches of `psi_split_section`, the call of `psi_split_end` and
the write. A caller may or may not call `psi_split_end` between two sections: the generator
always does, the header allows both, so the model has both. On the receiver `buf` is
`p_psi_buffer`, `pos` the payload pointer, `first` tells that the buffered section is being
continued (the call on `ts_section`). Each `Assemble*` action is one call of
`psi_assemble_payload`. The header's length is read out of the cells that were copied; if they
were not a header the length is arbitrary, so that a splice is not hidden. The CRC is not
modelled: the properties hold without its help, within the burst of losses that the counter can
tell.

**Multiplex.** Cells and calls are those of PsiTransport, one packet under way at a time. `cc` is the
one counter of `output_psi_section`; `lastCc`, `buf` and `reads` are what the receiver keeps per PID.
Packets of a PID that is not read are passed by, but their number is noted (`PassBy`), as line 1312 of
`dvb_print_si.c` does; a packet whose number is that of the last one is taken for a repetition
(`TakeForRepetition`). A PMT that selects a PID or gives it up is `Subscribe`, between any two
packets. `arrived`, `handled`, `blind` and `intact` are history: they say which packets the receiver could not know
to have missed.

**PsiTable.** `next` and `current` are the arrays of pointers, `idx` the `uint8_t` loop counter
(modulo `Width`), `live` counts malloc minus free. The loops are one iteration per step, because
whether they end is one of the questions. Section content is a key and a CRC verdict, as much as
`nit_table_validate` looks at.

**ServiceTracker.** `slots` is `pp_sids`, `refs` is `i_psi_refcount`, `pat`/`old` the tables of
`handle_pat`. Its two walks are one program per step (`AddProgram`, `RemoveProgram`) so that
invariants are seen in mid-walk. A free entry has sid 0, as in the code; a lookup finds the first
entry that matches, as in the code. `RemoveProgram` drops the EIT sections of the entry that has
the number of the PAT's section, because that is what line 304 does; when there is no such entry
the outcome is undefined and the model stops (`RemoveUndefined`).

**PcrPrinter.** `ReceivePat` and the first walk are those of ServiceTracker, as the code is the same
line by line; `GiveUpProgram` is the removal without EIT sections. `printed` is the PMT it has
printed the PCR PID of; nothing happens afterwards. In `MCServiceTracker` the initial state decides
which of the two programs runs (for the receiver, `printed` is `Aside`).

**Restamp.** Clocks modulo `M`; `HandlePcr` and `HandleTs` are the two functions, and a packet
handles its PCR first. The date is only used as a difference: `elapsed`.

**EcmgServer / EcmgClient / Ecmg.** A message is a record with the parameters the programs read
and a `form` (torn, lacking a parameter, empty) that stands for what `tlv_validate` and the counts
refuse. A step of the server reads and handles one message; the answer is written by a step of
its own, since the write can block. A step of the client is one iteration of its main loop,
including the set-up of the next stream and the control words that are due at its end. `turn`
and `lag` are `i_last_time` modulo the period and the seconds since then. In `Ecmg` a pipe holds
`Capacity` messages and whoever writes into a full one waits.

In `MCEcmgAlone` the variable `alone` says which of the two programs faces arbitrary messages. The client is asked for
each of `Periods` in turn, and the server's statuses have minimum durations that are as long as each of them
and a tenth of a second longer, so that clients of every period get a channel and send control words.

**Layouts.** A header of the library is a family `X_init`, `X_set_f`, `X_get_f`, `X_validate` over a
byte buffer that somebody else allocated and nobody cleared. `X` is a definition in one of the six
tables; a field lists the positions its getter reads (`get`), where its setter stores each bit of the
argument (`put`), the positions it only ORs into (`raise`), those it forces to one or to zero (reserved
bits, mostly) and the fields it overwrites on purpose (`rewrites`). Buffer bits are symbolic: a bit
holds a constant, what was there before, or "bit k of the last value given to f", so that one
behaviour stands for all values. `Initialise` is `X_init`, `Call(f)` a setter, `Receive` a structure
that `X_validate` lets through, at the shortest length it accepts. Conventions of the tables:

* arguments fit their field (many setters do not mask them); the getter's value is the bits it
  assembles, before a change of unit or sign;
* a setter of the length of a table that adds a constant stores its argument plus that constant;
* setters that compute a length from the content are left to the caller, and parts whose place
  depends on the content are left out, as the comment of the structure says; `_txt` and `_str`
  functions are wording;
* when the validator looks at the content too, the table has the weakest length it may accept;
  `further` names the fields a reader tests for first, as the print functions do or the getter itself;
* two views of the same bits, and switches that start others over, are declared as rewriting each other;
* `fragile` excuses the fields whose setters are wrong: they are listed in section 5, and nothing is
  claimed of them;
* fields made by `BITSTREAM_GET_SET` of `common.h` are placed by the loops of those macros
  (`bitstream_get`, `bitstream_set` in BitFields), byte by byte, not by their names;
* where fields move with flags and counts (SCTE 35 and 104), there is a layout for each form that flags
  and counts can take; a structure that a larger one keeps is `Embedded` at its byte.

**Generator.** A program of `GeneratorPrograms` is the sequence of calls a function of `dvb_gen_si.c`
makes on one structure; `next` is the call it is at. `CallNext` is the setter of Layouts,
`InitialiseAgain` a second `X_init` (some functions start a section again after having sent it), `Output`
is `output_psi_section`. Buffers come from `malloc`.

**Loops.** What a structure's loop is, is a record of `LoopKinds`: the size of an entry's head, the sizes
it may announce, what the reader asks of the room left, which of the forms of walk the validator has, and which
variables are a `uint8_t`. `Open`/`Add`/`Close` are a writer in the manner of `build_desc0a` (it
declares all room, asks for the next entry, and in the end declares the place of the entry it
did not fill), `AddDesc`/`SetLength` are `descs_add_desc` and the caller's correction, `ReceiveLoop` any bytes,
`Advance`/`Stop` a turn of the validator, `ReadEntry`/`ReadOver` a turn of a reader. Bytes that are received are
chosen when they are first looked at, and stay. A loop is one level: what a validator asks of the inside of an entry
(`desc21_validate` its substructures and their count, the walks over sections the descriptors of each entry) is left out, so that
the model accepts more than the code, and what is shown of loops that are accepted holds of those the code accepts.

**Conversions.** Four models side by side, of which the initial state picks one. DvbTime goes through
all days, one per step, with the integer divisions of the header (its floating-point constants are
fractions); SimMessages composes each message the two programs send, with the buffer's size, or
one spoilt by up to two parameters, and hands it to the validators; DvbStrings writes a text or finds a
field, and reads it with the converter the last text left; Id3Tags lets a tag go through
programs that unsynchronise it or undo it, frame by frame, with the flags they set.

## 3. Runs

| Run | Question | Bounds | States |
|---|---|---|---|
| `transport` | is the transport a lossy pipe, can it overrun, miss, or hang? | 3 sections of sizes 2, 3, 9, 10; packets of 5 cells, header 2, private maximum 9, counter modulo 4, at most 2 losses in a row | 63 592 |
| `transport_limit` | do all sections that fit come out? (violated) | no loss | - |
| `multiplex` | what does the shared counter, and reading a PID now and then, cost; when can sections be spliced? | 2 PIDs, one of them optional; sizes 3, 6, 7; packets of 4 cells, header 2, private maximum 9; counter modulo 3; 7 packets | 832 128 |
| `table` | is the table in force whole, does the handler return, does anything leak? | 3 slots, last section 0 or 1, 2 versions, 2 keys or a bad CRC | 21 370 |
| `table_full_width` | the same for a table that uses every value of the counter (violated) | 2 slots, width 2 | - |
| `services` | is each reason to read a PID counted once; are announced services known; are tables followed, and does the PCR printer end? | 8 things on air, 2 changes, 5 entries, 3 PIDs, programs 0 to 2 | 761 293 |
| `restamp` | does the clock run on; do stamps keep their distance? | clock of 9 ticks, interval 2, up to 12 elapsed | 10 660 |
| `ecmg_alone` | does the server's array of streams behave like a set, and does the client send one control word per period, whatever the peer sends and however late they are? | 4 stream ids, three versions, two channels; 3 streams, periods 1 to 3, each under minimum durations it meets and misses, lag up to 3 | 26 574 |
| `ecmg` | do both agree; does neither complain, block or stop? | 3 streams, periods 3 and 6, time-out 5, lag 1, 2 messages per pipe | 70 432 |
| `layouts` | are the structures records: do setters stay in place and leave each other's fields, is every bit written by someone, is a fresh structure valid and a valid one readable; and is what the generator sends what it was asked for? | 282 structures, any 2 calls; 141 programs of the generator, all calls | 12 325 |
| `loops` | is what a validator accepts what a reader reads; is a loop a list; do the walks end? | bytes of 64 values, lengths up to 128, up to 4 entries, numbers modulo 4 | 62 616 |
| `conversions` | what one program writes, does another read? | all 50 457 days of the field; durations to 159 h; 2 frames of up to 3 bytes, 3 rounds; messages with up to 2 odd parameters, 6 numbers of control words; texts of up to 3 of 7 bytes, 6 character sets, 2 without a converter | 645 182 |

Why the bounds are enough. *transport*: sizes make sections shorter than a packet, end flush with
one, span two and three packets, and lie above the limit; three sections let one be lost between
two that are not; two consecutive losses are what a counter modulo 4 can tell (14 of 16 in the
code). *multiplex*: a counter of three values goes round within one section on the other PID, so that whole
and partial periods pass between two packets of a PID, read or not, lost or not; sizes are one packet and two, once
with room left. *table*: two sections of two versions give every mix that
`psi_table_section` compares; one slot more than is in use shows leftovers. *services*: two
programs are enough to swap and to share a PID, and two changes to come, go and come back, since the
receiver starts with nothing; a PAT of two sections, and one whose first section lists no program,
give the indices of line 304; `MaxSlots` cuts the growth described below. *restamp*: the wrap-around,
jumps in both directions and waits longer than the whole clock all happen; proofs lift the sizes.
*ecmg*: three streams on two period lengths give the case of two streams in the same second, and
pipes of two messages fill. *layouts*: two calls give every ordered pair of setters, which is what a lost
field takes; `StructureProofs` lifts the number of calls, and `KindIsWellMade` checks its premise on each table.
*loops*: a byte of 64 values is overrun by an entry of the same size plus its head, as 255 and one does with 256;
four entries are as many as numbers, so that a counter of entries comes round. *conversions*:
the days are all there are; three bytes hold every pair of bytes that unsynchronisation looks at, once more
behind another, and across a frame; numbers of control words lie on both sides of what the client's
buffer holds, with the largest a byte can ask for; texts hold a character of each length of UTF-8, whole and cut short.

The mutants in `PROJECT.json` replace a mapped definition by a slip of the same shape
(`Slip:` comments in the modules) and show that each property notices.

### Fairness

`FairSpec` of PsiTable: the handler is one thread, once it has a table it runs on; no section
need ever come. PsiTransport: sender and receiver run on; an arriving packet is eventually
handled or lost; nothing forces the channel to deliver. ServiceTracker and PcrPrinter: the walks are loops of
one thread and tables on air are repeated for ever (carousels), hence weak fairness of each
reception. Loops: a function that was called runs, so validators and readers make their turns; nobody is forced to call.
Ecmg: weak fairness for each process and for the clock: the processes do nothing but
read, write and wait, and the operating system schedules both. The client is late by at most
`MaxLag`: that is an assumption on the machine and it matters, see section 5. Multiplex, Restamp,
Layouts, Conversions and the ECMG programs alone are checked for safety (and, in the case of the server, for refinement) without fairness.

## 4. Proofs

All are checked by `tlapm`; they hold for every value of the constants that satisfies the named
assumptions. Each module has one inductive invariant, a lemma for each action (or group of
actions that change the same things) that keeps it, and theorems that read the properties off it. The
invariants were model-checked on the runs' instances before they were proved.

* **PsiTableProofs**. `TypeCorrect`; `TableSafety` for the inductive invariant
  `TypeOK /\ CurrentWhole /\ NextPartial /\ HandlerInv`. `CurrentWhole` alone is not inductive: the
  switch copies `next`, so one must know that `next` is whole while the handler runs and that the
  sections below `idx` were validated (`HandlerInv`). `NextPartial` is what lets `psi_table_section` check
  only the table of the section it has just stored. From it: `CurrentIsWhole`, `NextIsPartial`. `SwitchesAreNews` follows
  from the clause that only a table unlike the current one reaches validation; `NoSectionLeaks` counts blocks with
  cardinalities of finite sets. Assumption: `SizesAssumption` and `NullAssumption`. `Width` is
  free: safety does not depend on the loops ending.
* **PsiTransportProofs**. `TransportInv` is the inductive invariant: packets are runs of cells with
  right pointer fields (`SenderInv`), they link up (`CrossInv`), sections start in order
  (`OrderInv`), the buffer is a prefix of a section whose next byte is the next cell on the wire
  (`BufferInv`), and the counter is that of the packet last received (`ReadingInv`). From it:
  `NoOverrun`, `NoSplice`, and `TransportIsPipe`, the step simulation of `SectionPipe`. The key step is that a burst
  of fewer losses than the counter's period less one always shows as a discontinuity; it uses the
  lemmas of `Modular`. `NothingIsMissed` needs more, `MissedInv`: stuffing goes on to the end of its packet, the first
  byte of a section that was begun is on the wire, what left the channel after the packet last received was lost, and a
  section whose packets so far arrived has been handed out, is in the buffer, or is still to be read
  in the packet in hand. The last of these is what `ts_next_section` and
  `psi_assemble_payload` have to keep: what they step over is no start of a section. `TransportAssumption` has `Cap <=
  MaxPrivate`: a packet (184 bytes) is smaller than a section may be (4093).
* **MultiplexProofs**. The invariant speaks of three numbers for each PID: the last packet written, arrived, looked at. Counters
  are those numbers modulo the period (`CountersInv`); where the receiver is not `blind` a buffer holds the first bytes of a
  section, and that section goes on with the packet in hand, or with the one written after the last that was looked at
  (`BufferInv`); as long as nothing has happened to the packets of the section being sent, all of it that was written is in the
  buffer or was given to `handle_section` (`IntactInv`). The argument is `FollowsOn`: if `ts_check_discontinuity` is silent, a whole number of
  periods and one packet went by (`CounterAhead`), and unless the receiver is blind that is one packet, so that the buffer continues
  with the byte that follows. From it `SplicesOnlyBlind` and `MissesOnlyRepetitions`. `NothingOverflows` holds in
  the blind cases too: whatever is in a buffer, it is shorter than the size it declares (`Short`), so that
  `psi_assemble_payload` neither copies too much nor goes back in the packet.
* **ServiceTrackerProofs**, for the receiver (`Spec`) and the PCR printer (`PcrSpec`). `AnnouncedKnown` speaks of the
  moments between tables and is not inductive. In mid-walk of `handle_pat` the programs that were passed are known by the PIDs of the new PAT
  (`PassedKnown`), those still to come by the PIDs of the old one (`WaitingKnown`), and what is left of the walk is part of the
  new PAT (`TodoOfPat`). A walk that places a program in the first entry that is free keeps this because lookups find the first
  entry as well. `CountsExact` follows each step: the reasons to read a PID are a set of programs and a set of streams, whose
  cardinalities move by what the step adds to or takes from `i_psi_refcount` (`Balanced`), but for the references that the code forgets
  (`Withdrawn`). From it `NothingUnread`: what is needed is read. Assumption: `TrackerAssumption`.
* **EcmgProofs**, about three specifications. The server (`Spec`): `Distinct` and `ArrayBounded` go together: an entry is appended
  only when none is free, and then the entries are as many as the streams that are open, which are distinct and do not include the new
  one. With `ChannelAsked` and `OutNamed` they make `ServerInv`. `ImplementsService` is the step simulation of `EcmgService`, handler
  by handler.
  The client (`Client!Spec`, any server): `PaceIsKept`. `KeepsPace` is not inductive, since how many control words fall due in the
  next seconds depends on where in the period they lie. `PaceInv` takes the place in the period (`Phase`) away from the balance; what is left
  never changes as long as a stream is confirmed, because the seconds that an iteration makes up for meet a turn once per
  period, counted from where the last one ended (`Visits`, in `Modular`). `Due` lists the turns by their rank, and `RankIsPlace` says that
  ranks number them, so that the control words counted are the turns counted (`DueCounts`).
  The two together (`EcmgSpec`): `PairInv`. Before the channel is open its request is all there is (`Asking`); afterwards everything on its way to the
  server is a setup or a control word for a stream that is open, everything on its way to the client is about an open stream, and the
  status of the channel is read first (`Talking`); a stream that was asked for and is not open has exactly one setup on the way
  (`SetupsInv`), one that is open and not confirmed exactly one status (`StatusInv`). So at each message that the server reads only one
  handler can take it, none of them one that refuses (`RequestHandled`, `SetupHandled`, `CwHandled`). From it `TheTwoAgree`,
  `NobodyComplains`, `PairKeepsPace`.
  `NobodyIsReset` adds what time has to do with it (`QuietInv`): while nothing is on the way to the server, it has waited no longer
  than since the last turn of some confirmed stream, or than since the last iteration if none is confirmed (`WaitInv`); the turn of
  each stream comes once per period, and an iteration is late by `MaxLag` at most, so that the wait stays below `i_period + MaxLag`.
  `NobodyStandsOff` counts what is in the pipes (`LoadInv`): at most one message when the first stream is set up, two for
  each stream that is set up after it, and, once they all are, no more than when the last one was set up, or than
  one pipe and the two output buffers hold.
  Its premise `Steady` says what the code needs for this: an iteration sends at most one control word (`OneTurn`: `MaxLag = 1`, and a second
  for each stream in the period), the server never probes (`Prompt`), and `Wanted <= Capacity + 1`. Without the first of these the
  property fails (section 5). The run also covers a period of 6 seconds, with probes, where the theorem says nothing.
  Assumptions: `ServerAssumption` (stream ids are finitely many, and `NULL` is none of the things it stands beside),
  `ClientAssumption` (periods are at least a second; the bounds are numbers) and `PipeAssumption` (there are ids for all the streams
  that are wanted). The premises of the last two theorems apart, nothing is assumed on how large the pipes are or
  how the time-outs compare.
* **ConversionProofs**, about clocks that are moved (`Restamp`) and values that are converted (`Conversions`).
  Clocks: `OutMoved` is the invariant: what is written is what was read, moved by the
  offset. `StampsKeepDistance` and `ClockRunsOn` follow with `Modular`.
  Times: the divisions of `dvb_mjd_set` and `dvb_mjd_get` invert each other because the days of a year, counted from March,
  begin where `30.6001 * month` is cut to an integer, twelve places that are looked at one by one (`MonthFound`), and those of the
  years where `365.25 * year` is cut, which repeat after four years (`YearFound`). `TimesAreKept` has a premise, `MaxHours <= 159`:
  hours are two digits in a byte, the first of which may go up to 15.
  Tags: `TagInv` speaks of each frame by itself (`FrameIs`): one without a mark is as it was made and holds nothing that is to
  be separated; one with a mark is that, separated or not as the tag is, in the first round, and after it as it was made, if
  nothing in it looks like the result of a separation. That `Joined` undoes `Separated` and that no false
  start is left needs to know where each byte of the result comes from (`Placed`).
  Texts: `StringInv` keeps the converter with the name that is remembered, and, for XML, every character that was written well
  formed and the bytes passed so far the same as those that come back (`EscapedUpTo`). `ReadsBack` says that
  `dvb_string_get_encoding` takes off what `dvb_string_set` put in front, `CharacterIsWell` that a character that is copied is the one that was
  looked at. `FlattenSeq`, a recursive function, is reached by the partial results of its recursion (`Partial`, `Flattened`).
  Messages: `MessageInv` says how much of a message has been composed (`Composed`): a beginning of what was to be appended, and
  how long it is. Each function of the two programs makes a message of at most ten parameters, of different types, each as long as its type
  asks and among them all that are needed (`Plain`), which the rules let through (`ValidIfDistinct`); or three parameters and then
  control words (`Worded`), of which the declared length holds 71, with 1012 bytes. That a type counted in `Needed` is there and long
  enough to be read is looked at rule by rule (`EcmgAsks`, `EmmgAsks`), and type by type (`LengthsAre`, `EmmgLongEnough`).
  Assumptions: `MessagesAssumption` (a server asks for the control words in a byte; a message has fewer than 256 parameters: `tlv_find_param`
  counts them in a byte and would start over, which is not modelled), `ClockAssumption`, `TagAssumption` (contents are bytes) and `StringAssumption` (texts are bytes, and who writes one
  names a character set).
* **StructureProofs**, about fields (`Layouts`) and loops (`Loops`). Fields: `Spec /\ KindIsWellMade => []P` for `TypeOK`, `ActsAsRecord` and `NothingStale`, for
  every set of structures and every number of calls. `WellMade` speaks of one setter and one getter at
  a time (a getter reads bit for bit where its setter stored; no other setter touches what it reads
  unless it says so; every bit has a writer); the induction shows that this is enough for every
  sequence of calls. What `IInv` adds to the properties is `InitialiserFirst`: no field counts as
  written before `X_init`. Assumption: `MaxCallsAssumption`. The run evaluates `WellMade` on all 282 tables.
  Loops: `LoopSpec => []AcceptedIsRead` and `LoopSpec => ListSpec`, for every kind, `Width`, `LongLength`, `NumberWidth` and
  `MaxEntries`. What the walks need of a kind is `Sound` (an entry is at least a head long, no entry asks for more room than its
  head, a size is computed in a byte only where the declared length is a byte too, a length that is only divided has entries
  of one size that the reader takes as they are); `KindsAreSound` shows it of each of `Kinds`, and nothing else is used of them. The invariant
  `LoopInv` speaks of a `Chain`: entries one after the other from the first position, each as long as it says. A writer leaves
  one (`Written`), the validator goes along it (`Walked`), and a loop found good is one (`Whole`) unless an entry is
  `Turned`. That the reader goes along the same chain is `ReadsAlong`; `Entry`, the recursive function of its walk, is
  reached by `FirstEntry` and `NextEntry`. For `LoopIsList`, `WalkOverWritten` shows that the validator of what was written stops at its end
  and nowhere before. Assumptions: `LoopKindsAssumption` (a byte has at least 16 values, so that heads fit) and `LoopsAssumption`.

The theorems named `TypeCorrect` state type invariants that no run but `layouts` repeats; the proofs need them.

Model-checked only:

* liveness (`PacketHandled`, `HandlerReturns`, `ReceiverFollows`, `ClockFound`, `WalkEnds`,
  `EcmsKeepComing`, `EndsTogether`): the prover has no reasoning about fairness here;
* `NoStandoff` of the two ECMG programs when the server probes a client whose period is longer than its time-out: the theorem has
  shorter periods;
* `LengthsAgree`, `KindIsWellMade` and `GeneratedWhole`, which are statements about given
  tables and programs and not about parameters.

## 5. What the models say about the code

Runs that end in a violation (see `findings`):

* a table that uses section number 255 makes the `uint8_t` loops of `psi_table_compare` and of the
  table validators endless (`table_full_width`);
* `psi_assemble_payload` compares the size *with* header with a limit on the length *without* it,
  so the largest three legal sizes are dropped (`transport_limit`).

Setters and getters that are wrong, found when their tables were written (`Fragile` in the layouts,
or said there in a comment):

* wrong mask or shift: `dvb/si/desc_7b.h:73` (the bit rate keeps the bits of the wrong byte, so that the
  number of blocks is lost when the bit rate is set after it; the generator sets it before), `dvb/si/desc_43.h:106` (rolloff is always zero), `dvb/si/desc_69.h:61` and `:100`
  (pil, hour), `dvb/si/desc_6b.h:63` (forces the first flag), `atsc/a52.h:200` and `:246` (bsid, strmtyp),
  `atsc/si/desc_81.h:54` and `:65`, `mpeg/mp2v.h:437` and `:459` (overlapping fields), `itu/h265.h:392`
  (tier over profile_space), `mpeg/mpga.h:180` and `:190` (bits of the channel mode), `ebu/biss.h:90`,
  `:101`, `:125` and `:271`, `ietf/rtp2435.h:237`;
* getters that do not shift or are too narrow: `ietf/ip.h:129` and `:161`, `haivision/srt.h:969` and `:982`,
  `mpeg/mp2v.h:601`, `mpeg/psi/desc_13.h:64`;
* setters that OR without clearing, so that a second call mixes two values: `haivision/srt.h:124`, `:177`,
  `:216`, `ietf/rfc4175.h:86`, `ietf/rtcp.h:44`, `ietf/rtcp_fb.h:14`, `ietf/rtp2435.h:187`, `mpeg/ts.h:261`,
  `smpte/2022_6_hbrmt.h:61`, `smpte/2022_1_fec.h:92`;
* validators: `dvb/si/dit.h:68` lets a section through that lacks its flag; `dvb/si/ait.h:141` compares with
  the tag; those of `desc_45`, `51`, `5b`, `5d`, `5e`, `6c` and `6d` add an entry up in a `uint8_t` and may
  never return;
* order: `psi_set_version` clears what `psi_set_current` set; `desc2a_set_picture_and_timing_info_present`
  starts the length over.

Loops and validators (named as exceptions in `WalkEnds` and `AcceptedIsRead`, or modelled as they are):

* printing an EIT, SDT, NIT or SIT counts entries in a `uint8_t` and starts again after 256
  (`eit_print.h:99`); so does `tlv_find_param` (`sim.h:152`);
* `ait_validate` ends its walk over applications without asking that the last one ends with the section;
* `ait_desc_app_name_next_name` goes on by 3 and the length of the text, which starts at 4;
* a loop that is filled to the last byte cannot be closed by `X_set_length(X_get_Y(n))`: there is no entry
  `n` to be had;
* `descs_add_desc` (`descriptors.h:248`) gives the new descriptor the old length of the loop;
* `scte104m_validate` refuses a message without operations (`104.h:436`, a `uint8_t` minus one).

SCTE 35 (`scte/35.h`):

* the walk over components of an insert command takes a splice time into account when the splice is immediate, and
  not otherwise (455): of components that splice at once it reads what was in the buffer;
* the break duration is looked for behind the entry after the last (467, 571), so that bytes are left unwritten;
* `scte35_insert_set_cancel(false)` starts the flags over, and `scte35_null_init` and
  `scte35_insert_init` start the section over, the adjustment included: the generator sets it before and loses it (it is zero).

The generator, apart from that: section and last section number of SDT, NIT, BAT and EIT, and the scrambling bit of an
event, are sent as `malloc` left them (`GeneratedWhole` lists them); two more fields end in the wrong place
and are only ever zero.

Dates, texts, messages and tags (exceptions in `TimesKept`, `TextKept`, `MessageKept`, `TagKept`, or bounds of what is tried):

* days wrap round after 22 April 2038, and durations of 160 hours and more overflow their field;
* a text in the default character set that begins with a byte below 0x20 is read in another one;
* `bitstream_xml_escape` lets forms of UTF-8 that are longer than need be pass (`common.h:105`);
* the client declares `MAX_TLV_SIZE` as the room there is, five bytes more than the buffer has; the messages it sends
  happen to fit. Control words that do not fit (beyond about 71) are left out without a word, and a status
  that asks for none makes a message that the server refuses;
* unsynchronising a tag writes over an extended header that is not where it is expected (`id3v2.h:561`), takes the
  padding from behind the tag (599; the comment at 595 says otherwise), and undoing it leaves the mark of the frame set
  (616), so that a second round passes the frame over.

Observations that are part of the model, not judged by a property:

* `handle_pat` does not give back the reference on the PMT PID of a program that has gone, so the PID
  is read for ever; `RefsExact` states that the counts exceed the reasons by these references and no other.
* When a program moves while an entry before its own is free, its old entry stays in the array, under the old PID.
  Lookups find the new one first (`AnnouncedKnown`), but once the program has gone the old one is found: if that
  PID is still read, its PMT is taken in, or, in `mpeg_print_pcr.c`, printed, although nothing announces it any more.
* Line 304 of `dvb_print_si.c` drops EIT sections by the section number `i`, not by the entry `i_pmt`.
* A PMT, EIT or BAT for number 0 never matches an entry and appends one each time; PMT and EIT do not
  use a freed entry again, so that the array grows without bound.
* All packets of `dvb_gen_si.c` take their number from one counter. A section is missed when a whole number of
  periods of sixteen went by on other PIDs, as its start looks like a repetition; the buffer that was
  there is kept and may be continued (`Multiplex`). With a counter for each PID it would take sixteen lost packets
  in a row.
* `NoStandoff` depends on the client being on time: with a lag of two seconds, or three streams on a
  period of two, both processes can block in a write with both pipes full.
* The client ends on `CHANNEL_TEST`, so the server's probe of a quiet connection ends a live client
  when the crypto-period is longer than its time-out; `NotReset` therefore has the period in its premise.
* The client's crypto-period number never advances; `MAX_STREAMS` is announced and not enforced; a
  message of length zero reads like end of input.

## 6. Not modelled, and why

* Printing (`*_print.h`, and most of what is left of `dvb_print_si.c`): wording without state. The walks it makes are in Loops.
* What iconv does to bytes, and the numeric values of CRCs and checksums; a CRC is a verdict.
* Parts of structures whose place depends on their content beyond the forms of SCTE: `desc_24`, `desc_25`, `desc_26`,
  `desc_64`, `desc_6a`, `desc_7a` and the like. They would need a statement of the order in which callers must set what
  moves the rest, which the headers do not give. `capmt_get_es` has no limit to check against.
* The insert command for single components that splice at once (its walk reads old bytes of the buffer), and
  operations after the first of an SCTE 104 message.
* What ID3 frames say (`id3/frame_*.h`), and the extended header beyond its being there.
* SRT encryption and BISS keys, checksums of IP, parity of SMPTE 291: arithmetic without states.
* Start-code searches and tables of constants of the codecs.
* `rtp_check_seqnum.c`: one variable, compared with the number of each packet and set to the next; any property would restate the comparison.
* `dvb/sub.h`, `dvb/s2.h`, `dvb/telx.h`: getters without setters, over buffers that other programs fill; `atsc/si.h`
  includes other headers and no more.

## 7. Plan

Done: transport, multiplex, tables, services and PCR printer, both ECMG programs, restamper, layouts and
loops, conversions of times, tags, texts and messages with proofs; the generator's programs checked.

1. Structures whose fields move with their content, if a caller's obligations can be read off the programs.
