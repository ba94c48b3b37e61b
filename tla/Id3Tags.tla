------------------------------ MODULE Id3Tags -------------------------------
(***************************************************************************)
(* ID3 tags in an MPEG audio stream (id3/id3v2.h).  A decoder of audio     *)
(* looks for 0xff followed by three ones, and must not find it in a tag:   *)
(* id3v2_unsynchronise puts a zero between the two bytes, and between 0xff *)
(* and a zero so that it can be undone; id3v2_undo_unsynchronise takes     *)
(* the zeros out.  A tag passes through any number of programs that do one *)
(* or the other.                                                           *)
(*                                                                         *)
(* The callers give a buffer of the size that the function asked for.      *)
(* Headers hold no byte above 0x7f.                                        *)
(***************************************************************************)
EXTENDS Naturals, Sequences, SequencesExt

CONSTANTS
  Payloads,   \* contents that a frame may have
  MaxFrames,  \* bound: frames in a tag
  MaxRounds   \* bound: how often a tag is unsynchronised

(* A byte is 0xff, another that starts with three ones, 0 or none of these. *)
Bytes == {"ff", "ones", "zero", "other"}

ASSUME TagAssumption ==
  Payloads \subseteq Seq(Bytes) /\ MaxFrames \in Nat \ {0} /\ MaxRounds \in Nat

VARIABLES
  tag,
  whole,     \* the tag is all there, and nothing undefined in its place
  original,  \* history: the contents of the frames when the tag was made
  padded,    \* history: whether it had padding
  rounds     \* history: how often it was unsynchronised

tagVars == <<tag, whole, original, padded, rounds>>

-----------------------------------------------------------------------------
(* Frames.  A frame is marked by the flag in its header.                   *)

FalseSync(data, i) == i < Len(data) /\ data[i] = "ff" /\ data[i + 1] \in {"ff", "ones"}
ZeroPair(data, i) == i \in DOMAIN data /\ i < Len(data) /\ data[i] = "ff" /\ data[i + 1] = "zero"

(* Slip: 0xff before a zero is left alone. *)
SeparatedOnes(data) ==
  FlattenSeq([i \in DOMAIN data |->
    IF FalseSync(data, i) THEN <<"ff", "zero">> ELSE <<data[i]>>])

Separated(data) ==
  FlattenSeq([i \in DOMAIN data |->
    IF FalseSync(data, i) \/ ZeroPair(data, i) THEN <<"ff", "zero">> ELSE <<data[i]>>])

Joined(data) ==
  FlattenSeq([i \in DOMAIN data |->
    IF ZeroPair(data, i - 1) THEN <<>> ELSE <<data[i]>>])

(* id3v2_frame_unsynchronise *)
FrameUnsynchronised(f) ==
  IF f.marked THEN f
  ELSE [marked |-> Separated(f.data) # f.data, data |-> Separated(f.data)]

(* id3v2_frame_undo_unsynchronise: the mark stays. *)
FrameUndone(f) == IF f.marked THEN [f EXCEPT !.data = Joined(@)] ELSE f

-----------------------------------------------------------------------------
(* Tags *)

(* Padding goes out as long as it came in, but it is copied from behind    *)
(* the tag, where anything may be.                                         *)
PaddingOf(t) ==
  IF t.footer THEN {<<>>}
  ELSE IF t.padding = <<>> THEN {<<"zero">>}
  ELSE [1 .. Len(t.padding) -> Bytes]

Unsynchronise ==
  /\ whole /\ ~ tag.unsync /\ ~ tag.extended
  /\ rounds < MaxRounds
  /\ rounds' = rounds + 1
  /\ \E padding \in PaddingOf(tag) :
       tag' = [tag EXCEPT !.unsync = TRUE, !.padding = padding,
                          !.frames = [i \in DOMAIN @ |-> FrameUnsynchronised(@[i])]]
  /\ UNCHANGED <<whole, original, padded>>

Undo ==
  /\ whole /\ tag.unsync /\ ~ tag.extended
  /\ tag' = [tag EXCEPT !.unsync = FALSE, !.padding = <<>>,
                        !.frames = [i \in DOMAIN @ |-> FrameUndone(@[i])]]
  /\ UNCHANGED <<whole, original, padded, rounds>>

(* Both write the first frame over the extended header, which is counted   *)
(* but not stepped over.                                                   *)
WriteOver ==
  /\ whole /\ tag.extended
  /\ whole' = FALSE
  /\ UNCHANGED <<tag, original, padded, rounds>>

(* A tag that id3v2_validate accepts: frames with something in them, and   *)
(* zeros, or a footer, behind them.                                        *)
Frames == {[marked |-> FALSE, data |-> p] : p \in Payloads \ {<<>>}}
TagInit ==
  /\ \E fs \in UNION {[1 .. n -> Frames] : n \in 1 .. MaxFrames}, f, e \in BOOLEAN,
        padding \in {<<>>, <<"zero">>, <<"zero", "zero">>} :
       /\ f => padding = <<>>
       /\ tag = [unsync |-> FALSE, footer |-> f, extended |-> e, frames |-> fs,
                 padding |-> padding]
  /\ whole = TRUE
  /\ original = [i \in DOMAIN tag.frames |-> tag.frames[i].data]
  /\ padded = (tag.padding # <<>>)
  /\ rounds = 0

TagNext == Unsynchronise \/ Undo \/ WriteOver

-----------------------------------------------------------------------------

(* What a reader takes for the content of a frame. *)
Content(f) == IF tag.unsync THEN FrameUndone(f).data ELSE f.data

(* A frame that was changed in an earlier round is passed over in later    *)
(* ones: its mark outlives what it stands for.                             *)
PassedOver(i) == rounds > 1 /\ Separated(original[i]) # original[i]
Losing(i) == \E k \in DOMAIN original[i] : ZeroPair(original[i], k)

(* A tag that was unsynchronised shows a decoder no false start of a       *)
(* frame, nor half of one at its end, and whichever programs it passes     *)
(* through, readers find the content it was made with.  Where the code     *)
(* fails in this, and nowhere else: extended headers (id3v2_unsynchronise, *)
(* 561), padding (598), and frames that carry the mark of an earlier round *)
(* (id3v2_frame_undo_unsynchronise).                                       *)
TagKept ==
  whole =>
    /\ \A i \in DOMAIN original :
         Content(tag.frames[i]) = original[i] \/ (PassedOver(i) /\ Losing(i))
    /\ tag.unsync =>
         /\ \A i \in DOMAIN original :
              \/ \A k \in DOMAIN tag.frames[i].data : ~ FalseSync(tag.frames[i].data, k)
              \/ PassedOver(i)
         /\ tag.footer \/ padded \/ Last(tag.padding) # "ff"
=============================================================================
