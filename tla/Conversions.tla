---------------------------- MODULE Conversions -----------------------------
(***************************************************************************)
(* What a program puts into bytes and another one takes out again, each by *)
(* itself: the times of DVB, unsynchronised ID3 tags, the messages of the  *)
(* Simulcrypt protocols and the texts of DVB.                              *)
(***************************************************************************)
EXTENDS DvbTime, Id3Tags, SimMessages, DvbStrings

NoTag == [unsync |-> FALSE, footer |-> FALSE, extended |-> FALSE,
          frames |-> <<>>, padding |-> <<>>]

TimeIdle == date = LastDay /\ clock = NoTime /\ duration = NoTime
TagIdle == tag = NoTag /\ whole = FALSE /\ original = <<>> /\ padded = FALSE /\ rounds = 0
MessageIdle == /\ message = Nothing /\ stage = "none" /\ todo = <<>> /\ params = <<>>
               /\ declared = 0 /\ odd = 0
StringIdle == /\ charset = Nothing /\ text = <<>> /\ default = Iso6937 /\ field = <<>>
              /\ turn = "none" /\ shown = [by |-> Nothing, bytes |-> <<>>]
              /\ handle = Nothing /\ current = Unnamed /\ at = 0 /\ xml = <<>>

ConversionInit ==
  \/ TimeInit /\ TagIdle /\ MessageIdle /\ StringIdle
  \/ TagInit /\ TimeIdle /\ MessageIdle /\ StringIdle
  \/ MessageInit /\ TimeIdle /\ TagIdle /\ StringIdle
  \/ StringInit /\ TimeIdle /\ TagIdle /\ MessageIdle

ConversionNext ==
  \/ NextDay /\ UNCHANGED <<tagVars, messageVars, stringVars>>
  \/ TagNext /\ UNCHANGED <<timeVars, messageVars, stringVars>>
  \/ MessageNext /\ UNCHANGED <<timeVars, tagVars, stringVars>>
  \/ StringNext /\ UNCHANGED <<timeVars, tagVars, messageVars>>

conversionVars == <<timeVars, tagVars, messageVars, stringVars>>

ConversionSpec == ConversionInit /\ [][ConversionNext]_conversionVars

(* Every content of up to three bytes. *)
UpToThree == UNION {[1 .. n -> Bytes] : n \in 0 .. 3}

(* Letters, markup, and first and following bytes of UTF-8; a character of *)
(* four bytes, one that is cut short, one beyond the last, the replacement *)
(* character itself, and the markup that is left.                          *)
ShortTexts ==
  UNION {[1 .. n -> {1, 60, 65, 160, 188, 192, 237}] : n \in 0 .. 3}
    \cup {<<240, 159, 152, 128>>, <<240, 159, 60, 65>>, <<244, 160, 128, 128>>,
          <<239, 191, 189, 38>>, <<34, 62, 39, 9>>}

(* Codes of character sets of one, two and three bytes, and a letter. *)
ShortFields == UNION {[1 .. n -> {0, 1, 8, 16, 31, 65}] : n \in 0 .. 4}

(* One that is often the default, some with a code of one byte and of three, *)
(* one with none, and one that is not converted.                           *)
SomeCharsets == {Iso6937, Iso8859(1), Iso8859(5), Iso8859(12), Ucs2, Utf8}
NotConverted == {Iso8859(5), Unnamed}
=============================================================================
