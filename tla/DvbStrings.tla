----------------------------- MODULE DvbStrings ------------------------------
(***************************************************************************)
(* Texts of DVB: one is put into a field with the code of its character    *)
(* set in front (dvb_string_set in dvb/si/strings.h), and read out again   *)
(* by a program that prints one text after the other and keeps the last    *)
(* converter it opened (iconv_wrapper in dvb_print_si.c).  In XML, the     *)
(* characters that mean something there are escaped (bitstream_xml_escape  *)
(* in common.h).                                                           *)
(*                                                                         *)
(* A character set is a name and a number.  What iconv does to the bytes is *)
(* not looked at, only which character set it took them for.               *)
(***************************************************************************)
EXTENDS Integers, Sequences, SequencesExt, FiniteSets

CONSTANTS
  Texts,    \* texts that are written, as bytes
  Fields,   \* fields that come from elsewhere
  Charsets, \* character sets that texts are written in
  Unknown,  \* those that iconv has no converter for
  Nothing

Iso8859(n) == <<"ISO-8859-", n>>
Ucs2 == <<"UCS-2BE", 0>>
Utf8 == <<"UTF-8", 0>>
Iso6937 == <<"ISO6937", 0>>
Unnamed == <<"", 0>>

Octets == 0 .. 255

(* Who writes a text has a name for its character set.                      *)
ASSUME StringAssumption ==
  Texts \subseteq Seq(Octets) /\ Fields \subseteq Seq(Octets) /\ Unnamed \notin Charsets

VARIABLES
  charset,  \* the character set that a text is written in, Nothing for one received
  text,     \* the text
  default,  \* the character set of texts without a code, for this provider
  field,    \* its bytes in the descriptor
  turn,     \* "write", "read", "shown", "escaping" or "escaped"
  shown,    \* the bytes that were converted, and what they were taken for
  handle,   \* iconv_handle: the character set its converter is for, or Nothing
  current,  \* psz_current_encoding
  at,       \* bytes that were escaped
  xml       \* what they became, character by character

stringVars == <<charset, text, default, field, turn, shown, handle, current, at, xml>>

-----------------------------------------------------------------------------
(* Codes of character sets. *)

ppsz_dvb_encodings ==
  [c \in 0 .. 31 |->
     CASE c \in (1 .. 11) \ {8} -> Iso8859(c + 4)
       [] c \in {17, 20} -> Ucs2
       [] c = 18 -> <<"EUC-KR", 0>>
       [] c = 19 -> <<"GB2312", 0>>
       [] c = 21 -> Utf8
       [] OTHER -> Unnamed]

ppsz_dvb_encodings10 ==
  [n \in 0 .. 15 |-> IF n \in {0, 12} THEN Unnamed ELSE Iso8859(n)]

Codes(table, set) == {c \in DOMAIN table : table[c] = set}
First(codes) == CHOOSE c \in codes : \A d \in codes : c <= d

(* Slip: the second table is looked up with the code of the first.          *)
dvb_string_setPlain(s, set, dflt) ==
  LET codes == Codes(ppsz_dvb_encodings, set)
      long == Codes(ppsz_dvb_encodings10, set)
  IN  CASE set = dflt -> s
        [] set # dflt /\ codes # {} -> <<First(codes)>> \o s
        [] set # dflt /\ codes = {} /\ long # {} -> <<First(long)>> \o s
        [] OTHER -> <<>>

(* No field at all for a character set that has no code. *)
dvb_string_set(s, set, dflt) ==
  LET codes == Codes(ppsz_dvb_encodings, set)
      long == Codes(ppsz_dvb_encodings10, set)
  IN  CASE set = dflt -> s
        [] set # dflt /\ codes # {} -> <<First(codes)>> \o s
        [] set # dflt /\ codes = {} /\ long # {} -> <<16, 0, First(long)>> \o s
        [] OTHER -> <<>>

(* The character set of a field, if it says, and what is left of it.         *)
dvb_string_get_encoding(f, dflt) ==
  LET found(set, n) == [set |-> set, rest |-> SubSeq(f, n + 1, Len(f))]
  IN  CASE f = <<>> -> found(Nothing, 0)
        [] f # <<>> /\ f[1] = 0 -> found(Nothing, 0)
        [] f # <<>> /\ f[1] >= 32 -> found(dflt, 0)
        [] f # <<>> /\ f[1] = 16 /\ Len(f) > 2 ->
             found(IF f[2] = 0 /\ f[3] \in 1 .. 15 THEN ppsz_dvb_encodings10[f[3]] ELSE Nothing, 3)
        [] f # <<>> /\ f[1] = 31 /\ Len(f) > 1 -> found(Nothing, 2)
        [] OTHER -> found(ppsz_dvb_encodings[f[1]], 1)

-----------------------------------------------------------------------------
(* Conversion. *)

(* A string of C ends at its first zero. *)
CString(s) == IF Contains(s, 0) THEN SubSeq(s, 1, SelectInSeq(s, LAMBDA b : b = 0) - 1) ELSE s

(* Slip: whatever converter there is will do. *)
ConverterKept(set) ==
  IF handle # Nothing THEN handle ELSE IF set \in Unknown THEN Nothing ELSE set

(* The converter that iconv_wrapper comes to have: closed when it is for     *)
(* another character set, opened when there is none.                         *)
Converter(set) ==
  IF handle # Nothing /\ set = current THEN handle
  ELSE IF set \in Unknown THEN Nothing ELSE set

(* iconv_wrapper: bytes that cannot be converted are shown as they are.      *)
iconv_wrapper(set, s) ==
  IF set = Utf8
    THEN /\ shown' = [by |-> Nothing, bytes |-> s]
         /\ UNCHANGED <<handle, current>>
    ELSE /\ handle' = Converter(set)
         /\ current' = IF Converter(set) = Nothing THEN current ELSE set
         /\ \E by \in {Converter(set), Nothing} : shown' = [by |-> by, bytes |-> s]

(* dvb_string_get *)
Read ==
  LET e == dvb_string_get_encoding(field, default)
  IN  /\ turn = "read"
      /\ IF e.set = Nothing \/ e.rest = <<>>
           THEN /\ shown' = [by |-> Nothing, bytes |-> CString(e.rest)]
                /\ UNCHANGED <<handle, current>>
           ELSE iconv_wrapper(e.set, e.rest)
      /\ turn' = "shown"
      /\ UNCHANGED <<charset, text, default, field, at, xml>>

(* dvb_string_set, with a character set the other side may have as default.  *)
WriteText ==
  /\ turn = "write"
  /\ charset' \in Charsets /\ text' \in Texts /\ default' \in {Iso6937, Iso8859(1)}
  /\ field' = dvb_string_set(text', charset', default')
  /\ turn' = "read"
  /\ UNCHANGED <<shown, handle, current, at, xml>>

ReceiveField ==
  /\ turn = "write"
  /\ charset' = Nothing /\ text' = <<>> /\ default' \in {Iso6937, Iso8859(1)}
  /\ field' \in Fields
  /\ turn' = "read"
  /\ UNCHANGED <<shown, handle, current, at, xml>>

-----------------------------------------------------------------------------
(* bitstream_xml_escape_chars: one turn of its loop. *)

(* The characters of markup, and the entities for them: numbers above those  *)
(* of bytes.                                                                *)
Markup == {60, 62, 34, 39, 38}
Entity(c) == <<256 + c>>
Replacement == <<239, 191, 189>>

Follows(s, i) == i \in DOMAIN s /\ s[i] \in 128 .. 191

(* The bytes of a character that starts as s does at i: as many as its       *)
(* first byte says, one if the others do not follow.                         *)
Extent(s, i) ==
  LET n == CASE s[i] \in 192 .. 223 -> 2 [] s[i] \in 224 .. 239 -> 3
             [] s[i] \in 240 .. 247 -> 4 [] OTHER -> 1
  IN  IF \A k \in 1 .. n - 1 : Follows(s, i + k) THEN n ELSE 1

codepoint(s, i) ==
  LET n == Extent(s, i)
      low(k) == s[i + k] % 64
  IN  CASE n = 1 -> IF s[i] < 128 THEN s[i] ELSE 65533
        [] n = 2 -> (s[i] % 32) * 64 + low(1)
        [] n = 3 -> (s[i] % 16) * 4096 + low(1) * 64 + low(2)
        [] n = 4 -> (s[i] % 8) * 262144 + low(1) * 4096 + low(2) * 64 + low(3)

Allowed(cp) ==
  /\ cp # 65533
  /\ \/ cp \in {9, 10, 13} \cup (32 .. 55295)
     \/ cp >= 57344 /\ cp <= 65533
     \/ cp >= 65536 /\ cp <= 1114111

Escape ==
  LET s == shown.bytes
      n == Extent(s, at + 1)
  IN  /\ turn \in {"shown", "escaping"} /\ shown.by = Nothing
      /\ at < Len(s)
      /\ xml' = Append(xml, IF ~ Allowed(codepoint(s, at + 1)) THEN Replacement
                            ELSE IF s[at + 1] \in Markup THEN Entity(s[at + 1])
                            ELSE SubSeq(s, at + 1, at + n))
      /\ at' = at + n
      /\ turn' = "escaping"
      /\ UNCHANGED <<charset, text, default, field, shown, handle, current>>

Escaped ==
  /\ turn = "escaping" /\ at = Len(shown.bytes)
  /\ turn' = "escaped"
  /\ UNCHANGED <<charset, text, default, field, shown, handle, current, at, xml>>

(* The text is printed, and the next one is looked at. *)
NextText ==
  /\ turn \in {"shown", "escaped"}
  /\ turn' = "write"
  /\ charset' = Nothing /\ text' = <<>> /\ default' = Iso6937 /\ field' = <<>>
  /\ shown' = [by |-> Nothing, bytes |-> <<>>] /\ at' = 0 /\ xml' = <<>>
  /\ UNCHANGED <<handle, current>>

StringInit ==
  /\ charset = Nothing /\ text = <<>> /\ default = Iso6937 /\ field = <<>>
  /\ turn = "write"
  /\ shown = [by |-> Nothing, bytes |-> <<>>]
  /\ handle = Nothing /\ current = Unnamed
  /\ at = 0 /\ xml = <<>>

StringNext == WriteText \/ ReceiveField \/ Read \/ Escape \/ Escaped \/ NextText

-----------------------------------------------------------------------------
(* Properties. *)

(* A text without a code that begins with what looks like one. *)
LooksCoded == charset = default /\ text # <<>> /\ text[1] < 32
Coded == charset = default \/ \E t \in {ppsz_dvb_encodings, ppsz_dvb_encodings10} :
                                Codes(t, charset) # {}

(* The bytes of one character of UTF-8, in the shortest form there is. *)
WellFormed(c) ==
  /\ Extent(c, 1) = Len(c)
  /\ Len(c) = 1 => c[1] < 128
  /\ Len(c) > 1 => codepoint(c, 1) >= (<<0, 128, 2048, 65536>>)[Len(c)]

(* What a reader of XML makes of it. *)
Unescaped(x) == IF x \in {Entity(c) : c \in Markup} THEN <<x[1] - 256>> ELSE x
Overlong(x) == Len(x) > 1 /\ ~ WellFormed(x)

(* A text that was written is read with its own character set and byte for   *)
(* byte, whatever was read before it, unless it has no code and looks as if   *)
(* it had, or there is no converter for it.  A field that comes from          *)
(* elsewhere is converted by what it names or not at all.  In XML no          *)
(* character of markup is left as it was, no character that XML forbids is    *)
(* left at all, and the others come back; only forms of a character that are  *)
(* longer than need be go through as they are (common.h, 105).                *)
TextKept ==
  /\ turn = "shown" /\ charset # Nothing /\ Coded /\ ~ LooksCoded =>
       /\ shown.bytes = text
       /\ shown.by \in {charset, Nothing}
  /\ turn = "shown" /\ shown.by # Nothing =>
       shown.by = dvb_string_get_encoding(field, default).set
  /\ turn = "escaped" =>
       /\ \A i \in DOMAIN xml :
            \/ Overlong(xml[i])
            \/ /\ WellFormed(Unescaped(xml[i]))
               /\ xml[i] # Replacement => Allowed(codepoint(Unescaped(xml[i]), 1))
               /\ Unescaped(xml[i]) = xml[i] => xml[i][1] \notin Markup
       /\ (\A i \in DOMAIN xml : xml[i] # Replacement) =>
            FlattenSeq([i \in DOMAIN xml |-> Unescaped(xml[i])]) = shown.bytes
=============================================================================
