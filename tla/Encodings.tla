------------------------------ MODULE Encodings ------------------------------
(***************************************************************************)
(* The text and wire encodings of the C++ side: web-safe base64 in both    *)
(* byte orders (tpm2/conversions.cc), hexadecimal (tao_support/            *)
(* ssl_helpers.cc and tao/util.cc), quoted strings and delimited lists,    *)
(* and the binary Speaksfor statement (tao/util.cc).  A value is encoded,  *)
(* or a text arrives from elsewhere, and the text is decoded into a buffer *)
(* of some room.                                                           *)
(*                                                                         *)
(* A base64 or hexadecimal character is its place in the alphabet; a       *)
(* buffer is the function from the offsets written to the bytes there.     *)
(***************************************************************************)
EXTENDS Integers, Sequences, SequencesExt, TLC

CONSTANTS EncBytes,   \* byte strings to encode
          EncTexts,   \* base64 texts that arrive from elsewhere
          HexTexts,   \* hexadecimal texts that arrive from elsewhere
          EncStrings, \* strings to quote
          EncLists,   \* lists to join and split
          Delimiter,  \* the delimiter of lists
          Keys,       \* keys to name as principals
          Rooms       \* buffer sizes offered to the decoders

ASSUME EncodingsAssumption == Delimiter # <<>> /\ Rooms \subseteq Nat

VARIABLE enc          \* what was encoded, its text, and what decoding gave

Pad == 64
BadChar == 255
Nul == 256

ThreeBytesToBase64(a, b, c) ==
  <<a \div 4, (a % 4) * 16 + b \div 16, (b % 16) * 4 + c \div 64, c % 64>>
TwoBytesUnshifted(a, b) == <<a \div 4, (a % 4) * 16 + b \div 16, b % 16, Pad>>
TwoBytesToBase64(a, b) == <<a \div 4, (a % 4) * 16 + b \div 16, (b % 16) * 4, Pad>>
OneByteToBase64(a) == <<a \div 4, (a % 4) * 16, Pad, Pad>>
NumBase64StringInBytes(size) == ((size + 3) \div 3) * 4

(* ByteToBase64LeftToRight: groups of three, then the two or one left over;
   what the string was sized for beyond them stays NUL. *)
ByteToBase64LeftToRight(in) ==
  LET left(g) == Len(in) - 3 * (g - 1)
      at(g, i) == in[3 * (g - 1) + i]
      group(g) == IF left(g) >= 3 THEN ThreeBytesToBase64(at(g, 1), at(g, 2), at(g, 3))
                  ELSE IF left(g) = 2 THEN TwoBytesToBase64(at(g, 1), at(g, 2))
                  ELSE OneByteToBase64(at(g, 1))
      text == FlattenSeq([g \in 1..((Len(in) + 2) \div 3) |-> group(g)])
  IN text \o [i \in 1..(NumBase64StringInBytes(Len(in)) - Len(text)) |-> Nul]
ByteToBase64RightToLeft(in) == ByteToBase64LeftToRight(Reverse(in))

(* What a char* of the text shows: everything before the first NUL. *)
CString(text) == IF Contains(text, Nul)
                 THEN SubSeq(text, 1, SelectInSeq(text, LAMBDA c : c = Nul) - 1) ELSE text

(* NumBytesInBase64String; an empty text makes it look before the string. *)
NumBytesInBase64String(in) ==
  LET n == (Len(in) \div 4) * 3
  IN IF Len(in) % 4 # 0 THEN {-1}
     ELSE IF in = <<>> THEN {0, -1, -2}
     ELSE IF in[Len(in)] # Pad THEN {n}
     ELSE IF in[Len(in) - 1] = Pad THEN {n - 2} ELSE {n - 1}

Base64CharValue(c) == IF c < 64 THEN c ELSE BadChar

(* FourBase64ToBytes and FourBase64ToBytesReverse (d is 1 or -1): what the
   four characters write from offset at; the callers ignore a FALSE. *)
FourBase64ToBytes(q, at, d) ==
  LET v(i) == Base64CharValue(q[i])
      third  == IF q[4] = Pad \/ v(4) = BadChar THEN <<>> ELSE (at + 2 * d) :> (((v(3) * 64) % 256) + v(4))
      second == IF q[3] = Pad \/ v(3) = BadChar THEN <<>>
                ELSE third @@ (at + d) :> (((v(2) * 16) % 256) + v(3) \div 4)
  IN IF v(1) = BadChar \/ v(2) = BadChar THEN <<>>
     ELSE second @@ at :> (v(1) * 4 + v(2) \div 16)

Base64ToByte(in, n, at, d) ==
  FoldLeft(LAMBDA w, g : w @@ FourBase64ToBytes(SubSeq(in, 4 * g - 3, 4 * g), at + d * 3 * (g - 1), d),
           <<>>, [g \in 1..(Len(in) \div 4) |-> g])

EncResult(ret, out) == [ret |-> ret, out |-> out]

Base64ToByteLeftToRight(in, n, room) ==
  IF Len(in) % 4 # 0 \/ n > room THEN EncResult(-1, <<>>) ELSE EncResult(n, Base64ToByte(in, n, 0, 1))
Base64ToByteRightToLeft(in, n, room) ==
  IF Len(in) % 4 # 0 \/ n > room THEN EncResult(-1, <<>>) ELSE EncResult(n, Base64ToByte(in, n, n - 1, -1))

(* Hexadecimal.  16 to 21 are the upper-case digits, which HexToValue does
   not know and hexToInt does; past an odd text lies its NUL. *)
ByteToHexLeftToRight(in) == FlattenSeq([i \in 1..Len(in) |-> <<in[i] \div 16, in[i] % 16>>])
ByteToHexRightToLeft(in) == ByteToHexLeftToRight(Reverse(in))
NumBytesInHex(in) == (Len(in) + 1) \div 2
HexToValue(c) == IF c \in 0..15 THEN c ELSE 0
HexByte(in, i) == HexToValue(in[2 * i - 1]) * 16 + (IF 2 * i <= Len(in) THEN HexToValue(in[2 * i]) ELSE 0)
HexToByteLeftToRight(in, room) ==
  IF NumBytesInHex(in) > room THEN EncResult(-1, <<>>)
  ELSE EncResult(NumBytesInHex(in), [p \in 0..(NumBytesInHex(in) - 1) |-> HexByte(in, p + 1)])
(* HexToByteRightToLeft never looks at its size. *)
HexToByteRightToLeft(in, room) ==
  EncResult(NumBytesInHex(in), [p \in 0..(NumBytesInHex(in) - 1) |-> HexByte(in, NumBytesInHex(in) - p)])

bytesToHex(s) == ByteToHexLeftToRight(s)
hexToInt(c) == IF c \in 16..21 THEN c - 6 ELSE c
bytesFromHex(hex) ==
  IF Len(hex) % 2 # 0 \/ \E i \in DOMAIN hex : hex[i] \notin 0..21 THEN EncResult(-1, <<>>)
  ELSE EncResult(Len(hex) \div 2,
              [p \in 0..(Len(hex) \div 2 - 1) |-> hexToInt(hex[2 * p + 1]) * 16 + hexToInt(hex[2 * p + 2])])

(* Quoted strings: quotedString, and getQuotedString's scan. *)
Special == {"quote", "backslash"}
quotedString(s) ==
  <<"quote">> \o FlattenSeq([i \in 1..Len(s) |-> IF s[i] \in Special THEN <<"backslash", s[i]>> ELSE <<s[i]>>])
  \o <<"quote">>
Scan(st, c) ==
  CASE st.at = "blanks" -> IF c = "blank" THEN st ELSE [st EXCEPT !.at = IF c = "quote" THEN "in" ELSE "fail"]
    [] st.at = "in" -> IF c = "quote" THEN [st EXCEPT !.at = "done"]
                       ELSE IF c = "backslash" THEN [st EXCEPT !.at = "escape"]
                       ELSE [st EXCEPT !.out = Append(@, c)]
    [] st.at = "escape" -> IF c \in Special THEN [at |-> "in", out |-> Append(st.out, c)]
                           ELSE [st EXCEPT !.at = "fail"]
    [] OTHER -> st
getQuotedString(in) ==
  LET st == FoldLeft(Scan, [at |-> "blanks", out |-> <<>>], in)
  IN IF st.at = "done" THEN EncResult(Len(st.out), st.out) ELSE EncResult(-1, <<>>)

(* split at the first character of the delimiter; the rest of it must follow. *)
RECURSIVE splitFrom(_, _)
splitFrom(in, values) ==
  LET rest == Tail(Delimiter)
      end == IF Contains(in, Head(Delimiter)) THEN SelectInSeq(in, LAMBDA c : c = Head(Delimiter)) ELSE 0
      after == SubSeq(in, end + 1, Len(in))
  IN IF end = 0 THEN EncResult(Len(values) + 1, Append(values, in))
     ELSE IF ~IsPrefix(rest, after) THEN EncResult(-1, <<>>)
     ELSE splitFrom(SubSeq(after, Len(rest) + 1, Len(after)), Append(values, SubSeq(in, 1, end - 1)))
split(in) == IF in = <<>> THEN EncResult(0, <<>>) ELSE splitFrom(in, <<>>)
join(values) == FlattenSeq([i \in 1..Len(values) |-> IF i = 1 THEN values[i] ELSE Delimiter \o values[i]])

(* MarshalKeyPrin and MarshalSpeaksfor; a string is its length and its bytes. *)
Varint(n) == IF n < 128 THEN <<n>> ELSE <<128 + (n % 128), n \div 128>>
MarshalKeyPrin(key) == <<1>> \o Varint(3) \o <<107, 101, 121>> \o <<4>> \o Varint(Len(key)) \o key \o <<17, 0>>
MarshalSpeaksfor(key, name) == <<13>> \o MarshalKeyPrin(key) \o name

(* The verifier's reader of a Speaksfor of a key (the auth package). *)
ReadSpeaksfor(in) ==
  LET long == in[8] >= 128
      n == IF long THEN (in[8] - 128) + 128 * in[9] ELSE in[8]
      key == IF long THEN 9 ELSE 8
  IN <<SubSeq(in, key + 1, key + n), SubSeq(in, key + n + 3, Len(in))>>

EncInit == enc = [kind |-> "none", value |-> <<>>, text |-> <<>>, made |-> FALSE,
                  room |-> 0, got |-> EncResult(-1, <<>>), done |-> FALSE]

Holds(kind, value, text, made) ==
     enc' = [enc EXCEPT !.kind = kind, !.value = value, !.text = text, !.made = made]

Encode(in) ==
  \/ in # <<>> /\ \/ Holds("base64", in, ByteToBase64LeftToRight(in), TRUE)
                  \/ Holds("base64rl", in, ByteToBase64RightToLeft(in), TRUE)
  \/ Holds("hex", in, ByteToHexLeftToRight(in), TRUE)
  \/ Holds("hexrl", in, ByteToHexRightToLeft(in), TRUE)
  \/ Holds("bytes", in, bytesToHex(in), TRUE)
QuoteText(s) == Holds("quoted", s, quotedString(s), TRUE)
Join(l) == Holds("list", l, join(l), TRUE)
Marshal(k, name) == Holds("speaksfor", <<k, name>>, MarshalSpeaksfor(k, name), TRUE)
Arrives(text) == \/ text \in EncTexts /\ \E f \in {"base64", "base64rl"} : Holds(f, <<>>, text, FALSE)
                 \/ text \in HexTexts /\ \E f \in {"hex", "bytes"} : Holds(f, <<>>, text, FALSE)

Decode(room) ==
  /\ enc.kind # "none" /\ ~enc.done
  /\ \E n \in IF enc.kind \in {"base64", "base64rl"} THEN NumBytesInBase64String(CString(enc.text)) ELSE {0} :
       LET got == CASE enc.kind = "base64" -> Base64ToByteLeftToRight(CString(enc.text), n, room)
                    [] enc.kind = "base64rl" -> Base64ToByteRightToLeft(CString(enc.text), n, room)
                    [] enc.kind = "hex" -> HexToByteLeftToRight(enc.text, room)
                    [] enc.kind = "hexrl" -> HexToByteRightToLeft(enc.text, room)
                    [] enc.kind = "bytes" -> bytesFromHex(enc.text)
                    [] enc.kind = "quoted" -> getQuotedString(enc.text)
                    [] enc.kind = "list" -> split(enc.text)
                    [] enc.kind = "speaksfor" -> EncResult(2, ReadSpeaksfor(enc.text))
       IN enc' = [enc EXCEPT !.room = room, !.got = got, !.done = TRUE]
EncRest == enc.done /\ UNCHANGED enc

EncNext ==
  \/ /\ enc.kind = "none"
     /\ \/ \E in \in EncBytes : Encode(in)
        \/ \E s \in EncStrings : QuoteText(s)
        \/ \E l \in EncLists : Join(l)
        \/ \E k, name \in Keys : Marshal(k, name)
        \/ \E t \in EncTexts \cup HexTexts : Arrives(t)
  \/ \E room \in Rooms : Decode(room)
  \/ EncRest

EncSpec == EncInit /\ [][EncNext]_enc

(* Types of the encoding record. *)
EncTypeOK == enc.got.ret \in Int /\ enc.room \in Rooms \cup {0} /\ enc.made \in BOOLEAN

Buffered == {"base64", "base64rl", "hex", "hexrl", "bytes"}
FromBuffer(out) == [i \in 1..Len(enc.value) |-> out[i - 1]]

(* Whatever was encoded is read back by the decoder of the same form when the
   buffer has the room, in either byte order and for every remainder of the
   length by three (conversions.cc, util.cc, ssl_helpers.cc); and no text,
   from wherever it comes, makes a base64 decoder or the checked hexadecimal
   one write outside the room it was given. *)
EncodingsSound ==
  enc.done =>
    /\ enc.made /\ enc.kind \notin Buffered => enc.got = EncResult(Len(enc.value), enc.value)
    /\ enc.made /\ enc.kind \in Buffered /\ enc.room >= Len(enc.value) =>
         /\ enc.got.ret = Len(enc.value) /\ DOMAIN enc.got.out = 0..(Len(enc.value) - 1)
         /\ FromBuffer(enc.got.out) = enc.value
    /\ enc.kind \in {"base64", "base64rl", "hex"} => DOMAIN enc.got.out \subseteq 0..(enc.room - 1)
=============================================================================
