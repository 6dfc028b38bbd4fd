-------------------------------- MODULE Codec --------------------------------
(***************************************************************************)
(* The codecs on the way of a file name: a client sends it as base64 in    *)
(* the header FileName of an upload (server/base64.cpp decodes it), and    *)
(* percent-encoded in the path of a download (UrlDecode of Util.hpp).      *)
(*                                                                         *)
(* Characters are their codes, strings are sequences of them, and pos is   *)
(* counted from 0 as in the code.  A decoder that throws, or fails an      *)
(* assertion, returns Invalid.                                             *)
(***************************************************************************)
EXTENDS Naturals, Sequences, SequencesExt

CONSTANTS
  Bytes,       (* the bytes of which inputs are made                     *)
  MaxLen,      (* bound: their length                                    *)
  Distances,   (* line lengths: 64 for encode_pem, 76 for encode_mime    *)
  Invalid

Byte == 0 .. 255

ASSUME CodecAssumption ==
  /\ Bytes \subseteq Byte
  /\ MaxLen \in Nat
  /\ Distances \subseteq Nat \ {0}
  /\ Invalid \notin Seq(Byte)

VARIABLE input  (* what is encoded, and what is decoded                  *)

Equals == 61
Dot    == 46
Percent == 37
NewLine == 10

------------------------------------------------------------------------------
(* base64 *)

(* base64_chars[url][v]                                                    *)
Base64Char(v, url) ==
  CASE v < 26 -> 65 + v
    [] v \in 26 .. 51 -> 97 + (v - 26)
    [] v \in 52 .. 61 -> 48 + (v - 52)
    [] v = 62 -> IF url THEN 45 ELSE 43
    [] v = 63 -> IF url THEN 95 ELSE 47

IsBase64(c) == c \in (65 .. 90) \cup (97 .. 122) \cup (48 .. 57) \cup {43, 45, 47, 95}

(* Faulty: the digits begin one position too early.                        *)
PosOfCharShifted(c) ==
  CASE c \in 65 .. 90  -> c - 65
    [] c \in 97 .. 122 -> c - 97 + (90 - 65) + 1
    [] c \in 48 .. 57  -> c - 48 + (90 - 65) + (122 - 97) + 1
    [] c \in {43, 45}  -> 62
    [] c \in {47, 95}  -> 63

PosOfChar(c) ==
  CASE c \in 65 .. 90  -> c - 65
    [] c \in 97 .. 122 -> c - 97 + (90 - 65) + 1
    [] c \in 48 .. 57  -> c - 48 + (90 - 65) + (122 - 97) + 2
    [] c \in {43, 45}  -> 62
    [] c \in {47, 95}  -> 63

(* Faulty: the last byte of an incomplete group is not filled up.          *)
Sextets2Unfilled(a, b) == << a \div 4, (a % 4) * 16 + b \div 16, b % 16 >>

(* The sextets of one, two or three bytes.                                 *)
Sextets1(a) == << a \div 4, (a % 4) * 16 >>
Sextets2(a, b) == << a \div 4, (a % 4) * 16 + b \div 16, (b % 16) * 4 >>
Sextets3(a, b, c) ==
  << a \div 4, (a % 4) * 16 + b \div 16, (b % 16) * 4 + c \div 64, c % 64 >>

EncodeChunk(s, pos, url) ==
  LET left == Len(s) - pos
      six  == CASE left = 1 -> Sextets1(s[pos + 1])
                [] left = 2 -> Sextets2(s[pos + 1], s[pos + 2])
                [] OTHER    -> Sextets3(s[pos + 1], s[pos + 2], s[pos + 3])
      trailing_char == IF url THEN Dot ELSE Equals
  IN [i \in 1 .. 4 |-> IF i <= Len(six) THEN Base64Char(six[i], url) ELSE trailing_char]

base64_encode(s, url) ==
  FlattenSeq([k \in 1 .. (Len(s) + 2) \div 3 |-> EncodeChunk(s, 3 * (k - 1), url)])

(* A break after every distance characters, and none at the end.           *)
InsertLinebreaks(str, distance) ==
  LET breaks == IF str = << >> THEN 0 ELSE (Len(str) - 1) \div distance
  IN [i \in 1 .. Len(str) + breaks |->
        IF i % (distance + 1) = 0 THEN NewLine ELSE str[i - i \div (distance + 1)]]

(* Faulty: the dot of the other alphabet is not known.                     *)
MoreNoDot(s, pos) == pos < Len(s) /\ s[pos + 1] # Equals

(* There is a character at pos that is no padding.                         *)
More(s, pos) == pos < Len(s) /\ s[pos + 1] \notin {Equals, Dot}

(* at(pos + 1) throws behind the end, pos_of_char for all other characters. *)
ChunkThrows(s, pos) ==
  \/ pos + 1 >= Len(s)
  \/ ~IsBase64(s[pos + 1]) \/ ~IsBase64(s[pos + 2])
  \/ /\ More(s, pos + 2)
     /\ ~IsBase64(s[pos + 3]) \/ (More(s, pos + 3) /\ ~IsBase64(s[pos + 4]))

(* The bytes of two, three or four sextets.                                *)
Byte1(p0, p1) == (p0 * 4 + p1 \div 16) % 256
Byte2(p1, p2) == ((p1 % 16) * 16 + p2 \div 4) % 256
Byte3(p2, p3) == ((p2 % 4) * 64 + p3) % 256

DecodeChunk(s, pos) ==
  LET p(i) == PosOfChar(s[pos + i + 1])
  IN << Byte1(p(0), p(1)) >>
       \o (IF More(s, pos + 2) THEN << Byte2(p(1), p(2)) >> ELSE << >>)
       \o (IF More(s, pos + 2) /\ More(s, pos + 3) THEN << Byte3(p(2), p(3)) >> ELSE << >>)

RemoveLinebreaks(str) ==
  FlattenSeq([i \in 1 .. Len(str) |-> IF str[i] = NewLine THEN << >> ELSE << str[i] >>])

base64_decode(str, remove_linebreaks) ==
  LET s      == IF remove_linebreaks THEN RemoveLinebreaks(str) ELSE str
      chunks == 1 .. (Len(s) + 3) \div 4
  IN IF \E k \in chunks : ChunkThrows(s, 4 * (k - 1))
       THEN Invalid
       ELSE FlattenSeq([k \in chunks |-> DecodeChunk(s, 4 * (k - 1))])

------------------------------------------------------------------------------
(* Percent encoding *)

ToHex(x) == IF x > 9 THEN x + 55 ELSE x + 48

IsHex(x) == x \in (65 .. 90) \cup (97 .. 122) \cup (48 .. 57)

(* Faulty: the small letters are taken for capitals.                       *)
FromHexCapital(x) ==
  CASE x \in 65 .. 90  -> x - 65 + 10
    [] x \in 97 .. 122 -> x - 65 + 10
    [] x \in 48 .. 57  -> x - 48

(* All letters count, not only those up to F.                              *)
FromHex(x) ==
  CASE x \in 65 .. 90  -> x - 65 + 10
    [] x \in 97 .. 122 -> x - 97 + 10
    [] x \in 48 .. 57  -> x - 48

HexByte(high, low) == (FromHex(high) * 16 + FromHex(low)) % 256

UrlDecode(str) ==
  LET length == Len(str)
      Escape(i) == str[i + 1] = Percent
      decoded[i \in 0 .. length + 2] ==
        IF i >= length THEN << >>
        ELSE IF Escape(i) THEN << HexByte(str[i + 2], str[i + 3]) >> \o decoded[i + 3]
                          ELSE << str[i + 1] >> \o decoded[i + 1]
      valid[i \in 0 .. length + 2] ==
        IF i >= length THEN TRUE
        ELSE IF Escape(i) THEN /\ i + 2 < length
                               /\ IsHex(str[i + 2]) /\ IsHex(str[i + 3])
                               /\ valid[i + 3]
                          ELSE valid[i + 1]
  IN IF valid[0] THEN decoded[0] ELSE Invalid

------------------------------------------------------------------------------

CodecInit == input = << >>
Extend == Len(input) < MaxLen /\ \E b \in Bytes : input' = Append(input, b)
CodecSpec == CodecInit /\ [][Extend]_input

------------------------------------------------------------------------------
(* Properties *)

(* Reference: bit i of a string whose characters have w bits.              *)
Bit(s, w, i) == (s[(i \div w) + 1] \div 2 ^ ((w - 1) - (i % w))) % 2
Positions(text) ==
  [i \in 1 .. Len(text) |->
     CHOOSE v \in 0 .. 63 : \E url \in BOOLEAN : Base64Char(v, url) = text[i]]

(* How many of the characters at the end of a text are padding.            *)
Padding(text, pad) ==
  CHOOSE k \in 0 .. Len(text) :
    /\ \A i \in 1 .. Len(text) : i > Len(text) - k => text[i] \in pad
    /\ k < Len(text) => text[Len(text) - k] \notin pad

Unpadded(text, pad) == SubSeq(text, 1, Len(text) - Padding(text, pad))

(* Encoding regroups the bits of the input by six, fills the last group    *)
(* with zeros and the last chunk with padding.                             *)
EncodeIsBits ==
  \A url \in BOOLEAN :
    LET text == base64_encode(input, url)
        body == Unpadded(text, {IF url THEN Dot ELSE Equals})
        bits == 6 * Len(body)
    IN /\ Len(text) % 4 = 0 /\ Len(text) - Len(body) <= 2
       /\ \A i \in 1 .. Len(body) : IsBase64(body[i])
       /\ bits - 8 * Len(input) \in 0 .. 5
       /\ \A i \in 0 .. bits - 1 :
            Bit(Positions(body), 6, i) =
              IF i < 8 * Len(input) THEN Bit(input, 8, i) ELSE 0

(* A text of either alphabet, padded with either character or not at all,  *)
(* decodes to its bits, as many bytes as are complete.                     *)
WellFormed(text) ==
  LET k == Padding(text, {Equals, Dot})
      u == Len(text) - k
  IN /\ \A i \in 1 .. u : IsBase64(text[i])
     /\ u % 4 # 1
     /\ k > 0 => (u % 4) >= 2 /\ (u % 4) + k <= 4

DecodeIsBits ==
  WellFormed(input) =>
    LET body  == Unpadded(input, {Equals, Dot})
        bytes == base64_decode(input, FALSE)
    IN /\ bytes # Invalid
       /\ Len(bytes) = (6 * Len(body)) \div 8
       /\ \A i \in 0 .. 8 * Len(bytes) - 1 :
            Bit(bytes, 8, i) = Bit(Positions(body), 6, i)

(* Every name comes back: from both alphabets, without the padding, and    *)
(* with line breaks, whatever their distance.                              *)
NameComesBack ==
  \A url \in BOOLEAN :
    LET text == base64_encode(input, url)
    IN /\ base64_decode(text, FALSE) = input
       /\ base64_decode(Unpadded(text, {Equals, Dot}), FALSE) = input
       /\ \A d \in Distances : base64_decode(InsertLinebreaks(text, d), TRUE) = input

(* The three ways in which a client may write a byte; the percent sign is  *)
(* never written as it is.                                                 *)
LowerHex(x) == IF x > 9 THEN x + 87 ELSE x + 48

Written(b, way) ==
  CASE way = "lower" -> << Percent, LowerHex(b \div 16), LowerHex(b % 16) >>
    [] way = "plain" /\ b # Percent -> << b >>
    [] OTHER -> << Percent, ToHex(b \div 16), ToHex(b % 16) >>

(* A path comes back whichever of its bytes a client encodes; a plus sign  *)
(* stays one.                                                              *)
PathComesBack ==
  \A way \in [1 .. Len(input) -> {"plain", "upper", "lower"}] :
    UrlDecode(FlattenSeq([i \in 1 .. Len(input) |-> Written(input[i], way[i])])) = input

==============================================================================
