------------------------------- MODULE Base64 -------------------------------
(***************************************************************************)
(* ppnt::Base64 of ppnt-common/src/util.cpp.  A byte is 0..255.  A         *)
(* character of an encoded text is its index 0..63 in base64_chars, Pad    *)
(* for '=', or Other for any character outside the alphabet.  The code     *)
(* fills char_array_3 or char_array_4 and flushes it when full; one group  *)
(* here is one filling of that array, the last one possibly short.         *)
(***************************************************************************)
EXTENDS Integers, SequencesExt

Byte == 0..255
Sextet == 0..63
Pad == 64
Other == 65

\* base64_chars.find(c): npos, cut to an unsigned char, is 255.
Find(c) == IF c \in Sextet THEN c ELSE 255

\* The k-th filling (from 1) of an array of w elements.
Group(s, w, k) == SubSeq(s, w * (k - 1) + 1, IF w * k < Len(s) THEN w * k ELSE Len(s))
Groups(s, w) == [k \in 1..((Len(s) + w - 1) \div w) |-> Group(s, w, k)]

\* Element j of a group, or the filler the code writes behind a short one.
At(g, j, filler) == IF j <= Len(g) THEN g[j] ELSE filler

\* The four sextets of char_array_3.
Sextets(a, b, c) == <<a \div 4, (a % 4) * 16 + (b \div 16), (b % 16) * 4 + (c \div 64), c % 64>>

\* The three bytes of char_array_4, each cut to an unsigned char.
Bytes(a, b, c, d) ==
    <<(a * 4 + ((b \div 16) % 4)) % 256,
      ((b % 16) * 16 + ((c \div 4) % 16)) % 256,
      ((c % 4) * 64 + d) % 256>>

EncodeGroup(g) ==
    SubSeq(Sextets(At(g, 1, 0), At(g, 2, 0), At(g, 3, 0)), 1, Len(g) + 1)
        \o [j \in 1..(3 - Len(g)) |-> Pad]

encode(bytes) == FlattenSeq([k \in DOMAIN Groups(bytes, 3) |-> EncodeGroup(Groups(bytes, 3)[k])])

\* A tail loop that runs to j < i instead of j < i - 1.
DecodeWholeTail(g) ==
    SubSeq(Bytes(Find(g[1]), Find(At(g, 2, Other)), Find(At(g, 3, Other)), Find(At(g, 4, Other))),
           1, IF Len(g) < 4 THEN Len(g) ELSE 3)

\* The filler of a short group is '\0', which find() does not know.
DecodeGroup(g) ==
    SubSeq(Bytes(Find(g[1]), Find(At(g, 2, Other)), Find(At(g, 3, Other)), Find(At(g, 4, Other))),
           1, Len(g) - 1)

\* The loop's condition: it ends at the first '=' or foreign character.
Readable(text) ==
    LET stop == SelectInSeq(text, LAMBDA c : c \notin Sextet)
    IN  IF stop = 0 THEN text ELSE SubSeq(text, 1, stop - 1)

decode(text) ==
    LET groups == Groups(Readable(text), 4)
    IN  FlattenSeq([k \in DOMAIN groups |-> DecodeGroup(groups[k])])

\* The same loops, pushing to a vector.
decode_bin(text) == decode(text)
-----------------------------------------------------------------------------
\* RFC 4648 by bits: the bit string of the input, cut into units of the other width.

Bits(s, w) == FlattenSeq([i \in DOMAIN s |-> [b \in 1..w |-> (s[i] \div 2^(w - b)) % 2]])

Unit(bits, w, k) ==
    LET bit(b) == IF w * (k - 1) + b <= Len(bits) THEN bits[w * (k - 1) + b] ELSE 0
        sum[b \in 0..w] == IF b = 0 THEN 0 ELSE 2 * sum[b - 1] + bit(b)
    IN  sum[w]

RfcEncode(bytes) ==
    LET bits == Bits(bytes, 8)
    IN  [k \in 1..(((Len(bytes) + 2) \div 3) * 4) |->
            IF 6 * (k - 1) < Len(bits) THEN Unit(bits, 6, k) ELSE Pad]

\* Only whole bytes count; the bits left over are dropped.
RfcDecode(text) ==
    LET bits == Bits(Readable(text), 6)
    IN  [k \in 1..(Len(bits) \div 8) |-> Unit(bits, 8, k)]
=============================================================================
