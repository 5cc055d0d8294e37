---------------------------- MODULE Base64Proofs ----------------------------
(***************************************************************************)
(* Proofs about the groups of Base64: three bytes and the four characters  *)
(* they become, and the short groups at the end of a text.                 *)
(***************************************************************************)
EXTENDS Base64, SequenceTheorems, TLAPS

\* A byte as its high and its low bits, wherever it is cut.
LEMMA Cut4 ==
  ASSUME NEW a \in Byte
  PROVE  \E h \in 0..63, l \in 0..3 : a \div 4 = h /\ a % 4 = l /\ a = 4 * h + l
<1>1. a \in Int /\ 0 <= a /\ a <= 255
  BY DEF Byte
<1>2. a % 4 \in 0..3
  BY <1>1
<1>3. a = 4 * (a \div 4) + (a % 4)
  BY <1>1
<1>4. a \div 4 \in Int
  BY <1>1
<1>5. a \div 4 \in 0..63
  BY <1>1, <1>2, <1>3, <1>4
<1> QED BY <1>2, <1>3, <1>5

\* A byte cut in the middle.
LEMMA Cut16 ==
  ASSUME NEW a \in Byte
  PROVE  \E h \in 0..15, l \in 0..15 : a \div 16 = h /\ a % 16 = l /\ a = 16 * h + l
<1>1. a \in Int /\ 0 <= a /\ a <= 255
  BY DEF Byte
<1>2. a % 16 \in 0..15
  BY <1>1
<1>3. a = 16 * (a \div 16) + (a % 16)
  BY <1>1
<1>4. a \div 16 \in Int
  BY <1>1
<1>5. a \div 16 \in 0..15
  BY <1>1, <1>2, <1>3, <1>4
<1> QED BY <1>2, <1>3, <1>5

\* A byte cut behind its second bit.
LEMMA Cut64 ==
  ASSUME NEW a \in Byte
  PROVE  \E h \in 0..3, l \in 0..63 : a \div 64 = h /\ a % 64 = l /\ a = 64 * h + l
<1>1. a \in Int /\ 0 <= a /\ a <= 255
  BY DEF Byte
<1>2. a % 64 \in 0..63
  BY <1>1
<1>3. a = 64 * (a \div 64) + (a % 64)
  BY <1>1
<1>4. a \div 64 \in Int
  BY <1>1
<1>5. a \div 64 \in 0..3
  BY <1>1, <1>2, <1>3, <1>4
<1> QED BY <1>2, <1>3, <1>5

\* A character made of two bits of one byte and four of the next.
LEMMA Join4 == \A l \in 0..3, k \in 0..15 :
  /\ l * 16 + k \in Sextet
  /\ (l * 16 + k) \div 16 = l /\ (l * 16 + k) % 16 = k
BY DEF Sextet

\* A character made of four bits of one byte and two of the next.
LEMMA Join16 == \A l \in 0..15, k \in 0..3 :
  l * 4 + k \in Sextet /\ (l * 4 + k) \div 4 = l /\ (l * 4 + k) % 4 = k
BY DEF Sextet

\* Four characters give back the three bytes they were made of.
LEMMA SextetsAreBytes ==
  ASSUME NEW a \in Byte, NEW b \in Byte, NEW c \in Byte, NEW s, s = Sextets(a, b, c)
  PROVE  /\ s[1] \in Sextet /\ s[2] \in Sextet /\ s[3] \in Sextet /\ s[4] \in Sextet
         /\ Bytes(s[1], s[2], s[3], s[4]) = <<a, b, c>>
<1>1. PICK a1 \in 0..63, a0 \in 0..3 : a \div 4 = a1 /\ a % 4 = a0 /\ a = 4 * a1 + a0
  BY Cut4
<1>2. PICK b1 \in 0..15, b0 \in 0..15 : b \div 16 = b1 /\ b % 16 = b0 /\ b = 16 * b1 + b0
  BY Cut16
<1>3. PICK c1 \in 0..3, c0 \in 0..63 : c \div 64 = c1 /\ c % 64 = c0 /\ c = 64 * c1 + c0
  BY Cut64
<1>4. s = <<a1, a0 * 16 + b1, b0 * 4 + c1, c0>>
  BY <1>1, <1>2, <1>3 DEF Sextets
<1>5. s[1] = a1 /\ s[2] = a0 * 16 + b1 /\ s[3] = b0 * 4 + c1 /\ s[4] = c0
  BY <1>4
<1>6. /\ s[2] \in Sextet /\ s[2] \div 16 = a0 /\ s[2] % 16 = b1
      /\ s[3] \in Sextet /\ s[3] \div 4 = b0 /\ s[3] % 4 = c1
  <2>1. PICK u : u = a0 * 16 + b1
    OBVIOUS
  <2>2. u \in Sextet /\ u \div 16 = a0 /\ u % 16 = b1
    BY <2>1, Join4
  <2>3. PICK v : v = b0 * 4 + c1
    OBVIOUS
  <2>4. v \in Sextet /\ v \div 4 = b0 /\ v % 4 = c1
    BY <2>3, Join16
  <2>5. s[2] = u /\ s[3] = v
    BY <1>5, <2>1, <2>3
  <2> QED BY <2>2, <2>4, <2>5
<1>7. a0 % 4 = a0 /\ b0 % 16 = b0
  OBVIOUS
<1>8. (a1 * 4 + a0) % 256 = a /\ (b1 * 16 + b0) % 256 = b /\ (c1 * 64 + c0) % 256 = c
  BY <1>1, <1>2, <1>3 DEF Byte
<1>9. Bytes(s[1], s[2], s[3], s[4]) = <<a, b, c>>
  BY <1>5, <1>6, <1>7, <1>8 DEF Bytes
<1> QED BY <1>5, <1>6, <1>9 DEF Sextet

\* The characters of a group of n bytes: n + 1 of the alphabet, and padding.
LEMMA EncodedGroup ==
  ASSUME NEW n \in 1..3, NEW g \in [1..n -> Byte],
         NEW s, s = Sextets(At(g, 1, 0), At(g, 2, 0), At(g, 3, 0))
  PROVE  /\ EncodeGroup(g) \in Seq(0..64) /\ Len(EncodeGroup(g)) = 4
         /\ \A i \in 1..4 : EncodeGroup(g)[i] = IF i <= n + 1 THEN s[i] ELSE Pad
         /\ \A i \in 1..4 : s[i] \in Sextet
<1>1. g \in Seq(Byte) /\ Len(g) = n
  OBVIOUS
<1>2. At(g, 1, 0) \in Byte /\ At(g, 2, 0) \in Byte /\ At(g, 3, 0) \in Byte
  BY <1>1 DEF At, Byte
<1>3. s[1] \in Sextet /\ s[2] \in Sextet /\ s[3] \in Sextet /\ s[4] \in Sextet
  BY <1>2, SextetsAreBytes
<1>4. s \in Seq(Sextet) /\ Len(s) = 4
  <2>1. PICK p, q, r, t : s = <<p, q, r, t>>
    BY DEF Sextets
  <2>2. p \in Sextet /\ q \in Sextet /\ r \in Sextet /\ t \in Sextet
    BY <1>3, <2>1
  <2>3. s \in [1..4 -> Sextet]
    BY <2>1, <2>2
  <2>4. Len(s) = 4
    BY <2>1
  <2> QED BY Zenon, <2>3, <2>4, SeqDef
<1>5. PICK front : front = SubSeq(s, 1, n + 1)
  BY Zenon
<1>6. /\ front \in Seq(Sextet) /\ Len(front) = n + 1
      /\ \A i \in 1..(n + 1) : front[i] = s[i]
  BY <1>4, <1>5
<1>7. PICK back : back = [j \in 1..(3 - n) |-> Pad]
  BY Zenon
<1>8. back \in Seq({Pad}) /\ Len(back) = 3 - n /\ \A j \in 1..(3 - n) : back[j] = Pad
  BY <1>7
<1>9. EncodeGroup(g) = front \o back
  BY <1>1, <1>5, <1>7 DEF EncodeGroup
<1>10. front \in Seq(0..64) /\ back \in Seq(0..64)
  BY <1>6, <1>8 DEF Sextet, Pad
<1>11. front \o back \in Seq(0..64) /\ Len(front \o back) = 4
  BY <1>6, <1>8, <1>10
<1>12. \A i \in 1..4 : (front \o back)[i] = IF i <= n + 1 THEN s[i] ELSE Pad
  <2>1. ASSUME NEW i \in 1..4, i <= n + 1 PROVE (front \o back)[i] = s[i]
    BY <1>6, <1>8, <1>10, <2>1
  <2>2. ASSUME NEW i \in 1..4, ~(i <= n + 1) PROVE (front \o back)[i] = Pad
    BY <1>6, <1>8, <1>10, <2>2
  <2> QED BY Zenon, <2>1, <2>2
<1> QED BY <1>3, <1>9, <1>11, <1>12

\* decode stops behind the n + 1 characters, at the first '='.
LEMMA ReadableGroup ==
  ASSUME NEW n \in 1..3, NEW g \in [1..n -> Byte]
  PROVE  Readable(EncodeGroup(g)) = SubSeq(EncodeGroup(g), 1, n + 1)
<1>1. PICK s : s = Sextets(At(g, 1, 0), At(g, 2, 0), At(g, 3, 0))
  OBVIOUS
<1>2. PICK e : e = EncodeGroup(g)
  OBVIOUS
<1>3. /\ e \in Seq(0..64) /\ Len(e) = 4
      /\ \A i \in 1..4 : e[i] = IF i <= n + 1 THEN s[i] ELSE Pad
      /\ \A i \in 1..4 : s[i] \in Sextet
  BY Zenon, <1>1, <1>2, EncodedGroup
<1>4. PICK I : I = {i \in 1..Len(e) : e[i] \notin Sextet}
  BY Zenon
<1>5. \A i : i \in I <=> i \in 1..4 /\ n + 1 < i
  <2>1. \A i \in 1..4 : e[i] \in Sextet <=> i <= n + 1
    <3> TAKE i \in 1..4
    <3>1. CASE i <= n + 1 BY <1>3, <3>1
    <3>2. CASE ~(i <= n + 1)
      <4>1. e[i] = 64
        BY <1>3, <3>2 DEF Pad
      <4> QED BY <3>2, <4>1 DEF Sextet
    <3> QED BY <3>1, <3>2
  <2>2. I = {i \in 1..4 : e[i] \notin Sextet}
    BY <1>3, <1>4
  <2> QED BY <2>1, <2>2
<1>6. SelectInSeq(e, LAMBDA c : c \notin Sextet) = IF I = {} THEN 0 ELSE Min(I)
  BY <1>4 DEF SelectInSeq
<1>7. CASE n = 3
  <2>1. I = {}
    BY <1>5, <1>7
  <2>2. Readable(e) = e
    BY <1>6, <2>1 DEF Readable
  <2>3. SubSeq(e, 1, 4) = e
    BY <1>3
  <2> QED BY <1>2, <1>7, <2>2, <2>3
<1>8. CASE n < 3
  <2>1. n + 2 \in I /\ \A x \in I : n + 2 <= x
    BY <1>5, <1>8
  <2>2. \A x \in I : x \in Int /\ (x <= n + 2 => x = n + 2)
    BY <1>5, <2>1
  <2>3. Min(I) \in I /\ \A x \in I : Min(I) <= x
    BY <2>1 DEF Min
  <2>4. I # {} /\ Min(I) = n + 2
    BY <2>1, <2>2, <2>3
  <2>5. PICK stop : stop = n + 2 /\ stop # 0
    OBVIOUS
  <2>6. Readable(e) = SubSeq(e, 1, stop - 1)
    BY Zenon, <1>6, <2>4, <2>5 DEF Readable
  <2>7. stop - 1 = n + 1
    BY <2>5
  <2> QED BY <1>2, <2>6, <2>7
<1> QED BY <1>7, <1>8

\* Every group survives, whatever its bytes: decode returns exactly the n bytes
\* that encode was given, with one or two '=' at the end or without, and the
\* filler behind a short group does not show.
THEOREM GroupRoundTrip ==
  ASSUME NEW n \in 1..3, NEW g \in [1..n -> Byte]
  PROVE  DecodeGroup(Readable(EncodeGroup(g))) = g
<1>1. PICK s : s = Sextets(At(g, 1, 0), At(g, 2, 0), At(g, 3, 0))
  OBVIOUS
<1>2. PICK e : e = EncodeGroup(g)
  OBVIOUS
<1>3. /\ e \in Seq(0..64) /\ Len(e) = 4
      /\ \A i \in 1..4 : e[i] = IF i <= n + 1 THEN s[i] ELSE Pad
      /\ \A i \in 1..4 : s[i] \in Sextet
  BY Zenon, <1>1, <1>2, EncodedGroup
<1>4. PICK t : t = SubSeq(e, 1, n + 1)
  BY Zenon
<1>5. Len(t) = n + 1 /\ \A i \in 1..(n + 1) : t[i] = s[i]
  <2>1. Len(t) = n + 1 /\ \A i \in 1..(n + 1) : t[i] = e[i]
    BY <1>3, <1>4
  <2>2. \A i \in 1..(n + 1) : i \in 1..4 /\ i <= n + 1
    OBVIOUS
  <2> QED BY <1>3, <2>1, <2>2
<1>6. \A i \in 1..4 : Find(s[i]) = s[i]
  BY <1>3 DEF Find
<1>7. Find(Other) = 255
  BY DEF Find, Other, Sextet
<1>8. g \in Seq(Byte) /\ Len(g) = n /\ DOMAIN g = 1..n
  OBVIOUS
<1>9. PICK a \in Byte, b \in Byte, c \in Byte :
        a = At(g, 1, 0) /\ b = At(g, 2, 0) /\ c = At(g, 3, 0)
  <2>1. At(g, 1, 0) \in Byte /\ At(g, 2, 0) \in Byte /\ At(g, 3, 0) \in Byte
    BY <1>8 DEF At, Byte
  <2> QED BY <2>1
<1>10. Bytes(s[1], s[2], s[3], s[4]) = <<a, b, c>>
  BY <1>1, <1>9, SextetsAreBytes
<1>11. PICK out : out = Bytes(Find(t[1]), Find(At(t, 2, Other)), Find(At(t, 3, Other)), Find(At(t, 4, Other)))
  OBVIOUS
<1>12. \A i \in 1..n : out[i] = g[i]
  <2>1. CASE n = 1
    <3>1. Find(t[1]) = s[1] /\ Find(At(t, 2, Other)) = s[2]
      BY <1>5, <1>6, <2>1 DEF At
    <3>2. out[1] = a
      BY <1>10, <1>11, <3>1 DEF Bytes
    <3> QED BY <1>8, <1>9, <2>1, <3>2 DEF At
  <2>2. CASE n = 2
    <3>1. Find(t[1]) = s[1] /\ Find(At(t, 2, Other)) = s[2] /\ Find(At(t, 3, Other)) = s[3]
      BY <1>5, <1>6, <2>2 DEF At
    <3>2. out[1] = a /\ out[2] = b
      BY <1>10, <1>11, <3>1 DEF Bytes
    <3> QED BY <1>8, <1>9, <2>2, <3>2 DEF At
  <2>3. CASE n = 3
    <3>1. /\ Find(t[1]) = s[1] /\ Find(At(t, 2, Other)) = s[2]
          /\ Find(At(t, 3, Other)) = s[3] /\ Find(At(t, 4, Other)) = s[4]
      BY <1>5, <1>6, <2>3 DEF At
    <3>2. out[1] = a /\ out[2] = b /\ out[3] = c
      BY <1>10, <1>11, <3>1
    <3> QED BY <1>8, <1>9, <2>3, <3>2 DEF At
  <2> QED BY <2>1, <2>2, <2>3
<1>13. out \in Seq(Int) /\ Len(out) = 3
  <2>1. ASSUME NEW x PROVE Find(x) \in Int
    <3>1. CASE x \in Sextet BY <3>1 DEF Find, Sextet
    <3>2. CASE x \notin Sextet BY <3>2 DEF Find
    <3> QED BY <3>1, <3>2
  <2>2. PICK x1 \in Int, x2 \in Int, x3 \in Int, x4 \in Int : out = Bytes(x1, x2, x3, x4)
    BY <1>11, <2>1
  <2>3. PICK y1, y2, y3 : /\ y1 = (x1 * 4 + ((x2 \div 16) % 4)) % 256
                          /\ y2 = ((x2 % 16) * 16 + ((x3 \div 4) % 16)) % 256
                          /\ y3 = ((x3 % 4) * 64 + x4) % 256
    OBVIOUS
  <2>4. y1 \in Int /\ y2 \in Int /\ y3 \in Int
    BY <2>3
  <2>5. out = <<y1, y2, y3>>
    BY <2>2, <2>3 DEF Bytes
  <2>6. out \in [1..3 -> Int] /\ Len(out) = 3
    BY <2>4, <2>5
  <2> QED BY Zenon, <2>6, SeqDef
<1>14. DecodeGroup(t) = SubSeq(out, 1, n)
  <2>1. n + 1 - 1 = n
    OBVIOUS
  <2> QED BY <1>5, <1>11, <2>1 DEF DecodeGroup
<1>15. /\ SubSeq(out, 1, n) \in Seq(Int) /\ Len(SubSeq(out, 1, n)) = n
       /\ \A i \in 1..n : SubSeq(out, 1, n)[i] = out[i]
  BY <1>13
<1>16. SubSeq(out, 1, n) = g
  BY <1>8, <1>12, <1>15
<1> QED BY Zenon, <1>2, <1>4, <1>14, <1>16, ReadableGroup
=============================================================================
