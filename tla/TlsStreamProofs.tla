-------------------------- MODULE TlsStreamProofs ---------------------------
(***************************************************************************)
(* Proofs about TlsStream, for any number of callers, any size of records  *)
(* and of the BIO, and any way the socket cuts up what is written and      *)
(* read: what the socket is given is the records in order, and all of them *)
(* when no call is in progress; what the one reader is given is the        *)
(* records of the peer, in order.                                          *)
(***************************************************************************)
EXTENDS TlsStream, TLAPS

\* Cell i of the stream of records.
Cell(i) == <<((i - 1) \div RecCells) + 1, ((i - 1) % RecCells) + 1>>
Write == [by : Callers, n : Nat, off : Nat]

SendTypes ==
  /\ pc \in [Callers -> {"idle", "flush", "fill", "error"}]
  /\ after \in [Callers -> {"return", "again", "fill"}]
  /\ wpend \in Seq(Cells) /\ io_buffer_ \in Seq(Cells) /\ wire \in Seq(Cells)
  /\ bio_out = <<>>
  /\ sq \in Seq(Write)
  /\ \A i \in DOMAIN sq : sq[i].off <= sq[i].n /\ sq[i].n <= Len(io_buffer_)
  /\ enc \in Nat /\ enc <= MaxWrites

\* s continues the stream behind its first k cells.
Continues(s, k) == \A i \in 1..Len(s) : s[i] = Cell(k + i)

\* The write w in the ring holds the next cells of the stream, and SSL the ones
\* behind them, which w's caller will write next.
InFlight(w, left) ==
  /\ \A i \in (w.off + 1)..w.n : io_buffer_[i] = Cell(Len(wire) + i - w.off)
  /\ left = Len(wire) + w.n - w.off
  /\ Continues(wpend, left)
  /\ left + Len(wpend) = enc * RecCells
  /\ after[w.by] = "again" <=> wpend # <<>>
  /\ pc[w.by] = "flush"

FlightInv ==
  ~shared =>
    /\ Continues(wire, 0) /\ Len(wire) <= enc * RecCells
    /\ Len(sq) <= 1
    /\ sq = <<>> /\ failed = "none" => wpend = <<>> /\ Len(wire) = enc * RecCells
    /\ sq # <<>> => InFlight(sq[1], Len(wire) + sq[1].n - sq[1].off)

SendInv == SendTypes /\ FlightInv

\* The writes in the ring: each belongs to a caller of its own, which is inside its
\* flush, and at most one of the callers has a rest inside SSL to write.
OwnWrite(w, p, a, rest) ==
  /\ 1 <= w.n /\ w.off < w.n
  /\ p[w.by] = "flush" /\ a[w.by] # "fill"
  /\ a[w.by] = "again" => rest # <<>>
DistinctBy(q) == \A i, j \in DOMAIN q : q[i].by = q[j].by => i = j
OneAgain(q, a) == \A i, j \in DOMAIN q : a[q[i].by] = "again" /\ a[q[j].by] = "again" => i = j
RingInv ==
  /\ Len(io_buffer_) <= BioCap
  /\ \A i \in DOMAIN sq : OwnWrite(sq[i], pc, after, wpend)
  /\ DistinctBy(sq) /\ OneAgain(sq, after)

\* What SSL has of a record, what the BIO holds and what the socket has not
\* delivered continue, one behind the other, the g records already returned, up to
\* the end of the last record of the peer.
Arriving(g, ssl, bio, net, p) ==
  /\ Continues(ssl, g * RecCells)
  /\ Continues(bio, g * RecCells + Len(ssl))
  /\ Continues(net, g * RecCells + Len(ssl) + Len(bio))
  /\ g * RecCells + Len(ssl) + Len(bio) + Len(net) = p * RecCells

ReadTypes ==
  /\ ssl_in \in Seq(Cells) /\ Len(ssl_in) < RecCells
  /\ bio_in \in Seq(Cells) /\ Len(bio_in) <= BioCap
  /\ net_in \in Seq(Cells) /\ got \in Seq(Seq(Cells))
  /\ peer_sent \in Nat /\ peer_sent <= MaxPeer
  /\ peer_end \in PeerEnds /\ shared \in BOOLEAN
  /\ failed \in {"none", "write", "read", "retry"}

\* A reader waits for the socket only when the BIO is empty.
FillInv == \A u \in Callers : pc[u] = "fill" => u \in Readers /\ bio_in = <<>>

ReadInv ==
  /\ ReadTypes
  /\ RingInv
  /\ Arriving(Len(got), ssl_in, bio_in, net_in, peer_sent)
  /\ \A i \in DOMAIN got : got[i] = Record(i)
  /\ FillInv

-----------------------------------------------------------------------------
\* Zenon proves the leaves that do not cite SMT.
USE Zenon

\* One sequence behind another.
Joined(S, z, s, t) ==
  /\ z \in Seq(S) /\ Len(z) = Len(s) + Len(t)
  /\ \A i \in 1..Len(s) : z[i] = s[i]
  /\ \A i \in 1..Len(t) : z[Len(s) + i] = t[i]

LEMMA ConcatFacts ==
  ASSUME NEW S, NEW s \in Seq(S), NEW t \in Seq(S)
  PROVE  Joined(S, s \o t, s, t)
BY SMT DEF Joined

\* One element more.
Extended(S, z, s, y) ==
  /\ z \in Seq(S) /\ Len(z) = Len(s) + 1
  /\ DOMAIN s = 1..Len(s) /\ DOMAIN z = 1..(Len(s) + 1)
  /\ \A i \in 1..Len(s) : z[i] = s[i]
  /\ z[Len(s) + 1] = y

LEMMA AppendFacts ==
  ASSUME NEW S, NEW s \in Seq(S), NEW y \in S
  PROVE  Extended(S, Append(s, y), s, y)
BY SMT DEF Extended

\* A sequence whose elements are all in T is one over T, and so is the empty one.
LEMMA SequenceOf ==
  ASSUME NEW S, NEW T
  PROVE  /\ \A s \in Seq(S) : (\A i \in DOMAIN s : s[i] \in T) => s \in Seq(T)
         /\ <<>> \in Seq(T)
<1>1. ASSUME NEW s \in Seq(S), \A i \in DOMAIN s : s[i] \in T PROVE s \in Seq(T)
  BY SMT, <1>1
<1>2. <<>> \in Seq(T)
  BY SMT
<1> QED BY <1>1, <1>2

-----------------------------------------------------------------------------
(* Cells.                                                                   *)

\* The cells of record k + 1 are the next ones of the stream behind k records.
LEMMA RecordCells ==
  ASSUME NEW k \in Nat, NEW i \in 1..RecCells
  PROVE  Record(k + 1)[i] = Cell(k * RecCells + i)
<1>1. RecCells \in Nat \ {0}
  BY SizesAssumption
<1>2. PICK r \in 0..(RecCells - 1) : i = r + 1
  <2>1. i - 1 \in 0..(RecCells - 1) /\ i = (i - 1) + 1
    BY SMT, <1>1
  <2> QED BY <2>1
<1>3. (k * RecCells + r) \div RecCells = k
  BY SMT, <1>1, <1>2
<1>4. (k * RecCells + r) % RecCells = r
  BY SMT, <1>1, <1>2
<1>5. k * RecCells \in Nat
  BY SMT, <1>1
<1>6. (k * RecCells + i) - 1 = k * RecCells + r
  BY SMT, <1>2, <1>5
<1>7. Cell(k * RecCells + i) = <<k + 1, r + 1>>
  <2>1. ((k * RecCells + i) - 1) \div RecCells = k /\ ((k * RecCells + i) - 1) % RecCells = r
    BY <1>3, <1>4, <1>6
  <2> QED BY <2>1 DEF Cell
<1>8. Record(k + 1)[i] = <<k + 1, i>>
  BY DEF Record
<1> QED BY <1>2, <1>7, <1>8

\* Record k + 1 continues the stream behind k records.
LEMMA RecordContinues ==
  ASSUME NEW k \in Nat, k < MaxWrites + MaxPeer
  PROVE  /\ Record(k + 1) \in Seq(Cells) /\ Len(Record(k + 1)) = RecCells
         /\ Continues(Record(k + 1), k * RecCells)
<1>1. RecCells \in Nat \ {0}
  BY SizesAssumption
<1>2. Record(k + 1) \in [1..RecCells -> Cells]
  <2>1. k + 1 \in 1..(MaxWrites + MaxPeer)
    BY SMT, SizesAssumption
  <2> QED BY <2>1 DEF Record, Cells
<1>3. Record(k + 1) \in Seq(Cells) /\ Len(Record(k + 1)) = RecCells
  BY SMT, <1>1, <1>2
<1> QED BY <1>3, RecordCells DEF Continues

\* As many cells as a record has, behind k records, are record k + 1.
LEMMA WholeRecord ==
  ASSUME NEW s \in Seq(Cells), Len(s) = RecCells, NEW k \in Nat, Continues(s, k * RecCells)
  PROVE  s = Record(k + 1)
<1>1. s \in [1..RecCells -> Cells]
  BY SMT
<1>2. \A i \in 1..RecCells : s[i] = Record(k + 1)[i]
  BY RecordCells DEF Continues
<1> QED BY <1>1, <1>2 DEF Record

\* One piece of the stream behind another.
LEMMA JoinContinues ==
  ASSUME NEW s \in Seq(Cells), NEW t \in Seq(Cells), NEW b \in Nat,
         Continues(s, b), Continues(t, b + Len(s))
  PROVE  /\ s \o t \in Seq(Cells) /\ Len(s \o t) = Len(s) + Len(t)
         /\ Continues(s \o t, b)
<1>1. Joined(Cells, s \o t, s, t)
  BY ConcatFacts
<1>2. PICK z : z = s \o t
  OBVIOUS
<1>3. PICK n \in Nat, m \in Nat : n = Len(s) /\ m = Len(t)
  BY SMT
<1>4. /\ z \in Seq(Cells) /\ Len(z) = n + m
      /\ \A i \in 1..n : z[i] = s[i]
      /\ \A i \in 1..m : z[n + i] = t[i]
  <2>1. z \in Seq(Cells) /\ Len(z) = n + m
    BY <1>1, <1>2, <1>3 DEF Joined
  <2>2. \A i \in 1..n : z[i] = s[i]
    BY <1>1, <1>2, <1>3 DEF Joined
  <2>3. ASSUME NEW i \in 1..m PROVE z[n + i] = t[i]
    BY <1>1, <1>2, <1>3 DEF Joined
  <2> QED BY <2>1, <2>2, <2>3
<1>5. ASSUME NEW i \in 1..(n + m) PROVE z[i] = Cell(b + i)
  <2>1. CASE i <= n
    <3>1. i \in 1..n
      BY SMT, <2>1
    <3> QED BY <1>2, <1>3, <1>4, <3>1 DEF Continues
  <2>2. CASE ~(i <= n)
    <3>1. PICK j \in 1..m : i = n + j
      <4>1. i - n \in 1..m /\ i = n + (i - n)
        BY SMT, <2>2
      <4> QED BY <4>1
    <3>2. t[j] = Cell((b + n) + j)
      BY <1>2, <1>3 DEF Continues
    <3>3. (b + n) + j = b + i
      BY SMT, <3>1
    <3>4. z[i] = t[j]
      BY <1>4, <3>1
    <3> QED BY <3>2, <3>3, <3>4
  <2> QED BY <2>1, <2>2
<1>6. Continues(z, b)
  BY <1>4, <1>5 DEF Continues
<1> QED BY <1>2, <1>3, <1>4, <1>6

\* The front and the rest of what continues the stream.
LEMMA SplitContinues ==
  ASSUME NEW s \in Seq(Cells), NEW k \in Nat, Continues(s, k), NEW m \in 0..Len(s)
  PROVE  /\ SubSeq(s, 1, m) \in Seq(Cells) /\ Len(SubSeq(s, 1, m)) = m
         /\ Continues(SubSeq(s, 1, m), k)
         /\ Drop(s, m) \in Seq(Cells) /\ Len(Drop(s, m)) = Len(s) - m
         /\ Continues(Drop(s, m), k + m)
<1>1. PICK n \in Nat : n = Len(s) /\ m \in Nat /\ m <= n
  BY SMT
<1>2. /\ SubSeq(s, 1, m) \in Seq(Cells) /\ Len(SubSeq(s, 1, m)) = m
      /\ \A i \in 1..m : SubSeq(s, 1, m)[i] = s[i]
  BY SMT, <1>1
<1>3. /\ SubSeq(s, m + 1, n) \in Seq(Cells) /\ Len(SubSeq(s, m + 1, n)) = n - m
      /\ \A i \in 1..(n - m) : SubSeq(s, m + 1, n)[i] = s[m + i]
  BY SMT, <1>1
<1>4. Continues(SubSeq(s, 1, m), k)
  BY SMT, <1>1, <1>2 DEF Continues
<1>5. Continues(SubSeq(s, m + 1, n), k + m)
  BY SMT, <1>1, <1>3 DEF Continues
<1> QED BY <1>1, <1>2, <1>3, <1>4, <1>5 DEF Drop

\* A flush puts its cells at the front of io_buffer_, which never shrinks.
LEMMA FlushBuffer ==
  ASSUME NEW out \in Seq(Cells), NEW buf \in Seq(Cells)
  PROVE  /\ out \o Drop(buf, Len(out)) \in Seq(Cells)
         /\ Len(buf) <= Len(out \o Drop(buf, Len(out)))
         /\ Len(out) <= Len(out \o Drop(buf, Len(out)))
         /\ \/ Len(out \o Drop(buf, Len(out))) = Len(buf)
            \/ Len(out \o Drop(buf, Len(out))) = Len(out)
         /\ \A i \in 1..Len(out) : (out \o Drop(buf, Len(out)))[i] = out[i]
<1>1. PICK n \in Nat, b \in Nat : n = Len(out) /\ b = Len(buf)
  BY SMT
<1>2. PICK d : d = Drop(buf, n)
  OBVIOUS
<1>3. d \in Seq(Cells) /\ ((n >= b /\ Len(d) = 0) \/ (n < b /\ Len(d) = b - n))
  <2>1. d = SubSeq(buf, n + 1, b)
    BY <1>1, <1>2 DEF Drop
  <2>2. CASE n >= b
    BY SMT, <1>1, <2>1, <2>2
  <2>3. CASE n < b
    BY SMT, <1>1, <2>1, <2>3
  <2>4. n >= b \/ n < b
    BY SMT
  <2> QED BY <2>2, <2>3, <2>4
<1>4. PICK z : z = out \o d
  OBVIOUS
<1>5. z \in Seq(Cells) /\ Len(z) = n + Len(d) /\ \A i \in 1..n : z[i] = out[i]
  <2>1. Joined(Cells, z, out, d)
    BY <1>3, <1>4, ConcatFacts
  <2> QED BY <1>1, <2>1 DEF Joined
<1>6. b <= Len(z) /\ n <= Len(z) /\ (Len(z) = b \/ Len(z) = n)
  <2>1. CASE n >= b /\ Len(d) = 0
    BY SMT, <1>5, <2>1
  <2>2. CASE n < b /\ Len(d) = b - n
    BY SMT, <1>5, <2>2
  <2> QED BY <1>3, <2>1, <2>2
<1>7. z = out \o Drop(buf, Len(out))
  BY <1>1, <1>2, <1>4
<1> QED BY <1>1, <1>5, <1>6, <1>7

-----------------------------------------------------------------------------
(* The writes.                                                              *)

\* SSL_write of a record, room cells of which the BIO takes, and the flush of these.
Wrote(u, queue, record, room) ==
  /\ room <= Len(record) /\ (record # <<>> => 1 <= room)
  /\ Len(io_buffer_) <= BioCap => Len(io_buffer_') <= BioCap
  /\ wpend' = Drop(record, room) /\ wpend' \in Seq(Cells) /\ Len(wpend') = Len(record) - room
  /\ io_buffer_' \in Seq(Cells)
  /\ \A i \in 1..room : io_buffer_'[i] = record[i]
  /\ bio_out' = <<>>
  /\ sq' = Append(queue, [by |-> u, n |-> room, off |-> 0])
  /\ sq' \in Seq(Write)
  /\ \A i \in DOMAIN sq' : sq'[i].off <= sq'[i].n /\ sq'[i].n <= Len(io_buffer_')
  /\ pc' = [pc EXCEPT ![u] = "flush"]
  /\ after' = [after EXCEPT ![u] = IF room = Len(record) THEN "return" ELSE "again"]
  /\ shared' = (shared \/ queue # <<>>)

\* SSL_write into the empty BIO, and the flush of what it put there.
LEMMA WriteTypes ==
  ASSUME SendTypes, NEW u \in Callers, NEW queue \in Seq(Write), NEW record \in Seq(Cells),
         \A i \in DOMAIN queue : queue[i].off <= queue[i].n /\ queue[i].n <= Len(io_buffer_),
         SslWrite(u, queue, record, <<>>)
  PROVE  \E room \in Nat : Wrote(u, queue, record, room)
<1>1. PICK room : room = Min2(Len(record), BioCap - Len(<<>>))
  OBVIOUS
<1>2. /\ room \in Nat /\ room <= Len(record) /\ room <= BioCap
      /\ record # <<>> => 1 <= room
  <2>1. PICK k \in Nat, cap \in Nat \ {0} : k = Len(record) /\ cap = BioCap
    BY SMT, SizesAssumption
  <2>2. BioCap - Len(<<>>) = cap
    BY SMT, <2>1
  <2>3. room = IF k < cap THEN k ELSE cap
    BY <1>1, <2>1, <2>2 DEF Min2
  <2>4. room \in Nat /\ room <= k /\ room <= cap /\ (k # 0 => 1 <= room)
    BY SMT, <2>3
  <2>5. record # <<>> => k # 0
    BY SMT, <2>1
  <2> QED BY <2>1, <2>4, <2>5
<1>3. PICK out : out = SubSeq(record, 1, room)
  OBVIOUS
<1>4. out \in Seq(Cells) /\ Len(out) = room /\ \A i \in 1..room : out[i] = record[i]
  BY SMT, <1>2, <1>3
<1>5. <<>> \o SubSeq(record, 1, room) = out
  BY SMT, <1>3, <1>4
<1>6. /\ wpend' = Drop(record, room)
      /\ StartFlush(u, queue, out, IF room = Len(record) THEN "return" ELSE "again")
  BY <1>1, <1>5 DEF SslWrite
<1>7. PICK buf : buf = out \o Drop(io_buffer_, room)
  OBVIOUS
<1>8. /\ buf \in Seq(Cells) /\ Len(io_buffer_) <= Len(buf) /\ room <= Len(buf)
      /\ Len(io_buffer_) <= BioCap => Len(buf) <= BioCap
      /\ \A i \in 1..room : buf[i] = record[i]
  <2>1. buf = out \o Drop(io_buffer_, Len(out)) /\ io_buffer_ \in Seq(Cells)
    BY <1>4, <1>7 DEF SendTypes
  <2>2. /\ buf \in Seq(Cells) /\ Len(io_buffer_) <= Len(buf) /\ Len(out) <= Len(buf)
        /\ Len(buf) = Len(io_buffer_) \/ Len(buf) = Len(out)
        /\ \A i \in 1..Len(out) : buf[i] = out[i]
    BY <1>4, <2>1, FlushBuffer
  <2>3. Len(io_buffer_) <= BioCap => Len(buf) <= BioCap
    BY <1>2, <1>4, <2>2
  <2> QED BY <1>4, <2>2, <2>3
<1>9. PICK w : w = [by |-> u, n |-> room, off |-> 0]
  OBVIOUS
<1>10. w \in Write /\ w.off <= w.n /\ w.n = room
  BY SMT, <1>2, <1>9 DEF Write
<1>11. /\ io_buffer_' = buf /\ bio_out' = <<>> /\ sq' = Append(queue, w)
       /\ shared' = (shared \/ queue # <<>>) /\ pc' = [pc EXCEPT ![u] = "flush"]
       /\ after' = [after EXCEPT ![u] = IF room = Len(record) THEN "return" ELSE "again"]
  BY <1>4, <1>6, <1>7, <1>9 DEF StartFlush
<1>12. wpend' \in Seq(Cells) /\ Len(wpend') = Len(record) - room
  <2>1. PICK n \in Nat : n = Len(record)
    BY SMT
  <2>2. SubSeq(record, room + 1, n) \in Seq(Cells) /\ Len(SubSeq(record, room + 1, n)) = n - room
    BY SMT, <1>2, <2>1
  <2> QED BY <1>6, <2>1, <2>2 DEF Drop
<1>13. /\ sq' \in Seq(Write)
       /\ \A i \in DOMAIN sq' : (i \in DOMAIN queue /\ sq'[i] = queue[i]) \/ sq'[i] = w
  BY SMT, <1>10, <1>11
<1>14. ASSUME NEW i \in DOMAIN sq' PROVE sq'[i].off <= sq'[i].n /\ sq'[i].n <= Len(io_buffer_')
  <2>1. CASE sq'[i] = w BY <1>8, <1>10, <1>11, <2>1
  <2>2. CASE i \in DOMAIN queue /\ sq'[i] = queue[i]
    <3>1. queue[i].n \in Nat
      <4>1. queue[i] \in Write
        BY SMT, <2>2
      <4> QED BY <4>1 DEF Write
    <3>2. Len(io_buffer_) \in Nat /\ Len(buf) \in Nat
      BY SMT, <1>8 DEF SendTypes
    <3> QED BY SMT, <1>8, <1>11, <2>2, <3>1, <3>2
  <2> QED BY <1>13, <2>1, <2>2
<1> QED BY <1>2, <1>6, <1>8, <1>9, <1>11, <1>12, <1>13, <1>14 DEF Wrote

\* What of it keeps the types.
LEMMA WriteKeepsTypes ==
  ASSUME SendTypes, NEW u \in Callers, NEW queue \in Seq(Write), NEW record \in Seq(Cells),
         \A i \in DOMAIN queue : queue[i].off <= queue[i].n /\ queue[i].n <= Len(io_buffer_),
         SslWrite(u, queue, record, <<>>)
  PROVE  /\ wpend' \in Seq(Cells) /\ io_buffer_' \in Seq(Cells) /\ bio_out' = <<>>
         /\ sq' \in Seq(Write) /\ sq' # <<>>
         /\ \A i \in DOMAIN sq' : sq'[i].off <= sq'[i].n /\ sq'[i].n <= Len(io_buffer_')
         /\ pc' \in [Callers -> {"idle", "flush", "fill", "error"}]
         /\ after' \in [Callers -> {"return", "again", "fill"}]
         /\ shared' = (shared \/ queue # <<>>)
<1>0. PICK room \in Nat : Wrote(u, queue, record, room)
  BY WriteTypes
<1>1. /\ room <= Len(record)
      /\ wpend' = Drop(record, room) /\ wpend' \in Seq(Cells) /\ Len(wpend') = Len(record) - room
      /\ io_buffer_' \in Seq(Cells)
      /\ \A i \in 1..room : io_buffer_'[i] = record[i]
      /\ bio_out' = <<>>
      /\ sq' = Append(queue, [by |-> u, n |-> room, off |-> 0])
      /\ sq' \in Seq(Write)
      /\ \A i \in DOMAIN sq' : sq'[i].off <= sq'[i].n /\ sq'[i].n <= Len(io_buffer_')
      /\ pc' = [pc EXCEPT ![u] = "flush"]
      /\ after' = [after EXCEPT ![u] = IF room = Len(record) THEN "return" ELSE "again"]
      /\ shared' = (shared \/ queue # <<>>)
  BY <1>0 DEF Wrote
<1>2. /\ pc' \in [Callers -> {"idle", "flush", "fill", "error"}]
      /\ after' \in [Callers -> {"return", "again", "fill"}]
  BY <1>1 DEF SendTypes
<1>3. sq' # <<>>
  <2>1. PICK w : w = [by |-> u, n |-> room, off |-> 0]
    OBVIOUS
  <2> QED BY SMT, <1>1, <2>1
<1> QED BY <1>1, <1>2, <1>3

\* The same, when nothing else is in the ring: the write is in flight.
LEMMA WriteFlies ==
  ASSUME SendTypes, NEW u \in Callers, NEW record \in Seq(Cells),
         NEW k \in Nat, Continues(record, k), SslWrite(u, <<>>, record, <<>>),
         wire' \in Seq(Cells), Len(wire') = k, enc' \in Nat,
         k + Len(record) = enc' * RecCells
  PROVE  /\ Len(sq') = 1 /\ InFlight(sq[1], Len(wire) + sq[1].n - sq[1].off)'
<1>0. PICK room \in Nat : Wrote(u, <<>>, record, room)
  <2>1. <<>> \in Seq(Write) /\ \A i \in DOMAIN <<>> : FALSE
    BY SMT
  <2> QED BY <2>1, WriteTypes
<1>1.   /\ room <= Len(record)
        /\ wpend' = Drop(record, room) /\ wpend' \in Seq(Cells) /\ Len(wpend') = Len(record) - room
        /\ io_buffer_' \in Seq(Cells)
        /\ \A i \in 1..room : io_buffer_'[i] = record[i]
        /\ sq' = Append(<<>>, [by |-> u, n |-> room, off |-> 0])
        /\ pc' = [pc EXCEPT ![u] = "flush"]
        /\ after' = [after EXCEPT ![u] = IF room = Len(record) THEN "return" ELSE "again"]
  BY <1>0 DEF Wrote
<1>2. PICK w : w = [by |-> u, n |-> room, off |-> 0]
  OBVIOUS
<1>3. w.by = u /\ w.n = room /\ w.off = 0 /\ Len(sq') = 1 /\ sq'[1] = w
  BY SMT, <1>1, <1>2
<1>4. PICK left \in Nat : left = k + room
  BY SMT
<1>5. Len(wire') + w.n - w.off = left
  BY SMT, <1>3, <1>4
<1>6. \A i \in (w.off + 1)..w.n : io_buffer_'[i] = Cell(Len(wire') + i - w.off)
  <2> TAKE i \in (w.off + 1)..w.n
  <2>1. i \in 1..room /\ i \in 1..Len(record) /\ Len(wire') + i - w.off = k + i
    BY SMT, <1>1, <1>3
  <2> QED BY <1>1, <2>1 DEF Continues
<1>7. Continues(wpend', left) /\ left + Len(wpend') = enc' * RecCells
  <2>1. room \in 0..Len(record)
    BY SMT, <1>1
  <2>2. Continues(Drop(record, room), k + room)
    BY <2>1, SplitContinues
  <2>3. Len(record) \in Nat
    BY SMT
  <2> QED BY SMT, <1>1, <1>4, <2>2, <2>3
<1>8. pc'[u] = "flush" /\ (after'[u] = "again" <=> room # Len(record))
  BY <1>1 DEF SendTypes
<1>9. room # Len(record) <=> wpend' # <<>>
  <2>1. Len(record) \in Nat /\ (Len(wpend') = 0 <=> wpend' = <<>>)
    BY SMT, <1>1
  <2> QED BY SMT, <1>1, <2>1
<1>10. InFlight(w, left)'
  BY <1>3, <1>5, <1>6, <1>7, <1>8, <1>9 DEF InFlight, Continues
<1> QED BY <1>3, <1>5, <1>10

\* A step that sends nothing, of a caller that is not in a flush.
LEMMA QuietStep ==
  ASSUME SendInv, NEW q \in SUBSET Callers, \A u \in q : pc[u] # "flush",
         pc' \in [Callers -> {"idle", "flush", "fill", "error"}],
         after' \in [Callers -> {"return", "again", "fill"}],
         \A u \in Callers \ q : pc'[u] = pc[u] /\ after'[u] = after[u],
         failed' = "none" => failed = "none",
         UNCHANGED <<wpend, bio_out, io_buffer_, sq, wire, enc, shared>>
  PROVE  SendInv'
<1>1. SendTypes'
  BY DEF SendInv, SendTypes
<1>2. FlightInv'
  <2> SUFFICES ASSUME ~shared PROVE FlightInv!2'
    BY DEF FlightInv
  <2>1. sq # <<>> => InFlight(sq[1], Len(wire) + sq[1].n - sq[1].off)'
    <3> SUFFICES ASSUME sq # <<>> PROVE InFlight(sq[1], Len(wire) + sq[1].n - sq[1].off)'
      OBVIOUS
    <3>1. sq[1].by \in Callers /\ InFlight(sq[1], Len(wire) + sq[1].n - sq[1].off)
      <4>1. sq[1] \in Write
        BY SMT DEF SendInv, SendTypes
      <4> QED BY <4>1 DEF SendInv, FlightInv, Write
    <3>2. pc'[sq[1].by] = pc[sq[1].by] /\ after'[sq[1].by] = after[sq[1].by]
      BY <3>1 DEF InFlight
    <3> QED BY <3>1, <3>2 DEF InFlight, Continues
  <2> QED BY <2>1 DEF SendInv, FlightInv, Continues
<1> QED BY <1>1, <1>2 DEF SendInv

\* SSL_read never finds anything to flush.
LEMMA FlushQuiet ==
  ASSUME SendInv, NEW u \in Callers, pc[u] # "flush",
         NEW then \in {"return", "fill"}, FlushThen(u, then),
         failed' = "none" => failed = "none", UNCHANGED <<wpend, wire, enc>>
  PROVE  SendInv'
<1>2. Continue(u, then) /\ UNCHANGED sq
  BY DEF FlushThen, SendInv, SendTypes
<1>3. /\ pc' \in [Callers -> {"idle", "flush", "fill", "error"}]
      /\ after' \in [Callers -> {"return", "again", "fill"}]
      /\ \A v \in Callers \ {u} : pc'[v] = pc[v] /\ after'[v] = after[v]
      /\ UNCHANGED <<io_buffer_, bio_out, shared>>
  BY <1>2 DEF Continue, SendInv, SendTypes
<1>4. {u} \in SUBSET Callers /\ \A v \in {u} : pc[v] # "flush"
  OBVIOUS
<1> QED BY <1>2, <1>3, <1>4, QuietStep

LEMMA ReadQuiet ==
  ASSUME SendInv, NEW u \in Callers, pc[u] # "flush", NEW in, SslRead(u, in),
         failed' = "none" => failed = "none", UNCHANGED <<wpend, wire, enc>>
  PROVE  SendInv'
<1>1. PICK then \in {"return", "fill"} : FlushThen(u, then)
  BY DEF SslRead
<1> QED BY <1>1, FlushQuiet

\* The steps that do not write.
LEMMA SendRest ==
  ASSUME SendInv, NEW u \in Callers,
         CallRead(u) \/ Fill(u) \/ ReadClosed(u) \/ FillEnd(u)
  PROVE  SendInv'
<1>1. CASE CallRead(u)
  <2>1. pc[u] # "flush" /\ SslRead(u, bio_in) /\ UNCHANGED <<wpend, wire, enc, failed>>
    BY <1>1 DEF CallRead
  <2> QED BY <2>1, ReadQuiet
<1>2. CASE FillEnd(u)
  <2>1. /\ pc[u] = "fill" /\ pc' = [pc EXCEPT ![u] = "error"] /\ failed' = "read"
        /\ UNCHANGED <<after, wpend, bio_out, io_buffer_, sq, wire, enc, shared>>
    BY <1>2 DEF FillEnd
  <2>2. /\ pc' \in [Callers -> {"idle", "flush", "fill", "error"}]
        /\ after' \in [Callers -> {"return", "again", "fill"}]
        /\ \A v \in Callers \ {u} : pc'[v] = pc[v] /\ after'[v] = after[v]
    BY <2>1 DEF SendInv, SendTypes
  <2>3. {u} \in SUBSET Callers /\ \A v \in {u} : pc[v] # "flush"
    BY <2>1
  <2> QED BY <2>1, <2>2, <2>3, QuietStep
<1>3. CASE ReadClosed(u)
  <2>1. pc[u] # "flush" /\ FlushThen(u, "return") /\ UNCHANGED <<wpend, wire, enc, failed>>
    BY <1>3 DEF ReadClosed
  <2> QED BY <2>1, FlushQuiet
<1>4. CASE Fill(u)
  <2>1. PICK m :
          IF Len(bio_in) + m <= BioCap
          THEN SslRead(u, bio_in \o SubSeq(net_in, 1, m)) /\ UNCHANGED failed
          ELSE /\ pc' = [pc EXCEPT ![u] = "error"]
               /\ failed' = "loss"
               /\ UNCHANGED <<after, bio_out, bio_in, ssl_in, io_buffer_, sq, got, shared>>
    BY <1>4 DEF Fill
  <2>2. pc[u] = "fill" /\ UNCHANGED <<wpend, wire, enc>>
    BY <1>4 DEF Fill
  <2>3. CASE Len(bio_in) + m <= BioCap
    BY <2>1, <2>2, <2>3, ReadQuiet
  <2>4. CASE ~(Len(bio_in) + m <= BioCap)
    <3>1. /\ pc' = [pc EXCEPT ![u] = "error"] /\ failed' = "loss"
          /\ UNCHANGED <<after, bio_out, io_buffer_, sq, shared>>
      BY <2>1, <2>4
    <3>2. /\ pc' \in [Callers -> {"idle", "flush", "fill", "error"}]
          /\ after' \in [Callers -> {"return", "again", "fill"}]
          /\ \A v \in Callers \ {u} : pc'[v] = pc[v] /\ after'[v] = after[v]
      BY <3>1 DEF SendInv, SendTypes
    <3>3. {u} \in SUBSET Callers /\ \A v \in {u} : pc[v] # "flush"
      BY <2>2
    <3> QED BY <2>2, <3>1, <3>2, <3>3, QuietStep
  <2> QED BY <2>3, <2>4
<1> QED BY <1>1, <1>2, <1>3, <1>4

\* A call of write encrypts a record, or is refused.
LEMMA SendCallWrite ==
  ASSUME SendInv, NEW u \in Callers, CallWrite(u)
  PROVE  SendInv'
<1>1. pc[u] = "idle" /\ failed = "none" /\ UNCHANGED wire
  BY DEF CallWrite
<1>2. CASE wpend # <<>>
  <2>1. /\ pc' = [pc EXCEPT ![u] = "error"] /\ failed' = "retry"
        /\ UNCHANGED <<after, wpend, bio_out, io_buffer_, sq, enc, shared>>
    BY <1>2 DEF CallWrite
  <2>2. /\ pc' \in [Callers -> {"idle", "flush", "fill", "error"}]
        /\ after' \in [Callers -> {"return", "again", "fill"}]
        /\ \A v \in Callers \ {u} : pc'[v] = pc[v] /\ after'[v] = after[v]
    BY <2>1 DEF SendInv, SendTypes
  <2>3. {u} \in SUBSET Callers /\ \A v \in {u} : pc[v] # "flush"
    BY <1>1
  <2> QED BY <1>1, <2>1, <2>2, <2>3, QuietStep
<1>3. CASE wpend = <<>>
  <2>1. PICK record : record = Record(enc + 1)
    OBVIOUS
  <2>2. /\ enc \in Nat /\ enc < MaxWrites /\ enc' = enc + 1
        /\ SslWrite(u, sq, record, <<>>) /\ failed' = failed
    BY <1>3, <2>1 DEF CallWrite, SendInv, SendTypes
  <2>3. record \in Seq(Cells) /\ Len(record) = RecCells /\ Continues(record, enc * RecCells)
    <3>1. enc < MaxWrites + MaxPeer
      BY SMT, <2>2, SizesAssumption
    <3> QED BY <2>1, <2>2, <3>1, RecordContinues
  <2>4. /\ SendTypes /\ sq \in Seq(Write)
        /\ \A i \in DOMAIN sq : sq[i].off <= sq[i].n /\ sq[i].n <= Len(io_buffer_)
    BY DEF SendInv, SendTypes
  <2>5. /\ wpend' \in Seq(Cells) /\ io_buffer_' \in Seq(Cells) /\ bio_out' = <<>>
        /\ sq' \in Seq(Write) /\ sq' # <<>>
        /\ \A i \in DOMAIN sq' : sq'[i].off <= sq'[i].n /\ sq'[i].n <= Len(io_buffer_')
        /\ pc' \in [Callers -> {"idle", "flush", "fill", "error"}]
        /\ after' \in [Callers -> {"return", "again", "fill"}]
        /\ shared' = (shared \/ sq # <<>>)
    BY <2>2, <2>3, <2>4, WriteKeepsTypes
  <2>6. SendTypes'
    <3>1. enc' \in Nat /\ enc' <= MaxWrites
      BY SMT, <2>2, SizesAssumption
    <3> QED BY <1>1, <2>5, <3>1 DEF SendInv, SendTypes
  <2>7. FlightInv'
    <3> SUFFICES ASSUME ~shared' PROVE FlightInv!2'
      BY DEF FlightInv
    <3>1. ~shared /\ sq = <<>>
      BY <2>5
    <3>2. Continues(wire, 0) /\ Len(wire) = enc * RecCells
      BY <1>1, <3>1 DEF SendInv, FlightInv
    <3>3. Len(wire) \in Nat /\ wire \in Seq(Cells) /\ RecCells \in Nat
      BY SMT, SizesAssumption DEF SendInv, SendTypes
    <3>4. enc' * RecCells = enc * RecCells + RecCells
      BY SMT, <2>2, <3>3
    <3>5. PICK k \in Nat : k = Len(wire)
      BY <3>3
    <3>6. Len(sq') = 1 /\ InFlight(sq[1], Len(wire) + sq[1].n - sq[1].off)'
      <4>1. Continues(record, k) /\ k + Len(record) = enc' * RecCells
        BY <2>3, <3>2, <3>4, <3>5
      <4>2. wire' \in Seq(Cells) /\ Len(wire') = k /\ enc' \in Nat
        BY SMT, <1>1, <2>2, <3>3, <3>5
      <4>3. SslWrite(u, <<>>, record, <<>>)
        BY <2>2, <3>1
      <4> QED BY <2>3, <2>4, <4>1, <4>2, <4>3, WriteFlies
    <3>7. Continues(wire', 0) /\ Len(wire') <= enc' * RecCells
      BY SMT, <1>1, <3>2, <3>3, <3>4
    <3>8. sq' # <<>> /\ Len(sq') <= 1
      BY SMT, <2>5, <3>6
    <3> QED BY <3>6, <3>7, <3>8 DEF Continues
  <2> QED BY <2>6, <2>7 DEF SendInv
<1> QED BY <1>2, <1>3

\* m cells of the buffer, from behind the first off, written behind what was sent.
LEMMA WireGrows ==
  ASSUME NEW sent \in Seq(Cells), NEW buf \in Seq(Cells), NEW off \in Nat, NEW m \in Nat,
         off + m <= Len(buf)
  PROVE  /\ sent \o SubSeq(buf, off + 1, off + m) \in Seq(Cells)
         /\ Len(sent \o SubSeq(buf, off + 1, off + m)) = Len(sent) + m
         /\ (/\ Continues(sent, 0)
             /\ \A i \in (off + 1)..(off + m) : buf[i] = Cell(Len(sent) + i - off))
              => Continues(sent \o SubSeq(buf, off + 1, off + m), 0)
<1>1. PICK k \in Nat, b \in Nat : k = Len(sent) /\ b = Len(buf)
  BY SMT
<1>2. PICK s : s = SubSeq(buf, off + 1, off + m)
  OBVIOUS
<1>3. s \in Seq(Cells) /\ Len(s) = m /\ \A i \in 1..m : s[i] = buf[off + i]
  <2>1. off + m <= b
    BY <1>1
  <2> QED BY SMT, <1>1, <1>2, <2>1
<1>4. /\ sent \o s \in Seq(Cells) /\ Len(sent \o s) = k + m
      /\ \A i \in 1..k : (sent \o s)[i] = sent[i]
      /\ \A i \in 1..m : (sent \o s)[k + i] = s[i]
  <2>1. s \in Seq(Cells) /\ k = Len(sent) /\ m = Len(s)
    BY <1>1, <1>3
  <2>2. /\ sent \o s \in Seq(Cells) /\ Len(sent \o s) = Len(sent) + Len(s)
        /\ \A i \in 1..Len(sent) : (sent \o s)[i] = sent[i]
        /\ \A i \in 1..Len(s) : (sent \o s)[Len(sent) + i] = s[i]
    <3>1. Joined(Cells, sent \o s, sent, s)
      BY <2>1, ConcatFacts
    <3> QED BY <3>1 DEF Joined
  <2>3. sent \o s \in Seq(Cells) /\ Len(sent \o s) = k + m
    BY <2>1, <2>2
  <2>4. \A i \in 1..k : (sent \o s)[i] = sent[i]
    BY <2>1, <2>2
  <2>5. ASSUME NEW i \in 1..m PROVE (sent \o s)[k + i] = s[i]
    <3>1. (sent \o s)[Len(sent) + i] = s[i]
      BY <2>1, <2>2
    <3> QED BY <2>1, <3>1
  <2> QED BY <2>3, <2>4, <2>5
<1>5. ASSUME Continues(sent, 0),
             \A i \in (off + 1)..(off + m) : buf[i] = Cell(Len(sent) + i - off)
      PROVE  Continues(sent \o s, 0)
  <2> SUFFICES ASSUME NEW i \in 1..(k + m) PROVE (sent \o s)[i] = Cell(0 + i)
    BY <1>4 DEF Continues
  <2>1. CASE i <= k
    <3>1. i \in 1..k
      BY SMT, <2>1
    <3>2. sent[i] = Cell(0 + i)
      BY <1>1, <1>5, <3>1 DEF Continues
    <3> QED BY <1>4, <3>1, <3>2
  <2>2. CASE i > k
    <3>1. PICK j \in 1..m : i = k + j
      <4>1. i - k \in 1..m /\ i = k + (i - k)
        BY SMT, <2>2
      <4> QED BY <4>1
    <3>2. (sent \o s)[i] = buf[off + j]
      BY <1>3, <1>4, <3>1
    <3>3. off + j \in (off + 1)..(off + m) /\ k + (off + j) - off = 0 + i
      BY SMT, <3>1
    <3>4. buf[off + j] = Cell(k + (off + j) - off)
      BY <1>1, <1>5, <3>3
    <3>5. Cell(k + (off + j) - off) = Cell(0 + i)
      BY <3>3
    <3> QED BY <3>2, <3>4, <3>5
  <2>3. i <= k \/ i > k
    BY SMT
  <2> QED BY <2>1, <2>2, <2>3
<1> QED BY <1>1, <1>2, <1>4, <1>5

\* The ring writes a part of the oldest write, or all of what was left of it.
LEMMA SendWritten ==
  ASSUME SendInv, Written
  PROVE  SendInv'
<1>1. PICK w : w = Head(sq)
  OBVIOUS
<1>2. /\ w = sq[1] /\ w \in Write /\ w.by \in Callers /\ w.n \in Nat /\ w.off \in Nat
      /\ Tail(sq) \in Seq(Write) /\ Len(Tail(sq)) = Len(sq) - 1 /\ Len(sq) \in Nat \ {0}
      /\ w.off <= w.n /\ w.n <= Len(io_buffer_) /\ sq # <<>>
  <2>1. sq # <<>> /\ sq \in Seq(Write) /\ 1 \in DOMAIN sq /\ Len(sq) \in Nat \ {0}
    BY SMT DEF Written, SendInv, SendTypes
  <2>2. w = sq[1] /\ Tail(sq) \in Seq(Write) /\ Len(Tail(sq)) = Len(sq) - 1
    BY SMT, <1>1, <2>1
  <2>3. w \in Write
    BY SMT, <2>1, <2>2
  <2>4. w.off <= w.n /\ w.n <= Len(io_buffer_)
    BY <2>1, <2>2 DEF SendInv, SendTypes
  <2> QED BY <2>1, <2>2, <2>3, <2>4 DEF Write
<1>3. PICK m \in 1..(w.n - w.off) :
        /\ wire' = wire \o SubSeq(io_buffer_, w.off + 1, w.off + m)
        /\ IF ~WriteAllDone(w, m)
           THEN /\ sq' = Append(Tail(sq), [w EXCEPT !.off = @ + m])
                /\ UNCHANGED <<pc, after, wpend, bio_out, io_buffer_, shared>>
           ELSE IF after[w.by] = "again"
           THEN SslWrite(w.by, Tail(sq), wpend, <<>>)
           ELSE Continue(w.by, after[w.by]) /\ sq' = Tail(sq) /\ UNCHANGED wpend
  BY <1>1 DEF Written, SendInv, SendTypes
<1>4. UNCHANGED <<enc, failed>>
  BY DEF Written
<1>5. PICK k \in Nat : k = Len(wire)
  BY SMT DEF SendInv, SendTypes
<1>6. m \in Nat /\ w.off + m <= w.n
  BY SMT, <1>2
<1>7. /\ wire' \in Seq(Cells) /\ Len(wire') = Len(wire) + m
      /\ (Continues(wire, 0) /\ InFlight(w, Len(wire) + w.n - w.off)) => Continues(wire', 0)
  <2>1. /\ wire \in Seq(Cells) /\ io_buffer_ \in Seq(Cells) /\ w.off \in Nat /\ m \in Nat
        /\ w.off + m <= Len(io_buffer_)
    <3>1. Len(io_buffer_) \in Nat
      BY SMT DEF SendInv, SendTypes
    <3> QED BY SMT, <1>2, <1>6, <3>1 DEF SendInv, SendTypes
  <2>2. /\ wire' \in Seq(Cells) /\ Len(wire') = Len(wire) + m
        /\ (/\ Continues(wire, 0)
            /\ \A i \in (w.off + 1)..(w.off + m) : io_buffer_[i] = Cell(Len(wire) + i - w.off))
             => Continues(wire', 0)
    BY <1>3, <2>1, WireGrows
  <2>3. (w.off + 1)..(w.off + m) \subseteq (w.off + 1)..w.n
    BY SMT, <1>2, <1>6
  <2>4. InFlight(w, Len(wire) + w.n - w.off) =>
          \A i \in (w.off + 1)..w.n : io_buffer_[i] = Cell(Len(wire) + i - w.off)
    BY DEF InFlight
  <2> QED BY <2>2, <2>3, <2>4
<1>8. ASSUME ~shared
      PROVE  /\ Tail(sq) = <<>> /\ Len(sq) = 1
             /\ InFlight(w, k + w.n - w.off) /\ Continues(wire', 0)
             /\ Len(wire') <= enc * RecCells
  <2>1. Len(sq) = 1 /\ Continues(wire, 0) /\ InFlight(w, k + w.n - w.off)
    BY SMT, <1>2, <1>5, <1>8 DEF SendInv, FlightInv
  <2>2. Tail(sq) = <<>>
    <3>1. Len(Tail(sq)) = 0
      BY SMT, <1>2, <2>1
    <3>2. PICK rest \in Seq(Write) : rest = Tail(sq)
      BY <1>2
    <3> QED BY SMT, <3>1, <3>2
  <2>3. (k + w.n - w.off) + Len(wpend) = enc * RecCells
    BY <2>1 DEF InFlight
  <2>4. Len(wpend) \in Nat
    BY SMT DEF SendInv, SendTypes
  <2>5. Len(wire') <= enc * RecCells
    <3>1. enc * RecCells \in Nat
      BY SMT, SizesAssumption DEF SendInv, SendTypes
    <3>2. PICK e \in Nat : e = enc * RecCells
      BY <3>1
    <3>3. Len(wire') = k + m
      BY <1>7, <1>5
    <3>4. PICK n \in Nat, off \in Nat, p \in Nat, c \in Nat :
            n = w.n /\ off = w.off /\ p = Len(wpend) /\ c = m
      BY <1>2, <1>6, <2>4
    <3>5. (k + n - off) + p = e /\ off + c <= n
      BY <1>6, <2>3, <3>2, <3>4
    <3>6. k + c <= e
      BY SMT, <3>5
    <3> QED BY <3>2, <3>3, <3>4, <3>6
  <2>6. Continues(wire', 0)
    BY <1>7, <1>5, <2>1
  <2> QED BY <2>1, <2>2, <2>5, <2>6
<1>9. \A i \in DOMAIN Tail(sq) : Tail(sq)[i].off <= Tail(sq)[i].n /\ Tail(sq)[i].n <= Len(io_buffer_)
  <2> TAKE i \in DOMAIN Tail(sq)
  <2>1. i + 1 \in DOMAIN sq /\ Tail(sq)[i] = sq[i + 1]
    BY SMT, <1>2 DEF SendInv, SendTypes
  <2> QED BY <2>1 DEF SendInv, SendTypes
<1>10. CASE ~WriteAllDone(w, m)
  <2>1. PICK v : v = [w EXCEPT !.off = @ + m]
    OBVIOUS
  <2>2. v \in Write /\ v.by = w.by /\ v.n = w.n /\ v.off = w.off + m
    BY SMT, <1>2, <1>6, <2>1 DEF Write
  <2>3. /\ sq' = Append(Tail(sq), v)
        /\ UNCHANGED <<pc, after, wpend, bio_out, io_buffer_, shared>>
    BY <1>3, <1>10, <2>1
  <2>4. sq' \in Seq(Write) /\ sq' # <<>>
    BY SMT, <1>2, <2>2, <2>3
  <2>5. ASSUME NEW i \in DOMAIN sq' PROVE sq'[i].off <= sq'[i].n /\ sq'[i].n <= Len(io_buffer_')
    <3>1. (i \in DOMAIN Tail(sq) /\ sq'[i] = Tail(sq)[i]) \/ sq'[i] = v
      BY SMT, <1>2, <2>2, <2>3
    <3> QED BY <1>2, <1>6, <1>9, <2>2, <2>3, <3>1
  <2>6. SendTypes'
    BY <1>4, <1>7, <2>3, <2>4, <2>5 DEF SendInv, SendTypes
  <2>7. FlightInv'
    <3> SUFFICES ASSUME ~shared' PROVE FlightInv!2'
      BY DEF FlightInv
    <3>1. /\ Tail(sq) = <<>> /\ InFlight(w, k + w.n - w.off) /\ Continues(wire', 0)
          /\ Len(wire') <= enc * RecCells
      BY <1>8, <2>3
    <3>2. Len(sq') = 1 /\ sq'[1] = v
      <4>1. sq' = Append(<<>>, v)
        BY <2>3, <3>1
      <4> QED BY SMT, <2>2, <4>1
    <3>3. Len(wire') = k + m
      BY <1>7, <1>5
    <3>4. \A i \in (v.off + 1)..v.n : io_buffer_'[i] = Cell(Len(wire') + i - v.off)
      <4> TAKE i \in (v.off + 1)..v.n
      <4>1. /\ i \in (w.off + 1)..w.n
            /\ Len(wire') + i - v.off = k + i - w.off
        BY SMT, <1>2, <1>6, <2>2, <3>3
      <4> QED BY <1>5, <2>3, <3>1, <4>1 DEF InFlight
    <3>5. Len(wire') + v.n - v.off = k + w.n - w.off
      BY SMT, <1>2, <1>6, <2>2, <3>3
    <3>6. InFlight(sq[1], Len(wire) + sq[1].n - sq[1].off)'
      BY SMT, <1>4, <2>2, <2>3, <3>1, <3>2, <3>4, <3>5 DEF InFlight, Continues
    <3> QED BY SMT, <1>4, <2>4, <3>1, <3>2, <3>6 DEF Continues
  <2> QED BY <2>6, <2>7 DEF SendInv
<1>11. CASE WriteAllDone(w, m) /\ after[w.by] = "again"
  <2>1. SslWrite(w.by, Tail(sq), wpend, <<>>)
    BY <1>3, <1>11
  <2>2. SendTypes /\ wpend \in Seq(Cells)
    BY DEF SendInv, SendTypes
  <2>3. /\ wpend' \in Seq(Cells) /\ io_buffer_' \in Seq(Cells) /\ bio_out' = <<>>
        /\ sq' \in Seq(Write) /\ sq' # <<>>
        /\ \A i \in DOMAIN sq' : sq'[i].off <= sq'[i].n /\ sq'[i].n <= Len(io_buffer_')
        /\ pc' \in [Callers -> {"idle", "flush", "fill", "error"}]
        /\ after' \in [Callers -> {"return", "again", "fill"}]
        /\ shared' = (shared \/ Tail(sq) # <<>>)
    BY <1>2, <1>9, <2>1, <2>2, WriteKeepsTypes
  <2>4. SendTypes'
    BY <1>4, <1>7, <2>3 DEF SendInv, SendTypes
  <2>5. FlightInv'
    <3> SUFFICES ASSUME ~shared' PROVE FlightInv!2'
      BY DEF FlightInv
    <3>1. /\ Tail(sq) = <<>> /\ InFlight(w, k + w.n - w.off) /\ Continues(wire', 0)
          /\ Len(wire') <= enc * RecCells
      BY <1>8, <2>3
    <3>2. PICK j \in Nat : j = k + m
      BY SMT, <1>6
    <3>3. j = k + w.n - w.off /\ Len(wire') = j
      <4>1. Len(wire') = k + m
        BY <1>7, <1>5
      <4>2. PICK n \in Nat, off \in Nat, c \in Nat : n = w.n /\ off = w.off /\ c = m
        BY <1>2, <1>6
      <4>3. off + c = n
        BY <1>11, <4>2 DEF WriteAllDone
      <4>4. k + c = k + n - off
        BY SMT, <4>3
      <4> QED BY <3>2, <4>1, <4>2, <4>4
    <3>4. Continues(wpend, j) /\ j + Len(wpend) = enc' * RecCells
      BY <1>4, <3>1, <3>3 DEF InFlight
    <3>5. SslWrite(w.by, <<>>, wpend, <<>>) /\ enc' \in Nat
      BY <1>4, <2>1, <3>1 DEF SendInv, SendTypes
    <3>6. Len(sq') = 1 /\ InFlight(sq[1], Len(wire) + sq[1].n - sq[1].off)'
      BY <1>2, <1>7, <2>2, <3>3, <3>4, <3>5, WriteFlies
    <3>7. sq' # <<>>
      BY <2>3, <3>6
    <3> QED BY SMT, <1>4, <3>1, <3>6, <3>7 DEF Continues
  <2> QED BY <2>4, <2>5 DEF SendInv
<1>12. CASE WriteAllDone(w, m) /\ after[w.by] # "again"
  <2>1. Continue(w.by, after[w.by]) /\ sq' = Tail(sq) /\ UNCHANGED wpend
    BY <1>3, <1>12
  <2>2. UNCHANGED <<io_buffer_, bio_out, shared>>
    BY <2>1 DEF Continue
  <2>3. /\ pc' \in [Callers -> {"idle", "flush", "fill", "error"}]
        /\ after' \in [Callers -> {"return", "again", "fill"}]
    BY <1>2, <2>1 DEF Continue, SendInv, SendTypes
  <2>4. SendTypes'
    BY <1>2, <1>4, <1>7, <1>9, <2>1, <2>2, <2>3 DEF SendInv, SendTypes
  <2>5. FlightInv'
    <3> SUFFICES ASSUME ~shared' PROVE FlightInv!2'
      BY DEF FlightInv
    <3>1. /\ Tail(sq) = <<>> /\ InFlight(w, k + w.n - w.off) /\ Continues(wire', 0)
          /\ Len(wire') <= enc * RecCells
      BY <1>8, <2>2
    <3>2. wpend = <<>> /\ (k + w.n - w.off) + Len(wpend) = enc * RecCells
      BY <1>12, <3>1 DEF InFlight
    <3>3. Len(wire') = k + w.n - w.off
      <4>1. Len(wire') = k + m
        BY <1>7, <1>5
      <4>2. PICK n \in Nat, off \in Nat, c \in Nat : n = w.n /\ off = w.off /\ c = m
        BY <1>2, <1>6
      <4>3. off + c = n
        BY <1>12, <4>2 DEF WriteAllDone
      <4>4. k + c = k + n - off
        BY SMT, <4>3
      <4> QED BY <4>1, <4>2, <4>4
    <3>4. Len(wpend) = 0 /\ k + w.n - w.off \in Nat
      BY SMT, <1>2, <3>2
    <3>5. Len(wire') = enc' * RecCells
      BY SMT, <1>4, <3>2, <3>3, <3>4
    <3>6. sq' = <<>> /\ wpend' = <<>>
      BY <2>1, <3>1, <3>2
    <3>7. Len(sq') <= 1
      BY SMT, <3>6
    <3> QED BY <1>4, <3>1, <3>5, <3>6, <3>7 DEF Continues
  <2> QED BY <2>4, <2>5 DEF SendInv
<1> QED BY <1>10, <1>11, <1>12

\* The oldest write fails.
LEMMA SendWriteFails ==
  ASSUME SendInv, WriteFails
  PROVE  SendInv'
<1>1. /\ sq # <<>> /\ sq' = Tail(sq) /\ failed' = "write"
      /\ pc' = [pc EXCEPT ![Head(sq).by] = "error"]
      /\ UNCHANGED <<after, wpend, bio_out, io_buffer_, wire, enc, shared>>
  BY DEF WriteFails
<1>2. sq \in Seq(Write) /\ sq' \in Seq(Write) /\ Len(sq') = Len(sq) - 1 /\ Len(sq) \in Nat
  BY SMT, <1>1 DEF SendInv, SendTypes
<1>3. \A i \in DOMAIN sq' : sq'[i].off <= sq'[i].n /\ sq'[i].n <= Len(io_buffer_')
  <2> TAKE i \in DOMAIN sq'
  <2>1. i + 1 \in DOMAIN sq /\ sq'[i] = sq[i + 1]
    BY SMT, <1>1, <1>2
  <2> QED BY <1>1, <2>1 DEF SendInv, SendTypes
<1>4. SendTypes'
  BY <1>1, <1>2, <1>3 DEF SendInv, SendTypes
<1>5. ~shared => sq' = <<>> /\ Len(sq') <= 1
  <2> SUFFICES ASSUME ~shared PROVE sq' = <<>> /\ Len(sq') <= 1
    OBVIOUS
  <2>1. Len(sq) <= 1
    BY DEF SendInv, FlightInv
  <2>2. Len(sq) # 0
    BY SMT, <1>1, <1>2
  <2>3. Len(sq') = 0
    BY SMT, <1>2, <2>1, <2>2
  <2> QED BY SMT, <1>2, <2>3
<1>6. FlightInv'
  BY <1>1, <1>5 DEF SendInv, FlightInv, Continues
<1> QED BY <1>4, <1>6 DEF SendInv

\* Every step of the stream keeps the invariant.
LEMMA SendNext ==
  ASSUME SendInv, [Next]_vars
  PROVE  SendInv'
<1>1. CASE \E u \in Callers : \/ CallWrite(u) \/ CallRead(u)
                             \/ Fill(u) \/ ReadClosed(u) \/ FillEnd(u)
  BY <1>1, SendCallWrite, SendRest
<1>2. CASE Kernel
  BY <1>2, SendWritten, SendWriteFails DEF Kernel
<1>3. CASE PeerSends \/ PeerCloses \/ UNCHANGED vars
  <2>1. UNCHANGED <<pc, after, wpend, bio_out, io_buffer_, sq, wire, enc, failed, shared>>
    BY <1>3 DEF PeerSends, PeerCloses, vars
  <2> QED BY <2>1 DEF SendInv, SendTypes, FlightInv, InFlight, Continues
<1> QED BY <1>1, <1>2, <1>3 DEF Next

\* A new stream satisfies the invariant.
LEMMA SendInit == Init => SendInv
<1> SUFFICES ASSUME Init PROVE SendInv
  OBVIOUS
<1>1. SendTypes
  BY SMT, SizesAssumption DEF Init, SendTypes
<1>2. FlightInv
  <2>1. wire = <<>> /\ sq = <<>> /\ wpend = <<>> /\ enc = 0 /\ Len(wire) = 0 /\ Len(sq) = 0
    BY DEF Init
  <2>2. enc * RecCells = 0
    BY SMT, <2>1, SizesAssumption
  <2>3. Continues(wire, 0)
    BY SMT, <2>1 DEF Continues
  <2> QED BY SMT, <2>1, <2>2, <2>3 DEF FlightInv
<1> QED BY <1>1, <1>2 DEF SendInv

\* The invariant holds in every behaviour.
LEMMA SendAlways == Spec => []SendInv
<1>1. SendInv /\ [Next]_vars => SendInv'
  BY SendNext
<1> QED BY <1>1, SendInit, PTL DEF Spec

-----------------------------------------------------------------------------
(* The writes in the ring.                                                  *)

\* A step of a caller that is not in a flush.
LEMMA RingQuiet ==
  ASSUME SendTypes, RingInv, NEW u \in Callers, pc[u] # "flush",
         \A v \in Callers \ {u} : pc'[v] = pc[v] /\ after'[v] = after[v],
         UNCHANGED <<wpend, io_buffer_, sq>>
  PROVE  RingInv'
<1>1. ASSUME NEW i \in DOMAIN sq
      PROVE  pc'[sq[i].by] = pc[sq[i].by] /\ after'[sq[i].by] = after[sq[i].by]
  <2>1. sq[i] \in Write
    BY SMT DEF SendTypes
  <2>2. sq[i].by \in Callers /\ sq[i].by # u
    <3>1. pc[sq[i].by] = "flush"
      BY DEF RingInv, OwnWrite
    <3> QED BY <2>1, <3>1 DEF Write
  <2> QED BY <2>2
<1>2. ASSUME NEW i \in DOMAIN sq PROVE OwnWrite(sq[i], pc', after', wpend)
  <2>1. OwnWrite(sq[i], pc, after, wpend)
    BY DEF RingInv
  <2> QED BY <1>1, <2>1 DEF OwnWrite
<1>3. OneAgain(sq, after')
  <2>1. OneAgain(sq, after)
    BY DEF RingInv
  <2> QED BY <1>1, <2>1 DEF OneAgain
<1> QED BY <1>2, <1>3 DEF RingInv

\* The writes of other callers than u, none of which has a rest inside SSL.
Others(queue, u) ==
  /\ \A i \in DOMAIN queue :
       /\ 1 <= queue[i].n /\ queue[i].off < queue[i].n
       /\ queue[i].by \in Callers \ {u}
       /\ pc[queue[i].by] = "flush" /\ after[queue[i].by] = "return"
  /\ DistinctBy(queue)

\* A write of u is put behind those of the others.
LEMMA RingWrite ==
  ASSUME SendTypes, NEW u \in Callers, NEW queue \in Seq(Write), NEW record \in Seq(Cells),
         record # <<>>, NEW room \in Nat, Wrote(u, queue, record, room),
         Len(io_buffer_) <= BioCap, Others(queue, u)
  PROVE  RingInv'
<1>1. PICK w : w = [by |-> u, n |-> room, off |-> 0]
  OBVIOUS
<1>2. w \in Write /\ w.by = u /\ w.n = room /\ w.off = 0
  BY <1>1 DEF Write
<1>3. PICK k \in Nat : k = Len(queue)
  BY SMT
<1>4. /\ DOMAIN queue = 1..k /\ DOMAIN sq' = 1..(k + 1)
      /\ \A i \in 1..k : sq'[i] = queue[i]
      /\ sq'[k + 1] = w
  <2>1. Extended(Write, sq', queue, w)
    BY <1>1, <1>2, AppendFacts DEF Wrote
  <2> QED BY <1>3, <2>1 DEF Extended
<1>5. \A i \in 1..(k + 1) : i \in 1..k \/ i = k + 1
  BY SMT
<1>6. /\ pc'[u] = "flush" /\ after'[u] = IF room = Len(record) THEN "return" ELSE "again"
      /\ \A v \in Callers \ {u} : pc'[v] = pc[v] /\ after'[v] = after[v]
  BY DEF Wrote, SendTypes
<1>7. 1 <= room /\ 0 < room /\ Len(io_buffer_') <= BioCap
  <2>1. 1 <= room /\ Len(io_buffer_') <= BioCap
    BY DEF Wrote
  <2>2. 0 < room
    BY SMT, <2>1
  <2> QED BY <2>1, <2>2
<1>8. room # Len(record) => wpend' # <<>>
  <2>1. PICK l \in Nat : l = Len(record)
    BY SMT
  <2>2. Len(wpend') = l - room /\ room <= l
    BY <2>1 DEF Wrote
  <2>3. room # l => Len(wpend') # 0
    BY SMT, <2>2
  <2>4. wpend' = <<>> => Len(wpend') = 0
    BY SMT
  <2> QED BY <2>1, <2>3, <2>4
<1>9. ASSUME NEW i \in DOMAIN sq' PROVE OwnWrite(sq'[i], pc', after', wpend')
  <2>1. CASE i \in 1..k
    <3>1. sq'[i] = queue[i] /\ queue[i].by \in Callers \ {u}
      BY <1>4, <2>1 DEF Others
    <3>2. pc'[queue[i].by] = "flush" /\ after'[queue[i].by] = "return"
      BY <1>4, <1>6, <2>1, <3>1 DEF Others
    <3>3. 1 <= queue[i].n /\ queue[i].off < queue[i].n
      BY <1>4, <2>1 DEF Others
    <3> QED BY <3>1, <3>2, <3>3 DEF OwnWrite
  <2>2. CASE i = k + 1
    BY <1>2, <1>4, <1>6, <1>7, <1>8, <2>2 DEF OwnWrite
  <2> QED BY <1>4, <1>5, <2>1, <2>2
<1>10. ASSUME NEW i \in 1..k
       PROVE  sq'[i].by # u /\ sq'[i].by = queue[i].by /\ after'[sq'[i].by] # "again"
  <2>1. sq'[i] = queue[i] /\ queue[i].by \in Callers \ {u} /\ after[queue[i].by] = "return"
    BY <1>4 DEF Others
  <2> QED BY <1>6, <2>1
<1>11. ASSUME NEW i \in DOMAIN sq', NEW j \in DOMAIN sq', sq'[i].by = sq'[j].by
       PROVE  i = j
  <2>1. CASE i \in 1..k /\ j \in 1..k
    BY <1>4, <1>10, <1>11, <2>1 DEF Others, DistinctBy
  <2>2. CASE i = k + 1 \/ j = k + 1
    BY <1>2, <1>4, <1>5, <1>10, <1>11, <2>2
  <2> QED BY <1>4, <1>5, <2>1, <2>2
<1>12. ASSUME NEW i \in DOMAIN sq', NEW j \in DOMAIN sq',
              after'[sq'[i].by] = "again", after'[sq'[j].by] = "again"
       PROVE  i = j
  BY <1>4, <1>5, <1>10, <1>12
<1> QED BY <1>7, <1>9, <1>11, <1>12 DEF RingInv, DistinctBy, OneAgain

\* The writes behind the oldest are those of other callers.
LEMMA RingRest ==
  ASSUME SendTypes, RingInv, sq # <<>>, NEW t, t = Tail(sq)
  PROVE  /\ Head(sq) = sq[1] /\ sq[1] \in Write /\ t \in Seq(Write)
         /\ 1 \in DOMAIN sq
         /\ \A i \in DOMAIN t :
              /\ i + 1 \in DOMAIN sq /\ t[i] = sq[i + 1]
              /\ t[i].by \in Callers \ {sq[1].by}
         /\ DistinctBy(t)
<1>1. sq \in Seq(Write)
  BY DEF SendTypes
<1>2. /\ Head(sq) = sq[1] /\ sq[1] \in Write /\ t \in Seq(Write) /\ 1 \in DOMAIN sq
      /\ \A i \in DOMAIN t : i \in Nat /\ i # 0 /\ i + 1 \in DOMAIN sq /\ t[i] = sq[i + 1]
  BY SMT, <1>1
<1>3. ASSUME NEW i \in DOMAIN t PROVE t[i].by \in Callers \ {sq[1].by}
  <2>1. t[i] \in Write
    BY SMT, <1>2
  <2>2. i + 1 # 1
    BY SMT, <1>2
  <2>3. sq[i + 1].by # sq[1].by
    BY <1>2, <2>2 DEF RingInv, DistinctBy
  <2> QED BY <1>2, <2>1, <2>3 DEF Write
<1>4. ASSUME NEW i \in DOMAIN t, NEW j \in DOMAIN t, t[i].by = t[j].by PROVE i = j
  <2>1. i + 1 = j + 1
    <3>1. sq[i + 1].by = sq[j + 1].by /\ i + 1 \in DOMAIN sq /\ j + 1 \in DOMAIN sq
      BY <1>2, <1>4
    <3> QED BY <3>1 DEF RingInv, DistinctBy
  <2>2. i \in Nat /\ j \in Nat
    BY <1>2
  <2> QED BY SMT, <2>1, <2>2
<1> QED BY <1>2, <1>3, <1>4 DEF DistinctBy

\* The oldest write leaves the ring.
LEMMA RingTail ==
  ASSUME SendTypes, RingInv, sq # <<>>, sq' = Tail(sq),
         \A v \in Callers \ {sq[1].by} : pc'[v] = pc[v] /\ after'[v] = after[v],
         UNCHANGED <<wpend, io_buffer_>>
  PROVE  RingInv'
<1>1. PICK t : t = Tail(sq) /\ t = sq'
  OBVIOUS
<1>2. /\ \A i \in DOMAIN t :
           /\ i + 1 \in DOMAIN sq /\ t[i] = sq[i + 1]
           /\ t[i].by \in Callers \ {sq[1].by}
      /\ DistinctBy(t)
  BY <1>1, RingRest
<1>3. ASSUME NEW i \in DOMAIN t
      PROVE  pc'[t[i].by] = pc[t[i].by] /\ after'[t[i].by] = after[t[i].by]
  BY <1>2
<1>4. ASSUME NEW i \in DOMAIN t PROVE OwnWrite(t[i], pc', after', wpend)
  <2>1. OwnWrite(t[i], pc, after, wpend)
    BY <1>2 DEF RingInv
  <2> QED BY <1>3, <2>1 DEF OwnWrite
<1>5. ASSUME NEW i \in DOMAIN t, NEW j \in DOMAIN t,
             after'[t[i].by] = "again", after'[t[j].by] = "again"
      PROVE  i = j
  <2>1. after[t[i].by] = "again" /\ after[t[j].by] = "again"
    BY <1>3, <1>5
  <2>2. t[i] = sq[i + 1] /\ t[j] = sq[j + 1] /\ i + 1 \in DOMAIN sq /\ j + 1 \in DOMAIN sq
    BY <1>2
  <2>3. i + 1 = j + 1
    BY <2>1, <2>2 DEF RingInv, OneAgain
  <2>4. t[i].by = t[j].by
    BY <2>2, <2>3
  <2> QED BY <1>2, <2>4 DEF DistinctBy
<1>6. OneAgain(t, after')
  BY <1>5 DEF OneAgain
<1> QED BY <1>1, <1>2, <1>4, <1>6 DEF RingInv

\* The writes other than those of u, when no caller but u has a rest inside SSL.
LEMMA NoneAgain ==
  ASSUME SendTypes, NEW u, NEW q \in Seq(Write), DistinctBy(q),
         \A i \in DOMAIN q : /\ OwnWrite(q[i], pc, after, wpend)
                             /\ q[i].by \in Callers \ {u} /\ after[q[i].by] # "again"
  PROVE  Others(q, u)
<1>1. ASSUME NEW i \in DOMAIN q
      PROVE  /\ 1 <= q[i].n /\ q[i].off < q[i].n
             /\ pc[q[i].by] = "flush" /\ after[q[i].by] = "return"
  <2>1. after[q[i].by] \in {"return", "again", "fill"}
    BY DEF SendTypes
  <2> QED BY <2>1 DEF OwnWrite
<1> QED BY <1>1 DEF Others

\* A call of write.
LEMMA RingCallWrite ==
  ASSUME SendTypes, RingInv, NEW u \in Callers, CallWrite(u)
  PROVE  /\ RingInv' /\ (shared' = shared \/ shared' = (shared \/ sq # <<>>))
         /\ \A v \in Callers : pc'[v] = "fill" => pc[v] = "fill"
<1>1. CASE wpend # <<>>
  <2>1. /\ pc[u] = "idle" /\ pc' = [pc EXCEPT ![u] = "error"]
        /\ UNCHANGED <<after, wpend, io_buffer_, sq, shared>>
    BY <1>1 DEF CallWrite
  <2>2. pc'[u] = "error" /\ \A v \in Callers \ {u} : pc'[v] = pc[v]
    BY <2>1 DEF SendTypes
  <2>3. RingInv'
    <3>1. pc[u] # "flush" /\ \A v \in Callers \ {u} : pc'[v] = pc[v] /\ after'[v] = after[v]
      BY <2>1, <2>2
    <3> QED BY <2>1, <3>1, RingQuiet
  <2> QED BY <2>1, <2>2, <2>3
<1>2. CASE wpend = <<>>
  <2>1. PICK record : record = Record(enc + 1)
    OBVIOUS
  <2>2. enc \in Nat /\ enc < MaxWrites /\ pc[u] = "idle" /\ SslWrite(u, sq, record, <<>>)
    BY <1>2, <2>1 DEF CallWrite, SendTypes
  <2>3. record \in Seq(Cells) /\ record # <<>>
    <3>1. enc < MaxWrites + MaxPeer
      BY SMT, <2>2, SizesAssumption
    <3>2. record \in Seq(Cells) /\ Len(record) = RecCells
      BY <2>1, <2>2, <3>1, RecordContinues
    <3>3. Len(record) # 0
      BY <3>2, SizesAssumption
    <3>4. record = <<>> => Len(record) = 0
      BY SMT
    <3> QED BY <3>2, <3>3, <3>4
  <2>4. PICK room \in Nat : Wrote(u, sq, record, room)
    <3>1. /\ sq \in Seq(Write)
          /\ \A i \in DOMAIN sq : sq[i].off <= sq[i].n /\ sq[i].n <= Len(io_buffer_)
      BY DEF SendTypes
    <3> QED BY <2>2, <2>3, <3>1, WriteTypes
  <2>5. Others(sq, u)
    <3>1. ASSUME NEW i \in DOMAIN sq
          PROVE  /\ OwnWrite(sq[i], pc, after, wpend)
                 /\ sq[i].by \in Callers \ {u} /\ after[sq[i].by] # "again"
      <4>1. OwnWrite(sq[i], pc, after, wpend)
        BY DEF RingInv
      <4>2. sq[i] \in Write
        BY SMT DEF SendTypes
      <4>3. sq[i].by # u /\ after[sq[i].by] # "again"
        BY <1>2, <2>2, <4>1 DEF OwnWrite
      <4> QED BY <4>1, <4>2, <4>3 DEF Write
    <3>2. sq \in Seq(Write) /\ DistinctBy(sq)
      BY DEF SendTypes, RingInv
    <3> QED BY <3>1, <3>2, NoneAgain
  <2>6. RingInv'
    <3>1. sq \in Seq(Write) /\ Len(io_buffer_) <= BioCap
      BY DEF SendTypes, RingInv
    <3> QED BY <2>3, <2>4, <2>5, <3>1, RingWrite
  <2>7. shared' = (shared \/ sq # <<>>) /\ \A v \in Callers : pc'[v] = "fill" => pc[v] = "fill"
    BY <2>4 DEF Wrote, SendTypes
  <2> QED BY <2>6, <2>7
<1> QED BY <1>1, <1>2

\* The ring writes a part and puts the rest of the write behind the others.
LEMMA RingPart ==
  ASSUME SendTypes, RingInv, sq # <<>>, NEW v \in Write, sq' = Append(Tail(sq), v),
         v.by = sq[1].by, 1 <= v.n, v.off < v.n, UNCHANGED <<pc, after, wpend, io_buffer_>>
  PROVE  RingInv'
<1>1. PICK t : t = Tail(sq)
  OBVIOUS
<1>2. /\ t \in Seq(Write) /\ 1 \in DOMAIN sq
      /\ \A i \in DOMAIN t :
           /\ i + 1 \in DOMAIN sq /\ t[i] = sq[i + 1]
           /\ t[i].by \in Callers \ {sq[1].by}
      /\ DistinctBy(t)
  BY <1>1, RingRest
<1>3. PICK k \in Nat : k = Len(t)
  BY SMT, <1>2
<1>4. PICK q : q = sq' /\ q = Append(t, v)
  BY <1>1
<1>5. /\ DOMAIN t = 1..k /\ DOMAIN q = 1..(k + 1)
      /\ \A i \in 1..k : q[i] = t[i]
      /\ q[k + 1] = v
  <2>1. t \in Seq(Write)
    BY <1>2
  <2>2. Extended(Write, q, t, v)
    BY <1>4, <2>1, AppendFacts
  <2> QED BY <1>3, <2>2 DEF Extended
<1>6. \A i \in 1..(k + 1) : i \in 1..k \/ i = k + 1
  BY SMT
<1>7. OwnWrite(v, pc, after, wpend)
  <2>1. OwnWrite(sq[1], pc, after, wpend)
    BY <1>2 DEF RingInv
  <2> QED BY <2>1 DEF OwnWrite
<1>8. ASSUME NEW i \in DOMAIN q PROVE OwnWrite(q[i], pc, after, wpend)
  <2>1. CASE i \in 1..k
    <3>1. q[i] = sq[i + 1] /\ i + 1 \in DOMAIN sq
      BY <1>2, <1>5, <2>1
    <3> QED BY <3>1 DEF RingInv
  <2>2. CASE i = k + 1
    BY <1>5, <1>7, <2>2
  <2> QED BY <1>5, <1>6, <2>1, <2>2
<1>9. ASSUME NEW i \in DOMAIN q
      PROVE  \E f \in DOMAIN sq : q[i].by = sq[f].by
  <2>1. CASE i \in 1..k
    <3>1. q[i] = sq[i + 1] /\ i + 1 \in DOMAIN sq
      BY <1>2, <1>5, <2>1
    <3> QED BY <3>1
  <2>2. CASE i = k + 1
    BY <1>2, <1>5, <2>2
  <2> QED BY <1>5, <1>6, <2>1, <2>2
<1>10. ASSUME NEW i \in DOMAIN q, NEW j \in DOMAIN q, q[i].by = q[j].by PROVE i = j
  <2>1. CASE i \in 1..k /\ j \in 1..k
    <3>1. t[i].by = t[j].by
      BY <1>5, <1>10, <2>1
    <3> QED BY <1>2, <1>5, <2>1, <3>1 DEF DistinctBy
  <2>2. \A l \in 1..k : q[l].by # v.by
    BY <1>2, <1>5
  <2>3. CASE i = k + 1 \/ j = k + 1
    BY <1>5, <1>6, <1>10, <2>2, <2>3
  <2> QED BY <1>5, <1>6, <2>1, <2>3
<1>11. ASSUME NEW i \in DOMAIN q, NEW j \in DOMAIN q,
              after[q[i].by] = "again", after[q[j].by] = "again"
       PROVE  i = j
  <2>1. PICK f \in DOMAIN sq, g \in DOMAIN sq : q[i].by = sq[f].by /\ q[j].by = sq[g].by
    BY <1>9
  <2>2. f = g
    BY <1>11, <2>1 DEF RingInv, OneAgain
  <2>3. q[i].by = q[j].by
    BY <2>1, <2>2
  <2> QED BY <1>10, <2>3
<1>12. DistinctBy(q) /\ OneAgain(q, after)
  BY <1>10, <1>11 DEF DistinctBy, OneAgain
<1> QED BY <1>4, <1>8, <1>12 DEF RingInv

\* The ring executes the oldest write.
LEMMA RingWritten ==
  ASSUME SendTypes, RingInv, shared \in BOOLEAN, Written
  PROVE  /\ RingInv' /\ shared' \in BOOLEAN
         /\ \A v \in Callers : pc'[v] = "fill" => pc[v] = "fill"
<1>1. PICK w, t : w = Head(sq) /\ t = Tail(sq)
  OBVIOUS
<1>2. sq # <<>>
  BY DEF Written
<1>3. /\ w = sq[1] /\ w \in Write /\ t \in Seq(Write) /\ 1 \in DOMAIN sq
      /\ \A i \in DOMAIN t :
           /\ i + 1 \in DOMAIN sq /\ t[i] = sq[i + 1]
           /\ t[i].by \in Callers \ {w.by}
      /\ DistinctBy(t)
  BY <1>1, <1>2, RingRest
<1>4. /\ w.by \in Callers /\ w.n \in Nat /\ w.off \in Nat
      /\ 1 <= w.n /\ w.off < w.n /\ pc[w.by] = "flush" /\ after[w.by] # "fill"
      /\ after[w.by] = "again" => wpend # <<>>
  <2>1. OwnWrite(w, pc, after, wpend)
    BY <1>3 DEF RingInv
  <2> QED BY <1>3, <2>1 DEF OwnWrite, Write
<1>5. PICK m \in 1..(w.n - w.off) :
        IF ~WriteAllDone(w, m)
        THEN /\ sq' = Append(t, [w EXCEPT !.off = @ + m])
             /\ UNCHANGED <<pc, after, wpend, bio_out, io_buffer_, shared>>
        ELSE IF after[w.by] = "again"
        THEN SslWrite(w.by, t, wpend, <<>>)
        ELSE Continue(w.by, after[w.by]) /\ sq' = t /\ UNCHANGED wpend
  BY <1>1 DEF Written, SendTypes
<1>6. CASE ~WriteAllDone(w, m)
  <2>1. PICK v : v = [w EXCEPT !.off = @ + m]
    OBVIOUS
  <2>2. sq' = Append(Tail(sq), v) /\ UNCHANGED <<pc, after, wpend, io_buffer_, shared>>
    BY <1>1, <1>5, <1>6, <2>1
  <2>3. m \in Nat /\ w.off + m \in Nat /\ w.off + m < w.n
    BY SMT, <1>4, <1>6 DEF WriteAllDone
  <2>4. v \in Write /\ v.by = w.by /\ v.n = w.n /\ v.off = w.off + m
    BY <1>3, <2>1, <2>3 DEF Write
  <2>5. v.by = sq[1].by /\ 1 <= v.n /\ v.off < v.n
    BY <1>3, <1>4, <2>3, <2>4
  <2>6. RingInv'
    BY <1>2, <2>2, <2>4, <2>5, RingPart
  <2> QED BY <2>2, <2>6
<1>7. CASE WriteAllDone(w, m) /\ after[w.by] = "again"
  <2>1. SslWrite(w.by, t, wpend, <<>>) /\ wpend # <<>> /\ wpend \in Seq(Cells)
    BY <1>4, <1>5, <1>7 DEF SendTypes
  <2>2. PICK room \in Nat : Wrote(w.by, t, wpend, room)
    <3>1. \A i \in DOMAIN t : t[i].off <= t[i].n /\ t[i].n <= Len(io_buffer_)
      BY <1>3 DEF SendTypes
    <3> QED BY <1>3, <1>4, <2>1, <3>1, WriteTypes
  <2>3. Others(t, w.by)
    <3>1. ASSUME NEW i \in DOMAIN t
          PROVE  /\ OwnWrite(t[i], pc, after, wpend)
                 /\ t[i].by \in Callers \ {w.by} /\ after[t[i].by] # "again"
      <4>1. i + 1 \in DOMAIN sq /\ t[i] = sq[i + 1] /\ t[i].by \in Callers \ {w.by}
        BY <1>3
      <4>2. OwnWrite(t[i], pc, after, wpend)
        BY <4>1 DEF RingInv
      <4>3. ASSUME after[t[i].by] = "again" PROVE FALSE
        <5>1. i + 1 = 1
          BY <1>3, <1>7, <4>1, <4>3 DEF RingInv, OneAgain
        <5> QED BY <1>3, <4>1, <5>1
      <4> QED BY <4>1, <4>2, <4>3
    <3> QED BY <1>3, <3>1, NoneAgain
  <2>4. RingInv'
    <3>1. Len(io_buffer_) <= BioCap
      BY DEF RingInv
    <3> QED BY <1>3, <1>4, <2>1, <2>2, <2>3, <3>1, RingWrite
  <2>5. shared' \in BOOLEAN /\ \A v \in Callers : pc'[v] = "fill" => pc[v] = "fill"
    BY <2>2 DEF Wrote, SendTypes
  <2> QED BY <2>4, <2>5
<1>8. CASE WriteAllDone(w, m) /\ after[w.by] # "again"
  <2>1. Continue(w.by, after[w.by]) /\ sq' = Tail(sq) /\ UNCHANGED wpend
    BY <1>1, <1>5, <1>8
  <2>2. /\ pc' = [pc EXCEPT ![w.by] = "idle"] /\ after' = [after EXCEPT ![w.by] = after[w.by]]
        /\ UNCHANGED <<io_buffer_, shared>>
    BY <1>4, <2>1 DEF Continue
  <2>3. /\ pc'[w.by] = "idle"
        /\ \A v \in Callers \ {w.by} : pc'[v] = pc[v] /\ after'[v] = after[v]
    BY <1>4, <2>2 DEF SendTypes
  <2>4. RingInv'
    BY <1>2, <1>3, <2>1, <2>2, <2>3, RingTail
  <2> QED BY <2>2, <2>3, <2>4
<1> QED BY <1>6, <1>7, <1>8

\* The oldest write fails.
LEMMA RingWriteFails ==
  ASSUME SendTypes, RingInv, WriteFails
  PROVE  RingInv' /\ \A v \in Callers : pc'[v] = "fill" => pc[v] = "fill"
<1>1. /\ sq # <<>> /\ sq' = Tail(sq) /\ pc' = [pc EXCEPT ![Head(sq).by] = "error"]
      /\ UNCHANGED <<after, wpend, io_buffer_>>
  BY DEF WriteFails
<1>2. PICK t : t = Tail(sq)
  OBVIOUS
<1>3. Head(sq) = sq[1] /\ sq[1] \in Write
  BY <1>1, <1>2, RingRest
<1>4. PICK b \in Callers : b = sq[1].by /\ pc' = [pc EXCEPT ![b] = "error"]
  BY <1>1, <1>3 DEF Write
<1>5. pc'[b] = "error" /\ \A v \in Callers \ {b} : pc'[v] = pc[v] /\ after'[v] = after[v]
  BY <1>1, <1>4 DEF SendTypes
<1>6. RingInv'
  BY <1>1, <1>4, <1>5, RingTail
<1> QED BY <1>5, <1>6

-----------------------------------------------------------------------------
(* The reads.                                                               *)

\* What SSL_read leaves behind, with net still to come: a record more, or an empty
\* BIO and the wait for the socket.
ReadLeaves(net, p, then) ==
  /\ ssl_in' \in Seq(Cells) /\ Len(ssl_in') < RecCells
  /\ bio_in' \in Seq(Cells) /\ Len(bio_in') <= BioCap
  /\ got' \in Seq(Seq(Cells)) /\ \A i \in DOMAIN got' : got'[i] = Record(i)
  /\ Arriving(Len(got'), ssl_in', bio_in', net, p)
  /\ then = "fill" => bio_in' = <<>>

\* The empty sequence continues the stream anywhere.
LEMMA EmptyContinues == ASSUME NEW k PROVE Continues(<<>>, k)
BY SMT DEF Continues

\* Less than a record: SSL keeps it.
LEMMA ReadPart ==
  ASSUME NEW in \in Seq(Cells), NEW net, NEW p, ReadTypes,
         \A i \in DOMAIN got : got[i] = Record(i),
         Arriving(Len(got), ssl_in, in, net, p),
         Len(ssl_in \o in) < RecCells,
         ssl_in' = ssl_in \o in, bio_in' = <<>>, got' = got
  PROVE  ReadLeaves(net, p, "fill")
<1>1. PICK x \in Nat, a \in Nat, b \in Nat :
        x = Len(got) * RecCells /\ a = Len(ssl_in) /\ b = Len(in)
  <2>1. Len(got) \in Nat /\ Len(ssl_in) \in Nat /\ Len(in) \in Nat /\ RecCells \in Nat
    BY SMT, SizesAssumption DEF ReadTypes
  <2>2. Len(got) * RecCells \in Nat
    BY SMT, <2>1
  <2> QED BY <2>1, <2>2
<1>2. ssl_in \in Seq(Cells) /\ Continues(ssl_in, x) /\ Continues(in, x + Len(ssl_in))
  BY <1>1 DEF ReadTypes, Arriving
<1>3. ssl_in' \in Seq(Cells) /\ Len(ssl_in') = a + b /\ Continues(ssl_in', x)
  <2>1. PICK s \in Seq(Cells) : s = ssl_in
    BY <1>2
  <2>2. s \o in \in Seq(Cells) /\ Len(s \o in) = Len(s) + Len(in) /\ Continues(s \o in, x)
    BY <1>2, <2>1, JoinContinues
  <2> QED BY <1>1, <2>1, <2>2
<1>4. Arriving(Len(got'), ssl_in', bio_in', net, p)
  <2>1. Len(bio_in') = 0 /\ x + (a + b) + 0 = x + a + b
    BY SMT
  <2>2. Continues(net, x + a + b) /\ x + a + b + Len(net) = p * RecCells
    BY <1>1 DEF Arriving
  <2>3. Len(got') * RecCells = x /\ Continues(bio_in', x + Len(ssl_in'))
    BY <1>1, EmptyContinues
  <2>4. Continues(net, x + Len(ssl_in') + Len(bio_in'))
    BY <1>3, <2>1, <2>2
  <2>5. x + Len(ssl_in') + Len(bio_in') + Len(net) = p * RecCells
    BY <1>3, <2>1, <2>2
  <2> QED BY <1>3, <2>3, <2>4, <2>5 DEF Arriving
<1>5. bio_in' \in Seq(Cells) /\ Len(bio_in') <= BioCap
  BY SMT, SizesAssumption
<1> QED BY <1>3, <1>4, <1>5 DEF ReadLeaves, ReadTypes

\* A whole record: it is returned, and the BIO keeps what lies behind it.
LEMMA ReadWhole ==
  ASSUME NEW in \in Seq(Cells), Len(in) <= BioCap, NEW net, NEW p, ReadTypes,
         \A i \in DOMAIN got : got[i] = Record(i),
         Arriving(Len(got), ssl_in, in, net, p),
         Len(ssl_in \o in) >= RecCells,
         got' = Append(got, SubSeq(ssl_in \o in, 1, RecCells)),
         ssl_in' = <<>>, bio_in' = Drop(ssl_in \o in, RecCells)
  PROVE  ReadLeaves(net, p, "return")
<1>1. PICK g \in Nat, a \in Nat, b \in Nat, r \in Nat \ {0} :
        g = Len(got) /\ a = Len(ssl_in) /\ b = Len(in) /\ r = RecCells
  BY SMT, SizesAssumption DEF ReadTypes
<1>2. PICK x \in Nat : x = g * r /\ (g + 1) * r = x + r
  <2>1. g * r \in Nat /\ (g + 1) * r = g * r + r
    BY SMT
  <2> QED BY <2>1
<1>3. PICK all : all = ssl_in \o in
  OBVIOUS
<1>4. all \in Seq(Cells) /\ Len(all) = a + b /\ Continues(all, x)
  <2>1. PICK s \in Seq(Cells) : s = ssl_in
    BY DEF ReadTypes
  <2>2. Continues(s, x) /\ Continues(in, x + Len(s))
    BY <1>1, <1>2, <2>1 DEF Arriving
  <2>3. s \o in \in Seq(Cells) /\ Len(s \o in) = Len(s) + Len(in) /\ Continues(s \o in, x)
    BY <2>2, JoinContinues
  <2> QED BY <1>1, <1>3, <2>1, <2>3
<1>5. r \in 0..Len(all) /\ a < r /\ b <= BioCap
  <2>1. r <= a + b
    BY <1>1, <1>3, <1>4
  <2>2. r \in 0..(a + b)
    BY SMT, <2>1
  <2> QED BY <1>1, <1>4, <2>2 DEF ReadTypes
<1>6. /\ SubSeq(all, 1, r) \in Seq(Cells) /\ Len(SubSeq(all, 1, r)) = r
      /\ Continues(SubSeq(all, 1, r), x)
      /\ Drop(all, r) \in Seq(Cells) /\ Len(Drop(all, r)) = Len(all) - r
      /\ Continues(Drop(all, r), x + r)
  BY <1>4, <1>5, SplitContinues
<1>7. SubSeq(all, 1, r) = Record(g + 1)
  BY <1>1, <1>2, <1>6, WholeRecord
<1>8. /\ got' \in Seq(Seq(Cells)) /\ Len(got') = g + 1
      /\ \A i \in DOMAIN got' : got'[i] = Record(i)
  <2>1. PICK y \in Seq(Cells) : y = SubSeq(all, 1, r)
    BY <1>6
  <2>2. got' = Append(got, y) /\ got \in Seq(Seq(Cells)) /\ y = Record(g + 1)
    BY <1>1, <1>3, <1>7, <2>1 DEF ReadTypes
  <2>3. /\ got' \in Seq(Seq(Cells)) /\ Len(got') = g + 1 /\ DOMAIN got = 1..g
        /\ DOMAIN got' = 1..(g + 1) /\ \A i \in 1..g : got'[i] = got[i]
        /\ got'[g + 1] = y
    <3>1. Extended(Seq(Cells), got', got, y)
      BY <2>2, AppendFacts
    <3> QED BY <1>1, <3>1 DEF Extended
  <2>4. \A i \in 1..(g + 1) : i \in 1..g \/ i = g + 1
    BY SMT
  <2> QED BY <2>2, <2>3, <2>4
<1>9. bio_in' \in Seq(Cells) /\ Len(bio_in') = (a + b) - r /\ Continues(bio_in', x + r)
  BY <1>1, <1>3, <1>4, <1>6
<1>10. Len(bio_in') <= BioCap
  <2>1. BioCap \in Nat
    BY SizesAssumption
  <2>2. (a + b) - r <= BioCap
    BY SMT, <1>5, <2>1
  <2> QED BY <1>9, <2>2
<1>11. Arriving(Len(got'), ssl_in', bio_in', net, p)
  <2>1. Len(got') * RecCells = x + r
    BY <1>1, <1>2, <1>8
  <2>2. Len(ssl_in') = 0 /\ x + r + 0 = x + r /\ x + r + 0 + ((a + b) - r) = x + a + b
    BY SMT
  <2>3. Continues(net, x + a + b) /\ x + a + b + Len(net) = p * RecCells
    BY <1>1, <1>2 DEF Arriving
  <2>4. Continues(ssl_in', x + r)
    BY EmptyContinues
  <2>5. Continues(bio_in', x + r + Len(ssl_in'))
    BY <1>9, <2>2
  <2>6. /\ Continues(net, x + r + Len(ssl_in') + Len(bio_in'))
        /\ x + r + Len(ssl_in') + Len(bio_in') + Len(net) = p * RecCells
    BY <1>9, <2>2, <2>3
  <2> QED BY <2>1, <2>4, <2>5, <2>6 DEF Arriving
<1>12. ssl_in' \in Seq(Cells) /\ Len(ssl_in') < RecCells
  BY SMT, SizesAssumption
<1> QED BY <1>8, <1>9, <1>10, <1>11, <1>12 DEF ReadLeaves

\* One coroutine reads the stream: the driver of an HTTP/2 session, or the request
\* that has an HTTP/1 session to itself.
OneReader == \A u, v \in Readers : u = v

\* SSL_read over `in`, with net still to come.
LEMMA ReadStep ==
  ASSUME OneReader, SendTypes, ReadInv, NEW u \in Readers, pc[u] # "flush",
         NEW in \in Seq(Cells), Len(in) <= BioCap, NEW net \in Seq(Cells),
         Arriving(Len(got), ssl_in, in, net, peer_sent), SslRead(u, in),
         net_in' = net, UNCHANGED <<wpend, peer_sent, peer_end, failed>>
  PROVE  ReadInv'
<1>1. PICK then : /\ then = IF Len(ssl_in \o in) >= RecCells THEN "return" ELSE "fill"
                  /\ FlushThen(u, then)
  BY DEF SslRead
<1>2. ReadLeaves(net, peer_sent, then)
  <2>1. ReadTypes /\ \A i \in DOMAIN got : got[i] = Record(i)
    BY DEF ReadInv
  <2>2. CASE Len(ssl_in \o in) >= RecCells
    <3>1. /\ got' = Append(got, SubSeq(ssl_in \o in, 1, RecCells))
          /\ ssl_in' = <<>> /\ bio_in' = Drop(ssl_in \o in, RecCells)
      BY <2>2 DEF SslRead
    <3>2. ReadLeaves(net, peer_sent, "return")
      BY <2>1, <2>2, <3>1, ReadWhole
    <3> QED BY <1>1, <2>2, <3>2
  <2>3. CASE ~(Len(ssl_in \o in) >= RecCells)
    <3>1. ssl_in' = ssl_in \o in /\ bio_in' = <<>> /\ got' = got
      BY <2>3 DEF SslRead
    <3>2. Len(ssl_in \o in) < RecCells
      <4>1. PICK s \in Seq(Cells) : s = ssl_in
        BY <2>1 DEF ReadTypes
      <4>2. PICK n \in Nat, r \in Nat : n = Len(s \o in) /\ r = RecCells
        BY SMT, SizesAssumption
      <4>3. ~(n >= r)
        BY <2>3, <4>1, <4>2
      <4>4. n < r
        BY SMT, <4>3
      <4> QED BY <4>1, <4>2, <4>4
    <3>3. ReadLeaves(net, peer_sent, "fill")
      BY <2>1, <3>1, <3>2, ReadPart
    <3> QED BY <1>1, <2>3, <3>3
  <2> QED BY <2>2, <2>3
<1>3. Continue(u, then) /\ UNCHANGED sq
  BY <1>1 DEF FlushThen, SendTypes
<1>4. u \in Callers
  BY CallersAssumption
<1>5. /\ pc'[u] = "fill" => then = "fill"
      /\ \A v \in Callers \ {u} : pc'[v] = pc[v] /\ after'[v] = after[v]
      /\ UNCHANGED <<io_buffer_, shared>>
  BY <1>3, <1>4 DEF Continue, SendTypes
<1>6. RingInv'
  <2>1. RingInv
    BY DEF ReadInv
  <2> QED BY <1>3, <1>4, <1>5, <2>1, RingQuiet
<1>7. FillInv'
  <2>1. ASSUME NEW v \in Callers, pc'[v] = "fill" PROVE v \in Readers /\ bio_in' = <<>>
    <3>1. v = u
      <4>1. v # u => v \in Readers
        BY <1>5, <2>1 DEF ReadInv, FillInv
      <4> QED BY <4>1 DEF OneReader
    <3> QED BY <1>2, <1>5, <2>1, <3>1 DEF ReadLeaves
  <2> QED BY <2>1 DEF FillInv
<1>8. ReadTypes'
  BY <1>2, <1>5 DEF ReadLeaves, ReadInv, ReadTypes
<1>9. Arriving(Len(got), ssl_in, bio_in, net_in, peer_sent)' /\ \A i \in DOMAIN got' : got'[i] = Record(i)
  BY <1>2 DEF ReadLeaves
<1> QED BY <1>6, <1>7, <1>8, <1>9 DEF ReadInv

\* fill_bio_from_tcp finds the BIO empty: what one read_bs returns has room in it.
LEMMA ReadFill ==
  ASSUME OneReader, SendTypes, ReadInv, NEW u \in Callers, Fill(u)
  PROVE  ReadInv'
<1>1. pc[u] = "fill" /\ u \in Readers /\ bio_in = <<>>
  BY DEF Fill, ReadInv, FillInv
<1>2. PICK l \in Nat, rm \in Nat, cap \in Nat :
        l = Len(net_in) /\ rm = RecvMax /\ cap = BioCap /\ rm <= cap
  BY SMT, SizesAssumption DEF ReadInv, ReadTypes
<1>3. PICK m \in 1..Min2(RecvMax, Len(net_in)) :
        /\ net_in' = Drop(net_in, m)
        /\ IF Len(bio_in) + m <= BioCap
           THEN SslRead(u, bio_in \o SubSeq(net_in, 1, m)) /\ UNCHANGED failed
           ELSE /\ pc' = [pc EXCEPT ![u] = "error"]
                /\ failed' = "loss"
                /\ UNCHANGED <<after, bio_out, bio_in, ssl_in, io_buffer_, sq, got, shared>>
  BY DEF Fill
<1>4. m \in Nat /\ m <= l /\ m <= cap
  <2>1. m \in 1..Min2(rm, l)
    BY <1>2, <1>3
  <2> QED BY SMT, <1>2, <2>1 DEF Min2
<1>5. PICK x \in Nat, a \in Nat : x = Len(got) * RecCells /\ a = Len(ssl_in)
  <2>1. Len(got) \in Nat /\ Len(ssl_in) \in Nat /\ RecCells \in Nat
    BY SMT, SizesAssumption DEF ReadInv, ReadTypes
  <2>2. Len(got) * RecCells \in Nat
    BY SMT, <2>1
  <2> QED BY <2>1, <2>2
<1>6. /\ Continues(ssl_in, x) /\ Continues(net_in, x + a)
      /\ x + a + l = peer_sent * RecCells
  <2>1. Len(bio_in) = 0 /\ x + a + 0 = x + a
    BY SMT, <1>1
  <2>2. /\ Continues(ssl_in, x) /\ Continues(net_in, x + a + Len(bio_in))
        /\ x + a + Len(bio_in) + l = peer_sent * RecCells
    BY <1>2, <1>5 DEF ReadInv, Arriving
  <2> QED BY <2>1, <2>2
<1>7. PICK s \in Seq(Cells) : s = net_in
  BY DEF ReadInv, ReadTypes
<1>8. m \in 0..Len(s) /\ x + a \in Nat /\ Continues(s, x + a)
  <2>1. m \in 0..l /\ x + a \in Nat
    BY SMT, <1>4
  <2> QED BY <1>2, <1>6, <1>7, <2>1
<1>9. PICK in, net : in = SubSeq(s, 1, m) /\ net = Drop(s, m)
  OBVIOUS
<1>10. /\ in \in Seq(Cells) /\ Len(in) = m /\ Continues(in, x + a)
       /\ net \in Seq(Cells) /\ Len(net) = l - m /\ Continues(net, x + a + m)
  BY <1>2, <1>7, <1>8, <1>9, SplitContinues
<1>11. Arriving(Len(got), ssl_in, in, net, peer_sent)
  <2>1. x + a + m + (l - m) = x + a + l
    BY SMT, <1>4
  <2>2. x + a + m + (l - m) = peer_sent * RecCells
    BY <1>6, <2>1
  <2> QED BY <1>5, <1>6, <1>10, <2>2 DEF Arriving
<1>12. SslRead(u, in) /\ UNCHANGED failed
  <2>1. Len(bio_in) + m <= BioCap
    <3>1. Len(bio_in) = 0 /\ 0 + m = m
      BY SMT, <1>1, <1>4
    <3> QED BY <1>2, <1>4, <3>1
  <2>2. SslRead(u, bio_in \o SubSeq(net_in, 1, m)) /\ UNCHANGED failed
    BY <1>3, <2>1
  <2>3. bio_in \o in = in
    BY SMT, <1>1, <1>10
  <2> QED BY <1>7, <1>9, <2>2, <2>3
<1>13. /\ pc[u] # "flush" /\ Len(in) <= BioCap /\ net_in' = net
       /\ UNCHANGED <<wpend, peer_sent, peer_end>>
  BY <1>1, <1>2, <1>3, <1>4, <1>7, <1>9, <1>10 DEF Fill
<1> QED BY <1>1, <1>10, <1>11, <1>12, <1>13, ReadStep

\* A step that receives nothing.
LEMMA ReadKeeps ==
  ASSUME ReadInv, RingInv', \A v \in Callers : pc'[v] = "fill" => pc[v] = "fill",
         shared' \in BOOLEAN, peer_end' \in PeerEnds,
         failed' \in {"none", "write", "read", "retry"},
         UNCHANGED <<ssl_in, bio_in, net_in, got, peer_sent>>
  PROVE  ReadInv'
<1>1. ReadTypes'
  BY DEF ReadInv, ReadTypes
<1>2. FillInv'
  BY DEF ReadInv, FillInv
<1>3. Arriving(Len(got), ssl_in, bio_in, net_in, peer_sent)'
  BY DEF ReadInv
<1>4. \A i \in DOMAIN got' : got'[i] = Record(i)
  BY DEF ReadInv
<1> QED BY <1>1, <1>2, <1>3, <1>4 DEF ReadInv

\* The peer's next record lies behind everything it has sent.
LEMMA ReadPeerSends ==
  ASSUME SendTypes, ReadInv, PeerSends
  PROVE  ReadInv'
<1>1. /\ peer_sent < MaxPeer /\ peer_sent' = peer_sent + 1
      /\ net_in' = net_in \o Record(peer_sent + 1)
      /\ UNCHANGED <<pc, after, wpend, io_buffer_, sq, ssl_in, bio_in, got>>
      /\ UNCHANGED <<peer_end, failed, shared>>
  BY DEF PeerSends
<1>2. PICK p \in Nat, r \in Nat : p = peer_sent /\ r = RecCells
  BY SizesAssumption DEF ReadInv, ReadTypes
<1>3. p < MaxWrites + MaxPeer /\ p + 1 \in Nat /\ p + 1 <= MaxPeer
  <2>1. p < MaxPeer
    BY <1>1, <1>2
  <2> QED BY SMT, <2>1, SizesAssumption
<1>4. p * r \in Nat /\ (p + 1) * r = p * r + r
  BY SMT
<1>5. PICK s \in Seq(Cells), b \in Nat :
        s = net_in /\ b = Len(got) * RecCells + Len(ssl_in) + Len(bio_in)
  <2>1. Len(got) \in Nat /\ Len(ssl_in) \in Nat /\ Len(bio_in) \in Nat /\ RecCells \in Nat
    BY SMT, SizesAssumption DEF ReadInv, ReadTypes
  <2>2. Len(got) * RecCells + Len(ssl_in) + Len(bio_in) \in Nat
    BY SMT, <2>1
  <2> QED BY <2>2 DEF ReadInv, ReadTypes
<1>6. Continues(s, b) /\ b + Len(s) = p * r
  BY <1>2, <1>5 DEF ReadInv, Arriving
<1>7. PICK t \in Seq(Cells) : t = Record(p + 1) /\ Len(t) = r /\ Continues(t, p * r)
  BY <1>2, <1>3, RecordContinues
<1>8. s \o t \in Seq(Cells) /\ Len(s \o t) = Len(s) + Len(t) /\ Continues(s \o t, b)
  BY <1>6, <1>7, JoinContinues
<1>9. net_in' \in Seq(Cells) /\ Len(net_in') = Len(s) + r /\ Continues(net_in', b)
  BY <1>1, <1>2, <1>5, <1>7, <1>8
<1>10. b + (Len(s) + r) = (p + 1) * r
  <2>1. PICK n \in Nat, e \in Nat : n = Len(s) /\ e = p * r
    BY SMT, <1>4
  <2>2. b + n = e /\ (p + 1) * r = e + r
    BY <1>4, <1>6, <2>1
  <2>3. b + (n + r) = e + r
    BY SMT, <2>2
  <2> QED BY <2>1, <2>2, <2>3
<1>11. b + Len(net_in') = peer_sent' * RecCells
  BY <1>1, <1>2, <1>9, <1>10
<1>12. Arriving(Len(got), ssl_in, bio_in, net_in', peer_sent')
  BY <1>5, <1>9, <1>11 DEF ReadInv, Arriving
<1>13. ReadTypes'
  BY <1>1, <1>2, <1>3, <1>9 DEF ReadInv, ReadTypes
<1>14. RingInv' /\ FillInv'
  BY <1>1 DEF ReadInv, RingInv, FillInv
<1> QED BY <1>1, <1>12, <1>13, <1>14 DEF ReadInv

\* Every step of a stream with one reader keeps the invariant.
LEMMA ReadNext ==
  ASSUME OneReader, SendTypes, ReadInv, [Next]_vars
  PROVE  ReadInv'
<1>1. RingInv /\ shared \in BOOLEAN /\ peer_end \in PeerEnds
      /\ failed \in {"none", "write", "read", "retry"}
  BY DEF ReadInv, ReadTypes
<1>2. ASSUME NEW u \in Callers, CallWrite(u) PROVE ReadInv'
  <2>1. /\ RingInv' /\ (shared' = shared \/ shared' = (shared \/ sq # <<>>))
        /\ \A v \in Callers : pc'[v] = "fill" => pc[v] = "fill"
    BY <1>1, <1>2, RingCallWrite
  <2>2. /\ failed' = failed \/ failed' = "retry"
        /\ UNCHANGED <<ssl_in, bio_in, net_in, got, peer_sent, peer_end>>
    BY <1>2 DEF CallWrite
  <2>3. shared' \in BOOLEAN /\ failed' \in {"none", "write", "read", "retry"}
    BY <1>1, <2>1, <2>2
  <2> QED BY <1>1, <2>1, <2>2, <2>3, ReadKeeps
<1>3. ASSUME NEW u \in Callers, CallRead(u) PROVE ReadInv'
  <2>1. /\ u \in Readers /\ pc[u] # "flush" /\ SslRead(u, bio_in)
        /\ net_in' = net_in /\ UNCHANGED <<wpend, peer_sent, peer_end, failed>>
    BY <1>3 DEF CallRead
  <2>2. /\ bio_in \in Seq(Cells) /\ Len(bio_in) <= BioCap /\ net_in \in Seq(Cells)
        /\ Arriving(Len(got), ssl_in, bio_in, net_in, peer_sent)
    BY DEF ReadInv, ReadTypes
  <2> QED BY <2>1, <2>2, ReadStep
<1>4. ASSUME NEW u \in Callers, FillEnd(u) PROVE ReadInv'
  <2>1. /\ pc[u] = "fill" /\ pc' = [pc EXCEPT ![u] = "error"] /\ failed' = "read"
        /\ UNCHANGED <<after, wpend, io_buffer_, sq>>
        /\ UNCHANGED <<ssl_in, bio_in, net_in, got, peer_sent, peer_end, shared>>
    BY <1>4 DEF FillEnd
  <2>2. pc'[u] = "error" /\ \A v \in Callers \ {u} : pc'[v] = pc[v]
    BY <2>1 DEF SendTypes
  <2>3. pc[u] # "flush" /\ \A v \in Callers \ {u} : pc'[v] = pc[v] /\ after'[v] = after[v]
    BY <2>1, <2>2
  <2>4. RingInv'
    BY <1>1, <2>1, <2>3, RingQuiet
  <2>5. \A v \in Callers : pc'[v] = "fill" => pc[v] = "fill"
    BY <2>2
  <2> QED BY <1>1, <2>1, <2>4, <2>5, ReadKeeps
<1>10. ASSUME NEW u \in Callers, ReadClosed(u) PROVE ReadInv'
  <2>1. /\ pc[u] = "fill" /\ FlushThen(u, "return")
        /\ UNCHANGED <<wpend, ssl_in, bio_in, net_in, got, peer_sent, peer_end, failed>>
    BY <1>10 DEF ReadClosed
  <2>2. Continue(u, "return") /\ UNCHANGED sq
    BY <2>1 DEF FlushThen, SendTypes
  <2>3. /\ pc'[u] = "idle" /\ UNCHANGED <<io_buffer_, shared>>
        /\ \A v \in Callers \ {u} : pc'[v] = pc[v] /\ after'[v] = after[v]
    BY <2>2 DEF Continue, SendTypes
  <2>4. pc[u] # "flush" /\ \A v \in Callers : pc'[v] = "fill" => pc[v] = "fill"
    BY <2>1, <2>3
  <2>5. RingInv'
    BY <1>1, <2>1, <2>2, <2>3, <2>4, RingQuiet
  <2> QED BY <1>1, <2>1, <2>3, <2>4, <2>5, ReadKeeps
<1>5. ASSUME Written PROVE ReadInv'
  <2>1. /\ RingInv' /\ shared' \in BOOLEAN
        /\ \A v \in Callers : pc'[v] = "fill" => pc[v] = "fill"
    BY <1>1, <1>5, RingWritten
  <2>2. UNCHANGED <<ssl_in, bio_in, net_in, got, peer_sent, peer_end, failed>>
    BY <1>5 DEF Written
  <2> QED BY <1>1, <2>1, <2>2, ReadKeeps
<1>6. ASSUME WriteFails PROVE ReadInv'
  <2>1. RingInv' /\ \A v \in Callers : pc'[v] = "fill" => pc[v] = "fill"
    BY <1>1, <1>6, RingWriteFails
  <2>2. /\ failed' = "write"
        /\ UNCHANGED <<ssl_in, bio_in, net_in, got, peer_sent, peer_end, shared>>
    BY <1>6 DEF WriteFails
  <2> QED BY <1>1, <2>1, <2>2, ReadKeeps
<1>7. ASSUME PeerCloses \/ UNCHANGED vars PROVE ReadInv'
  <2>1. /\ UNCHANGED <<pc, after, wpend, io_buffer_, sq>>
        /\ UNCHANGED <<ssl_in, bio_in, net_in, got, peer_sent, failed, shared>>
        /\ peer_end' = peer_end \/ peer_end' \in {"notified", "cut"}
    BY <1>7 DEF PeerCloses, vars
  <2>2. RingInv'
    BY <1>1, <2>1 DEF RingInv
  <2>3. peer_end' \in PeerEnds
    BY <1>1, <2>1 DEF PeerEnds
  <2> QED BY <1>1, <2>1, <2>2, <2>3, ReadKeeps
<1>8. CASE \E u \in Callers : \/ CallWrite(u) \/ CallRead(u)
                             \/ Fill(u) \/ ReadClosed(u) \/ FillEnd(u)
  BY <1>2, <1>3, <1>4, <1>8, <1>10, ReadFill
<1>9. CASE Kernel \/ PeerSends \/ PeerCloses \/ UNCHANGED vars
  BY <1>5, <1>6, <1>7, <1>9, ReadPeerSends DEF Kernel
<1> QED BY <1>8, <1>9 DEF Next

\* A new stream satisfies the invariant.
LEMMA ReadInit == Init => ReadInv
<1> SUFFICES ASSUME Init PROVE ReadInv
  OBVIOUS
<1>1. /\ bio_in = <<>> /\ ssl_in = <<>> /\ net_in = <<>> /\ got = <<>> /\ sq = <<>>
      /\ io_buffer_ = <<>> /\ peer_sent = 0 /\ peer_end = "open" /\ shared = FALSE
      /\ failed = "none" /\ \A u \in Callers : pc[u] = "idle"
  BY DEF Init
<1>2. ReadTypes
  <2>1. /\ ssl_in \in Seq(Cells) /\ bio_in \in Seq(Cells) /\ net_in \in Seq(Cells)
        /\ Len(ssl_in) < RecCells /\ Len(bio_in) <= BioCap
    BY SMT, <1>1, SizesAssumption
  <2>2. got \in Seq(Seq(Cells))
    BY <1>1, SequenceOf
  <2>3. peer_sent \in Nat /\ peer_sent <= MaxPeer
    BY SMT, <1>1, SizesAssumption
  <2> QED BY <1>1, <2>1, <2>2, <2>3 DEF ReadTypes, PeerEnds
<1>3. DOMAIN sq = {} /\ DOMAIN got = {}
  BY SMT, <1>1
<1>4. RingInv
  <2>1. Len(io_buffer_) <= BioCap
    BY SMT, <1>1, SizesAssumption
  <2> QED BY <1>3, <2>1 DEF RingInv, DistinctBy, OneAgain
<1>5. Arriving(Len(got), ssl_in, bio_in, net_in, peer_sent)
  <2>1. /\ Len(got) = 0 /\ Len(ssl_in) = 0 /\ Len(bio_in) = 0 /\ Len(net_in) = 0
        /\ 0 * RecCells = 0 /\ 0 + 0 = 0
    BY SMT, <1>1, SizesAssumption
  <2> QED BY <1>1, <2>1, EmptyContinues DEF Arriving
<1>6. FillInv
  BY <1>1 DEF FillInv
<1> QED BY <1>2, <1>3, <1>4, <1>5, <1>6 DEF ReadInv

\* The invariant holds in every behaviour of a stream with one reader.
LEMMA ReadAlways == ASSUME OneReader PROVE Spec => []ReadInv
<1>1. SendInv /\ ReadInv /\ [Next]_vars => ReadInv'
  BY ReadNext DEF SendInv
<1> QED BY <1>1, ReadInit, SendAlways, PTL DEF Spec

-----------------------------------------------------------------------------
(* The theorems.                                                            *)

\* Whatever the sizes of the records, of the BIO and of the socket's partial
\* writes, TlsStream gives the socket the records of SSL in order, byte for byte,
\* as long as no flush begins while another write of the stream is in the ring.
THEOREM WireStaysInOrder == Spec => []WireInOrderAlone
<1>1. SendInv => WireInOrderAlone
  <2> SUFFICES ASSUME SendInv, ~shared PROVE WireInOrder
    BY DEF WireInOrderAlone
  <2>1. Continues(wire, 0) /\ Len(wire) <= enc * RecCells
    BY DEF SendInv, FlightInv
  <2>2. PICK n \in Nat : n = Len(wire)
    BY SMT DEF SendInv, SendTypes
  <2>3. wire \in [1..n -> Cells]
    BY SMT, <2>2 DEF SendInv, SendTypes
  <2>4. \A i \in 1..n : wire[i] = Stream(n)[i]
    <3> TAKE i \in 1..n
    <3>1. wire[i] = Cell(0 + i) /\ 0 + i = i
      BY SMT, <2>1, <2>2 DEF Continues
    <3>2. Stream(n)[i] = Cell(i)
      BY DEF Stream, Cell
    <3> QED BY <3>1, <3>2
  <2>5. wire = Stream(n)
    BY <2>3, <2>4 DEF Stream
  <2> QED BY <2>1, <2>2, <2>5 DEF WireInOrder
<1> QED BY <1>1, SendAlways, PTL

\* When no call is flushing, none has failed and no two flushes met, every record
\* that SSL_write made is on the wire: the rounds of run_ssl_op leave nothing
\* behind in SSL, the BIO or io_buffer_.
THEOREM NothingStaysBehind == Spec => []ReturnedIsSent
<1>1. SendInv => ReturnedIsSent
  <2> SUFFICES ASSUME SendInv, failed = "none", ~shared, \A u \in Callers : pc[u] # "flush"
               PROVE  Len(wire) = enc * RecCells
    BY DEF ReturnedIsSent
  <2>1. CASE sq = <<>>
    BY <2>1 DEF SendInv, FlightInv
  <2>2. CASE sq # <<>>
    <3>1. sq[1] \in Write
      BY SMT, <2>2 DEF SendInv, SendTypes
    <3>2. pc[sq[1].by] = "flush"
      BY <2>2 DEF SendInv, FlightInv, InFlight
    <3> QED BY <3>1, <3>2 DEF Write
  <2> QED BY <2>1, <2>2
<1> QED BY <1>1, SendAlways, PTL

\* However the socket cuts up what the peer sent, the one reader of a stream gets
\* the peer's records whole and in order, every buffer stays within its capacity,
\* and fill_bio_from_tcp never takes its branch "CRITICAL DATA LOSS".
THEOREM ReadsStayInOrder == ASSUME OneReader PROVE Spec => []ReadInOrder
<1>1. SendInv /\ ReadInv => ReadInOrder
  <2> SUFFICES ASSUME SendTypes, ReadInv PROVE ReadInOrder
    BY DEF SendInv
  <2>1. ReadTypes /\ RingInv /\ Arriving(Len(got), ssl_in, bio_in, net_in, peer_sent)
    BY DEF ReadInv
  <2>2. Len(got) <= peer_sent
    <3>1. PICK g \in Nat, p \in Nat, r \in Nat \ {0}, k \in Nat :
            /\ g = Len(got) /\ p = peer_sent /\ r = RecCells
            /\ k = Len(ssl_in) + Len(bio_in) + Len(net_in)
      <4>1. /\ Len(got) \in Nat /\ Len(ssl_in) \in Nat /\ Len(bio_in) \in Nat
            /\ Len(net_in) \in Nat
        BY SMT, <2>1 DEF ReadTypes
      <4>2. Len(ssl_in) + Len(bio_in) + Len(net_in) \in Nat
        BY SMT, <4>1
      <4> QED BY <2>1, <4>1, <4>2, SizesAssumption DEF ReadTypes
    <3>2. g * r + k = p * r
      <4>1. PICK a \in Nat, b \in Nat, c \in Nat, x \in Nat :
              a = Len(ssl_in) /\ b = Len(bio_in) /\ c = Len(net_in) /\ x = g * r
        BY SMT, <2>1 DEF ReadTypes
      <4>2. x + a + b + c = p * r /\ k = a + b + c
        BY <2>1, <3>1, <4>1 DEF Arriving
      <4>3. x + k = x + a + b + c
        BY SMT, <4>2
      <4> QED BY <4>1, <4>2, <4>3
    <3>3. g <= p
      <4>1. SUFFICES ASSUME p < g PROVE FALSE
        BY SMT
      <4>2. PICK d \in Nat : g = p + 1 + d
        <5>1. g - (p + 1) \in Nat /\ g = p + 1 + (g - (p + 1))
          BY SMT, <4>1
        <5> QED BY <5>1
      <4>3. g * r = p * r + r + d * r /\ d * r \in Nat /\ p * r \in Nat /\ g * r \in Nat
        BY SMT, <4>2
      <4> QED BY SMT, <3>2, <4>3
    <3> QED BY <3>1, <3>3
  <2>3. sq \in Seq([by : Callers, n : 1..BioCap, off : 0..(BioCap - 1)])
    <3>1. sq \in Seq(Write)
      BY DEF SendTypes
    <3>2. ASSUME NEW i \in DOMAIN sq
          PROVE  sq[i] \in [by : Callers, n : 1..BioCap, off : 0..(BioCap - 1)]
      <4>1. sq[i] \in Write
        BY SMT, <3>1
      <4>2. PICK w \in Write : w = sq[i]
        BY <4>1
      <4>3. 1 <= w.n /\ w.off < w.n
        BY <2>1, <4>2 DEF RingInv, OwnWrite
      <4>4. w.n <= Len(io_buffer_) /\ Len(io_buffer_) <= BioCap
        BY <2>1, <4>2 DEF SendTypes, RingInv
      <4>5. PICK n \in Nat, off \in Nat, c \in Nat, l \in Nat :
              n = w.n /\ off = w.off /\ c = BioCap /\ l = Len(io_buffer_)
        <5>1. w.n \in Nat /\ w.off \in Nat /\ BioCap \in Nat
          BY SizesAssumption DEF Write
        <5>2. PICK buf \in Seq(Cells) : buf = io_buffer_
          BY DEF SendTypes
        <5>3. Len(buf) \in Nat
          BY SMT
        <5> QED BY <5>1, <5>2, <5>3
      <4>6. n \in 1..c /\ off \in 0..(c - 1)
        <5>1. 1 <= n /\ off < n /\ n <= l /\ l <= c
          BY <4>3, <4>4, <4>5
        <5> QED BY SMT, <5>1
      <4>7. w.n \in 1..BioCap /\ w.off \in 0..(BioCap - 1)
        BY <4>5, <4>6
      <4> QED BY <4>2, <4>7 DEF Write
    <3> QED BY <3>1, <3>2, SequenceOf
  <2>4. bio_out \in Seq(Cells) /\ Len(bio_out) <= BioCap
    BY SMT, SizesAssumption DEF SendTypes
  <2>5. enc \in 0..MaxWrites /\ peer_sent \in 0..MaxPeer
    BY SMT, <2>1, SizesAssumption DEF SendTypes, ReadTypes
  <2>6. TypeOK
    BY <2>1, <2>3, <2>4, <2>5 DEF TypeOK, SendTypes, ReadTypes, RingInv
  <2> QED BY <2>1, <2>2, <2>6 DEF ReadInOrder, ReadInv, ReadTypes
<1> QED BY <1>1, SendAlways, ReadAlways, PTL
=============================================================================
