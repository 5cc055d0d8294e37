----------------------------- MODULE TlsStream -----------------------------
(***************************************************************************)
(* TlsStream of ppnt-io: run_ssl_op drives one SSL operation over a memory *)
(* BIO pair, flush_bio_to_tcp moves what SSL produced to the socket        *)
(* through io_buffer_, fill_bio_from_tcp feeds what the socket received.   *)
(*                                                                         *)
(* A record is RecCells cells (pieces of its bytes).  A write handed to    *)
(* the ring refers to io_buffer_: the kernel takes the bytes that are      *)
(* there when it executes it.  An action is a caller's coroutine from one  *)
(* co_await that suspends to the next.  External: SSL and its BIO pair,    *)
(* the kernel, the peer.  A caller gives the stream up after an error and  *)
(* gives no timeout.  The records of the peer are well formed: SSL_read    *)
(* then puts nothing into the BIO itself (an alert would be its output).   *)
(***************************************************************************)
EXTENDS Naturals, Sequences

CONSTANTS
  Callers,     \* coroutines that call write
  Readers,     \* those of them that also call read
  RecCells,    \* cells of a record
  BioCap,      \* cells each half of the BIO pair holds (16384 bytes)
  RecvMax,     \* cells one read_bs returns at most (4096 bytes)
  MaxWrites,   \* bound: calls of write
  MaxPeer      \* bound: records of the peer

ASSUME CallersAssumption == Readers \subseteq Callers
ASSUME SizesAssumption ==
  /\ RecCells \in Nat \ {0} /\ BioCap \in Nat \ {0}
  /\ RecvMax \in 1..BioCap
  /\ MaxWrites \in Nat /\ MaxPeer \in Nat

VARIABLES
  pc,          \* pc[u]: where the coroutine of u is suspended
  after,       \* after[u]: what run_ssl_op does behind its flush
  wpend,       \* SSL: the part of a record its BIO had no room for
  bio_out,     \* the network side of the BIO pair, to be sent
  bio_in,      \* the network side of the BIO pair, received
  ssl_in,      \* SSL: the part of a record received so far
  io_buffer_,  \* TlsStream::io_buffer_
  sq,          \* writes handed to the ring and not yet executed
  wire,        \* history: what the socket was given
  enc,         \* records SSL_write has made
  net_in,      \* sent by the peer, not yet received
  peer_sent,   \* records the peer has sent
  got,         \* history: the records read has returned
  peer_end,    \* the connection is open, closed by the peer with a close_notify, or cut
  failed,      \* the error that ended the use of the stream, or "none"
  shared       \* history: a flush began while another write was in the ring

vars == <<pc, after, wpend, bio_out, bio_in, ssl_in, io_buffer_, sq, wire, enc,
          net_in, peer_sent, got, peer_end, failed, shared>>

PeerEnds == {"open", "notified", "cut"}

Cells == (1..(MaxWrites + MaxPeer)) \X (1..RecCells)

\* Record n as cells.
Record(n) == [i \in 1..RecCells |-> <<n, i>>]

\* The first n cells of the stream of records.
Stream(n) == [i \in 1..n |-> <<((i - 1) \div RecCells) + 1, ((i - 1) % RecCells) + 1>>]

Drop(s, n) == SubSeq(s, n + 1, Len(s))
Min2(a, b) == IF a < b THEN a ELSE b

\* Buffers hold cells within their capacities and control states are known.
TypeOK ==
  /\ pc \in [Callers -> {"idle", "flush", "fill", "error"}]
  /\ after \in [Callers -> {"return", "again", "fill"}]
  /\ wpend \in Seq(Cells)
  /\ bio_out \in Seq(Cells) /\ Len(bio_out) <= BioCap
  /\ bio_in \in Seq(Cells) /\ Len(bio_in) <= BioCap
  /\ ssl_in \in Seq(Cells) /\ Len(ssl_in) < RecCells
  /\ io_buffer_ \in Seq(Cells) /\ Len(io_buffer_) <= BioCap
  /\ sq \in Seq([by : Callers, n : 1..BioCap, off : 0..(BioCap - 1)])
  /\ wire \in Seq(Cells)
  /\ enc \in 0..MaxWrites /\ peer_sent \in 0..MaxPeer
  /\ net_in \in Seq(Cells) /\ got \in Seq(Seq(Cells))
  /\ peer_end \in PeerEnds
  /\ shared \in BOOLEAN
  /\ failed \in {"none", "write", "read", "retry", "loss"}

Init ==
  /\ pc = [u \in Callers |-> "idle"]
  /\ after = [u \in Callers |-> "return"]
  /\ wpend = <<>> /\ bio_out = <<>> /\ bio_in = <<>> /\ ssl_in = <<>>
  /\ io_buffer_ = <<>> /\ sq = <<>> /\ wire = <<>>
  /\ enc = 0 /\ net_in = <<>> /\ peer_sent = 0 /\ got = <<>>
  /\ peer_end = "open" /\ failed = "none"
  /\ shared = FALSE

-----------------------------------------------------------------------------
(* flush_bio_to_tcp and run_ssl_op.                                         *)

\* Bug: the bytes are copied behind the ones io_buffer_ still holds.
StartFlushAppend(u, queue, out, then) ==
  /\ io_buffer_' = SubSeq(io_buffer_ \o out, 1, Min2(BioCap, Len(io_buffer_ \o out)))
  /\ bio_out' = <<>>
  /\ sq' = Append(queue, [by |-> u, n |-> Len(out), off |-> 0])
  /\ shared' = (shared \/ queue # <<>>)
  /\ pc' = [pc EXCEPT ![u] = "flush"]
  /\ after' = [after EXCEPT ![u] = then]

\* One round of the flush: BIO_read overwrites the front of io_buffer_, write_all
\* hands it to the ring.
StartFlush(u, queue, out, then) ==
  /\ io_buffer_' = out \o Drop(io_buffer_, Len(out))
  /\ bio_out' = <<>>
  /\ sq' = Append(queue, [by |-> u, n |-> Len(out), off |-> 0])
  /\ shared' = (shared \/ queue # <<>>)
  /\ pc' = [pc EXCEPT ![u] = "flush"]
  /\ after' = [after EXCEPT ![u] = then]

\* Bug: a write that SSL could not finish counts as done.
SslWriteOnce(u, queue, record, out) ==
  LET room == Min2(Len(record), BioCap - Len(out))
  IN  /\ wpend' = Drop(record, room)
      /\ StartFlush(u, queue, out \o SubSeq(record, 1, room), "return")

\* SSL_write moves what fits into the BIO; the rest waits for another round
\* (SSL_ERROR_WANT_WRITE).
SslWrite(u, queue, record, out) ==
  LET room == Min2(Len(record), BioCap - Len(out))
  IN  /\ wpend' = Drop(record, room)
      /\ StartFlush(u, queue, out \o SubSeq(record, 1, room),
                    IF room = Len(record) THEN "return" ELSE "again")

\* Nothing to flush: the operation returns or waits for the socket.
Continue(u, then) ==
  /\ pc' = [pc EXCEPT ![u] = IF then = "fill" THEN "fill" ELSE "idle"]
  /\ after' = [after EXCEPT ![u] = then]
  /\ UNCHANGED <<io_buffer_, bio_out, shared>>

\* The flush behind an operation that put nothing into the BIO itself.
FlushThen(u, then) ==
  IF bio_out = <<>> THEN Continue(u, then) /\ UNCHANGED sq
                    ELSE StartFlush(u, sq, bio_out, then)

\* Bug: the cells behind the record are thrown away.
SslReadDiscard(u, in) ==
  LET all == ssl_in \o in
  IN  /\ IF Len(all) >= RecCells
         THEN /\ got' = Append(got, SubSeq(all, 1, RecCells))
              /\ ssl_in' = <<>> /\ bio_in' = <<>>
         ELSE ssl_in' = all /\ bio_in' = <<>> /\ UNCHANGED got
      /\ FlushThen(u, IF Len(all) >= RecCells THEN "return" ELSE "fill")

\* Bug: what arrives later is put in front.
SslReadSwapped(u, in) ==
  LET all == in \o ssl_in
  IN  /\ IF Len(all) >= RecCells
         THEN /\ got' = Append(got, SubSeq(all, 1, RecCells))
              /\ ssl_in' = <<>> /\ bio_in' = Drop(all, RecCells)
         ELSE ssl_in' = all /\ bio_in' = <<>> /\ UNCHANGED got
      /\ FlushThen(u, IF Len(all) >= RecCells THEN "return" ELSE "fill")

\* SSL_read with `in` in the BIO: a whole record is returned, less is kept inside
\* SSL (SSL_ERROR_WANT_READ).  Either way the BIO is flushed.
SslRead(u, in) ==
  LET all == ssl_in \o in
  IN  /\ IF Len(all) >= RecCells
         THEN /\ got' = Append(got, SubSeq(all, 1, RecCells))
              /\ ssl_in' = <<>> /\ bio_in' = Drop(all, RecCells)
         ELSE ssl_in' = all /\ bio_in' = <<>> /\ UNCHANGED got
      /\ FlushThen(u, IF Len(all) >= RecCells THEN "return" ELSE "fill")

-----------------------------------------------------------------------------
(* write and read.                                                          *)

\* SSL refuses another caller's bytes while a write is unfinished.
CallWrite(u) ==
  /\ pc[u] = "idle" /\ failed = "none" /\ enc < MaxWrites
  /\ IF wpend = <<>>
     THEN /\ enc' = enc + 1
          /\ SslWrite(u, sq, Record(enc + 1), bio_out)
          /\ UNCHANGED failed
     ELSE /\ pc' = [pc EXCEPT ![u] = "error"]
          /\ failed' = "retry"
          /\ UNCHANGED <<after, wpend, bio_out, io_buffer_, sq, enc, shared>>
  /\ UNCHANGED <<bio_in, ssl_in, wire, net_in, peer_sent, got, peer_end>>

CallRead(u) ==
  /\ u \in Readers
  /\ pc[u] = "idle" /\ failed = "none"
  /\ SslRead(u, bio_in)
  /\ UNCHANGED <<wpend, wire, enc, net_in, peer_sent, peer_end, failed>>

\* fill_bio_from_tcp: what was received goes to the BIO, and SSL_read is tried
\* again; or the BIO has no room ("CRITICAL DATA LOSS").
Fill(u) ==
  /\ pc[u] = "fill"
  /\ \E m \in 1..Min2(RecvMax, Len(net_in)) :
       /\ net_in' = Drop(net_in, m)
       /\ IF Len(bio_in) + m <= BioCap
          THEN SslRead(u, bio_in \o SubSeq(net_in, 1, m)) /\ UNCHANGED failed
          ELSE /\ pc' = [pc EXCEPT ![u] = "error"]
               /\ failed' = "loss"
               /\ UNCHANGED <<after, bio_out, bio_in, ssl_in, io_buffer_, sq, got, shared>>
  /\ UNCHANGED <<wpend, wire, enc, peer_sent, peer_end>>

\* SSL_read meets the close_notify behind the last record (SSL_ERROR_ZERO_RETURN):
\* read returns 0.
ReadClosed(u) ==
  /\ pc[u] = "fill"
  /\ net_in = <<>> /\ peer_end = "notified"
  /\ FlushThen(u, "return")
  /\ UNCHANGED <<wpend, bio_in, ssl_in, wire, enc, net_in, peer_sent, got, peer_end,
                 failed>>

\* The socket is at its end, or the read fails.
FillEnd(u) ==
  /\ pc[u] = "fill"
  /\ net_in = <<>> /\ peer_end # "open"
  /\ pc' = [pc EXCEPT ![u] = "error"]
  /\ failed' = "read"
  /\ UNCHANGED <<after, wpend, bio_out, bio_in, ssl_in, io_buffer_, sq, wire, enc,
                 net_in, peer_sent, got, peer_end, shared>>

-----------------------------------------------------------------------------
(* The ring executes the oldest write and resumes its caller.               *)

\* Bug: write_all goes on when everything is written.
WriteAllNever(w, m) == w.off + m > w.n

\* The loop of write_all ends.
WriteAllDone(w, m) == w.off + m = w.n

Written ==
  /\ sq # <<>>
  /\ LET w == Head(sq)
     IN  \E m \in 1..(w.n - w.off) :
           /\ wire' = wire \o SubSeq(io_buffer_, w.off + 1, w.off + m)
           /\ IF ~WriteAllDone(w, m)
              THEN /\ sq' = Append(Tail(sq), [w EXCEPT !.off = @ + m])
                   /\ UNCHANGED <<pc, after, wpend, bio_out, io_buffer_, shared>>
              ELSE IF bio_out # <<>>
              THEN StartFlush(w.by, Tail(sq), bio_out, after[w.by]) /\ UNCHANGED wpend
              ELSE IF after[w.by] = "again"
              THEN SslWrite(w.by, Tail(sq), wpend, <<>>)
              ELSE Continue(w.by, after[w.by]) /\ sq' = Tail(sq) /\ UNCHANGED wpend
  /\ UNCHANGED <<bio_in, ssl_in, enc, net_in, peer_sent, got, peer_end, failed>>

WriteFails ==
  /\ sq # <<>>
  /\ peer_end # "open"
  /\ sq' = Tail(sq)
  /\ pc' = [pc EXCEPT ![Head(sq).by] = "error"]
  /\ failed' = "write"
  /\ UNCHANGED <<after, wpend, bio_out, bio_in, ssl_in, io_buffer_, wire, enc,
                 net_in, peer_sent, got, peer_end, shared>>

PeerSends ==
  /\ peer_end = "open" /\ peer_sent < MaxPeer
  /\ peer_sent' = peer_sent + 1
  /\ net_in' = net_in \o Record(peer_sent + 1)
  /\ UNCHANGED <<pc, after, wpend, bio_out, bio_in, ssl_in, io_buffer_, sq, wire,
                 enc, got, peer_end, failed, shared>>

PeerCloses ==
  /\ peer_end = "open"
  /\ peer_end' \in {"notified", "cut"}
  /\ UNCHANGED <<pc, after, wpend, bio_out, bio_in, ssl_in, io_buffer_, sq, wire,
                 enc, net_in, peer_sent, got, failed, shared>>

Kernel == Written \/ WriteFails

Next ==
  \/ \E u \in Callers : \/ CallWrite(u) \/ CallRead(u)
                        \/ Fill(u) \/ ReadClosed(u) \/ FillEnd(u)
  \/ Kernel \/ PeerSends \/ PeerCloses

Spec == Init /\ [][Next]_vars

\* The ring executes the writes it has, and completes a read that can complete.
Fairness ==
  /\ WF_vars(Kernel)
  /\ \A u \in Callers : WF_vars(Fill(u) \/ ReadClosed(u) \/ FillEnd(u))

FairSpec == Spec /\ Fairness

-----------------------------------------------------------------------------
(* Properties *)

\* The socket is given the records of SSL, byte for byte and in the order in which
\* they were encrypted.
WireInOrder == wire = Stream(Len(wire)) /\ Len(wire) <= enc * RecCells

\* The records reach the socket in order as long as no flush begins while a
\* write of the stream is still in the ring.
WireInOrderAlone == ~shared => WireInOrder

\* When no call is in progress, none has failed and no two flushes met, all of
\* every record is sent: nothing stays behind in SSL, the BIO or io_buffer_.
ReturnedIsSent ==
  (failed = "none" /\ ~shared /\ \A u \in Callers : pc[u] # "flush") =>
    Len(wire) = enc * RecCells

\* read returns the records of the peer, whole and in order, however the socket
\* cuts them up, and the branch "CRITICAL DATA LOSS" of fill_bio_from_tcp is
\* never taken.
ReadInOrder ==
  /\ TypeOK
  /\ Len(got) <= peer_sent
  /\ \A i \in DOMAIN got : got[i] = Record(i)
  /\ failed # "loss"

\* A call of write returns or fails, through any number of partial writes.
FlushEnds == \A u \in Callers : (pc[u] = "flush") ~> (pc[u] # "flush")

\* A reader that waits for the socket is given the next record once the peer has
\* sent it, however it is cut up and whether or not the peer closes behind it: the
\* read ends neither in an error nor at the end of the stream before that.
ReaderServed ==
  \A u \in Readers : \A n \in 1..MaxPeer :
    (pc[u] = "fill" /\ peer_sent >= n /\ Len(got) = n - 1) ~> (Len(got) >= n)
=============================================================================
