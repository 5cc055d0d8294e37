------------------------- MODULE Http2SessionProofs -------------------------
(***************************************************************************)
(* Proofs about Http2Session, for any number of requests, of frames and of *)
(* frames on the way: a waiting request can be woken, a body is what the   *)
(* peer sent, and a request that was sent fails only for a cause.          *)
(*                                                                         *)
(* The invariant of a stream is an operator of the parts of the state it   *)
(* depends on, so that an action which does two things to a stream, such   *)
(* as a last frame that also ends the driver, is two steps of the proof.   *)
(***************************************************************************)
EXTENDS Http2Session, TLAPS

Closing == {"end", "rst"}
Places == {"idle", "flush", "headers", "response", "body", "done", "refused", "unsent",
           "failed", "nobody"}
Left == {"done", "refused", "unsent", "failed", "nobody"}
PeerStates == {"none", "got", "headers", "end", "rst"}
FrameOf(f, r) == f.kind # "ctl" /\ f.stream = r
Is(f, r, kind) == f.kind = kind /\ f.stream = r
Numbered(body, r) == \A i \in DOMAIN body : body[i] = Chunk(r, i)

\* What body_full will return of a context.
Body(c) == IF c.body_ready THEN c.body_result ELSE c.body_buffer

-----------------------------------------------------------------------------
(* The invariant of one stream r: its context c, its coroutine p, what the  *)
(* peer pe has done, the chunks ch it has sent, whether the response was    *)
(* late la, whether the context is in the table, whether the driver has     *)
(* ended, whether the session is closing, and the frames ib on their way.   *)

\* The wakers are those the coroutine waits for.
WakerInv(c, p, pe, in, ended) ==
  /\ p = "idle" => c = NewContext /\ pe = "none"
  /\ in => ~ended /\ p \in {"flush", "headers", "response", "body"}
  /\ ~ended /\ p \in {"flush", "headers", "response", "body"} => in
  /\ c.header_waker => p = "headers" /\ c.header_result = "none"
  /\ p = "headers" /\ c.header_result = "none" => c.header_waker
  /\ p = "flush" => c.header_result = "none"
  /\ c.body_waker => p = "body" /\ ~c.body_ready
  /\ p = "body" /\ ~c.body_ready => c.body_waker
  /\ c.body_ready => c.stream_closed /\ p \in {"body", "done"}

\* The last frame of a stream ends it, and its header block comes before the end.
InboxInv(r, c, pe, in, ib) ==
  /\ \A i \in 1..Len(ib) : FrameOf(ib[i], r) => pe \in {"headers", "end", "rst"}
  /\ \A i \in 1..Len(ib) : FrameOf(ib[i], r) /\ ib[i].kind \in Closing => ib[i].kind = pe
  /\ \A i, j \in 1..Len(ib) :
       FrameOf(ib[i], r) /\ ib[i].kind \in Closing /\ FrameOf(ib[j], r) => j <= i
  /\ in /\ c.stream_closed => \A i \in 1..Len(ib) : ~FrameOf(ib[i], r)
  /\ in /\ ~c.status /\ ~c.stream_closed /\ pe \in {"headers", "end"} =>
       \E i \in 1..Len(ib) :
         /\ Is(ib[i], r, "headers")
         /\ \A j \in 1..Len(ib) : Is(ib[j], r, "end") => i < j

\* n[i] is the number of chunks of r up to the i-th frame on its way.
Counts(n, r, c, ch, ib) ==
  /\ n[0] = Len(c.body_buffer)
  /\ \A i \in 1..Len(ib) : Is(ib[i], r, "data") => n[i] = n[i - 1] + 1
  /\ \A i \in 1..Len(ib) : ~Is(ib[i], r, "data") => n[i] = n[i - 1]
  /\ \A i \in 1..Len(ib) : Is(ib[i], r, "end") => n[i] = ch
  /\ \A i \in 0..Len(ib) : n[i] <= ch
  /\ n[Len(ib)] = ch

Counted(r, c, ch, ib) == \E n \in [0..Len(ib) -> Nat] : Counts(n, r, c, ch, ib)

\* The chunks in the context and those on their way are those the peer has sent.
BodyInv(r, c, pe, ch, in, sc, ib) ==
  /\ pe \in {"none", "got"} => ch = 0
  /\ Len(Body(c)) <= ch
  /\ Numbered(c.body_buffer, r)
  /\ Numbered(c.body_result, r)
  /\ in /\ ~c.stream_closed => Counted(r, c, ch, ib)
  /\ c.stream_closed /\ (in \/ ~sc) => pe \in Closing
  /\ c.stream_closed /\ ~sc /\ pe = "end" => c.status /\ Len(Body(c)) = ch

\* A response that woke nobody came during the flush.
CauseInv(c, p, pe, la, sc) ==
  /\ c.status /\ (p = "flush" \/ c.header_waker) => la
  /\ c.header_result = "false" => pe = "rst" \/ sc \/ la

\* What a coroutine that has ended returned, and why.
ResultInv(r, p, g, pe, ch, la, sc) ==
  /\ p = "done" => Numbered(g, r) /\ Len(g) <= ch
  /\ p = "done" /\ pe # "rst" /\ ~sc => pe = "end" /\ Len(g) = ch
  /\ p = "failed" => pe = "rst" \/ sc \/ la

StreamInv(r, c, p, pe, ch, la, in, ended, sc, ib) ==
  /\ WakerInv(c, p, pe, in, ended)
  /\ InboxInv(r, c, pe, in, ib)
  /\ BodyInv(r, c, pe, ch, in, sc, ib)
  /\ CauseInv(c, p, pe, la, sc)

-----------------------------------------------------------------------------
(* The queues of frames to send.                                            *)

\* A coroutine has one write in flight.
OneWrite(w) == \A i, j \in 1..Len(w) : w[i].by = w[j].by => i = j

\* A request's HEADERS frame is in one place until the peer has it.
Unsent(r, pe, p) == pe[r] = "none" /\ p[r] # "idle"
QueueInv(o, w, pe, p) ==
  /\ \A i, j \in 1..Len(w) : w[i].frame \in Reqs /\ w[i].frame = w[j].frame => i = j
  /\ \A i, j \in 1..Len(o) : o[i] \in Reqs /\ o[i] = o[j] => i = j
  /\ \A i \in 1..Len(w), j \in 1..Len(o) : w[i].frame \in Reqs => w[i].frame # o[j]
  /\ \A i \in 1..Len(w) : w[i].frame \in Reqs => Unsent(w[i].frame, pe, p)
  /\ \A i \in 1..Len(o) : o[i] \in Reqs => Unsent(o[i], pe, p)

\* The session as a whole.
SessionInv ==
  /\ driver = "none" => \A r \in Reqs : pc[r] = "idle"
  /\ driver = "done" => should_close_
  /\ ~fd_open => should_close_

\* The inductive invariant.
Stream(r) ==
  StreamInv(r, ctx[r], pc[r], peer[r], chunks[r], late[r], r \in streams_,
            driver = "done", should_close_, inbox)
Result(r) ==
  ResultInv(r, pc[r], got[r], peer[r], chunks[r], late[r], should_close_)
H2Inv ==
  /\ TypeOK
  /\ OneWrite(writes)
  /\ QueueInv(out, writes, peer, pc)
  /\ SessionInv
  /\ \A r \in Reqs : Stream(r) /\ Result(r) /\ chunks[r] <= sent

-----------------------------------------------------------------------------
\* The leaves are first-order: Zenon proves those that do not cite SMT.
USE Zenon

\* Membership and equality are Booleans.
LEMMA TruthOfIn == ASSUME NEW r, NEW S PROVE (r \in S) \in BOOLEAN
BY SMT

LEMMA TruthOfEquals == ASSUME NEW d, NEW e PROVE (d = e) \in BOOLEAN
BY SMT

(* What the callbacks do to a context.                                      *)

\* CallHeaderWaker stays among the contexts and touches the header waker only.
LEMMA HeaderWakerFacts ==
  ASSUME NEW c \in Contexts, NEW s \in {"true", "false"},
         NEW d, d = CallHeaderWaker(c, s)
  PROVE  /\ d \in Contexts
         /\ (d.status <=> c.status) /\ (d.stream_closed <=> c.stream_closed)
         /\ d.body_buffer = c.body_buffer /\ (d.body_waker <=> c.body_waker)
         /\ (d.body_ready <=> c.body_ready) /\ d.body_result = c.body_result
         /\ ~d.header_waker
         /\ d.header_result = IF c.header_waker THEN s ELSE c.header_result
BY DEF CallHeaderWaker, Contexts

\* CallBodyWaker stays among the contexts and moves the buffer to the waiter.
LEMMA BodyWakerFacts ==
  ASSUME NEW c \in Contexts, NEW d, d = CallBodyWaker(c)
  PROVE  /\ d \in Contexts
         /\ (d.status <=> c.status) /\ (d.stream_closed <=> c.stream_closed)
         /\ (d.header_waker <=> c.header_waker) /\ d.header_result = c.header_result
         /\ ~d.body_waker
         /\ d.body_ready <=> (c.body_waker \/ c.body_ready)
         /\ d.body_result = IF c.body_waker THEN c.body_buffer ELSE c.body_result
         /\ d.body_buffer = IF c.body_waker THEN <<>> ELSE c.body_buffer
<1>1. <<>> \in Bodies /\ c.body_buffer \in Bodies
  BY SMT DEF Contexts, Bodies
<1>2. CASE c.body_waker
  <2>1. d = [c EXCEPT !.body_waker = FALSE, !.body_ready = TRUE,
                      !.body_result = c.body_buffer, !.body_buffer = <<>>]
    BY <1>2 DEF CallBodyWaker
  <2>2. d \in Contexts
    BY <1>1, <2>1 DEF Contexts
  <2>3. QED
    BY SMT, <1>2, <2>1, <2>2 DEF Contexts
<1>3. CASE ~c.body_waker
  BY <1>3 DEF CallBodyWaker
<1>4. QED
  BY <1>2, <1>3

\* CloseContext marks the stream closed and wakes whoever waits.
LEMMA CloseFacts ==
  ASSUME NEW c \in Contexts, NEW d, d = CloseContext(c)
  PROVE  /\ d \in Contexts
         /\ (d.status <=> c.status) /\ d.stream_closed
         /\ ~d.header_waker
         /\ d.header_result = IF c.header_waker THEN "false" ELSE c.header_result
         /\ ~d.body_waker
         /\ d.body_ready <=> (c.body_waker \/ c.body_ready)
         /\ d.body_result = IF c.body_waker THEN c.body_buffer ELSE c.body_result
         /\ d.body_buffer = IF c.body_waker THEN <<>> ELSE c.body_buffer
<1>1. PICK a : a = [c EXCEPT !.stream_closed = TRUE]
  OBVIOUS
<1>2. /\ a \in Contexts
      /\ (a.status <=> c.status) /\ a.stream_closed
      /\ (a.header_waker <=> c.header_waker) /\ a.header_result = c.header_result
      /\ (a.body_waker <=> c.body_waker) /\ (a.body_ready <=> c.body_ready)
      /\ a.body_result = c.body_result /\ a.body_buffer = c.body_buffer
  BY <1>1 DEF Contexts
<1>3. PICK b : b = CallHeaderWaker(a, "false")
  OBVIOUS
<1>4. d = CallBodyWaker(b)
  BY <1>1, <1>3 DEF CloseContext
<1>5. /\ b \in Contexts
      /\ (b.status <=> a.status) /\ (b.stream_closed <=> a.stream_closed)
      /\ b.body_buffer = a.body_buffer /\ (b.body_waker <=> a.body_waker)
      /\ (b.body_ready <=> a.body_ready) /\ b.body_result = a.body_result
      /\ ~b.header_waker
      /\ b.header_result = IF a.header_waker THEN "false" ELSE a.header_result
  BY SMT, <1>2, <1>3, HeaderWakerFacts
<1>6. QED
  BY SMT, <1>2, <1>4, <1>5, BodyWakerFacts

\* A HEADERS frame sets the status and wakes who waits for it.
LEMMA OnHeadersFacts ==
  ASSUME NEW c \in Contexts, NEW r, NEW d, d = OnFrame(c, r, "headers")
  PROVE  /\ d \in Contexts
         /\ d.status /\ (d.stream_closed <=> c.stream_closed)
         /\ d.body_buffer = c.body_buffer /\ (d.body_waker <=> c.body_waker)
         /\ (d.body_ready <=> c.body_ready) /\ d.body_result = c.body_result
         /\ ~d.header_waker
         /\ d.header_result = IF c.header_waker THEN "true" ELSE c.header_result
<1>1. PICK a : a = [c EXCEPT !.status = TRUE]
  OBVIOUS
<1>2. /\ a \in Contexts
      /\ a.status /\ (a.stream_closed <=> c.stream_closed)
      /\ (a.header_waker <=> c.header_waker) /\ a.header_result = c.header_result
      /\ (a.body_waker <=> c.body_waker) /\ (a.body_ready <=> c.body_ready)
      /\ a.body_result = c.body_result /\ a.body_buffer = c.body_buffer
  BY <1>1 DEF Contexts
<1>3. d = CallHeaderWaker(a, "true")
  BY <1>1 DEF OnFrame
<1>4. QED
  BY SMT, <1>2, <1>3, HeaderWakerFacts

\* A DATA frame appends its chunk to the buffer.
LEMMA OnDataFacts ==
  ASSUME NEW c \in Contexts, NEW r \in Reqs, NEW d, d = OnFrame(c, r, "data")
  PROVE  /\ d \in Contexts
         /\ (d.status <=> c.status) /\ (d.stream_closed <=> c.stream_closed)
         /\ (d.header_waker <=> c.header_waker) /\ d.header_result = c.header_result
         /\ (d.body_waker <=> c.body_waker)
         /\ (d.body_ready <=> c.body_ready) /\ d.body_result = c.body_result
         /\ d.body_buffer = Append(c.body_buffer, Chunk(r, Len(c.body_buffer) + 1))
<1>1. d = [c EXCEPT !.body_buffer = Append(@, Chunk(r, Len(@) + 1))]
  BY DEF OnFrame
<1>2. c.body_buffer \in Seq(Reqs \X Nat)
  BY DEF Contexts, Bodies
<1>3. Len(c.body_buffer) + 1 \in Nat
  BY SMT, <1>2
<1>4. Append(c.body_buffer, Chunk(r, Len(c.body_buffer) + 1)) \in Bodies
  BY SMT, <1>2, <1>3 DEF Bodies, Chunk
<1>5. QED
  BY <1>1, <1>4 DEF Contexts

-----------------------------------------------------------------------------
(* What a step does to the invariant of one stream.                         *)

StreamTypes(r, c, p, pe, ch, la, in, ended, sc, ib) ==
  /\ r \in Reqs /\ c \in Contexts /\ p \in Places /\ pe \in PeerStates
  /\ ch \in Nat /\ la \in BOOLEAN /\ in \in BOOLEAN /\ ended \in BOOLEAN
  /\ sc \in BOOLEAN /\ ib \in Seq(PeerFrames)

\* A body has a length.
LEMMA BodyTypes ==
  ASSUME NEW c \in Contexts
  PROVE  /\ Len(c.body_buffer) \in Nat /\ Len(c.body_result) \in Nat
         /\ Len(Body(c)) \in Nat
<1>1. c.body_buffer \in Seq(Reqs \X Nat) /\ c.body_result \in Seq(Reqs \X Nat)
  BY DEF Contexts, Bodies
<1>2. Len(c.body_buffer) \in Nat /\ Len(c.body_result) \in Nat
  BY SMT, <1>1
<1>3. QED
  BY <1>2 DEF Body

\* close_async: a closing session keeps what the invariant says.
LEMMA ClosingStream ==
  ASSUME NEW r, NEW c, NEW p, NEW pe, NEW ch, NEW la, NEW in, NEW ended, NEW sc, NEW ib,
         StreamTypes(r, c, p, pe, ch, la, in, ended, sc, ib),
         StreamInv(r, c, p, pe, ch, la, in, ended, sc, ib)
  PROVE  StreamInv(r, c, p, pe, ch, la, in, ended, TRUE, ib)
BY DEF StreamTypes, StreamInv, BodyInv, CauseInv

\* request: the stream has a new context and nothing of it is on its way.
LEMMA RequestedStream ==
  ASSUME NEW r, NEW c, NEW pe, NEW ch, NEW la, NEW in, NEW sc, NEW ib,
         StreamTypes(r, c, "idle", pe, ch, la, in, FALSE, sc, ib),
         StreamInv(r, c, "idle", pe, ch, la, in, FALSE, sc, ib)
  PROVE  StreamInv(r, c, "flush", pe, ch, la, TRUE, FALSE, sc, ib)
<1>1. c = NewContext /\ pe = "none" /\ ch = 0
  BY DEF StreamInv, WakerInv, BodyInv
<1>2. \A i \in 1..Len(ib) : ~FrameOf(ib[i], r)
  BY <1>1 DEF StreamInv, InboxInv
<1>3. WakerInv(c, "flush", pe, TRUE, FALSE)
  BY <1>1 DEF WakerInv, NewContext
<1>4. InboxInv(r, c, pe, TRUE, ib)
  BY <1>1, <1>2 DEF InboxInv
<1>5. Counted(r, c, ch, ib)
  <2>1. PICK n : n = [i \in 0..Len(ib) |-> 0]
    OBVIOUS
  <2>2. Len(ib) \in Nat
    BY SMT DEF StreamTypes
  <2>3. n \in [0..Len(ib) -> Nat] /\ \A i \in 0..Len(ib) : n[i] = 0
    BY <2>1
  <2>4. \A i \in 1..Len(ib) : ~Is(ib[i], r, "data") /\ ~Is(ib[i], r, "end")
    BY <1>2 DEF Is, FrameOf
  <2>5. \A i \in 1..Len(ib) : n[i] = n[i - 1]
    BY SMT, <2>2, <2>3
  <2>6. n[0] = Len(c.body_buffer)
    BY SMT, <1>1, <2>2, <2>3 DEF NewContext
  <2>7. n[Len(ib)] = ch /\ \A i \in 0..Len(ib) : n[i] <= ch
    BY SMT, <1>1, <2>2, <2>3
  <2>8. Counts(n, r, c, ch, ib)
    BY <2>4, <2>5, <2>6, <2>7 DEF Counts
  <2>9. QED
    BY <2>3, <2>8 DEF Counted
<1>6. BodyInv(r, c, pe, ch, TRUE, sc, ib)
  BY <1>1, <1>5 DEF StreamInv, BodyInv, NewContext
<1>7. CauseInv(c, "flush", pe, la, sc)
  BY <1>1 DEF CauseInv, NewContext
<1>8. QED
  BY <1>3, <1>4, <1>6, <1>7 DEF StreamInv

\* The HEADERS frame of a request reaches the peer.
LEMMA ReachedStream ==
  ASSUME NEW r, NEW c, NEW p, NEW ch, NEW la, NEW in, NEW ended, NEW sc, NEW ib,
         StreamTypes(r, c, p, "none", ch, la, in, ended, sc, ib), p # "idle",
         StreamInv(r, c, p, "none", ch, la, in, ended, sc, ib)
  PROVE  StreamInv(r, c, p, "got", ch, la, in, ended, sc, ib)
<1>1. WakerInv(c, p, "got", in, ended)
  BY DEF StreamInv, WakerInv
<1>2. InboxInv(r, c, "got", in, ib)
  BY DEF StreamInv, InboxInv
<1>3. BodyInv(r, c, "got", ch, in, sc, ib)
  BY DEF StreamInv, BodyInv, Closing
<1>4. CauseInv(c, p, "got", la, sc)
  BY DEF StreamInv, CauseInv
<1>5. QED
  BY <1>1, <1>2, <1>3, <1>4 DEF StreamInv

\* The flush is done: the request waits for its headers.
LEMMA FlushedStream ==
  ASSUME NEW r, NEW c, NEW pe, NEW ch, NEW la, NEW in, NEW ended, NEW sc, NEW ib, NEW d,
         StreamTypes(r, c, "flush", pe, ch, la, in, ended, sc, ib),
         StreamInv(r, c, "flush", pe, ch, la, in, ended, sc, ib),
         d = [c EXCEPT !.header_waker = TRUE]
  PROVE  d \in Contexts /\ StreamInv(r, d, "headers", pe, ch, la, in, ended, sc, ib)
<1>1. /\ d \in Contexts
      /\ d.header_waker
      /\ d.status = c.status /\ d.stream_closed = c.stream_closed
      /\ d.header_result = c.header_result
      /\ d.body_waker = c.body_waker /\ d.body_ready = c.body_ready
      /\ d.body_result = c.body_result /\ d.body_buffer = c.body_buffer
  BY DEF StreamTypes, Contexts
<1>2. WakerInv(d, "headers", pe, in, ended)
  BY <1>1 DEF StreamInv, WakerInv
<1>3. InboxInv(r, d, pe, in, ib)
  BY <1>1 DEF StreamInv, InboxInv
<1>4. BodyInv(r, d, pe, ch, in, sc, ib)
  BY <1>1 DEF StreamInv, BodyInv, Body, Counted, Counts
<1>5. CauseInv(d, "headers", pe, la, sc)
  BY <1>1 DEF StreamInv, CauseInv
<1>6. QED
  BY <1>1, <1>2, <1>3, <1>4, <1>5 DEF StreamInv

\* Nobody waits for what a coroutine leaves behind.
Leaves(c, q) ==
  /\ q \in Left
  /\ ~c.header_waker /\ ~c.body_waker /\ (c.body_ready => q = "done")

\* A coroutine that has ended takes its context from the table.
LEMMA LeftStream ==
  ASSUME NEW r, NEW c, NEW p, NEW pe, NEW ch, NEW la, NEW in, NEW ended, NEW sc, NEW ib,
         NEW q, Leaves(c, q),
         StreamTypes(r, c, p, pe, ch, la, in, ended, sc, ib),
         StreamInv(r, c, p, pe, ch, la, in, ended, sc, ib)
  PROVE  StreamInv(r, c, q, pe, ch, la, FALSE, ended, sc, ib)
<1>1. WakerInv(c, q, pe, FALSE, ended)
  BY DEF StreamInv, WakerInv, Leaves, Left
<1>2. InboxInv(r, c, pe, FALSE, ib)
  BY DEF StreamInv, InboxInv
<1>3. BodyInv(r, c, pe, ch, FALSE, sc, ib)
  BY DEF StreamInv, BodyInv
<1>4. CauseInv(c, q, pe, la, sc)
  BY DEF StreamInv, CauseInv, Leaves, Left
<1>5. QED
  BY <1>1, <1>2, <1>3, <1>4 DEF StreamInv

\* The response is there.
LEMMA AnsweredStream ==
  ASSUME NEW r, NEW c, NEW pe, NEW ch, NEW la, NEW in, NEW ended, NEW sc, NEW ib,
         StreamTypes(r, c, "headers", pe, ch, la, in, ended, sc, ib),
         StreamInv(r, c, "headers", pe, ch, la, in, ended, sc, ib),
         c.header_result # "none"
  PROVE  StreamInv(r, c, "response", pe, ch, la, in, ended, sc, ib)
<1>1. WakerInv(c, "response", pe, in, ended)
  BY DEF StreamInv, WakerInv
<1>2. CauseInv(c, "response", pe, la, sc)
  BY DEF StreamInv, CauseInv
<1>3. QED
  BY <1>1, <1>2 DEF StreamInv

\* body_full waits for the end of the stream.
LEMMA AwaitedStream ==
  ASSUME NEW r, NEW c, NEW pe, NEW ch, NEW la, NEW in, NEW ended, NEW sc, NEW ib, NEW d,
         StreamTypes(r, c, "response", pe, ch, la, in, ended, sc, ib),
         StreamInv(r, c, "response", pe, ch, la, in, ended, sc, ib),
         d = [c EXCEPT !.body_waker = TRUE]
  PROVE  d \in Contexts /\ StreamInv(r, d, "body", pe, ch, la, in, ended, sc, ib)
<1>1. /\ d \in Contexts
      /\ d.body_waker
      /\ d.status = c.status /\ d.stream_closed = c.stream_closed
      /\ d.header_result = c.header_result /\ d.header_waker = c.header_waker
      /\ d.body_ready = c.body_ready
      /\ d.body_result = c.body_result /\ d.body_buffer = c.body_buffer
  BY DEF StreamTypes, Contexts
<1>2. WakerInv(d, "body", pe, in, ended)
  BY <1>1 DEF StreamInv, WakerInv
<1>3. InboxInv(r, d, pe, in, ib)
  BY <1>1 DEF StreamInv, InboxInv
<1>4. BodyInv(r, d, pe, ch, in, sc, ib)
  BY <1>1 DEF StreamInv, BodyInv, Body, Counted, Counts
<1>5. CauseInv(d, "body", pe, la, sc)
  BY <1>1 DEF StreamInv, CauseInv
<1>6. QED
  BY <1>1, <1>2, <1>3, <1>4, <1>5 DEF StreamInv

\* What the end of the driver makes of a context.
Ended(c, in) == IF in THEN CloseContext(c) ELSE c

\* The end of the driver: who is in the table is woken, and leaves it.
LEMMA EndedStream ==
  ASSUME NEW r, NEW c, NEW p, NEW pe, NEW ch, NEW la, NEW in, NEW sc, NEW ib, NEW d,
         StreamTypes(r, c, p, pe, ch, la, in, FALSE, sc, ib),
         StreamInv(r, c, p, pe, ch, la, in, FALSE, sc, ib),
         d = Ended(c, in)
  PROVE  d \in Contexts /\ StreamInv(r, d, p, pe, ch, la, FALSE, TRUE, TRUE, ib)
<1>0. d = IF in THEN CloseContext(c) ELSE c
  BY DEF Ended
<1>1. CASE ~in
  <2>1. d = c
    BY <1>0, <1>1
  <2>2. WakerInv(c, p, pe, FALSE, TRUE)
    BY <1>1 DEF StreamInv, WakerInv
  <2>3. InboxInv(r, c, pe, FALSE, ib)
    BY DEF StreamInv, InboxInv
  <2>4. BodyInv(r, c, pe, ch, FALSE, TRUE, ib)
    BY DEF StreamInv, BodyInv
  <2>5. CauseInv(c, p, pe, la, TRUE)
    BY DEF StreamInv, CauseInv
  <2>6. QED
    BY <2>1, <2>2, <2>3, <2>4, <2>5 DEF StreamInv, StreamTypes
<1>2. CASE in
  <2>1. d = CloseContext(c) /\ c \in Contexts
    BY <1>0, <1>2 DEF StreamTypes
  <2>2. /\ d \in Contexts
        /\ (d.status <=> c.status) /\ d.stream_closed
        /\ ~d.header_waker
        /\ d.header_result = IF c.header_waker THEN "false" ELSE c.header_result
        /\ ~d.body_waker
        /\ d.body_ready <=> (c.body_waker \/ c.body_ready)
        /\ d.body_result = IF c.body_waker THEN c.body_buffer ELSE c.body_result
        /\ d.body_buffer = IF c.body_waker THEN <<>> ELSE c.body_buffer
    BY <2>1, CloseFacts
  <2>3. WakerInv(d, p, pe, FALSE, TRUE)
    BY <1>2, <2>2 DEF StreamInv, WakerInv
  <2>4. InboxInv(r, d, pe, FALSE, ib)
    BY DEF StreamInv, InboxInv
  <2>5. Body(d) = Body(c)
    BY <2>2 DEF StreamInv, WakerInv, Body
  <2>6. Numbered(d.body_buffer, r) /\ Numbered(d.body_result, r)
    BY SMT, <2>2 DEF StreamInv, BodyInv, Numbered
  <2>7. BodyInv(r, d, pe, ch, FALSE, TRUE, ib)
    BY <2>5, <2>6 DEF StreamInv, BodyInv
  <2>8. CauseInv(d, p, pe, la, TRUE)
    BY <2>2 DEF StreamInv, CauseInv
  <2>9. QED
    BY <2>2, <2>3, <2>4, <2>7, <2>8 DEF StreamInv
<1>3. QED
  BY <1>1, <1>2 DEF StreamTypes

\* A read takes the first frame.
LEMMA TailFacts ==
  ASSUME NEW S, NEW s \in Seq(S), s # <<>>
  PROVE  /\ Tail(s) \in Seq(S) /\ Head(s) = s[1] /\ Head(s) \in S
         /\ Len(s) \in Nat /\ Len(s) >= 1 /\ Len(Tail(s)) = Len(s) - 1
         /\ \A i \in 1..Len(Tail(s)) : Tail(s)[i] = s[i + 1] /\ i + 1 \in 1..Len(s)
         /\ \A i \in 1..Len(s) : i > 1 => i - 1 \in 1..Len(Tail(s))
         /\ \A i \in 1..Len(s) : i > 1 => Tail(s)[i - 1] = s[i]
<1>1. /\ Tail(s) \in Seq(S) /\ Head(s) = s[1] /\ Head(s) \in S
      /\ Len(s) \in Nat /\ Len(s) >= 1 /\ Len(Tail(s)) = Len(s) - 1
  BY SMT
<1>2. \A i \in 1..Len(Tail(s)) : Tail(s)[i] = s[i + 1] /\ i + 1 \in 1..Len(s)
  BY SMT, <1>1
<1>3. \A i \in 1..Len(s) : i > 1 => i - 1 \in 1..Len(Tail(s))
  BY SMT, <1>1
<1>4. \A i \in 1..Len(s) : i > 1 => Tail(s)[i - 1] = s[i]
  BY SMT, <1>1, <1>2, <1>3
<1>5. QED
  BY <1>1, <1>2, <1>3, <1>4

\* The chunks after the first frame, when the context has taken it.
LEMMA CountedTail ==
  ASSUME NEW r, NEW c \in Contexts, NEW d \in Contexts, NEW ch \in Nat,
         NEW ib \in Seq(PeerFrames), ib # <<>>, Counted(r, c, ch, ib),
         Is(Head(ib), r, "data") => Len(d.body_buffer) = Len(c.body_buffer) + 1,
         ~Is(Head(ib), r, "data") => Len(d.body_buffer) = Len(c.body_buffer)
  PROVE  /\ Counted(r, d, ch, Tail(ib))
         /\ Len(d.body_buffer) <= ch
         /\ Is(Head(ib), r, "end") => Len(c.body_buffer) = ch
<1>1. PICK n \in [0..Len(ib) -> Nat] : Counts(n, r, c, ch, ib)
  BY DEF Counted
<1>2. PICK m : m = [i \in 0..(Len(ib) - 1) |-> n[i + 1]]
  OBVIOUS
<1>3. /\ Tail(ib) \in Seq(PeerFrames) /\ Head(ib) = ib[1]
      /\ Len(ib) \in Nat /\ Len(ib) >= 1 /\ Len(Tail(ib)) = Len(ib) - 1
      /\ \A i \in 1..Len(Tail(ib)) : Tail(ib)[i] = ib[i + 1] /\ i + 1 \in 1..Len(ib)
  BY TailFacts
<1>4. m \in [0..Len(Tail(ib)) -> Nat] /\ \A i \in 0..Len(Tail(ib)) : m[i] = n[i + 1]
  BY SMT, <1>2, <1>3
<1>5. /\ n[0] = Len(c.body_buffer) /\ n[Len(ib)] = ch
      /\ \A i \in 1..Len(ib) : Is(ib[i], r, "data") => n[i] = n[i - 1] + 1
      /\ \A i \in 1..Len(ib) : ~Is(ib[i], r, "data") => n[i] = n[i - 1]
      /\ \A i \in 1..Len(ib) : Is(ib[i], r, "end") => n[i] = ch
      /\ \A i \in 0..Len(ib) : n[i] <= ch
  BY <1>1 DEF Counts
<1>6. n[1] = Len(d.body_buffer)
  <2>1. 1 \in 1..Len(ib) /\ 1 - 1 = 0
    BY SMT, <1>3
  <2>2. Is(ib[1], r, "data") => n[1] = n[0] + 1
    BY <1>5, <2>1
  <2>3. ~Is(ib[1], r, "data") => n[1] = n[0]
    BY <1>5, <2>1
  <2>4. QED
    BY <1>3, <1>5, <2>2, <2>3
<1>7. m[0] = Len(d.body_buffer) /\ m[Len(Tail(ib))] = ch
  BY SMT, <1>3, <1>4, <1>5, <1>6
<1>8. \A i \in 0..Len(Tail(ib)) : m[i] <= ch
  BY SMT, <1>3, <1>4, <1>5
<1>9. ASSUME NEW i \in 1..Len(Tail(ib))
      PROVE  /\ Is(Tail(ib)[i], r, "data") => m[i] = m[i - 1] + 1
             /\ ~Is(Tail(ib)[i], r, "data") => m[i] = m[i - 1]
             /\ Is(Tail(ib)[i], r, "end") => m[i] = ch
  <2>1. PICK j : j = i + 1
    OBVIOUS
  <2>2. j \in 1..Len(ib) /\ j - 1 = i /\ Tail(ib)[i] = ib[j]
    BY SMT, <1>3, <2>1
  <2>3. m[i] = n[j] /\ m[i - 1] = n[i]
    BY SMT, <1>3, <1>4, <2>1
  <2>4. /\ Is(ib[j], r, "data") => n[j] = n[i] + 1
        /\ ~Is(ib[j], r, "data") => n[j] = n[i]
        /\ Is(ib[j], r, "end") => n[j] = ch
    BY <1>5, <2>2
  <2>5. QED
    BY <2>2, <2>3, <2>4
<1>10. Counts(m, r, d, ch, Tail(ib))
  BY <1>7, <1>8, <1>9 DEF Counts
<1>11. Counted(r, d, ch, Tail(ib))
  BY <1>4, <1>10 DEF Counted
<1>12. Len(d.body_buffer) <= ch
  BY SMT, <1>3, <1>5, <1>6
<1>13. Is(Head(ib), r, "end") => Len(c.body_buffer) = ch
  <2>1. SUFFICES ASSUME Is(Head(ib), r, "end") PROVE Len(c.body_buffer) = ch
    OBVIOUS
  <2>2. ~Is(ib[1], r, "data") /\ Is(ib[1], r, "end")
    BY <1>3, <2>1 DEF Is
  <2>3. n[1] = n[0] /\ n[1] = ch
    BY SMT, <1>3, <1>5, <2>2
  <2>4. QED
    BY <1>5, <2>3
<1>14. QED
  BY <1>11, <1>12, <1>13

\* What the frames on their way say is said of all but the first.
LEMMA InboxTail ==
  ASSUME NEW r, NEW c, NEW pe, NEW in, NEW ib \in Seq(PeerFrames), ib # <<>>,
         InboxInv(r, c, pe, in, ib)
  PROVE  /\ InboxInv(r, c, pe, FALSE, Tail(ib))
         /\ ~FrameOf(Head(ib), r) => InboxInv(r, c, pe, in, Tail(ib))
<1>1. /\ Head(ib) = ib[1] /\ Len(ib) \in Nat /\ Len(Tail(ib)) = Len(ib) - 1
      /\ \A i \in 1..Len(Tail(ib)) : Tail(ib)[i] = ib[i + 1] /\ i + 1 \in 1..Len(ib)
      /\ \A i \in 1..Len(ib) : i > 1 => i - 1 \in 1..Len(Tail(ib))
      /\ \A i \in 1..Len(ib) : i > 1 => Tail(ib)[i - 1] = ib[i]
  BY TailFacts
<1>2. \A i \in 1..Len(Tail(ib)) : FrameOf(Tail(ib)[i], r) => pe \in {"headers", "end", "rst"}
  BY <1>1 DEF InboxInv
<1>3. \A i \in 1..Len(Tail(ib)) :
        FrameOf(Tail(ib)[i], r) /\ Tail(ib)[i].kind \in Closing => Tail(ib)[i].kind = pe
  BY SMT, <1>1 DEF InboxInv
<1>4. ASSUME NEW i \in 1..Len(Tail(ib)), NEW j \in 1..Len(Tail(ib)),
             FrameOf(Tail(ib)[i], r), Tail(ib)[i].kind \in Closing, FrameOf(Tail(ib)[j], r)
      PROVE  j <= i
  <2>1. j + 1 <= i + 1
    BY <1>1, <1>4 DEF InboxInv
  <2>2. QED
    BY SMT, <1>1, <2>1
<1>5. InboxInv(r, c, pe, FALSE, Tail(ib))
  BY <1>2, <1>3, <1>4 DEF InboxInv
<1>6. ASSUME ~FrameOf(Head(ib), r)
      PROVE  InboxInv(r, c, pe, in, Tail(ib))
  <2>1. in /\ c.stream_closed => \A i \in 1..Len(Tail(ib)) : ~FrameOf(Tail(ib)[i], r)
    BY <1>1 DEF InboxInv
  <2>2. ASSUME in, ~c.status, ~c.stream_closed, pe \in {"headers", "end"}
        PROVE  \E i \in 1..Len(Tail(ib)) :
                 /\ Is(Tail(ib)[i], r, "headers")
                 /\ \A j \in 1..Len(Tail(ib)) : Is(Tail(ib)[j], r, "end") => i < j
    <3>1. PICK i \in 1..Len(ib) :
            /\ Is(ib[i], r, "headers")
            /\ \A j \in 1..Len(ib) : Is(ib[j], r, "end") => i < j
      BY <2>2 DEF InboxInv
    <3>2. i > 1
      <4>1. FrameOf(ib[i], r)
        BY <3>1 DEF Is, FrameOf
      <4>2. i # 1
        BY <1>1, <1>6, <4>1
      <4>3. QED
        BY SMT, <1>1, <4>2
    <3>3. i - 1 \in 1..Len(Tail(ib)) /\ Is(Tail(ib)[i - 1], r, "headers")
      BY <1>1, <3>1, <3>2
    <3>4. ASSUME NEW j \in 1..Len(Tail(ib)), Is(Tail(ib)[j], r, "end")
          PROVE  i - 1 < j
      <4>1. i < j + 1
        BY <1>1, <3>1, <3>4
      <4>2. QED
        BY SMT, <1>1, <4>1
    <3>5. QED
      BY <3>3, <3>4
  <2>3. QED
    BY <1>2, <1>3, <1>4, <2>1, <2>2 DEF InboxInv
<1>7. QED
  BY <1>5, <1>6

\* A read that brings a frame of another stream, or of one that has left the table.
LEMMA PassedStream ==
  ASSUME NEW r, NEW c, NEW p, NEW pe, NEW ch, NEW la, NEW in, NEW ended, NEW sc, NEW ib,
         NEW lb \in BOOLEAN, la => lb,
         StreamTypes(r, c, p, pe, ch, la, in, ended, sc, ib),
         StreamInv(r, c, p, pe, ch, la, in, ended, sc, ib),
         ib # <<>>, ~in \/ ~FrameOf(Head(ib), r)
  PROVE  StreamInv(r, c, p, pe, ch, lb, in, ended, sc, Tail(ib))
<1>1. ib \in Seq(PeerFrames) /\ c \in Contexts /\ ch \in Nat /\ in \in BOOLEAN
  BY DEF StreamTypes
<1>2. InboxInv(r, c, pe, in, ib)
  BY DEF StreamInv
<1>3. /\ InboxInv(r, c, pe, FALSE, Tail(ib))
      /\ ~FrameOf(Head(ib), r) => InboxInv(r, c, pe, in, Tail(ib))
  BY <1>1, <1>2, InboxTail
<1>4. InboxInv(r, c, pe, in, Tail(ib))
  <2>1. CASE ~in
    BY <1>3, <2>1 DEF InboxInv
  <2>2. CASE ~FrameOf(Head(ib), r)
    BY <1>3, <2>2
  <2>3. QED
    BY <2>1, <2>2
<1>5. in /\ ~c.stream_closed => Counted(r, c, ch, Tail(ib))
  <2>1. SUFFICES ASSUME in, ~c.stream_closed PROVE Counted(r, c, ch, Tail(ib))
    OBVIOUS
  <2>2. Counted(r, c, ch, ib)
    BY <2>1 DEF StreamInv, BodyInv
  <2>3. ~Is(Head(ib), r, "data")
    BY <2>1 DEF Is, FrameOf
  <2>4. QED
    BY <1>1, <2>2, <2>3, CountedTail
<1>6. BodyInv(r, c, pe, ch, in, sc, Tail(ib))
  BY <1>5 DEF StreamInv, BodyInv
<1>7. CauseInv(c, p, pe, lb, sc)
  BY DEF StreamInv, CauseInv
<1>8. WakerInv(c, p, pe, in, ended)
  BY DEF StreamInv
<1>9. QED
  BY <1>4, <1>6, <1>7, <1>8 DEF StreamInv

\* A read that brings the header block.
LEMMA HeadersStream ==
  ASSUME NEW r, NEW c, NEW p, NEW pe, NEW ch, NEW la, NEW ended, NEW sc, NEW ib, NEW d,
         NEW lb \in BOOLEAN, la \/ p = "flush" => lb,
         StreamTypes(r, c, p, pe, ch, la, TRUE, ended, sc, ib),
         StreamInv(r, c, p, pe, ch, la, TRUE, ended, sc, ib),
         ib # <<>>, Is(Head(ib), r, "headers"), d = OnFrame(c, r, "headers")
  PROVE  d \in Contexts /\ StreamInv(r, d, p, pe, ch, lb, TRUE, ended, sc, Tail(ib))
<1>1. /\ ib \in Seq(PeerFrames) /\ c \in Contexts /\ ch \in Nat
      /\ InboxInv(r, c, pe, TRUE, ib)
  BY DEF StreamTypes, StreamInv
<1>2. /\ d \in Contexts
      /\ d.status /\ (d.stream_closed <=> c.stream_closed)
      /\ d.body_buffer = c.body_buffer /\ (d.body_waker <=> c.body_waker)
      /\ (d.body_ready <=> c.body_ready) /\ d.body_result = c.body_result
      /\ ~d.header_waker
      /\ d.header_result = IF c.header_waker THEN "true" ELSE c.header_result
  BY SMT, <1>1, OnHeadersFacts
<1>3. FrameOf(Head(ib), r) /\ ~Is(Head(ib), r, "data")
  BY DEF Is, FrameOf
<1>4. ~c.stream_closed
  <2>1. Head(ib) = ib[1] /\ 1 \in 1..Len(ib)
    BY SMT, <1>1
  <2>2. QED
    BY <1>1, <1>3, <2>1 DEF InboxInv
<1>5. InboxInv(r, c, pe, FALSE, Tail(ib))
  BY <1>1, InboxTail
<1>6. InboxInv(r, d, pe, TRUE, Tail(ib))
  BY <1>2, <1>4, <1>5 DEF InboxInv
<1>7. Counted(r, d, ch, Tail(ib))
  <2>1. Counted(r, c, ch, ib)
    BY <1>4 DEF StreamInv, BodyInv
  <2>2. QED
    BY <1>1, <1>2, <1>3, <2>1, CountedTail
<1>8. BodyInv(r, d, pe, ch, TRUE, sc, Tail(ib))
  BY <1>2, <1>4, <1>7 DEF StreamInv, BodyInv, Body
<1>9. CauseInv(d, p, pe, lb, sc)
  BY <1>2 DEF StreamInv, CauseInv
<1>10. WakerInv(d, p, pe, TRUE, ended)
  BY <1>2 DEF StreamInv, WakerInv
<1>11. QED
  BY <1>2, <1>6, <1>8, <1>9, <1>10 DEF StreamInv

\* A read that brings a chunk of the body.
LEMMA DataStream ==
  ASSUME NEW r, NEW c, NEW p, NEW pe, NEW ch, NEW la, NEW ended, NEW sc, NEW ib, NEW d,
         StreamTypes(r, c, p, pe, ch, la, TRUE, ended, sc, ib),
         StreamInv(r, c, p, pe, ch, la, TRUE, ended, sc, ib),
         ib # <<>>, Is(Head(ib), r, "data"), d = OnFrame(c, r, "data")
  PROVE  d \in Contexts /\ StreamInv(r, d, p, pe, ch, la, TRUE, ended, sc, Tail(ib))
<1>1. /\ ib \in Seq(PeerFrames) /\ c \in Contexts /\ ch \in Nat /\ r \in Reqs
      /\ InboxInv(r, c, pe, TRUE, ib)
  BY DEF StreamTypes, StreamInv
<1>2. /\ d \in Contexts
      /\ (d.status <=> c.status) /\ (d.stream_closed <=> c.stream_closed)
      /\ (d.header_waker <=> c.header_waker) /\ d.header_result = c.header_result
      /\ (d.body_waker <=> c.body_waker)
      /\ (d.body_ready <=> c.body_ready) /\ d.body_result = c.body_result
      /\ d.body_buffer = Append(c.body_buffer, Chunk(r, Len(c.body_buffer) + 1))
  BY SMT, <1>1, OnDataFacts
<1>3. FrameOf(Head(ib), r)
  BY DEF Is, FrameOf
<1>4. Head(ib) = ib[1] /\ 1 \in 1..Len(ib)
  BY SMT, <1>1
<1>5. ~c.stream_closed /\ ~d.stream_closed
  BY <1>1, <1>2, <1>3, <1>4 DEF InboxInv
<1>6. InboxInv(r, c, pe, FALSE, Tail(ib))
  BY <1>1, InboxTail
<1>7. /\ Head(ib) = ib[1] /\ Len(ib) \in Nat /\ Len(Tail(ib)) = Len(ib) - 1
      /\ \A i \in 1..Len(Tail(ib)) : Tail(ib)[i] = ib[i + 1] /\ i + 1 \in 1..Len(ib)
      /\ \A i \in 1..Len(ib) : i > 1 => i - 1 \in 1..Len(Tail(ib))
      /\ \A i \in 1..Len(ib) : i > 1 => Tail(ib)[i - 1] = ib[i]
  BY <1>1, TailFacts
<1>8. ASSUME ~d.status, pe \in {"headers", "end"}
      PROVE  \E i \in 1..Len(Tail(ib)) :
               /\ Is(Tail(ib)[i], r, "headers")
               /\ \A j \in 1..Len(Tail(ib)) : Is(Tail(ib)[j], r, "end") => i < j
  <2>1. PICK i \in 1..Len(ib) :
          /\ Is(ib[i], r, "headers")
          /\ \A j \in 1..Len(ib) : Is(ib[j], r, "end") => i < j
    BY <1>1, <1>2, <1>5, <1>8 DEF InboxInv
  <2>2. i # 1
    BY <1>7, <2>1 DEF Is
  <2>3. i > 1
    BY SMT, <1>7, <2>2
  <2>4. i - 1 \in 1..Len(Tail(ib)) /\ Is(Tail(ib)[i - 1], r, "headers")
    BY <1>7, <2>1, <2>3
  <2>5. ASSUME NEW j \in 1..Len(Tail(ib)), Is(Tail(ib)[j], r, "end")
        PROVE  i - 1 < j
    <3>1. i < j + 1
      BY <1>7, <2>1, <2>5
    <3>2. QED
      BY SMT, <1>7, <3>1
  <2>6. QED
    BY <2>4, <2>5
<1>9. InboxInv(r, d, pe, TRUE, Tail(ib))
  BY <1>5, <1>6, <1>8 DEF InboxInv
<1>10. c.body_buffer \in Seq(Reqs \X Nat) /\ Len(c.body_buffer) \in Nat
  BY SMT, <1>1 DEF Contexts, Bodies
<1>11. /\ Len(d.body_buffer) = Len(c.body_buffer) + 1
       /\ \A i \in 1..Len(c.body_buffer) : d.body_buffer[i] = c.body_buffer[i]
       /\ d.body_buffer[Len(c.body_buffer) + 1] = Chunk(r, Len(c.body_buffer) + 1)
       /\ DOMAIN d.body_buffer = 1..(Len(c.body_buffer) + 1)
       /\ DOMAIN c.body_buffer = 1..Len(c.body_buffer)
  BY SMT, <1>2, <1>10
<1>12. Numbered(d.body_buffer, r)
  <2>1. Numbered(c.body_buffer, r)
    BY DEF StreamInv, BodyInv
  <2>2. SUFFICES ASSUME NEW i \in 1..(Len(c.body_buffer) + 1)
                 PROVE  d.body_buffer[i] = Chunk(r, i)
    BY <1>11 DEF Numbered
  <2>3. CASE i = Len(c.body_buffer) + 1
    BY <1>11, <2>3
  <2>4. CASE i # Len(c.body_buffer) + 1
    <3>1. i \in 1..Len(c.body_buffer)
      BY SMT, <1>10, <2>4
    <3>2. QED
      BY <1>11, <2>1, <3>1 DEF Numbered
  <2>5. QED
    BY <2>3, <2>4
<1>13. Counted(r, d, ch, Tail(ib)) /\ Len(d.body_buffer) <= ch
  <2>1. Counted(r, c, ch, ib)
    BY <1>5 DEF StreamInv, BodyInv
  <2>2. QED
    BY <1>1, <1>2, <1>11, <2>1, CountedTail
<1>14. ~c.body_ready /\ ~d.body_ready
  BY <1>2, <1>5 DEF StreamInv, WakerInv
<1>15. Len(Body(d)) <= ch
  BY <1>13, <1>14 DEF Body
<1>16. BodyInv(r, d, pe, ch, TRUE, sc, Tail(ib))
  BY <1>2, <1>5, <1>12, <1>13, <1>15 DEF StreamInv, BodyInv
<1>17. CauseInv(d, p, pe, la, sc)
  BY <1>2 DEF StreamInv, CauseInv
<1>18. WakerInv(d, p, pe, TRUE, ended)
  <2>1. p # "idle"
    BY DEF StreamInv, WakerInv
  <2>2. QED
    BY <1>2, <2>1 DEF StreamInv, WakerInv
<1>19. QED
  BY <1>2, <1>9, <1>16, <1>17, <1>18 DEF StreamInv

\* A read that brings the end or the reset of a stream.
LEMMA ClosedStream ==
  ASSUME NEW r, NEW c, NEW p, NEW pe, NEW ch, NEW la, NEW ended, NEW sc, NEW ib, NEW d,
         NEW kind \in Closing,
         StreamTypes(r, c, p, pe, ch, la, TRUE, ended, sc, ib),
         StreamInv(r, c, p, pe, ch, la, TRUE, ended, sc, ib),
         ib # <<>>, Is(Head(ib), r, kind), d = OnFrame(c, r, kind)
  PROVE  d \in Contexts /\ StreamInv(r, d, p, pe, ch, la, TRUE, ended, sc, Tail(ib))
<1>1. /\ ib \in Seq(PeerFrames) /\ c \in Contexts /\ ch \in Nat /\ r \in Reqs
      /\ InboxInv(r, c, pe, TRUE, ib)
  BY DEF StreamTypes, StreamInv
<1>2. d = CloseContext(c)
  BY DEF OnFrame, Closing
<1>3. /\ d \in Contexts
      /\ (d.status <=> c.status) /\ d.stream_closed
      /\ ~d.header_waker
      /\ d.header_result = IF c.header_waker THEN "false" ELSE c.header_result
      /\ ~d.body_waker
      /\ d.body_ready <=> (c.body_waker \/ c.body_ready)
      /\ d.body_result = IF c.body_waker THEN c.body_buffer ELSE c.body_result
      /\ d.body_buffer = IF c.body_waker THEN <<>> ELSE c.body_buffer
  BY <1>1, <1>2, CloseFacts
<1>4. FrameOf(Head(ib), r) /\ ~Is(Head(ib), r, "data")
  BY DEF Is, FrameOf, Closing
<1>5. /\ Head(ib) = ib[1] /\ Len(ib) \in Nat /\ Len(ib) >= 1 /\ Len(Tail(ib)) = Len(ib) - 1
      /\ \A i \in 1..Len(Tail(ib)) : Tail(ib)[i] = ib[i + 1] /\ i + 1 \in 1..Len(ib)
  BY <1>1, TailFacts
<1>6. 1 \in 1..Len(ib) /\ FrameOf(ib[1], r) /\ ib[1].kind = kind
  BY SMT, <1>4, <1>5 DEF Is
<1>7. pe = kind /\ ~c.stream_closed /\ \A j \in 1..Len(ib) : FrameOf(ib[j], r) => j <= 1
  BY <1>1, <1>6 DEF InboxInv
<1>8. \A i \in 1..Len(Tail(ib)) : ~FrameOf(Tail(ib)[i], r)
  BY SMT, <1>5, <1>7
<1>9. InboxInv(r, d, pe, TRUE, Tail(ib))
  BY <1>3, <1>8 DEF InboxInv
<1>10. pe = "end" => c.status /\ Len(c.body_buffer) = ch
  <2>1. SUFFICES ASSUME pe = "end" PROVE c.status /\ Len(c.body_buffer) = ch
    OBVIOUS
  <2>2. Is(ib[1], r, "end")
    BY <1>5, <1>7, <2>1
  <2>3. c.status
    <3>1. SUFFICES ASSUME ~c.status PROVE FALSE
      OBVIOUS
    <3>2. PICK i \in 1..Len(ib) : \A j \in 1..Len(ib) : Is(ib[j], r, "end") => i < j
      BY <1>1, <1>7, <2>1, <3>1 DEF InboxInv
    <3>3. QED
      BY SMT, <1>6, <2>2, <3>2
  <2>4. Counted(r, c, ch, ib)
    BY <1>7 DEF StreamInv, BodyInv
  <2>5. Len(c.body_buffer) = ch
    BY <1>1, <1>4, <1>5, <2>2, <2>4, CountedTail
  <2>6. QED
    BY <2>3, <2>5
<1>11. ~c.body_ready
  BY <1>7 DEF StreamInv, WakerInv
<1>12. Body(d) = c.body_buffer /\ Body(c) = c.body_buffer
  BY <1>3, <1>11 DEF Body
<1>13. Numbered(d.body_buffer, r) /\ Numbered(d.body_result, r)
  BY SMT, <1>3 DEF StreamInv, BodyInv, Numbered
<1>14. BodyInv(r, d, pe, ch, TRUE, sc, Tail(ib))
  BY <1>3, <1>7, <1>10, <1>12, <1>13 DEF StreamInv, BodyInv
<1>15. CauseInv(d, p, pe, la, sc)
  BY <1>3, <1>7, <1>10 DEF StreamInv, CauseInv, Closing
<1>16. WakerInv(d, p, pe, TRUE, ended)
  <2>1. p \in {"flush", "headers", "response", "body"}
    BY DEF StreamInv, WakerInv
  <2>2. QED
    BY <1>3, <2>1 DEF StreamInv, WakerInv
<1>17. QED
  BY <1>3, <1>9, <1>14, <1>15, <1>16 DEF StreamInv

\* The peer sends a frame.
LEMMA AppendFacts ==
  ASSUME NEW S, NEW s \in Seq(S), NEW x \in S
  PROVE  /\ Append(s, x) \in Seq(S) /\ Len(s) \in Nat /\ Len(Append(s, x)) = Len(s) + 1
         /\ \A i \in 1..Len(s) : Append(s, x)[i] = s[i] /\ i \in 1..Len(Append(s, x))
         /\ Append(s, x)[Len(s) + 1] = x /\ Len(s) + 1 \in 1..Len(Append(s, x))
         /\ \A i \in 1..Len(Append(s, x)) : i \in 1..Len(s) \/ i = Len(s) + 1
BY SMT

\* The chunks after the peer has sent one more frame.
LEMMA CountedAppend ==
  ASSUME NEW r, NEW c \in Contexts, NEW ch \in Nat, NEW ci \in Nat,
         NEW ib \in Seq(PeerFrames), NEW f \in PeerFrames, Counted(r, c, ch, ib),
         Is(f, r, "data") => ci = ch + 1 /\ \A i \in 1..Len(ib) : ~Is(ib[i], r, "end"),
         ~Is(f, r, "data") => ci = ch
  PROVE  Counted(r, c, ci, Append(ib, f))
<1>1. PICK n \in [0..Len(ib) -> Nat] : Counts(n, r, c, ch, ib)
  BY DEF Counted
<1>2. PICK jb : jb = Append(ib, f)
  OBVIOUS
<1>3. /\ jb \in Seq(PeerFrames) /\ Len(ib) \in Nat /\ Len(jb) = Len(ib) + 1
      /\ \A i \in 1..Len(ib) : jb[i] = ib[i] /\ i \in 1..Len(jb)
      /\ jb[Len(ib) + 1] = f /\ Len(ib) + 1 \in 1..Len(jb)
      /\ \A i \in 1..Len(jb) : i \in 1..Len(ib) \/ i = Len(ib) + 1
  BY SMT, <1>2, AppendFacts
<1>4. PICK m : m = [i \in 0..(Len(ib) + 1) |-> IF i = Len(ib) + 1 THEN ci ELSE n[i]]
  OBVIOUS
<1>5. /\ m \in [0..Len(jb) -> Nat] /\ m[Len(ib) + 1] = ci
      /\ \A i \in 0..Len(ib) : m[i] = n[i]
  BY SMT, <1>3, <1>4
<1>6. /\ n[0] = Len(c.body_buffer) /\ n[Len(ib)] = ch
      /\ \A i \in 1..Len(ib) : Is(ib[i], r, "data") => n[i] = n[i - 1] + 1
      /\ \A i \in 1..Len(ib) : ~Is(ib[i], r, "data") => n[i] = n[i - 1]
      /\ \A i \in 1..Len(ib) : Is(ib[i], r, "end") => n[i] = ch
      /\ \A i \in 0..Len(ib) : n[i] <= ch
  BY <1>1 DEF Counts
<1>7. m[0] = Len(c.body_buffer) /\ m[Len(jb)] = ci
  BY SMT, <1>3, <1>5, <1>6
<1>8. \A i \in 0..Len(jb) : m[i] <= ci
  <2>1. ch <= ci
    BY SMT
  <2>2. SUFFICES ASSUME NEW i \in 0..Len(jb) PROVE m[i] <= ci
    OBVIOUS
  <2>3. CASE i = Len(ib) + 1
    BY SMT, <1>5, <2>3
  <2>4. CASE i \in 0..Len(ib)
    <3>1. m[i] = n[i] /\ n[i] <= ch /\ n[i] \in Nat
      BY <1>5, <1>6, <2>4
    <3>2. QED
      BY SMT, <2>1, <3>1
  <2>5. QED
    BY SMT, <1>3, <2>3, <2>4
<1>9. ASSUME NEW i \in 1..Len(jb)
      PROVE  /\ Is(jb[i], r, "data") => m[i] = m[i - 1] + 1
             /\ ~Is(jb[i], r, "data") => m[i] = m[i - 1]
             /\ Is(jb[i], r, "end") => m[i] = ci
  <2>1. CASE i \in 1..Len(ib)
    <3>1. m[i] = n[i] /\ m[i - 1] = n[i - 1] /\ jb[i] = ib[i]
      <4>1. i \in 0..Len(ib) /\ i - 1 \in 0..Len(ib)
        BY SMT, <1>3, <2>1
      <4>2. QED
        BY <1>3, <1>5, <2>1, <4>1
    <3>2. /\ Is(ib[i], r, "data") => n[i] = n[i - 1] + 1
          /\ ~Is(ib[i], r, "data") => n[i] = n[i - 1]
          /\ Is(ib[i], r, "end") => n[i] = ch
      BY <1>6, <2>1
    <3>3. Is(ib[i], r, "end") => ci = ch
      BY <2>1
    <3>4. QED
      BY <3>1, <3>2, <3>3
  <2>2. CASE i = Len(ib) + 1
    <3>1. m[i] = ci /\ m[i - 1] = ch /\ jb[i] = f
      BY SMT, <1>3, <1>5, <1>6, <2>2
    <3>2. QED
      BY <3>1
  <2>3. QED
    BY <1>3, <2>1, <2>2
<1>10. Counts(m, r, c, ci, jb)
  BY <1>7, <1>8, <1>9 DEF Counts
<1>11. QED
  BY <1>2, <1>5, <1>10 DEF Counted

\* The peer sends a frame of another stream.
LEMMA OtherSent ==
  ASSUME NEW r, NEW c, NEW p, NEW pe, NEW ch, NEW la, NEW in, NEW ended, NEW sc, NEW ib,
         NEW f \in PeerFrames, ~FrameOf(f, r),
         StreamTypes(r, c, p, pe, ch, la, in, ended, sc, ib),
         StreamInv(r, c, p, pe, ch, la, in, ended, sc, ib)
  PROVE  StreamInv(r, c, p, pe, ch, la, in, ended, sc, Append(ib, f))
<1>1. ib \in Seq(PeerFrames) /\ c \in Contexts /\ ch \in Nat
  BY DEF StreamTypes
<1>2. PICK jb : jb = Append(ib, f)
  OBVIOUS
<1>3. /\ Len(ib) \in Nat /\ Len(jb) = Len(ib) + 1
      /\ \A i \in 1..Len(ib) : jb[i] = ib[i] /\ i \in 1..Len(jb)
      /\ jb[Len(ib) + 1] = f
      /\ \A i \in 1..Len(jb) : i \in 1..Len(ib) \/ i = Len(ib) + 1
  BY SMT, <1>1, <1>2, AppendFacts
<1>4. \A i \in 1..Len(jb) : FrameOf(jb[i], r) => i \in 1..Len(ib) /\ jb[i] = ib[i]
  BY <1>3
<1>5. \A i \in 1..Len(jb) : Is(jb[i], r, "end") => i \in 1..Len(ib) /\ jb[i] = ib[i]
  BY <1>4 DEF Is, FrameOf
<1>6. InboxInv(r, c, pe, in, ib)
  BY DEF StreamInv
<1>7. /\ \A i \in 1..Len(jb) : FrameOf(jb[i], r) => pe \in {"headers", "end", "rst"}
      /\ \A i \in 1..Len(jb) : FrameOf(jb[i], r) /\ jb[i].kind \in Closing => jb[i].kind = pe
      /\ in /\ c.stream_closed => \A i \in 1..Len(jb) : ~FrameOf(jb[i], r)
  BY <1>4, <1>6 DEF InboxInv
<1>8. \A i, j \in 1..Len(jb) :
        FrameOf(jb[i], r) /\ jb[i].kind \in Closing /\ FrameOf(jb[j], r) => j <= i
  BY <1>4, <1>6 DEF InboxInv
<1>9. ASSUME in, ~c.status, ~c.stream_closed, pe \in {"headers", "end"}
      PROVE  \E i \in 1..Len(jb) :
               /\ Is(jb[i], r, "headers")
               /\ \A j \in 1..Len(jb) : Is(jb[j], r, "end") => i < j
  <2>1. PICK i \in 1..Len(ib) :
          /\ Is(ib[i], r, "headers")
          /\ \A j \in 1..Len(ib) : Is(ib[j], r, "end") => i < j
    BY <1>6, <1>9 DEF InboxInv
  <2>2. i \in 1..Len(jb) /\ Is(jb[i], r, "headers")
    BY <1>3, <2>1
  <2>3. \A j \in 1..Len(jb) : Is(jb[j], r, "end") => i < j
    BY <1>5, <2>1
  <2>4. QED
    BY <2>2, <2>3
<1>10. InboxInv(r, c, pe, in, jb)
  BY <1>7, <1>8, <1>9 DEF InboxInv
<1>11. in /\ ~c.stream_closed => Counted(r, c, ch, jb)
  <2>1. SUFFICES ASSUME in, ~c.stream_closed PROVE Counted(r, c, ch, jb)
    OBVIOUS
  <2>2. Counted(r, c, ch, ib)
    BY <2>1 DEF StreamInv, BodyInv
  <2>3. ~Is(f, r, "data")
    BY DEF Is, FrameOf
  <2>4. QED
    BY <1>1, <1>2, <2>2, <2>3, CountedAppend
<1>12. BodyInv(r, c, pe, ch, in, sc, jb)
  BY <1>11 DEF StreamInv, BodyInv
<1>13. QED
  BY <1>2, <1>10, <1>12 DEF StreamInv

\* What the peer sends next on a stream.
Sends(kind, pe, pf, ch, ci) ==
  /\ kind = "headers" => pe = "got"
  /\ kind = "data" => pe = "headers" /\ ci = ch + 1
  /\ kind = "end" => pe = "headers"
  /\ kind = "rst" => pe \in {"got", "headers"}
  /\ kind # "data" => pf = kind /\ ci = ch
  /\ kind = "data" => pf = pe

\* The peer sends a frame of the stream.
LEMMA OwnSent ==
  ASSUME NEW r, NEW c, NEW p, NEW pe, NEW ch, NEW la, NEW in, NEW ended, NEW sc, NEW ib,
         NEW kind \in {"headers", "data", "end", "rst"}, NEW f \in PeerFrames,
         NEW pf, NEW ci,
         StreamTypes(r, c, p, pe, ch, la, in, ended, sc, ib),
         StreamInv(r, c, p, pe, ch, la, in, ended, sc, ib),
         f.stream = r, f.kind = kind, Sends(kind, pe, pf, ch, ci)
  PROVE  StreamInv(r, c, p, pf, ci, la, in, ended, sc, Append(ib, f))
<1>1. /\ ib \in Seq(PeerFrames) /\ c \in Contexts /\ ch \in Nat /\ ci \in Nat /\ ch <= ci
      /\ in \in BOOLEAN
  BY SMT DEF StreamTypes, Sends
<1>2. PICK jb : jb = Append(ib, f)
  OBVIOUS
<1>3. /\ Len(ib) \in Nat /\ Len(jb) = Len(ib) + 1
      /\ \A i \in 1..Len(ib) : jb[i] = ib[i] /\ i \in 1..Len(jb)
      /\ jb[Len(ib) + 1] = f /\ Len(ib) + 1 \in 1..Len(jb)
      /\ \A i \in 1..Len(jb) : i \in 1..Len(ib) \/ i = Len(ib) + 1
  BY SMT, <1>1, <1>2, AppendFacts
<1>4. pe \in {"got", "headers"} /\ pf \in {"headers", "end", "rst"} /\ p # "idle"
  BY DEF StreamInv, WakerInv, Sends
<1>5. FrameOf(f, r) /\ f.kind = kind /\ f.stream = r
  BY DEF FrameOf
<1>6. InboxInv(r, c, pe, in, ib)
  BY DEF StreamInv
<1>7. \A i \in 1..Len(ib) : FrameOf(ib[i], r) => ib[i].kind \notin Closing
  BY <1>4, <1>6 DEF InboxInv, Closing
<1>8. ~(c.stream_closed /\ (in \/ ~sc))
  BY <1>4 DEF StreamInv, BodyInv, Closing
<1>9. \A i \in 1..Len(jb) : FrameOf(jb[i], r) /\ jb[i].kind \in Closing => jb[i].kind = pf
  BY <1>3, <1>5, <1>7 DEF Closing, Sends
<1>10. \A i, j \in 1..Len(jb) :
         FrameOf(jb[i], r) /\ jb[i].kind \in Closing /\ FrameOf(jb[j], r) => j <= i
  BY SMT, <1>3, <1>7
<1>11. ASSUME in, ~c.status, ~c.stream_closed, pf \in {"headers", "end"}
       PROVE  \E i \in 1..Len(jb) :
                /\ Is(jb[i], r, "headers")
                /\ \A j \in 1..Len(jb) : Is(jb[j], r, "end") => i < j
  <2>1. \A j \in 1..Len(ib) : ~Is(ib[j], r, "end")
    BY <1>7 DEF Is, FrameOf, Closing
  <2>2. CASE kind = "headers"
    <3>1. Is(jb[Len(ib) + 1], r, "headers")
      BY <1>3, <1>5, <2>2 DEF Is
    <3>2. \A j \in 1..Len(jb) : ~Is(jb[j], r, "end")
      BY <1>3, <2>1, <3>1 DEF Is
    <3>3. QED
      BY <1>3, <3>1, <3>2
  <2>3. CASE kind # "headers"
    <3>1. pe \in {"headers", "end"}
      BY <1>11, <2>3 DEF Sends
    <3>2. PICK i \in 1..Len(ib) : Is(ib[i], r, "headers")
      BY <1>6, <1>11, <3>1 DEF InboxInv
    <3>3. i \in 1..Len(jb) /\ Is(jb[i], r, "headers")
      BY <1>3, <3>2
    <3>4. ASSUME NEW j \in 1..Len(jb), Is(jb[j], r, "end") PROVE i < j
      <4>1. j \notin 1..Len(ib)
        BY <1>3, <2>1, <3>4
      <4>2. j = Len(ib) + 1
        BY <1>3, <4>1
      <4>3. QED
        BY SMT, <1>3, <4>2
    <3>5. QED
      BY <3>3, <3>4
  <2>4. QED
    BY <2>2, <2>3
<1>12. InboxInv(r, c, pf, in, jb)
  BY <1>4, <1>8, <1>9, <1>10, <1>11 DEF InboxInv
<1>13. in /\ ~c.stream_closed => Counted(r, c, ci, jb)
  <2>1. SUFFICES ASSUME in, ~c.stream_closed PROVE Counted(r, c, ci, jb)
    OBVIOUS
  <2>2. Counted(r, c, ch, ib)
    BY <2>1 DEF StreamInv, BodyInv
  <2>3. \A j \in 1..Len(ib) : ~Is(ib[j], r, "end")
    BY <1>7 DEF Is, FrameOf, Closing
  <2>4. Is(f, r, "data") <=> kind = "data"
    BY <1>5 DEF Is
  <2>5. QED
    BY <1>1, <1>2, <2>2, <2>3, <2>4, CountedAppend DEF Sends
<1>14. Len(Body(c)) <= ci
  BY SMT, <1>1, BodyTypes DEF StreamInv, BodyInv
<1>15. BodyInv(r, c, pf, ci, in, sc, jb)
  BY <1>4, <1>8, <1>13, <1>14 DEF StreamInv, BodyInv
<1>16. CauseInv(c, p, pf, la, sc)
  BY <1>4 DEF StreamInv, CauseInv, Sends
<1>17. WakerInv(c, p, pf, in, ended)
  BY <1>4 DEF StreamInv, WakerInv
<1>18. QED
  BY <1>2, <1>12, <1>15, <1>16, <1>17 DEF StreamInv

-----------------------------------------------------------------------------
(* What a step does to the queues of frames to send.                        *)

Writes == [by : Actors, frame : Frames]
By(w) == {w[i].by : i \in 1..Len(w)}

\* A frame stays where it is while what makes it unsent holds.
LEMMA QueueKeeps ==
  ASSUME NEW o \in Seq(Frames), NEW w \in Seq(Writes), NEW pe, NEW p, NEW pf, NEW q,
         QueueInv(o, w, pe, p), \A r \in Reqs : Unsent(r, pe, p) => Unsent(r, pf, q)
  PROVE  QueueInv(o, w, pf, q)
BY DEF QueueInv

\* nghttp2 puts the answer to a control frame ahead of the rest.
LEMMA AckQueued ==
  ASSUME NEW o \in Seq(Frames), NEW w \in Seq(Writes), NEW pe, NEW p, NEW q,
         QueueInv(o, w, pe, p), q = <<"ack">> \o o
  PROVE  q \in Seq(Frames) /\ q # <<>> /\ QueueInv(q, w, pe, p)
<1>1. "ack" \in Frames /\ "ack" \notin Reqs
  BY FramesAssumption DEF Frames
<1>2. <<"ack">> \in Seq(Frames) /\ Len(<<"ack">>) = 1 /\ <<"ack">>[1] = "ack"
  BY SMT, <1>1
<1>3. q \in Seq(Frames) /\ Len(o) \in Nat /\ Len(q) = Len(o) + 1 /\ q[1] = "ack"
  BY SMT, <1>2
<1>4. \A i \in 1..Len(q) : i = 1 \/ (i - 1 \in 1..Len(o) /\ q[i] = o[i - 1])
  BY SMT, <1>2, <1>3
<1>5. \A i \in 1..Len(q) : q[i] \in Reqs => i - 1 \in 1..Len(o) /\ q[i] = o[i - 1]
  BY <1>1, <1>3, <1>4
<1>6. ASSUME NEW i \in 1..Len(q), NEW j \in 1..Len(q), q[i] \in Reqs, q[i] = q[j]
      PROVE  i = j
  <2>1. /\ i - 1 \in 1..Len(o) /\ q[i] = o[i - 1]
        /\ j - 1 \in 1..Len(o) /\ q[j] = o[j - 1]
    BY <1>5, <1>6
  <2>2. i - 1 = j - 1
    BY <1>6, <2>1 DEF QueueInv
  <2>3. QED
    BY SMT, <1>3, <2>2
<1>7. \A i \in 1..Len(w), j \in 1..Len(q) : w[i].frame \in Reqs => w[i].frame # q[j]
  <2>1. \A i \in 1..Len(w), j \in 1..Len(o) : w[i].frame \in Reqs => w[i].frame # o[j]
    BY DEF QueueInv
  <2>2. QED
    BY <1>5, <2>1
<1>8. \A i \in 1..Len(q) : q[i] \in Reqs => Unsent(q[i], pe, p)
  BY <1>5 DEF QueueInv
<1>9. QED
  BY SMT, <1>3, <1>6, <1>7, <1>8 DEF QueueInv

\* A request leaves idle for its flush.
Submits(r, pe, p, s) ==
  /\ pe[r] = "none" /\ p[r] = "idle" /\ s[r] # "idle"
  /\ \A x \in Reqs : x # r => s[x] = p[x]

\* submit_request: the HEADERS frame of a request that was idle.
LEMMA RequestQueued ==
  ASSUME NEW o \in Seq(Frames), NEW w \in Seq(Writes), NEW pe, NEW p, NEW r \in Reqs,
         NEW s, NEW q, QueueInv(o, w, pe, p), Submits(r, pe, p, s), q = Append(o, r)
  PROVE  q \in Seq(Frames) /\ q # <<>> /\ QueueInv(q, w, pe, s)
<1>0. /\ pe[r] = "none" /\ p[r] = "idle" /\ s[r] # "idle"
      /\ \A x \in Reqs : x # r => s[x] = p[x]
  BY DEF Submits
<1>1. r \in Frames
  BY DEF Frames
<1>2. /\ q \in Seq(Frames) /\ Len(o) \in Nat /\ Len(q) = Len(o) + 1
      /\ \A i \in 1..Len(o) : q[i] = o[i] /\ i \in 1..Len(q)
      /\ q[Len(o) + 1] = r
      /\ \A i \in 1..Len(q) : i \in 1..Len(o) \/ i = Len(o) + 1
  BY SMT, <1>1, AppendFacts
<1>3. ~Unsent(r, pe, p) /\ Unsent(r, pe, s)
  BY <1>0 DEF Unsent
<1>4. \A x \in Reqs : Unsent(x, pe, p) => Unsent(x, pe, s)
  BY <1>0 DEF Unsent
<1>5. /\ \A i \in 1..Len(w) : w[i].frame # r
      /\ \A i \in 1..Len(o) : o[i] # r
  BY <1>3 DEF QueueInv
<1>6. \A i, j \in 1..Len(q) : q[i] \in Reqs /\ q[i] = q[j] => i = j
  BY SMT, <1>2, <1>5 DEF QueueInv
<1>7. \A i \in 1..Len(w), j \in 1..Len(q) : w[i].frame \in Reqs => w[i].frame # q[j]
  BY SMT, <1>2, <1>5 DEF QueueInv
<1>8. \A i \in 1..Len(q) : q[i] \in Reqs => Unsent(q[i], pe, s)
  BY <1>2, <1>3, <1>4 DEF QueueInv
<1>9. q # <<>>
  BY SMT, <1>2
<1>10. \A i \in 1..Len(w) : w[i].frame \in Reqs => Unsent(w[i].frame, pe, s)
  BY <1>4 DEF QueueInv
<1>11. QueueInv(q, w, pe, s)
  BY <1>6, <1>7, <1>8, <1>10 DEF QueueInv
<1>12. QED
  BY <1>2, <1>9, <1>11

\* What a frame taken by a leaves of the queue and makes of the writes.
Takes(o, w, a, t, v) ==
  /\ o # <<>> /\ a \notin By(w) /\ t = Tail(o)
  /\ v = Append(w, Write(a, Head(o)))

\* flush_writes takes the next frame and writes it.
LEMMA FrameTaken ==
  ASSUME NEW o \in Seq(Frames), NEW w \in Seq(Writes), NEW pe, NEW p, NEW a \in Actors,
         NEW t, NEW v, QueueInv(o, w, pe, p), OneWrite(w), Takes(o, w, a, t, v)
  PROVE  /\ t \in Seq(Frames) /\ v \in Seq(Writes)
         /\ QueueInv(t, v, pe, p) /\ OneWrite(v) /\ By(v) = By(w) \cup {a}
<1>1. /\ o # <<>> /\ a \notin By(w) /\ t = Tail(o)
      /\ v = Append(w, Write(a, Head(o)))
  BY DEF Takes
<1>2. /\ t \in Seq(Frames) /\ Head(o) = o[1] /\ Head(o) \in Frames
      /\ Len(o) \in Nat /\ 1 \in 1..Len(o)
      /\ \A i \in 1..Len(t) : t[i] = o[i + 1] /\ i + 1 \in 1..Len(o) /\ i \in Nat
  BY SMT, <1>1, TailFacts
<1>3. PICK x : x = Write(a, Head(o))
  OBVIOUS
<1>4. x \in Writes /\ x.by = a /\ x.frame = o[1]
  BY <1>2, <1>3 DEF Write, Writes
<1>5. /\ v \in Seq(Writes) /\ Len(w) \in Nat /\ Len(v) = Len(w) + 1
      /\ \A i \in 1..Len(w) : v[i] = w[i] /\ i \in 1..Len(v)
      /\ v[Len(w) + 1] = x /\ Len(w) + 1 \in 1..Len(v)
      /\ \A i \in 1..Len(v) : i \in 1..Len(w) \/ i = Len(w) + 1
  BY SMT, <1>1, <1>3, <1>4, AppendFacts
<1>6. OneWrite(v)
  <2>1. \A i \in 1..Len(w) : w[i].by # a
    BY <1>1 DEF By
  <2>2. ASSUME NEW i \in 1..Len(v), NEW j \in 1..Len(v), v[i].by = v[j].by PROVE i = j
    <3>1. /\ (i \in 1..Len(w) /\ v[i] = w[i]) \/ (i = Len(w) + 1 /\ v[i].by = a)
          /\ (j \in 1..Len(w) /\ v[j] = w[j]) \/ (j = Len(w) + 1 /\ v[j].by = a)
      BY <1>4, <1>5
    <3>2. QED
      BY <2>1, <2>2, <3>1 DEF OneWrite
  <2>3. QED
    BY <2>2 DEF OneWrite
<1>7. By(v) = By(w) \cup {a}
  <2>1. ASSUME NEW b \in By(v) PROVE b \in By(w) \cup {a}
    <3>1. PICK i \in 1..Len(v) : b = v[i].by
      BY DEF By
    <3>2. CASE i \in 1..Len(w)
      BY <1>5, <3>1, <3>2 DEF By
    <3>3. CASE i = Len(w) + 1
      BY <1>4, <1>5, <3>1, <3>3
    <3>4. QED
      BY <1>5, <3>2, <3>3
  <2>2. ASSUME NEW b \in By(w) PROVE b \in By(v)
    BY <1>5 DEF By
  <2>3. a \in By(v)
    BY <1>4, <1>5 DEF By
  <2>4. QED
    BY <2>1, <2>2, <2>3
<1>8. /\ \A i, j \in 1..Len(w) : w[i].frame \in Reqs /\ w[i].frame = w[j].frame => i = j
      /\ \A i, j \in 1..Len(o) : o[i] \in Reqs /\ o[i] = o[j] => i = j
      /\ \A i \in 1..Len(w), j \in 1..Len(o) : w[i].frame \in Reqs => w[i].frame # o[j]
      /\ \A i \in 1..Len(w) : w[i].frame \in Reqs => Unsent(w[i].frame, pe, p)
      /\ \A i \in 1..Len(o) : o[i] \in Reqs => Unsent(o[i], pe, p)
  BY DEF QueueInv
<1>9. \A i, j \in 1..Len(v) : v[i].frame \in Reqs /\ v[i].frame = v[j].frame => i = j
  <2>1. \A i \in 1..Len(w) : w[i].frame \in Reqs => w[i].frame # o[1]
    BY <1>2, <1>8
  <2>2. ASSUME NEW i \in 1..Len(v), NEW j \in 1..Len(v), v[i].frame \in Reqs,
               v[i].frame = v[j].frame
        PROVE  i = j
    <3>1. CASE i \in 1..Len(w) /\ j \in 1..Len(w)
      <4>1. v[i] = w[i] /\ v[j] = w[j]
        BY <1>5, <3>1
      <4>2. QED
        BY <1>8, <2>2, <3>1, <4>1
    <3>2. CASE i \in 1..Len(w) /\ j = Len(w) + 1
      <4>1. v[i] = w[i] /\ v[j].frame = o[1]
        BY <1>4, <1>5, <3>2
      <4>2. QED
        BY <2>1, <2>2, <3>2, <4>1
    <3>3. CASE i = Len(w) + 1 /\ j \in 1..Len(w)
      <4>1. v[j] = w[j] /\ v[i].frame = o[1]
        BY <1>4, <1>5, <3>3
      <4>2. QED
        BY <2>1, <2>2, <3>3, <4>1
    <3>4. QED
      BY <1>5, <3>1, <3>2, <3>3
  <2>3. QED
    BY <2>2
<1>10. ASSUME NEW i \in 1..Len(t), NEW j \in 1..Len(t), t[i] \in Reqs, t[i] = t[j]
       PROVE  i = j
  <2>1. i + 1 = j + 1
    BY SMT, <1>2, <1>8, <1>10
  <2>2. QED
    BY SMT, <1>2, <2>1
<1>11. ASSUME NEW i \in 1..Len(v), NEW j \in 1..Len(t), v[i].frame \in Reqs
       PROVE  v[i].frame # t[j]
  <2>1. CASE i \in 1..Len(w)
    <3>1. v[i] = w[i] /\ t[j] = o[j + 1] /\ j + 1 \in 1..Len(o)
      BY <1>2, <1>5, <2>1
    <3>2. QED
      BY <1>8, <1>11, <2>1, <3>1
  <2>2. CASE i = Len(w) + 1
    <3>1. v[i].frame = o[1] /\ t[j] = o[j + 1] /\ j + 1 \in 1..Len(o) /\ j + 1 # 1
      BY SMT, <1>2, <1>4, <1>5, <2>2
    <3>2. QED
      BY <1>2, <1>8, <1>11, <3>1
  <2>3. QED
    BY <1>5, <2>1, <2>2
<1>12. \A i \in 1..Len(v) : v[i].frame \in Reqs => Unsent(v[i].frame, pe, p)
  BY <1>2, <1>4, <1>5, <1>8
<1>13. \A i \in 1..Len(t) : t[i] \in Reqs => Unsent(t[i], pe, p)
  BY <1>2, <1>8
<1>14. QueueInv(t, v, pe, p)
  BY <1>9, <1>10, <1>11, <1>12, <1>13 DEF QueueInv
<1>15. QED
  BY <1>1, <1>2, <1>5, <1>6, <1>7, <1>14

\* v is w without its k-th element.
Without(v, w, k) ==
  /\ \A i \in 1..Len(v) : \E x \in 1..Len(w) : x # k /\ v[i] = w[x]
  /\ \A i, j \in 1..Len(v) : v[i] = v[j] => i = j
  /\ \A x \in 1..Len(w) : x # k => \E i \in 1..Len(v) : v[i] = w[x]

\* A write in flight goes away: the frames are where they were, without it.
LEMMA WriteGone ==
  ASSUME NEW o \in Seq(Frames), NEW w \in Seq(Writes), NEW pe, NEW p, NEW k \in 1..Len(w),
         NEW v \in Seq(Writes), QueueInv(o, w, pe, p), OneWrite(w), Without(v, w, k)
  PROVE  /\ QueueInv(o, v, pe, p) /\ OneWrite(v) /\ By(v) = By(w) \ {w[k].by}
         /\ \A i \in 1..Len(v) : w[k].frame \in Reqs => v[i].frame # w[k].frame
<1>1. ASSUME NEW i \in 1..Len(v), NEW j \in 1..Len(v), v[i].frame \in Reqs,
             v[i].frame = v[j].frame
      PROVE  i = j
  <2>1. PICK x \in 1..Len(w) : v[i] = w[x]
    BY DEF Without
  <2>2. PICK y \in 1..Len(w) : v[j] = w[y]
    BY DEF Without
  <2>3. x = y
    BY <1>1, <2>1, <2>2 DEF QueueInv
  <2>4. QED
    BY SMT, <2>1, <2>2, <2>3 DEF Without
<1>2. ASSUME NEW i \in 1..Len(v), v[i].frame \in Reqs
      PROVE  /\ v[i].frame # w[k].frame
             /\ Unsent(v[i].frame, pe, p)
             /\ \A j \in 1..Len(o) : v[i].frame # o[j]
  <2>1. PICK x \in 1..Len(w) : x # k /\ v[i] = w[x]
    BY DEF Without
  <2>2. QED
    BY <1>2, <2>1 DEF QueueInv
<1>3. \A i, j \in 1..Len(o) : o[i] \in Reqs /\ o[i] = o[j] => i = j
  BY DEF QueueInv
<1>4. \A i \in 1..Len(o) : o[i] \in Reqs => Unsent(o[i], pe, p)
  BY DEF QueueInv
<1>5. QueueInv(o, v, pe, p)
  BY <1>1, <1>2, <1>3, <1>4 DEF QueueInv
<1>6. OneWrite(v)
  <2>1. SUFFICES ASSUME NEW i \in 1..Len(v), NEW j \in 1..Len(v), v[i].by = v[j].by
                 PROVE  i = j
    BY DEF OneWrite
  <2>2. PICK x \in 1..Len(w) : v[i] = w[x]
    BY DEF Without
  <2>3. PICK y \in 1..Len(w) : v[j] = w[y]
    BY DEF Without
  <2>4. x = y
    BY <2>1, <2>2, <2>3 DEF OneWrite
  <2>5. QED
    BY SMT, <2>2, <2>3, <2>4 DEF Without
<1>7. By(v) = By(w) \ {w[k].by}
  <2>1. ASSUME NEW i \in 1..Len(v) PROVE v[i].by \in By(w) /\ v[i].by # w[k].by
    <3>1. PICK x \in 1..Len(w) : x # k /\ v[i] = w[x]
      BY DEF Without
    <3>2. QED
      BY <3>1 DEF By, OneWrite
  <2>2. ASSUME NEW x \in 1..Len(w), w[x].by # w[k].by PROVE w[x].by \in By(v)
    <3>1. PICK i \in 1..Len(v) : v[i] = w[x]
      BY <2>2 DEF Without
    <3>2. QED
      BY <3>1 DEF By
  <2>3. By(v) \subseteq By(w) \ {w[k].by}
    BY <2>1 DEF By
  <2>4. By(w) \ {w[k].by} \subseteq By(v)
    BY <2>2 DEF By
  <2>5. QED
    BY <2>3, <2>4
<1>8. QED
  BY <1>2, <1>5, <1>6, <1>7

\* The write of a, done or failed, goes away.
LEMMA WriteOut ==
  ASSUME NEW o \in Seq(Frames), writes \in Seq(Writes), NEW pe, NEW p, NEW a \in Actors,
         QueueInv(o, writes, pe, p), OneWrite(writes), a \in By(writes),
         NEW v, v = WithoutWrite(a), NEW k, k = WriteOf(a)
  PROVE  /\ v \in Seq(Writes) /\ QueueInv(o, v, pe, p) /\ OneWrite(v)
         /\ By(v) = By(writes) \ {a}
         /\ k \in 1..Len(writes)
         /\ \A i \in 1..Len(v) :
              writes[k].frame \in Reqs => v[i].frame # writes[k].frame
<1>1. k = CHOOSE i \in DOMAIN writes : writes[i].by = a
  BY DEF WriteOf
<1>2. PICK n \in Nat : n = Len(writes) /\ DOMAIN writes = 1..n
  BY SMT
<1>3. k \in 1..n /\ writes[k].by = a
  BY <1>1, <1>2 DEF By
<1>4. v = [i \in 1..(n - 1) |-> IF i < k THEN writes[i] ELSE writes[i + 1]]
  BY <1>2 DEF WithoutWrite
<1>5. PICK at : at = [i \in 1..(n - 1) |-> IF i < k THEN i ELSE i + 1]
  OBVIOUS
<1>6. \A i \in 1..(n - 1) : at[i] \in 1..n /\ at[i] # k
  BY SMT, <1>2, <1>3, <1>5
<1>7. \A i \in 1..(n - 1) : v[i] = writes[at[i]]
  BY SMT, <1>4, <1>5
<1>8. \A i \in 1..n : writes[i] \in Writes
  BY SMT, <1>2
<1>9. v \in [1..(n - 1) -> Writes]
  BY <1>4, <1>6, <1>7, <1>8
<1>10. v \in Seq(Writes) /\ Len(v) = n - 1
  BY SMT, <1>2, <1>3, <1>9
<1>11. ASSUME NEW i \in 1..Len(v)
       PROVE  at[i] \in 1..n /\ at[i] # k /\ v[i] = writes[at[i]]
  BY <1>6, <1>7, <1>10
<1>12. ASSUME NEW i \in 1..Len(v), NEW j \in 1..Len(v), v[i] = v[j] PROVE i = j
  <2>1. at[i] = at[j]
    <3>1. at[i] \in 1..n /\ v[i] = writes[at[i]] /\ at[j] \in 1..n /\ v[j] = writes[at[j]]
      BY <1>11
    <3>2. writes[at[i]].by = writes[at[j]].by
      BY <1>12, <3>1
    <3>3. QED
      BY <1>2, <3>1, <3>2 DEF OneWrite
  <2>2. QED
    BY SMT, <1>2, <1>3, <1>5, <1>10, <2>1
<1>13. ASSUME NEW j \in 1..n, j # k
       PROVE  \E i \in 1..Len(v) : v[i] = writes[j]
  <2>1. CASE j < k
    <3>1. j \in 1..Len(v) /\ at[j] = j
      BY SMT, <1>2, <1>3, <1>5, <1>10, <2>1
    <3>2. QED
      BY <1>11, <3>1
  <2>2. CASE ~(j < k)
    <3>1. PICK i : i = j - 1
      OBVIOUS
    <3>2. i \in 1..Len(v) /\ at[i] = j
      BY SMT, <1>2, <1>3, <1>5, <1>10, <1>13, <2>2, <3>1
    <3>3. QED
      BY <1>11, <3>2
  <2>3. QED
    BY <2>1, <2>2
<1>14. \A i \in 1..Len(v) : \E x \in 1..Len(writes) : x # k /\ v[i] = writes[x]
  BY <1>2, <1>11
<1>15. Without(v, writes, k)
  BY <1>2, <1>12, <1>13, <1>14 DEF Without
<1>16. QED
  BY SMT, <1>2, <1>3, <1>10, <1>15, WriteGone

\* The write of a is done, and the peer may have its frame.
LEMMA WriteDone ==
  ASSUME NEW o \in Seq(Frames), writes \in Seq(Writes), NEW pe, NEW p, NEW a \in Actors,
         QueueInv(o, writes, pe, p), OneWrite(writes), a \in By(writes),
         NEW v, v = WithoutWrite(a), NEW x, x = writes[WriteOf(a)].frame, NEW pf,
         \A r \in Reqs : pf[r] = pe[r] \/ r = x
  PROVE  /\ v \in Seq(Writes) /\ QueueInv(o, v, pf, p) /\ OneWrite(v)
         /\ By(v) = By(writes) \ {a}
         /\ x \in Reqs => Unsent(x, pe, p)
<1>1. PICK k : k = WriteOf(a)
  OBVIOUS
<1>2. /\ v \in Seq(Writes) /\ QueueInv(o, v, pe, p) /\ OneWrite(v)
      /\ By(v) = By(writes) \ {a}
      /\ k \in 1..Len(writes) /\ x = writes[k].frame
      /\ \A i \in 1..Len(v) : x \in Reqs => v[i].frame # x
  BY SMT, <1>1, WriteOut
<1>3. ASSUME NEW i \in 1..Len(v), v[i].frame \in Reqs PROVE Unsent(v[i].frame, pf, p)
  <2>1. Unsent(v[i].frame, pe, p) /\ v[i].frame # x
    BY <1>2, <1>3 DEF QueueInv
  <2>2. QED
    BY <1>3, <2>1 DEF Unsent
<1>4. ASSUME NEW i \in 1..Len(o), o[i] \in Reqs PROVE Unsent(o[i], pf, p)
  <2>1. Unsent(o[i], pe, p)
    BY <1>4 DEF QueueInv
  <2>2. x \in Reqs => o[i] # x
    BY <1>2 DEF QueueInv
  <2>3. o[i] # x
    BY <1>4, <2>2
  <2>4. QED
    BY <1>4, <2>1, <2>3 DEF Unsent
<1>5. QueueInv(o, v, pf, p)
  BY <1>2, <1>3, <1>4 DEF QueueInv
<1>6. x \in Reqs => Unsent(x, pe, p)
  BY <1>2 DEF QueueInv
<1>7. QED
  BY <1>2, <1>5, <1>6

-----------------------------------------------------------------------------
(* The actions.                                                             *)

\* The parts of a stream have the types the lemmas ask for.
LEMMA StreamTyped ==
  ASSUME TypeOK, NEW r \in Reqs
  PROVE  /\ StreamTypes(r, ctx[r], pc[r], peer[r], chunks[r], late[r], r \in streams_,
                        driver = "done", should_close_, inbox)
         /\ ctx[r] \in Contexts /\ pc[r] \in Places /\ peer[r] \in PeerStates
         /\ chunks[r] \in 0..MaxFrames /\ chunks[r] \in Nat /\ late[r] \in BOOLEAN
<1>1. /\ ctx[r] \in Contexts /\ pc[r] \in Places /\ peer[r] \in PeerStates
      /\ chunks[r] \in 0..MaxFrames /\ chunks[r] \in Nat
  <2>1. /\ ctx \in [Reqs -> Contexts] /\ pc \in [Reqs -> Places] /\ peer \in [Reqs -> PeerStates]
        /\ chunks \in [Reqs -> 0..MaxFrames]
    BY DEF TypeOK, Places, PeerStates
  <2>2. QED
    BY SMT, <2>1, BoundsAssumption
<1>2. late[r] \in BOOLEAN /\ should_close_ \in BOOLEAN /\ inbox \in Seq(PeerFrames)
  BY DEF TypeOK
<1>3. (r \in streams_) \in BOOLEAN
  BY TruthOfIn
<1>4. (driver = "done") \in BOOLEAN
  BY TruthOfEquals
<1>5. QED
  BY <1>1, <1>2, <1>3, <1>4 DEF StreamTypes

\* OwnSent for a stream of the session.
LEMMA OwnSentNow ==
  ASSUME TypeOK, NEW r \in Reqs, Stream(r),
         NEW kind \in {"headers", "data", "end", "rst"}, NEW f \in PeerFrames, NEW pf, NEW ci,
         f.stream = r, f.kind = kind, Sends(kind, peer[r], pf, chunks[r], ci)
  PROVE  StreamInv(r, ctx[r], pc[r], pf, ci, late[r], r \in streams_, driver = "done",
                   should_close_, Append(inbox, f))
<1>1. StreamTypes(r, ctx[r], pc[r], peer[r], chunks[r], late[r], r \in streams_,
                  driver = "done", should_close_, inbox)
  BY StreamTyped
<1>2. StreamInv(r, ctx[r], pc[r], peer[r], chunks[r], late[r], r \in streams_,
                driver = "done", should_close_, inbox)
  BY DEF Stream
<1>3. QED
  BY SMT, <1>1, <1>2, OwnSent

\* A stream nobody touches.
LEMMA StreamKeeps ==
  ASSUME NEW r \in Reqs, Stream(r),
         ctx'[r] = ctx[r], pc'[r] = pc[r], peer'[r] = peer[r], chunks'[r] = chunks[r],
         late'[r] = late[r], r \in streams_' <=> r \in streams_,
         driver' = "done" <=> driver = "done", should_close_' = should_close_,
         inbox' = inbox
  PROVE  Stream(r)'
<1>1. (r \in streams_') = (r \in streams_) /\ (driver' = "done") = (driver = "done")
  BY SMT
<1>2. QED
  BY <1>1 DEF Stream

\* close_async.
LEMMA StreamClosing ==
  ASSUME H2Inv, CloseAsync, NEW r \in Reqs
  PROVE  Stream(r)'
<1>1. should_close_' = TRUE
  BY DEF CloseAsync
<1>2. UNCHANGED <<streams_, ctx, pc, peer, chunks, late, driver, inbox>>
  BY DEF CloseAsync, peervars
<1>3. TypeOK /\ Stream(r)
  BY DEF H2Inv
<1>4. StreamInv(r, ctx[r], pc[r], peer[r], chunks[r], late[r], r \in streams_,
                driver = "done", TRUE, inbox)
  BY <1>3, StreamTyped, ClosingStream DEF Stream
<1>5. QED
  BY <1>1, <1>2, <1>4 DEF Stream

\* TypeOK in the terms of the lemmas.
VarTypes ==
  /\ streams_ \subseteq Reqs
  /\ ctx \in [Reqs -> Contexts]
  /\ pc \in [Reqs -> Places]
  /\ got \in [Reqs -> Bodies]
  /\ out \in Seq(Frames)
  /\ writes \in Seq(Writes)
  /\ driver \in {"none", "read", "flush", "done"}
  /\ should_close_ \in BOOLEAN /\ fd_open \in BOOLEAN
  /\ closer \in {"idle", "joining", "closed"}
  /\ inbox \in Seq(PeerFrames)
  /\ peer \in [Reqs -> PeerStates]
  /\ chunks \in [Reqs -> 0..MaxFrames] /\ sent \in 0..MaxFrames
  /\ peer_gone \in BOOLEAN
  /\ late \in [Reqs -> BOOLEAN]

Flushing(w, d, p) ==
  \A a \in Actors : a \in By(w) <=> (IF a = Driver THEN d = "flush" ELSE p[a] = "flush")

\* TypeOK is these two together.
LEMMA TypeSplit ==
  /\ TypeOK <=> VarTypes /\ Flushing(writes, driver, pc)
  /\ TypeOK' <=> VarTypes' /\ Flushing(writes', driver', pc')
<1>1. ASSUME NEW w \in Seq(Writes), NEW a
      PROVE  a \in By(w) <=> \E i \in DOMAIN w : w[i].by = a
  BY SMT DEF By
<1>2. writes \in Seq(Writes) =>
        (Flushing(writes, driver, pc) <=>
          \A a \in Actors :
            (\E i \in DOMAIN writes : writes[i].by = a) <=>
              (IF a = Driver THEN driver = "flush" ELSE pc[a] = "flush"))
  BY SMT, <1>1 DEF Flushing
<1>3. writes' \in Seq(Writes) =>
        (Flushing(writes', driver', pc') <=>
          \A a \in Actors :
            (\E i \in DOMAIN writes' : writes'[i].by = a) <=>
              (IF a = Driver THEN driver' = "flush" ELSE pc'[a] = "flush"))
  BY SMT, <1>1 DEF Flushing
<1>4. TypeOK <=> VarTypes /\ Flushing(writes, driver, pc)
  BY <1>2 DEF TypeOK, VarTypes, Places, PeerStates, Writes
<1>5. TypeOK' <=> VarTypes' /\ Flushing(writes', driver', pc')
  BY <1>3 DEF TypeOK, VarTypes, Places, PeerStates, Writes
<1>6. QED
  BY <1>4, <1>5

\* A step of another stream keeps the result of r.
LEMMA ResultSame ==
  ASSUME NEW r \in Reqs, Result(r),
         pc'[r] = pc[r], got'[r] = got[r], peer'[r] = peer[r], chunks'[r] = chunks[r],
         late' = late, should_close_' = should_close_
  PROVE  Result(r)'
BY DEF Result

\* The results of a coroutine that does not move.
LEMMA ResultKeeps ==
  ASSUME VarTypes, NEW r \in Reqs, Result(r),
         pc'[r] = pc[r], got'[r] = got[r], chunks'[r] \in Nat,
         late[r] => late'[r], should_close_ => should_close_',
         \/ peer'[r] = peer[r] /\ chunks'[r] = chunks[r]
         \/ peer[r] \notin {"end", "rst"} /\ chunks[r] <= chunks'[r]
  PROVE  Result(r)'
<1>1. Len(got[r]) \in Nat /\ chunks[r] \in Nat
  BY SMT, BoundsAssumption DEF VarTypes, Bodies
<1>2. pc[r] = "done" => Numbered(got[r], r) /\ Len(got[r]) <= chunks[r]
  BY DEF Result, ResultInv
<1>3. pc'[r] = "done" => Numbered(got'[r], r) /\ Len(got'[r]) <= chunks'[r]
  BY SMT, <1>1, <1>2
<1>4. pc'[r] = "done" /\ peer'[r] # "rst" /\ ~should_close_' =>
        peer'[r] = "end" /\ Len(got'[r]) = chunks'[r]
  BY DEF Result, ResultInv
<1>5. pc'[r] = "failed" => peer'[r] = "rst" \/ should_close_' \/ late'[r]
  BY DEF Result, ResultInv
<1>6. QED
  BY <1>3, <1>4, <1>5 DEF Result, ResultInv

\* The results of a coroutine that goes on.
LEMMA ResultOpen ==
  ASSUME NEW r \in Reqs, pc'[r] \notin {"done", "failed"}
  PROVE  Result(r)'
BY DEF Result, ResultInv

\* What the invariant says, in the terms of the lemmas.
LEMMA H2Facts ==
  ASSUME H2Inv
  PROVE  /\ TypeOK /\ VarTypes /\ Flushing(writes, driver, pc)
         /\ OneWrite(writes) /\ QueueInv(out, writes, peer, pc) /\ SessionInv
         /\ \A r \in Reqs : Stream(r) /\ Result(r) /\ chunks[r] <= sent
BY TypeSplit DEF H2Inv

\* close_async keeps the invariant.
LEMMA InvCloseAsync == H2Inv /\ CloseAsync => H2Inv'
<1>1. SUFFICES ASSUME H2Inv, CloseAsync PROVE H2Inv'
  OBVIOUS
<1>2. /\ should_close_' = TRUE /\ fd_open' = FALSE
      /\ closer' \in {"idle", "joining", "closed"}
      /\ UNCHANGED <<streams_, ctx, pc, got, out, writes, driver, inbox, peer, chunks, sent,
                     peer_gone, late>>
  BY <1>1 DEF CloseAsync, peervars
<1>3. /\ TypeOK /\ VarTypes /\ Flushing(writes, driver, pc)
      /\ OneWrite(writes) /\ QueueInv(out, writes, peer, pc) /\ SessionInv
      /\ \A r \in Reqs : Stream(r) /\ Result(r) /\ chunks[r] <= sent
  BY <1>1, H2Facts
<1>4. TypeOK'
  <2>1. VarTypes'
    BY <1>2, <1>3 DEF VarTypes
  <2>2. QED
    BY <1>2, <1>3, <2>1, TypeSplit
<1>5. OneWrite(writes)' /\ QueueInv(out, writes, peer, pc)'
  BY SMT, <1>2, <1>3 DEF OneWrite, QueueInv, Unsent
<1>6. SessionInv'
  BY <1>2, <1>3 DEF SessionInv
<1>7. ASSUME NEW r \in Reqs PROVE Stream(r)' /\ Result(r)' /\ chunks'[r] <= sent'
  <2>1. chunks[r] \in Nat
    BY <1>3, StreamTyped
  <2>2. Result(r)'
    BY <1>2, <1>3, <2>1, ResultKeeps
  <2>3. QED
    BY <1>1, <1>2, <1>3, <2>2, StreamClosing
<1>8. QED
  BY <1>4, <1>5, <1>6, <1>7 DEF H2Inv

\* The end of the connection keeps the invariant.
LEMMA InvPeerCloses == H2Inv /\ PeerCloses => H2Inv'
<1>1. SUFFICES ASSUME H2Inv, PeerCloses PROVE H2Inv'
  OBVIOUS
<1>2. /\ peer_gone' = TRUE
      /\ UNCHANGED <<streams_, ctx, pc, got, out, writes, driver, should_close_, fd_open,
                     closer, inbox, peer, chunks, sent, late>>
  BY <1>1 DEF PeerCloses
<1>3. /\ TypeOK /\ VarTypes /\ Flushing(writes, driver, pc)
      /\ OneWrite(writes) /\ QueueInv(out, writes, peer, pc) /\ SessionInv
      /\ \A r \in Reqs : Stream(r) /\ Result(r) /\ chunks[r] <= sent
  BY <1>1, H2Facts
<1>4. TypeOK'
  <2>1. VarTypes'
    BY <1>2, <1>3 DEF VarTypes
  <2>2. QED
    BY <1>2, <1>3, <2>1, TypeSplit
<1>5. OneWrite(writes)' /\ QueueInv(out, writes, peer, pc)'
  BY SMT, <1>2, <1>3 DEF OneWrite, QueueInv, Unsent
<1>6. SessionInv'
  BY <1>2, <1>3 DEF SessionInv
<1>7. ASSUME NEW r \in Reqs PROVE Stream(r)' /\ Result(r)' /\ chunks'[r] <= sent'
  <2>1. chunks[r] \in Nat
    BY <1>3, StreamTyped
  <2>2. Result(r)'
    BY <1>2, <1>3, <2>1, ResultKeeps
  <2>3. Stream(r)'
    BY <1>2, <1>3, StreamKeeps
  <2>4. QED
    BY <1>2, <1>3, <2>2, <2>3
<1>8. QED
  BY <1>4, <1>5, <1>6, <1>7 DEF H2Inv

\* A frame of the peer: the streams it does not belong to.
LEMMA SentElsewhere ==
  ASSUME TypeOK, NEW r \in Reqs, Stream(r), NEW f \in PeerFrames, ~FrameOf(f, r),
         inbox' = Append(inbox, f), ctx'[r] = ctx[r], pc'[r] = pc[r], peer'[r] = peer[r],
         chunks'[r] = chunks[r], late'[r] = late[r],
         UNCHANGED <<streams_, driver, should_close_>>
  PROVE  Stream(r)'
<1>1. StreamInv(r, ctx[r], pc[r], peer[r], chunks[r], late[r], r \in streams_,
                driver = "done", should_close_, Append(inbox, f))
  BY SMT, StreamTyped, OtherSent DEF Stream
<1>2. QED
  BY <1>1 DEF Stream

\* A control frame keeps the invariant.
LEMMA InvPeerControl == H2Inv /\ PeerControl => H2Inv'
<1>1. SUFFICES ASSUME H2Inv, PeerControl PROVE H2Inv'
  OBVIOUS
<1>2. PICK f : f = [kind |-> "ctl"]
  OBVIOUS
<1>3. /\ sent < MaxFrames /\ sent' = sent + 1 /\ inbox' = Append(inbox, f)
      /\ UNCHANGED <<streams_, ctx, pc, got, out, writes, driver, should_close_, fd_open,
                     closer, peer, chunks, peer_gone, late>>
  BY <1>1, <1>2 DEF PeerControl
<1>4. /\ TypeOK /\ VarTypes /\ Flushing(writes, driver, pc)
      /\ OneWrite(writes) /\ QueueInv(out, writes, peer, pc) /\ SessionInv
      /\ \A r \in Reqs : Stream(r) /\ Result(r) /\ chunks[r] <= sent
  BY <1>1, H2Facts
<1>5. f \in PeerFrames /\ f.kind = "ctl"
  BY <1>2 DEF PeerFrames
<1>6. TypeOK'
  <2>1. inbox' \in Seq(PeerFrames)
    BY SMT, <1>3, <1>4, <1>5 DEF VarTypes
  <2>2. sent' \in 0..MaxFrames
    BY SMT, <1>3, <1>4, BoundsAssumption DEF VarTypes
  <2>3. VarTypes'
    BY <1>3, <1>4, <2>1, <2>2 DEF VarTypes
  <2>4. QED
    BY <1>3, <1>4, <2>3, TypeSplit
<1>7. OneWrite(writes)' /\ QueueInv(out, writes, peer, pc)'
  BY SMT, <1>3, <1>4 DEF OneWrite, QueueInv, Unsent
<1>8. SessionInv'
  BY <1>3, <1>4 DEF SessionInv
<1>9. ASSUME NEW r \in Reqs PROVE Stream(r)' /\ Result(r)' /\ chunks'[r] <= sent'
  <2>1. chunks[r] \in Nat /\ sent \in Nat
    BY SMT, <1>4, StreamTyped, BoundsAssumption DEF VarTypes
  <2>2. Result(r)'
    BY <1>3, <1>4, <2>1, ResultKeeps
  <2>3. ~FrameOf(f, r)
    BY <1>5 DEF FrameOf
  <2>4. Stream(r)'
    BY <1>3, <1>4, <1>5, <2>3, SentElsewhere
  <2>5. QED
    BY SMT, <1>3, <1>4, <2>1, <2>2, <2>4
<1>10. QED
  BY <1>6, <1>7, <1>8, <1>9 DEF H2Inv

\* A frame of a stream keeps the invariant.
LEMMA InvPeerSends ==
  ASSUME H2Inv, NEW q \in Reqs, NEW kind \in {"headers", "data", "end", "rst"},
         PeerSends(q, kind)
  PROVE  H2Inv'
<1>1. PICK f : f = [stream |-> q, kind |-> kind]
  OBVIOUS
<1>2. /\ kind = "headers" => peer[q] = "got"
      /\ kind = "data" => peer[q] = "headers" /\ sent < MaxFrames
      /\ kind = "end" => peer[q] = "headers"
      /\ kind = "rst" => peer[q] \in {"got", "headers"}
  BY DEF PeerSends
<1>3. /\ inbox' = Append(inbox, f)
      /\ peer' = [peer EXCEPT ![q] = IF kind = "data" THEN @ ELSE kind]
      /\ chunks' = [chunks EXCEPT ![q] = IF kind = "data" THEN @ + 1 ELSE @]
      /\ sent' = IF kind = "data" THEN sent + 1 ELSE sent
      /\ UNCHANGED <<streams_, ctx, pc, got, out, writes, driver, should_close_, fd_open,
                     closer, peer_gone, late>>
  BY <1>1 DEF PeerSends
<1>4. /\ TypeOK /\ VarTypes /\ Flushing(writes, driver, pc)
      /\ OneWrite(writes) /\ QueueInv(out, writes, peer, pc) /\ SessionInv
      /\ \A r \in Reqs : Stream(r) /\ Result(r) /\ chunks[r] <= sent
  BY H2Facts
<1>5. f \in PeerFrames /\ f.kind = kind /\ f.stream = q
  BY <1>1 DEF PeerFrames
<1>6. /\ peer'[q] = (IF kind = "data" THEN peer[q] ELSE kind)
      /\ chunks'[q] = (IF kind = "data" THEN chunks[q] + 1 ELSE chunks[q])
      /\ \A r \in Reqs : r # q => peer'[r] = peer[r] /\ chunks'[r] = chunks[r]
  BY <1>3, <1>4 DEF VarTypes
<1>7. \A r \in Reqs : chunks[r] \in Nat /\ chunks[r] <= MaxFrames /\ sent \in Nat
  <2>1. chunks \in [Reqs -> 0..MaxFrames] /\ sent \in 0..MaxFrames
    BY <1>4 DEF VarTypes
  <2>2. QED
    BY SMT, <2>1, BoundsAssumption
<1>8. \A r \in Reqs : chunks'[r] <= sent' /\ chunks'[r] \in Nat
  BY SMT, <1>3, <1>4, <1>6, <1>7
<1>9. TypeOK'
  <2>1. inbox' \in Seq(PeerFrames)
    BY SMT, <1>3, <1>4, <1>5 DEF VarTypes
  <2>2. sent' \in 0..MaxFrames
    BY SMT, <1>2, <1>3, <1>4, BoundsAssumption DEF VarTypes
  <2>3. chunks' \in [Reqs -> 0..MaxFrames]
    <3>1. \A r \in Reqs : chunks'[r] \in 0..MaxFrames
      BY SMT, <1>8, <2>2, BoundsAssumption
    <3>2. QED
      BY <1>3, <1>4, <3>1 DEF VarTypes
  <2>4. peer' \in [Reqs -> PeerStates]
    BY <1>3, <1>4 DEF VarTypes, PeerStates
  <2>5. VarTypes'
    BY <1>3, <1>4, <2>1, <2>2, <2>3, <2>4 DEF VarTypes
  <2>6. QED
    BY <1>3, <1>4, <2>5, TypeSplit
<1>10. OneWrite(writes)' /\ QueueInv(out, writes, peer, pc)'
  <2>1. \A r \in Reqs : Unsent(r, peer, pc) => Unsent(r, peer', pc)
    BY <1>2, <1>6 DEF Unsent
  <2>2. QueueInv(out, writes, peer', pc)
    BY <1>4, <2>1, QueueKeeps DEF VarTypes
  <2>3. QED
    BY <1>3, <1>4, <2>2
<1>11. SessionInv'
  BY <1>3, <1>4 DEF SessionInv
<1>12. ASSUME NEW r \in Reqs PROVE Stream(r)' /\ Result(r)'
  <2>1. Result(r)'
    <3>1. CASE r = q
      <4>1. peer[r] \notin {"end", "rst"} /\ chunks[r] <= chunks'[r]
        BY SMT, <1>2, <1>6, <1>7, <3>1
      <4>2. QED
        BY <1>3, <1>4, <1>8, <4>1, ResultKeeps
    <3>2. CASE r # q
      BY <1>3, <1>4, <1>6, <1>8, <3>2, ResultKeeps
    <3>3. QED
      BY <3>1, <3>2
  <2>2. CASE r # q
    <3>1. ~FrameOf(f, r)
      BY <1>5, <2>2 DEF FrameOf
    <3>2. QED
      BY <1>3, <1>4, <1>5, <1>6, <2>1, <2>2, <3>1, SentElsewhere
  <2>3. CASE r = q
    <3>1. StreamInv(r, ctx[r], pc[r], peer'[r], chunks'[r], late[r], r \in streams_,
                    driver = "done", should_close_, Append(inbox, f))
      <4>1. Sends(kind, peer[r], peer'[r], chunks[r], chunks'[r])
        BY <1>2, <1>6, <2>3 DEF Sends
      <4>2. f.stream = r /\ f.kind = kind
        BY <1>5, <2>3
      <4>3. QED
        BY <1>4, <1>5, <4>1, <4>2, OwnSentNow
    <3>2. QED
      BY <1>3, <2>1, <3>1 DEF Stream
  <2>4. QED
    BY <2>2, <2>3
<1>13. QED
  BY <1>8, <1>9, <1>10, <1>11, <1>12 DEF H2Inv

\* A coroutine that goes on without touching the connection.
LEMMA InvLocal ==
  ASSUME H2Inv, NEW q \in Reqs, pc[q] \notin {"idle", "flush"},
         NEW v \in Places \ {"idle", "flush"}, pc' = [pc EXCEPT ![q] = v],
         ctx' \in [Reqs -> Contexts], got' \in [Reqs -> Bodies], streams_' \subseteq Reqs,
         \A r \in Reqs : r # q => /\ ctx'[r] = ctx[r] /\ got'[r] = got[r]
                                  /\ r \in streams_' <=> r \in streams_,
         UNCHANGED <<out, writes, driver, should_close_, fd_open, closer, peervars, late>>,
         Stream(q)', Result(q)'
  PROVE  H2Inv'
<1>1. /\ TypeOK /\ VarTypes /\ Flushing(writes, driver, pc)
      /\ OneWrite(writes) /\ QueueInv(out, writes, peer, pc) /\ SessionInv
      /\ \A r \in Reqs : Stream(r) /\ Result(r) /\ chunks[r] <= sent
  BY H2Facts
<1>2. UNCHANGED <<out, writes, driver, should_close_, fd_open, closer, inbox, peer, chunks,
                  sent, peer_gone, late>>
  BY DEF peervars
<1>3. pc'[q] = v /\ pc' \in [Reqs -> Places] /\ \A r \in Reqs : r # q => pc'[r] = pc[r]
  BY <1>1 DEF VarTypes
<1>4. TypeOK'
  <2>1. VarTypes'
    BY SMT, <1>1, <1>2, <1>3 DEF VarTypes
  <2>2. Flushing(writes', driver', pc')
    <3>1. \A a \in Actors : a # Driver => a \in Reqs
      BY DEF Actors
    <3>2. \A r \in Reqs : pc'[r] = "flush" <=> pc[r] = "flush"
      BY <1>3
    <3>3. QED
      BY <1>1, <1>2, <3>1, <3>2 DEF Flushing
  <2>3. QED
    BY <2>1, <2>2, TypeSplit
<1>5. OneWrite(writes)' /\ QueueInv(out, writes, peer, pc)'
  <2>1. \A r \in Reqs : Unsent(r, peer, pc) => Unsent(r, peer, pc')
    BY <1>3 DEF Unsent
  <2>2. QueueInv(out, writes, peer, pc')
    BY <1>1, <2>1, QueueKeeps DEF VarTypes
  <2>3. QED
    BY <1>1, <1>2, <2>2
<1>6. SessionInv'
  <2>1. /\ driver # "none" /\ (driver = "done" => should_close_)
        /\ ~fd_open => should_close_
    BY <1>1 DEF SessionInv
  <2>2. UNCHANGED <<driver, should_close_, fd_open>>
    BY <1>2
  <2>3. QED
    BY SMT, <2>1, <2>2 DEF SessionInv
<1>7. ASSUME NEW r \in Reqs PROVE Stream(r)' /\ Result(r)' /\ chunks'[r] <= sent'
  <2>1. CASE r # q
    <3>1. Stream(r)'
      <4>1. Stream(r)
        BY <1>1
      <4>2. /\ ctx'[r] = ctx[r] /\ pc'[r] = pc[r] /\ (r \in streams_' <=> r \in streams_)
            /\ UNCHANGED <<peer, chunks, late, driver, should_close_, inbox>>
        BY <1>2, <1>3, <2>1
      <4>3. QED
        BY <4>1, <4>2, StreamKeeps
    <3>2. chunks[r] \in Nat /\ Result(r) /\ VarTypes
      BY <1>1, StreamTyped
    <3>3. Result(r)'
      <4>1. pc'[r] = pc[r] /\ got'[r] = got[r] /\ peer'[r] = peer[r] /\ chunks'[r] = chunks[r]
        BY <1>2, <1>3, <2>1
      <4>2. late' = late /\ should_close_' = should_close_
        BY <1>2
      <4>3. QED
        BY <3>2, <4>1, <4>2, ResultSame
    <3>4. QED
      BY <1>1, <1>2, <3>1, <3>3
  <2>2. CASE r = q
    BY <1>1, <1>2, <2>2
  <2>3. QED
    BY <2>1, <2>2
<1>8. QED
  BY <1>4, <1>5, <1>6, <1>7 DEF H2Inv

\* A coroutine that leaves the table.
LEMMA StreamLeft ==
  ASSUME H2Inv, NEW q \in Reqs, NEW v \in Left,
         ~ctx[q].header_waker, ~ctx[q].body_waker, ctx[q].body_ready => v = "done",
         pc' = [pc EXCEPT ![q] = v], q \notin streams_',
         UNCHANGED <<ctx, driver, should_close_, inbox, peer, chunks, late>>
  PROVE  Stream(q)'
<1>1. TypeOK /\ VarTypes /\ Stream(q)
  BY H2Facts
<1>2. pc'[q] = v
  BY <1>1 DEF VarTypes
<1>3. StreamInv(q, ctx[q], v, peer[q], chunks[q], late[q], FALSE, driver = "done",
                should_close_, inbox)
  <2>1. Leaves(ctx[q], v)
    BY DEF Leaves
  <2>2. QED
    BY <1>1, <2>1, StreamTyped, LeftStream DEF Stream
<1>4. (q \in streams_') = FALSE
  BY SMT
<1>5. QED
  BY <1>2, <1>3, <1>4 DEF Stream

\* The headers waker was called.
LEMMA InvResumeHeaders == ASSUME H2Inv, NEW q \in Reqs, ResumeHeaders(q) PROVE H2Inv'
<1>1. TypeOK /\ VarTypes /\ Stream(q)
  BY H2Facts
<1>2. /\ pc[q] = "headers" /\ ctx[q].header_result # "none"
      /\ UNCHANGED <<ctx, got, out, writes, driver, should_close_, fd_open, closer, peervars,
                     late>>
      /\ UNCHANGED <<inbox, peer, chunks, sent, peer_gone>>
  BY DEF ResumeHeaders, peervars
<1>3. ctx' \in [Reqs -> Contexts] /\ got' \in [Reqs -> Bodies]
  BY <1>1, <1>2 DEF VarTypes
<1>4. WakerInv(ctx[q], pc[q], peer[q], q \in streams_, driver = "done")
  BY <1>1 DEF Stream, StreamInv
<1>5. ~ctx[q].header_waker /\ ~ctx[q].body_waker /\ ~ctx[q].body_ready
  BY <1>2, <1>4 DEF WakerInv
<1>6. CASE ctx[q].header_result = "false" \/ (ctx[q].stream_closed /\ ~ctx[q].status)
  <2>1. pc' = [pc EXCEPT ![q] = "failed"] /\ streams_' = streams_ \ {q}
    BY <1>6 DEF ResumeHeaders
  <2>2. streams_' \subseteq Reqs /\ pc'[q] = "failed"
    BY <1>1, <2>1 DEF VarTypes
  <2>3. Stream(q)'
    BY <1>2, <1>5, <2>1, StreamLeft DEF Left
  <2>4. peer[q] = "rst" \/ should_close_ \/ late[q]
    BY <1>1, <1>6 DEF Stream, StreamInv, CauseInv, BodyInv, Closing
  <2>5. Result(q)'
    BY <1>2, <2>2, <2>4 DEF Result, ResultInv
  <2>6. QED
    BY <1>2, <1>3, <2>1, <2>2, <2>3, <2>5, InvLocal DEF Places
<1>7. CASE ~(ctx[q].header_result = "false" \/ (ctx[q].stream_closed /\ ~ctx[q].status))
  <2>1. pc' = [pc EXCEPT ![q] = "response"] /\ streams_' = streams_
    BY <1>7 DEF ResumeHeaders
  <2>2. streams_' \subseteq Reqs /\ pc'[q] = "response"
    BY <1>1, <2>1 DEF VarTypes
  <2>3. StreamInv(q, ctx[q], "response", peer[q], chunks[q], late[q], q \in streams_,
                  driver = "done", should_close_, inbox)
    BY <1>1, <1>2, StreamTyped, AnsweredStream DEF Stream
  <2>4. Stream(q)'
    BY <1>2, <2>1, <2>2, <2>3 DEF Stream
  <2>5. Result(q)'
    BY <2>2, ResultOpen
  <2>6. QED
    BY <1>2, <1>3, <2>1, <2>2, <2>4, <2>5, InvLocal DEF Places
<1>8. QED
  BY <1>6, <1>7

\* What a body_full that ends returns.
LEMMA ResultDone ==
  ASSUME H2Inv, NEW q \in Reqs, pc'[q] = "done", got'[q] = Body(ctx[q]),
         ctx[q].stream_closed,
         UNCHANGED <<peer, chunks, late, should_close_, peer_gone>>
  PROVE  Result(q)'
<1>1. Stream(q)
  BY H2Facts
<1>2. BodyInv(q, ctx[q], peer[q], chunks[q], q \in streams_, should_close_, inbox)
  BY <1>1 DEF Stream, StreamInv
<1>3. Numbered(got'[q], q) /\ Len(got'[q]) <= chunks[q]
  BY <1>2 DEF BodyInv, Body
<1>4. peer[q] # "rst" /\ ~should_close_ => peer[q] = "end" /\ Len(got'[q]) = chunks[q]
  BY <1>2 DEF BodyInv, Closing
<1>5. QED
  BY <1>3, <1>4 DEF Result, ResultInv

\* body_full.
LEMMA InvBodyFull == ASSUME H2Inv, NEW q \in Reqs, BodyFull(q) PROVE H2Inv'
<1>1. TypeOK /\ VarTypes /\ Stream(q)
  BY H2Facts
<1>2. /\ pc[q] = "response"
      /\ UNCHANGED <<out, writes, driver, should_close_, fd_open, closer, peervars, late>>
      /\ UNCHANGED <<inbox, peer, chunks, sent, peer_gone>>
  BY DEF BodyFull, peervars
<1>3. WakerInv(ctx[q], pc[q], peer[q], q \in streams_, driver = "done")
  BY <1>1 DEF Stream, StreamInv
<1>4. ~ctx[q].header_waker /\ ~ctx[q].body_waker /\ ~ctx[q].body_ready
  BY <1>2, <1>3 DEF WakerInv
<1>5. ctx[q] \in Contexts /\ ctx[q].body_buffer \in Bodies
  BY <1>1 DEF VarTypes, Contexts
<1>6. CASE /\ q \notin streams_ /\ pc' = [pc EXCEPT ![q] = "nobody"]
           /\ UNCHANGED <<ctx, got, streams_>>
  <2>1. /\ pc'[q] = "nobody" /\ streams_' \subseteq Reqs
        /\ ctx' \in [Reqs -> Contexts] /\ got' \in [Reqs -> Bodies]
    BY <1>1, <1>6 DEF VarTypes
  <2>2. Stream(q)'
    BY <1>2, <1>4, <1>6, StreamLeft DEF Left
  <2>3. Result(q)'
    BY <2>1, ResultOpen
  <2>4. QED
    BY <1>2, <1>6, <2>1, <2>2, <2>3, InvLocal DEF Places
<1>7. CASE /\ q \in streams_ /\ ctx[q].stream_closed /\ pc' = [pc EXCEPT ![q] = "done"]
           /\ got' = [got EXCEPT ![q] = ctx[q].body_buffer]
           /\ streams_' = streams_ \ {q} /\ UNCHANGED ctx
  <2>1. /\ pc'[q] = "done" /\ streams_' \subseteq Reqs
        /\ ctx' \in [Reqs -> Contexts] /\ got' \in [Reqs -> Bodies]
        /\ got'[q] = ctx[q].body_buffer /\ \A r \in Reqs : r # q => got'[r] = got[r]
    BY <1>1, <1>5, <1>7 DEF VarTypes
  <2>2. Stream(q)'
    BY <1>2, <1>4, <1>7, StreamLeft DEF Left
  <2>3. got'[q] = Body(ctx[q])
    BY <1>4, <2>1 DEF Body
  <2>4. Result(q)'
    BY <1>2, <1>7, <2>1, <2>3, ResultDone
  <2>5. QED
    BY <1>2, <1>7, <2>1, <2>2, <2>4, InvLocal DEF Places
<1>8. CASE /\ q \in streams_ /\ ~ctx[q].stream_closed /\ pc' = [pc EXCEPT ![q] = "body"]
           /\ ctx' = [ctx EXCEPT ![q].body_waker = TRUE] /\ UNCHANGED <<got, streams_>>
  <2>1. PICK d : d = [ctx[q] EXCEPT !.body_waker = TRUE]
    OBVIOUS
  <2>2. /\ d \in Contexts
        /\ StreamInv(q, d, "body", peer[q], chunks[q], late[q], q \in streams_,
                     driver = "done", should_close_, inbox)
    BY SMT, <1>1, <1>2, <2>1, StreamTyped, AwaitedStream DEF Stream
  <2>3. ctx' = [ctx EXCEPT ![q] = d]
    BY <1>8, <2>1
  <2>4. /\ pc'[q] = "body" /\ streams_' \subseteq Reqs
        /\ ctx' \in [Reqs -> Contexts] /\ got' \in [Reqs -> Bodies]
        /\ ctx'[q] = d /\ \A r \in Reqs : r # q => ctx'[r] = ctx[r]
    BY <1>1, <1>8, <2>2, <2>3 DEF VarTypes
  <2>5. Stream(q)'
    BY <1>2, <1>8, <2>2, <2>4 DEF Stream
  <2>6. Result(q)'
    BY <2>4, ResultOpen
  <2>7. QED
    BY <1>2, <1>8, <2>4, <2>5, <2>6, InvLocal DEF Places
<1>9. QED
  BY <1>6, <1>7, <1>8 DEF BodyFull

\* The body waker was called.
LEMMA InvResumeBody == ASSUME H2Inv, NEW q \in Reqs, ResumeBody(q) PROVE H2Inv'
<1>1. TypeOK /\ VarTypes /\ Stream(q)
  BY H2Facts
<1>2. /\ pc[q] = "body" /\ ctx[q].body_ready /\ pc' = [pc EXCEPT ![q] = "done"]
      /\ got' = [got EXCEPT ![q] = ctx[q].body_result] /\ streams_' = streams_ \ {q}
      /\ UNCHANGED <<ctx, out, writes, driver, should_close_, fd_open, closer, peervars, late>>
      /\ UNCHANGED <<inbox, peer, chunks, sent, peer_gone>>
  BY DEF ResumeBody, peervars
<1>3. WakerInv(ctx[q], pc[q], peer[q], q \in streams_, driver = "done")
  BY <1>1 DEF Stream, StreamInv
<1>4. ~ctx[q].header_waker /\ ~ctx[q].body_waker /\ ctx[q].stream_closed
  BY <1>2, <1>3 DEF WakerInv
<1>5. ctx[q] \in Contexts /\ ctx[q].body_result \in Bodies
  BY <1>1 DEF VarTypes, Contexts
<1>6. /\ pc'[q] = "done" /\ streams_' \subseteq Reqs
      /\ ctx' \in [Reqs -> Contexts] /\ got' \in [Reqs -> Bodies]
      /\ got'[q] = ctx[q].body_result /\ \A r \in Reqs : r # q => got'[r] = got[r]
  BY <1>1, <1>2, <1>5 DEF VarTypes
<1>7. Stream(q)'
  BY <1>2, <1>4, StreamLeft DEF Left
<1>8. got'[q] = Body(ctx[q])
  BY <1>2, <1>6 DEF Body
<1>9. Result(q)'
  BY <1>2, <1>4, <1>6, <1>8, ResultDone
<1>10. QED
  BY <1>2, <1>6, <1>7, <1>9, InvLocal DEF Places

\* request.
LEMMA InvRequest == ASSUME H2Inv, NEW q \in Reqs, Request(q) PROVE H2Inv'
<1>1. /\ TypeOK /\ VarTypes /\ Flushing(writes, driver, pc)
      /\ OneWrite(writes) /\ QueueInv(out, writes, peer, pc) /\ SessionInv
      /\ \A r \in Reqs : Stream(r) /\ Result(r) /\ chunks[r] <= sent
  BY H2Facts
<1>2. PICK queue : queue = Append(out, q)
  OBVIOUS
<1>3. /\ pc[q] = "idle" /\ ~should_close_
      /\ driver' = (IF driver = "none" THEN "read" ELSE driver)
      /\ streams_' = streams_ \cup {q}
      /\ writes' = Append(writes, Write(q, Head(queue))) /\ out' = Tail(queue)
      /\ pc' = [pc EXCEPT ![q] = "flush"]
      /\ UNCHANGED <<ctx, got, should_close_, fd_open, closer, inbox, peer, chunks, sent,
                     peer_gone, late>>
  BY <1>2 DEF Request, peervars
<1>4. /\ pc'[q] = "flush" /\ pc' \in [Reqs -> Places]
      /\ \A r \in Reqs : r # q => pc'[r] = pc[r]
  BY <1>1, <1>3 DEF VarTypes, Places
<1>5. driver # "done" /\ driver' # "done" /\ driver' # "none"
      /\ (driver' = "flush" <=> driver = "flush")
      /\ driver' \in {"none", "read", "flush", "done"}
  BY <1>1, <1>3 DEF SessionInv, VarTypes
<1>6. peer[q] = "none"
  BY <1>1, <1>3 DEF Stream, StreamInv, WakerInv
<1>7. queue \in Seq(Frames) /\ queue # <<>> /\ QueueInv(queue, writes, peer, pc')
  <2>1. out \in Seq(Frames) /\ writes \in Seq(Writes)
    BY <1>1 DEF VarTypes
  <2>2. Submits(q, peer, pc, pc')
    BY <1>3, <1>4, <1>6 DEF Submits
  <2>3. QED
    BY <1>1, <1>2, <2>1, <2>2, RequestQueued
<1>8. q \in Actors /\ q # Driver /\ q \notin By(writes)
  BY <1>1, <1>3, DriverAssumption DEF Actors, Flushing
<1>9. /\ out' \in Seq(Frames) /\ writes' \in Seq(Writes)
      /\ QueueInv(out', writes', peer, pc') /\ OneWrite(writes')
      /\ By(writes') = By(writes) \cup {q}
  <2>1. writes \in Seq(Writes)
    BY <1>1 DEF VarTypes
  <2>2. Takes(queue, writes, q, out', writes')
    BY <1>3, <1>7, <1>8 DEF Takes
  <2>3. QED
    BY SMT, <1>1, <1>7, <1>8, <2>1, <2>2, FrameTaken
<1>10. TypeOK'
  <2>1. VarTypes'
    BY <1>1, <1>3, <1>4, <1>5, <1>9 DEF VarTypes
  <2>2. Flushing(writes', driver', pc')
    <3>1. \A a \in Actors : a # Driver => a \in Reqs
      BY DEF Actors
    <3>2. QED
      BY <1>1, <1>4, <1>5, <1>8, <1>9, <3>1 DEF Flushing
  <2>3. QED
    BY <2>1, <2>2, TypeSplit
<1>11. SessionInv'
  BY <1>1, <1>3, <1>5 DEF SessionInv
<1>12. ASSUME NEW r \in Reqs PROVE Stream(r)' /\ Result(r)' /\ chunks'[r] <= sent'
  <2>1. chunks[r] \in Nat
    BY <1>1, StreamTyped
  <2>2. CASE r # q
    <3>1. Stream(r)'
      BY <1>1, <1>3, <1>4, <1>5, <2>2, StreamKeeps
    <3>2. Result(r)'
      BY SMT, <1>1, <1>3, <1>4, <2>1, <2>2, ResultKeeps
    <3>3. QED
      BY <1>1, <1>3, <3>1, <3>2
  <2>3. CASE r = q
    <3>1. (driver = "done") = FALSE /\ (driver' = "done") = FALSE /\ (q \in streams_') = TRUE
      BY <1>3, <1>5
    <3>2. /\ StreamTypes(q, ctx[q], "idle", peer[q], chunks[q], late[q], q \in streams_,
                         FALSE, should_close_, inbox)
          /\ StreamInv(q, ctx[q], "idle", peer[q], chunks[q], late[q], q \in streams_,
                       FALSE, should_close_, inbox)
      BY <1>1, <1>3, <3>1, StreamTyped DEF Stream
    <3>3. StreamInv(q, ctx[q], "flush", peer[q], chunks[q], late[q], TRUE, FALSE,
                    should_close_, inbox)
      BY <3>2, RequestedStream
    <3>4. Stream(r)'
      BY <1>3, <1>4, <2>3, <3>1, <3>3 DEF Stream
    <3>5. Result(r)'
      BY <1>4, <2>3, ResultOpen
    <3>6. QED
      BY <1>1, <1>3, <3>4, <3>5
  <2>4. QED
    BY <2>2, <2>3
<1>13. QueueInv(out, writes, peer, pc)' /\ OneWrite(writes)'
  BY <1>3, <1>9
<1>14. QED
  BY <1>10, <1>11, <1>12, <1>13 DEF H2Inv

\* nghttp2 does not take the request.
LEMMA InvSubmitFails == ASSUME H2Inv, NEW q \in Reqs, SubmitFails(q) PROVE H2Inv'
<1>1. /\ TypeOK /\ VarTypes /\ Flushing(writes, driver, pc)
      /\ OneWrite(writes) /\ QueueInv(out, writes, peer, pc) /\ SessionInv
      /\ \A r \in Reqs : Stream(r) /\ Result(r) /\ chunks[r] <= sent
  BY H2Facts
<1>2. /\ pc[q] = "idle" /\ ~should_close_
      /\ driver' = (IF driver = "none" THEN "read" ELSE driver)
      /\ pc' = [pc EXCEPT ![q] = "refused"]
      /\ UNCHANGED <<streams_, ctx, got, out, writes, should_close_, fd_open, closer, inbox,
                     peer, chunks, sent, peer_gone, late>>
  BY DEF SubmitFails, peervars
<1>3. /\ pc'[q] = "refused" /\ pc' \in [Reqs -> Places]
      /\ \A r \in Reqs : r # q => pc'[r] = pc[r]
  BY <1>1, <1>2 DEF VarTypes, Places
<1>4. driver # "done" /\ driver' # "done" /\ driver' # "none"
      /\ (driver' = "flush" <=> driver = "flush")
      /\ driver' \in {"none", "read", "flush", "done"}
  BY <1>1, <1>2 DEF SessionInv, VarTypes
<1>5. TypeOK'
  <2>1. VarTypes'
    BY <1>1, <1>2, <1>3, <1>4 DEF VarTypes
  <2>2. \A a \in Actors : a # Driver => a \in Reqs
    BY DEF Actors
  <2>3. Flushing(writes', driver', pc')
    BY <1>1, <1>2, <1>3, <1>4, <2>2 DEF Flushing
  <2>4. QED
    BY <2>1, <2>3, TypeSplit
<1>6. OneWrite(writes)' /\ QueueInv(out, writes, peer, pc)'
  <2>1. \A r \in Reqs : Unsent(r, peer, pc) => Unsent(r, peer, pc')
    BY <1>3 DEF Unsent
  <2>2. QueueInv(out, writes, peer, pc')
    BY <1>1, <2>1, QueueKeeps DEF VarTypes
  <2>3. QED
    BY <1>1, <1>2, <2>2
<1>7. SessionInv'
  BY <1>1, <1>2, <1>4 DEF SessionInv
<1>8. ASSUME NEW r \in Reqs PROVE Stream(r)' /\ Result(r)' /\ chunks'[r] <= sent'
  <2>1. CASE r # q
    <3>1. Stream(r)'
      BY <1>1, <1>2, <1>3, <1>4, <2>1, StreamKeeps
    <3>2. Result(r)'
      BY <1>1, <1>2, <1>3, <2>1, ResultSame
    <3>3. QED
      BY <1>1, <1>2, <3>1, <3>2
  <2>2. CASE r = q
    <3>1. (driver = "done") = FALSE /\ (driver' = "done") = FALSE
      BY <1>4
    <3>2. /\ StreamTypes(q, ctx[q], "idle", peer[q], chunks[q], late[q], q \in streams_,
                         FALSE, should_close_, inbox)
          /\ StreamInv(q, ctx[q], "idle", peer[q], chunks[q], late[q], q \in streams_,
                       FALSE, should_close_, inbox)
      BY <1>1, <1>2, <3>1, StreamTyped DEF Stream
    <3>3. Leaves(ctx[q], "refused") /\ q \notin streams_
      BY <3>2 DEF StreamInv, WakerInv, Leaves, Left, NewContext
    <3>4. StreamInv(q, ctx[q], "refused", peer[q], chunks[q], late[q], FALSE, FALSE,
                    should_close_, inbox)
      BY <3>2, <3>3, LeftStream
    <3>5. (q \in streams_') = FALSE
      BY SMT, <1>2, <3>3
    <3>6. Stream(r)'
      BY <1>2, <1>3, <2>2, <3>1, <3>4, <3>5 DEF Stream
    <3>7. Result(r)'
      BY <1>3, <2>2, ResultOpen
    <3>8. QED
      BY <1>1, <1>2, <3>6, <3>7
  <2>3. QED
    BY <2>1, <2>2
<1>9. QED
  BY <1>5, <1>6, <1>7, <1>8 DEF H2Inv

\* The invariant of stream r with what the peer has done and the frames on their way.
StreamNow(r, pe, ib) ==
  StreamInv(r, ctx[r], pc[r], pe, chunks[r], late[r], r \in streams_, driver = "done",
            should_close_, ib)

\* A write of a is done: the queues without it, and the streams with the peer as it is.
LEMMA DeliveredFacts ==
  ASSUME H2Inv, NEW a \in Actors, a \in By(writes), Delivered(a),
         NEW v, v = WithoutWrite(a)
  PROVE  /\ v \in Seq(Writes) /\ QueueInv(out, v, peer', pc)
         /\ OneWrite(v) /\ By(v) = By(writes) \ {a}
         /\ peer' \in [Reqs -> PeerStates] /\ peer_gone' \in BOOLEAN
         /\ \A r \in Reqs : /\ StreamNow(r, peer'[r], inbox)
                            /\ peer'[r] = peer[r] \/ peer[r] = "none"
<1>1. /\ TypeOK /\ VarTypes /\ OneWrite(writes) /\ QueueInv(out, writes, peer, pc)
      /\ \A r \in Reqs : Stream(r)
  BY H2Facts
<1>2. PICK x : x = writes[WriteOf(a)]
  OBVIOUS
<1>3. /\ peer' = IF WriteOf(a) = 1 /\ x.frame \in Reqs /\ ~peer_gone
                 THEN [peer EXCEPT ![x.frame] = "got"] ELSE peer
      /\ peer_gone' \in BOOLEAN
  BY <1>2 DEF Delivered
<1>4. /\ peer' \in [Reqs -> PeerStates]
      /\ \A r \in Reqs : peer'[r] = peer[r] \/ r = x.frame
      /\ \A r \in Reqs : peer'[r] = peer[r] \/ (r = x.frame /\ peer'[r] = "got")
  BY <1>1, <1>3 DEF VarTypes, PeerStates
<1>5. /\ v \in Seq(Writes) /\ QueueInv(out, v, peer', pc)
      /\ OneWrite(v) /\ By(v) = By(writes) \ {a}
      /\ x.frame \in Reqs => Unsent(x.frame, peer, pc)
  <2>1. PICK f, pf : f = x.frame /\ pf = peer'
    OBVIOUS
  <2>2. QED
    BY SMT, <1>1, <1>2, <1>4, <2>1, WriteDone DEF VarTypes
<1>6. ASSUME NEW r \in Reqs
      PROVE  StreamNow(r, peer'[r], inbox) /\ (peer'[r] = peer[r] \/ peer[r] = "none")
  <2>1. CASE peer'[r] = peer[r]
    BY <1>1, <2>1 DEF Stream, StreamNow
  <2>2. CASE r = x.frame /\ peer'[r] = "got"
    <3>1. peer[r] = "none" /\ pc[r] # "idle"
      BY <1>5, <2>2 DEF Unsent
    <3>2. StreamInv(r, ctx[r], pc[r], "got", chunks[r], late[r], r \in streams_,
                    driver = "done", should_close_, inbox)
      <4>1. /\ StreamTypes(r, ctx[r], pc[r], "none", chunks[r], late[r], r \in streams_,
                           driver = "done", should_close_, inbox)
            /\ StreamInv(r, ctx[r], pc[r], "none", chunks[r], late[r], r \in streams_,
                         driver = "done", should_close_, inbox)
        BY <1>1, <3>1, StreamTyped DEF Stream
      <4>2. QED
        BY <3>1, <4>1, ReachedStream
    <3>3. QED
      BY <2>2, <3>1, <3>2 DEF StreamNow
  <2>3. QED
    BY <1>4, <2>1, <2>2
<1>7. QED
  BY <1>3, <1>4, <1>5, <1>6

\* A write of a request is done.
LEMMA InvRequestWrote == ASSUME H2Inv, NEW q \in Reqs, RequestWrote(q) PROVE H2Inv'
<1>1. /\ TypeOK /\ VarTypes /\ Flushing(writes, driver, pc)
      /\ OneWrite(writes) /\ QueueInv(out, writes, peer, pc) /\ SessionInv
      /\ \A r \in Reqs : Stream(r) /\ Result(r) /\ chunks[r] <= sent
  BY H2Facts
<1>2. /\ pc[q] = "flush" /\ Delivered(q)
      /\ UNCHANGED <<streams_, got, driver, should_close_, fd_open, closer, inbox,
                     chunks, sent, late>>
  BY DEF RequestWrote
<1>3. q \in Actors /\ q # Driver /\ q \in By(writes)
  BY <1>1, <1>2, DriverAssumption DEF Actors, Flushing
<1> DEFINE rest == WithoutWrite(q)
<1> HIDE DEF rest
<1>4. /\ rest \in Seq(Writes) /\ QueueInv(out, rest, peer', pc)
      /\ OneWrite(rest) /\ By(rest) = By(writes) \ {q}
      /\ peer' \in [Reqs -> PeerStates] /\ peer_gone' \in BOOLEAN
      /\ \A r \in Reqs : /\ StreamNow(r, peer'[r], inbox)
                         /\ peer'[r] = peer[r] \/ peer[r] = "none"
  BY <1>2, <1>3, DeliveredFacts DEF rest
<1>5. driver # "none"
  BY <1>1, <1>2 DEF SessionInv
<1>6. SessionInv'
  BY <1>1, <1>2, <1>5 DEF SessionInv
<1>7. \A a \in Actors : a # Driver => a \in Reqs
  BY DEF Actors
<1>8. ASSUME NEW r \in Reqs, pc'[r] = pc[r] PROVE Result(r)'
  <2>1. chunks[r] \in Nat /\ chunks'[r] = chunks[r]
    BY <1>1, <1>2, StreamTyped
  <2>2. \/ peer'[r] = peer[r] /\ chunks'[r] = chunks[r]
        \/ peer[r] \notin {"end", "rst"} /\ chunks[r] <= chunks'[r]
    BY SMT, <1>4, <2>1
  <2>3. QED
    BY <1>1, <1>2, <1>8, <2>1, <2>2, ResultKeeps
<1>9. ASSUME NEW r \in Reqs, pc'[r] = pc[r], ctx'[r] = ctx[r] PROVE Stream(r)'
  <2>1. StreamNow(r, peer'[r], inbox)
    BY <1>4
  <2>2. QED
    BY <1>2, <1>9, <2>1 DEF Stream, StreamNow
<1>10. CASE out = <<>>
  <2>1. PICK d : d = [ctx[q] EXCEPT !.header_waker = TRUE]
    OBVIOUS
  <2>2. /\ pc' = [pc EXCEPT ![q] = "headers"] /\ ctx' = [ctx EXCEPT ![q] = d]
        /\ writes' = rest /\ out' = out
    BY <1>10, <2>1 DEF RequestWrote, rest
  <2>3. /\ d \in Contexts
        /\ StreamInv(q, d, "headers", peer'[q], chunks[q], late[q], q \in streams_,
                     driver = "done", should_close_, inbox)
    <3>1. StreamTypes(q, ctx[q], "flush", peer'[q], chunks[q], late[q], q \in streams_,
                      driver = "done", should_close_, inbox)
      BY <1>1, <1>2, <1>4, StreamTyped DEF StreamTypes
    <3>2. StreamInv(q, ctx[q], "flush", peer'[q], chunks[q], late[q], q \in streams_,
                    driver = "done", should_close_, inbox)
      BY <1>2, <1>4 DEF StreamNow
    <3>3. QED
      BY <2>1, <3>1, <3>2, FlushedStream
  <2>4. /\ pc'[q] = "headers" /\ pc' \in [Reqs -> Places]
        /\ ctx'[q] = d /\ ctx' \in [Reqs -> Contexts]
        /\ \A r \in Reqs : r # q => pc'[r] = pc[r] /\ ctx'[r] = ctx[r]
    BY <1>1, <2>2, <2>3 DEF VarTypes, Places
  <2>5. TypeOK'
    <3>1. VarTypes'
      BY <1>1, <1>2, <1>4, <2>2, <2>4 DEF VarTypes
    <3>2. Flushing(writes', driver', pc')
      BY <1>1, <1>2, <1>3, <1>4, <1>7, <2>2, <2>4 DEF Flushing
    <3>3. QED
      BY <3>1, <3>2, TypeSplit
  <2>6. OneWrite(writes)' /\ QueueInv(out, writes, peer, pc)'
    <3>1. \A r \in Reqs : Unsent(r, peer', pc) => Unsent(r, peer', pc')
      BY <2>4 DEF Unsent
    <3>2. QueueInv(out, rest, peer', pc')
      BY <1>1, <1>4, <3>1, QueueKeeps DEF VarTypes
    <3>3. QED
      BY <1>4, <2>2, <3>2
  <2>7. ASSUME NEW r \in Reqs PROVE Stream(r)' /\ Result(r)' /\ chunks'[r] <= sent'
    <3>1. CASE r # q
      BY <1>1, <1>2, <1>8, <1>9, <2>4, <3>1
    <3>2. CASE r = q
      <4>1. Stream(r)'
        BY <1>2, <2>3, <2>4, <3>2 DEF Stream
      <4>2. Result(r)'
        BY <2>4, <3>2, ResultOpen
      <4>3. QED
        BY <1>1, <1>2, <4>1, <4>2
    <3>3. QED
      BY <3>1, <3>2
  <2>8. QED
    BY <1>6, <2>5, <2>6, <2>7 DEF H2Inv
<1>11. CASE out # <<>>
  <2>1. /\ writes' = Append(rest, Write(q, Head(out))) /\ out' = Tail(out)
        /\ UNCHANGED <<pc, ctx>>
    BY <1>11 DEF RequestWrote, rest
  <2>2. q \notin By(rest)
    BY <1>4
  <2>3. /\ out' \in Seq(Frames) /\ writes' \in Seq(Writes)
        /\ QueueInv(out', writes', peer', pc) /\ OneWrite(writes')
        /\ By(writes') = By(rest) \cup {q}
    <3>1. out \in Seq(Frames)
      BY <1>1 DEF VarTypes
    <3>2. PICK w \in Seq(Writes) : w = rest
      BY <1>4
    <3>3. Takes(out, w, q, out', writes')
      BY <1>11, <2>1, <2>2, <3>2 DEF Takes
    <3>4. QueueInv(out, w, peer', pc) /\ OneWrite(w)
      BY <1>4, <3>2
    <3>5. /\ out' \in Seq(Frames) /\ writes' \in Seq(Writes)
          /\ QueueInv(out', writes', peer', pc) /\ OneWrite(writes')
          /\ By(writes') = By(w) \cup {q}
      BY SMT, <1>3, <3>1, <3>3, <3>4, FrameTaken
    <3>6. QED
      BY <3>2, <3>5
  <2>4. TypeOK'
    <3>1. VarTypes'
      BY <1>1, <1>2, <1>4, <2>1, <2>3 DEF VarTypes
    <3>2. Flushing(writes', driver', pc')
      BY <1>1, <1>2, <1>3, <1>4, <1>7, <2>1, <2>3 DEF Flushing
    <3>3. QED
      BY <3>1, <3>2, TypeSplit
  <2>5. ASSUME NEW r \in Reqs PROVE Stream(r)' /\ Result(r)' /\ chunks'[r] <= sent'
    BY <1>1, <1>2, <1>8, <1>9, <2>1
  <2>6. OneWrite(writes)' /\ QueueInv(out, writes, peer, pc)'
    BY <2>1, <2>3
  <2>7. QED
    BY <1>6, <2>4, <2>5, <2>6 DEF H2Inv
<1>12. QED
  BY <1>10, <1>11

\* A write of a request failed.
LEMMA InvRequestWriteFailed ==
  ASSUME H2Inv, NEW q \in Reqs, RequestWriteFailed(q) PROVE H2Inv'
<1>1. /\ TypeOK /\ VarTypes /\ Flushing(writes, driver, pc)
      /\ OneWrite(writes) /\ QueueInv(out, writes, peer, pc) /\ SessionInv
      /\ \A r \in Reqs : Stream(r) /\ Result(r) /\ chunks[r] <= sent
  BY H2Facts
<1>2. /\ pc[q] = "flush"
      /\ pc' = [pc EXCEPT ![q] = "unsent"] /\ streams_' = streams_ \ {q}
      /\ writes' = WithoutWrite(q)
      /\ UNCHANGED <<ctx, got, out, driver, should_close_, fd_open, closer, inbox, peer,
                     chunks, sent, peer_gone, late>>
  BY DEF RequestWriteFailed, peervars
<1>3. q \in Actors /\ q # Driver /\ q \in By(writes)
  BY <1>1, <1>2, DriverAssumption DEF Actors, Flushing
<1>4. /\ writes' \in Seq(Writes) /\ QueueInv(out, writes', peer, pc) /\ OneWrite(writes')
      /\ By(writes') = By(writes) \ {q}
  <2>1. PICK v, k : v = WithoutWrite(q) /\ k = WriteOf(q)
    OBVIOUS
  <2>2. out \in Seq(Frames) /\ writes \in Seq(Writes)
    BY <1>1 DEF VarTypes
  <2>3. /\ v \in Seq(Writes) /\ QueueInv(out, v, peer, pc) /\ OneWrite(v)
        /\ By(v) = By(writes) \ {q}
    BY <1>1, <1>3, <2>1, <2>2, WriteOut
  <2>4. QED
    BY <1>2, <2>1, <2>3
<1>5. /\ pc'[q] = "unsent" /\ pc' \in [Reqs -> Places] /\ streams_' \subseteq Reqs
      /\ \A r \in Reqs : r # q => pc'[r] = pc[r]
  BY <1>1, <1>2 DEF VarTypes, Places
<1>6. TypeOK'
  <2>1. VarTypes'
    BY <1>1, <1>2, <1>4, <1>5 DEF VarTypes
  <2>2. \A a \in Actors : a # Driver => a \in Reqs
    BY DEF Actors
  <2>3. Flushing(writes', driver', pc')
    BY <1>1, <1>2, <1>3, <1>4, <1>5, <2>2 DEF Flushing
  <2>4. QED
    BY <2>1, <2>3, TypeSplit
<1>7. OneWrite(writes)' /\ QueueInv(out, writes, peer, pc)'
  <2>1. \A r \in Reqs : Unsent(r, peer, pc) => Unsent(r, peer, pc')
    BY <1>5 DEF Unsent
  <2>2. QueueInv(out, writes', peer, pc')
    BY <1>1, <1>4, <2>1, QueueKeeps DEF VarTypes
  <2>3. QED
    BY <1>2, <1>4, <2>2
<1>8. SessionInv'
  BY <1>1, <1>2 DEF SessionInv
<1>9. ASSUME NEW r \in Reqs PROVE Stream(r)' /\ Result(r)' /\ chunks'[r] <= sent'
  <2>1. CASE r # q
    <3>1. Stream(r)'
      BY <1>1, <1>2, <1>5, <2>1, StreamKeeps
    <3>2. chunks[r] \in Nat
      BY <1>1, StreamTyped
    <3>3. Result(r)'
      BY <1>1, <1>2, <1>5, <2>1, <3>2, ResultKeeps
    <3>4. QED
      BY <1>1, <1>2, <3>1, <3>3
  <2>2. CASE r = q
    <3>1. WakerInv(ctx[q], pc[q], peer[q], q \in streams_, driver = "done")
      BY <1>1 DEF Stream, StreamInv
    <3>2. ~ctx[q].header_waker /\ ~ctx[q].body_waker /\ ~ctx[q].body_ready
      BY <1>2, <3>1 DEF WakerInv
    <3>3. Stream(q)'
      BY <1>2, <3>2, StreamLeft DEF Left
    <3>4. Result(q)'
      BY <1>5, ResultOpen
    <3>5. QED
      BY <1>1, <1>2, <2>2, <3>3, <3>4
  <2>3. QED
    BY <2>1, <2>2
<1>10. QED
  BY <1>6, <1>7, <1>8, <1>9 DEF H2Inv

-----------------------------------------------------------------------------
(* The background driver.                                                   *)

\* The end of the driver: every stream is closed, the others stay as they are.
LEMMA EndStreams ==
  ASSUME NEW c, NEW r \in Reqs, NEW pe, NEW la, NEW ib, NEW sc, DriverEnd(c),
         StreamTypes(r, c[r], pc[r], pe, chunks[r], la, r \in streams_, FALSE, sc, ib),
         StreamInv(r, c[r], pc[r], pe, chunks[r], la, r \in streams_, FALSE, sc, ib)
  PROVE  /\ ctx'[r] \in Contexts
         /\ StreamInv(r, ctx'[r], pc[r], pe, chunks[r], la, r \in streams_',
                      driver' = "done", TRUE, ib)
<1>1. PICK d : d = ctx'[r]
  OBVIOUS
<1>2. d = IF r \in streams_ THEN CloseContext(c[r]) ELSE c[r]
  BY <1>1 DEF DriverEnd
<1>3. (r \in streams_') = FALSE /\ (driver' = "done") = TRUE
  BY SMT DEF DriverEnd
<1>4. d \in Contexts /\ StreamInv(r, d, pc[r], pe, chunks[r], la, FALSE, TRUE, TRUE, ib)
  <2>1. PICK in, x : in = (r \in streams_) /\ x = c[r]
    OBVIOUS
  <2>2. /\ StreamTypes(r, x, pc[r], pe, chunks[r], la, in, FALSE, sc, ib)
        /\ StreamInv(r, x, pc[r], pe, chunks[r], la, in, FALSE, sc, ib)
        /\ d = Ended(x, in)
    BY <1>2, <2>1 DEF Ended
  <2>3. QED
    BY <2>2, EndedStream
<1>5. QED
  BY <1>1, <1>3, <1>4

\* The streams of a session whose driver runs, as the lemmas on streams take them.
Running(r, c, pe, la, ib) ==
  /\ StreamTypes(r, c, pc[r], pe, chunks[r], la, r \in streams_, FALSE, should_close_, ib)
  /\ StreamInv(r, c, pc[r], pe, chunks[r], la, r \in streams_, FALSE, should_close_, ib)

\* The same behind a step of the driver.
Flushed(r, pe, la, ib) ==
  /\ ctx'[r] \in Contexts
  /\ StreamInv(r, ctx'[r], pc[r], pe, chunks[r], la, r \in streams_', driver' = "done",
               should_close_, ib)

\* What flush_writes of the driver does to a stream, when it goes on and when it ends.
LEMMA FlushStreams ==
  ASSUME NEW c, NEW queue, NEW pending, DriverFlush(c, queue, pending),
         NEW r \in Reqs, NEW pe, NEW la, NEW ib, should_close_ \in BOOLEAN,
         Running(r, c[r], pe, la, ib)
  PROVE  Flushed(r, pe, la, ib)
<1>1. CASE queue = <<>> /\ should_close_
  <2>1. DriverEnd(c) /\ should_close_ = TRUE
    BY <1>1 DEF DriverFlush, DriverLoop
  <2>2. QED
    BY <2>1, EndStreams DEF Running, Flushed
<1>2. CASE queue # <<>> \/ ~should_close_
  <2>1. ctx' = c /\ streams_' = streams_ /\ driver' # "done"
    BY <1>2 DEF DriverFlush, DriverLoop
  <2>2. (driver' = "done") = FALSE /\ (r \in streams_') = (r \in streams_)
    BY <2>1
  <2>3. c[r] \in Contexts
    BY DEF Running, StreamTypes
  <2>4. QED
    BY <2>1, <2>2, <2>3 DEF Running, Flushed
<1>3. QED
  BY <1>1, <1>2

\* The queues as flush_writes of the driver finds them.
Ready(queue, pending, pe) ==
  /\ queue \in Seq(Frames) /\ pending \in Seq(Writes)
  /\ QueueInv(queue, pending, pe, pc) /\ OneWrite(pending)
  /\ By(pending) = By(writes) \ {Driver}

\* What flush_writes of the driver does to the queues and to the driver.
LEMMA FlushQueues ==
  ASSUME NEW c, NEW queue, NEW pending, NEW pe, DriverFlush(c, queue, pending),
         VarTypes, Flushing(writes, driver, pc), Ready(queue, pending, pe)
  PROVE  /\ out' \in Seq(Frames) /\ writes' \in Seq(Writes)
         /\ QueueInv(out', writes', pe, pc) /\ OneWrite(writes')
         /\ Flushing(writes', driver', pc)
         /\ driver' \in {"read", "flush", "done"} /\ (driver' = "done" => should_close_)
         /\ streams_' \subseteq Reqs /\ closer' \in {"idle", "joining", "closed"}
         /\ (\A r \in Reqs : ctx'[r] \in Contexts) /\ c \in [Reqs -> Contexts]
              => ctx' \in [Reqs -> Contexts]
<1>1. /\ queue \in Seq(Frames) /\ pending \in Seq(Writes)
      /\ QueueInv(queue, pending, pe, pc) /\ OneWrite(pending)
      /\ By(pending) = By(writes) \ {Driver}
  BY DEF Ready
<1>2. \A a \in Actors : a \in By(pending) <=> a # Driver /\ pc[a] = "flush"
  BY <1>1 DEF Flushing
<1>3. streams_ \subseteq Reqs /\ closer \in {"idle", "joining", "closed"}
      /\ should_close_ \in BOOLEAN
  BY DEF VarTypes
<1>4. CASE queue = <<>>
  <2>1. out' = queue /\ writes' = pending /\ DriverLoop(c)
    BY <1>4 DEF DriverFlush
  <2>2. /\ driver' \in {"read", "done"} /\ (driver' = "done" => should_close_)
        /\ streams_' \subseteq Reqs /\ closer' \in {"idle", "joining", "closed"}
    BY <1>3, <2>1 DEF DriverLoop, DriverEnd
  <2>3. (\A r \in Reqs : ctx'[r] \in Contexts) /\ c \in [Reqs -> Contexts]
          => ctx' \in [Reqs -> Contexts]
    BY <2>1 DEF DriverLoop, DriverEnd
  <2>4. Flushing(writes', driver', pc)
    BY <1>2, <2>1, <2>2 DEF Flushing
  <2>5. QED
    BY <1>1, <2>1, <2>2, <2>3, <2>4
<1>5. CASE queue # <<>>
  <2>1. /\ out' = Tail(queue) /\ writes' = Append(pending, Write(Driver, Head(queue)))
        /\ driver' = "flush" /\ ctx' = c /\ UNCHANGED <<streams_, closer>>
    BY <1>5 DEF DriverFlush
  <2>2. Driver \in Actors /\ Takes(queue, pending, Driver, out', writes')
    BY <1>1, <1>5, <2>1 DEF Takes, Actors
  <2>3. /\ out' \in Seq(Frames) /\ writes' \in Seq(Writes)
        /\ QueueInv(out', writes', pe, pc) /\ OneWrite(writes')
        /\ By(writes') = By(pending) \cup {Driver}
    BY SMT, <1>1, <2>2, FrameTaken
  <2>4. Flushing(writes', driver', pc)
    BY <1>2, <2>1, <2>3 DEF Flushing
  <2>5. QED
    BY <1>3, <2>1, <2>3, <2>4
<1>6. QED
  BY <1>4, <1>5

\* A step of the driver keeps the invariant when its streams and its queues do.
LEMMA InvDriver ==
  ASSUME H2Inv, VarTypes', Flushing(writes', driver', pc'), driver' # "none",
         QueueInv(out', writes', peer', pc'), OneWrite(writes'),
         UNCHANGED <<pc, got, fd_open, chunks, sent>>,
         should_close_ => should_close_', driver' = "done" => should_close_',
         \A r \in Reqs : /\ Stream(r)' /\ (late[r] => late'[r])
                         /\ peer'[r] = peer[r] \/ peer[r] = "none"
  PROVE  H2Inv'
<1>1. /\ VarTypes /\ SessionInv
      /\ \A r \in Reqs : Result(r) /\ chunks[r] <= sent
  BY H2Facts
<1>2. TypeOK'
  BY TypeSplit
<1>3. SessionInv'
  BY <1>1 DEF SessionInv
<1>4. ASSUME NEW r \in Reqs PROVE Result(r)' /\ chunks'[r] <= sent'
  <2>1. chunks[r] \in Nat /\ chunks'[r] = chunks[r] /\ pc'[r] = pc[r] /\ got'[r] = got[r]
    BY SMT, <1>1, BoundsAssumption DEF VarTypes
  <2>2. \/ peer'[r] = peer[r] /\ chunks'[r] = chunks[r]
        \/ peer[r] \notin {"end", "rst"} /\ chunks[r] <= chunks'[r]
    BY SMT, <2>1
  <2>3. Result(r)'
    BY <1>1, <2>1, <2>2, ResultKeeps
  <2>4. QED
    BY <1>1, <2>1, <2>3
<1>5. QED
  BY <1>2, <1>3, <1>4 DEF H2Inv

\* While the driver runs every stream has its invariant.
LEMMA RunningStreams ==
  ASSUME H2Inv, driver \in {"read", "flush"}, NEW r \in Reqs
  PROVE  Running(r, ctx[r], peer[r], late[r], inbox)
<1>1. (driver = "done") = FALSE
  OBVIOUS
<1>2. QED
  BY <1>1, H2Facts, StreamTyped DEF Running, Stream

\* The driver ends: the streams are closed, and nobody is left waiting.
LEMMA InvEnd ==
  ASSUME H2Inv, driver \in {"read", "flush"}, should_close_' = TRUE, DriverEnd(ctx),
         UNCHANGED <<pc, got, out, fd_open, peervars, late>>,
         writes' \in Seq(Writes), QueueInv(out, writes', peer, pc), OneWrite(writes'),
         By(writes') = By(writes) \ {Driver}
  PROVE  H2Inv'
<1>1. /\ VarTypes /\ Flushing(writes, driver, pc)
  BY H2Facts
<1>2. UNCHANGED <<inbox, peer, chunks, sent, peer_gone>>
  BY DEF peervars
<1>3. /\ streams_' = {} /\ driver' = "done" /\ closer' \in {"idle", "joining", "closed"}
      /\ ctx' = [r \in Reqs |-> IF r \in streams_ THEN CloseContext(ctx[r]) ELSE ctx[r]]
  BY <1>1 DEF DriverEnd, VarTypes
<1>4. ASSUME NEW r \in Reqs PROVE ctx'[r] \in Contexts /\ Stream(r)'
  <2>1. Running(r, ctx[r], peer[r], late[r], inbox)
    BY RunningStreams
  <2>2. /\ ctx'[r] \in Contexts
        /\ StreamInv(r, ctx'[r], pc[r], peer[r], chunks[r], late[r], r \in streams_',
                     driver' = "done", TRUE, inbox)
    BY <2>1, EndStreams DEF Running
  <2>3. QED
    BY <1>2, <2>2 DEF Stream
<1>5. ctx' \in [Reqs -> Contexts]
  BY <1>3, <1>4
<1>6. VarTypes'
  BY <1>1, <1>2, <1>3, <1>5 DEF VarTypes
<1>7. Flushing(writes', driver', pc')
  BY <1>1, <1>3 DEF Flushing
<1>8. QED
  BY <1>2, <1>3, <1>4, <1>6, <1>7, InvDriver

\* The read fails, or what it returned is rejected.
LEMMA InvReadError == ASSUME H2Inv, ReadFail \/ ReadError PROVE H2Inv'
<1>1. /\ VarTypes /\ Flushing(writes, driver, pc) /\ OneWrite(writes)
      /\ QueueInv(out, writes, peer, pc)
  BY H2Facts
<1>2. /\ driver = "read" /\ should_close_' = TRUE /\ DriverEnd(ctx) /\ writes' = writes
      /\ UNCHANGED <<pc, got, out, fd_open, peervars, late>>
  BY DEF ReadFail, ReadError, ReadEnds
<1>3. Driver \notin By(writes)
  BY <1>1, <1>2 DEF Flushing, Actors
<1>4. writes \in Seq(Writes) /\ By(writes) = By(writes) \ {Driver}
  BY <1>1, <1>3 DEF VarTypes
<1>5. QED
  BY <1>1, <1>2, <1>4, InvEnd

\* A write of the driver fails.
LEMMA InvDriverWriteFailed == ASSUME H2Inv, DriverWriteFailed PROVE H2Inv'
<1>1. /\ VarTypes /\ Flushing(writes, driver, pc) /\ OneWrite(writes)
      /\ QueueInv(out, writes, peer, pc)
  BY H2Facts
<1>2. /\ driver = "flush" /\ should_close_' = TRUE /\ DriverEnd(ctx)
      /\ writes' = WithoutWrite(Driver)
      /\ UNCHANGED <<pc, got, out, fd_open, peervars, late>>
  BY DEF DriverWriteFailed
<1>3. Driver \in Actors /\ Driver \in By(writes)
  BY <1>1, <1>2 DEF Flushing, Actors
<1>4. /\ writes' \in Seq(Writes) /\ QueueInv(out, writes', peer, pc) /\ OneWrite(writes')
      /\ By(writes') = By(writes) \ {Driver}
  BY <1>1, <1>2, <1>3, WriteOut DEF VarTypes
<1>5. QED
  BY <1>2, <1>4, InvEnd

\* The driver flushes: with the streams c and the queues it finds the invariant holds.
LEMMA InvFlush ==
  ASSUME H2Inv, driver \in {"read", "flush"}, NEW c \in [Reqs -> Contexts], NEW queue,
         NEW pending, DriverFlush(c, queue, pending), Ready(queue, pending, peer'),
         UNCHANGED <<pc, got, should_close_, fd_open, chunks, sent>>,
         peer_gone' \in BOOLEAN, peer' \in [Reqs -> PeerStates], late' \in [Reqs -> BOOLEAN],
         inbox' \in Seq(PeerFrames),
         \A r \in Reqs : /\ Running(r, c[r], peer'[r], late'[r], inbox')
                         /\ late[r] => late'[r]
                         /\ peer'[r] = peer[r] \/ peer[r] = "none"
  PROVE  H2Inv'
<1>1. /\ VarTypes /\ Flushing(writes, driver, pc)
  BY H2Facts
<1>2. /\ out' \in Seq(Frames) /\ writes' \in Seq(Writes)
      /\ QueueInv(out', writes', peer', pc) /\ OneWrite(writes')
      /\ Flushing(writes', driver', pc)
      /\ driver' \in {"read", "flush", "done"} /\ (driver' = "done" => should_close_)
      /\ streams_' \subseteq Reqs /\ closer' \in {"idle", "joining", "closed"}
      /\ (\A r \in Reqs : ctx'[r] \in Contexts) /\ c \in [Reqs -> Contexts]
           => ctx' \in [Reqs -> Contexts]
  BY <1>1, FlushQueues
<1>3. ASSUME NEW r \in Reqs PROVE ctx'[r] \in Contexts /\ Stream(r)'
  <2>1. Running(r, c[r], peer'[r], late'[r], inbox')
    OBVIOUS
  <2>2. should_close_ \in BOOLEAN
    BY <1>1 DEF VarTypes
  <2>3. /\ ctx'[r] \in Contexts
        /\ StreamInv(r, ctx'[r], pc[r], peer'[r], chunks[r], late'[r], r \in streams_',
                     driver' = "done", should_close_, inbox')
    <3>1. PICK pe, la, ib : pe = peer'[r] /\ la = late'[r] /\ ib = inbox'
      OBVIOUS
    <3>2. Running(r, c[r], pe, la, ib)
      BY <2>1, <3>1
    <3>3. Flushed(r, pe, la, ib)
      BY SMT, <2>2, <3>2, FlushStreams
    <3>4. QED
      BY <3>1, <3>3 DEF Flushed
  <2>4. QED
    BY <2>3 DEF Stream
<1>4. ctx' \in [Reqs -> Contexts]
  BY <1>2, <1>3
<1>5. VarTypes'
  BY <1>1, <1>2, <1>4 DEF VarTypes
<1>6. QED
  BY <1>2, <1>3, <1>5, InvDriver

\* A write of the driver is done.
LEMMA InvDriverWrote == ASSUME H2Inv, DriverWrote PROVE H2Inv'
<1>1. VarTypes /\ Flushing(writes, driver, pc)
  BY H2Facts
<1>2. PICK pending : pending = WithoutWrite(Driver)
  OBVIOUS
<1>3. /\ driver = "flush" /\ Delivered(Driver) /\ DriverFlush(ctx, out, pending)
      /\ UNCHANGED <<pc, got, should_close_, fd_open, inbox, chunks, sent, late>>
  BY <1>2 DEF DriverWrote
<1>4. Driver \in Actors /\ Driver \in By(writes)
  BY <1>1, <1>3 DEF Actors, Flushing
<1>5. /\ pending \in Seq(Writes) /\ QueueInv(out, pending, peer', pc)
      /\ OneWrite(pending) /\ By(pending) = By(writes) \ {Driver}
      /\ peer' \in [Reqs -> PeerStates] /\ peer_gone' \in BOOLEAN
      /\ \A r \in Reqs : /\ StreamNow(r, peer'[r], inbox)
                         /\ peer'[r] = peer[r] \/ peer[r] = "none"
  BY <1>2, <1>3, <1>4, DeliveredFacts
<1>6. Ready(out, pending, peer')
  BY <1>1, <1>5 DEF Ready, VarTypes
<1>7. ASSUME NEW r \in Reqs PROVE Running(r, ctx[r], peer'[r], late[r], inbox)
  <2>1. Running(r, ctx[r], peer[r], late[r], inbox)
    BY <1>3, RunningStreams
  <2>2. peer'[r] \in PeerStates
    BY <1>5
  <2>3. StreamTypes(r, ctx[r], pc[r], peer'[r], chunks[r], late[r], r \in streams_, FALSE,
                    should_close_, inbox)
    BY <2>1, <2>2 DEF Running, StreamTypes
  <2>4. (driver = "done") = FALSE
    BY <1>3
  <2>5. StreamInv(r, ctx[r], pc[r], peer'[r], chunks[r], late[r], r \in streams_, FALSE,
                  should_close_, inbox)
    BY <1>5, <2>4 DEF StreamNow
  <2>6. QED
    BY <2>3, <2>5 DEF Running
<1>8. /\ DriverFlush(ctx, out, pending) /\ ctx \in [Reqs -> Contexts]
      /\ late' \in [Reqs -> BOOLEAN] /\ inbox' \in Seq(PeerFrames)
  BY <1>1, <1>3 DEF VarTypes
<1>9. \A r \in Reqs : /\ Running(r, ctx[r], peer'[r], late'[r], inbox')
                      /\ late[r] => late'[r]
                      /\ peer'[r] = peer[r] \/ peer[r] = "none"
  BY <1>3, <1>5, <1>7
<1>10. QED
  BY <1>3, <1>5, <1>6, <1>8, <1>9, InvFlush

\* What a frame makes of the context of its stream.
FrameContext(c, r, kind) == IF r \in streams_ THEN OnFrame(c, r, kind) ELSE c

\* A frame is processed: the invariant of its stream.
LEMMA FrameStream ==
  ASSUME H2Inv, driver = "read", inbox # <<>>, NEW kind \in {"headers", "data", "end", "rst"},
         NEW r \in Reqs, Is(Head(inbox), r, kind), NEW la \in BOOLEAN, NEW d,
         la = (late[r] \/ (pc[r] = "flush" /\ kind = "headers")),
         d = FrameContext(ctx[r], r, kind)
  PROVE  d \in Contexts /\ Running(r, d, peer[r], la, Tail(inbox))
<1>1. /\ StreamTypes(r, ctx[r], pc[r], peer[r], chunks[r], late[r], r \in streams_, FALSE,
                     should_close_, inbox)
      /\ StreamInv(r, ctx[r], pc[r], peer[r], chunks[r], late[r], r \in streams_, FALSE,
                   should_close_, inbox)
  BY RunningStreams DEF Running
<1>2. d \in Contexts /\ StreamInv(r, d, pc[r], peer[r], chunks[r], la, r \in streams_, FALSE,
                                  should_close_, Tail(inbox))
  <2>1. CASE r \notin streams_
    <3>1. (r \in streams_) = FALSE /\ d = ctx[r]
      BY SMT, <2>1 DEF FrameContext
    <3>2. late[r] => la
      OBVIOUS
    <3>3. StreamInv(r, d, pc[r], peer[r], chunks[r], la, FALSE, FALSE,
                    should_close_, Tail(inbox))
      BY <1>1, <3>1, <3>2, PassedStream
    <3>4. QED
      BY <1>1, <3>1, <3>3 DEF StreamTypes
  <2>2. CASE r \in streams_
    <3>1. (r \in streams_) = TRUE /\ d = OnFrame(ctx[r], r, kind)
      BY <2>2 DEF FrameContext
    <3>2. /\ StreamTypes(r, ctx[r], pc[r], peer[r], chunks[r], late[r], TRUE, FALSE,
                         should_close_, inbox)
          /\ StreamInv(r, ctx[r], pc[r], peer[r], chunks[r], late[r], TRUE, FALSE,
                       should_close_, inbox)
      BY <1>1, <3>1
    <3>3. CASE kind = "headers"
      <4>1. late[r] \/ pc[r] = "flush" => la
        BY <3>3
      <4>2. Is(Head(inbox), r, "headers") /\ d = OnFrame(ctx[r], r, "headers")
        BY <3>1, <3>3
      <4>3. d \in Contexts /\ StreamInv(r, d, pc[r], peer[r], chunks[r], la, TRUE, FALSE,
                                        should_close_, Tail(inbox))
        BY <3>2, <4>1, <4>2, HeadersStream
      <4>4. QED
        BY <3>1, <4>3
    <3>4. ASSUME kind # "headers" PROVE la = late[r]
      BY <1>1, <3>4 DEF StreamTypes
    <3>5. CASE kind = "data"
      <4>1. d \in Contexts /\ StreamInv(r, d, pc[r], peer[r], chunks[r], late[r], TRUE, FALSE,
                                        should_close_, Tail(inbox))
        BY <3>1, <3>2, <3>5, DataStream
      <4>2. QED
        BY <3>1, <3>4, <3>5, <4>1
    <3>6. CASE kind \in Closing
      <4>1. d \in Contexts /\ StreamInv(r, d, pc[r], peer[r], chunks[r], late[r], TRUE, FALSE,
                                        should_close_, Tail(inbox))
        BY <3>1, <3>2, <3>6, ClosedStream
      <4>2. kind # "headers"
        BY <3>6 DEF Closing
      <4>3. QED
        BY <3>1, <3>4, <4>1, <4>2
    <3>7. QED
      BY <3>3, <3>5, <3>6 DEF Closing
  <2>3. QED
    BY <2>1, <2>2
<1>3. Tail(inbox) \in Seq(PeerFrames)
  BY SMT, H2Facts DEF VarTypes
<1>4. StreamTypes(r, d, pc[r], peer[r], chunks[r], la, r \in streams_, FALSE,
                  should_close_, Tail(inbox))
  BY <1>1, <1>2, <1>3 DEF StreamTypes
<1>5. QED
  BY <1>2, <1>4 DEF Running

\* A stream whose frame it is not.
LEMMA OtherStream ==
  ASSUME H2Inv, driver = "read", inbox # <<>>, NEW r \in Reqs, ~FrameOf(Head(inbox), r)
  PROVE  Running(r, ctx[r], peer[r], late[r], Tail(inbox))
<1>1. /\ StreamTypes(r, ctx[r], pc[r], peer[r], chunks[r], late[r], r \in streams_, FALSE,
                     should_close_, inbox)
      /\ StreamInv(r, ctx[r], pc[r], peer[r], chunks[r], late[r], r \in streams_, FALSE,
                   should_close_, inbox)
  BY RunningStreams DEF Running
<1>2. late[r] \in BOOLEAN /\ (late[r] => late[r])
  BY <1>1 DEF StreamTypes
<1>3. StreamInv(r, ctx[r], pc[r], peer[r], chunks[r], late[r], r \in streams_, FALSE,
                should_close_, Tail(inbox))
  BY <1>1, <1>2, PassedStream
<1>4. Tail(inbox) \in Seq(PeerFrames)
  BY SMT, H2Facts DEF VarTypes
<1>5. QED
  BY <1>1, <1>3, <1>4 DEF Running, StreamTypes

\* A read returns a frame.
LEMMA InvReadFrame == ASSUME H2Inv, ReadFrame PROVE H2Inv'
<1>1. /\ VarTypes /\ Flushing(writes, driver, pc) /\ OneWrite(writes)
      /\ QueueInv(out, writes, peer, pc)
  BY H2Facts
<1>2. PICK f : f = Head(inbox)
  OBVIOUS
<1>3. /\ driver = "read" /\ inbox # <<>> /\ inbox' = Tail(inbox)
      /\ UNCHANGED <<pc, got, should_close_, fd_open, peer, chunks, sent, peer_gone>>
  BY DEF ReadFrame
<1>4. f \in PeerFrames /\ inbox' \in Seq(PeerFrames)
  BY SMT, <1>1, <1>2, <1>3 DEF VarTypes
<1>5. /\ writes \in Seq(Writes) /\ By(writes) = By(writes) \ {Driver}
      /\ out \in Seq(Frames) /\ peer' \in [Reqs -> PeerStates] /\ peer' = peer
      /\ ctx \in [Reqs -> Contexts] /\ late \in [Reqs -> BOOLEAN]
      /\ peer_gone' \in BOOLEAN
  <2>1. Driver \notin By(writes)
    BY <1>1, <1>3 DEF Flushing, Actors
  <2>2. QED
    BY <1>1, <1>3, <2>1 DEF VarTypes
<1>6. CASE f.kind = "ctl"
  <2>1. PICK queue : queue = <<"ack">> \o out
    OBVIOUS
  <2>2. DriverFlush(ctx, queue, writes) /\ late' = late
    BY <1>2, <1>6, <2>1 DEF ReadFrame
  <2>3. queue \in Seq(Frames) /\ QueueInv(queue, writes, peer, pc)
    BY <1>1, <1>5, <2>1, AckQueued
  <2>4. Ready(queue, writes, peer')
    BY <1>1, <1>5, <2>3 DEF Ready
  <2>5. ASSUME NEW r \in Reqs PROVE Running(r, ctx[r], peer'[r], late'[r], inbox')
    <3>1. ~FrameOf(Head(inbox), r)
      BY <1>2, <1>6 DEF FrameOf
    <3>2. Running(r, ctx[r], peer[r], late[r], Tail(inbox))
      BY <1>3, <3>1, OtherStream
    <3>3. QED
      BY <1>3, <1>5, <2>2, <3>2
  <2>6. \A r \in Reqs : /\ Running(r, ctx[r], peer'[r], late'[r], inbox')
                        /\ late[r] => late'[r]
                        /\ peer'[r] = peer[r] \/ peer[r] = "none"
    BY <1>5, <2>2, <2>5
  <2>7. late' \in [Reqs -> BOOLEAN]
    BY <1>5, <2>2
  <2>8. QED
    BY <1>3, <1>4, <1>5, <2>2, <2>4, <2>6, <2>7, InvFlush
<1>7. CASE f.kind # "ctl"
  <2>1. PICK q \in Reqs, kind \in {"headers", "data", "end", "rst"} :
          f.stream = q /\ f.kind = kind
    BY <1>4, <1>7 DEF PeerFrames
  <2>2. PICK c : c = IF q \in streams_ THEN [ctx EXCEPT ![q] = OnFrame(ctx[q], q, kind)]
                                       ELSE ctx
    OBVIOUS
  <2>3. /\ DriverFlush(c, out, writes)
        /\ late' = [late EXCEPT ![q] = @ \/ (pc[q] = "flush" /\ kind = "headers")]
    BY <1>2, <1>7, <2>1, <2>2 DEF ReadFrame
  <2>4. /\ late' \in [Reqs -> BOOLEAN]
        /\ \A r \in Reqs : r # q => late'[r] = late[r]
        /\ \A r \in Reqs : late[r] => late'[r]
    BY <1>5, <2>3
  <2>5. late'[q] = (late[q] \/ (pc[q] = "flush" /\ kind = "headers"))
    BY <1>5, <2>3
  <2>6. c[q] = FrameContext(ctx[q], q, kind)
    BY <1>5, <2>2 DEF FrameContext
  <2>7. Is(Head(inbox), q, kind)
    BY <1>2, <2>1 DEF Is
  <2>8. c[q] \in Contexts /\ Running(q, c[q], peer[q], late'[q], Tail(inbox))
    <3>1. PICK la \in BOOLEAN : la = late'[q]
      BY <2>4
    <3>2. PICK d : d = c[q]
      OBVIOUS
    <3>3. d \in Contexts /\ Running(q, d, peer[q], la, Tail(inbox))
      BY <1>3, <2>5, <2>6, <2>7, <3>1, <3>2, FrameStream
    <3>4. QED
      BY <3>1, <3>2, <3>3
  <2>9. c \in [Reqs -> Contexts] /\ \A r \in Reqs : r # q => c[r] = ctx[r]
    <3>1. CASE q \in streams_
      <4>1. PICK d : d = OnFrame(ctx[q], q, kind)
        OBVIOUS
      <4>2. c = [ctx EXCEPT ![q] = d]
        BY <2>2, <3>1, <4>1
      <4>3. c[q] = d
        BY <1>5, <4>2
      <4>4. QED
        BY <1>5, <2>8, <4>2, <4>3
    <3>2. CASE q \notin streams_
      BY <1>5, <2>2, <3>2
    <3>3. QED
      BY <3>1, <3>2
  <2>10. ASSUME NEW r \in Reqs PROVE Running(r, c[r], peer'[r], late'[r], inbox')
    <3>1. CASE r = q
      BY <1>3, <1>5, <2>8, <3>1
    <3>2. CASE r # q
      <4>1. ~FrameOf(Head(inbox), r)
        BY <1>2, <2>1, <3>2 DEF FrameOf
      <4>2. Running(r, ctx[r], peer[r], late[r], Tail(inbox))
        BY <1>3, <4>1, OtherStream
      <4>3. QED
        BY <1>3, <1>5, <2>4, <2>9, <3>2, <4>2
    <3>3. QED
      BY <3>1, <3>2
  <2>11. Ready(out, writes, peer')
    BY <1>1, <1>5 DEF Ready
  <2>12. \A r \in Reqs : /\ Running(r, c[r], peer'[r], late'[r], inbox')
                         /\ late[r] => late'[r]
                         /\ peer'[r] = peer[r] \/ peer[r] = "none"
    BY <1>5, <2>4, <2>10
  <2>13. /\ driver \in {"read", "flush"}
         /\ UNCHANGED <<pc, got, should_close_, fd_open, chunks, sent>>
    BY <1>3
  <2>14. QED
    BY <1>4, <1>5, <2>3, <2>4, <2>9, <2>11, <2>12, <2>13, InvFlush
<1>8. QED
  BY <1>6, <1>7

-----------------------------------------------------------------------------
(* The theorems.                                                            *)

\* A session that was just constructed satisfies the invariant.
LEMMA InitH2 == Init => H2Inv
<1> SUFFICES ASSUME Init PROVE H2Inv
  OBVIOUS
<1>1. NewContext \in Contexts
  <2>1. <<>> \in Bodies
    BY SMT DEF Bodies
  <2>2. QED
    BY <2>1 DEF NewContext, Contexts
<1>2. Len(writes) = 0 /\ Len(out) = 1 /\ Len(inbox) = 0 /\ out[1] = "settings"
  BY DEF Init
<1>3. VarTypes
  <2>1. <<>> \in Bodies /\ writes \in Seq(Writes) /\ inbox \in Seq(PeerFrames)
    BY SMT DEF Init, Bodies
  <2>2. out \in Seq(Frames)
    BY SMT DEF Init, Frames
  <2>3. /\ ctx \in [Reqs -> Contexts] /\ got \in [Reqs -> Bodies]
        /\ pc \in [Reqs -> Places] /\ peer \in [Reqs -> PeerStates]
    BY <1>1, <2>1 DEF Init, Places, PeerStates
  <2>4. chunks \in [Reqs -> 0..MaxFrames] /\ sent \in 0..MaxFrames
    BY SMT, BoundsAssumption DEF Init
  <2>5. streams_ \subseteq Reqs /\ late \in [Reqs -> BOOLEAN]
    BY DEF Init
  <2>6. /\ driver \in {"none", "read", "flush", "done"} /\ should_close_ \in BOOLEAN
        /\ fd_open \in BOOLEAN /\ closer \in {"idle", "joining", "closed"}
        /\ peer_gone \in BOOLEAN
    BY DEF Init
  <2>7. QED
    BY <2>1, <2>2, <2>3, <2>4, <2>5, <2>6 DEF VarTypes
<1>4. Flushing(writes, driver, pc)
  <2>1. By(writes) = {}
    BY SMT, <1>2 DEF By
  <2>2. \A a \in Actors : a # Driver => pc[a] # "flush"
    BY DEF Init, Actors
  <2>3. QED
    BY <2>1, <2>2 DEF Flushing, Init
<1>5. OneWrite(writes) /\ SessionInv
  BY SMT, <1>2 DEF OneWrite, SessionInv, Init
<1>6. QueueInv(out, writes, peer, pc)
  <2>1. out[1] \notin Reqs
    BY <1>2, FramesAssumption
  <2>2. QED
    BY SMT, <1>2, <2>1 DEF QueueInv
<1>7. ASSUME NEW r \in Reqs PROVE Stream(r) /\ Result(r) /\ chunks[r] <= sent
  <2>1. /\ ctx[r] = NewContext /\ pc[r] = "idle" /\ peer[r] = "none" /\ chunks[r] = 0
        /\ sent = 0 /\ (r \in streams_) = FALSE /\ (driver = "done") = FALSE
    BY SMT DEF Init
  <2>2. WakerInv(NewContext, "idle", "none", FALSE, FALSE)
    BY DEF WakerInv, NewContext
  <2>3. InboxInv(r, NewContext, "none", FALSE, inbox)
    BY SMT, <1>2 DEF InboxInv
  <2>4. BodyInv(r, NewContext, "none", 0, FALSE, should_close_, inbox)
    BY SMT DEF BodyInv, Body, Numbered, NewContext
  <2>5. CauseInv(NewContext, "idle", "none", late[r], should_close_)
    BY DEF CauseInv, NewContext
  <2>6. Stream(r)
    BY <2>1, <2>2, <2>3, <2>4, <2>5 DEF Stream, StreamInv
  <2>7. Result(r)
    BY <2>1 DEF Result, ResultInv
  <2>8. QED
    BY SMT, <2>1, <2>6, <2>7
<1>8. QED
  BY <1>3, <1>4, <1>5, <1>6, <1>7, TypeSplit DEF H2Inv

\* Every step keeps the invariant.
LEMMA NextH2 == H2Inv /\ [Next]_vars => H2Inv'
<1> SUFFICES ASSUME H2Inv, [Next]_vars PROVE H2Inv'
  OBVIOUS
<1>1. CASE BackgroundDriver
  BY <1>1, InvReadFrame, InvReadError, InvDriverWrote, InvDriverWriteFailed
  DEF BackgroundDriver
<1>2. ASSUME NEW r \in Reqs,
             Request(r) \/ SubmitFails(r) \/ Flush(r) \/ Resume(r) \/ BodyFull(r)
      PROVE  H2Inv'
  BY <1>2, InvRequest, InvSubmitFails, InvRequestWrote, InvRequestWriteFailed, InvResumeHeaders,
     InvResumeBody, InvBodyFull DEF Flush, Resume
<1>3. CASE CloseAsync
  BY <1>3, InvCloseAsync
<1>4. ASSUME NEW r \in Reqs, NEW kind \in {"headers", "data", "end", "rst"},
             PeerSends(r, kind)
      PROVE  H2Inv'
  BY <1>4, InvPeerSends
<1>5. CASE PeerControl
  BY <1>5, InvPeerControl
<1>6. CASE PeerCloses
  BY <1>6, InvPeerCloses
<1>7. CASE UNCHANGED vars
  <2>1. UNCHANGED <<streams_, ctx, pc, got, out, writes, driver, should_close_, fd_open,
                    closer, inbox, peer, chunks, sent, peer_gone, late>>
    BY <1>7 DEF vars
  <2>2. TypeOK'
    BY <2>1 DEF H2Inv, TypeOK
  <2>3. OneWrite(writes)' /\ QueueInv(out, writes, peer, pc)' /\ SessionInv'
    BY <2>1 DEF H2Inv, SessionInv
  <2>4. \A r \in Reqs : Stream(r)' /\ Result(r)' /\ chunks'[r] <= sent'
    BY <2>1 DEF H2Inv, Stream, Result
  <2>5. QED
    BY <2>2, <2>3, <2>4 DEF H2Inv
<1>8. CASE ReadError
  BY <1>8, InvReadError
<1>9. QED
  BY <1>1, <1>2, <1>3, <1>4, <1>5, <1>6, <1>7, <1>8 DEF Next

\* The invariant holds in every state of the session.
THEOREM SessionInvariant == Spec => []H2Inv
BY InitH2, NextH2, PTL DEF Spec

\* While the driver runs, a request that waits for its headers or for the end of its
\* body has its context in streams_ and the waker it waits for set, so the callbacks
\* of nghttp2 and the end of the driver reach it.
THEOREM WaitersStayRegistered == Spec => []WaitersRegistered
<1>1. H2Inv => WaitersRegistered
  <2> SUFFICES ASSUME H2Inv PROVE WaitersRegistered
    OBVIOUS
  <2>1. ASSUME driver \in {"read", "flush"}, NEW r \in Reqs, Waiting(r)
        PROVE  /\ r \in streams_
               /\ IF pc[r] = "headers" THEN ctx[r].header_waker ELSE ctx[r].body_waker
    <3>1. WakerInv(ctx[r], pc[r], peer[r], r \in streams_, driver = "done")
      BY DEF H2Inv, Stream, StreamInv
    <3>2. QED
      BY <2>1, <3>1 DEF Waiting, WakerInv
  <2>2. QED
    BY <2>1 DEF WaitersRegistered, H2Inv
<1>2. QED
  BY <1>1, SessionInvariant, PTL

\* A body that body_full returned holds the DATA frames of its own stream, in order,
\* and all of them unless the stream was reset or the session is closing.
THEOREM BodiesAreExact == Spec => []BodyExact
<1>1. H2Inv => BodyExact
  BY DEF H2Inv, Result, ResultInv, Numbered, BodyExact
<1>2. QED
  BY <1>1, SessionInvariant, PTL

\* A request that was sent and waits for its response fails only when its stream was
\* reset, the driver has ended, or its response was processed while it was still inside
\* flush_writes.
THEOREM FailuresHaveCause == Spec => []FailureHasCause
<1>1. H2Inv => FailureHasCause
  BY DEF H2Inv, Result, ResultInv, FailureHasCause
<1>2. QED
  BY <1>1, SessionInvariant, PTL
=============================================================================
