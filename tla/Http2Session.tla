--------------------------- MODULE Http2Session ---------------------------
(***************************************************************************)
(* Http2Session of ppnt-http: requests multiplexed over one connection,    *)
(* the background driver that reads it, the nghttp2 callbacks that wake    *)
(* the waiting requests, and close_async.  All of it runs on the loop      *)
(* thread; coroutines interleave at their co_awaits only, so an action is  *)
(* one coroutine from one co_await to the next.  A waker posts the         *)
(* coroutine, which is resumed later.                                      *)
(*                                                                         *)
(* External: nghttp2 (the queue of frames to send and the order of its     *)
(* callbacks) and the peer.  The connection is a TlsStream: any write and  *)
(* any read of it may fail, also while the peer is there, and two writes   *)
(* that overtake each other break the stream for the peer.  A read         *)
(* delivers one frame: several frames in one buffer behave like several    *)
(* reads with nothing in between.                                          *)
(***************************************************************************)
EXTENDS Naturals, Sequences

CONSTANTS
  Reqs,         \* the requests of the session; also their stream ids
  Driver,       \* background_driver
  MaxFrames,    \* bound: DATA frames, and control frames that ask for an answer
  MaxInbox      \* bound: frames on the way to the driver

ASSUME DriverAssumption == Driver \notin Reqs
ASSUME FramesAssumption == Reqs \cap {"settings", "ack"} = {}
ASSUME BoundsAssumption == MaxFrames \in Nat /\ MaxInbox \in Nat \ {0}

VARIABLES
  streams_,      \* the requests whose context is in streams_
  ctx,           \* ctx[r]: the Http2StreamContext, and what its wakers were given
  pc,            \* pc[r]: the coroutine of request r and of its body_full;
                 \* refused, unsent, failed and nobody are its four errors
  got,           \* got[r]: the body that body_full returned
  out,           \* nghttp2: frames queued for sending
  writes,        \* the writes in flight: which flush_writes, which frame
  driver,        \* the background driver
  should_close_, \* Http2Session::should_close_
  fd_open,       \* connection_ has not been closed
  closer,        \* the coroutine of close_async
  inbox,         \* frames of the peer not yet read
  peer,          \* peer[r]: what the peer has done with stream r
  chunks,        \* chunks[r]: DATA frames the peer has sent on stream r
  sent,          \* frames that count against MaxFrames
  peer_gone,     \* the peer has closed the connection, or gives it up
  late           \* history: the response arrived while r was flushing

vars == <<streams_, ctx, pc, got, out, writes, driver, should_close_, fd_open,
          closer, inbox, peer, chunks, sent, peer_gone, late>>

Actors == Reqs \cup {Driver}
Frames == Reqs \cup {"settings", "ack"}
Write(a, f) == [by |-> a, frame |-> f]
Chunk(r, n) == <<r, n>>
Bodies == Seq(Reqs \X Nat)
PeerFrames ==
  [stream : Reqs, kind : {"headers", "data", "end", "rst"}] \cup [kind : {"ctl"}]

\* header_waker and body_waker are set while TRUE; a waker that was called leaves
\* its argument in header_result or body_result.
NewContext ==
  [status |-> FALSE, stream_closed |-> FALSE, body_buffer |-> <<>>,
   header_waker |-> FALSE, header_result |-> "none",
   body_waker |-> FALSE, body_ready |-> FALSE, body_result |-> <<>>]

Contexts ==
  [status : BOOLEAN, stream_closed : BOOLEAN, body_buffer : Bodies,
   header_waker : BOOLEAN, header_result : {"none", "true", "false"},
   body_waker : BOOLEAN, body_ready : BOOLEAN, body_result : Bodies]

\* Streams, contexts, queues and control states are well formed, and the coroutines
\* inside flush_writes are those with a write in flight.
TypeOK ==
  /\ streams_ \subseteq Reqs
  /\ ctx \in [Reqs -> Contexts]
  /\ pc \in [Reqs -> {"idle", "flush", "headers", "response", "body", "done",
                      "refused", "unsent", "failed", "nobody"}]
  /\ got \in [Reqs -> Bodies]
  /\ out \in Seq(Frames)
  /\ writes \in Seq([by : Actors, frame : Frames])
  /\ driver \in {"none", "read", "flush", "done"}
  /\ should_close_ \in BOOLEAN /\ fd_open \in BOOLEAN
  /\ closer \in {"idle", "joining", "closed"}
  /\ inbox \in Seq(PeerFrames)
  /\ peer \in [Reqs -> {"none", "got", "headers", "end", "rst"}]
  /\ chunks \in [Reqs -> 0..MaxFrames] /\ sent \in 0..MaxFrames
  /\ peer_gone \in BOOLEAN
  /\ late \in [Reqs -> BOOLEAN]
  /\ \A a \in Actors :
       (\E i \in DOMAIN writes : writes[i].by = a) <=>
         (IF a = Driver THEN driver = "flush" ELSE pc[a] = "flush")

\* The constructor: nghttp2 has the SETTINGS to send.
Init ==
  /\ streams_ = {}
  /\ ctx = [r \in Reqs |-> NewContext]
  /\ pc = [r \in Reqs |-> "idle"]
  /\ got = [r \in Reqs |-> <<>>]
  /\ out = <<"settings">>
  /\ writes = <<>>
  /\ driver = "none"
  /\ should_close_ = FALSE
  /\ fd_open = TRUE
  /\ closer = "idle"
  /\ inbox = <<>>
  /\ peer = [r \in Reqs |-> "none"]
  /\ chunks = [r \in Reqs |-> 0]
  /\ sent = 0
  /\ peer_gone = FALSE
  /\ late = [r \in Reqs |-> FALSE]

peervars == <<inbox, peer, chunks, sent, peer_gone>>

-----------------------------------------------------------------------------
(* The nghttp2 callbacks, as functions from a context to a context.         *)

CallHeaderWaker(c, success) ==
  IF c.header_waker THEN [c EXCEPT !.header_waker = FALSE, !.header_result = success]
                    ELSE c

CallBodyWaker(c) ==
  IF c.body_waker
  THEN [c EXCEPT !.body_waker = FALSE, !.body_ready = TRUE,
                 !.body_result = c.body_buffer, !.body_buffer = <<>>]
  ELSE c

\* Bug: a closed stream wakes only who waits for the headers.
CloseContextNoBody(c) == CallHeaderWaker([c EXCEPT !.stream_closed = TRUE], "false")

\* on_stream_close_callback, and what the end of the driver does to a stream.
CloseContext(c) ==
  CallBodyWaker(CallHeaderWaker([c EXCEPT !.stream_closed = TRUE], "false"))

\* Bug: the header waker is told that it failed.
OnFrameWakesFalse(c, r, kind) ==
  CASE kind = "headers" -> CallHeaderWaker([c EXCEPT !.status = TRUE], "false")
    [] kind = "data"    -> [c EXCEPT !.body_buffer = Append(@, Chunk(r, Len(@) + 1))]
    [] OTHER            -> CloseContext(c)

\* Bug: the body of a response that was waited for starts a new buffer.
OnFrameDropsBody(c, r, kind) ==
  CASE kind = "headers" -> CallHeaderWaker([c EXCEPT !.status = TRUE], "true")
    [] kind = "data"    -> [c EXCEPT !.body_buffer = <<Chunk(r, Len(@) + 1)>>]
    [] OTHER            -> CloseContext(c)

\* on_header and on_frame_recv for HEADERS, on_data_chunk_recv for DATA,
\* on_stream_close for END_STREAM and RST_STREAM.
OnFrame(c, r, kind) ==
  CASE kind = "headers" -> CallHeaderWaker([c EXCEPT !.status = TRUE], "true")
    [] kind = "data"    -> [c EXCEPT !.body_buffer = Append(@, Chunk(r, Len(@) + 1))]
    [] OTHER            -> CloseContext(c)

-----------------------------------------------------------------------------
(* background_driver.                                                       *)

\* Bug: who joins the driver is not resumed.
DriverEndAlone(c) ==
  /\ ctx' = [r \in Reqs |-> IF r \in streams_ THEN CloseContext(c[r]) ELSE c[r]]
  /\ streams_' = {}
  /\ driver' = "done"
  /\ UNCHANGED closer

\* Behind the loop: every stream is closed, every waker called, the table
\* cleared.  A close_async that waits for the driver goes on.
DriverEnd(c) ==
  /\ ctx' = [r \in Reqs |-> IF r \in streams_ THEN CloseContext(c[r]) ELSE c[r]]
  /\ streams_' = {}
  /\ driver' = "done"
  /\ closer' = IF closer = "joining" THEN "closed" ELSE closer

\* The head of the loop.
DriverLoop(c) ==
  IF should_close_
  THEN DriverEnd(c)
  ELSE driver' = "read" /\ ctx' = c /\ UNCHANGED <<streams_, closer>>

\* flush_writes: the next frame, or back to the loop.
DriverFlush(c, queue, pending) ==
  IF queue = <<>>
  THEN out' = queue /\ writes' = pending /\ DriverLoop(c)
  ELSE /\ out' = Tail(queue)
       /\ writes' = Append(pending, Write(Driver, Head(queue)))
       /\ driver' = "flush"
       /\ ctx' = c
       /\ UNCHANGED <<streams_, closer>>

\* The read returns a frame.  SETTINGS and PING are answered ahead of the rest.
ReadFrame ==
  /\ driver = "read"
  /\ inbox # <<>>
  /\ inbox' = Tail(inbox)
  /\ LET f == Head(inbox)
     IN  IF f.kind = "ctl"
         THEN DriverFlush(ctx, <<"ack">> \o out, writes) /\ UNCHANGED late
         ELSE LET r == f.stream
              IN  /\ DriverFlush(IF r \in streams_
                                 THEN [ctx EXCEPT ![r] = OnFrame(ctx[r], r, f.kind)]
                                 ELSE ctx, out, writes)
                  /\ late' = [late EXCEPT ![r] =
                                @ \/ (pc[r] = "flush" /\ f.kind = "headers")]
  /\ UNCHANGED <<pc, got, should_close_, fd_open, peer, chunks, sent, peer_gone>>

\* The loop is left.
ReadEnds ==
  /\ should_close_' = TRUE
  /\ DriverEnd(ctx)
  /\ UNCHANGED <<pc, got, out, writes, fd_open, peervars, late>>

\* The read must fail or return 0: the peer is gone, or the TLS layer went back
\* to a descriptor that close has taken away.
ReadFail ==
  /\ driver = "read"
  /\ IF inbox = <<>> THEN peer_gone ELSE ~fd_open
  /\ ReadEnds

\* The read fails although the peer is there, or nghttp2 rejects what was read.
ReadError == driver = "read" /\ ReadEnds

-----------------------------------------------------------------------------
(* flush_writes of a request or of the driver.                              *)

\* The write of a in flight.
WriteOf(a) == CHOOSE i \in DOMAIN writes : writes[i].by = a

\* The write of a is done.  The peer has the frame if the write was the oldest
\* one; one that overtook another is a record the peer cannot read, and the peer
\* gives the connection up.  Closing the descriptor does not stop a write.
Delivered(a) ==
  LET w == writes[WriteOf(a)]
  IN  /\ peer' = IF WriteOf(a) = 1 /\ w.frame \in Reqs /\ ~peer_gone
                 THEN [peer EXCEPT ![w.frame] = "got"] ELSE peer
      /\ peer_gone' = (peer_gone \/ WriteOf(a) # 1)

\* The writes in flight without the one of a.
WithoutWrite(a) ==
  [i \in 1..(Len(writes) - 1) |->
     IF i < WriteOf(a) THEN writes[i] ELSE writes[i + 1]]

DriverWrote ==
  /\ driver = "flush"
  /\ Delivered(Driver)
  /\ DriverFlush(ctx, out, WithoutWrite(Driver))
  /\ UNCHANGED <<pc, got, should_close_, fd_open, inbox, chunks, sent, late>>

\* A write may fail on any connection, and its frame is lost.
DriverWriteFailed ==
  /\ driver = "flush"
  /\ should_close_' = TRUE
  /\ writes' = WithoutWrite(Driver)
  /\ DriverEnd(ctx)
  /\ UNCHANGED <<pc, got, out, fd_open, peervars, late>>

\* One write of a request's flush is done: the next frame, whoever queued it, or
\* the wait for the headers.
RequestWrote(r) ==
  /\ pc[r] = "flush"
  /\ Delivered(r)
  /\ IF out = <<>>
     THEN /\ pc' = [pc EXCEPT ![r] = "headers"]
          /\ ctx' = [ctx EXCEPT ![r].header_waker = TRUE]
          /\ writes' = WithoutWrite(r)
          /\ UNCHANGED out
     ELSE /\ writes' = Append(WithoutWrite(r), Write(r, Head(out)))
          /\ out' = Tail(out)
          /\ UNCHANGED <<pc, ctx>>
  /\ UNCHANGED <<streams_, got, driver, should_close_, fd_open, closer, inbox,
                 chunks, sent, late>>

\* "Failed to send request".
RequestWriteFailed(r) ==
  /\ pc[r] = "flush"
  /\ pc' = [pc EXCEPT ![r] = "unsent"]
  /\ streams_' = streams_ \ {r}
  /\ writes' = WithoutWrite(r)
  /\ UNCHANGED <<ctx, got, out, driver, should_close_, fd_open, closer, peervars,
                 late>>

-----------------------------------------------------------------------------
(* request and body_full.                                                   *)

\* "nghttp2 submit failed", behind ensure_background_driver.
SubmitFails(r) ==
  /\ pc[r] = "idle"
  /\ ~should_close_
  /\ driver' = IF driver = "none" THEN "read" ELSE driver
  /\ pc' = [pc EXCEPT ![r] = "refused"]
  /\ UNCHANGED <<streams_, ctx, got, out, writes, should_close_, fd_open, closer,
                 peervars, late>>

\* request up to its first write, with ensure_background_driver: the driver runs
\* to its first read.  The session pool hands out valid sessions only.
Request(r) ==
  /\ pc[r] = "idle"
  /\ ~should_close_
  /\ driver' = IF driver = "none" THEN "read" ELSE driver
  /\ streams_' = streams_ \cup {r}
  /\ LET queue == Append(out, r)
     IN  writes' = Append(writes, Write(r, Head(queue))) /\ out' = Tail(queue)
  /\ pc' = [pc EXCEPT ![r] = "flush"]
  /\ UNCHANGED <<ctx, got, should_close_, fd_open, closer, peervars, late>>

\* The response, or "Stream closed or failed".
ResumeHeaders(r) ==
  /\ pc[r] = "headers"
  /\ ctx[r].header_result # "none"
  /\ IF ctx[r].header_result = "false" \/ (ctx[r].stream_closed /\ ~ctx[r].status)
     THEN pc' = [pc EXCEPT ![r] = "failed"] /\ streams_' = streams_ \ {r}
     ELSE pc' = [pc EXCEPT ![r] = "response"] /\ UNCHANGED streams_
  /\ UNCHANGED <<ctx, got, out, writes, driver, should_close_, fd_open, closer,
                 peervars, late>>

\* Bug: the context is erased before the wait.
BodyFullErases(r) ==
  /\ pc[r] = "response"
  /\ pc' = [pc EXCEPT ![r] = "body"]
  /\ ctx' = [ctx EXCEPT ![r].body_waker = TRUE]
  /\ streams_' = streams_ \ {r}
  /\ UNCHANGED <<got, out, writes, driver, should_close_, fd_open, closer, peervars,
                 late>>

\* body_full: "Stream id not found", a finished stream, or the wait for its end.
BodyFull(r) ==
  /\ pc[r] = "response"
  /\ \/ /\ r \notin streams_
        /\ pc' = [pc EXCEPT ![r] = "nobody"]
        /\ UNCHANGED <<ctx, got, streams_>>
     \/ /\ r \in streams_ /\ ctx[r].stream_closed
        /\ pc' = [pc EXCEPT ![r] = "done"]
        /\ got' = [got EXCEPT ![r] = ctx[r].body_buffer]
        /\ streams_' = streams_ \ {r}
        /\ UNCHANGED ctx
     \/ /\ r \in streams_ /\ ~ctx[r].stream_closed
        /\ pc' = [pc EXCEPT ![r] = "body"]
        /\ ctx' = [ctx EXCEPT ![r].body_waker = TRUE]
        /\ UNCHANGED <<got, streams_>>
  /\ UNCHANGED <<out, writes, driver, should_close_, fd_open, closer, peervars,
                 late>>

ResumeBody(r) ==
  /\ pc[r] = "body"
  /\ ctx[r].body_ready
  /\ pc' = [pc EXCEPT ![r] = "done"]
  /\ got' = [got EXCEPT ![r] = ctx[r].body_result]
  /\ streams_' = streams_ \ {r}
  /\ UNCHANGED <<ctx, out, writes, driver, should_close_, fd_open, closer,
                 peervars, late>>

\* close_async: the driver, if it ever ran and has not ended, is awaited.  Closing
\* the descriptor does not end a read the kernel already has.
CloseAsync ==
  /\ closer = "idle"
  /\ should_close_' = TRUE
  /\ fd_open' = FALSE
  /\ closer' = IF driver \in {"read", "flush"} THEN "joining" ELSE "closed"
  /\ UNCHANGED <<streams_, ctx, pc, got, out, writes, driver, peervars, late>>

-----------------------------------------------------------------------------
(* The peer.                                                                *)

PeerSends(r, kind) ==
  /\ ~peer_gone
  /\ Len(inbox) < MaxInbox
  /\ CASE kind = "headers" -> peer[r] = "got"
       [] kind = "data"    -> peer[r] = "headers" /\ sent < MaxFrames
       [] kind = "end"     -> peer[r] = "headers"
       [] kind = "rst"     -> peer[r] \in {"got", "headers"}
  /\ inbox' = Append(inbox, [stream |-> r, kind |-> kind])
  /\ peer' = [peer EXCEPT ![r] = IF kind = "data" THEN @ ELSE kind]
  /\ chunks' = [chunks EXCEPT ![r] = IF kind = "data" THEN @ + 1 ELSE @]
  /\ sent' = IF kind = "data" THEN sent + 1 ELSE sent
  /\ UNCHANGED <<streams_, ctx, pc, got, out, writes, driver, should_close_,
                 fd_open, closer, peer_gone, late>>

PeerControl ==
  /\ ~peer_gone
  /\ Len(inbox) < MaxInbox
  /\ sent < MaxFrames
  /\ sent' = sent + 1
  /\ inbox' = Append(inbox, [kind |-> "ctl"])
  /\ UNCHANGED <<streams_, ctx, pc, got, out, writes, driver, should_close_,
                 fd_open, closer, peer, chunks, peer_gone, late>>

PeerCloses ==
  /\ ~peer_gone
  /\ peer_gone' = TRUE
  /\ UNCHANGED <<streams_, ctx, pc, got, out, writes, driver, should_close_,
                 fd_open, closer, inbox, peer, chunks, sent, late>>

-----------------------------------------------------------------------------
BackgroundDriver == ReadFrame \/ ReadFail \/ DriverWrote \/ DriverWriteFailed

Flush(r) == RequestWrote(r) \/ RequestWriteFailed(r)

Resume(r) == ResumeHeaders(r) \/ ResumeBody(r)

Next ==
  \/ BackgroundDriver \/ ReadError
  \/ \E r \in Reqs :
       Request(r) \/ SubmitFails(r) \/ Flush(r) \/ Resume(r) \/ BodyFull(r)
  \/ CloseAsync
  \/ \E r \in Reqs, kind \in {"headers", "data", "end", "rst"} : PeerSends(r, kind)
  \/ PeerControl \/ PeerCloses

Spec == Init /\ [][Next]_vars

\* Reads and writes that can complete do, and a posted coroutine is resumed
\* (RingWakeup).  The peer may never answer.
Fairness ==
  /\ WF_vars(BackgroundDriver)
  /\ \A r \in Reqs : WF_vars(Flush(r) \/ Resume(r))

FairSpec == Spec /\ Fairness

-----------------------------------------------------------------------------
(* Properties *)

Waiting(r) ==
  \/ pc[r] = "headers" /\ ctx[r].header_result = "none"
  \/ pc[r] = "body" /\ ~ctx[r].body_ready

\* While the driver runs every waiting request can be found by the callbacks: its
\* context is in streams_ and the waker it waits for is set.
WaitersRegistered ==
  /\ TypeOK
  /\ driver \in {"read", "flush"} =>
       \A r \in Reqs : Waiting(r) =>
         /\ r \in streams_
         /\ IF pc[r] = "headers" THEN ctx[r].header_waker ELSE ctx[r].body_waker

\* body_full returns the DATA of its own stream in order, and all of it unless the
\* stream was reset or the connection ended.
BodyExact ==
  \A r \in Reqs : pc[r] = "done" =>
    /\ \A i \in DOMAIN got[r] : got[r][i] = Chunk(r, i)
    /\ Len(got[r]) <= chunks[r]
    /\ peer[r] # "rst" /\ ~should_close_ =>
         peer[r] = "end" /\ Len(got[r]) = chunks[r]

\* A request that was sent and waits for its response fails ("Stream closed or
\* failed") only when its stream was reset, the driver has ended, or its response
\* was processed while it was still inside flush_writes.
FailureHasCause ==
  \A r \in Reqs : pc[r] = "failed" =>
    peer[r] = "rst" \/ should_close_ \/ late[r]

\* The concurrent test runs requests in parallel and reads each one's response: on
\* a connection that stays up, a request whose stream the peer answered and ended
\* without a reset does not fail.
AnsweredSucceeds ==
  \A r \in Reqs : pc[r] = "failed" =>
    peer[r] # "end" \/ should_close_ \/ peer_gone

\* When the connection ends every request that waits and is registered in
\* streams_ is resumed, with an error or with what it has.  A request still inside
\* flush_writes when the driver clears streams_ is not one of them: it goes on to
\* wait for headers that nobody can announce any more.
EndResumesWaiters ==
  \A r \in Reqs : (peer_gone /\ Waiting(r) /\ r \in streams_) ~> ~Waiting(r)

\* close_async returns once the peer has closed its side.
CloseReturns == (closer = "joining" /\ peer_gone) ~> closer = "closed"
=============================================================================
