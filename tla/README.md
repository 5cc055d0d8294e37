# Verification of ppnt

ppnt is a C++23 network runtime: coroutines over io_uring (`ppnt-io`), an
HTTP/1.1 and HTTP/2 client with a connection pool and an HTTP/1.1 server
(`ppnt-http`), a V8 based JavaScript runtime with its own timer loop
(`ppnt-jr`), and helpers (`ppnt-common`).  `third-party/` is vendored and
external.  This directory holds TLA+ modules translated from that source, TLC
configurations that check them on small instances, and TLAPS proofs.
`PROJECT.json` lists components, runs, mutants, findings, hazards and theorems,
and gives for each definition the source lines it stands for.

## The system's parts

| Part | Source | What runs concurrently | Modules |
|------|--------|------------------------|--------|
| `Ring` loop, `post`, eventfd, `block_on`, `spawn`, `run_in_pool`, `suspend_coroutine` | `ppnt-io/src/driver.*`, `runtime.ixx` | the loop thread, any posting thread, the kernel | `RingWakeup`, `ResumeQueue`, `RingWakeupProofs` |
| Operations, linked timeouts, provided buffers, `IOResult` | `ppnt-io/src/driver.*`, `ops.ixx` | the loop thread against the kernel | `RingOps`, `RingOpsProofs` |
| `Task`, `JoinHandle`, their awaiters, `spawn`, `block_on`, the accept loop | `ppnt-io/src/task.ixx`, `runtime.ixx`, `net/accept.*` | coroutines on one thread | `Coroutines`, `CoroutineProofs` |
| `TlsStream` over `TcpStream` | `ppnt-io/src/net/ssl.ixx`, `tcp_stream.ixx` | coroutines that share a stream, the kernel, the peer | `TlsStream`, `TlsStreamProofs` |
| `Http2Session` | `ppnt-http/src/http2.ixx` | requests, the background driver, `close_async`, the peer | `Http2Session`, `Http2SessionProofs` |
| `HttpClient`, `SessionPool`, `Http1Session`, `HttpResponse` | `ppnt-http/src/client.cpp`, `session.*`, `http1.ixx`, `http_types/response.ixx` | client coroutines, `close_async`, the peers | `SessionPool`, `SessionPoolProofs` |
| HTTP/1 messages, as a server and as a client | `ppnt-http/src/server.ixx`, `http1.ixx` | one reader per session; reads cut anywhere | `Http1Messages` |
| `EventLoop`, JavaScript timers, `execute_script` | `ppnt-jr/src/event_loop.ixx`, `runtime.ixx`, `builtin/timeout.cpp` | scripts, callbacks and time | `EventLoop`, `EventLoopProofs` |
| `Url` | `ppnt-io/src/net/url.cpp` | sequential | `Url` |
| `Base64` | `ppnt-common/src/util.cpp` | sequential | `Base64`, `Base64Proofs` |
| ClientHello rewriting | `ppnt-io/src/net/pptls.cpp`, `binary_util.ixx` | sequential | `ClientHello` |
| HTTP value types, addresses, logging, libc wrappers, JS environment | see `PROJECT.json` | sequential | not modelled |

How they meet: a coroutine awaits an operation (`RingOps`), a pool job or a
callback; the loop thread resumes it (`RingWakeup`); `Coroutines` says which frame
gets control then and who destroys it.  `TlsStream` awaits ring
operations, `Http2Session` and `Http1Session` await the stream, and `SessionPool`
decides which request uses which session.  All of `ppnt-http` runs on the loop
thread, so its coroutines interleave only where a `co_await` really suspends, and
one action is one coroutine from one such point to the next.  Only `RingWakeup` has
several threads; there an action is one critical section, one operation on the
atomic flag, or one system call.  The JavaScript loop runs on the thread of
its isolate and shares nothing with the ring.

## The modules

**`ResumeQueue`** is what `Ring::post` promises: a handle given by any thread is
resumed by the loop thread exactly once, in order, until `block_on` returns.

**`RingWakeup`** implements it.  State: `external_tasks_`, `notified_`, the eventfd
counter, the SQ, the requests in the kernel, the CQ, the locals of `run_one` and
`run_external_tasks`, a state per coroutine, the stack of coroutines on the loop
thread, and a control state per posting thread.  `PostPush`, `PostExchange` and
`PostWrite` are the three observable steps of `post`; `SubmitAndWait` ...
`ArmEventfdRead` those of `run_one`; `CheckDone` is the loop of `block_on`.  A
coroutine may at any time spawn, use the pool, store a callback, call one, start I/O
or finish.  The kernel may complete the eventfd read with `-EAGAIN` (the descriptor
is non-blocking).  The size of the submission queue is left open: arming the read may
find it full and submit it first.

**`RingOps`** follows operations from `co_await` to `await_resume`: the SQE and the
linked timeout of `Ring::submit` (a full queue included), the two completions in
either order and with every outcome the kernel can decide, the CQE loop with
`ref_count`, and the provided buffers, returned through the buffer ring or through
SQEs (`using_buf_ring_` is chosen in `Init`).  Results are classes: zero, data,
`-ETIME`, `-ECANCELED`, other errors.

**`Coroutines`** models frames and the objects that own them.  A handle
`[kind, in, of]` says that a `Task`, a `JoinHandle` or an awaiter in frame `in` owns
frame `of`; `parent` is `promise.parent`; `stack` is the chain of `resume` calls on
the loop thread; `pending` are the frames the ring will resume.  `AwaitTask` and
`JoinWait` are the symmetric transfers of the awaiters, `Finish` the final awaiter,
`Drop` the destructors and the move assignment of `JoinHandle`, `LetGo` the
assignment of a `Task` and `take_handle`, `Listen` and `Accept` the accept loop.
Destroying a frame destroys, through `Cascade`, everything its locals own.  Resuming
a destroyed frame ends a behaviour with `crashed = "uaf"`.

**`TlsStream`** models `run_ssl_op` with `flush_bio_to_tcp`, `fill_bio_from_tcp` and
`TcpStream::write_all`.  A record is a few cells and does not fit the BIO, so
`SSL_write` needs several rounds; the socket takes any part of a write; a write in the
ring refers to `io_buffer_`, not to a copy.  The peer closes with a close_notify, for
which `read` returns 0, or without one.  A well-formed record makes `SSL_read` write
nothing; the fatal errors of `SSL_read`, with the alert they send, and the timeouts of
`read` and `write` are left out.

**`Http2Session`** models `request`, `flush_writes`, `body_full`, the background
driver, the nghttp2 callbacks and `close_async`.  A context keeps its wakers,
flags and body; the peer sends HEADERS, DATA, END_STREAM, RST_STREAM and control
frames, or closes, at any time.  `nghttp2_submit_request` may refuse a request, any
write may fail, also on a healthy connection, and so may any read.  Writes in flight
complete in any order, as `TlsStream` does not keep it when two flushes meet; one that
overtakes another breaks the stream for the peer, which gives the connection up.  A
write the kernel has survives the `close()` of the descriptor.

**`SessionPool`** models `acquire_session`, `release_h1_session`, `close_async`,
`HttpClient::request`, `Http1Session::request` / `body_full` / `reset_state` and the
hook of `HttpResponse::body_full`.  A response is a head and a body that arrive
separately; connections end and reads fail at any time.  A connect fails without
a connection, or gives one up that it had made: after a proxy that refuses CONNECT or a
handshake that fails, the `TcpStream` is dropped, which does not close it.  The client
may be destroyed with or without `close_async` (`DestroyPool`), after which a new one
starts with an empty pool.  `let_go` and `dropped` record which HTTP/2 sessions their
group lost and which HTTP/1 connections were dropped without a close.  The reference to a session
group held across a connect is modelled too: `stale` marks it after `clear()`.  The
inside of an HTTP/2 session is left to `Http2Session`.

**`Http1Messages`** gives what `Http1ServerSession` and `Http1Session` return as a
function of the reads.  The bytes are cells with a kind (URL or reason, field,
value, end of headers, body); llhttp's callbacks see the runs of a kind within one
read, so a field cut by a read arrives in two callbacks, as it does in the code.

**`EventLoop`** models the heap and map of timers, `tick`, `wait_for_next`,
`run_until_empty`, `run_once`, `reset_context` and the JavaScript functions that
reach them.  A script or a callback is any sequence of these calls, and time
passes at any point.  Delays are milliseconds and deadlines nanoseconds, both 64 bits
wide: `parse_delay` clamps, and the conversion and the sum wrap where they leave that
range (an overflow C++ leaves undefined; the instructions of the build wrap).  `due`
keeps the moment without overflow.  Timers of equal deadline fire in any order, as the heap's
comparison leaves it open.

**`Url`**, **`Base64`** and **`ClientHello`** are functions: `parse`, `resolve`,
`href` and `remove_dot_segments` on texts; `encode`, `decode` and `decode_bin` by
groups, with the 255 that `find()` returns for a character it does not know;
`rewrite` with each bounds check and each length field cut to its width.
**`MCAlgorithms`** calls them, and those of `Http1Messages`, on bounded inputs and
compares the results with reference definitions (RFC 3986, RFC 4648, a parser of the
rewritten hello, the cells that were sent).

Operators marked `Bug:` stand before the definition they damage.  No specification
uses them: each is a plausible mistake in the code, and substituting it makes TLC
report the property it belongs to.

## The runs

| Run | Instance | Distinct states | Shows |
|-----|----------|-----------------|-------|
| `ring_wakeup` | 2 workers, 2 coroutines | 45 987 | `TypeOK`, `NoLostWakeup`, `EvReadArmedOnce`, `QueuedOnce`; `PostedIsResumed` (liveness); `ImplementsResumeQueue` (refinement, with the fairness of the abstract queue) |
| `ring_lifetime` | same | violation | `RingOutlivesPosts` fails, see Findings |
| `ring_ops` | 2 operations, 1 buffer, SQ of 2, both ways to return a buffer | 541 552 | `NoReferenceAfterResume`, `ResultIsOutcome`, `BufferOwnership`; `LostOnlyToTimeout` (what a step may lose); `TimeoutResumes`: a timeout resumes its coroutine though the I/O never completes |
| `ring_ops_slots` | 2 operations, SQ of 3 | violation | `TwoCompletionsToCome` fails, see Findings |
| `coroutines` | 4 frames, 1 suspension each | 120 456 | `SingleOwner`, `ParentWaits`, `DanglingAbandoned`; `AwaitReturns` (liveness) |
| `event_loop` | 2 timers, 7 instants, delays on, below and beyond the clock and no number | 497 413 | `KeyPerTimer`; `ClearIsFinal`, `DeadlineOrder` (what a call may never be); `TickEnds`, `LoopReturns` (liveness) |
| `http2_session` | 2 requests, 2 DATA or control frames, 2 frames on the way | 405 978 | `WaitersRegistered`, `BodyExact`, `FailureHasCause`; `EndResumesWaiters`, `CloseReturns` (liveness) |
| `http2_session_late` | 2 requests, 1 frame | violation | `AnsweredSucceeds` fails, see Findings |
| `session_pool` | 2 keys, 2 clients, 2 connections, 3 requests, 1 idle session per key | 470 210 | `IdleIsQuiet`, `OwnResponse`, `NoLeakOnCleanPath`, `DriverOutlived` |
| `tls_stream` | 2 callers, 1 reader, records of 3 cells over a BIO of 2 | 8 970 | `WireInOrderAlone`, `ReturnedIsSent`, `ReadInOrder`; `FlushEnds`, `ReaderServed` (liveness) |
| `tls_shared_buffer` | 2 callers | violation | `WireInOrder` fails, see Findings |
| `algorithms` | see below | 169 760 | `PathNormalised`, `HrefParsesBack`, `ResolveTarget`, `Base64Exact`, `RewriteWellFormed`, `MessagesAsSent` |

Each module has a type invariant `TypeOK`; outside `ring_wakeup` it is a conjunct of
the first invariant named in the row (of `ReadInOrder` in `tls_stream`, of
`BufferOwnership` in `ring_ops`).

Why these bounds are enough to be interesting:

- Two workers and the loop thread give three concurrent posts, one of which can
  be between its push and its exchange while another writes.  The eventfd counter
  needs no bound: only a thread that found the flag clear writes.
- A submission queue of two entries is full, has one slot or has two when an
  operation with a timeout comes, which are the three cases of `Ring::submit`.  One
  buffer for two reads makes every hand-over visible.
- Four frames allow a coroutine that spawns one that awaits another, a handle
  moved to a third, and the destruction of a frame that owns frames; one suspension
  each lets every await be met while suspended and after completion.
- A BIO smaller than a record makes both `SSL_write` and `SSL_read` go round
  more than once, and `RecvMax` makes a record arrive in pieces.  The code has one
  reader per stream (the session's driver or its one request), hence `Readers`
  has one member.
- `MaxIdle` = 1 reaches the limit of `h1_idle` (100 in the code) with two
  connections; three requests let a session be reused after another request used it.
- With two timers an interval, its cancellation and a timer set by a callback
  meet.  `LongMax` = 7 and `NsPerMs` = 2 stand for 2^63 - 1 and 1000000: of the delays
  -1, 0, 1, 2, 4 and 8, the first is normalised, 1 and 2 stay on the clock (2 only if
  set early), the product for 4 wraps to the other end of the range, and 8, like
  Infinity, is clamped to a step that wraps to -1 ms.  Seven instants (`MaxTime` = 6)
  let an interval fall behind and catch up in one tick.
- `MaxFrames` bounds DATA and control frames together: two chunks of one body, a
  chunk on each stream, or a chunk and a control frame; `MaxInbox` bounds what is on
  its way to the driver.
- `algorithms`: all paths over `/`, `.`, `x` up to length 7 (every two dot segments
  in a row, and at both ends); URLs from lists of schemes, user infos, hosts, ports,
  paths, queries and fragments that hold each separator in each wrong place; byte
  strings up to 5 (a whole group and every last group) over four bytes that differ in
  every bit pair, texts up to 5 with padding and foreign characters; hellos with up to
  three extensions under specifications with up to two.  `ByteBase` = 4 instead of 256
  brings the 8 and 16 bit limits within reach of short messages, `RandomLen` = 1
  stands for 32, `IntMax` = 50 for the largest `int`.  A message of eleven cells
  is cut into reads in all 1024 ways and ends after any cell.

Symmetry is used in `ring_lifetime` (workers, coroutines other than the root) and in
`session_pool` (clients, connections); neither checks a liveness property.
The runs set `CHECK_DEADLOCK FALSE` because the programs may end, or wait for a
peer that never answers.

### Fairness

- `RingWakeup`: the loop thread and a thread inside `post` keep running, and the
  kernel completes a read of an eventfd whose counter is positive.  Nothing is
  assumed of I/O, pool jobs or `-EAGAIN` completions.
- `RingOps`: the loop calls `run_one` again, timers expire, the kernel posts the
  completions it owes.  I/O may never complete.
- `Coroutines`: a coroutine that has control finishes some time, and what a suspended
  coroutine waits for outside comes (what `RingWakeup` and `RingOps` show of posts
  and timeouts).  No connection need ever arrive at the accept loop.
- `TlsStream`: the ring executes writes it holds and completes a read that can
  complete (data or end of stream).
- `Http2Session`: a write in flight completes or fails, a frame that has arrived is
  read, a read at the end of the stream fails, and a posted coroutine is
  resumed, which is what `RingWakeup` shows.  The peer may never answer or close, and no
  error need ever happen (`ReadError`, `SubmitFails` have no fairness).
- `EventLoop`: the thread runs and callbacks return.

### Properties with an exception

Some properties name the case in which the code does not give what one would
hope for, so that what is left is exact:

- `LostOnlyToTimeout`: a provided buffer is lost when a timeout reports `-ETIME`
  for a read that had succeeded, and in no other case.
- `SingleOwner`: a frame nobody owns was let go, by `take_handle` (as the accept loop
  does with every handler) or by the assignment of a `Task`, which forgets the
  handle it held (`task.ixx:174`); it stays allocated.
- `DanglingAbandoned`: the ring resumes a destroyed frame only when a `JoinHandle`
  was destroyed, or overwritten, before its coroutine had finished.
- `DeadlineOrder`, `TickEnds`: for timers whose deadline `steady_clock` can express.
  `setTimeout(f, Infinity)` is called at once, because `now + milliseconds(LONG_MAX)`
  (`event_loop.ixx:109`) wraps; an interval of that length moves its deadline back
  (`event_loop.ixx:207`), is due again in the same tick, and the tick does not end.
- `FailureHasCause`: it is about a request that was sent and waits.  It fails because
  its stream was reset, the driver ended, or its response came while it was still
  flushing (the finding `http2_session_late`).  A request that nghttp2 refuses or that
  cannot be sent has errors of its own (`refused`, `unsent`).
- `EndResumesWaiters`: a request still inside `flush_writes` when the driver ends and
  clears `streams_` is not resumed; once its flush is over it waits for headers that
  nobody can announce.
- `NoLeakOnCleanPath`: while the peer is there, a descriptor stays open and unheld only
  when a connect gave its connection up after the TCP connect (`session.cpp:43`,
  `session.cpp:90`), the request on it failed, its response was dropped unread, or the
  pool went away with it, by its destructor or by the `clear()` of `close_async`.
- `DriverOutlived`: an HTTP/2 session can be destroyed under its running driver after
  GOAWAY, or when its group let it go: a second connect replaced it, `close_async`
  closed it or cleared its group, its own connect came back to a cleared group, or the
  client was destroyed (as `test_http_concurrent.cpp:61` does without `close_async`).
  These are the hazards themselves; the property shows that there are no others.
- `WireInOrderAlone`, `ReturnedIsSent`: unless two flushes meet (the finding
  `tls_shared_buffer`).
- `HrefParsesBack`: not for an empty user info in front of a host with an `@` of its
  own (`h://@a@b`), nor for a host that begins with `[` (`h://[[x]]`): `href` drops what
  told them apart.
- `ResolveTarget`: for references with a path and without scheme and authority.
  The test of `parse_authority` in `resolve` is inverted (`url.cpp:197`), so `//host/x`
  is refused, and a reference that is only a fragment loses the query of the base
  (`url.cpp:174`); the model does what the code does.
- `MessagesAsSent`: of a URL or a reason that lies across two reads only the last
  part is kept (`server.ixx:133`), and a body the peer cut short is returned as if whole.
- `RewriteWellFormed`: as long as the blocks fit their 16 bit length fields.

## Findings

Each is a run that TLC refutes; the quoted line of the repository is in
`PROJECT.json`.

1. `ring_lifetime` (`driver.cpp:118`): a pool worker that has queued its coroutine
   is still about to use `notified_` and `ev_fd_` when another wake-up makes the
   loop resume that coroutine, the root finishes and `block_on` destroys the Ring.
2. `ring_ops_slots` (`driver.ixx:73`): the SQE of the linked timeout is not checked.
   When the request took the last slot it is null.
3. `http2_session_late` (`http2.ixx:120`): `header_waker` is set after the flush, and
   the flush may be busy with another request's frame.  A response read meanwhile
   wakes nobody, and the end of the stream then fails the answered request.
4. `tls_shared_buffer` (`ssl.ixx:286`): two writers on one `TlsStream` share
   `io_buffer_`; the second overwrites bytes the ring has not yet sent for the first.

## What is proved

The theorems hold for every value of the constants that satisfies the named
assumptions of their modules: any number of threads, coroutines, operations, buffers,
timers, frames, callers, keys or connections, and any size of queues, records, buffers
and idle lists.  TLC has
checked each inductive invariant as an invariant of the run's instance as well.

| Module | Theorem | Statement |
|--------|---------|-----------|
| `RingWakeupProofs` | `TypeCorrect`, `WakeupNeverLost` | `[]TypeOK`, `[]NoLostWakeup` |
| | `NeverResumedTwice`, `EvReadNeverDropped` | `[]QueuedOnce`, `[]EvReadArmedOnce` |
| | `RingImplementsQueue` | every step of the ring is a step or a stutter of `ResumeQueue` |
| `RingOpsProofs` | `NoneRefersAfterResume`, `ResultIsWhatHappened`, `BufferHasOneOwner` | `[]NoReferenceAfterResume`, `[]ResultIsOutcome`, `[]BufferOwnership` |
| | `LostToTimeoutOnly` | the action property `LostOnlyToTimeout` |
| `CoroutineProofs` | `OneOwner`, `ParentIsThere`, `DanglingIsAbandoned` | `[]SingleOwner`, `[]ParentWaits`, `[]DanglingAbandoned` |
| `EventLoopProofs` | `OneKeyPerTimer`, `ClearedNeverCalled`, `CalledInOrder` | `[]KeyPerTimer`, `ClearIsFinal`, `DeadlineOrder` |
| `TlsStreamProofs` | `WireStaysInOrder`, `NothingStaysBehind` | `[]WireInOrderAlone`, `[]ReturnedIsSent` |
| | `ReadsStayInOrder` | `[]ReadInOrder`, when one coroutine reads (`OneReader`) |
| `Http2SessionProofs` | `WaitersStayRegistered`, `BodiesAreExact`, `FailuresHaveCause` | `[]WaitersRegistered`, `[]BodyExact`, `[]FailureHasCause` |
| `SessionPoolProofs` | `PoolIsQuiet`, `ResponseIsOwn`, `CleanPathLeaksNothing`, `DriverIsOutlived` | `[]IdleIsQuiet`, `[]OwnResponse`, `[]NoLeakOnCleanPath`, `[]DriverOutlived` |
| `Base64Proofs` | `GroupRoundTrip` | decoding an encoded group of one to three bytes gives the group back |

The arguments:

- **Wake-up** (`WakeupInv`).  `NoLostWakeup` is not inductive: it says nothing about
  `notified_`, so a step in which the exchange finds the flag set could not be
  justified.  `TaskCovered`: a handle in the deque has the flag set, unless its
  poster has not exchanged yet or the loop is between the store and the swap.
  `FlagCovered`: while the flag is set, a wake-up is under way (a poster about to
  write, a positive counter, a CQE, or the loop handling one).  `LocalsEmpty`: the
  local deque and the batch are empty outside their loops.  The first two together
  give `NoLostWakeup`.
- **The ring as a queue** (`PlaceInv`).  It adds that every coroutine and the eventfd
  read is in one place only: the stack, one of the two deques, the SQ, the kernel,
  the CQ or the batch, each in agreement with the coroutine's state.  The refinement
  maps the abstract queue to the local deque followed by the shared one; the swap of
  the deques is then a stutter because the local one is empty.
- **Operations** (`OpInv`, `OwnerInv`, `BidInv`).  `QueueInv` says what every SQE, request and
  CQE implies for its operation: it is pending, no completion exists twice,
  `ref_count` is the number of completions to come, and `result` what those that came
  have left there.  That a resumed operation is referred to by nobody follows from
  the count.  `OwnerInv` gives each buffer one owner over all the places it can be.
  Submission, which may submit the queue in its middle, and recycling come to one
  kind of change of the queues (`Shift`), for which preservation is proved once; that
  no buffer disappears in such a change is a part of it (`Kept`).  So only the CQE loop
  can lose a buffer.  `BidInv`: a buffer comes with the CQE of a request that succeeded,
  and `bid` is set only once that CQE is gone, so that no CQE overwrites it; what is
  left is a resumption whose result is not the request's own, which is -ETIME.
- **Frames** (`OwnInv`).  The danger is a destruction that takes along a frame which
  has control or which somebody will resume.  The invariant therefore describes the
  ownership relation: one owner per frame, no cycle (every set of frames has one
  whose owner is outside), and every frame on the stack belongs, directly or not, to
  the one below.  What a destruction takes along is the least set closed under
  ownership; with no cycle it never contains the frame that destroys.
- **Timers** (`TimerInv`).  A timer has one key.  As long as its deadline is on the
  clock the key holds the moment it is due, and that is not before the last deadline
  met; the timer whose callback runs has no key and is the one met last; the clock never
  runs behind.  That the 64-bit sums are exact on the clock is a lemma (`PlusMsExact`);
  the keys that wrapped are in the same heap, and the invariant says that they disturb
  none of the others.  The action properties follow from it in the step that starts a
  callback.
- **TLS** (`SendInv`, `ReadInv`).  While no two flushes have met, the wire, the unsent part of the
  write in the ring and the rest inside SSL are consecutive pieces of one stream, which
  ends with the last record encrypted; and the writer goes round again exactly when SSL
  has a rest.  On the reading side the records returned, what SSL has of the next one,
  the BIO and what the socket has not delivered are consecutive pieces of the peer's
  stream (`Arriving`).  That received bytes always have room holds because a reader
  waits for the socket only when the BIO is empty (`FillInv`), and one read returns no
  more than the BIO holds.  A second reader would break `FillInv`: it may wait while the
  first leaves cells behind in the BIO.  Hence `OneReader`, which the code keeps: an
  HTTP/2 session reads in its driver only, an HTTP/1 session serves one request at a
  time.  `ReadInOrder` also bounds the writes in the ring, however many flushes meet:
  `RingInv` gives each its own suspended caller, of which at most one has a rest inside
  SSL to go on with.
- **HTTP/2 streams** (`H2Inv`).  `BodyExact` speaks of a body that was returned; what
  justifies it lies in the context and in the frames still on their way.  `Counted`
  gives for every frame on its way the number of chunks up to it: it starts with those
  in the buffer and is, at END_STREAM and at the end, the number the peer has sent.
  `InboxInv` orders the frames of a stream (HEADERS before END_STREAM, nothing behind
  the frame that closes), `WakerInv` ties each waker to the place its coroutine waits
  at, and `CauseInv` says that a response which woke nobody came during the flush.
  `QueueInv` keeps a request's HEADERS in one place until the peer has it, so that the
  peer answers a stream once.  These are operators of the parts of one stream: a frame
  that arrives and also ends the driver is two steps of the proof.  That requests are
  not the names of other frames (`FramesAssumption`) is all that is asked of `Reqs`,
  besides that the driver is none of them.
- **The session pool** (`ExchangeInv`, `PlaceInv`, `DriverInv`).  None of the
  properties is inductive by itself.  That a session goes back quiet depends on what it held
  while the request used it: `Owes` says that all parts not yet read belong to the one
  request, that its body is the last of them, and that behind a complete message nothing
  is left, so a read that completes the message empties the session.  `PlaceInv` keeps
  one HTTP/1 session in one entry of one idle list or with one coroutine, without which a
  second user could disturb the first one's exchange.  These two are preserved together
  (`Base`) and give `IdleIsQuiet` and `OwnResponse`.  `NoLeakOnCleanPath` is preserved over `Base`: what
  `acquire_session` removes from an idle list is invalid, that is closed or left by its
  peer, and every other way out of the list or of a coroutine closes the connection or
  puts it into `dropped`.  `DriverInv` says where a session with a running driver
  is kept: in its group, and valid, unless the peer said GOAWAY or its group let it go.
  Most actions move
  one coroutine and one session and leave the others alike; that is proved once
  (`Moving`, `GivingBack`) and each action is shown to be such a step.
  What `remove_if` and `erase` leave is stated by the positions that stay (`Survivors`);
  `SurvivorsAssumption` of `MCSessionPool` compares it with `SelectSeq` on short lists.
- **Base64**.  The bits of a group are cut and joined by division; each cut is
  a lemma over all 256 values.  That whole texts are encoded group by group is a
  recursion and stays with TLC.

Only model-checked: liveness under fairness (with it the fairness part of the
refinement), which the prover does not treat; and the functions of `MCAlgorithms`, which
are recursive.

## What is not modelled, and why

- The error mapping of `ops.cpp`, the TLS handshake, shutdown, contexts and
  certificates: calls into external libraries with a result.
- Header contents of HTTP/2, 1xx responses and HTTP/2 flow control.  A connect, with
  its proxy tunnel and its handshake, is one step with one of four outcomes.  A context that stays in `streams_`
  because `body_full` is never called only keeps memory.
- HTTP/1: pipelined requests (the peers here wait for an answer), short writes of
  `Http1Session::request` (`http1.ixx:83` does not compare the count), a second
  `body_full` on one response (`response.ixx:99`), `send_response` and keep-alive.
- Moving an `HttpRequest` drops its timeout (`request.ixx:22`): a value type with no
  state over time.
- `SessionPool::close_async` closes the idle sessions of a group in one step.  Where a
  close suspends for a TLS shutdown, a session released meanwhile, and a shutdown that
  fails and ends `close_async` early (`session.cpp:176`), are not distinguished.
- Addresses, name resolution, logging, libc wrappers, traits, HTTP value types and
  the JavaScript environment: no state that several steps share.  What remains of
  `client.cpp` is commented-out code.
- `co_await` of an empty `JoinHandle`, a caller's error.
- Vendored libraries: modelled by how this code uses them and marked external.
