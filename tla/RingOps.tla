------------------------------ MODULE RingOps ------------------------------
(***************************************************************************)
(* One io_uring operation from co_await to await_resume (ppnt-io): the     *)
(* AsyncOp / AsyncBufferOp awaiters, Ring::submit with its linked timeout, *)
(* the CQE loop of Ring::run_one, and the provided buffers that recv hands *)
(* out and IOResult gives back.  The kernel is external: it may post the   *)
(* completions of one operation in any order and with any outcome the      *)
(* io_uring interface allows.                                              *)
(***************************************************************************)
EXTENDS Naturals, Sequences, FiniteSets, Functions

CONSTANTS
  Ops,           \* the Operation objects, one per awaiting coroutine
  Buffers,       \* ids of the provided buffers (BUF_COUNT of them)
  Entries,       \* size of the submission queue
  None           \* no operation, no buffer

ASSUME EntriesAssumption == Entries \in Nat \ {0}
ASSUME NoneAssumption == None \notin Ops \cup Buffers

VARIABLES
  phase,        \* "idle", "pending" (suspended) or "resumed" (await_resume ran)
  result,       \* Operation::data.result, by class
  bid,          \* Operation::data.bid when F_HAS_BUFFER is set, else None
  ref_count,    \* Operation::data.ref_count
  linked,       \* F_IS_LINKED: the operation has a timeout
  select,       \* the SQE has IOSQE_BUFFER_SELECT
  held,         \* the buffer of the coroutine's IOResult, or None
  sq,           \* SQEs not yet consumed by the kernel, oldest first
  issued,       \* operations the kernel is working on
  owed,         \* CQEs the kernel has yet to post
  cq,           \* CQEs not yet dispatched, oldest first
  free,         \* buffers the kernel may hand out
  outcome,      \* what the kernel decided for the operation (io, to)
  crashed,      \* a null SQE was dereferenced
  using_buf_ring_ \* Ring::using_buf_ring_: the kernel took the buffer ring

vars == <<phase, result, bid, ref_count, linked, select, held, sq, issued,
          owed, cq, free, outcome, crashed, using_buf_ring_>>
opvars == <<phase, result, bid, ref_count, linked, select, held>>

\* Classes of a result: 0 (initial value, end of stream, success of connect),
\* positive, -ETIME, -ECANCELED, any other error.
Results == {"zero", "data", "etime", "canceled", "err"}
IoResults == {"zero", "data", "err"}
Outcomes == [io : Results, to : Results]
NoOutcome == [io |-> "zero", to |-> "zero"]

Sqes == [kind : {"io", "to", "provide"}, op : Ops \cup {None},
         buf : Buffers \cup {None}]
Cqes == [kind : {"io", "to", "provide"}, op : Ops \cup {None},
         res : Results, buf : Buffers \cup {None}]

\* The members of Operation, the queues and the kernel's bookkeeping are well formed.
TypeOK ==
  /\ phase \in [Ops -> {"idle", "pending", "resumed"}]
  /\ result \in [Ops -> Results \ {"canceled"}]
  /\ bid \in [Ops -> Buffers \cup {None}]
  /\ ref_count \in [Ops -> 0..2]
  /\ linked \in [Ops -> BOOLEAN]
  /\ select \in [Ops -> BOOLEAN]
  /\ held \in [Ops -> Buffers \cup {None}]
  /\ sq \in Seq(Sqes) /\ Len(sq) <= Entries
  /\ issued \subseteq Ops
  /\ owed \subseteq Cqes
  /\ cq \in Seq(Cqes)
  /\ free \subseteq Buffers
  /\ outcome \in [Ops -> Outcomes]
  /\ crashed \in BOOLEAN /\ using_buf_ring_ \in BOOLEAN

\* The constructor, with init_buffers: a buffer ring where the kernel has it.
Init ==
  /\ phase = [o \in Ops |-> "idle"]
  /\ result = [o \in Ops |-> "zero"]
  /\ bid = [o \in Ops |-> None]
  /\ ref_count = [o \in Ops |-> 1]
  /\ linked = [o \in Ops |-> FALSE]
  /\ select = [o \in Ops |-> FALSE]
  /\ held = [o \in Ops |-> None]
  /\ sq = <<>>
  /\ issued = {}
  /\ owed = {}
  /\ cq = <<>>
  /\ free = Buffers
  /\ outcome = [o \in Ops |-> NoOutcome]
  /\ crashed = FALSE
  /\ using_buf_ring_ \in BOOLEAN

-----------------------------------------------------------------------------
(* The submission queue.                                                    *)

\* io_uring_submit: the kernel consumes every queued SQE.  A provided buffer is
\* available at once and its CQE carries no user data.
IoSqe(o)      == [kind |-> "io", op |-> o, buf |-> None]
TimeoutSqe(o) == [kind |-> "to", op |-> o, buf |-> None]
ProvideSqe(b) == [kind |-> "provide", op |-> None, buf |-> b]
ProvideCqe    == [kind |-> "provide", op |-> None, res |-> "zero", buf |-> None]

Consume(queue) ==
  /\ issued' = issued \cup {e.op : e \in {q \in Range(queue) : q.kind = "io"}}
  /\ free' = free \cup {e.buf : e \in {q \in Range(queue) : q.kind = "provide"}}
  /\ cq' = cq \o [i \in 1..Cardinality({j \in DOMAIN queue : queue[j].kind = "provide"})
                    |-> ProvideCqe]

\* get_sqe, submitting and trying again when the queue is full, then the SQEs
\* of new in the queue.
Enqueue(new) ==
  IF Len(sq) = Entries
  THEN Consume(sq) /\ sq' = new
  ELSE sq' = sq \o new /\ UNCHANGED <<issued, free, cq>>

\* Slots left after get_sqe has made room.
Room == IF Len(sq) = Entries THEN Entries ELSE Entries - Len(sq)

-----------------------------------------------------------------------------
(* The loop thread.                                                         *)

\* The constructor of the awaiter (Operation::reset) and await_suspend.
StartOp(o, timeout, buffered) ==
  /\ ~crashed
  /\ phase[o] = "idle"
  /\ phase' = [phase EXCEPT ![o] = "pending"]
  /\ result' = [result EXCEPT ![o] = "zero"]
  /\ bid' = [bid EXCEPT ![o] = None]
  /\ linked' = [linked EXCEPT ![o] = timeout]
  /\ select' = [select EXCEPT ![o] = buffered]
  /\ outcome' = [outcome EXCEPT ![o] = NoOutcome]
  /\ UNCHANGED <<held, owed, using_buf_ring_>>

\* Ring::submit: an SQE for the request and, with a timeout, a linked one.  The
\* second get_sqe is not checked: with one slot left it returns null and the
\* process dies in io_uring_prep_link_timeout.
Submit(o, timeout) ==
  IF timeout /\ Room = 1
  THEN Enqueue(<<IoSqe(o)>>) /\ crashed' = TRUE
  ELSE /\ Enqueue(IF timeout THEN <<IoSqe(o), TimeoutSqe(o)>> ELSE <<IoSqe(o)>>)
       /\ UNCHANGED crashed

\* Bug: a wrong number of expected completions for an operation with a timeout.
AwaitOneRef(o, timeout, buffered) ==
  /\ StartOp(o, timeout, buffered)
  /\ ref_count' = [ref_count EXCEPT ![o] = 1]
  /\ Submit(o, timeout)

\* co_await of an AsyncOp or AsyncBufferOp.  An operation with a timeout waits
\* for two completions.
Await(o, timeout, buffered) ==
  /\ StartOp(o, timeout, buffered)
  /\ ref_count' = [ref_count EXCEPT ![o] = IF timeout THEN 2 ELSE 1]
  /\ Submit(o, timeout)

\* io_uring_submit_and_wait at the head of run_one.
SubmitAndWait ==
  /\ ~crashed
  /\ sq # <<>>
  /\ Consume(sq)
  /\ sq' = <<>>
  /\ UNCHANGED <<opvars, owed, outcome, crashed, using_buf_ring_>>

\* Bug: the CQE of a cancelled request clears the -ETIME of its timeout.
NewResultIoWins(c) ==
  CASE c.kind = "to" /\ c.res = "etime" -> "etime"
    [] c.kind = "io" /\ c.res = "canceled" -> "zero"
    [] c.kind = "io"                     -> c.res
    [] OTHER                             -> result[c.op]

\* The assignments of run_one for one CQE c of an operation, before the test of
\* ref_count: a cancelled request leaves result alone, a timeout overwrites it.
NewResult(c) ==
  CASE c.kind = "to" /\ c.res = "etime"    -> "etime"
    [] c.kind = "io" /\ c.res # "canceled" -> c.res
    [] OTHER                               -> result[c.op]

NewBid(c) ==
  IF c.kind = "io" /\ c.res # "canceled" /\ c.buf # None THEN c.buf ELSE bid[c.op]

\* Bug: the buffer of a read of 0 bytes is forgotten.
ResumedWithData(res, b) == IF res = "data" THEN b ELSE None

\* AsyncBufferOp::await_resume: the IOResult owns the buffer of a read that did
\* not fail.  An AsyncOp never has one.
ResumedWith(res, b) == IF res \in {"zero", "data"} THEN b ELSE None

\* Bug: the CQE of a cancelled request is skipped with its reference counted.
DispatchSkipping ==
  /\ ~crashed
  /\ cq # <<>>
  /\ cq' = Tail(cq)
  /\ LET c == Head(cq)
         o == c.op
     IN  IF o = None \/ c.res = "canceled"
         THEN UNCHANGED opvars
         ELSE /\ result' = [result EXCEPT ![o] = NewResult(c)]
              /\ bid' = [bid EXCEPT ![o] = NewBid(c)]
              /\ ref_count' = [ref_count EXCEPT ![o] = @ - 1]
              /\ IF ref_count[o] = 1
                 THEN /\ phase' = [phase EXCEPT ![o] = "resumed"]
                      /\ held' = [held EXCEPT ![o] = ResumedWith(NewResult(c), NewBid(c))]
                 ELSE UNCHANGED <<phase, held>>
              /\ UNCHANGED <<linked, select>>
  /\ UNCHANGED <<sq, issued, owed, free, outcome, crashed, using_buf_ring_>>

\* One turn of the CQE loop of run_one, the resumption included.
Dispatch ==
  /\ ~crashed
  /\ cq # <<>>
  /\ cq' = Tail(cq)
  /\ LET c == Head(cq)
         o == c.op
     IN  IF o = None
         THEN UNCHANGED opvars
         ELSE /\ result' = [result EXCEPT ![o] = NewResult(c)]
              /\ bid' = [bid EXCEPT ![o] = NewBid(c)]
              /\ ref_count' = [ref_count EXCEPT ![o] = @ - 1]
              /\ IF ref_count[o] = 1
                 THEN /\ phase' = [phase EXCEPT ![o] = "resumed"]
                      /\ held' = [held EXCEPT ![o] = ResumedWith(NewResult(c), NewBid(c))]
                 ELSE UNCHANGED <<phase, held>>
              /\ UNCHANGED <<linked, select>>
  /\ UNCHANGED <<sq, issued, owed, free, outcome, crashed, using_buf_ring_>>

\* recycle_buffer: the buffer goes straight to the kernel's ring, or into an SQE
\* for a kernel without buffer rings.
RecycleBuffer(b) ==
  IF using_buf_ring_
  THEN free' = free \cup {b} /\ UNCHANGED <<sq, issued, cq>>
  ELSE Enqueue(<<ProvideSqe(b)>>)

\* Bug: a moved-from IOResult keeps its buffer pointer.
ReleaseTwice(o) ==
  /\ ~crashed
  /\ phase[o] = "resumed"
  /\ held[o] # None
  /\ RecycleBuffer(held[o])
  /\ UNCHANGED <<opvars, owed, outcome, crashed, using_buf_ring_>>

\* ~IOResult, or an assignment over it.
Release(o) ==
  /\ ~crashed
  /\ phase[o] = "resumed"
  /\ phase' = [phase EXCEPT ![o] = "idle"]
  /\ held' = [held EXCEPT ![o] = None]
  /\ IF held[o] = None THEN UNCHANGED <<sq, issued, free, cq>>
                       ELSE RecycleBuffer(held[o])
  /\ UNCHANGED <<result, bid, ref_count, linked, select, owed, outcome, crashed,
                 using_buf_ring_>>

-----------------------------------------------------------------------------
(* The kernel.                                                              *)

\* The CQEs of operation o for what the kernel decided.
CqesOf(o, r, b) ==
  {[kind |-> "io", op |-> o, res |-> r.io, buf |-> b]} \cup
    (IF linked[o] THEN {[kind |-> "to", op |-> o, res |-> r.to, buf |-> None]} ELSE {})

Decide(o, r, b) ==
  /\ ~crashed
  /\ o \in issued
  /\ issued' = issued \ {o}
  /\ outcome' = [outcome EXCEPT ![o] = r]
  /\ owed' = owed \cup CqesOf(o, r, b)
  /\ free' = free \ {b}
  /\ UNCHANGED <<opvars, sq, cq, crashed, using_buf_ring_>>

\* The request completes.  Its timeout, if any, is cancelled, or it is firing
\* already and reports -ETIME for a request that is gone.
KernelComplete(o) ==
  \E io \in IoResults, to \in {"canceled", "err", "etime"} :
    \E b \in CASE select[o] /\ io = "data" -> free
              [] select[o] /\ io = "zero" -> free \cup {None}
              [] OTHER                    -> {None} :
      Decide(o, [io |-> io, to |-> IF linked[o] THEN to ELSE "zero"], b)

\* The timeout fires first and cancels the request.
KernelTimeout(o) ==
  linked[o] /\ Decide(o, [io |-> "canceled", to |-> "etime"], None)

KernelPost(o) ==
  /\ ~crashed
  /\ \E c \in owed : c.op = o /\ owed' = owed \ {c} /\ cq' = Append(cq, c)
  /\ UNCHANGED <<opvars, sq, issued, free, outcome, crashed, using_buf_ring_>>

-----------------------------------------------------------------------------
Next ==
  \/ \E o \in Ops, timeout, buffered \in BOOLEAN : Await(o, timeout, buffered)
  \/ \E o \in Ops : Release(o)
  \/ \E o \in Ops : KernelComplete(o) \/ KernelTimeout(o) \/ KernelPost(o)
  \/ SubmitAndWait \/ Dispatch

Spec == Init /\ [][Next]_vars

\* The loop thread keeps calling run_one, timers expire and the kernel posts what
\* it owes.  I/O itself may never complete.
Fairness ==
  /\ WF_vars(SubmitAndWait) /\ WF_vars(Dispatch)
  /\ \A o \in Ops : WF_vars(KernelTimeout(o)) /\ WF_vars(KernelPost(o))

FairSpec == Spec /\ Fairness

-----------------------------------------------------------------------------
(* Properties *)

\* An Operation lives in the frame of its coroutine: once the coroutine is
\* resumed no SQE, request or CQE may refer to it, in whichever order the two
\* completions of an operation with a timeout arrive.
NoReferenceAfterResume ==
  \A o \in Ops : phase[o] # "pending" =>
    /\ o \notin issued
    /\ \A e \in Range(sq) : e.op # o
    /\ \A c \in owed \cup Range(cq) : c.op # o

\* What the coroutine sees is what happened: the request's own result, or -ETIME
\* when the timeout fired; a request its timeout cancelled is always -ETIME, never
\* the 0 that Operation::reset left in result.
ResultIsOutcome ==
  \A o \in Ops : phase[o] = "resumed" =>
    \/ result[o] = outcome[o].io
    \/ result[o] = "etime" /\ outcome[o].to = "etime"

\* Buffer ownership: a provided buffer a coroutine can read is in no other
\* coroutine's IOResult, not available to the kernel and not in any queue.
BufferOwnership ==
  /\ TypeOK
  /\ \A o \in Ops : held[o] # None =>
       /\ \A p \in Ops \ {o} : held[p] # held[o]
       /\ held[o] \notin free
       /\ \A c \in owed \cup Range(cq) : c.buf # held[o]
       /\ \A e \in Range(sq) : e.buf # held[o]

\* The buffers that nobody owns: no later read can be given one of them.
Lost ==
  Buffers \ (free \cup {held[o] : o \in Ops}
                  \cup {bid[o] : o \in {p \in Ops : phase[p] = "pending"}}
                  \cup {c.buf : c \in owed \cup Range(cq)}
                  \cup {e.buf : e \in Range(sq)})

\* A buffer is lost in one case only: the read had succeeded, and the -ETIME of a
\* timeout that fired at the same moment replaced its result, so await_resume
\* made an IOResult without the buffer.
LostOnlyToTimeout ==
  [][\A b \in Lost' \ Lost :
       \E o \in Ops : /\ phase[o] = "pending" /\ phase'[o] = "resumed"
                      /\ result'[o] = "etime" /\ bid'[o] = b
                      /\ outcome[o].io \in {"zero", "data"}]_vars

\* A coroutine awaiting an operation with a timeout is resumed even if the I/O
\* never completes.
TimeoutResumes ==
  \A o \in Ops : phase[o] = "pending" /\ linked[o] ~> phase[o] # "pending" \/ crashed

\* The comment in Ring::submit, "Expect 2 CQEs (IO result + Timeout result)": an
\* operation with ref_count 2 has both SQEs queued, or both completions to come.
TwoCompletionsToCome ==
  \A o \in Ops : phase[o] = "pending" /\ ref_count[o] = 2 =>
    \/ o \in issued
    \/ Cardinality({i \in DOMAIN sq : sq[i].op = o})
         + Cardinality({c \in owed : c.op = o})
         + Cardinality({i \in DOMAIN cq : cq[i].op = o}) = 2
=============================================================================
