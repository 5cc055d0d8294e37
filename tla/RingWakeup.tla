----------------------------- MODULE RingWakeup -----------------------------
(***************************************************************************)
(* How coroutines are resumed by the io_uring loop of ppnt-io: block_on,   *)
(* Ring::run_one, Ring::post and Ring::run_external_tasks, with the pool   *)
(* workers of run_in_pool and the callbacks of suspend_coroutine posting   *)
(* to the loop concurrently.  One action is one step the other threads can *)
(* observe: a critical section of mtx_, an operation on notified_, a       *)
(* system call.  Everything between two of them on one thread is merged    *)
(* into the next.                                                          *)
(***************************************************************************)
EXTENDS Naturals, Sequences

CONSTANTS
  Workers,      \* threads of the pool given to run_in_pool
  Handles,      \* coroutines of the program
  Root,         \* the coroutine passed to block_on
  Loop,         \* the thread that runs block_on
  Ev,           \* &ev_op_, the user data of the eventfd read
  MayAgain      \* the kernel may complete that read with -EAGAIN

ASSUME RootAssumption == Root \in Handles
ASSUME LoopAssumption == Loop \notin Workers
ASSUME EvAssumption == Ev \notin Handles
ASSUME MayAgainAssumption == MayAgain \in BOOLEAN

VARIABLES
  external_tasks_,   \* Ring::external_tasks_
  notified_,         \* Ring::notified_
  ev_count,          \* the counter of the eventfd ev_fd_
  sq,                \* user data of the SQEs not yet given to the kernel
  inflight,          \* user data of the requests the kernel holds
  cq,                \* user data of the CQEs the loop has not picked up
  batch,             \* run_one: the CQEs of this round still to dispatch
  need_rearm,        \* run_one: the local of that name
  tasks,             \* run_external_tasks: the local deque
  loop_pc,           \* where the loop thread is in block_on / run_one
  stack,             \* coroutines executing on the loop thread, innermost first
  co,                \* co[h]: what coroutine h is doing
  post_pc            \* post_pc[t]: where thread t is in Ring::post

vars == <<external_tasks_, notified_, ev_count, sq, inflight, cq, batch,
          need_rearm, tasks, loop_pc, stack, co, post_pc>>

Posters == Workers \cup {Loop}
Running == stack # <<>> /\ post_pc[Loop] = "idle"

CoStates == {"new", "running", "pool", "waker", "io", "posted", "done"}
LoopPcs  == {"wait", "reap", "dispatch", "store", "swap", "run", "check", "gone"}
PostPcs  == {"idle", "exchange", "write"}

\* The deque, the queues and the flags have their C++ types; every coroutine
\* and thread is in one of its named control states.
TypeOK ==
  /\ external_tasks_ \in Seq(Handles)
  /\ notified_ \in BOOLEAN
  /\ ev_count \in Nat
  /\ sq \subseteq Handles \cup {Ev}
  /\ inflight \subseteq Handles \cup {Ev}
  /\ cq \in Seq(Handles \cup {Ev})
  /\ batch \in Seq(Handles \cup {Ev})
  /\ need_rearm \in BOOLEAN
  /\ tasks \in Seq(Handles)
  /\ loop_pc \in LoopPcs
  /\ stack \in Seq(Handles)
  /\ co \in [Handles -> CoStates]
  /\ post_pc \in [Posters -> PostPcs]

\* block_on: the Ring constructor arms the eventfd read, then the root
\* coroutine is resumed for the first time.
Init ==
  /\ external_tasks_ = <<>>
  /\ notified_ = FALSE
  /\ ev_count = 0
  /\ sq = {Ev}
  /\ inflight = {}
  /\ cq = <<>>
  /\ batch = <<>>
  /\ need_rearm = FALSE
  /\ tasks = <<>>
  /\ loop_pc = "check"
  /\ stack = <<Root>>
  /\ co = [h \in Handles |-> IF h = Root THEN "running" ELSE "new"]
  /\ post_pc = [t \in Posters |-> "idle"]

-----------------------------------------------------------------------------
(* Ring::post, run by thread t: push under the lock, then exchange, then    *)
(* write when the exchange returned false.                                  *)

PostPush(t, h) ==
  /\ post_pc[t] = "idle"
  /\ external_tasks_' = Append(external_tasks_, h)
  /\ co' = [co EXCEPT ![h] = "posted"]
  /\ post_pc' = [post_pc EXCEPT ![t] = "exchange"]
  /\ UNCHANGED <<notified_, ev_count, sq, inflight, cq, batch, need_rearm,
                 tasks, loop_pc, stack>>

\* Bug: the thread that finds the flag clear sets it and does not write.
ExchangeNoWrite(t) ==
  /\ post_pc[t] = "exchange"
  /\ notified_' = TRUE
  /\ post_pc' = [post_pc EXCEPT ![t] = "idle"]
  /\ UNCHANGED <<external_tasks_, ev_count, sq, inflight, cq, batch,
                 need_rearm, tasks, loop_pc, stack, co>>

PostExchange(t) ==
  /\ post_pc[t] = "exchange"
  /\ notified_' = TRUE
  /\ post_pc' = [post_pc EXCEPT ![t] = IF notified_ THEN "idle" ELSE "write"]
  /\ UNCHANGED <<external_tasks_, ev_count, sq, inflight, cq, batch,
                 need_rearm, tasks, loop_pc, stack, co>>

PostWrite(t) ==
  /\ post_pc[t] = "write"
  /\ ev_count' = ev_count + 1
  /\ post_pc' = [post_pc EXCEPT ![t] = "idle"]
  /\ UNCHANGED <<external_tasks_, notified_, sq, inflight, cq, batch,
                 need_rearm, tasks, loop_pc, stack, co>>

-----------------------------------------------------------------------------
(* The coroutine at the top of the loop thread's stack.                     *)

\* What a suspending coroutine leaves unchanged besides its own state.
loopvars == <<external_tasks_, notified_, ev_count, inflight, cq, batch,
              need_rearm, tasks, loop_pc, post_pc>>

Suspend(state) ==
  /\ Running
  /\ co' = [co EXCEPT ![Head(stack)] = state]
  /\ stack' = Tail(stack)
  /\ UNCHANGED loopvars

\* spawn: the new coroutine runs at once, inside its creator.
Spawn(h) ==
  /\ Running
  /\ co[h] = "new"
  /\ co' = [co EXCEPT ![h] = "running"]
  /\ stack' = <<h>> \o stack
  /\ UNCHANGED <<loopvars, sq>>

\* co_await run_in_pool: the job goes to the pool, the coroutine suspends.
RunInPool == Suspend("pool") /\ UNCHANGED sq

\* co_await suspend_coroutine: the resume callback is stored for later.
SuspendCoroutine == Suspend("waker") /\ UNCHANGED sq

\* co_await of an AsyncOp: Ring::submit queues an SQE.
AwaitIo == Suspend("io") /\ sq' = sq \cup {Head(stack)}

Finish == Suspend("done") /\ UNCHANGED sq

\* The running coroutine calls the resume callback h stored, once.
CallWaker(h) ==
  /\ Running
  /\ co[h] = "waker"
  /\ PostPush(Loop, h)

\* A pool worker has run the function of run_in_pool and posts its coroutine.
WorkerDone(w, h) ==
  /\ co[h] = "pool"
  /\ PostPush(w, h)

-----------------------------------------------------------------------------
(* The kernel.  The read of the eventfd completes when the counter is       *)
(* positive; the descriptor is non-blocking, so it may also complete at     *)
(* once with -EAGAIN.                                                       *)

Complete(d) ==
  /\ d \in inflight
  /\ inflight' = inflight \ {d}
  /\ cq' = Append(cq, d)
  /\ UNCHANGED <<external_tasks_, notified_, sq, batch, need_rearm, tasks,
                 loop_pc, stack, co, post_pc>>

KernelEvRead == ev_count > 0 /\ ev_count' = 0 /\ Complete(Ev)

KernelEvAgain == MayAgain /\ ev_count = 0 /\ Complete(Ev) /\ UNCHANGED ev_count

KernelIo(h) == Complete(h) /\ UNCHANGED ev_count

-----------------------------------------------------------------------------
(* The loop thread: block_on's while loop and run_one.                      *)

\* while (!handle.done()): run_one again, or return and destroy the Ring.
CheckDone ==
  /\ loop_pc = "check"
  /\ stack = <<>>
  /\ loop_pc' = IF co[Root] = "done" THEN "gone" ELSE "wait"
  /\ UNCHANGED <<external_tasks_, notified_, ev_count, sq, inflight, cq, batch,
                 need_rearm, tasks, stack, co, post_pc>>

\* io_uring_submit_and_wait(1): the SQEs go to the kernel, then the thread
\* sleeps until there is a CQE.
SubmitAndWait ==
  /\ loop_pc = "wait"
  /\ inflight' = inflight \cup sq
  /\ sq' = {}
  /\ loop_pc' = "reap"
  /\ UNCHANGED <<external_tasks_, notified_, ev_count, cq, batch, need_rearm,
                 tasks, stack, co, post_pc>>

\* io_uring_cqe_iter_init takes the tail of the CQ once: later CQEs wait for
\* the next run_one.
Reap ==
  /\ loop_pc = "reap"
  /\ cq # <<>>
  /\ batch' = cq
  /\ cq' = <<>>
  /\ need_rearm' = FALSE
  /\ loop_pc' = "dispatch"
  /\ UNCHANGED <<external_tasks_, notified_, ev_count, sq, inflight, tasks,
                 stack, co, post_pc>>

DispatchEv ==
  /\ loop_pc = "dispatch"
  /\ stack = <<>>
  /\ batch # <<>>
  /\ Head(batch) = Ev
  /\ need_rearm' = TRUE
  /\ batch' = Tail(batch)
  /\ UNCHANGED <<external_tasks_, notified_, ev_count, sq, inflight, cq, tasks,
                 loop_pc, stack, co, post_pc>>

\* Bug: every CQE is taken for the completion of a coroutine's operation.
DispatchAny ==
  /\ loop_pc = "dispatch"
  /\ stack = <<>>
  /\ batch # <<>>
  /\ stack' = <<Head(batch)>>
  /\ co' = [co EXCEPT ![Head(batch)] = "running"]
  /\ batch' = Tail(batch)
  /\ UNCHANGED <<external_tasks_, notified_, ev_count, sq, inflight, cq,
                 need_rearm, tasks, loop_pc, post_pc>>

DispatchIo ==
  /\ loop_pc = "dispatch"
  /\ stack = <<>>
  /\ batch # <<>>
  /\ Head(batch) # Ev
  /\ stack' = <<Head(batch)>>
  /\ co' = [co EXCEPT ![Head(batch)] = "running"]
  /\ batch' = Tail(batch)
  /\ UNCHANGED <<external_tasks_, notified_, ev_count, sq, inflight, cq,
                 need_rearm, tasks, loop_pc, post_pc>>

DispatchEnd ==
  /\ loop_pc = "dispatch"
  /\ stack = <<>>
  /\ batch = <<>>
  /\ loop_pc' = IF need_rearm THEN "store" ELSE "check"
  /\ UNCHANGED <<external_tasks_, notified_, ev_count, sq, inflight, cq, batch,
                 need_rearm, tasks, stack, co, post_pc>>

-----------------------------------------------------------------------------
(* run_external_tasks, then arm_eventfd_read.                               *)

\* Bug: the flag is never cleared again.
StoreForgotten ==
  /\ loop_pc = "store"
  /\ loop_pc' = "swap"
  /\ UNCHANGED <<external_tasks_, notified_, ev_count, sq, inflight, cq, batch,
                 need_rearm, tasks, stack, co, post_pc>>

StoreNotified ==
  /\ loop_pc = "store"
  /\ notified_' = FALSE
  /\ loop_pc' = "swap"
  /\ UNCHANGED <<external_tasks_, ev_count, sq, inflight, cq, batch,
                 need_rearm, tasks, stack, co, post_pc>>

\* Bug: the deque is copied, not swapped.
CopyTasks ==
  /\ loop_pc = "swap"
  /\ tasks' = external_tasks_
  /\ loop_pc' = "run"
  /\ UNCHANGED <<external_tasks_, notified_, ev_count, sq, inflight, cq, batch,
                 need_rearm, stack, co, post_pc>>

SwapTasks ==
  /\ loop_pc = "swap"
  /\ tasks' = external_tasks_
  /\ external_tasks_' = tasks
  /\ loop_pc' = "run"
  /\ UNCHANGED <<notified_, ev_count, sq, inflight, cq, batch, need_rearm,
                 stack, co, post_pc>>

\* Bug: the newest task first.
RunNewest ==
  /\ loop_pc = "run"
  /\ stack = <<>>
  /\ tasks # <<>>
  /\ tasks' = SubSeq(tasks, 1, Len(tasks) - 1)
  /\ stack' = <<tasks[Len(tasks)]>>
  /\ co' = [co EXCEPT ![tasks[Len(tasks)]] = "running"]
  /\ UNCHANGED <<external_tasks_, notified_, ev_count, sq, inflight, cq, batch,
                 need_rearm, loop_pc, post_pc>>

RunTask ==
  /\ loop_pc = "run"
  /\ stack = <<>>
  /\ tasks # <<>>
  /\ tasks' = Tail(tasks)
  /\ IF co[Head(tasks)] = "done"
     THEN UNCHANGED <<stack, co>>
     ELSE /\ stack' = <<Head(tasks)>>
          /\ co' = [co EXCEPT ![Head(tasks)] = "running"]
  /\ UNCHANGED <<external_tasks_, notified_, ev_count, sq, inflight, cq, batch,
                 need_rearm, loop_pc, post_pc>>

\* Bug: the eventfd read is armed for the first wake-up only.
NoRearm ==
  /\ loop_pc = "run"
  /\ stack = <<>>
  /\ tasks = <<>>
  /\ loop_pc' = "check"
  /\ UNCHANGED <<external_tasks_, notified_, ev_count, sq, inflight, cq, batch,
                 need_rearm, tasks, stack, co, post_pc>>

\* The submission queue may be full; it is then submitted first, which leaves room
\* (the call of terminate behind it is never reached).
ArmEventfdRead ==
  /\ loop_pc = "run"
  /\ stack = <<>>
  /\ tasks = <<>>
  /\ \/ sq' = sq \cup {Ev} /\ UNCHANGED inflight
     \/ sq # {} /\ inflight' = inflight \cup sq /\ sq' = {Ev}
  /\ loop_pc' = "check"
  /\ UNCHANGED <<external_tasks_, notified_, ev_count, cq, batch,
                 need_rearm, tasks, stack, co, post_pc>>

-----------------------------------------------------------------------------
Coroutine ==
  \/ RunInPool \/ SuspendCoroutine \/ AwaitIo \/ Finish
  \/ \E h \in Handles : Spawn(h) \/ CallWaker(h)

RunOne ==
  \/ CheckDone \/ SubmitAndWait \/ Reap
  \/ DispatchEv \/ DispatchIo \/ DispatchEnd
  \/ StoreNotified \/ SwapTasks \/ RunTask \/ ArmEventfdRead

FinishPost(t) == PostExchange(t) \/ PostWrite(t)

Kernel == KernelEvRead \/ KernelEvAgain \/ \E h \in Handles : KernelIo(h)

Next ==
  \/ Coroutine
  \/ RunOne
  \/ Kernel
  \/ \E t \in Posters : FinishPost(t)
  \/ \E w \in Workers, h \in Handles : WorkerDone(w, h)

Spec == Init /\ [][Next]_vars

\* The loop thread and a thread inside post keep running; the kernel delivers
\* a completed eventfd read.  Nothing is assumed of the pool (a job may never
\* end), of I/O, or of the -EAGAIN completions.
Fairness ==
  /\ WF_vars(Coroutine \/ RunOne)
  /\ WF_vars(KernelEvRead)
  /\ \A t \in Posters : WF_vars(FinishPost(t))

FairSpec == Spec /\ Fairness

-----------------------------------------------------------------------------
(* Properties *)

\* The eventfd read will be noticed by the loop thread before it sleeps for
\* good: it is on its way to the kernel, with a positive counter, or in a CQE
\* the loop has yet to act on.
WakeupUnderWay ==
  \/ ev_count > 0
  \/ \E i \in DOMAIN cq : cq[i] = Ev
  \/ \E i \in DOMAIN batch : batch[i] = Ev
  \/ need_rearm /\ loop_pc \in {"dispatch", "store"}
  \/ \E t \in Posters : post_pc[t] = "write"

\* No lost wake-up: whatever the interleaving of post and run_external_tasks,
\* while external_tasks_ holds a handle some thread is still going to take it
\* out or to write the eventfd.
NoLostWakeup ==
  external_tasks_ # <<>> =>
    \/ WakeupUnderWay
    \/ loop_pc = "swap"
    \/ \E t \in Posters : post_pc[t] = "exchange"

\* The eventfd read is never armed twice and never dropped: outside the stretch
\* of run_one that handles its CQE exactly one copy of it exists.
EvReadArmedOnce ==
  LET copies(s) == {i \in DOMAIN s : s[i] = Ev}
      handling == need_rearm /\ loop_pc \in {"dispatch", "store", "swap", "run"}
  IN  /\ handling =>
           Ev \notin sq \cup inflight /\ copies(cq) = {} /\ copies(batch) = {}
      /\ ~handling =>
           \/ Ev \in sq /\ Ev \notin inflight /\ copies(cq \o batch) = {}
           \/ Ev \notin sq /\ Ev \in inflight /\ copies(cq \o batch) = {}
           \/ /\ Ev \notin sq \cup inflight
              /\ \E i \in DOMAIN (cq \o batch) : copies(cq \o batch) = {i}

\* A coroutine is queued at most once and only while it is suspended in the
\* await that posted it, so run_external_tasks never resumes a coroutine that
\* runs, waits for something else or has finished.
QueuedOnce ==
  LET q == tasks \o external_tasks_
  IN  /\ \A i, j \in DOMAIN q : q[i] = q[j] => i = j
      /\ \A i \in DOMAIN q : co[q[i]] = "posted"

\* Every posted coroutine is resumed, or block_on returns first.
PostedIsResumed ==
  \A h \in Handles : co[h] = "posted" ~> co[h] # "posted" \/ loop_pc = "gone"

\* The comment in block_on, "we are single threaded, we can just run ring until
\* handle is done": when the root and every coroutine it spawned are done and
\* block_on destroys its Ring, no thread is inside Ring::post any more.
RingOutlivesPosts ==
  loop_pc = "gone" /\ (\A h \in Handles : co[h] \in {"new", "done"}) =>
    \A t \in Posters : post_pc[t] = "idle"

\* Ring implements ResumeQueue: first in, first out, exactly once.
Queue == INSTANCE ResumeQueue WITH
           pending <- tasks \o external_tasks_,
           closed  <- loop_pc = "gone"

ImplementsResumeQueue == Queue!Spec
=============================================================================
