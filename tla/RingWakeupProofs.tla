-------------------------- MODULE RingWakeupProofs --------------------------
(***************************************************************************)
(* TLAPS proofs about RingWakeup, for every set of workers and coroutines: *)
(* that no wake-up is lost, and who may resume a coroutine.                *)
(***************************************************************************)
EXTENDS RingWakeup, SequenceTheorems, TLAPS

\* The state block_on starts from has the types.
LEMMA TypeInit == Init => TypeOK
<1> USE DEF TypeOK, CoStates, LoopPcs, PostPcs, Posters
<1> SUFFICES ASSUME Init PROVE TypeOK
  OBVIOUS
<1>1. notified_ \in BOOLEAN /\ need_rearm \in BOOLEAN
  BY Zenon DEF Init
<1>2. /\ external_tasks_ \in Seq(Handles) /\ tasks \in Seq(Handles)
      /\ stack \in Seq(Handles)
      /\ cq \in Seq(Handles \cup {Ev}) /\ batch \in Seq(Handles \cup {Ev})
  BY RootAssumption DEF Init
<1>3. /\ ev_count \in Nat
      /\ sq \subseteq Handles \cup {Ev} /\ inflight \subseteq Handles \cup {Ev}
      /\ loop_pc \in LoopPcs
      /\ co \in [Handles -> CoStates] /\ post_pc \in [Posters -> PostPcs]
  BY DEF Init
<1> QED BY <1>1, <1>2, <1>3

\* Every step of a coroutine, of run_one, of the kernel and of post keeps them.
LEMMA TypeStep == TypeOK /\ [Next]_vars => TypeOK'
<1> USE DEF TypeOK, CoStates, LoopPcs, PostPcs, Posters
<1> SUFFICES ASSUME TypeOK, [Next]_vars PROVE TypeOK'
  OBVIOUS
<1>1. CASE Coroutine
  <2>1. ASSUME NEW s \in CoStates, Suspend(s),
               sq' = sq \/ sq' = sq \cup {Head(stack)}
        PROVE  TypeOK'
    BY <2>1 DEF Suspend, Running, loopvars
  <2>2. ASSUME NEW h \in Handles, Spawn(h) PROVE TypeOK'
    BY <2>2 DEF Spawn, loopvars
  <2>3. ASSUME NEW h \in Handles, CallWaker(h) PROVE TypeOK'
    BY <2>3 DEF CallWaker, PostPush
  <2> QED
    BY Zenon, <1>1, <2>1, <2>2, <2>3
    DEF Coroutine, RunInPool, SuspendCoroutine, AwaitIo, Finish
<1>2. CASE RunOne
  <2>1. CASE CheckDone BY <2>1 DEF CheckDone
  <2>2. CASE SubmitAndWait BY <2>2 DEF SubmitAndWait
  <2>3. CASE Reap
    <3>1. notified_' \in BOOLEAN /\ need_rearm' \in BOOLEAN
      BY <2>3, Zenon DEF Reap
    <3> QED BY <2>3, <3>1 DEF Reap
  <2>4. CASE DispatchEv BY <2>4 DEF DispatchEv
  <2>5. CASE DispatchIo BY <2>5 DEF DispatchIo
  <2>6. CASE DispatchEnd BY <2>6 DEF DispatchEnd
  <2>7. CASE StoreNotified BY Zenon, <2>7 DEF StoreNotified
  <2>8. CASE SwapTasks BY <2>8 DEF SwapTasks
  <2>9. CASE RunTask
    <3>1. Tail(tasks) \in Seq(Handles) /\ Head(tasks) \in Handles
      BY <2>9 DEF RunTask
    <3>2. CASE co[Head(tasks)] = "done"
      BY <2>9, <3>1, <3>2 DEF RunTask
    <3>3. CASE co[Head(tasks)] # "done"
      <4>1. /\ stack' = <<Head(tasks)>>
            /\ co' = [co EXCEPT ![Head(tasks)] = "running"]
            /\ tasks' = Tail(tasks)
        BY <2>9, <3>3 DEF RunTask
      <4>2. stack' \in Seq(Handles) /\ co' \in [Handles -> CoStates]
        BY <3>1, <4>1
      <4> QED BY <2>9, <3>1, <4>1, <4>2 DEF RunTask
    <3> QED BY <3>2, <3>3
  <2>10. CASE ArmEventfdRead BY <2>10 DEF ArmEventfdRead
  <2> QED
    BY <1>2, <2>1, <2>2, <2>3, <2>4, <2>5, <2>6, <2>7, <2>8, <2>9, <2>10
    DEF RunOne
<1>3. CASE Kernel
  <2>1. ASSUME NEW d \in Handles \cup {Ev}, Complete(d), ev_count' \in Nat
        PROVE  TypeOK'
    BY <2>1 DEF Complete
  <2>2. CASE KernelEvRead BY Zenon, <2>1, <2>2 DEF KernelEvRead
  <2>3. CASE KernelEvAgain BY Zenon, <2>1, <2>3 DEF KernelEvAgain
  <2>4. ASSUME NEW h \in Handles, KernelIo(h) PROVE TypeOK'
    BY Zenon, <2>1, <2>4 DEF KernelIo
  <2> QED BY Zenon, <1>3, <2>2, <2>3, <2>4 DEF Kernel
<1>4. ASSUME NEW t \in Posters, FinishPost(t) PROVE TypeOK'
  <2>1. CASE PostExchange(t)
    <3>1. notified_' \in BOOLEAN
      BY <2>1, Zenon DEF PostExchange
    <3>2. \E p \in PostPcs : post_pc' = [post_pc EXCEPT ![t] = p]
      BY <2>1, Zenon DEF PostExchange
    <3> QED BY <2>1, <3>1, <3>2 DEF PostExchange
  <2>2. CASE PostWrite(t) BY <2>2 DEF PostWrite
  <2> QED BY <1>4, <2>1, <2>2 DEF FinishPost
<1>5. ASSUME NEW w \in Workers, NEW h \in Handles, WorkerDone(w, h)
      PROVE  TypeOK'
  BY <1>5 DEF WorkerDone, PostPush
<1>6. CASE UNCHANGED vars BY <1>6 DEF vars
<1> QED BY Zenon, <1>1, <1>2, <1>3, <1>4, <1>5, <1>6 DEF Next

\* Every variable keeps its type: the deque, the queues, the flags and the
\* control states of RingWakeup hold what their C++ declarations say.
THEOREM TypeCorrect == Spec => []TypeOK
BY TypeInit, TypeStep, PTL DEF Spec

-----------------------------------------------------------------------------
(* No lost wake-up.  NoLostWakeup is not inductive: it says nothing of the  *)
(* flag, and a flag left set with no write under way would silence every    *)
(* later post.                                                              *)

\* A set flag stands for a write of the eventfd that was or will be made.
FlagCovered == notified_ => WakeupUnderWay

\* A queued handle has set the flag, or its poster is about to.
TaskCovered ==
  external_tasks_ # <<>> =>
    \/ notified_
    \/ loop_pc = "swap"
    \/ \E t \in Posters : post_pc[t] = "exchange"

\* The local deque and the batch of CQEs are empty between their uses.
LocalsEmpty ==
  /\ loop_pc # "run" => tasks = <<>>
  /\ loop_pc # "dispatch" => batch = <<>>

WakeupInv == TypeOK /\ FlagCovered /\ TaskCovered /\ LocalsEmpty

\* The invariant holds when block_on starts: nothing is posted, the flag is clear.
LEMMA WakeupInvInit == Init => WakeupInv
<1> SUFFICES ASSUME Init PROVE WakeupInv
  OBVIOUS
<1>1. TypeOK
  BY TypeInit
<1>2. FlagCovered
  BY Zenon DEF Init, FlagCovered
<1>3. TaskCovered /\ LocalsEmpty
  BY DEF Init, TaskCovered, LocalsEmpty
<1> QED BY <1>1, <1>2, <1>3 DEF WakeupInv

\* A step of a coroutine that suspends or spawns touches none of the variables
\* of the wake-up protocol.
LEMMA WakeupKept ==
  ASSUME WakeupInv, TypeOK',
         UNCHANGED <<external_tasks_, notified_, ev_count, cq, batch,
                     need_rearm, tasks, loop_pc, post_pc>>
  PROVE  WakeupInv'
BY DEF WakeupInv, FlagCovered, TaskCovered, LocalsEmpty, WakeupUnderWay

\* A post that pushes a handle leaves its thread before the exchange.
LEMMA WakeupPush ==
  ASSUME WakeupInv, TypeOK', NEW t \in Posters, NEW h \in Handles, PostPush(t, h)
  PROVE  WakeupInv'
<1>1. post_pc'[t] = "exchange"
  BY DEF PostPush, WakeupInv, TypeOK
<1>2. \A u \in Posters : post_pc[u] = "write" => post_pc'[u] = "write"
  BY DEF PostPush, WakeupInv, TypeOK
<1>3. FlagCovered'
  BY <1>2 DEF PostPush, WakeupInv, FlagCovered, WakeupUnderWay
<1>4. TaskCovered' /\ LocalsEmpty'
  BY <1>1 DEF PostPush, WakeupInv, TaskCovered, LocalsEmpty
<1> QED BY <1>3, <1>4 DEF WakeupInv

\* The exchange and the write hand the duty to wake the loop from one to the other.
LEMMA WakeupFinishPost ==
  ASSUME WakeupInv, TypeOK', NEW t \in Posters, FinishPost(t)
  PROVE  WakeupInv'
<1>1. CASE PostExchange(t)
  <2>1. notified_'
    BY <1>1 DEF PostExchange
  <2>2. TaskCovered' /\ LocalsEmpty'
    BY <1>1, <2>1 DEF PostExchange, WakeupInv, TaskCovered, LocalsEmpty
  <2>3. CASE notified_
    <3>1. WakeupUnderWay
      BY <2>3 DEF WakeupInv, FlagCovered
    <3>2. \A u \in Posters : post_pc[u] = "write" => post_pc'[u] = "write"
      BY <1>1 DEF PostExchange, WakeupInv, TypeOK
    <3>3. WakeupUnderWay'
      BY <1>1, <3>1, <3>2 DEF PostExchange, WakeupUnderWay
    <3> QED BY <2>2, <3>3 DEF WakeupInv, FlagCovered
  <2>4. CASE ~notified_
    <3>1. post_pc'[t] = "write"
      BY <1>1, <2>4 DEF PostExchange, WakeupInv, TypeOK
    <3>2. WakeupUnderWay'
      BY <3>1 DEF WakeupUnderWay
    <3> QED BY <2>2, <3>2 DEF WakeupInv, FlagCovered
  <2> QED BY <2>3, <2>4
<1>2. CASE PostWrite(t)
  <2>1. ev_count' > 0
    BY <1>2 DEF PostWrite, WakeupInv, TypeOK
  <2>2. \A u \in Posters : post_pc[u] = "exchange" => post_pc'[u] = "exchange"
    BY <1>2 DEF PostWrite, WakeupInv, TypeOK
  <2>3. FlagCovered'
    BY <2>1 DEF FlagCovered, WakeupUnderWay
  <2>4. TaskCovered' /\ LocalsEmpty'
    BY <1>2, <2>2 DEF PostWrite, WakeupInv, TaskCovered, LocalsEmpty
  <2> QED BY <2>3, <2>4 DEF WakeupInv
<1> QED BY <1>1, <1>2 DEF FinishPost

\* A completion is appended to the CQ, so a CQE of the eventfd read stays there.
LEMMA WakeupKernel ==
  ASSUME WakeupInv, TypeOK', Kernel
  PROVE  WakeupInv'
<1>1. ASSUME NEW d \in Handles \cup {Ev}, Complete(d),
             ev_count > 0 => ev_count' > 0 \/ d = Ev
      PROVE  WakeupInv'
  <2>1. /\ cq' = Append(cq, d)
        /\ UNCHANGED <<external_tasks_, notified_, batch, need_rearm, tasks,
                       loop_pc, post_pc>>
    BY <1>1 DEF Complete
  <2>2. cq \in Seq(Handles \cup {Ev})
    BY DEF WakeupInv, TypeOK
  <2>3. \A i \in DOMAIN cq : i \in DOMAIN cq' /\ cq'[i] = cq[i]
    BY <2>1, <2>2
  <2>4. Len(cq) + 1 \in DOMAIN cq' /\ cq'[Len(cq) + 1] = d
    BY <2>1, <2>2
  <2>5. WakeupUnderWay => WakeupUnderWay'
    BY <1>1, <2>1, <2>3, <2>4 DEF WakeupUnderWay
  <2> QED
    BY <2>1, <2>5 DEF WakeupInv, FlagCovered, TaskCovered, LocalsEmpty
<1>2. CASE KernelEvRead BY <1>1, <1>2 DEF KernelEvRead
<1>3. CASE KernelEvAgain BY <1>1, <1>3 DEF KernelEvAgain
<1>4. ASSUME NEW h \in Handles, KernelIo(h) PROVE WakeupInv'
  BY <1>1, <1>4 DEF KernelIo
<1> QED BY <1>2, <1>3, <1>4 DEF Kernel

\* run_one keeps track of the eventfd read from its CQE to the swap of the deque.
LEMMA WakeupRunOne ==
  ASSUME WakeupInv, TypeOK', RunOne
  PROVE  WakeupInv'
<1> USE DEF WakeupInv
<1>1. CASE CheckDone
  BY <1>1 DEF CheckDone, FlagCovered, TaskCovered, LocalsEmpty, WakeupUnderWay
<1>2. CASE SubmitAndWait
  BY <1>2 DEF SubmitAndWait, FlagCovered, TaskCovered, LocalsEmpty, WakeupUnderWay
<1>3. CASE Reap
  <2>1. batch = <<>> /\ batch' = cq /\ loop_pc = "reap"
    BY <1>3 DEF Reap, LocalsEmpty
  <2>2. WakeupUnderWay => WakeupUnderWay'
    BY <1>3, <2>1 DEF Reap, WakeupUnderWay
  <2> QED BY <1>3, <2>2 DEF Reap, FlagCovered, TaskCovered, LocalsEmpty
<1>4. CASE DispatchEv
  <2>1. WakeupUnderWay'
    BY <1>4 DEF DispatchEv, WakeupUnderWay
  <2> QED BY <1>4, <2>1 DEF DispatchEv, FlagCovered, TaskCovered, LocalsEmpty
<1>5. CASE DispatchIo
  <2>1. batch \in Seq(Handles \cup {Ev}) /\ batch # <<>>
    BY <1>5 DEF DispatchIo, TypeOK
  <2>2. ASSUME NEW i \in DOMAIN batch, batch[i] = Ev
        PROVE  \E j \in DOMAIN batch' : batch'[j] = Ev
    <3>1. i # 1
      BY <1>5, <2>1, <2>2 DEF DispatchIo
    <3>2. i - 1 \in DOMAIN batch' /\ batch'[i - 1] = Ev
      BY <1>5, <2>1, <2>2, <3>1 DEF DispatchIo
    <3> QED BY <3>2
  <2>3. WakeupUnderWay => WakeupUnderWay'
    BY <1>5, <2>2 DEF DispatchIo, WakeupUnderWay
  <2> QED BY <1>5, <2>3 DEF DispatchIo, FlagCovered, TaskCovered, LocalsEmpty
<1>6. CASE DispatchEnd
  <2>1. WakeupUnderWay => WakeupUnderWay'
    BY <1>6 DEF DispatchEnd, WakeupUnderWay
  <2> QED BY <1>6, <2>1 DEF DispatchEnd, FlagCovered, TaskCovered, LocalsEmpty
<1>7. CASE StoreNotified
  BY <1>7 DEF StoreNotified, FlagCovered, TaskCovered, LocalsEmpty
<1>8. CASE SwapTasks
  <2>1. external_tasks_' = <<>>
    BY <1>8 DEF SwapTasks, LocalsEmpty
  <2> QED
    BY <1>8, <2>1
    DEF SwapTasks, FlagCovered, TaskCovered, LocalsEmpty, WakeupUnderWay
<1>9. CASE RunTask
  BY <1>9 DEF RunTask, FlagCovered, TaskCovered, LocalsEmpty, WakeupUnderWay
<1>10. CASE ArmEventfdRead
  BY <1>10 DEF ArmEventfdRead, FlagCovered, TaskCovered, LocalsEmpty, WakeupUnderWay
<1> QED
  BY <1>1, <1>2, <1>3, <1>4, <1>5, <1>6, <1>7, <1>8, <1>9, <1>10 DEF RunOne

\* Every step keeps the invariant.
LEMMA WakeupInvStep == WakeupInv /\ [Next]_vars => WakeupInv'
<1> SUFFICES ASSUME WakeupInv, [Next]_vars PROVE WakeupInv'
  OBVIOUS
<1>0. TypeOK'
  BY TypeStep DEF WakeupInv
<1>1. CASE Coroutine
  <2>1. ASSUME NEW h \in Handles, CallWaker(h) PROVE WakeupInv'
    BY <1>0, <2>1, WakeupPush DEF CallWaker, Posters
  <2>2. CASE \E h \in Handles : Spawn(h)
    BY <1>0, <2>2, WakeupKept DEF Spawn, loopvars
  <2>3. CASE RunInPool \/ SuspendCoroutine \/ AwaitIo \/ Finish
    BY <1>0, <2>3, WakeupKept
    DEF RunInPool, SuspendCoroutine, AwaitIo, Finish, Suspend, loopvars
  <2> QED BY <1>1, <2>1, <2>2, <2>3 DEF Coroutine
<1>2. CASE RunOne BY <1>0, <1>2, WakeupRunOne
<1>3. CASE Kernel BY <1>0, <1>3, WakeupKernel
<1>4. CASE \E t \in Posters : FinishPost(t)
  BY <1>0, <1>4, WakeupFinishPost
<1>5. CASE \E w \in Workers, h \in Handles : WorkerDone(w, h)
  BY <1>0, <1>5, WakeupPush DEF WorkerDone, Posters
<1>6. CASE UNCHANGED vars
  BY <1>0, <1>6, WakeupKept DEF vars
<1> QED BY <1>1, <1>2, <1>3, <1>4, <1>5, <1>6 DEF Next

\* No lost wake-up, for every number of workers and coroutines: while a handle
\* sits in external_tasks_ some thread is still going to take it out or to write
\* the eventfd, so run_one cannot sleep on it for ever.
THEOREM WakeupNeverLost == Spec => []NoLostWakeup
<1>1. WakeupInv => NoLostWakeup
  BY DEF WakeupInv, FlagCovered, TaskCovered, NoLostWakeup
<1> QED BY WakeupInvInit, WakeupInvStep, <1>1, PTL DEF Spec

-----------------------------------------------------------------------------
(* Who may resume a coroutine: a handle is on the stack, in a queue of      *)
(* posted handles or in a queue of io_uring, never in two of them and       *)
(* never twice.  From this follow QueuedOnce, EvReadArmedOnce and that the  *)
(* ring implements ResumeQueue.                                             *)

IsOnce(s) == \A i, j \in DOMAIN s : s[i] = s[j] => i = j
Apart(s, t) == \A i \in DOMAIN s, j \in DOMAIN t : s[i] # t[j]

\* The coroutines on the stack of the loop thread run, each once.
StackInv == IsOnce(stack) /\ \A i \in DOMAIN stack : co[stack[i]] = "running"

\* The posted handles, in the two deques.
PostedInv ==
  /\ IsOnce(tasks) /\ IsOnce(external_tasks_) /\ Apart(tasks, external_tasks_)
  /\ \A i \in DOMAIN tasks : co[tasks[i]] = "posted"
  /\ \A i \in DOMAIN external_tasks_ : co[external_tasks_[i]] = "posted"

\* The user data in the queues of io_uring: each is in one place, and a
\* coroutine that is in one of them waits for I/O.
Waits(d) == d # Ev => co[d] = "io"
UringInv ==
  /\ sq \cap inflight = {}
  /\ IsOnce(cq) /\ IsOnce(batch) /\ Apart(cq, batch)
  /\ \A d \in sq \cup inflight : Waits(d)
  /\ \A i \in DOMAIN cq : cq[i] \notin sq \cup inflight /\ Waits(cq[i])
  /\ \A i \in DOMAIN batch : batch[i] \notin sq \cup inflight /\ Waits(batch[i])

\* The eventfd read exists, except while run_one handles its CQE.
EvPresent ==
  \/ Ev \in sq \cup inflight
  \/ \E i \in DOMAIN cq : cq[i] = Ev
  \/ \E i \in DOMAIN batch : batch[i] = Ev
Handling == need_rearm /\ loop_pc \in {"dispatch", "store", "swap", "run"}
EvInv ==
  /\ EvPresent <=> ~Handling
  /\ loop_pc \in {"store", "swap", "run"} => need_rearm

PlaceInv == WakeupInv /\ StackInv /\ PostedInv /\ UringInv /\ EvInv

-----------------------------------------------------------------------------
(* Popping the front of a queue and pushing at its back.                    *)

\* pop_front: the rest keeps its order, shifted by one.
LEMMA PopFront ==
  ASSUME NEW S, NEW s \in Seq(S), s # <<>>
  PROVE  /\ 1 \in DOMAIN s /\ Head(s) = s[1] /\ Head(s) \in S
         /\ \A i \in DOMAIN Tail(s) :
              i + 1 \in DOMAIN s /\ Tail(s)[i] = s[i + 1] /\ i + 1 # 1
         /\ \A i \in DOMAIN s :
              i # 1 => i - 1 \in DOMAIN Tail(s) /\ Tail(s)[i - 1] = s[i]
OBVIOUS

\* A queue that holds nothing twice no longer holds what was popped.
LEMMA PopOnce ==
  ASSUME NEW S, NEW s \in Seq(S), s # <<>>, IsOnce(s)
  PROVE  IsOnce(Tail(s)) /\ \A i \in DOMAIN Tail(s) : Tail(s)[i] # Head(s)
<1>1. \A i \in DOMAIN Tail(s) : i \in Nat
  OBVIOUS
<1>2. ASSUME NEW i \in DOMAIN Tail(s), NEW j \in DOMAIN Tail(s),
             Tail(s)[i] = Tail(s)[j]
      PROVE  i = j
  <2>1. i + 1 = j + 1 BY <1>2, PopFront DEF IsOnce
  <2> QED BY <1>1, <2>1
<1>3. \A i \in DOMAIN Tail(s) : Tail(s)[i] # Head(s)
  BY PopFront DEF IsOnce
<1> QED BY <1>2, <1>3 DEF IsOnce

\* push_back: one more element, at the end.
LEMMA PushBack ==
  ASSUME NEW S, NEW s \in Seq(S), NEW x \in S
  PROVE  /\ \A i \in DOMAIN s : i \in DOMAIN Append(s, x) /\ Append(s, x)[i] = s[i]
         /\ Len(s) + 1 \in DOMAIN Append(s, x) /\ Append(s, x)[Len(s) + 1] = x
         /\ \A i \in DOMAIN Append(s, x) : i \in DOMAIN s \/ i = Len(s) + 1
OBVIOUS

\* Pushing something new keeps a queue free of duplicates.
LEMMA PushOnce ==
  ASSUME NEW S, NEW s \in Seq(S), NEW x \in S, IsOnce(s),
         \A i \in DOMAIN s : s[i] # x
  PROVE  IsOnce(Append(s, x))
BY PushBack DEF IsOnce

\* Two queues in a row.
LEMMA InARow ==
  ASSUME NEW S, NEW s \in Seq(S), NEW t \in Seq(S)
  PROVE  /\ s \o t \in Seq(S) /\ Len(s \o t) = Len(s) + Len(t)
         /\ \A i \in 1 .. Len(s) : (s \o t)[i] = s[i]
         /\ \A i \in 1 .. Len(t) : (s \o t)[Len(s) + i] = t[i]
OBVIOUS

\* A coroutine on top of the stack.
LEMMA PushFront ==
  ASSUME NEW S, NEW s \in Seq(S), NEW x \in S,
         NEW i \in DOMAIN (<<x>> \o s)
  PROVE  /\ i \in Nat
         /\ \/ i = 1 /\ (<<x>> \o s)[i] = x
            \/ i - 1 \in DOMAIN s /\ (<<x>> \o s)[i] = s[i - 1]
<1>1. <<x>> \in Seq(S) /\ Len(<<x>>) = 1 /\ <<x>>[1] = x
  OBVIOUS
<1>2. Len(<<x>> \o s) = 1 + Len(s) /\ <<x>> \o s \in Seq(S)
  BY <1>1, InARow
<1>3. i \in 1 .. 1 + Len(s)
  BY <1>2
<1>4. CASE i = 1
  BY <1>1, <1>4, InARow
<1>5. CASE i # 1
  <2>1. i - 1 \in 1 .. Len(s) /\ i = 1 + (i - 1)
    BY <1>3, <1>5
  <2>2. (<<x>> \o s)[1 + (i - 1)] = s[i - 1]
    BY <1>1, <2>1, InARow
  <2> QED BY <1>3, <2>1, <2>2
<1> QED BY <1>4, <1>5

-----------------------------------------------------------------------------
(* The invariant.                                                           *)

\* The invariant holds when block_on starts.
LEMMA PlaceInit == Init => PlaceInv
<1> SUFFICES ASSUME Init PROVE PlaceInv
  OBVIOUS
<1>1. WakeupInv BY WakeupInvInit
<1>2. StackInv /\ PostedInv
  BY RootAssumption DEF Init, StackInv, PostedInv, IsOnce, Apart
<1>3. UringInv
  BY DEF Init, UringInv, IsOnce, Apart, Waits
<1>4. EvInv
  <2>1. ~need_rearm BY Zenon DEF Init
  <2> QED BY <2>1 DEF Init, EvInv, EvPresent, Handling
<1> QED BY <1>1, <1>2, <1>3, <1>4 DEF PlaceInv

\* A coroutine that suspends leaves the stack for the place its await names.
LEMMA PlaceSuspend ==
  ASSUME PlaceInv, WakeupInv', NEW c \in CoStates, Suspend(c),
         \/ c # "running" /\ sq' = sq
         \/ c = "io" /\ sq' = sq \cup {Head(stack)}
  PROVE  PlaceInv'
<1> DEFINE h == Head(stack)
<1>1. stack \in Seq(Handles) /\ stack # <<>> /\ co \in [Handles -> CoStates]
  BY DEF PlaceInv, WakeupInv, TypeOK, Suspend, Running
<1>2. h \in Handles /\ h # Ev /\ co[h] = "running"
  BY <1>1, PopFront, EvAssumption DEF PlaceInv, StackInv
<1>3. \A g \in Handles : g # h => co'[g] = co[g]
  BY <1>1 DEF Suspend
<1>4. co'[h] = c
  BY <1>1, <1>2 DEF Suspend
<1>5. StackInv'
  <2>1. IsOnce(stack') /\ \A i \in DOMAIN stack' : stack'[i] # h
    BY <1>1, PopOnce DEF Suspend, PlaceInv, StackInv
  <2>2. ASSUME NEW i \in DOMAIN stack' PROVE co'[stack'[i]] = "running"
    <3>1. i + 1 \in DOMAIN stack /\ stack'[i] = stack[i + 1]
      BY <1>1, PopFront DEF Suspend
    <3>2. stack[i + 1] \in Handles
      BY <1>1, <3>1
    <3> QED BY <1>3, <2>1, <3>1, <3>2 DEF PlaceInv, StackInv
  <2> QED BY <2>1, <2>2 DEF StackInv
<1>6. PostedInv'
  BY <1>2, <1>3 DEF PlaceInv, PostedInv, Suspend, loopvars, WakeupInv, TypeOK
<1>7. UringInv'
  <2>1. UNCHANGED <<inflight, cq, batch>>
    BY DEF Suspend, loopvars
  <2>2. \A d \in Handles \cup {Ev} : Waits(d) => d # h /\ Waits(d)'
    BY <1>2, <1>3 DEF Waits
  <2>3. \A d \in Handles : d = h /\ sq' # sq => Waits(d)'
    BY <1>2, <1>4 DEF Waits
  <2>4. /\ sq' \cap inflight' = {} /\ \A d \in sq' \cup inflight' : Waits(d)'
        /\ IsOnce(cq)' /\ IsOnce(batch)' /\ Apart(cq, batch)'
    <3>1. IsOnce(cq)' /\ IsOnce(batch)' /\ Apart(cq, batch)'
      <4>1. cq' = cq /\ batch' = batch
        BY <2>1
      <4>2. IsOnce(cq) /\ IsOnce(batch) /\ Apart(cq, batch)
        BY DEF PlaceInv, UringInv
      <4> QED BY <4>1, <4>2 DEF IsOnce, Apart
    <3>2. sq' \cap inflight' = {} /\ \A d \in sq' \cup inflight' : Waits(d)'
      <4>1. /\ sq \cap inflight = {} /\ sq \subseteq Handles \cup {Ev}
            /\ inflight \subseteq Handles \cup {Ev} /\ \A d \in sq \cup inflight : Waits(d)
        BY DEF PlaceInv, UringInv, WakeupInv, TypeOK
      <4>2. \A d \in sq \cup inflight : d # h /\ Waits(d)'
        BY <2>2, <4>1
      <4>3. PICK k \in Handles : k = h
        BY <1>2
      <4>4. inflight' = inflight /\ (sq' = sq \/ sq' = sq \cup {k}) /\ (sq' # sq => Waits(k)')
        BY <2>1, <2>3, <4>3
      <4>5. sq' \cap inflight' = {}
        BY <4>1, <4>2, <4>3, <4>4
      <4>6. ASSUME NEW d \in sq' \cup inflight' PROVE Waits(d)'
        <5>1. CASE sq' = sq
          BY <4>2, <4>4, <4>6, <5>1
        <5>2. CASE sq' # sq
          <6>1. d \in sq \cup inflight \/ d = k
            BY <4>4, <4>6, <5>2
          <6>2. d = k => Waits(d)'
            BY <4>4, <5>2
          <6> QED BY <4>2, <6>1, <6>2
        <5> QED BY <5>1, <5>2
      <4> QED BY <4>5, <4>6
    <3> QED BY <3>1, <3>2
  <2>5. \A i \in DOMAIN cq : cq[i] \notin sq' \cup inflight' /\ Waits(cq[i])'
    BY <1>2, <2>1, <2>2, <2>3 DEF PlaceInv, UringInv, WakeupInv, TypeOK
  <2>6. \A i \in DOMAIN batch : batch[i] \notin sq' \cup inflight' /\ Waits(batch[i])'
    BY <1>2, <2>1, <2>2, <2>3 DEF PlaceInv, UringInv, WakeupInv, TypeOK
  <2> QED BY <2>1, <2>4, <2>5, <2>6 DEF UringInv
<1>8. EvInv'
  BY <1>2 DEF PlaceInv, EvInv, EvPresent, Handling, Suspend, loopvars
<1> QED BY <1>5, <1>6, <1>7, <1>8 DEF PlaceInv

\* A spawned coroutine was nowhere.
LEMMA PlaceSpawn ==
  ASSUME PlaceInv, WakeupInv', NEW h \in Handles, Spawn(h)
  PROVE  PlaceInv'
<1>1. stack \in Seq(Handles) /\ co \in [Handles -> CoStates]
  BY DEF PlaceInv, WakeupInv, TypeOK
<1>2. co[h] = "new" /\ co'[h] = "running" /\ \A g \in Handles : g # h => co'[g] = co[g]
  BY <1>1 DEF Spawn
<1>3. UNCHANGED <<external_tasks_, tasks, sq, inflight, cq, batch, need_rearm, loop_pc>>
  BY DEF Spawn, loopvars
<1>4. StackInv'
  <2>1. \A i \in DOMAIN stack : stack[i] \in Handles /\ stack[i] # h
    BY <1>1, <1>2 DEF PlaceInv, StackInv
  <2>2. stack' = <<h>> \o stack
    BY DEF Spawn
  <2>3. ASSUME NEW i \in DOMAIN stack'
        PROVE  /\ i \in Nat
               /\ \/ i = 1 /\ stack'[i] = h
                  \/ i - 1 \in DOMAIN stack /\ stack'[i] = stack[i - 1]
    <3>1. i \in DOMAIN (<<h>> \o stack) BY <2>2
    <3> QED BY <1>1, <2>2, <3>1, PushFront, Zenon
  <2>4. IsOnce(stack')
    BY <2>1, <2>3 DEF PlaceInv, StackInv, IsOnce
  <2> QED BY <1>2, <2>1, <2>3, <2>4 DEF PlaceInv, StackInv
<1>5. PostedInv'
  BY <1>2, <1>3 DEF PlaceInv, PostedInv, WakeupInv, TypeOK
<1>6. UringInv'
  <2>1. \A d \in Handles \cup {Ev} : Waits(d) => Waits(d)'
    BY <1>2 DEF Waits
  <2> QED BY <1>3, <2>1 DEF PlaceInv, UringInv, WakeupInv, TypeOK
<1>7. EvInv'
  BY <1>3 DEF PlaceInv, EvInv, EvPresent, Handling
<1> QED BY <1>4, <1>5, <1>6, <1>7 DEF PlaceInv

\* A handle that is pushed waited for its job or its callback: it was in no queue.
LEMMA PlacePush ==
  ASSUME PlaceInv, WakeupInv', NEW t \in Posters, NEW h \in Handles,
         co[h] \in {"pool", "waker"}, PostPush(t, h)
  PROVE  PlaceInv'
<1>1. /\ external_tasks_ \in Seq(Handles) /\ tasks \in Seq(Handles)
      /\ stack \in Seq(Handles) /\ co \in [Handles -> CoStates]
  BY DEF PlaceInv, WakeupInv, TypeOK
<1>2. co'[h] = "posted" /\ \A g \in Handles : g # h => co'[g] = co[g]
  BY <1>1 DEF PostPush
<1>3. UNCHANGED <<stack, tasks, sq, inflight, cq, batch, need_rearm, loop_pc>>
  BY DEF PostPush
<1>4. StackInv'
  BY <1>1, <1>2, <1>3 DEF PlaceInv, StackInv
<1>5. PostedInv'
  <2>1. /\ \A i \in DOMAIN tasks : tasks[i] \in Handles /\ tasks[i] # h
        /\ \A i \in DOMAIN external_tasks_ :
             external_tasks_[i] \in Handles /\ external_tasks_[i] # h
    BY <1>1 DEF PlaceInv, PostedInv
  <2>2. external_tasks_' = Append(external_tasks_, h)
    BY DEF PostPush
  <2>3. IsOnce(external_tasks_')
    BY <1>1, <2>1, <2>2, PushOnce DEF PlaceInv, PostedInv
  <2>4. \A i \in DOMAIN external_tasks_' :
          \/ i \in DOMAIN external_tasks_ /\ external_tasks_'[i] = external_tasks_[i]
          \/ external_tasks_'[i] = h
    BY <1>1, <2>2, PushBack
  <2>5. Apart(tasks, external_tasks_')
    BY <2>1, <2>4 DEF PlaceInv, PostedInv, Apart
  <2> QED BY <1>2, <1>3, <2>1, <2>3, <2>4, <2>5 DEF PlaceInv, PostedInv
<1>6. UringInv'
  <2>1. \A d \in Handles \cup {Ev} : Waits(d) => Waits(d)'
    BY <1>2 DEF Waits
  <2> QED BY <1>3, <2>1 DEF PlaceInv, UringInv, WakeupInv, TypeOK
<1>7. EvInv'
  BY <1>3 DEF PlaceInv, EvInv, EvPresent, Handling
<1> QED BY <1>4, <1>5, <1>6, <1>7 DEF PlaceInv

\* A completion moves one request from the kernel to the end of the CQ.
LEMMA PlaceComplete ==
  ASSUME PlaceInv, WakeupInv', NEW d \in Handles \cup {Ev}, Complete(d)
  PROVE  PlaceInv'
<1>1. cq \in Seq(Handles \cup {Ev}) /\ cq' = Append(cq, d)
  BY DEF PlaceInv, WakeupInv, TypeOK, Complete
<1>2. d \in inflight /\ inflight' = inflight \ {d}
  BY DEF Complete
<1>3. UNCHANGED <<stack, tasks, external_tasks_, co, sq, batch, need_rearm, loop_pc>>
  BY DEF Complete
<1>4. /\ \A i \in DOMAIN cq : i \in DOMAIN cq' /\ cq'[i] = cq[i]
      /\ \A i \in DOMAIN cq' : (i \in DOMAIN cq /\ cq'[i] = cq[i]) \/ cq'[i] = d
      /\ \E i \in DOMAIN cq' : cq'[i] = d
  BY <1>1, PushBack
<1>5. StackInv' /\ PostedInv'
  BY <1>3 DEF PlaceInv, StackInv, PostedInv
<1>6. UringInv'
  <2>1. \A x : Waits(x)' <=> Waits(x)
    BY <1>3 DEF Waits
  <2>2. IsOnce(cq') /\ Apart(cq', batch')
    <3>1. \A i \in DOMAIN cq : cq[i] # d
      BY <1>2 DEF PlaceInv, UringInv
    <3>2. \A i \in DOMAIN batch : batch[i] # d
      BY <1>2 DEF PlaceInv, UringInv
    <3>3. IsOnce(cq')
      BY <1>1, <3>1, PushOnce DEF PlaceInv, UringInv
    <3> QED BY <1>3, <1>4, <3>2, <3>3 DEF PlaceInv, UringInv, Apart
  <2>3. \A i \in DOMAIN cq' : cq'[i] \notin sq' \cup inflight' /\ Waits(cq[i])'
    BY <1>2, <1>3, <1>4, <2>1 DEF PlaceInv, UringInv, Waits
  <2> QED BY <1>2, <1>3, <2>1, <2>2, <2>3 DEF PlaceInv, UringInv
<1>7. EvInv'
  <2>1. EvPresent' <=> EvPresent
    BY <1>2, <1>3, <1>4 DEF EvPresent
  <2> QED BY <1>3, <2>1 DEF PlaceInv, EvInv, Handling
<1> QED BY <1>5, <1>6, <1>7 DEF PlaceInv

\* Dispatching a CQE of a coroutine takes it off the batch and runs it.
LEMMA PlaceDispatchIo ==
  ASSUME PlaceInv, WakeupInv', DispatchIo
  PROVE  PlaceInv'
<1>1. batch \in Seq(Handles \cup {Ev}) /\ batch # <<>> /\ batch' = Tail(batch)
  BY DEF PlaceInv, WakeupInv, TypeOK, DispatchIo
<1>2. PICK h : h = Head(batch)
  OBVIOUS
<1>3. /\ h # Ev /\ h \in Handles /\ co[h] = "io"
      /\ h \notin sq \cup inflight /\ \A i \in DOMAIN cq : cq[i] # h
  <2>1. h # Ev BY <1>2 DEF DispatchIo
  <2>2. 1 \in DOMAIN batch /\ h = batch[1] /\ h \in Handles \cup {Ev}
    BY <1>1, <1>2, PopFront
  <2> QED BY <2>1, <2>2 DEF PlaceInv, UringInv, Waits, Apart
<1>4. /\ stack' = <<h>> /\ co'[h] = "running"
      /\ \A g \in Handles : g # h => co'[g] = co[g]
  BY <1>2, <1>3 DEF DispatchIo, PlaceInv, WakeupInv, TypeOK
<1>5. UNCHANGED <<tasks, external_tasks_, sq, inflight, cq, need_rearm, loop_pc>>
  BY DEF DispatchIo
<1>6. /\ IsOnce(batch') /\ \A i \in DOMAIN batch' : batch'[i] # h
      /\ \A i \in DOMAIN batch' : i + 1 \in DOMAIN batch /\ batch'[i] = batch[i + 1]
      /\ \A i \in DOMAIN batch : i # 1 => i - 1 \in DOMAIN batch' /\ batch'[i - 1] = batch[i]
      /\ batch[1] = h
  BY <1>1, <1>2, PopFront, PopOnce DEF PlaceInv, UringInv
<1>7. StackInv'
  BY <1>4 DEF StackInv, IsOnce
<1>8. PostedInv'
  BY <1>3, <1>4, <1>5 DEF PlaceInv, PostedInv, WakeupInv, TypeOK
<1>9. UringInv'
  <2>1. \A d \in Handles \cup {Ev} : d # h /\ Waits(d) => Waits(d)'
    BY <1>4 DEF Waits
  <2>2. Apart(cq', batch')
    BY <1>5, <1>6 DEF PlaceInv, UringInv, Apart
  <2>3. \A d \in sq \cup inflight : Waits(d)'
    BY Zenon, <1>3, <2>1 DEF PlaceInv, UringInv, WakeupInv, TypeOK
  <2>4. \A i \in DOMAIN cq' : cq'[i] \notin sq' \cup inflight' /\ Waits(cq[i])'
    BY <1>3, <1>5, <2>1 DEF PlaceInv, UringInv, WakeupInv, TypeOK
  <2>5. \A i \in DOMAIN batch' :
          batch'[i] \notin sq' \cup inflight' /\ Waits(batch[i])'
    <3> SUFFICES ASSUME NEW i \in DOMAIN batch'
                 PROVE  batch'[i] \notin sq' \cup inflight' /\ Waits(batch[i])'
      OBVIOUS
    <3>1. batch'[i] \in Handles \cup {Ev}
      BY DEF WakeupInv, TypeOK
    <3>2. batch'[i] \notin sq \cup inflight /\ Waits(batch'[i])
      BY <1>6 DEF PlaceInv, UringInv
    <3> QED BY <1>5, <1>6, <2>1, <3>1, <3>2
  <2> QED BY <1>5, <1>6, <2>2, <2>3, <2>4, <2>5 DEF PlaceInv, UringInv
<1>10. EvInv'
  <2>1. EvPresent' <=> EvPresent
    BY <1>3, <1>5, <1>6 DEF EvPresent
  <2> QED BY <1>5, <2>1 DEF PlaceInv, EvInv, Handling
<1> QED BY <1>7, <1>8, <1>9, <1>10 DEF PlaceInv

\* Dispatching the CQE of the eventfd read takes its only copy.
LEMMA PlaceDispatchEv ==
  ASSUME PlaceInv, WakeupInv', DispatchEv
  PROVE  PlaceInv'
<1>1. batch \in Seq(Handles \cup {Ev}) /\ batch # <<>> /\ batch' = Tail(batch)
  BY DEF PlaceInv, WakeupInv, TypeOK, DispatchEv
<1>2. /\ IsOnce(batch') /\ \A i \in DOMAIN batch' : batch'[i] # Ev
      /\ \A i \in DOMAIN batch' : i + 1 \in DOMAIN batch /\ batch'[i] = batch[i + 1]
      /\ 1 \in DOMAIN batch /\ batch[1] = Ev
  BY <1>1, PopFront, PopOnce DEF PlaceInv, UringInv, DispatchEv
<1>3. UNCHANGED <<stack, tasks, external_tasks_, co, sq, inflight, cq, loop_pc>>
  BY DEF DispatchEv
<1>4. StackInv' /\ PostedInv'
  BY <1>3 DEF PlaceInv, StackInv, PostedInv
<1>5. UringInv'
  <2>1. \A x : Waits(x)' <=> Waits(x)
    BY <1>3 DEF Waits
  <2>2. Apart(cq', batch')
    BY <1>2, <1>3 DEF PlaceInv, UringInv, Apart
  <2>3. \A i \in DOMAIN batch' : batch'[i] \notin sq' \cup inflight' /\ Waits(batch[i])'
    BY <1>2, <1>3 DEF PlaceInv, UringInv, Waits
  <2>4. \A i \in DOMAIN cq' : cq'[i] \notin sq' \cup inflight' /\ Waits(cq[i])'
    BY <1>3 DEF PlaceInv, UringInv, Waits
  <2> QED BY <1>2, <1>3, <2>1, <2>2, <2>3, <2>4 DEF PlaceInv, UringInv
<1>6. EvInv'
  <2>1. ~EvPresent'
    BY <1>2, <1>3 DEF PlaceInv, UringInv, Apart, EvPresent
  <2>2. need_rearm' /\ loop_pc' = "dispatch"
    BY DEF DispatchEv
  <2> QED BY <2>1, <2>2 DEF EvInv, Handling
<1> QED BY <1>4, <1>5, <1>6 DEF PlaceInv

\* run_external_tasks resumes a handle that is in no other place.
LEMMA PlaceRunTask ==
  ASSUME PlaceInv, WakeupInv', RunTask
  PROVE  PlaceInv'
<1>1. tasks \in Seq(Handles) /\ tasks # <<>> /\ tasks' = Tail(tasks)
  BY DEF PlaceInv, WakeupInv, TypeOK, RunTask
<1>2. PICK h \in Handles : h = Head(tasks)
  BY <1>1, PopFront
<1>3. co[h] = "posted" /\ \A i \in DOMAIN external_tasks_ : external_tasks_[i] # h
  BY <1>1, <1>2, PopFront DEF PlaceInv, PostedInv, Apart
<1>4. /\ stack' = <<h>> /\ co'[h] = "running"
      /\ \A g \in Handles : g # h => co'[g] = co[g]
  <2>1. stack' = <<h>> /\ co' = [co EXCEPT ![h] = "running"]
    BY <1>2, <1>3 DEF RunTask
  <2> QED BY <2>1 DEF PlaceInv, WakeupInv, TypeOK
<1>5. UNCHANGED <<external_tasks_, sq, inflight, cq, batch, need_rearm, loop_pc>>
  BY DEF RunTask
<1>6. /\ IsOnce(tasks') /\ \A i \in DOMAIN tasks' : tasks'[i] # h
      /\ \A i \in DOMAIN tasks' : i + 1 \in DOMAIN tasks /\ tasks'[i] = tasks[i + 1]
  BY <1>1, <1>2, PopFront, PopOnce DEF PlaceInv, PostedInv
<1>7. StackInv'
  BY <1>4 DEF StackInv, IsOnce
<1>8. PostedInv'
  <2>1. \A i \in DOMAIN tasks' : tasks'[i] \in Handles
    BY DEF WakeupInv, TypeOK
  <2>2. \A i \in DOMAIN tasks' : co'[tasks'[i]] = "posted"
    BY <1>4, <1>6, <2>1 DEF PlaceInv, PostedInv
  <2>3. \A i \in DOMAIN external_tasks_' : co'[external_tasks_'[i]] = "posted"
    BY <1>3, <1>4, <1>5 DEF PlaceInv, PostedInv, WakeupInv, TypeOK
  <2>4. Apart(tasks', external_tasks_')
    BY <1>5, <1>6 DEF PlaceInv, PostedInv, Apart
  <2> QED BY <1>5, <1>6, <2>2, <2>3, <2>4 DEF PlaceInv, PostedInv
<1>9. UringInv'
  <2>1. \A d \in Handles \cup {Ev} : Waits(d) => Waits(d)'
    BY <1>3, <1>4, EvAssumption DEF Waits
  <2> QED BY <1>5, <2>1 DEF PlaceInv, UringInv, WakeupInv, TypeOK
<1>10. EvInv'
  BY <1>5 DEF PlaceInv, EvInv, EvPresent, Handling
<1> QED BY <1>7, <1>8, <1>9, <1>10 DEF PlaceInv

\* The other steps of run_one move whole queues or none.
LEMMA PlaceRunOne ==
  ASSUME PlaceInv, WakeupInv', RunOne
  PROVE  PlaceInv'
<1>1. CASE CheckDone \/ DispatchEnd \/ StoreNotified
  <2>1. UNCHANGED <<external_tasks_, sq, inflight, cq, batch, need_rearm,
                    tasks, stack, co>>
    BY <1>1 DEF CheckDone, DispatchEnd, StoreNotified
  <2>2. StackInv' /\ PostedInv' /\ UringInv'
    BY <2>1 DEF PlaceInv, StackInv, PostedInv, UringInv, Waits
  <2>3. EvPresent' <=> EvPresent
    BY <2>1 DEF EvPresent
  <2>4. EvInv'
    BY <1>1, <2>1, <2>3
    DEF CheckDone, DispatchEnd, StoreNotified, PlaceInv, EvInv, Handling
  <2> QED BY <2>2, <2>4 DEF PlaceInv
<1>2. CASE SubmitAndWait
  <2>1. StackInv' /\ PostedInv'
    BY <1>2 DEF SubmitAndWait, PlaceInv, StackInv, PostedInv
  <2>2. UringInv'
    BY <1>2 DEF SubmitAndWait, PlaceInv, UringInv, Waits
  <2>3. EvPresent' <=> EvPresent
    BY <1>2 DEF SubmitAndWait, EvPresent
  <2>4. EvInv'
    BY <1>2, <2>3 DEF SubmitAndWait, PlaceInv, EvInv, Handling
  <2> QED BY <2>1, <2>2, <2>4 DEF PlaceInv
<1>3. CASE Reap
  <2>1. batch = <<>>
    BY <1>3 DEF Reap, PlaceInv, WakeupInv, LocalsEmpty
  <2>2. StackInv' /\ PostedInv'
    BY <1>3 DEF Reap, PlaceInv, StackInv, PostedInv
  <2>3. UringInv'
    BY <1>3, <2>1 DEF Reap, PlaceInv, UringInv, Waits, IsOnce, Apart
  <2>4. EvPresent' <=> EvPresent
    BY <1>3, <2>1 DEF Reap, EvPresent
  <2>5. ~need_rearm'
    BY <1>3, Zenon DEF Reap
  <2>6. EvInv'
    BY <1>3, <2>4, <2>5 DEF Reap, PlaceInv, EvInv, Handling
  <2> QED BY <2>2, <2>3, <2>6 DEF PlaceInv
<1>4. CASE SwapTasks
  <2>1. tasks = <<>>
    BY <1>4 DEF SwapTasks, PlaceInv, WakeupInv, LocalsEmpty
  <2>2. PostedInv'
    BY <1>4, <2>1 DEF SwapTasks, PlaceInv, PostedInv, IsOnce, Apart
  <2>3. StackInv' /\ UringInv'
    BY <1>4 DEF SwapTasks, PlaceInv, StackInv, UringInv, Waits
  <2>4. EvInv'
    BY <1>4 DEF SwapTasks, PlaceInv, EvInv, EvPresent, Handling
  <2> QED BY <2>2, <2>3, <2>4 DEF PlaceInv
<1>5. CASE ArmEventfdRead
  <2>1. ~EvPresent
    BY <1>5 DEF ArmEventfdRead, PlaceInv, EvInv, Handling
  <2>2. StackInv' /\ PostedInv'
    BY <1>5 DEF ArmEventfdRead, PlaceInv, StackInv, PostedInv
  <2>3. UringInv'
    BY <1>5, <2>1 DEF ArmEventfdRead, EvPresent, PlaceInv, UringInv, Waits
  <2>4. EvInv'
    BY <1>5 DEF ArmEventfdRead, EvInv, EvPresent, Handling
  <2> QED BY <2>2, <2>3, <2>4 DEF PlaceInv
<1> QED
  BY <1>1, <1>2, <1>3, <1>4, <1>5, PlaceDispatchEv, PlaceDispatchIo, PlaceRunTask
  DEF RunOne

\* Every step keeps the invariant.
LEMMA PlaceStep == PlaceInv /\ [Next]_vars => PlaceInv'
<1> SUFFICES ASSUME PlaceInv, [Next]_vars PROVE PlaceInv'
  OBVIOUS
<1>0. WakeupInv'
  BY WakeupInvStep DEF PlaceInv
<1>1. CASE Coroutine
  <2>1. CASE RunInPool \/ SuspendCoroutine \/ Finish
    BY <1>0, <2>1, PlaceSuspend
    DEF RunInPool, SuspendCoroutine, Finish, CoStates
  <2>2. CASE AwaitIo
    BY <1>0, <2>2, PlaceSuspend DEF AwaitIo, CoStates
  <2>3. CASE \E h \in Handles : Spawn(h)
    BY <1>0, <2>3, PlaceSpawn
  <2>4. CASE \E h \in Handles : CallWaker(h)
    BY <1>0, <2>4, PlacePush DEF CallWaker, Posters
  <2> QED BY <1>1, <2>1, <2>2, <2>3, <2>4 DEF Coroutine
<1>2. CASE RunOne BY <1>0, <1>2, PlaceRunOne
<1>3. CASE Kernel
  BY <1>0, <1>3, PlaceComplete DEF Kernel, KernelEvRead, KernelEvAgain, KernelIo
<1>4. CASE UNCHANGED <<external_tasks_, sq, inflight, cq, batch, need_rearm,
                       tasks, loop_pc, stack, co>>
  <2>1. StackInv' /\ PostedInv' /\ UringInv'
    BY <1>4 DEF PlaceInv, StackInv, PostedInv, UringInv, Waits
  <2>2. EvInv'
    BY <1>4 DEF PlaceInv, EvInv, EvPresent, Handling
  <2> QED BY <1>0, <2>1, <2>2 DEF PlaceInv
<1>5. CASE \E t \in Posters : FinishPost(t)
  BY <1>4, <1>5 DEF FinishPost, PostExchange, PostWrite
<1>6. CASE \E w \in Workers, h \in Handles : WorkerDone(w, h)
  BY <1>0, <1>6, PlacePush DEF WorkerDone, Posters
<1>7. CASE UNCHANGED vars
  BY <1>4, <1>7 DEF vars
<1> QED BY <1>1, <1>2, <1>3, <1>5, <1>6, <1>7 DEF Next

\* The invariant holds in every reachable state.
LEMMA PlaceInvariant == Spec => []PlaceInv
BY PlaceInit, PlaceStep, PTL DEF Spec

-----------------------------------------------------------------------------
(* What follows from it.                                                    *)

\* Two queues without duplicates that share nothing, in a row.
LEMMA InARowOnce ==
  ASSUME NEW S, NEW s \in Seq(S), NEW t \in Seq(S),
         NEW i \in DOMAIN (s \o t)
  PROVE  /\ i \in Nat
         /\ \/ i \in DOMAIN s /\ (s \o t)[i] = s[i]
            \/ /\ i - Len(s) \in DOMAIN t /\ i > Len(s)
               /\ (s \o t)[i] = t[i - Len(s)]
<1>1. Len(s) \in Nat /\ Len(t) \in Nat /\ DOMAIN s = 1 .. Len(s) /\ DOMAIN t = 1 .. Len(t)
  OBVIOUS
<1>2. i \in 1 .. Len(s) + Len(t)
  BY InARow
<1>3. CASE i <= Len(s)
  BY <1>1, <1>2, <1>3, InARow
<1>4. CASE i > Len(s)
  <2>1. i - Len(s) \in 1 .. Len(t) /\ i = Len(s) + (i - Len(s))
    BY <1>1, <1>2, <1>4
  <2>2. (s \o t)[Len(s) + (i - Len(s))] = t[i - Len(s)]
    BY <2>1, InARow
  <2> QED BY <1>1, <1>2, <1>4, <2>1, <2>2
<1> QED BY <1>1, <1>2, <1>3, <1>4

\* No coroutine is queued twice, and a queued one is suspended in the await that
\* posted it, for every number of workers and coroutines: run_external_tasks
\* never resumes a coroutine that runs, waits for something else or is finished.
THEOREM NeverResumedTwice == Spec => []QueuedOnce
<1>1. ASSUME PlaceInv PROVE QueuedOnce
  <2> DEFINE q == tasks \o external_tasks_
  <2>1. tasks \in Seq(Handles) /\ external_tasks_ \in Seq(Handles)
    BY <1>1 DEF PlaceInv, WakeupInv, TypeOK
  <2>2. Len(tasks) \in Nat /\ \A i \in DOMAIN external_tasks_ : i \in Nat
    BY <2>1
  <2>3. ASSUME NEW i \in DOMAIN q
        PROVE  /\ i \in Nat
               /\ \/ i \in DOMAIN tasks /\ q[i] = tasks[i]
                  \/ /\ i - Len(tasks) \in DOMAIN external_tasks_
                     /\ q[i] = external_tasks_[i - Len(tasks)]
    BY <2>1, <2>3, InARowOnce
  <2>4. ASSUME NEW i \in DOMAIN q PROVE co[q[i]] = "posted"
    BY <1>1, <2>3, <2>4 DEF PlaceInv, PostedInv
  <2>5. ASSUME NEW i \in DOMAIN q, NEW j \in DOMAIN q, q[i] = q[j] PROVE i = j
    <3> HIDE DEF q
    <3>1. CASE i \in DOMAIN tasks /\ q[i] = tasks[i]
      <4>1. IsOnce(tasks) /\ Apart(tasks, external_tasks_)
        BY <1>1 DEF PlaceInv, PostedInv
      <4>2. j \in DOMAIN tasks /\ q[j] = tasks[j]
        BY Zenon, <2>3, <2>5, <3>1, <4>1 DEF Apart
      <4> QED BY Zenon, <2>5, <3>1, <4>1, <4>2 DEF IsOnce
    <3>2. CASE /\ i - Len(tasks) \in DOMAIN external_tasks_
               /\ q[i] = external_tasks_[i - Len(tasks)]
      <4>1. j - Len(tasks) = i - Len(tasks)
        BY Zenon, <1>1, <2>3, <2>5, <3>2 DEF PlaceInv, PostedInv, IsOnce, Apart
      <4> QED BY <2>2, <2>3, <4>1
    <3> QED BY <2>3, <3>1, <3>2
  <2> QED BY <2>4, <2>5 DEF QueuedOnce
<1> QED BY PlaceInvariant, <1>1, PTL

\* The eventfd read is never armed twice and never dropped, for every number of
\* workers and coroutines: run_one can always be woken by a post.
THEOREM EvReadNeverDropped == Spec => []EvReadArmedOnce
<1>1. ASSUME PlaceInv PROVE EvReadArmedOnce
  <2> DEFINE q == cq \o batch
             copies(s) == {i \in DOMAIN s : s[i] = Ev}
  <2>1. cq \in Seq(Handles \cup {Ev}) /\ batch \in Seq(Handles \cup {Ev})
    BY <1>1 DEF PlaceInv, WakeupInv, TypeOK
  <2>2. Len(cq) \in Nat /\ \A i \in DOMAIN batch : i \in Nat
    BY <2>1
  <2>3. ASSUME NEW i \in DOMAIN q
        PROVE  /\ i \in Nat
               /\ \/ i \in DOMAIN cq /\ q[i] = cq[i]
                  \/ i - Len(cq) \in DOMAIN batch /\ q[i] = batch[i - Len(cq)]
    BY <2>1, <2>3, InARowOnce
  <2>4. /\ \A i \in DOMAIN cq : i \in DOMAIN q /\ q[i] = cq[i]
        /\ \A i \in DOMAIN batch : Len(cq) + i \in DOMAIN q /\ q[Len(cq) + i] = batch[i]
    BY <2>1, <2>2, InARow
  <2>5. CASE Handling
    <3>1. ~EvPresent
      BY <1>1, <2>5 DEF PlaceInv, EvInv
    <3> QED BY <2>5, <3>1 DEF EvPresent, Handling, EvReadArmedOnce
  <2>6. CASE ~Handling
    <3>1. EvPresent
      BY <1>1, <2>6 DEF PlaceInv, EvInv
    <3>2. CASE Ev \in sq \cup inflight
      <4>1. copies(q) = {}
        <5> HIDE DEF q
        <5> QED BY <1>1, <2>3, <3>2 DEF PlaceInv, UringInv
      <4> QED
        BY <1>1, <2>6, <3>2, <4>1
        DEF PlaceInv, UringInv, Handling, EvReadArmedOnce
    <3>3. CASE Ev \notin sq \cup inflight
      <4>1. PICK k \in DOMAIN q : q[k] = Ev
        <5> HIDE DEF q
        <5> QED BY <2>4, <3>1, <3>3 DEF EvPresent
      <4>2. ASSUME NEW j \in DOMAIN q, q[j] = Ev PROVE j = k
        <5> HIDE DEF q
        <5>1. CASE k \in DOMAIN cq /\ q[k] = cq[k]
          BY <1>1, <2>3, <4>1, <4>2, <5>1 DEF PlaceInv, UringInv, IsOnce, Apart
        <5>2. CASE k - Len(cq) \in DOMAIN batch /\ q[k] = batch[k - Len(cq)]
          <6>1. j - Len(cq) = k - Len(cq)
            BY <1>1, <2>3, <4>1, <4>2, <5>2 DEF PlaceInv, UringInv, IsOnce, Apart
          <6> QED BY <2>2, <2>3, <4>1, <6>1
        <5> QED BY <2>3, <4>1, <5>1, <5>2
      <4>3. copies(q) = {k}
        BY <4>1, <4>2
      <4> QED BY <2>6, <3>3, <4>1, <4>3 DEF Handling, EvReadArmedOnce
    <3> QED BY <3>2, <3>3
  <2> QED BY <2>5, <2>6
<1> QED BY PlaceInvariant, <1>1, PTL

-----------------------------------------------------------------------------
(* The ring implements ResumeQueue: the step simulation.                    *)

\* A post adds its handle at the end of the abstract queue.
LEMMA PostSimulated ==
  ASSUME PlaceInv, NEW t \in Posters, NEW h \in Handles,
         co[h] \in {"pool", "waker"}, PostPush(t, h)
  PROVE  Queue!Post(h)
<1>1. tasks \in Seq(Handles) /\ external_tasks_ \in Seq(Handles)
  BY DEF PlaceInv, WakeupInv, TypeOK
<1>2. tasks' = tasks /\ external_tasks_' = Append(external_tasks_, h) /\ loop_pc' = loop_pc
  BY DEF PostPush
<1>3. ASSUME NEW i \in DOMAIN (tasks \o external_tasks_)
      PROVE  (tasks \o external_tasks_)[i] # h
  BY <1>1, <1>3, InARowOnce DEF PlaceInv, PostedInv
<1>4. tasks \o Append(external_tasks_, h) = Append(tasks \o external_tasks_, h)
  <2>1. <<h>> \in Seq(Handles) /\ tasks \o external_tasks_ \in Seq(Handles)
    BY <1>1, ConcatProperties
  <2>2. Append(external_tasks_, h) = external_tasks_ \o <<h>>
    BY <1>1, AppendIsConcat
  <2>3. Append(tasks \o external_tasks_, h) = (tasks \o external_tasks_) \o <<h>>
    BY <2>1, AppendIsConcat
  <2>4. (tasks \o external_tasks_) \o <<h>> = tasks \o (external_tasks_ \o <<h>>)
    BY <1>1, <2>1, ConcatAssociative
  <2> QED BY <2>2, <2>3, <2>4
<1> QED BY <1>2, <1>3, <1>4 DEF Queue!Post

\* Resuming the head of the local deque resumes the oldest handle.
LEMMA ResumeSimulated ==
  ASSUME PlaceInv, RunTask
  PROVE  Queue!Resume
<1>1. /\ tasks \in Seq(Handles) /\ external_tasks_ \in Seq(Handles) /\ tasks # <<>>
      /\ tasks' = Tail(tasks) /\ external_tasks_' = external_tasks_
      /\ loop_pc = "run" /\ loop_pc' = loop_pc
  BY DEF PlaceInv, WakeupInv, TypeOK, RunTask
<1>2. tasks \o external_tasks_ # <<>>
  BY <1>1, ConcatEqualIffEmpty
<1>3. Tail(tasks) \o external_tasks_ = Tail(tasks \o external_tasks_)
  <2>1. Tail(tasks) \in Seq(Handles) /\ Len(Tail(tasks)) = Len(tasks) - 1 /\ Len(tasks) \in Nat \ {0}
    BY <1>1
  <2>2. /\ tasks \o external_tasks_ \in Seq(Handles)
        /\ Len(tasks \o external_tasks_) = Len(tasks) + Len(external_tasks_)
        /\ Tail(tasks) \o external_tasks_ \in Seq(Handles)
        /\ Len(Tail(tasks) \o external_tasks_) = Len(tasks) - 1 + Len(external_tasks_)
    BY <1>1, <2>1, ConcatProperties
  <2>3. /\ Tail(tasks \o external_tasks_) \in Seq(Handles)
        /\ Len(Tail(tasks \o external_tasks_)) = Len(tasks) - 1 + Len(external_tasks_)
    BY <1>1, <1>2, <2>1, <2>2
  <2>4. ASSUME NEW i \in 1 .. Len(tasks) - 1 + Len(external_tasks_)
        PROVE  (Tail(tasks) \o external_tasks_)[i] = Tail(tasks \o external_tasks_)[i]
    <3>1. Tail(tasks \o external_tasks_)[i] = (tasks \o external_tasks_)[i + 1]
      BY <1>1, <1>2, <2>1, <2>2, <2>4
    <3>2. (Tail(tasks) \o external_tasks_)[i] =
            IF i <= Len(tasks) - 1 THEN Tail(tasks)[i]
                                   ELSE external_tasks_[i - (Len(tasks) - 1)]
      BY <1>1, <2>1, <2>4, ConcatProperties
    <3>3. (tasks \o external_tasks_)[i + 1] =
            IF i + 1 <= Len(tasks) THEN tasks[i + 1]
                                   ELSE external_tasks_[i + 1 - Len(tasks)]
      <4>1. i + 1 \in 1 .. Len(tasks) + Len(external_tasks_)
        BY <1>1, <2>1, <2>4
      <4> QED BY <1>1, <4>1, ConcatProperties
    <3>4. i <= Len(tasks) - 1 => Tail(tasks)[i] = tasks[i + 1]
      BY <1>1, <2>1, <2>4
    <3>5. /\ i <= Len(tasks) - 1 <=> i + 1 <= Len(tasks)
          /\ i - (Len(tasks) - 1) = i + 1 - Len(tasks)
      BY <2>1, <2>4
    <3> QED BY <3>1, <3>2, <3>3, <3>4, <3>5
  <2> QED BY <2>2, <2>3, <2>4, SeqEqual
<1> QED BY <1>1, <1>2, <1>3 DEF Queue!Resume

\* Every step of the ring is a step of the abstract queue or leaves it alone.
LEMMA StepSimulated == PlaceInv /\ [Next]_vars => [Queue!Next]_(Queue!qvars)
<1> SUFFICES ASSUME PlaceInv, [Next]_vars PROVE [Queue!Next]_(Queue!qvars)
  OBVIOUS
<1>1. tasks \in Seq(Handles) /\ external_tasks_ \in Seq(Handles)
  BY DEF PlaceInv, WakeupInv, TypeOK
<1>2. CASE UNCHANGED <<tasks, external_tasks_>> /\ (loop_pc' = "gone" <=> loop_pc = "gone")
  <2>1. (loop_pc' = "gone") = (loop_pc = "gone")
    BY <1>2
  <2> QED BY <1>2, <2>1 DEF Queue!qvars
<1>3. CASE \E w \in Workers, h \in Handles : WorkerDone(w, h)
  BY <1>3, PostSimulated DEF WorkerDone, Posters, Queue!Next
<1>4. CASE Coroutine
  <2>1. CASE \E h \in Handles : CallWaker(h)
    BY <2>1, PostSimulated DEF CallWaker, Posters, Queue!Next
  <2>2. CASE RunInPool \/ SuspendCoroutine \/ AwaitIo \/ Finish \/ \E h \in Handles : Spawn(h)
    BY Zenon, <1>2, <2>2
    DEF RunInPool, SuspendCoroutine, AwaitIo, Finish, Suspend, Spawn, loopvars
  <2> QED BY <1>4, <2>1, <2>2 DEF Coroutine
<1>5. CASE RunOne
  <2>1. CASE RunTask
    BY <2>1, ResumeSimulated DEF Queue!Next
  <2>2. CASE SwapTasks
    <3>1. tasks = <<>>
      BY <2>2 DEF SwapTasks, PlaceInv, WakeupInv, LocalsEmpty
    <3>2. tasks' \o external_tasks_' = tasks \o external_tasks_
      BY <1>1, <2>2, <3>1, ConcatEmptySeq DEF SwapTasks
    <3>3. (loop_pc' = "gone") = (loop_pc = "gone")
      BY <2>2 DEF SwapTasks
    <3> QED BY <3>2, <3>3 DEF Queue!qvars
  <2>3. CASE CheckDone
    <3>1. CASE co[Root] = "done"
      BY <2>3, <3>1 DEF CheckDone, Queue!Close, Queue!Next
    <3>2. CASE co[Root] # "done"
      BY <1>2, <2>3, <3>2 DEF CheckDone
    <3> QED BY <3>1, <3>2
  <2>4. CASE \/ SubmitAndWait \/ Reap \/ DispatchEv \/ DispatchIo \/ DispatchEnd
             \/ StoreNotified \/ ArmEventfdRead
    <3>1. loop_pc # "gone" /\ loop_pc' # "gone" /\ UNCHANGED <<tasks, external_tasks_>>
      BY <2>4 DEF SubmitAndWait, Reap, DispatchEv, DispatchIo, DispatchEnd,
                  StoreNotified, ArmEventfdRead
    <3> QED BY <1>2, <3>1
  <2> QED BY <1>5, <2>1, <2>2, <2>3, <2>4 DEF RunOne
<1>6. CASE Kernel \/ (\E t \in Posters : FinishPost(t)) \/ UNCHANGED vars
  BY <1>2, <1>6
  DEF Kernel, KernelEvRead, KernelEvAgain, KernelIo, Complete, FinishPost,
      PostExchange, PostWrite, vars
<1> QED BY <1>3, <1>4, <1>5, <1>6 DEF Next

\* The ring implements the queue its callers rely on, for every number of workers
\* and coroutines: what post hands over is resumed in that order, each handle once,
\* and nothing after block_on returned.  (That it is resumed at all is liveness.)
THEOREM RingImplementsQueue == Spec => Queue!Init /\ [][Queue!Next]_(Queue!qvars)
<1>1. Init => Queue!Init
  BY DEF Init, Queue!Init
<1> QED BY PlaceInvariant, StepSimulated, <1>1, PTL DEF Spec
=============================================================================
