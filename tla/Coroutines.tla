----------------------------- MODULE Coroutines -----------------------------
(***************************************************************************)
(* Coroutine frames and the objects that own them: Task, JoinHandle, the   *)
(* awaiters of both, io::spawn, io::block_on (ppnt-io/src/task.ixx,        *)
(* runtime.ixx) and the accept loop (net/accept.ixx, accept.cpp), which    *)
(* spawns a handler per connection and lets go of it.                      *)
(*                                                                         *)
(* Everything runs on the loop thread.  An action is what the coroutine on *)
(* top of the stack does next; when the stack is empty block_on runs the   *)
(* ring, which resumes a suspended coroutine.  The ring itself is          *)
(* RingWakeup and RingOps; here it is the set of frames it will resume.    *)
(***************************************************************************)
EXTENDS Naturals, Sequences, FiniteSets

CONSTANTS
  Frames,        \* coroutine frames
  Root,          \* the frame of the task given to block_on
  MaxBlocks      \* bound: suspensions of one frame for I/O, the pool or a waker

ASSUME FramesAssumption == IsFiniteSet(Frames) /\ Root \in Frames
ASSUME BlocksAssumption == MaxBlocks \in Nat

VARIABLES
  st,          \* st[f]: where frame f is
  handles,     \* the owning objects: [kind, in, of], in the frame that holds them
  parent,      \* promise.parent: {} or the one frame to resume
  stack,       \* frames with control, the innermost last
  pending,     \* frames the ring will resume
  blocks,      \* suspensions so far
  lost,        \* history: frames whose handle was taken or overwritten
  abandoned,   \* history: frames destroyed under a JoinHandle before they were done
  root_threw,  \* the root ended with an exception
  ended,       \* block_on has returned or thrown
  crashed      \* "no", "terminate", or "uaf": a destroyed frame was resumed

vars == <<st, handles, parent, stack, pending, blocks, lost, abandoned, root_threw,
          ended, crashed>>

Kinds == {"task", "join", "await"}
Handle(kind, g, f) == [kind |-> kind, in |-> g, of |-> f]

\* Frames, handles, stack and ring are well formed, and the ring knows every frame
\* that waits for something outside.
TypeOK ==
  /\ st \in [Frames -> {"none", "new", "running", "blocked", "waiting", "accepting",
                        "final", "dead"}]
  /\ handles \subseteq [kind : Kinds, in : Frames, of : Frames]
  /\ parent \in [Frames -> SUBSET Frames]
  /\ stack \in Seq(Frames)
  /\ pending \subseteq Frames
  /\ \A f \in Frames : st[f] = "blocked" => f \in pending
  /\ blocks \in [Frames -> 0..MaxBlocks]
  /\ lost \subseteq Frames /\ abandoned \subseteq Frames
  /\ root_threw \in BOOLEAN /\ ended \in BOOLEAN
  /\ crashed \in {"no", "terminate", "uaf"}

\* block_on has taken the handle of its task and resumes it.
Init ==
  /\ st = [f \in Frames |-> IF f = Root THEN "running" ELSE "none"]
  /\ handles = {}
  /\ parent = [f \in Frames |-> {}]
  /\ stack = <<Root>>
  /\ pending = {}
  /\ blocks = [f \in Frames |-> 0]
  /\ lost = {}
  /\ abandoned = {}
  /\ root_threw = FALSE
  /\ ended = FALSE
  /\ crashed = "no"

-----------------------------------------------------------------------------
Up == crashed = "no" /\ ~ended
Top(g) == Up /\ stack # <<>> /\ stack[Len(stack)] = g
Below == SubSeq(stack, 1, Len(stack) - 1)

\* The frames destroyed with those of S: a frame takes along what its locals,
\* parameters and awaiters own.
Cascade(S) ==
  S \cup {f \in {h.of : h \in handles} : \A T \in SUBSET Frames :
    S \subseteq T /\ (\A h \in handles : h.in \in T => h.of \in T) => f \in T}

\* handle.destroy() of the frames of S, and what they own.
Destroy(new_st, S) ==
  \E dead \in {Cascade(S)} :
    /\ st' = [f \in Frames |-> IF f \in dead THEN "dead" ELSE new_st[f]]
    /\ handles' = {h \in handles : h.in \notin dead /\ h.of \notin dead}

Unfinished(S) == {f \in S : st[f] \in {"running", "blocked", "waiting"}}

-----------------------------------------------------------------------------
(* What the coroutine on top of the stack may do.                           *)

\* Call a coroutine function: a new frame, suspended at once, in a Task of g.
Create(g, f) ==
  /\ Top(g)
  /\ st[f] = "none"
  /\ st' = [st EXCEPT ![f] = "new"]
  /\ handles' = handles \cup {Handle("task", g, f)}
  /\ UNCHANGED <<parent, stack, pending, blocks, lost, abandoned, root_threw, ended, crashed>>

\* Bug: the awaiter copies the handle and the Task keeps it.
AwaitTaskCopies(g, f) ==
  /\ Top(g)
  /\ Handle("task", g, f) \in handles
  /\ handles' = handles \cup {Handle("await", g, f)}
  /\ parent' = [parent EXCEPT ![f] = {g}]
  /\ st' = [st EXCEPT ![g] = "waiting", ![f] = "running"]
  /\ stack' = Append(Below, f)
  /\ UNCHANGED <<pending, blocks, lost, abandoned, root_threw, ended, crashed>>

\* co_await of a Task: the awaiter takes the handle, and control goes over to it.
AwaitTask(g, f) ==
  /\ Top(g)
  /\ Handle("task", g, f) \in handles
  /\ handles' = (handles \ {Handle("task", g, f)}) \cup {Handle("await", g, f)}
  /\ parent' = [parent EXCEPT ![f] = {g}]
  /\ st' = [st EXCEPT ![g] = "waiting", ![f] = "running"]
  /\ stack' = Append(Below, f)
  /\ UNCHANGED <<pending, blocks, lost, abandoned, root_threw, ended, crashed>>

\* io::spawn: f runs on top of g until it suspends; the JoinHandle is g's.
Spawn(g, f) ==
  /\ Top(g)
  /\ Handle("task", g, f) \in handles
  /\ handles' = (handles \ {Handle("task", g, f)}) \cup {Handle("join", g, f)}
  /\ st' = [st EXCEPT ![f] = "running"]
  /\ stack' = Append(stack, f)
  /\ UNCHANGED <<parent, pending, blocks, lost, abandoned, root_threw, ended, crashed>>

\* Bug: await_ready does not ask whether the coroutine is done.
JoinAny(g, f) ==
  /\ Top(g)
  /\ Handle("join", g, f) \in handles
  /\ Destroy(st, {f})
  /\ UNCHANGED <<parent, stack, pending, blocks, lost, abandoned, root_threw, ended, crashed>>

\* co_await of a JoinHandle whose coroutine is done: the value is taken and the
\* awaiter destroys the frame.
JoinDone(g, f) ==
  /\ Top(g)
  /\ Handle("join", g, f) \in handles
  /\ st[f] = "final"
  /\ Destroy(st, {f})
  /\ UNCHANGED <<parent, stack, pending, blocks, lost, abandoned, root_threw, ended, crashed>>

\* Bug: the awaiter does not tell the promise who waits.
JoinWaitUntold(g, f) ==
  /\ Top(g)
  /\ Handle("join", g, f) \in handles
  /\ st[f] # "final"
  /\ handles' = (handles \ {Handle("join", g, f)}) \cup {Handle("await", g, f)}
  /\ st' = [st EXCEPT ![g] = "waiting"]
  /\ stack' = Below
  /\ UNCHANGED <<parent, pending, blocks, lost, abandoned, root_threw, ended, crashed>>

\* Bug: operator co_await lends the handle and the JoinHandle stays the owner.
JoinWaitLends(g, f) ==
  /\ Top(g)
  /\ Handle("join", g, f) \in handles
  /\ st[f] # "final"
  /\ parent' = [parent EXCEPT ![f] = {g}]
  /\ st' = [st EXCEPT ![g] = "waiting"]
  /\ stack' = Below
  /\ UNCHANGED <<handles, pending, blocks, lost, abandoned, root_threw, ended, crashed>>

\* co_await of a JoinHandle whose coroutine is not done.
JoinWait(g, f) ==
  /\ Top(g)
  /\ Handle("join", g, f) \in handles
  /\ st[f] # "final"
  /\ handles' = (handles \ {Handle("join", g, f)}) \cup {Handle("await", g, f)}
  /\ parent' = [parent EXCEPT ![f] = {g}]
  /\ st' = [st EXCEPT ![g] = "waiting"]
  /\ stack' = Below
  /\ UNCHANGED <<pending, blocks, lost, abandoned, root_threw, ended, crashed>>

\* The JoinHandle of f moved into the parameters of a coroutine not yet started.
GiveJoin(g, f, k) ==
  /\ Top(g)
  /\ Handle("join", g, f) \in handles /\ Handle("task", g, k) \in handles
  /\ handles' = (handles \ {Handle("join", g, f)}) \cup {Handle("join", k, f)}
  /\ UNCHANGED <<st, parent, stack, pending, blocks, lost, abandoned, root_threw, ended, crashed>>

\* ~Task, ~JoinHandle, or an assignment over a JoinHandle.
Drop(g, f) ==
  /\ Top(g)
  /\ \E kind \in {"task", "join"} : Handle(kind, g, f) \in handles
  /\ Destroy(st, {f})
  /\ abandoned' = abandoned \cup Unfinished(Cascade({f}))
  /\ UNCHANGED <<parent, stack, pending, blocks, lost, root_threw, ended, crashed>>

\* take_handle of a JoinHandle, or an assignment over a Task, which forgets the
\* handle it had.
LetGo(g, f) ==
  /\ Top(g)
  /\ \E kind \in {"task", "join"} :
       /\ Handle(kind, g, f) \in handles
       /\ handles' = handles \ {Handle(kind, g, f)}
  /\ lost' = lost \cup {f}
  /\ UNCHANGED <<st, parent, stack, pending, blocks, abandoned, root_threw, ended, crashed>>

\* co_await of an operation, of run_in_pool or of suspend_coroutine.
Block(g) ==
  /\ Top(g)
  /\ blocks[g] < MaxBlocks
  /\ blocks' = [blocks EXCEPT ![g] = @ + 1]
  /\ st' = [st EXCEPT ![g] = "blocked"]
  /\ pending' = pending \cup {g}
  /\ stack' = Below
  /\ UNCHANGED <<handles, parent, lost, abandoned, root_threw, ended, crashed>>

\* co_return or an exception: the locals of g are destroyed, and TaskFinalAwaiter
\* goes over to the parent, whose awaiter takes the value and destroys g.
Finish(g, threw) ==
  /\ Top(g)
  /\ abandoned' = abandoned \cup Unfinished(Cascade({g}) \ {g})
  /\ root_threw' = (IF g = Root THEN threw ELSE root_threw)
  /\ IF parent[g] = {}
     THEN /\ Destroy([st EXCEPT ![g] = "final"], {h.of : h \in {k \in handles : k.in = g}})
          /\ stack' = Below
          /\ UNCHANGED crashed
     ELSE \E p \in parent[g] :
            /\ Destroy([st EXCEPT ![p] = "running"], {g})
            /\ stack' = Append(Below, p)
            /\ crashed' = IF st[p] = "waiting" THEN crashed ELSE "uaf"
  /\ UNCHANGED <<parent, pending, blocks, lost, ended>>

\* init_accept_socket: socket, bind or listen fails, and the loop terminates.
InitSocketFails == crashed' = "terminate" /\ UNCHANGED <<st, stack>>

\* prep_accept: the multishot accept is submitted; the awaiter is never resumed.
PrepAccept(g) ==
  st' = [st EXCEPT ![g] = "accepting"] /\ stack' = Below /\ UNCHANGED crashed

\* co_await run_accept_loop in the root.
Listen(g) ==
  /\ Top(g)
  /\ g = Root
  /\ InitSocketFails \/ PrepAccept(g)
  /\ UNCHANGED <<handles, parent, pending, blocks, lost, abandoned, root_threw, ended>>

-----------------------------------------------------------------------------
(* block_on and the ring.                                                   *)

Idle == Up /\ stack = <<>>

\* run_one resumes a frame by its address, alive or not.
Resume(f) ==
  /\ Idle
  /\ f \in pending
  /\ pending' = pending \ {f}
  /\ IF st[f] = "blocked"
     THEN st' = [st EXCEPT ![f] = "running"] /\ stack' = <<f>> /\ UNCHANGED crashed
     ELSE crashed' = "uaf" /\ UNCHANGED <<st, stack>>
  /\ UNCHANGED <<handles, parent, blocks, lost, abandoned, root_threw, ended>>

\* A connection, or an accept that failed or will not be repeated.  The handler is
\* spawned and its handle taken.
Accept(f) ==
  /\ Idle
  /\ st[Root] = "accepting"
  /\ st[f] = "none"
  /\ \/ /\ st' = [st EXCEPT ![f] = "running"]
        /\ stack' = <<f>>
        /\ lost' = lost \cup {f}
        /\ UNCHANGED crashed
     \/ crashed' = "terminate" /\ UNCHANGED <<st, stack, lost>>
  /\ UNCHANGED <<handles, parent, pending, blocks, abandoned, root_threw, ended>>

\* block_on finds its coroutine done.  An exception leaves block_on from
\* get_value, ahead of handle.destroy().
BlockOnEnds ==
  /\ Idle
  /\ st[Root] = "final"
  /\ ended' = TRUE
  /\ IF root_threw THEN UNCHANGED <<st, handles>> ELSE Destroy(st, {Root})
  /\ UNCHANGED <<parent, stack, pending, blocks, lost, abandoned, root_threw, crashed>>

-----------------------------------------------------------------------------
Step(g) ==
  \/ \E f \in Frames : \/ Create(g, f) \/ AwaitTask(g, f) \/ Spawn(g, f)
                       \/ JoinDone(g, f) \/ JoinWait(g, f) \/ Drop(g, f) \/ LetGo(g, f)
  \/ \E f, k \in Frames : GiveJoin(g, f, k)
  \/ Block(g) \/ Listen(g)
  \/ \E threw \in BOOLEAN : Finish(g, threw)

Next ==
  \/ \E g \in Frames : Step(g)
  \/ \E f \in Frames : Resume(f) \/ Accept(f)
  \/ BlockOnEnds

Spec == Init /\ [][Next]_vars

\* A coroutine that keeps control ends some time, and what a coroutine waits for
\* outside comes.
Fairness ==
  /\ WF_vars(\E g \in Frames, threw \in BOOLEAN : Finish(g, threw))
  /\ WF_vars(\E f \in Frames : Resume(f))

FairSpec == Spec /\ Fairness

-----------------------------------------------------------------------------
(* Properties *)

Alive(f) == st[f] \notin {"none", "dead"}

\* A frame is destroyed by exactly one object: no two Tasks, JoinHandles or awaiters
\* own the same frame, none owns, or is held by, a frame already destroyed, and a
\* frame that nobody owns was let go by hand (take_handle, as the accept loop
\* does, or the assignment of a Task) or is the root, which block_on owns.
SingleOwner ==
  /\ TypeOK
  /\ \A h \in handles :
       /\ Alive(h.in) /\ Alive(h.of)
       /\ \A k \in handles : k.of = h.of => k = h
  /\ \A f \in Frames : Alive(f) /\ (\A h \in handles : h.of # f) => f \in lost \cup {Root}

\* Who a finished coroutine hands control to is alive and suspended at the very
\* co_await that owns it, whatever was dropped or destroyed in the meantime; and
\* no coroutine is destroyed while it has control or has spawned one that has.
ParentWaits ==
  /\ \A f \in Frames : Alive(f) => \A p \in parent[f] :
       st[p] = "waiting" /\ Handle("await", p, f) \in handles
  /\ \A i \in DOMAIN stack : st[stack[i]] = "running"

\* The ring holds the address of a destroyed frame only if a JoinHandle was
\* destroyed or overwritten before its coroutine was done: Tasks, awaiters and
\* joined coroutines never leave one behind.
DanglingAbandoned == \A f \in pending : st[f] = "dead" => f \in abandoned

\* co_await comes back: the coroutine that awaits a Task or a JoinHandle goes on
\* once what it waits for outside has come, unless block_on ends first or an
\* abandoned frame is resumed.
AwaitReturns ==
  \A g \in Frames : st[g] = "waiting" ~> st[g] # "waiting" \/ ended \/ crashed # "no"
=============================================================================
