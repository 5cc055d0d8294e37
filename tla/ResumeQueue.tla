---------------------------- MODULE ResumeQueue ----------------------------
(***************************************************************************)
(* What Ring::post promises its callers (ppnt-io): a coroutine handle      *)
(* handed over by any thread is resumed by the loop thread exactly once,   *)
(* in the order of the hand-overs, as long as block_on has not returned.   *)
(* RingWakeup implements it with a mutex, an atomic flag and an eventfd.   *)
(***************************************************************************)
EXTENDS Sequences

CONSTANT Handles      \* the coroutine handles of the program

VARIABLES
  pending,            \* handles handed over and not yet resumed, oldest first
  closed              \* block_on has returned, nothing is resumed any more

qvars == <<pending, closed>>

Init ==
  /\ pending = <<>>
  /\ closed = FALSE

\* A thread hands over a suspended coroutine.  One that is already queued is
\* suspended at one point only, so a second hand-over would resume it twice.
Post(h) ==
  /\ \A i \in DOMAIN pending : pending[i] # h
  /\ pending' = Append(pending, h)
  /\ UNCHANGED closed

\* The loop thread resumes the oldest handle.
Resume ==
  /\ ~closed
  /\ pending # <<>>
  /\ pending' = Tail(pending)
  /\ UNCHANGED closed

\* block_on returns: the root coroutine is done.
Close ==
  /\ ~closed
  /\ closed' = TRUE
  /\ UNCHANGED pending

Next == Resume \/ Close \/ \E h \in Handles : Post(h)

\* Resuming is not optional: the loop thread keeps running while anything is
\* pending, until it closes.
Spec == Init /\ [][Next]_qvars /\ WF_qvars(Resume)
=============================================================================
