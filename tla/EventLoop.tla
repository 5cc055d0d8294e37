----------------------------- MODULE EventLoop -----------------------------
(***************************************************************************)
(* The timer loop of the JavaScript runtime (ppnt-jr): EventLoop with its  *)
(* heap of deadlines and its map of live timers, driven by                 *)
(* Runtime::execute_script and by setTimeout, setInterval, clearTimeout    *)
(* and cppDelay called from scripts and from the callbacks themselves.     *)
(* A deadline is a 64-bit count of nanoseconds and a delay a 64-bit count  *)
(* of milliseconds; the sums and products that leave that range wrap.      *)
(***************************************************************************)
EXTENDS Integers, FiniteSets

CONSTANTS
  Delays,       \* delays a script asks for; anything but a number counts as 0
  NotANumber,   \* an argument that is no number
  LongMax,      \* the largest long, 2^63 - 1 in the code
  NsPerMs,      \* 1000000 in the code
  MaxId,        \* bound: timers created in a run
  MaxTime       \* bound: the clock stops here

ASSUME DelaysAssumption == Delays \subseteq Int
ASSUME NotANumberAssumption == NotANumber \notin Delays
ASSUME WidthAssumption == LongMax \in Nat \ {0} /\ NsPerMs \in Nat \ {0}
ASSUME BoundsAssumption == MaxId \in Nat /\ MaxTime \in 0..LongMax

VARIABLES
  clock,        \* steady_clock::now()
  next_id_,     \* EventLoop::next_id_
  timer_heap_,  \* the keys [deadline, id] in the heap
  timer_map_,   \* id |-> [is_interval, interval_ms]
  pc,           \* what the thread of the isolate is doing
  looping,      \* run_until_empty is under way
  now,          \* tick: the local of that name, 0 outside of tick
  key,          \* tick: the key whose callback runs, or NoKey
  due,          \* history: id of a live timer |-> the true moment of its next call
  cancelled,    \* history: ids cancelled by clearTimeout or clear_all
  last          \* history: the greatest deadline that was met

vars == <<clock, next_id_, timer_heap_, timer_map_, pc, looping, now, key, due,
          cancelled, last>>

Max2(a, b) == IF a > b THEN a ELSE b

Min2(a, b) == IF a < b THEN a ELSE b

Long == (-LongMax - 1)..LongMax

\* The value a 64-bit result has after it overflowed (undefined in C++; the
\* instructions the build uses wrap).
Wrap(n) == IF n \in Long THEN n
           ELSE ((n + LongMax + 1) % (2 * LongMax + 2)) - LongMax - 1

\* t + std::chrono::milliseconds(ms), for a t in nanoseconds.
PlusMs(t, ms) == Wrap(t + Wrap(ms * NsPerMs))

\* The same moment without overflow; Beyond stands for every moment that
\* steady_clock cannot express.
Beyond == LongMax + 1
TruePlusMs(t, ms) == Min2(Beyond, t + ms * NsPerMs)

Ids == 1..MaxId
Keys == [deadline : Long, id : Ids]
NoKey == [deadline |-> 0, id |-> 0]

Without(f, i) == [j \in DOMAIN f \ {i} |-> f[j]]
With(f, i, v) == [j \in DOMAIN f \cup {i} |-> IF j = i THEN v ELSE f[j]]

\* The members of EventLoop and the locals of tick are well formed; an interval
\* is never shorter than a millisecond.
TypeOK ==
  /\ clock \in 0..MaxTime
  /\ next_id_ \in 1..(MaxId + 1)
  /\ timer_heap_ \subseteq Keys
  /\ DOMAIN timer_map_ \subseteq 1..(next_id_ - 1)
  /\ \A i \in DOMAIN timer_map_ :
       /\ timer_map_[i].is_interval \in BOOLEAN
       /\ timer_map_[i].interval_ms \in 0..LongMax
       /\ timer_map_[i].is_interval => timer_map_[i].interval_ms >= 1
  /\ pc \in {"idle", "script", "top", "tick", "callback", "wait"}
  /\ looping \in BOOLEAN
  /\ now \in 0..MaxTime
  /\ key \in Keys \cup {NoKey}
  /\ DOMAIN due = DOMAIN timer_map_
  /\ \A i \in DOMAIN due : due[i] \in 0..Beyond
  /\ cancelled \subseteq Ids
  /\ last \in 0..LongMax

Init ==
  /\ clock = 0
  /\ next_id_ = 1
  /\ timer_heap_ = {}
  /\ timer_map_ = [i \in {} |-> NoKey]
  /\ pc = "idle"
  /\ looping = FALSE
  /\ now = 0
  /\ key = NoKey
  /\ due = [i \in {} |-> 0]
  /\ cancelled = {}
  /\ last = 0

-----------------------------------------------------------------------------
(* What JavaScript can call, from a script, a callback or a microtask.      *)

InJs == pc \in {"script", "callback"}

\* parse_delay: what is out of the range of long, Infinity for one, is clamped.
ParseDelay(arg) == IF arg = NotANumber THEN 0
                   ELSE Max2(-LongMax - 1, Min2(LongMax, arg))

NormalizeDelay(d) == Max2(0, d)

\* schedule_js and schedule_task, which differ in what they will call.
Schedule(d, interval) ==
  LET deadline == PlusMs(clock, NormalizeDelay(d))
  IN  /\ InJs
      /\ next_id_ <= MaxId
      /\ next_id_' = next_id_ + 1
      /\ timer_heap_' = timer_heap_ \cup {[deadline |-> deadline, id |-> next_id_]}
      /\ timer_map_' = With(timer_map_, next_id_,
                            [is_interval |-> interval,
                             interval_ms |-> IF interval THEN Max2(1, NormalizeDelay(d))
                                                         ELSE NormalizeDelay(d)])
      /\ due' = With(due, next_id_, TruePlusMs(clock, NormalizeDelay(d)))
      /\ UNCHANGED <<clock, pc, looping, now, key, cancelled, last>>

JsSetTimeout(arg) == Schedule(ParseDelay(arg), FALSE)

\* set_interval raises the first delay to a millisecond too.
JsSetInterval(arg) == Schedule(Max2(1, ParseDelay(arg)), TRUE)

\* cppDelay: a promise settled by a native one-shot task.
JsCppDelay(arg) == Schedule(ParseDelay(arg), FALSE)

\* clearTimeout and clearInterval, of any number: the key stays in the heap.
JsClearTimer(i) ==
  /\ InJs
  /\ timer_map_' = Without(timer_map_, i)
  /\ due' = Without(due, i)
  /\ cancelled' = IF i \in DOMAIN timer_map_ THEN cancelled \cup {i} ELSE cancelled
  /\ UNCHANGED <<clock, next_id_, timer_heap_, pc, looping, now, key, last>>

-----------------------------------------------------------------------------
(* Runtime.                                                                 *)

loopvars == <<clock, next_id_, timer_heap_, timer_map_, now, key, due,
              cancelled, last>>

ExecuteScript ==
  /\ pc = "idle"
  /\ pc' = "script"
  /\ UNCHANGED <<loopvars, looping>>

\* The script ends: an error or wait_loop = false returns at once, else
\* run_until_empty.
EndScript(wait_loop) ==
  /\ pc = "script"
  /\ pc' = IF wait_loop THEN "top" ELSE "idle"
  /\ looping' = wait_loop
  /\ UNCHANGED loopvars

RunOnce ==
  /\ pc = "idle"
  /\ pc' = "top"
  /\ looping' = FALSE
  /\ UNCHANGED loopvars

\* reset_context, through clear_all: the numbering goes on.
ResetContext ==
  /\ pc = "idle"
  /\ timer_map_' = [i \in {} |-> NoKey]
  /\ due' = [i \in {} |-> 0]
  /\ timer_heap_' = {}
  /\ cancelled' = cancelled \cup DOMAIN timer_map_
  /\ UNCHANGED <<clock, next_id_, pc, looping, now, key, last>>

-----------------------------------------------------------------------------
(* tick and wait_for_next.                                                  *)

\* The heap's top; among equal deadlines any of them.
IsTop(k) == k \in timer_heap_ /\ \A j \in timer_heap_ : k.deadline <= j.deadline

TickStart ==
  /\ pc = "top"
  /\ now' = clock
  /\ pc' = "tick"
  /\ UNCHANGED <<clock, next_id_, timer_heap_, timer_map_, looping, key, due,
                 cancelled, last>>

\* tick returns whether there is more to wait for.
Return(more) ==
  /\ looping' = (more /\ looping)
  /\ pc' = IF more /\ looping THEN "wait" ELSE "idle"
  /\ now' = 0
  /\ UNCHANGED <<clock, next_id_, timer_heap_, timer_map_, key, due, cancelled, last>>

TickReturn ==
  /\ pc = "tick"
  /\ \/ timer_heap_ = {} /\ Return(DOMAIN timer_map_ # {})
     \/ \E k \in timer_heap_ : IsTop(k) /\ k.deadline > now /\ Return(TRUE)

\* The key of a timer that was cancelled.
TickSkip ==
  /\ pc = "tick"
  /\ \E k \in timer_heap_ :
       /\ IsTop(k) /\ k.deadline <= now
       /\ k.id \notin DOMAIN timer_map_
       /\ timer_heap_' = timer_heap_ \ {k}
  /\ UNCHANGED <<clock, next_id_, timer_map_, pc, looping, now, key, due,
                 cancelled, last>>

\* The deadline of timer i is on the clock: it was computed without overflow.
OnClock(i) == due[i] <= LongMax

LastAfter(k) == IF OnClock(k.id) THEN Max2(last, k.deadline) ELSE last

\* Bug: a one-shot timer stays in the map.
FireKeep(k) ==
  /\ timer_heap_' = timer_heap_ \ {k}
  /\ key' = k
  /\ pc' = "callback"
  /\ last' = LastAfter(k)
  /\ UNCHANGED <<clock, next_id_, timer_map_, looping, now, due, cancelled>>

\* A one-shot timer leaves the map before its callback is called.
Fire(k) ==
  /\ timer_heap_' = timer_heap_ \ {k}
  /\ IF timer_map_[k.id].is_interval THEN UNCHANGED <<timer_map_, due>>
     ELSE timer_map_' = Without(timer_map_, k.id) /\ due' = Without(due, k.id)
  /\ key' = k
  /\ pc' = "callback"
  /\ last' = LastAfter(k)
  /\ UNCHANGED <<clock, next_id_, looping, now, cancelled>>

\* Bug: the latest deadline first.
TickFireNewest ==
  /\ pc = "tick"
  /\ \E k \in timer_heap_ :
       /\ \A j \in timer_heap_ : j.deadline <= now => k.deadline >= j.deadline
       /\ k.deadline <= now
       /\ k.id \in DOMAIN timer_map_
       /\ Fire(k)

TickFire ==
  /\ pc = "tick"
  /\ \E k \in timer_heap_ :
       /\ IsTop(k) /\ k.deadline <= now
       /\ k.id \in DOMAIN timer_map_
       /\ Fire(k)

\* Bugs: a finished interval is not queued again, is queued with its old deadline,
\* or is put back whatever its callback did.
EndCallbackOnce ==
  /\ pc = "callback"
  /\ pc' = "tick"
  /\ key' = NoKey
  /\ UNCHANGED <<clock, next_id_, timer_heap_, timer_map_, looping, now, due,
                 cancelled, last>>

EndCallbackSame ==
  /\ pc = "callback"
  /\ pc' = "tick"
  /\ timer_heap_' = IF key.id \in DOMAIN timer_map_ THEN timer_heap_ \cup {key}
                                                   ELSE timer_heap_
  /\ key' = NoKey
  /\ UNCHANGED <<clock, next_id_, timer_map_, looping, now, due, cancelled, last>>

EndCallbackRevive ==
  /\ pc = "callback"
  /\ pc' = "tick"
  /\ LET k == [key EXCEPT !.deadline = PlusMs(@, 1)]
     IN  /\ timer_heap_' = timer_heap_ \cup {k}
         /\ timer_map_' = With(timer_map_, key.id, [is_interval |-> TRUE, interval_ms |-> 1])
         /\ due' = With(due, key.id, TruePlusMs(Max2(0, key.deadline), 1))
  /\ key' = NoKey
  /\ UNCHANGED <<clock, next_id_, looping, now, cancelled, last>>

\* After the callback and its microtasks: an interval that is still in the map
\* is due again one interval after the deadline it missed or met.
EndCallback ==
  /\ pc = "callback"
  /\ pc' = "tick"
  /\ IF key.id \in DOMAIN timer_map_
     THEN LET ms == timer_map_[key.id].interval_ms
          IN  /\ timer_heap_' = timer_heap_ \cup {[key EXCEPT !.deadline = PlusMs(@, ms)]}
              /\ due' = [due EXCEPT ![key.id] = TruePlusMs(@, ms)]
     ELSE UNCHANGED <<timer_heap_, due>>
  /\ key' = NoKey
  /\ UNCHANGED <<clock, next_id_, timer_map_, looping, now, cancelled, last>>

\* sleep_for returns at the deadline or later.
WaitForNext ==
  /\ pc = "wait"
  /\ IF timer_heap_ = {} THEN UNCHANGED clock
     ELSE \E k \in timer_heap_ : IsTop(k) /\ k.deadline <= MaxTime
                                 /\ clock' = Max2(clock, k.deadline)
  /\ pc' = "top"
  /\ UNCHANGED <<next_id_, timer_heap_, timer_map_, looping, now, key, due,
                 cancelled, last>>

\* Time passes, while scripts and callbacks run and between any two steps.
Advance ==
  /\ clock < MaxTime
  /\ clock' = clock + 1
  /\ UNCHANGED <<next_id_, timer_heap_, timer_map_, pc, looping, now, key, due,
                 cancelled, last>>

-----------------------------------------------------------------------------
Js ==
  \/ \E arg \in Delays \cup {NotANumber} :
       JsSetTimeout(arg) \/ JsSetInterval(arg) \/ JsCppDelay(arg)
  \/ \E i \in Ids : JsClearTimer(i)

RunUntilEmpty ==
  TickStart \/ TickReturn \/ TickSkip \/ TickFire \/ EndCallback \/ WaitForNext

Next ==
  \/ Js
  \/ RunUntilEmpty
  \/ ExecuteScript \/ RunOnce \/ ResetContext
  \/ \E wait_loop \in BOOLEAN : EndScript(wait_loop)
  \/ Advance

Spec == Init /\ [][Next]_vars

\* The thread runs, and a callback returns.
Fairness == WF_vars(RunUntilEmpty)

FairSpec == Spec /\ Fairness

-----------------------------------------------------------------------------
(* Properties *)

\* Every live timer has exactly one key in the heap, the running interval none:
\* with no key it would never be called and run_until_empty would spin for ever,
\* with two it would be called twice as often.
KeyPerTimer ==
  /\ TypeOK
  /\ \A i \in DOMAIN timer_map_ :
       Cardinality({k \in timer_heap_ : k.id = i}) =
         IF pc = "callback" /\ key.id = i THEN 0 ELSE 1

\* A callback is called: the steps in which one starts.
Calls(i) == pc # "callback" /\ pc' = "callback" /\ key'.id = i

\* A timer cleared by clearTimeout, clearInterval or reset_context is never called
\* again, even when its own callback clears it or its key is still in the heap.
ClearIsFinal == [][\A i \in Ids : Calls(i) => i \notin cancelled]_vars

\* Timers whose deadline steady_clock can express are called in the order of
\* their deadlines, over all ticks: one set by a callback never overtakes one
\* that was due before, and none is called before its delay, or the next multiple
\* of its interval, has passed.  The timers beyond the clock's range, called at
\* once where the sum wraps (setTimeout(f, Infinity)), do not disturb that order.
DeadlineOrder ==
  [][\A i \in Ids : Calls(i) /\ OnClock(i) => key'.deadline >= last /\ due[i] <= clock]_vars

\* A tick ends: a loop with late intervals and callbacks that set timers returns
\* to its caller, unless an interval leaves the range of the clock: its deadline
\* then moves back or stands still, and it is due again in the same tick.
TickEnds ==
  pc = "tick" ~>
    \/ pc \in {"wait", "idle"}
    \/ \E i \in DOMAIN timer_map_ : timer_map_[i].is_interval /\ ~OnClock(i)

\* Without intervals run_until_empty returns, cancelled timers or not (within the
\* bound of the clock).
LoopReturns ==
  (pc = "top" /\ \A i \in DOMAIN timer_map_ : ~timer_map_[i].is_interval)
    ~> \/ pc = "idle"
       \/ \E i \in DOMAIN timer_map_ : timer_map_[i].is_interval
       \/ \E k \in timer_heap_ : k.deadline > MaxTime
=============================================================================
