--------------------------- MODULE EventLoopProofs ---------------------------
(***************************************************************************)
(* TLAPS proofs about the timers of EventLoop, for every set of delays and *)
(* every bound on the number of timers and on the clock.                   *)
(***************************************************************************)
EXTENDS EventLoop, FiniteSetTheorems, TLAPS

\* A timer has one key at most; the key of a live timer on the clock holds the
\* moment it is due, which is not before the last deadline met.
HeapInv ==
  /\ \A j, k \in timer_heap_ : j.id = k.id => j = k
  /\ \A k \in timer_heap_ :
       /\ k.id < next_id_
       /\ k.id \in DOMAIN due /\ OnClock(k.id) => due[k.id] = k.deadline /\ last <= k.deadline

\* A live timer is in the heap or its callback is running; a cancelled one is
\* not live, and the numbers of timers to come are not cancelled yet.
MapInv ==
  /\ \A i \in DOMAIN timer_map_ :
       \/ pc = "callback" /\ key.id = i
       \/ \E k \in timer_heap_ : k.id = i
  /\ \A i \in cancelled : i \notin DOMAIN timer_map_ /\ i < next_id_

\* The timer whose callback runs has no key; if its deadline is on the clock it is
\* the one met last.
CallbackInv ==
  pc = "callback" =>
    /\ key \in Keys /\ key.id < next_id_
    /\ \A k \in timer_heap_ : k.id # key.id
    /\ key.id \in DOMAIN due /\ OnClock(key.id) => due[key.id] = key.deadline /\ last = key.deadline

\* No deadline was met before its time, and now is a reading of the clock.
ClockInv == last <= clock /\ now <= clock

TimerInv == TypeOK /\ HeapInv /\ MapInv /\ CallbackInv /\ ClockInv

-----------------------------------------------------------------------------
(* The 64-bit arithmetic of deadlines.                                      *)

\* A wrapped result is in the range of long, and one that fits is not changed.
LEMMA WrapInLong ==
  ASSUME NEW n \in Int
  PROVE  Wrap(n) \in Long /\ (n \in Long => Wrap(n) = n)
<1>1. PICK m \in Nat : m = 2 * LongMax + 2 /\ m > 0
  BY WidthAssumption
<1>2. \A x \in Int : x % m \in 0 .. m - 1
  BY <1>1
<1>3. (n + LongMax + 1) % m \in 0 .. m - 1
  BY <1>2, WidthAssumption
<1> QED BY <1>1, <1>3, WidthAssumption DEF Wrap, Long

\* A delay in nanoseconds is not negative.
LEMMA ProductNat ==
  ASSUME NEW ms \in Nat
  PROVE  ms * NsPerMs \in Nat
BY WidthAssumption

\* PlusMs stays in the range of long, and is exact whenever the true moment is on
\* the clock.
LEMMA PlusMsExact ==
  ASSUME NEW t \in Long, NEW ms \in Nat
  PROVE  /\ PlusMs(t, ms) \in Long
         /\ t >= 0 => /\ TruePlusMs(t, ms) \in 0 .. Beyond
                      /\ TruePlusMs(t, ms) <= LongMax =>
                           PlusMs(t, ms) = TruePlusMs(t, ms) /\ t <= PlusMs(t, ms)
<1>1. PICK p \in Nat : p = ms * NsPerMs
  BY ProductNat
<1>2. PICK w \in Long : w = Wrap(p) /\ (p \in Long => w = p)
  BY WrapInLong
<1>3. t \in Int /\ w \in Int /\ LongMax \in Nat
  BY WidthAssumption DEF Long
<1>4. PICK v \in Long : v = Wrap(t + w) /\ (t + w \in Long => v = t + w)
  <2>1. PICK u \in Int : u = t + w
    BY <1>3
  <2>2. Wrap(u) \in Long /\ (u \in Long => Wrap(u) = u)
    BY <2>1, WrapInLong
  <2> QED BY Zenon, <2>1, <2>2
<1>5. PlusMs(t, ms) = v /\ TruePlusMs(t, ms) = Min2(Beyond, t + p)
  BY <1>1, <1>2, <1>4 DEF PlusMs, TruePlusMs
<1> QED BY <1>1, <1>2, <1>3, <1>4, <1>5 DEF Min2, Beyond, Long

\* The true moment of a timer beyond the clock stays there.
LEMMA BeyondStays ==
  ASSUME NEW t \in 0 .. Beyond, NEW ms \in Nat
  PROVE  TruePlusMs(t, ms) \in 0 .. Beyond /\ (TruePlusMs(t, ms) <= LongMax => t <= LongMax)
<1>1. PICK p \in Nat : p = ms * NsPerMs
  BY ProductNat
<1> QED BY <1>1, WidthAssumption DEF TruePlusMs, Min2, Beyond

-----------------------------------------------------------------------------
(* The invariant.                                                           *)

\* The invariant holds in a new EventLoop.
LEMMA TimerInit == Init => TimerInv
<1> SUFFICES ASSUME Init PROVE TimerInv
  OBVIOUS
<1>1. TypeOK
  <2>1. looping \in BOOLEAN BY Zenon DEF Init
  <2> QED BY <2>1, BoundsAssumption, WidthAssumption DEF Init, TypeOK, NoKey
<1>2. HeapInv /\ MapInv /\ CallbackInv /\ ClockInv
  BY DEF Init, HeapInv, MapInv, CallbackInv, ClockInv
<1> QED BY <1>1, <1>2 DEF TimerInv

\* What removing an entry of timer_map_ does.
LEMMA WithoutEntry ==
  ASSUME NEW f, NEW i
  PROVE  /\ DOMAIN Without(f, i) = DOMAIN f \ {i}
         /\ \A j \in DOMAIN f \ {i} : Without(f, i)[j] = f[j]
BY DEF Without

\* schedule_js and schedule_task: the new number is in no structure yet, and its
\* deadline, if it is on the clock, is not before the clock.
LEMMA TimerSchedule ==
  ASSUME TimerInv, NEW d \in Long, NEW interval \in BOOLEAN, Schedule(d, interval)
  PROVE  TimerInv'
<1>1. PICK n : n = next_id_
  OBVIOUS
<1>2. /\ n \in Nat /\ 1 <= n /\ n <= MaxId /\ next_id_' = n + 1 /\ MaxId \in Nat
      /\ UNCHANGED <<clock, pc, looping, now, key, cancelled, last>>
  BY <1>1, BoundsAssumption DEF Schedule, TimerInv, TypeOK
<1>3. PICK nd \in 0 .. LongMax : nd = NormalizeDelay(d)
  BY WidthAssumption DEF NormalizeDelay, Max2, Long
<1>4. PICK ms \in 0 .. LongMax :
        /\ ms = IF interval THEN Max2(1, NormalizeDelay(d)) ELSE NormalizeDelay(d)
        /\ interval => ms >= 1
  BY <1>3, WidthAssumption DEF Max2
<1>5. PICK t : t = [is_interval |-> interval, interval_ms |-> ms]
  BY Zenon
<1>6. PICK dl \in Long, td \in 0 .. Beyond :
        /\ dl = PlusMs(clock, nd) /\ td = TruePlusMs(clock, nd)
        /\ td <= LongMax => td = dl /\ last <= dl
  <2>1. clock \in Long /\ clock >= 0 /\ last <= clock /\ last \in Int /\ nd \in Nat
    BY BoundsAssumption, WidthAssumption DEF TimerInv, TypeOK, ClockInv, Long
  <2>2. /\ PlusMs(clock, nd) \in Long /\ TruePlusMs(clock, nd) \in 0 .. Beyond
        /\ TruePlusMs(clock, nd) <= LongMax =>
             PlusMs(clock, nd) = TruePlusMs(clock, nd) /\ clock <= PlusMs(clock, nd)
    BY <2>1, PlusMsExact
  <2> QED BY <2>1, <2>2 DEF Long
<1>7. PICK k : k = [deadline |-> dl, id |-> n]
  BY Zenon
<1>8. k \in Keys /\ k.id = n /\ k.deadline = dl /\ timer_heap_' = timer_heap_ \cup {k}
  BY <1>1, <1>2, <1>3, <1>6, <1>7 DEF Schedule, Keys, Ids
<1>9. timer_map_' = With(timer_map_, n, t) /\ due' = With(due, n, td)
  BY <1>1, <1>3, <1>4, <1>5, <1>6 DEF Schedule
<1>10. /\ DOMAIN timer_map_' = DOMAIN timer_map_ \cup {n}
       /\ timer_map_'[n] = t
       /\ \A j \in DOMAIN timer_map_ : j # n => timer_map_'[j] = timer_map_[j]
  BY <1>9 DEF With
<1>11. /\ DOMAIN due' = DOMAIN due \cup {n} /\ due'[n] = td
       /\ \A j \in DOMAIN due : j # n => due'[j] = due[j]
  BY <1>9 DEF With
<1>12. /\ DOMAIN due = DOMAIN timer_map_ /\ DOMAIN timer_map_ \subseteq 1 .. n - 1
       /\ \A j \in timer_heap_ : j.id \in 1 .. n - 1
       /\ \A i \in cancelled : i \in 1 .. n - 1
  BY <1>1 DEF TimerInv, TypeOK, HeapInv, MapInv, Keys, Ids
<1>13. TypeOK'
  <2>1. /\ DOMAIN timer_map_' \subseteq 1 .. next_id_' - 1
        /\ DOMAIN due' = DOMAIN timer_map_'
        /\ next_id_' \in 1 .. MaxId + 1
    BY <1>2, <1>10, <1>11, <1>12
  <2>2. ASSUME NEW i \in DOMAIN timer_map_'
        PROVE  /\ timer_map_'[i].is_interval \in BOOLEAN
               /\ timer_map_'[i].interval_ms \in 0 .. LongMax
               /\ timer_map_'[i].is_interval => timer_map_'[i].interval_ms >= 1
    <3>1. CASE i = n
      <4>1. timer_map_'[i].is_interval = interval /\ timer_map_'[i].interval_ms = ms
        BY <1>5, <1>10, <3>1
      <4> QED BY <1>4, <4>1
    <3>2. CASE i # n BY <1>10, <3>2 DEF TimerInv, TypeOK
    <3> QED BY <3>1, <3>2
  <2>3. timer_heap_' \subseteq Keys
    BY <1>8 DEF TimerInv, TypeOK
  <2>4. \A i \in DOMAIN due' : due'[i] \in 0 .. Beyond
    BY <1>6, <1>11 DEF TimerInv, TypeOK
  <2> QED BY <1>2, <2>1, <2>2, <2>3, <2>4 DEF TimerInv, TypeOK
<1>14. HeapInv'
  <2>1. \A i, j \in timer_heap_' : i.id = j.id => i = j
    BY <1>2, <1>8, <1>12 DEF TimerInv, HeapInv
  <2>2. ASSUME NEW j \in timer_heap_'
        PROVE  /\ j.id < next_id_'
               /\ j.id \in DOMAIN due' /\ due'[j.id] <= LongMax =>
                    due'[j.id] = j.deadline /\ last' <= j.deadline
    <3>1. CASE j = k BY <1>2, <1>6, <1>8, <1>11, <3>1
    <3>2. CASE j \in timer_heap_
      BY <1>2, <1>11, <1>12, <3>2 DEF TimerInv, HeapInv, OnClock
    <3> QED BY <1>8, <3>1, <3>2
  <2> QED BY <2>1, <2>2 DEF HeapInv, OnClock
<1>15. MapInv'
  <2>1. \A i \in cancelled' : i \notin DOMAIN timer_map_' /\ i < next_id_'
    BY <1>2, <1>10, <1>12 DEF TimerInv, MapInv
  <2>2. \A i \in DOMAIN timer_map_' :
          \/ pc' = "callback" /\ key'.id = i
          \/ \E j \in timer_heap_' : j.id = i
    BY <1>2, <1>8, <1>10 DEF TimerInv, MapInv
  <2> QED BY <2>1, <2>2 DEF MapInv
<1>16. CallbackInv'
  <2> SUFFICES ASSUME pc = "callback"
               PROVE  /\ key \in Keys /\ key.id < next_id_'
                      /\ \A j \in timer_heap_' : j.id # key.id
                      /\ key.id \in DOMAIN due' /\ due'[key.id] <= LongMax =>
                           due'[key.id] = key.deadline /\ last = key.deadline
    BY <1>2 DEF CallbackInv, OnClock
  <2>1. key \in Keys /\ key.id < n /\ key.id # n /\ \A j \in timer_heap_ : j.id # key.id
    BY <1>1, <1>2 DEF TimerInv, CallbackInv, Keys, Ids
  <2>2. key.id \in DOMAIN due /\ due[key.id] <= LongMax =>
          due[key.id] = key.deadline /\ last = key.deadline
    BY DEF TimerInv, CallbackInv, OnClock
  <2> QED BY <1>2, <1>8, <1>11, <2>1, <2>2 DEF Keys, Ids
<1>17. ClockInv'
  BY <1>2 DEF TimerInv, ClockInv
<1> QED BY <1>13, <1>14, <1>15, <1>16, <1>17 DEF TimerInv

\* clearTimeout: the key stays behind, its timer is gone.
LEMMA TimerClear ==
  ASSUME TimerInv, NEW i \in Ids, JsClearTimer(i)
  PROVE  TimerInv'
<1>1. /\ timer_map_' = Without(timer_map_, i) /\ due' = Without(due, i)
      /\ UNCHANGED <<clock, next_id_, timer_heap_, pc, looping, now, key, last>>
  BY DEF JsClearTimer
<1>2. /\ DOMAIN timer_map_' = DOMAIN timer_map_ \ {i}
      /\ \A j \in DOMAIN timer_map_' : timer_map_'[j] = timer_map_[j]
      /\ DOMAIN due' = DOMAIN due \ {i}
      /\ \A j \in DOMAIN due' : due'[j] = due[j]
  BY Zenon, <1>1, WithoutEntry
<1>3. \A j \in cancelled' : j \in cancelled \/ (j = i /\ i \in DOMAIN timer_map_)
  BY DEF JsClearTimer
<1>4. \A j \in DOMAIN timer_map_ : j < next_id_ /\ j \in Ids
  BY BoundsAssumption DEF TimerInv, TypeOK, Ids
<1>5. TypeOK'
  BY <1>1, <1>2, <1>3 DEF TimerInv, TypeOK
<1>6. HeapInv' /\ CallbackInv' /\ ClockInv'
  BY <1>1, <1>2 DEF TimerInv, HeapInv, CallbackInv, ClockInv, OnClock
<1>7. MapInv'
  BY <1>1, <1>2, <1>3, <1>4 DEF TimerInv, MapInv
<1> QED BY <1>5, <1>6, <1>7 DEF TimerInv

\* Calling a callback takes the key of its timer, the earliest of all.
LEMMA TimerFire ==
  ASSUME TimerInv, NEW k \in timer_heap_, IsTop(k), k.deadline <= now,
         k.id \in DOMAIN timer_map_, pc = "tick", Fire(k)
  PROVE  TimerInv'
<1>1. /\ timer_heap_' = timer_heap_ \ {k} /\ key' = k /\ pc' = "callback"
      /\ UNCHANGED <<clock, next_id_, looping, now, cancelled>>
  BY DEF Fire
<1>2. /\ k \in Keys /\ k.deadline \in Int /\ k.deadline <= LongMax /\ k.id < next_id_
      /\ last \in 0 .. LongMax /\ now \in Nat /\ clock \in Nat /\ LongMax \in Nat
      /\ now <= clock /\ last <= clock /\ k.id \in DOMAIN due
  BY BoundsAssumption, WidthAssumption DEF TimerInv, TypeOK, HeapInv, ClockInv, Keys, Long
<1>3. /\ OnClock(k.id) => last' = k.deadline /\ due[k.id] = k.deadline /\ last <= k.deadline
      /\ ~OnClock(k.id) => last' = last
  <2>1. OnClock(k.id) => due[k.id] = k.deadline /\ last <= k.deadline
    BY <1>2 DEF TimerInv, HeapInv
  <2> QED BY <1>2, <2>1 DEF Fire, LastAfter, Max2
<1>4. last' \in 0 .. LongMax /\ last' <= clock
  BY <1>2, <1>3
<1>5. /\ DOMAIN timer_map_' \subseteq DOMAIN timer_map_ /\ DOMAIN due' \subseteq DOMAIN due
      /\ \A j \in DOMAIN timer_map_' : timer_map_'[j] = timer_map_[j]
      /\ \A j \in DOMAIN due' : due'[j] = due[j]
      /\ DOMAIN due = DOMAIN timer_map_ => DOMAIN due' = DOMAIN timer_map_'
  <2>1. CASE timer_map_' = timer_map_ /\ due' = due
    BY Zenon, <2>1
  <2>2. CASE timer_map_' = Without(timer_map_, k.id) /\ due' = Without(due, k.id)
    <3>1. /\ DOMAIN timer_map_' = DOMAIN timer_map_ \ {k.id}
          /\ DOMAIN due' = DOMAIN due \ {k.id}
      BY Zenon, <2>2, WithoutEntry
    <3>2. /\ \A j \in DOMAIN timer_map_ \ {k.id} : timer_map_'[j] = timer_map_[j]
          /\ \A j \in DOMAIN due \ {k.id} : due'[j] = due[j]
      BY Zenon, <2>2, WithoutEntry
    <3> QED BY Zenon, <3>1, <3>2
  <2> QED BY Zenon, <2>1, <2>2 DEF Fire
<1>6. TypeOK'
  BY <1>1, <1>2, <1>4, <1>5 DEF TimerInv, TypeOK
<1>7. HeapInv'
  <2>1. ASSUME NEW j \in timer_heap_', j.id \in DOMAIN due', due'[j.id] <= LongMax
        PROVE  due'[j.id] = j.deadline /\ last' <= j.deadline
    <3>1. j \in timer_heap_ /\ j.id \in DOMAIN due /\ due'[j.id] = due[j.id]
      BY <1>1, <1>5, <2>1
    <3>2. due[j.id] = j.deadline /\ last <= j.deadline
      BY <2>1, <3>1 DEF TimerInv, HeapInv, OnClock
    <3>3. k.deadline <= j.deadline
      BY <3>1 DEF IsTop
    <3> QED BY <1>3, <3>1, <3>2, <3>3
  <2> QED BY <1>1, <2>1 DEF TimerInv, HeapInv, OnClock
<1>8. MapInv'
  BY <1>1, <1>5 DEF TimerInv, MapInv
<1>9. CallbackInv'
  <2>1. \A j \in timer_heap_' : j.id # k.id
    BY <1>1 DEF TimerInv, HeapInv
  <2> QED BY <1>1, <1>2, <1>3, <1>5, <2>1 DEF CallbackInv, OnClock
<1>10. ClockInv'
  BY <1>1, <1>2, <1>4 DEF ClockInv
<1> QED BY <1>6, <1>7, <1>8, <1>9, <1>10 DEF TimerInv

\* An interval on the clock is queued again behind every deadline that was met.
LEMMA TimerEndCallback ==
  ASSUME TimerInv, EndCallback
  PROVE  TimerInv'
<1>1. /\ pc = "callback" /\ pc' = "tick" /\ key' = NoKey
      /\ UNCHANGED <<clock, next_id_, timer_map_, looping, now, cancelled, last>>
  BY DEF EndCallback
<1>2. /\ key \in Keys /\ key.id < next_id_
      /\ \A k \in timer_heap_ : k.id # key.id
      /\ key.id \in DOMAIN due /\ due[key.id] <= LongMax =>
           due[key.id] = key.deadline /\ last = key.deadline
  BY <1>1 DEF TimerInv, CallbackInv, OnClock
<1>3. CallbackInv' /\ ClockInv'
  BY <1>1 DEF TimerInv, CallbackInv, ClockInv
<1>4. CASE key.id \notin DOMAIN timer_map_
  <2>1. UNCHANGED <<timer_heap_, due>>
    BY <1>4 DEF EndCallback
  <2>2. TypeOK' /\ HeapInv'
    BY <1>1, <2>1 DEF TimerInv, TypeOK, HeapInv, OnClock
  <2>3. MapInv'
    BY <1>1, <1>4, <2>1 DEF TimerInv, MapInv
  <2> QED BY <1>3, <2>2, <2>3 DEF TimerInv
<1>5. CASE key.id \in DOMAIN timer_map_
  <2>1. PICK ms \in Nat : ms = timer_map_[key.id].interval_ms
    BY <1>5 DEF TimerInv, TypeOK
  <2>2. key.deadline \in Long /\ key.id \in DOMAIN due /\ due[key.id] \in 0 .. Beyond
    BY <1>2, <1>5 DEF TimerInv, TypeOK, Keys
  <2>3. PICK dl \in Long : dl = PlusMs(key.deadline, ms)
    BY <2>1, <2>2, PlusMsExact
  <2>4. PICK td \in 0 .. Beyond : td = TruePlusMs(due[key.id], ms)
    BY <2>1, <2>2, BeyondStays
  <2>5. td <= LongMax => td = dl /\ last <= dl
    <3>1. td <= LongMax => due[key.id] <= LongMax
      BY Zenon, <2>1, <2>2, <2>4, BeyondStays
    <3>2. key.deadline >= 0 /\ TruePlusMs(key.deadline, ms) <= LongMax =>
            PlusMs(key.deadline, ms) = TruePlusMs(key.deadline, ms)
              /\ key.deadline <= PlusMs(key.deadline, ms)
      BY Zenon, <2>1, <2>2, PlusMsExact
    <3> QED BY <1>2, <2>2, <2>3, <2>4, <3>1, <3>2
  <2>6. PICK k : k = [key EXCEPT !.deadline = PlusMs(@, ms)]
    BY Zenon
  <2>7. k \in Keys /\ k.id = key.id /\ k.deadline = dl
    BY <1>2, <2>3, <2>6 DEF Keys
  <2>8. /\ timer_heap_' = timer_heap_ \cup {k}
        /\ due' = [due EXCEPT ![key.id] = td]
    BY <1>5, <2>1, <2>4, <2>6 DEF EndCallback
  <2>9. /\ DOMAIN due' = DOMAIN due /\ due'[key.id] = td
        /\ \A i \in DOMAIN due : i # key.id => due'[i] = due[i]
    BY <2>2, <2>8
  <2>10. TypeOK'
    <3>1. \A i \in DOMAIN due' : due'[i] \in 0 .. Beyond
      BY <2>4, <2>9 DEF TimerInv, TypeOK
    <3>2. timer_heap_' \subseteq Keys
      BY <2>7, <2>8 DEF TimerInv, TypeOK
    <3> QED BY <1>1, <2>9, <3>1, <3>2 DEF TimerInv, TypeOK
  <2>11. HeapInv'
    <3>1. \A i, j \in timer_heap_' : i.id = j.id => i = j
      BY <1>2, <2>7, <2>8 DEF TimerInv, HeapInv
    <3>2. ASSUME NEW j \in timer_heap_'
          PROVE  /\ j.id < next_id_'
                 /\ j.id \in DOMAIN due' /\ due'[j.id] <= LongMax =>
                      due'[j.id] = j.deadline /\ last' <= j.deadline
      <4>1. CASE j = k BY <1>1, <1>2, <2>5, <2>7, <2>9, <4>1
      <4>2. CASE j \in timer_heap_
        BY <1>1, <1>2, <2>9, <4>2 DEF TimerInv, HeapInv, OnClock
      <4> QED BY <2>8, <4>1, <4>2
    <3> QED BY <3>1, <3>2 DEF HeapInv, OnClock
  <2>12. MapInv'
    BY <1>1, <2>7, <2>8 DEF TimerInv, MapInv
  <2> QED BY <1>3, <2>10, <2>11, <2>12 DEF TimerInv
<1> QED BY <1>4, <1>5

\* The other steps of tick and wait_for_next, and what Runtime does between ticks.
LEMMA TimerLoop ==
  ASSUME TimerInv,
         \/ TickStart \/ TickReturn \/ TickSkip \/ WaitForNext \/ Advance
         \/ ExecuteScript \/ RunOnce \/ ResetContext
         \/ \E wait_loop \in BOOLEAN : EndScript(wait_loop)
  PROVE  TimerInv'
<1>1. CASE TickStart
  <2>1. pc = "top" /\ pc' = "tick" /\ now' = clock
    BY <1>1 DEF TickStart
  <2> QED BY <1>1, <2>1, BoundsAssumption
      DEF TickStart, TimerInv, TypeOK, HeapInv, MapInv, CallbackInv, ClockInv, OnClock
<1>2. CASE \/ TickReturn \/ ExecuteScript \/ RunOnce
           \/ \E wait_loop \in BOOLEAN : EndScript(wait_loop)
  <2>1. /\ UNCHANGED <<clock, next_id_, timer_heap_, timer_map_, key, due, cancelled, last>>
        /\ now' = now \/ now' = 0
        /\ pc # "callback" /\ pc' # "callback"
        /\ pc' \in {"idle", "script", "top", "wait"}
    BY <1>2 DEF TickReturn, Return, ExecuteScript, RunOnce, EndScript, loopvars
  <2>2. looping' \in BOOLEAN
    BY <1>2, Zenon
    DEF TickReturn, Return, ExecuteScript, RunOnce, EndScript, TimerInv, TypeOK
  <2>3. TypeOK'
    BY <2>1, <2>2, BoundsAssumption DEF TimerInv, TypeOK
  <2>4. ClockInv'
    BY <2>1, BoundsAssumption DEF TimerInv, TypeOK, ClockInv
  <2> QED
    BY <2>1, <2>3, <2>4 DEF TimerInv, HeapInv, MapInv, CallbackInv, OnClock
<1>3. CASE TickSkip
  <2>1. PICK k \in timer_heap_ :
          k.id \notin DOMAIN timer_map_ /\ timer_heap_' = timer_heap_ \ {k}
    BY <1>3 DEF TickSkip
  <2>2. /\ pc = "tick"
        /\ UNCHANGED <<clock, next_id_, timer_map_, pc, looping, now, key, due,
                       cancelled, last>>
    BY <1>3 DEF TickSkip
  <2>3. TypeOK' /\ HeapInv' /\ CallbackInv' /\ ClockInv'
    BY <2>1, <2>2 DEF TimerInv, TypeOK, HeapInv, CallbackInv, ClockInv, OnClock
  <2>4. MapInv'
    BY <2>1, <2>2 DEF TimerInv, MapInv
  <2> QED BY <2>3, <2>4 DEF TimerInv
<1>4. CASE WaitForNext
  <2>1. /\ pc = "wait" /\ pc' = "top"
        /\ UNCHANGED <<next_id_, timer_heap_, timer_map_, looping, now, key, due,
                       cancelled, last>>
    BY <1>4 DEF WaitForNext
  <2>2. clock' \in 0 .. MaxTime /\ clock <= clock'
    BY <1>4, BoundsAssumption, WidthAssumption DEF WaitForNext, Max2, TimerInv, TypeOK, Keys, Long
  <2>3. TypeOK' /\ HeapInv' /\ MapInv' /\ CallbackInv'
    BY <2>1, <2>2 DEF TimerInv, TypeOK, HeapInv, MapInv, CallbackInv, OnClock
  <2>4. ClockInv'
    BY <2>1, <2>2, BoundsAssumption, WidthAssumption DEF TimerInv, TypeOK, ClockInv
  <2> QED BY <2>3, <2>4 DEF TimerInv
<1>5. CASE Advance
  BY <1>5, BoundsAssumption, WidthAssumption
  DEF Advance, TimerInv, TypeOK, HeapInv, MapInv, CallbackInv, ClockInv, OnClock
<1>6. CASE ResetContext
  <2>1. /\ DOMAIN timer_map_' = {} /\ DOMAIN due' = {} /\ timer_heap_' = {}
        /\ pc = "idle" /\ pc' = pc
    BY <1>6 DEF ResetContext
  <2>2. \A i \in DOMAIN timer_map_ : i < next_id_ /\ i \in Ids
    BY BoundsAssumption DEF TimerInv, TypeOK, Ids
  <2> QED
    BY <1>6, <2>1, <2>2
    DEF ResetContext, TimerInv, TypeOK, HeapInv, MapInv, CallbackInv, ClockInv
<1> QED BY <1>1, <1>2, <1>3, <1>4, <1>5, <1>6

\* Every step keeps the invariant.
LEMMA TimerStep == TimerInv /\ [Next]_vars => TimerInv'
<1> SUFFICES ASSUME TimerInv, [Next]_vars PROVE TimerInv'
  OBVIOUS
<1>1. ASSUME NEW arg \in Delays \cup {NotANumber},
             JsSetTimeout(arg) \/ JsSetInterval(arg) \/ JsCppDelay(arg)
      PROVE  TimerInv'
  <2>1. ParseDelay(arg) \in Long /\ Max2(1, ParseDelay(arg)) \in Long
    BY DelaysAssumption, WidthAssumption DEF ParseDelay, Max2, Min2, Long
  <2> QED BY Zenon, <1>1, <2>1, TimerSchedule DEF JsSetTimeout, JsSetInterval, JsCppDelay
<1>2. CASE \E i \in Ids : JsClearTimer(i)
  BY <1>2, TimerClear
<1>3. CASE TickFire
  BY <1>3, TimerFire DEF TickFire
<1>4. CASE EndCallback
  BY <1>4, TimerEndCallback
<1>5. CASE UNCHANGED vars
  BY <1>5 DEF vars, TimerInv, TypeOK, HeapInv, MapInv, CallbackInv, ClockInv, OnClock
<1> QED
  BY <1>1, <1>2, <1>3, <1>4, <1>5, TimerLoop DEF Next, Js, RunUntilEmpty

\* The invariant holds in every reachable state.
LEMMA TimerInvariant == Spec => []TimerInv
BY TimerInit, TimerStep, PTL DEF Spec

-----------------------------------------------------------------------------
(* What follows from it.                                                    *)

\* Every live timer has exactly one key in the heap, the running interval none,
\* for every number of timers and every delay.
THEOREM OneKeyPerTimer == Spec => []KeyPerTimer
<1>1. ASSUME TimerInv PROVE KeyPerTimer
  <2> SUFFICES ASSUME NEW i \in DOMAIN timer_map_
               PROVE  Cardinality({k \in timer_heap_ : k.id = i}) =
                        IF pc = "callback" /\ key.id = i THEN 0 ELSE 1
    BY <1>1 DEF KeyPerTimer, TimerInv
  <2>1. CASE pc = "callback" /\ key.id = i
    <3>1. {k \in timer_heap_ : k.id = i} = {}
      BY <1>1, <2>1 DEF TimerInv, CallbackInv
    <3> QED BY <2>1, <3>1, FS_EmptySet
  <2>2. CASE ~(pc = "callback" /\ key.id = i)
    <3>1. PICK k \in timer_heap_ : k.id = i
      BY <1>1, <2>2 DEF TimerInv, MapInv
    <3>2. {j \in timer_heap_ : j.id = i} = {k}
      BY <1>1, <3>1 DEF TimerInv, HeapInv
    <3> QED BY <2>2, <3>2, FS_Singleton
  <2> QED BY <2>1, <2>2
<1> QED BY TimerInvariant, <1>1, PTL

\* The only step that calls a callback is the one in tick.
LEMMA OnlyTickCalls ==
  ASSUME NEW i, [Next]_vars, Calls(i)
  PROVE  \E k \in timer_heap_ :
           /\ k.id = i /\ k.deadline <= now /\ k.id \in DOMAIN timer_map_
           /\ key' = k
<1>1. CASE TickFire
  BY <1>1 DEF TickFire, Fire, Calls
<1>2. CASE ~TickFire
  <2>1. pc' = pc \/ pc' # "callback"
    BY Zenon, <1>2
    DEF Next, Js, JsSetTimeout, JsSetInterval, JsCppDelay, Schedule, JsClearTimer,
        RunUntilEmpty, TickStart, TickReturn, Return, TickSkip, EndCallback,
        WaitForNext, Advance, ExecuteScript, RunOnce, ResetContext, EndScript, vars
  <2> QED BY <2>1 DEF Calls
<1> QED BY <1>1, <1>2

\* A timer cleared by clearTimeout, clearInterval or reset_context is never called
\* again, for every number of timers and every delay: its key may still be in the
\* heap, but tick finds no entry for it.
THEOREM ClearedNeverCalled == Spec => ClearIsFinal
<1>1. TimerInv /\ [Next]_vars => [\A i \in Ids : Calls(i) => i \notin cancelled]_vars
  BY OnlyTickCalls DEF TimerInv, MapInv
<1> QED BY TimerInvariant, <1>1, PTL DEF Spec, ClearIsFinal

\* Timers whose deadline is on the clock are called in the order of their deadlines
\* and none too early, for every number of timers, every delay and every width of
\* long; the timers whose deadline wraps do not disturb them.
THEOREM CalledInOrder == Spec => DeadlineOrder
<1>1. TimerInv /\ [Next]_vars =>
        [\A i \in Ids : Calls(i) /\ OnClock(i) => key'.deadline >= last /\ due[i] <= clock]_vars
  <2> SUFFICES ASSUME TimerInv, [Next]_vars, NEW i \in Ids, Calls(i), OnClock(i)
               PROVE  key'.deadline >= last /\ due[i] <= clock
    OBVIOUS
  <2>1. PICK k \in timer_heap_ :
          k.id = i /\ k.deadline <= now /\ k.id \in DOMAIN timer_map_ /\ key' = k
    BY OnlyTickCalls
  <2>2. k.deadline \in Int /\ last \in Int /\ now \in Int /\ clock \in Int
    BY BoundsAssumption, WidthAssumption DEF TimerInv, TypeOK, Keys, Long
  <2>3. i \in DOMAIN due /\ due[i] = k.deadline /\ last <= k.deadline
    BY <2>1 DEF TimerInv, TypeOK, HeapInv
  <2> QED BY <2>1, <2>2, <2>3 DEF TimerInv, ClockInv
<1> QED BY TimerInvariant, <1>1, PTL DEF Spec, DeadlineOrder
=============================================================================
