-------------------------- MODULE CoroutineProofs ---------------------------
(***************************************************************************)
(* Proofs about Coroutines, for any set of frames: a frame has one owner,  *)
(* a finished coroutine hands control to one that waits for it, and the    *)
(* ring holds the address of a destroyed frame only if a JoinHandle was    *)
(* dropped early.                                                          *)
(*                                                                         *)
(* Destroying a frame destroys what it owns.  That this never takes a      *)
(* frame which has control is a fact about the shape of the ownership      *)
(* relation: it has no cycle, and every frame on the stack is owned,       *)
(* directly or not, by the one below it.                                   *)
(***************************************************************************)
EXTENDS Coroutines, TLAPS

HandleSet == [kind : Kinds, in : Frames, of : Frames]

Closed(T, H) == \A h \in H : h.in \in T => h.of \in T

\* Cascade, for any set of owning objects.
Reach(S, H) ==
  S \cup {f \in {h.of : h \in H} : \A T \in SUBSET Frames : S \subseteq T /\ Closed(T, H) => f \in T}

\* Every set of frames has one whose owner is outside.
NoCycle(H) ==
  \A S \in SUBSET Frames : S # {} => \E f \in S : \A h \in H : h.of = f => h.in \notin S

Status == {"none", "new", "running", "blocked", "waiting", "accepting", "final", "dead"}

\* Owners and owned are alive, a Task's coroutine has not started, an awaiter's
\* holder waits, and for one thing only.
HandleInv ==
  /\ \A h \in handles :
       /\ Alive(h.in) /\ Alive(h.of)
       /\ \A k \in handles : k.of = h.of => k = h
       /\ h.kind = "task" => st[h.of] = "new"
       /\ h.kind = "await" => st[h.in] = "waiting"
       /\ st[h.in] # "final"
  /\ \A h, k \in handles : h.kind = "await" /\ k.kind = "await" /\ h.in = k.in => h = k
  /\ \A f \in Frames : Alive(f) /\ (\A h \in handles : h.of # f) => f \in lost \cup {Root}

ParentInv ==
  /\ \A f \in Frames : Alive(f) => \A p \in parent[f] :
       st[p] = "waiting" /\ Handle("await", p, f) \in handles
  /\ \A f \in Frames : st[f] = "none" => parent[f] = {}

\* What is on the stack runs and belongs to what is below.
StackInv ==
  /\ \A i \in DOMAIN stack : st[stack[i]] = "running"
  /\ \A i, j \in DOMAIN stack :
       i < j => stack[i] # stack[j] /\ stack[j] \in Reach({stack[i]}, handles)

PendingInv ==
  \A f \in pending : st[f] = "blocked" \/ (st[f] = "dead" /\ f \in abandoned)

\* The inductive invariant.
OwnInv == TypeOK /\ HandleInv /\ ParentInv /\ StackInv /\ PendingInv /\ NoCycle(handles)

-----------------------------------------------------------------------------
\* The leaves are first-order: Zenon proves those that do not cite SMT.
USE Zenon

(* The ownership relation.                                                  *)

\* What a frame takes along contains it and all that its members own.
LEMMA ReachClosed ==
  ASSUME NEW S \in SUBSET Frames, NEW H \in SUBSET HandleSet
  PROVE  /\ S \subseteq Reach(S, H) /\ Reach(S, H) \in SUBSET Frames
         /\ Closed(Reach(S, H), H)
<1>1. \A h \in H : h.in \in Frames /\ h.of \in Frames
  BY DEF HandleSet
<1>2. ASSUME NEW h \in H, h.in \in Reach(S, H) PROVE h.of \in Reach(S, H)
  <2>1. \A T \in SUBSET Frames : S \subseteq T /\ Closed(T, H) => h.of \in T
    BY <1>2 DEF Reach, Closed
  <2> QED BY <2>1 DEF Reach
<1> QED BY <1>1, <1>2 DEF Reach, Closed

\* It is the least such set.
LEMMA ReachLeast ==
  ASSUME NEW S, NEW H, NEW T \in SUBSET Frames, S \subseteq T, Closed(T, H)
  PROVE  Reach(S, H) \subseteq T
BY DEF Reach

\* What is reached from what is reached.
LEMMA ReachTrans ==
  ASSUME NEW H \in SUBSET HandleSet, NEW a \in Frames, NEW b \in Reach({a}, H)
  PROVE  Reach({b}, H) \subseteq Reach({a}, H)
<1>1. Reach({a}, H) \in SUBSET Frames /\ Closed(Reach({a}, H), H)
  BY ReachClosed
<1> QED BY SMT, <1>1, ReachLeast

\* What is taken along, and not at the start of it, has an owner that is.
LEMMA ReachOwner ==
  ASSUME NEW H \in SUBSET HandleSet, NEW S \in SUBSET Frames, NEW x \in Reach(S, H), x \notin S
  PROVE  \E h \in H : h.of = x /\ h.in \in Reach(S, H)
<1> SUFFICES ASSUME \A h \in H : h.of = x => h.in \notin Reach(S, H) PROVE FALSE
  OBVIOUS
<1>1. PICK T : T = Reach(S, H) \ {x}
  OBVIOUS
<1>2. T \in SUBSET Frames /\ S \subseteq T
  BY <1>1, ReachClosed
<1>3. Closed(T, H)
  BY <1>1, ReachClosed DEF Closed
<1>4. Reach(S, H) \subseteq T
  BY <1>2, <1>3, ReachLeast
<1> QED BY <1>1, <1>4

\* What is taken along with a set is taken along with one of its members.
LEMMA ReachUnion ==
  ASSUME NEW H \in SUBSET HandleSet, NEW S \in SUBSET Frames, NEW x \in Reach(S, H)
  PROVE  \E c \in S : x \in Reach({c}, H)
<1>1. PICK T : T = {y \in Frames : \E c \in S : y \in Reach({c}, H)}
  OBVIOUS
<1>2. \A c \in S : /\ c \in Reach({c}, H) /\ Reach({c}, H) \in SUBSET Frames
                   /\ Closed(Reach({c}, H), H)
  BY ReachClosed
<1>3. T \in SUBSET Frames /\ S \subseteq T /\ Closed(T, H)
  BY <1>1, <1>2 DEF Closed
<1> QED BY <1>1, <1>3, ReachLeast

\* No frame is taken along with what it owns.
LEMMA NoLoop ==
  ASSUME NEW H \in SUBSET HandleSet, NoCycle(H), NEW h \in H
  PROVE  h.in \notin Reach({h.of}, H)
<1> SUFFICES ASSUME h.in \in Reach({h.of}, H) PROVE FALSE
  OBVIOUS
<1>1. PICK S : S = {x \in Reach({h.of}, H) : h.in \in Reach({x}, H)}
  OBVIOUS
<1>2. h.in \in Frames /\ h.of \in Frames
  BY DEF HandleSet
<1>3. S \in SUBSET Frames /\ h.of \in S
  <2>1. Reach({h.of}, H) \in SUBSET Frames /\ h.of \in Reach({h.of}, H)
    BY <1>2, ReachClosed
  <2> QED BY <1>1, <2>1
<1>4. h.in \in S
  BY <1>1, <1>2, ReachClosed
<1>5. ASSUME NEW x \in S, x # h.of PROVE \E k \in H : k.of = x /\ k.in \in S
  <2>1. PICK k \in H : k.of = x /\ k.in \in Reach({h.of}, H)
    BY <1>1, <1>2, <1>5, ReachOwner
  <2>2. k.in \in Frames
    BY DEF HandleSet
  <2>3. x \in Reach({k.in}, H)
    BY <2>1, <2>2, ReachClosed DEF Closed
  <2>4. h.in \in Reach({k.in}, H)
    BY <1>1, <1>5, <2>2, <2>3, ReachTrans
  <2> QED BY <1>1, <2>1, <2>4
<1>6. \A x \in S : \E k \in H : k.of = x /\ k.in \in S
  BY <1>4, <1>5
<1> QED BY <1>3, <1>6 DEF NoCycle

\* Cutting off a closed set leaves the rest of the relation as it was.
LEMMA ReachCut ==
  ASSUME NEW H \in SUBSET HandleSet, NEW H2 \in SUBSET HandleSet,
         NEW D \in SUBSET Frames, Closed(D, H),
         \A h \in H : h.of \in D \/ \E k \in H2 : k.in = h.in /\ k.of = h.of,
         NEW a \in Frames, NEW x \in Reach({a}, H), x \notin D
  PROVE  x \in Reach({a}, H2)
<1>1. PICK T : T = Reach({a}, H2) \cup D
  OBVIOUS
<1>2. /\ {a} \subseteq Reach({a}, H2) /\ Reach({a}, H2) \in SUBSET Frames
      /\ Closed(Reach({a}, H2), H2)
  BY ReachClosed
<1>3. T \in SUBSET Frames /\ {a} \subseteq T
  BY <1>1, <1>2
<1>4. Closed(T, H)
  BY <1>1, <1>2 DEF Closed
<1>5. Reach({a}, H) \subseteq T
  BY <1>3, <1>4, ReachLeast
<1> QED BY <1>1, <1>5

\* Fewer owning objects, or the same frames owned in another way.
LEMMA NoCycleSub ==
  ASSUME NEW H, NEW H2, NoCycle(H),
         \A k \in H2 : \E h \in H : h.in = k.in /\ h.of = k.of
  PROVE  NoCycle(H2)
BY SMT DEF NoCycle

\* A frame that owns nothing may get an owner.
LEMMA NoCycleNew ==
  ASSUME NEW H, NEW g \in Frames, NEW f \in Frames, g # f, NoCycle(H),
         \A h \in H : h.in # f /\ h.of # f
  PROVE  NoCycle(H \cup {Handle("task", g, f)})
<1> SUFFICES ASSUME NEW S \in SUBSET Frames, S # {}
             PROVE  \E x \in S : \A h \in H \cup {Handle("task", g, f)} : h.of = x => h.in \notin S
  BY DEF NoCycle
<1>1. Handle("task", g, f).in = g /\ Handle("task", g, f).of = f
  BY DEF Handle
<1>2. CASE S \ {f} = {}
  BY <1>1, <1>2
<1>3. CASE S \ {f} # {}
  <2>1. PICK x \in S \ {f} : \A h \in H : h.of = x => h.in \notin S \ {f}
    BY <1>3 DEF NoCycle
  <2> QED BY <1>1, <2>1
<1> QED BY <1>2, <1>3

\* A frame may go from its owner to another frame that the same owner has.
LEMMA NoCycleGive ==
  ASSUME NEW H, NEW H2, NEW g \in Frames, NEW f \in Frames, NEW k \in Frames, NoCycle(H),
         \E h \in H : h.in = g /\ h.of = f,
         \A h \in H2 : (h.in = k /\ h.of = f) \/ \E j \in H : j.in = h.in /\ j.of = h.of,
         \A h \in H2 : h.of = k => h.in = g,
         \E h \in H : h.in = g /\ h.of = k
  PROVE  NoCycle(H2)
<1> SUFFICES ASSUME NEW S \in SUBSET Frames, S # {},
                    \A x \in S : \E h \in H2 : h.of = x /\ h.in \in S
             PROVE  FALSE
  BY DEF NoCycle
<1>1. ASSUME NEW x \in S PROVE \E h \in H : h.of = x /\ h.in \in S
  <2>1. PICK h \in H2 : h.of = x /\ h.in \in S
    OBVIOUS
  <2>2. CASE \E j \in H : j.in = h.in /\ j.of = h.of BY <2>1, <2>2
  <2>3. CASE h.in = k /\ h.of = f
    <3>1. g \in S
      BY <2>1, <2>3
    <3> QED BY SMT, <2>1, <2>3, <3>1
  <2> QED BY <2>2, <2>3
<1> QED BY <1>1 DEF NoCycle

-----------------------------------------------------------------------------
(* The stack.                                                               *)

\* The frames a destruction takes along are the ones reached in the model's own handles.
LEMMA CascadeIsReach == \A S : Cascade(S) = Reach(S, handles)
BY DEF Cascade, Reach, Closed

\* Who has control runs, and is on top.
LEMMA TopRuns ==
  ASSUME TypeOK, StackInv, NEW g \in Frames, Top(g)
  PROVE  /\ Len(stack) \in DOMAIN stack /\ stack[Len(stack)] = g /\ st[g] = "running"
         /\ Below \in Seq(Frames) /\ Len(Below) = Len(stack) - 1
         /\ \A i \in 1..(Len(stack) - 1) : Below[i] = stack[i] /\ stack[i] # g
<1>1. PICK n : n = Len(stack)
  OBVIOUS
<1>2. stack \in Seq(Frames) /\ n \in Nat \ {0} /\ DOMAIN stack = 1..n /\ stack[n] = g
  BY SMT, <1>1 DEF TypeOK, Top
<1>3. n \in DOMAIN stack /\ \A i \in 1..(n - 1) : i \in DOMAIN stack /\ i < n
  BY SMT, <1>2
<1>4. st[g] = "running" /\ \A i \in 1..(n - 1) : stack[i] # g
  BY <1>2, <1>3 DEF StackInv
<1>5. Below = SubSeq(stack, 1, n - 1) /\ n - 1 \in Nat
  BY SMT, <1>1, <1>2 DEF Below
<1>6. /\ Below \in Seq(Frames) /\ Len(Below) = n - 1
      /\ \A i \in 1..(n - 1) : Below[i] = stack[i]
  BY SMT, <1>1, <1>2, <1>5
<1> QED BY <1>1, <1>2, <1>3, <1>6, <1>4

\* Nothing on the stack is taken along with what the top owns.
LEMMA StackSafe ==
  ASSUME OwnInv, NEW g \in Frames, Top(g), NEW h \in handles, h.in = g,
         NEW i \in DOMAIN stack
  PROVE  stack[i] \notin Reach({h.of}, handles)
<1>1. handles \in SUBSET HandleSet /\ h.of \in Frames /\ stack[i] \in Frames
  BY SMT DEF OwnInv, TypeOK, HandleSet
<1>2. g \notin Reach({h.of}, handles)
  BY <1>1, NoLoop DEF OwnInv
<1>3. Len(stack) \in DOMAIN stack /\ stack[Len(stack)] = g
  BY TopRuns DEF OwnInv
<1>4. CASE i = Len(stack) BY <1>2, <1>3, <1>4
<1>5. CASE i # Len(stack)
  <2>1. i < Len(stack)
    BY SMT, <1>5 DEF OwnInv, TypeOK
  <2>2. g \in Reach({stack[i]}, handles)
    BY <1>3, <2>1 DEF OwnInv, StackInv
  <2> QED BY <1>1, <1>2, <2>2, ReachTrans
<1> QED BY <1>4, <1>5

\* A step that keeps the m lowest frames of the stack, cuts off what they do not
\* need, and puts at most one frame on top.
LEMMA StackKept ==
  ASSUME TypeOK, StackInv, handles' \in SUBSET HandleSet, stack' \in Seq(Frames),
         NEW D \in SUBSET Frames, Closed(D, handles),
         \A h \in handles : h.of \in D \/ \E k \in handles' : k.in = h.in /\ k.of = h.of,
         NEW m \in 0..Len(stack), NEW x \in Frames,
         \A i \in 1..m : stack[i] \notin D /\ st'[stack[i]] = "running" /\ stack'[i] = stack[i],
         Len(stack') = m \/
           /\ Len(stack') = m + 1 /\ stack'[m + 1] = x
           /\ st[x] # "running" /\ st'[x] = "running" /\ x \notin D
           /\ \A i \in 1..m : x \in Reach({stack[i]}, handles)
  PROVE  StackInv'
<1>1. handles \in SUBSET HandleSet /\ stack \in Seq(Frames) /\ DOMAIN stack = 1..Len(stack)
  BY SMT DEF TypeOK, HandleSet
<1>2. PICK n : n = Len(stack')
  OBVIOUS
<1>3. /\ m \in Nat /\ n \in Nat /\ DOMAIN stack' = 1..n /\ n \in {m, m + 1}
      /\ \A i \in 1..m : i \in DOMAIN stack
  BY SMT, <1>1, <1>2
<1>4. \A i \in 1..n : i \in 1..m \/ (i = m + 1 /\ n = m + 1)
  BY SMT, <1>3
<1>5. \A i \in DOMAIN stack' : st'[stack'[i]] = "running"
  <2> TAKE i \in DOMAIN stack'
  <2>1. CASE i \in 1..m BY <2>1
  <2>2. CASE i = m + 1 /\ n = m + 1
    BY <1>2, <1>3, <2>2
  <2> QED BY <1>3, <1>4, <2>1, <2>2
<1>6. ASSUME NEW i \in DOMAIN stack', NEW j \in DOMAIN stack', i < j
      PROVE  stack'[i] # stack'[j] /\ stack'[j] \in Reach({stack'[i]}, handles')
  <2>1. i \in 1..m /\ i \in DOMAIN stack /\ stack'[i] = stack[i] /\ stack[i] \in Frames
    BY SMT, <1>1, <1>3, <1>4, <1>6
  <2>2. CASE j \in 1..m
    <3>1. j \in DOMAIN stack /\ stack'[j] = stack[j] /\ stack[j] \notin D
      BY SMT, <1>1, <2>2
    <3>2. stack[i] # stack[j] /\ stack[j] \in Reach({stack[i]}, handles)
      BY <1>6, <2>1, <3>1 DEF StackInv
    <3> QED BY <1>1, <2>1, <3>1, <3>2, ReachCut
  <2>3. CASE j \notin 1..m
    <3>1. /\ j = m + 1 /\ stack'[j] = x /\ st[x] # "running" /\ x \notin D
          /\ x \in Reach({stack[i]}, handles)
      BY <1>2, <1>3, <1>4, <2>1, <2>3
    <3>2. x # stack[i]
      BY <2>1, <3>1 DEF StackInv
    <3> QED BY <1>1, <2>1, <3>1, <3>2, ReachCut
  <2> QED BY <2>2, <2>3
<1> QED BY <1>5, <1>6 DEF StackInv

\* A step that cuts off nothing.
LEMMA StackSame ==
  ASSUME TypeOK, StackInv, handles' \in SUBSET HandleSet, stack' \in Seq(Frames),
         \A h \in handles : \E k \in handles' : k.in = h.in /\ k.of = h.of,
         NEW m \in 0..Len(stack), NEW x \in Frames,
         \A i \in 1..m : st'[stack[i]] = "running" /\ stack'[i] = stack[i],
         Len(stack') = m \/
           /\ Len(stack') = m + 1 /\ stack'[m + 1] = x
           /\ st[x] # "running" /\ st'[x] = "running"
           /\ \A i \in 1..m : x \in Reach({stack[i]}, handles)
  PROVE  StackInv'
<1>1. PICK D : D = {}
  OBVIOUS
<1>2. /\ D \in SUBSET Frames /\ x \notin D /\ \A i \in 1..m : stack[i] \notin D
      /\ \A h \in handles : h.of \in D \/ \E k \in handles' : k.in = h.in /\ k.of = h.of
  BY <1>1
<1>3. Closed(D, handles)
  BY <1>1 DEF Closed
<1> QED BY <1>2, <1>3, StackKept

\* What the top owns belongs to everything on the stack.
LEMMA StackOwns ==
  ASSUME OwnInv, NEW g \in Frames, Top(g), NEW h \in handles, h.in = g,
         NEW i \in DOMAIN stack
  PROVE  h.of \in Reach({stack[i]}, handles)
<1>1. handles \in SUBSET HandleSet /\ h.of \in Frames /\ stack[i] \in Frames
  BY SMT DEF OwnInv, TypeOK, HandleSet
<1>2. Len(stack) \in DOMAIN stack /\ stack[Len(stack)] = g
  BY TopRuns DEF OwnInv
<1>3. g \in Reach({stack[i]}, handles)
  <2>1. CASE i = Len(stack) BY <1>1, <1>2, <2>1, ReachClosed
  <2>2. CASE i < Len(stack) BY <1>2, <2>2 DEF OwnInv, StackInv
  <2> QED BY SMT, <2>1, <2>2 DEF OwnInv, TypeOK
<1> QED BY <1>1, <1>3, ReachClosed DEF Closed

-----------------------------------------------------------------------------
(* Destruction.                                                             *)

\* Destroying a closed set of frames, while at most one other frame finishes, or
\* goes on behind the co_await that owned one of them, keeps the owners right.
LEMMA DestroyKeeps ==
  ASSUME TypeOK, HandleInv, ParentInv, PendingInv, NoCycle(handles),
         NEW D \in SUBSET Frames, Closed(D, handles), NEW ns \in [Frames -> Status],
         st' = [f \in Frames |-> IF f \in D THEN "dead" ELSE ns[f]],
         handles' = {h \in handles : h.in \notin D /\ h.of \notin D},
         \A x \in Frames \ D :
           \/ ns[x] = st[x]
           \/ /\ ns[x] = "final" /\ st[x] = "running"
              /\ \A h \in handles : h.in = x => h.of \in D
           \/ /\ ns[x] = "running" /\ st[x] = "waiting"
              /\ \E y \in D : Handle("await", x, y) \in handles,
         \A x \in D : st[x] = "blocked" => x \in abandoned',
         abandoned \subseteq abandoned',
         UNCHANGED <<parent, lost, pending>>
  PROVE  /\ st' \in [Frames -> Status] /\ handles' \in SUBSET HandleSet
         /\ \A f \in Frames : st'[f] = "blocked" => f \in pending'
         /\ HandleInv' /\ ParentInv' /\ PendingInv' /\ NoCycle(handles')
         /\ \A h \in handles : h.of \in D \/ \E k \in handles' : k.in = h.in /\ k.of = h.of
<1>1. /\ \A f \in D : st'[f] = "dead"
      /\ \A f \in Frames \ D : st'[f] = ns[f]
  OBVIOUS
<1>2. \A h \in handles : h.in \in Frames /\ h.of \in Frames
  BY DEF TypeOK
<1>3. \A f \in Frames : Alive(f)' <=> Alive(f) /\ f \notin D
  BY <1>1 DEF Alive
<1>4. \A h \in handles : h \in handles' <=> h.in \notin D /\ h.of \notin D
  OBVIOUS
<1>5. \A h \in handles : h.of \notin D => h \in handles'
  BY <1>4 DEF Closed
<1>6. ASSUME NEW h \in handles'
      PROVE  /\ Alive(h.in)' /\ Alive(h.of)'
             /\ \A k \in handles' : k.of = h.of => k = h
             /\ h.kind = "task" => st'[h.of] = "new"
             /\ h.kind = "await" => st'[h.in] = "waiting"
             /\ st'[h.in] # "final"
  <2>1. h \in handles /\ h.in \in Frames \ D /\ h.of \in Frames \ D
    BY <1>2
  <2>2. Alive(h.in)' /\ Alive(h.of)' /\ \A k \in handles' : k.of = h.of => k = h
    BY <1>3, <2>1 DEF HandleInv
  <2>3. h.kind = "task" => st'[h.of] = "new"
    BY SMT, <1>1, <2>1 DEF HandleInv
  <2>4. h.kind = "await" => st'[h.in] = "waiting"
    <3> SUFFICES ASSUME h.kind = "await", ns[h.in] # st[h.in] PROVE FALSE
      BY <1>1, <2>1 DEF HandleInv
    <3>1. st[h.in] = "waiting"
      BY <2>1 DEF HandleInv
    <3>2. PICK y \in D : Handle("await", h.in, y) \in handles
      BY <2>1, <3>1
    <3>3. PICK k \in handles : k.kind = "await" /\ k.in = h.in /\ k.of = y
      BY <3>2 DEF Handle
    <3>4. k = h
      BY <2>1, <3>3 DEF HandleInv
    <3> QED BY <2>1, <3>3, <3>4
  <2>5. st'[h.in] # "final"
    BY SMT, <1>1, <2>1 DEF HandleInv
  <2> QED BY <2>2, <2>3, <2>4, <2>5
<1>7. HandleInv'
  <2>1. \A h, k \in handles' : h.kind = "await" /\ k.kind = "await" /\ h.in = k.in => h = k
    BY SMT DEF HandleInv
  <2>2. \A f \in Frames : Alive(f)' /\ (\A h \in handles' : h.of # f) => f \in lost' \cup {Root}
    BY SMT, <1>3, <1>5 DEF HandleInv
  <2> QED BY <1>6, <2>1, <2>2 DEF HandleInv
<1>8. ParentInv'
  <2>1. ASSUME NEW f \in Frames, Alive(f)', NEW p \in parent'[f]
        PROVE  st'[p] = "waiting" /\ Handle("await", p, f) \in handles'
    <3>1. PICK h : h = Handle("await", p, f)
      OBVIOUS
    <3>2. /\ h \in handles /\ st[p] = "waiting" /\ h.in = p /\ h.of = f /\ h.kind = "await"
          /\ f \notin D /\ p \in Frames
      BY <1>2, <1>3, <2>1, <3>1 DEF ParentInv, Handle
    <3>3. h \in handles' /\ p \notin D
      BY <1>4, <1>5, <3>2
    <3>4. ASSUME NEW y \in D PROVE Handle("await", p, y) \notin handles
      BY SMT, <3>2, <3>4 DEF HandleInv, Handle
    <3> QED BY <1>1, <3>1, <3>2, <3>3, <3>4
  <2>2. \A f \in Frames : st'[f] = "none" => parent'[f] = {}
    BY SMT, <1>1 DEF ParentInv
  <2> QED BY <2>1, <2>2 DEF ParentInv
<1>9. PendingInv'
  <2>1. \A f \in pending : f \in Frames
    BY DEF TypeOK
  <2> QED BY <1>1, <2>1 DEF PendingInv
<1>10. NoCycle(handles')
  BY NoCycleSub
<1>11. st' \in [Frames -> Status] /\ handles' \in SUBSET HandleSet
  BY DEF TypeOK, HandleSet, Status
<1>12. \A f \in Frames : st'[f] = "blocked" => f \in pending'
  BY <1>1 DEF TypeOK
<1> QED BY <1>5, <1>7, <1>8, <1>9, <1>10, <1>11, <1>12

-----------------------------------------------------------------------------
(* The actions.                                                             *)

\* The Task or JoinHandle of f in g becomes a JoinHandle or an awaiter in g, and f
\* starts, or g waits for it.
LEMMA KindChange ==
  ASSUME TypeOK, HandleInv, ParentInv, PendingInv, NoCycle(handles),
         NEW g \in Frames, NEW f \in Frames, NEW old \in handles, NEW kind \in {"join", "await"},
         old.in = g, old.of = f, st[g] = "running", old.kind # "await",
         handles' = (handles \ {old}) \cup {Handle(kind, g, f)},
         st' \in [Frames -> Status],
         \A x \in Frames : x # g /\ x # f => st'[x] = st[x],
         st'[g] = IF kind = "await" THEN "waiting" ELSE "running",
         st'[f] = IF old.kind = "task" THEN "running" ELSE st[f],
         parent' = IF kind = "await" THEN [parent EXCEPT ![f] = {g}] ELSE parent,
         UNCHANGED <<lost, pending, abandoned>>
  PROVE  /\ handles' \in SUBSET HandleSet /\ parent' \in [Frames -> SUBSET Frames]
         /\ \A x \in Frames : st'[x] = "blocked" => x \in pending'
         /\ HandleInv' /\ ParentInv' /\ PendingInv' /\ NoCycle(handles')
         /\ \A h \in handles : \E k \in handles' : k.in = h.in /\ k.of = h.of
<1>1. PICK new : new = Handle(kind, g, f)
  OBVIOUS
<1>2. new.in = g /\ new.of = f /\ new.kind = kind /\ new \in HandleSet
  BY <1>1 DEF Handle, HandleSet, Kinds
<1>3. handles \in SUBSET HandleSet /\ \A h \in handles : h.in \in Frames /\ h.of \in Frames
  BY DEF TypeOK, HandleSet
<1>4. g # f
  <2>1. g \notin Reach({f}, handles) /\ f \in Reach({f}, handles)
    BY SMT, <1>3, NoLoop, ReachClosed
  <2> QED BY <2>1
<1>5. handles' \in SUBSET HandleSet
  BY <1>1, <1>2, <1>3
<1>6. parent' \in [Frames -> SUBSET Frames]
  BY DEF TypeOK
<1>7. \A h \in handles' : h = new \/ (h \in handles /\ h.of # f)
  BY <1>1 DEF HandleInv
<1>8. old.kind = "task" => st[f] = "new"
  BY DEF HandleInv
<1>9. Alive(g) /\ Alive(f) /\ \A x \in Frames : Alive(x)' <=> Alive(x)
  BY <1>8 DEF Alive, HandleInv
<1>10. \A h \in handles : \E k \in handles' : k.in = h.in /\ k.of = h.of
  BY <1>1, <1>2
<1>11. NoCycle(handles')
  BY SMT, <1>1, <1>2, NoCycleSub
<1>12. PendingInv' /\ \A x \in Frames : st'[x] = "blocked" => x \in pending'
  <2>1. \A x \in pending : x \in Frames /\ st'[x] = st[x]
    BY <1>4, <1>8 DEF PendingInv, TypeOK
  <2>2. \A x \in Frames : st'[x] = "blocked" => st[x] = "blocked"
    BY <1>4, <1>8
  <2> QED BY <2>1, <2>2 DEF PendingInv, TypeOK
<1>13. HandleInv'
  <2>1. ASSUME NEW h \in handles'
        PROVE  /\ Alive(h.in)' /\ Alive(h.of)'
               /\ \A k \in handles' : k.of = h.of => k = h
               /\ h.kind = "task" => st'[h.of] = "new"
               /\ h.kind = "await" => st'[h.in] = "waiting"
               /\ st'[h.in] # "final"
    <3>1. CASE h = new
      BY <1>2, <1>4, <1>7, <1>9, <3>1
    <3>2. CASE h \in handles /\ h.of # f
      <4>1. Alive(h.in)' /\ Alive(h.of)' /\ \A k \in handles' : k.of = h.of => k = h
        BY <1>2, <1>3, <1>7, <1>9, <3>2 DEF HandleInv
      <4>2. h.kind = "task" => st'[h.of] = "new"
        BY <1>3, <3>2 DEF HandleInv
      <4>3. (h.kind = "await" => st'[h.in] = "waiting") /\ st'[h.in] # "final"
        BY SMT, <1>3, <1>4, <1>8, <3>2 DEF HandleInv
      <4> QED BY <4>1, <4>2, <4>3
    <3> QED BY <1>7, <3>1, <3>2
  <2>2. \A h, k \in handles' : h.kind = "await" /\ k.kind = "await" /\ h.in = k.in => h = k
    BY SMT, <1>2, <1>7 DEF HandleInv
  <2>3. \A x \in Frames : Alive(x)' /\ (\A h \in handles' : h.of # x) => x \in lost' \cup {Root}
    BY SMT, <1>9, <1>10 DEF HandleInv
  <2> QED BY <2>1, <2>2, <2>3 DEF HandleInv
<1>14. ParentInv'
  <2>1. ASSUME NEW x \in Frames, Alive(x)', NEW p \in parent'[x]
        PROVE  st'[p] = "waiting" /\ Handle("await", p, x) \in handles'
    <3>1. CASE kind = "await" /\ x = f
      <4>1. p = g
        BY <2>1, <3>1 DEF TypeOK
      <4> QED BY <3>1, <4>1
    <3>2. CASE ~(kind = "await" /\ x = f)
      <4>1. p \in parent[x] /\ p \in Frames
        BY <2>1, <3>2 DEF TypeOK
      <4>2. PICK h \in handles : h = Handle("await", p, x) /\ st[p] = "waiting"
        BY <1>9, <2>1, <4>1 DEF ParentInv
      <4>3. h.kind = "await" /\ h.in = p /\ h.of = x
        BY <4>2 DEF Handle
      <4>4. h # old
        BY <4>3
      <4>5. st'[p] = "waiting"
        BY <1>8, <4>1, <4>2
      <4> QED BY <4>2, <4>4, <4>5
    <3> QED BY <3>1, <3>2
  <2>2. \A x \in Frames : st'[x] = "none" => parent'[x] = {}
    <3> TAKE x \in Frames
    <3>1. CASE x = f BY <1>9, <3>1 DEF Alive
    <3>2. CASE x = g BY <3>2
    <3>3. CASE x # f /\ x # g BY SMT, <3>3 DEF ParentInv, TypeOK
    <3> QED BY <3>1, <3>2, <3>3
  <2> QED BY <2>1, <2>2 DEF ParentInv
<1> QED BY <1>5, <1>6, <1>10, <1>11, <1>12, <1>13, <1>14

\* At the start the root has control and nobody owns anything.
LEMMA OwnInit == Init => OwnInv
<1> SUFFICES ASSUME Init PROVE OwnInv
  OBVIOUS
<1>1. TypeOK
  <2>1. stack \in Seq(Frames) /\ blocks \in [Frames -> 0..MaxBlocks]
    BY SMT, FramesAssumption, BlocksAssumption DEF Init
  <2>2. \A f \in Frames : st[f] # "blocked"
    BY DEF Init
  <2>3. root_threw \in BOOLEAN /\ ended \in BOOLEAN
    BY DEF Init
  <2> QED BY <2>1, <2>2, <2>3 DEF Init, TypeOK
<1>2. HandleInv /\ ParentInv /\ PendingInv
  <2>1. handles = {} /\ pending = {} /\ \A f \in Frames : parent[f] = {}
    BY DEF Init
  <2>2. \A f \in Frames : Alive(f) => f = Root
    BY DEF Init, Alive
  <2> QED BY <2>1, <2>2 DEF HandleInv, ParentInv, PendingInv
<1>3. StackInv
  <2>1. DOMAIN stack = {1} /\ stack[1] = Root
    BY SMT DEF Init
  <2> QED BY SMT, <2>1, FramesAssumption DEF StackInv, Init
<1>4. NoCycle(handles)
  BY DEF NoCycle, Init
<1> QED BY <1>1, <1>2, <1>3, <1>4 DEF OwnInv

\* co_await and spawn of a Task, and co_await of a JoinHandle that is not done.
LEMMA OwnAwaitTask ==
  ASSUME OwnInv, NEW g \in Frames, NEW f \in Frames, AwaitTask(g, f)
  PROVE  OwnInv'
<1> USE DEF OwnInv
<1>1. Top(g) /\ Handle("task", g, f) \in handles
  BY DEF AwaitTask
<1>2. PICK old \in handles : old = Handle("task", g, f)
  BY <1>1
<1>3. old.in = g /\ old.of = f /\ old.kind = "task"
  BY <1>2 DEF Handle
<1>4. /\ Len(stack) \in DOMAIN stack /\ stack[Len(stack)] = g /\ st[g] = "running"
      /\ Below \in Seq(Frames) /\ Len(Below) = Len(stack) - 1
      /\ \A i \in 1..(Len(stack) - 1) : Below[i] = stack[i] /\ stack[i] # g
  BY <1>1, TopRuns
<1>5. st[f] = "new"
  BY <1>3 DEF HandleInv
<1>6. /\ st' \in [Frames -> Status] /\ st'[g] = "waiting" /\ st'[f] = "running"
      /\ \A x \in Frames : x # g /\ x # f => st'[x] = st[x]
  BY <1>4, <1>5 DEF AwaitTask, TypeOK, Status
<1>7. /\ handles' = (handles \ {old}) \cup {Handle("await", g, f)}
      /\ parent' = [parent EXCEPT ![f] = {g}]
      /\ stack' = Append(Below, f)
      /\ UNCHANGED <<pending, blocks, lost, abandoned, root_threw, ended, crashed>>
  BY <1>2 DEF AwaitTask
<1>8. /\ handles' \in SUBSET HandleSet /\ parent' \in [Frames -> SUBSET Frames]
      /\ \A x \in Frames : st'[x] = "blocked" => x \in pending'
      /\ HandleInv' /\ ParentInv' /\ PendingInv' /\ NoCycle(handles')
      /\ \A h \in handles : \E k \in handles' : k.in = h.in /\ k.of = h.of
  BY <1>3, <1>4, <1>6, <1>7, KindChange
<1>9. TypeOK'
  BY SMT, <1>4, <1>6, <1>7, <1>8 DEF TypeOK, HandleSet, Status
<1>10. StackInv'
  <2>1. PICK m : m = Len(stack) - 1
    OBVIOUS
  <2>2. m \in Nat /\ m \in 0..Len(stack) /\ \A i \in 1..m : i \in DOMAIN stack
    BY SMT, <1>4, <2>1 DEF TypeOK
  <2>3. /\ stack' \in Seq(Frames) /\ Len(stack') = m + 1 /\ stack'[m + 1] = f
        /\ \A i \in 1..m : stack'[i] = Below[i]
    BY SMT, <1>4, <1>7, <2>1, <2>2
  <2>4. \A i \in 1..m : stack'[i] = stack[i] /\ stack[i] # g
    BY <1>4, <2>1, <2>3
  <2>5. \A i \in 1..m : st'[stack[i]] = "running" /\ stack[i] \in Frames
    BY SMT, <1>5, <1>6, <2>2, <2>4 DEF StackInv, TypeOK
  <2>6. \A i \in 1..m : f \in Reach({stack[i]}, handles)
    BY <1>1, <1>3, <2>2, StackOwns
  <2> QED BY <1>5, <1>6, <1>8, <2>2, <2>3, <2>4, <2>5, <2>6, StackSame
<1> QED BY <1>8, <1>9, <1>10

\* spawn turns the Task's frame into a JoinHandle's.
LEMMA OwnSpawn ==
  ASSUME OwnInv, NEW g \in Frames, NEW f \in Frames, Spawn(g, f)
  PROVE  OwnInv'
<1> USE DEF OwnInv
<1>1. Top(g) /\ Handle("task", g, f) \in handles
  BY DEF Spawn
<1>2. PICK old \in handles : old = Handle("task", g, f)
  BY <1>1
<1>3. old.in = g /\ old.of = f /\ old.kind = "task"
  BY <1>2 DEF Handle
<1>4. st[f] = "new" /\ st[g] = "running"
  BY <1>1, <1>3, TopRuns DEF HandleInv
<1>5. /\ st' \in [Frames -> Status] /\ st'[g] = "running" /\ st'[f] = "running"
      /\ \A x \in Frames : x # f => st'[x] = st[x]
  BY <1>4 DEF Spawn, TypeOK, Status
<1>6. /\ handles' = (handles \ {old}) \cup {Handle("join", g, f)}
      /\ stack' = Append(stack, f)
      /\ UNCHANGED <<parent, pending, blocks, lost, abandoned, root_threw, ended, crashed>>
  BY <1>2 DEF Spawn
<1>7. /\ handles' \in SUBSET HandleSet /\ parent' \in [Frames -> SUBSET Frames]
      /\ \A x \in Frames : st'[x] = "blocked" => x \in pending'
      /\ HandleInv' /\ ParentInv' /\ PendingInv' /\ NoCycle(handles')
      /\ \A h \in handles : \E k \in handles' : k.in = h.in /\ k.of = h.of
  BY <1>3, <1>4, <1>5, <1>6, KindChange
<1>8. TypeOK'
  BY SMT, <1>5, <1>6, <1>7 DEF TypeOK, HandleSet, Status
<1>9. StackInv'
  <2>1. PICK m : m = Len(stack)
    OBVIOUS
  <2>2. /\ m \in 0..Len(stack) /\ stack' \in Seq(Frames) /\ Len(stack') = m + 1
        /\ stack'[m + 1] = f
        /\ \A i \in 1..m : i \in DOMAIN stack /\ stack'[i] = stack[i]
    BY SMT, <1>6, <2>1 DEF TypeOK
  <2>3. \A i \in 1..m : st'[stack[i]] = "running" /\ stack[i] \in Frames
    BY SMT, <1>4, <1>5, <2>2 DEF StackInv, TypeOK
  <2>4. \A i \in 1..m : f \in Reach({stack[i]}, handles)
    BY <1>1, <1>3, <2>2, StackOwns
  <2> QED BY <1>4, <1>5, <1>7, <2>2, <2>3, <2>4, StackSame
<1> QED BY <1>7, <1>8, <1>9

\* The top leaves the stack, and it alone changes its state.
LEMMA StackPop ==
  ASSUME OwnInv, NEW g \in Frames, Top(g), stack' = Below,
         handles' \in SUBSET HandleSet,
         \A h \in handles : \E k \in handles' : k.in = h.in /\ k.of = h.of,
         \A x \in Frames : x # g => st'[x] = st[x]
  PROVE  StackInv' /\ stack' \in Seq(Frames)
<1>1. TypeOK /\ StackInv
  BY DEF OwnInv
<1>2. /\ Len(stack) \in DOMAIN stack /\ Below \in Seq(Frames) /\ Len(Below) = Len(stack) - 1
      /\ \A i \in 1..(Len(stack) - 1) : Below[i] = stack[i] /\ stack[i] # g
  BY <1>1, TopRuns
<1>3. PICK m : m = Len(stack) - 1
  OBVIOUS
<1>4. m \in Nat /\ m \in 0..Len(stack) /\ \A i \in 1..m : i \in DOMAIN stack
  BY SMT, <1>1, <1>2, <1>3 DEF TypeOK
<1>5. Len(stack') = m /\ \A i \in 1..m : stack'[i] = stack[i] /\ stack[i] # g
  BY <1>2, <1>3
<1>6. \A i \in 1..m : st'[stack[i]] = "running"
  <2>1. \A i \in DOMAIN stack : st[stack[i]] = "running"
    BY <1>1 DEF StackInv
  <2>2. \A i \in DOMAIN stack : stack[i] \in Frames
    BY SMT, <1>1 DEF TypeOK
  <2> QED BY <1>4, <1>5, <2>1, <2>2
<1> QED BY <1>1, <1>2, <1>4, <1>5, <1>6, StackSame

\* co_await of a JoinHandle whose frame has not finished.
LEMMA OwnJoinWait ==
  ASSUME OwnInv, NEW g \in Frames, NEW f \in Frames, JoinWait(g, f)
  PROVE  OwnInv'
<1> USE DEF OwnInv
<1>1. Top(g) /\ Handle("join", g, f) \in handles
  BY DEF JoinWait
<1>2. PICK old \in handles : old = Handle("join", g, f)
  BY <1>1
<1>3. old.in = g /\ old.of = f /\ old.kind = "join"
  BY <1>2 DEF Handle
<1>4. st[g] = "running" /\ g # f
  <2>1. handles \in SUBSET HandleSet
    BY DEF TypeOK, HandleSet
  <2>2. g \notin Reach({f}, handles) /\ f \in Reach({f}, handles)
    BY <1>3, <2>1, NoLoop, ReachClosed
  <2> QED BY <1>1, <2>2, TopRuns
<1>5. /\ st' \in [Frames -> Status] /\ st'[g] = "waiting"
      /\ \A x \in Frames : x # g => st'[x] = st[x]
  BY DEF JoinWait, TypeOK, Status
<1>6. /\ handles' = (handles \ {old}) \cup {Handle("await", g, f)}
      /\ parent' = [parent EXCEPT ![f] = {g}]
      /\ stack' = Below
      /\ UNCHANGED <<pending, blocks, lost, abandoned, root_threw, ended, crashed>>
  BY <1>2 DEF JoinWait
<1>7. /\ handles' \in SUBSET HandleSet /\ parent' \in [Frames -> SUBSET Frames]
      /\ \A x \in Frames : st'[x] = "blocked" => x \in pending'
      /\ HandleInv' /\ ParentInv' /\ PendingInv' /\ NoCycle(handles')
      /\ \A h \in handles : \E k \in handles' : k.in = h.in /\ k.of = h.of
  BY <1>3, <1>4, <1>5, <1>6, KindChange
<1>8. StackInv' /\ stack' \in Seq(Frames)
  BY <1>1, <1>5, <1>6, <1>7, StackPop
<1>9. TypeOK'
  BY <1>5, <1>6, <1>7, <1>8 DEF TypeOK, HandleSet, Status
<1> QED BY <1>7, <1>8, <1>9

\* The stack stays as it is, while what the top owns through h may go elsewhere.
LEMMA StackStays ==
  ASSUME OwnInv, NEW g \in Frames, Top(g), NEW h \in handles, h.in = g,
         stack' = stack, handles' \in SUBSET HandleSet,
         \A k \in handles : k.of \in Reach({h.of}, handles)
                            \/ \E j \in handles' : j.in = k.in /\ j.of = k.of,
         \A i \in DOMAIN stack : st'[stack[i]] = "running"
  PROVE  StackInv'
<1>1. PICK D : D = Reach({h.of}, handles)
  OBVIOUS
<1>2. handles \in SUBSET HandleSet /\ h.of \in Frames /\ stack \in Seq(Frames)
  BY DEF OwnInv, TypeOK, HandleSet
<1>3. D \in SUBSET Frames /\ Closed(D, handles)
  <2>1. {h.of} \in SUBSET Frames
    BY <1>2
  <2> QED BY <1>1, <1>2, <2>1, ReachClosed
<1>4. PICK m : m = Len(stack)
  OBVIOUS
<1>5. m \in 0..Len(stack) /\ DOMAIN stack = 1..m /\ Len(stack') = m
  BY SMT, <1>2, <1>4
<1>6. \A i \in 1..m : stack[i] \notin D
  BY <1>1, <1>5, StackSafe
<1>7. TypeOK /\ StackInv
  BY DEF OwnInv
<1>8. \A k \in handles : k.of \in D \/ \E j \in handles' : j.in = k.in /\ j.of = k.of
  BY <1>1
<1>9. \A i \in 1..m : stack[i] \notin D /\ st'[stack[i]] = "running" /\ stack'[i] = stack[i]
  BY <1>5, <1>6
<1> QED BY <1>2, <1>3, <1>5, <1>7, <1>8, <1>9, StackKept

\* The JoinHandle of f moved into k.
LEMMA OwnGiveJoin ==
  ASSUME OwnInv, NEW g \in Frames, NEW f \in Frames, NEW k \in Frames, GiveJoin(g, f, k)
  PROVE  OwnInv'
<1> USE DEF OwnInv
<1>1. Top(g) /\ Handle("join", g, f) \in handles /\ Handle("task", g, k) \in handles
  BY DEF GiveJoin
<1>2. PICK old \in handles, task \in handles, new \in {Handle("join", k, f)} :
        old = Handle("join", g, f) /\ task = Handle("task", g, k) /\ new = Handle("join", k, f)
  BY <1>1
<1>3. /\ old.in = g /\ old.of = f /\ old.kind = "join"
      /\ task.in = g /\ task.of = k /\ task.kind = "task"
      /\ new.in = k /\ new.of = f /\ new.kind = "join" /\ new \in HandleSet
  BY <1>2 DEF Handle, HandleSet, Kinds
<1>4. /\ handles' = (handles \ {old}) \cup {new}
      /\ UNCHANGED <<st, parent, stack, pending, blocks, lost, abandoned, root_threw,
                     ended, crashed>>
  BY <1>2 DEF GiveJoin
<1>5. f # k
  BY SMT, <1>3 DEF HandleInv
<1>6. st[k] = "new" /\ Alive(k) /\ Alive(f)
  BY <1>3 DEF HandleInv
<1>7. handles \in SUBSET HandleSet /\ handles' \in SUBSET HandleSet
  BY <1>3, <1>4 DEF TypeOK, HandleSet
<1>8. \A h \in handles' : h = new \/ (h \in handles /\ h.of # f)
  BY SMT, <1>3, <1>4 DEF HandleInv
<1>9. \A f1 : Alive(f1)' <=> Alive(f1)
  BY <1>4 DEF Alive
<1>10. HandleInv'
  <2>1. ASSUME NEW h \in handles'
        PROVE  /\ Alive(h.in)' /\ Alive(h.of)'
               /\ \A j \in handles' : j.of = h.of => j = h
               /\ h.kind = "task" => st'[h.of] = "new"
               /\ h.kind = "await" => st'[h.in] = "waiting"
               /\ st'[h.in] # "final"
    <3>1. CASE h = new BY <1>3, <1>4, <1>6, <1>8, <1>9, <3>1
    <3>2. CASE h \in handles /\ h.of # f
      BY <1>3, <1>4, <1>8, <1>9, <3>2 DEF HandleInv
    <3> QED BY <1>8, <3>1, <3>2
  <2>2. \A h, j \in handles' : h.kind = "await" /\ j.kind = "await" /\ h.in = j.in => h = j
    BY <1>3, <1>8 DEF HandleInv
  <2>3. \A x \in Frames : Alive(x)' /\ (\A h \in handles' : h.of # x) => x \in lost' \cup {Root}
    BY SMT, <1>3, <1>4, <1>9 DEF HandleInv
  <2> QED BY <2>1, <2>2, <2>3 DEF HandleInv
<1>11. ParentInv'
  <2>1. \A p, x : Handle("await", p, x) # old
    BY <1>2 DEF Handle
  <2> QED BY <1>4, <1>9, <2>1 DEF ParentInv
<1>12. NoCycle(handles')
  <2>1. \A h \in handles' : (h.in = k /\ h.of = f) \/ \E j \in handles : j.in = h.in /\ j.of = h.of
    BY <1>3, <1>8
  <2>2. \A h \in handles' : h.of = k => h.in = g
    BY SMT, <1>3, <1>5, <1>8 DEF HandleInv
  <2> QED BY SMT, <1>3, <2>1, <2>2, NoCycleGive
<1>13. StackInv'
  <2>1. \A h \in handles : h.of \in Reach({old.of}, handles)
                           \/ \E j \in handles' : j.in = h.in /\ j.of = h.of
    BY SMT, <1>3, <1>4, <1>7, ReachClosed
  <2>2. \A i \in DOMAIN stack : st'[stack[i]] = "running"
    BY <1>4 DEF StackInv
  <2> QED BY <1>1, <1>3, <1>4, <1>7, <2>1, <2>2, StackStays
<1>14. TypeOK' /\ PendingInv'
  BY <1>4, <1>7 DEF TypeOK, PendingInv, HandleSet
<1> QED BY <1>10, <1>11, <1>12, <1>13, <1>14

\* A new frame, in a Task of the top.
LEMMA OwnCreate ==
  ASSUME OwnInv, NEW g \in Frames, NEW f \in Frames, Create(g, f)
  PROVE  OwnInv'
<1> USE DEF OwnInv
<1>1. /\ Top(g) /\ st[f] = "none" /\ st' = [st EXCEPT ![f] = "new"]
      /\ UNCHANGED <<parent, stack, pending, blocks, lost, abandoned, root_threw, ended, crashed>>
  BY DEF Create
<1>2. PICK new : new = Handle("task", g, f)
  OBVIOUS
<1>3. new.in = g /\ new.of = f /\ new.kind = "task" /\ new \in HandleSet
  BY <1>2 DEF Handle, HandleSet, Kinds
<1>4. handles' = handles \cup {new}
  BY <1>2 DEF Create
<1>5. st[g] = "running" /\ g # f
  BY <1>1, TopRuns
<1>6. \A h \in handles : h.in # f /\ h.of # f /\ h.in \in Frames /\ h.of \in Frames
  BY <1>1 DEF HandleInv, Alive, TypeOK
<1>7. st'[f] = "new" /\ \A x \in Frames : x # f => st'[x] = st[x]
  BY <1>1 DEF TypeOK
<1>8. \A x \in Frames : Alive(x)' <=> Alive(x) \/ x = f
  BY <1>7 DEF Alive
<1>9. HandleInv'
  <2>1. ASSUME NEW h \in handles'
        PROVE  /\ Alive(h.in)' /\ Alive(h.of)'
               /\ \A j \in handles' : j.of = h.of => j = h
               /\ h.kind = "task" => st'[h.of] = "new"
               /\ h.kind = "await" => st'[h.in] = "waiting"
               /\ st'[h.in] # "final"
    <3>1. CASE h = new
      <4>1. Alive(g) /\ g \in Frames
        BY <1>5 DEF Alive
      <4> QED BY <1>3, <1>4, <1>5, <1>6, <1>7, <1>8, <3>1, <4>1
    <3>2. CASE h \in handles
      BY <1>3, <1>4, <1>6, <1>7, <1>8, <3>2 DEF HandleInv
    <3> QED BY <1>4, <3>1, <3>2
  <2>2. \A h, j \in handles' : h.kind = "await" /\ j.kind = "await" /\ h.in = j.in => h = j
    BY SMT, <1>3, <1>4 DEF HandleInv
  <2>3. \A x \in Frames : Alive(x)' /\ (\A h \in handles' : h.of # x) => x \in lost' \cup {Root}
    BY <1>1, <1>3, <1>4, <1>8 DEF HandleInv
  <2> QED BY <2>1, <2>2, <2>3 DEF HandleInv
<1>10. ParentInv'
  <2>1. \A x \in Frames : \A p \in parent[x] : p \in Frames
    BY DEF TypeOK
  <2>2. parent[f] = {}
    BY <1>1 DEF ParentInv
  <2>3. \A x \in Frames : Alive(x)' => \A p \in parent'[x] :
          st'[p] = "waiting" /\ Handle("await", p, x) \in handles'
    BY SMT, <1>1, <1>4, <1>7, <1>8, <2>1, <2>2 DEF ParentInv
  <2>4. \A x \in Frames : st'[x] = "none" => parent'[x] = {}
    BY <1>1, <1>7 DEF ParentInv
  <2> QED BY <2>3, <2>4 DEF ParentInv
<1>11. NoCycle(handles')
  BY <1>2, <1>4, <1>5, <1>6, NoCycleNew
<1>12. handles' \in SUBSET HandleSet
  BY <1>3, <1>4 DEF TypeOK, HandleSet
<1>13. StackInv'
  <2>1. PICK m : m = Len(stack)
    OBVIOUS
  <2>2. /\ m \in 0..Len(stack) /\ DOMAIN stack = 1..m /\ stack' \in Seq(Frames)
        /\ Len(stack') = m /\ \A i \in 1..m : stack'[i] = stack[i] /\ stack[i] \in Frames
    BY SMT, <1>1, <2>1 DEF TypeOK
  <2>3. \A i \in 1..m : st'[stack[i]] = "running"
    BY SMT, <1>1, <1>7, <2>2 DEF StackInv
  <2>4. \A h \in handles : \E k \in handles' : k.in = h.in /\ k.of = h.of
    BY <1>4
  <2> QED BY <1>12, <2>2, <2>3, <2>4, StackSame
<1>14. PendingInv'
  BY <1>1, <1>7 DEF PendingInv, TypeOK
<1>15. TypeOK'
  <2>1. st' \in [Frames -> Status] /\ \A x \in Frames : st'[x] = "blocked" => x \in pending'
    BY <1>1, <1>7 DEF TypeOK, Status
  <2> QED BY <1>1, <1>12, <2>1 DEF TypeOK, HandleSet, Status
<1> QED BY <1>9, <1>10, <1>11, <1>13, <1>14, <1>15

\* A handle taken, or forgotten.
LEMMA OwnLetGo ==
  ASSUME OwnInv, NEW g \in Frames, NEW f \in Frames, LetGo(g, f)
  PROVE  OwnInv'
<1> USE DEF OwnInv
<1>1. PICK kind \in {"task", "join"} :
        Handle(kind, g, f) \in handles /\ handles' = handles \ {Handle(kind, g, f)}
  BY DEF LetGo
<1>2. PICK old \in handles : old = Handle(kind, g, f)
  BY <1>1
<1>3. old.in = g /\ old.of = f /\ old.kind # "await"
  BY <1>2 DEF Handle
<1>4. /\ Top(g) /\ handles' = handles \ {old} /\ lost' = lost \cup {f}
      /\ UNCHANGED <<st, parent, stack, pending, blocks, abandoned, root_threw, ended, crashed>>
  BY <1>1, <1>2 DEF LetGo
<1>5. handles \in SUBSET HandleSet /\ handles' \in SUBSET HandleSet
  BY <1>4 DEF TypeOK, HandleSet
<1>6. \A x : Alive(x)' <=> Alive(x)
  BY <1>4 DEF Alive
<1>7. HandleInv'
  <2>1. \A x \in Frames : Alive(x)' /\ (\A h \in handles' : h.of # x) => x \in lost' \cup {Root}
    BY <1>3, <1>4, <1>6 DEF HandleInv
  <2> QED BY SMT, <1>4, <1>6, <2>1 DEF HandleInv
<1>8. ParentInv'
  <2>1. \A p, x : Handle("await", p, x) # old
    BY SMT, <1>3 DEF Handle
  <2> QED BY <1>4, <1>6, <2>1 DEF ParentInv
<1>9. NoCycle(handles')
  BY <1>4, NoCycleSub
<1>10. StackInv'
  <2>1. \A h \in handles : h.of \in Reach({old.of}, handles)
                           \/ \E j \in handles' : j.in = h.in /\ j.of = h.of
    BY <1>3, <1>4, <1>5, ReachClosed
  <2>2. \A i \in DOMAIN stack : st'[stack[i]] = "running"
    BY <1>4 DEF StackInv
  <2> QED BY <1>3, <1>4, <1>5, <2>1, <2>2, StackStays
<1>11. TypeOK' /\ PendingInv'
  BY <1>4, <1>5 DEF TypeOK, PendingInv, HandleSet
<1> QED BY <1>7, <1>8, <1>9, <1>10, <1>11

\* ~Task, ~JoinHandle: what the top owns is destroyed.
LEMMA OwnDrop ==
  ASSUME OwnInv, NEW g \in Frames, NEW f \in Frames, Drop(g, f)
  PROVE  OwnInv'
<1> USE DEF OwnInv
<1>1. PICK kind \in {"task", "join"} : Handle(kind, g, f) \in handles
  BY DEF Drop
<1>2. PICK old \in handles : old = Handle(kind, g, f)
  BY <1>1
<1>3. old.in = g /\ old.of = f
  BY <1>2 DEF Handle
<1>4. PICK D : D = Reach({f}, handles)
  OBVIOUS
<1>5. handles \in SUBSET HandleSet /\ D \in SUBSET Frames /\ Closed(D, handles)
  BY <1>4, ReachClosed DEF TypeOK, HandleSet
<1>6. /\ Top(g)
      /\ st' = [x \in Frames |-> IF x \in D THEN "dead" ELSE st[x]]
      /\ handles' = {h \in handles : h.in \notin D /\ h.of \notin D}
      /\ abandoned' = abandoned \cup Unfinished(D)
      /\ UNCHANGED <<parent, stack, pending, blocks, lost, root_threw, ended, crashed>>
  BY SMT, <1>4, CascadeIsReach DEF Drop, Destroy
<1>7. \A x \in D : st[x] = "blocked" => x \in abandoned'
  BY <1>6 DEF Unfinished
<1>8. st \in [Frames -> Status]
  BY DEF TypeOK, Status
<1>9. /\ st' \in [Frames -> Status] /\ handles' \in SUBSET HandleSet
      /\ \A x \in Frames : st'[x] = "blocked" => x \in pending'
      /\ HandleInv' /\ ParentInv' /\ PendingInv' /\ NoCycle(handles')
      /\ \A h \in handles : h.of \in D \/ \E k \in handles' : k.in = h.in /\ k.of = h.of
  BY <1>5, <1>6, <1>7, <1>8, DestroyKeeps
<1>10. StackInv'
  <2>1. \A i \in DOMAIN stack : stack[i] \in Frames \ D
    <3>1. \A i \in DOMAIN stack : stack[i] \notin Reach({old.of}, handles)
      BY <1>3, <1>6, StackSafe
    <3>2. \A i \in DOMAIN stack : stack[i] \in Frames
      BY SMT DEF TypeOK
    <3> QED BY <1>3, <1>4, <3>1, <3>2
  <2>2. \A i \in DOMAIN stack : st'[stack[i]] = "running"
    BY <1>6, <2>1 DEF StackInv
  <2>3. D = Reach({old.of}, handles)
    BY <1>3, <1>4
  <2> QED BY <1>3, <1>6, <1>9, <2>2, <2>3, StackStays
<1>11. TypeOK'
  <2>1. abandoned' \subseteq Frames
    BY <1>5, <1>6 DEF TypeOK, Unfinished
  <2> QED BY <1>6, <1>9, <2>1 DEF TypeOK, HandleSet, Status
<1> QED BY <1>9, <1>10, <1>11

\* A coroutine that is done owns nothing.
LEMMA FinalAlone ==
  ASSUME TypeOK, HandleInv, NEW f \in Frames, st[f] = "final"
  PROVE  Cascade({f}) = {f} /\ Closed({f}, handles)
<1>1. handles \in SUBSET HandleSet
  BY DEF TypeOK, HandleSet
<1>2. Closed({f}, handles)
  BY DEF Closed, HandleInv
<1>3. Reach({f}, handles) \subseteq {f} /\ {f} \subseteq Reach({f}, handles)
  BY <1>1, <1>2, ReachLeast, ReachClosed
<1> QED BY <1>2, <1>3, CascadeIsReach

\* A coroutine that is done is destroyed, by its awaiter or by block_on.
LEMMA OwnDone ==
  ASSUME OwnInv, NEW f \in Frames, st[f] = "final", Destroy(st, {f}),
         ended' \in BOOLEAN,
         UNCHANGED <<parent, stack, pending, blocks, lost, abandoned, root_threw, crashed>>
  PROVE  OwnInv'
<1> USE DEF OwnInv
<1>1. PICK D : D = {f}
  OBVIOUS
<1>2. D \in SUBSET Frames /\ Closed(D, handles) /\ Cascade({f}) = D
  BY <1>1, FinalAlone
<1>3. /\ st' = [x \in Frames |-> IF x \in D THEN "dead" ELSE st[x]]
      /\ handles' = {h \in handles : h.in \notin D /\ h.of \notin D}
  BY <1>2 DEF Destroy
<1>4. \A x \in D : st[x] = "blocked" => x \in abandoned'
  BY <1>1
<1>5. st \in [Frames -> Status]
  BY DEF TypeOK, Status
<1>6. /\ st' \in [Frames -> Status] /\ handles' \in SUBSET HandleSet
      /\ \A x \in Frames : st'[x] = "blocked" => x \in pending'
      /\ HandleInv' /\ ParentInv' /\ PendingInv' /\ NoCycle(handles')
      /\ \A h \in handles : h.of \in D \/ \E k \in handles' : k.in = h.in /\ k.of = h.of
  BY <1>2, <1>3, <1>4, <1>5, DestroyKeeps
<1>7. StackInv'
  <2>1. PICK m : m = Len(stack)
    OBVIOUS
  <2>2. /\ m \in 0..Len(stack) /\ DOMAIN stack = 1..m /\ stack' \in Seq(Frames)
        /\ Len(stack') = m /\ \A i \in 1..m : stack'[i] = stack[i] /\ stack[i] \in Frames
    BY SMT, <2>1 DEF TypeOK
  <2>3. \A i \in 1..m : stack[i] \notin D /\ st'[stack[i]] = "running" /\ stack'[i] = stack[i]
    BY <1>1, <1>3, <2>2 DEF StackInv
  <2> QED BY <1>2, <1>6, <2>2, <2>3, StackKept
<1>8. TypeOK'
  BY <1>6 DEF TypeOK, HandleSet, Status
<1> QED BY <1>6, <1>7, <1>8

\* The end of a coroutine nobody waits for: its locals are destroyed.
LEMMA OwnFinishAlone ==
  ASSUME OwnInv, NEW g \in Frames, NEW threw \in BOOLEAN, Finish(g, threw), parent[g] = {}
  PROVE  OwnInv'
<1> USE DEF OwnInv
<1>1. PICK S : S = {h.of : h \in {k \in handles : k.in = g}}
  OBVIOUS
<1>2. PICK D : D = Reach(S, handles)
  OBVIOUS
<1>3. handles \in SUBSET HandleSet /\ S \in SUBSET Frames
  BY SMT, <1>1 DEF TypeOK, HandleSet
<1>4. D \in SUBSET Frames /\ S \subseteq D /\ Closed(D, handles)
  BY <1>2, <1>3, ReachClosed
<1>5. PICK ns : ns = [st EXCEPT ![g] = "final"]
  OBVIOUS
<1>6. /\ Top(g) /\ abandoned' = abandoned \cup Unfinished(Reach({g}, handles) \ {g})
      /\ root_threw' = (IF g = Root THEN threw ELSE root_threw)
      /\ st' = [x \in Frames |-> IF x \in D THEN "dead" ELSE ns[x]]
      /\ handles' = {h \in handles : h.in \notin D /\ h.of \notin D}
      /\ stack' = Below
      /\ UNCHANGED <<parent, pending, blocks, lost, ended, crashed>>
  <2>1. Cascade(S) = D /\ Cascade({g}) = Reach({g}, handles)
    BY <1>2, CascadeIsReach
  <2>2. Destroy(ns, S)
    BY <1>1, <1>5 DEF Finish
  <2>3. /\ st' = [x \in Frames |-> IF x \in D THEN "dead" ELSE ns[x]]
        /\ handles' = {h \in handles : h.in \notin D /\ h.of \notin D}
    BY <2>1, <2>2 DEF Destroy
  <2>4. /\ Top(g) /\ abandoned' = abandoned \cup Unfinished(Reach({g}, handles) \ {g})
        /\ root_threw' = (IF g = Root THEN threw ELSE root_threw)
        /\ stack' = Below
        /\ UNCHANGED <<parent, pending, blocks, lost, ended, crashed>>
    BY <2>1 DEF Finish
  <2> QED BY <2>3, <2>4
<1>7. /\ Len(stack) \in DOMAIN stack /\ stack[Len(stack)] = g /\ st[g] = "running"
      /\ Below \in Seq(Frames) /\ Len(Below) = Len(stack) - 1
      /\ \A i \in 1..(Len(stack) - 1) : Below[i] = stack[i] /\ stack[i] # g
  BY <1>6, TopRuns
<1>8. ASSUME NEW i \in DOMAIN stack PROVE stack[i] \notin D
  <2> SUFFICES ASSUME stack[i] \in D PROVE FALSE
    OBVIOUS
  <2>1. PICK c \in S : stack[i] \in Reach({c}, handles)
    BY <1>2, <1>3, ReachUnion
  <2>2. PICK h \in handles : h.in = g /\ h.of = c
    BY <1>1
  <2>3. stack[i] \notin Reach({h.of}, handles)
    BY <1>6, <2>2, StackSafe
  <2> QED BY <2>1, <2>2, <2>3
<1>9. /\ ns \in [Frames -> Status] /\ ns[g] = "final"
      /\ \A x \in Frames : x # g => ns[x] = st[x]
  BY <1>5 DEF TypeOK, Status
<1>10. \A x \in D : st[x] = "blocked" => x \in abandoned'
  <2>1. Closed(Reach({g}, handles), handles) /\ g \in Reach({g}, handles)
        /\ Reach({g}, handles) \in SUBSET Frames
    BY SMT, <1>3, ReachClosed
  <2>2. S \subseteq Reach({g}, handles)
    BY <1>1, <2>1 DEF Closed
  <2>3. D \subseteq Reach({g}, handles)
    BY <1>2, <2>1, <2>2, ReachLeast
  <2>4. g \notin D
    BY <1>7, <1>8
  <2> QED BY <1>6, <2>3, <2>4 DEF Unfinished
<1>11. \A x \in Frames \ D :
         \/ ns[x] = st[x]
         \/ /\ ns[x] = "final" /\ st[x] = "running"
            /\ \A h \in handles : h.in = x => h.of \in D
         \/ /\ ns[x] = "running" /\ st[x] = "waiting"
            /\ \E y \in D : Handle("await", x, y) \in handles
  BY SMT, <1>1, <1>4, <1>7, <1>9
<1>12. /\ st' \in [Frames -> Status] /\ handles' \in SUBSET HandleSet
       /\ \A x \in Frames : st'[x] = "blocked" => x \in pending'
       /\ HandleInv' /\ ParentInv' /\ PendingInv' /\ NoCycle(handles')
       /\ \A h \in handles : h.of \in D \/ \E k \in handles' : k.in = h.in /\ k.of = h.of
  <2>1. abandoned \subseteq abandoned' /\ UNCHANGED <<parent, lost, pending>>
    BY <1>6
  <2>2. /\ st' = [x \in Frames |-> IF x \in D THEN "dead" ELSE ns[x]]
        /\ handles' = {h \in handles : h.in \notin D /\ h.of \notin D}
    BY <1>6
  <2>3. D \in SUBSET Frames /\ Closed(D, handles) /\ ns \in [Frames -> Status]
    BY <1>4, <1>9
  <2> QED BY <1>10, <1>11, <2>1, <2>2, <2>3, DestroyKeeps
<1>13. StackInv'
  <2>1. PICK m : m = Len(stack) - 1
    OBVIOUS
  <2>2. m \in Nat /\ m \in 0..Len(stack) /\ \A i \in 1..m : i \in DOMAIN stack
    BY SMT, <1>7, <2>1 DEF TypeOK
  <2>3. /\ stack' \in Seq(Frames) /\ Len(stack') = m
        /\ \A i \in 1..m : stack'[i] = stack[i] /\ stack[i] # g /\ stack[i] \in Frames
    BY SMT, <1>6, <1>7, <2>1, <2>2 DEF TypeOK
  <2>4. \A i \in 1..m : stack[i] \notin D /\ st'[stack[i]] = "running" /\ stack'[i] = stack[i]
    BY <1>6, <1>8, <1>9, <2>2, <2>3 DEF StackInv
  <2> QED BY <1>4, <1>12, <2>2, <2>3, <2>4, StackKept
<1>14. TypeOK'
  <2>1. abandoned' \subseteq Frames
    BY SMT, <1>3, <1>6, ReachClosed DEF TypeOK, Unfinished
  <2>2. root_threw' \in BOOLEAN
    BY <1>6 DEF TypeOK
  <2> QED BY <1>6, <1>7, <1>12, <2>1, <2>2 DEF TypeOK, HandleSet, Status
<1> QED BY <1>12, <1>13, <1>14

\* The end of a coroutine that p waits for: p goes on, and its awaiter destroys it.
LEMMA OwnFinishTo ==
  ASSUME OwnInv, NEW g \in Frames, NEW threw \in BOOLEAN, Finish(g, threw), parent[g] # {}
  PROVE  OwnInv'
<1> USE DEF OwnInv
<1>1. PICK D : D = Reach({g}, handles)
  OBVIOUS
<1>2. PICK p \in parent[g] :
        /\ Destroy([st EXCEPT ![p] = "running"], {g})
        /\ stack' = Append(Below, p)
        /\ crashed' = IF st[p] = "waiting" THEN crashed ELSE "uaf"
  BY DEF Finish
<1>3. PICK ns : ns = [st EXCEPT ![p] = "running"]
  OBVIOUS
<1>4. /\ Top(g) /\ abandoned' = abandoned \cup Unfinished(D \ {g})
      /\ root_threw' = (IF g = Root THEN threw ELSE root_threw)
      /\ st' = [x \in Frames |-> IF x \in D THEN "dead" ELSE ns[x]]
      /\ handles' = {h \in handles : h.in \notin D /\ h.of \notin D}
      /\ UNCHANGED <<parent, pending, blocks, lost, ended>>
  <2>1. Cascade({g}) = D
    BY <1>1, CascadeIsReach
  <2>2. /\ st' = [x \in Frames |-> IF x \in D THEN "dead" ELSE ns[x]]
        /\ handles' = {h \in handles : h.in \notin D /\ h.of \notin D}
    BY <1>2, <1>3, <2>1 DEF Destroy
  <2>3. Top(g) /\ abandoned' = abandoned \cup Unfinished(D \ {g})
    BY <2>1 DEF Finish
  <2>4. /\ root_threw' = (IF g = Root THEN threw ELSE root_threw)
        /\ UNCHANGED <<parent, pending, blocks, lost, ended>>
    BY DEF Finish
  <2> QED BY <2>2, <2>3, <2>4
<1>5. /\ Len(stack) \in DOMAIN stack /\ stack[Len(stack)] = g /\ st[g] = "running"
      /\ Below \in Seq(Frames) /\ Len(Below) = Len(stack) - 1
      /\ \A i \in 1..(Len(stack) - 1) : Below[i] = stack[i] /\ stack[i] # g
  BY <1>4, TopRuns
<1>6. handles \in SUBSET HandleSet /\ D \in SUBSET Frames /\ g \in D /\ Closed(D, handles)
  BY <1>1, ReachClosed DEF TypeOK, HandleSet
<1>7. p \in Frames /\ st[p] = "waiting" /\ Handle("await", p, g) \in handles
  BY <1>5 DEF ParentInv, Alive, TypeOK
<1>8. PICK own \in handles : own = Handle("await", p, g) /\ own.in = p /\ own.of = g
  BY <1>7 DEF Handle
<1>9. p \notin D
  BY <1>1, <1>6, <1>8, NoLoop
<1>10. ASSUME NEW i \in DOMAIN stack, i < Len(stack)
       PROVE  stack[i] \in Frames \ D /\ p \in Reach({stack[i]}, handles)
  <2>1. stack[i] \in Frames
    BY SMT DEF TypeOK
  <2>2. g \in Reach({stack[i]}, handles) /\ g # stack[i]
    BY <1>5, <1>10 DEF StackInv
  <2>3. PICK h \in handles : h.of = g /\ h.in \in Reach({stack[i]}, handles)
    BY SMT, <1>6, <2>1, <2>2, ReachOwner
  <2>4. h = own
    BY <1>8, <2>3 DEF HandleInv
  <2>5. p \in Reach({stack[i]}, handles)
    BY <1>8, <2>3, <2>4
  <2>6. stack[i] \notin D
    BY <1>1, <1>6, <1>9, <2>5, ReachTrans
  <2> QED BY <2>1, <2>5, <2>6
<1>11. /\ ns \in [Frames -> Status] /\ ns[p] = "running"
       /\ \A x \in Frames : x # p => ns[x] = st[x]
  BY <1>3, <1>7 DEF TypeOK, Status
<1>12. \A x \in D : st[x] = "blocked" => x \in abandoned'
  BY <1>4, <1>5 DEF Unfinished
<1>13. \A x \in Frames \ D :
         \/ ns[x] = st[x]
         \/ /\ ns[x] = "final" /\ st[x] = "running"
            /\ \A h \in handles : h.in = x => h.of \in D
         \/ /\ ns[x] = "running" /\ st[x] = "waiting"
            /\ \E y \in D : Handle("await", x, y) \in handles
  BY <1>6, <1>7, <1>11
<1>14. /\ st' \in [Frames -> Status] /\ handles' \in SUBSET HandleSet
       /\ \A x \in Frames : st'[x] = "blocked" => x \in pending'
       /\ HandleInv' /\ ParentInv' /\ PendingInv' /\ NoCycle(handles')
       /\ \A h \in handles : h.of \in D \/ \E k \in handles' : k.in = h.in /\ k.of = h.of
  <2>1. abandoned \subseteq abandoned' /\ UNCHANGED <<parent, lost, pending>>
    BY <1>4
  <2>2. /\ st' = [x \in Frames |-> IF x \in D THEN "dead" ELSE ns[x]]
        /\ handles' = {h \in handles : h.in \notin D /\ h.of \notin D}
    BY <1>4
  <2> QED BY SMT, <1>6, <1>11, <1>12, <1>13, <2>1, <2>2, DestroyKeeps
<1>15. StackInv' /\ stack' \in Seq(Frames)
  <2>1. PICK m : m = Len(stack) - 1
    OBVIOUS
  <2>2. /\ m \in Nat /\ m \in 0..Len(stack)
        /\ \A i \in 1..m : i \in DOMAIN stack /\ i < Len(stack)
    <3>1. PICK n \in Nat : n = Len(stack) /\ DOMAIN stack = 1..n
      BY SMT DEF TypeOK
    <3> QED BY SMT, <1>5, <2>1, <3>1
  <2>3. /\ stack' \in Seq(Frames) /\ Len(stack') = m + 1 /\ stack'[m + 1] = p
        /\ \A i \in 1..m : stack'[i] = Below[i]
    BY SMT, <1>2, <1>5, <1>7, <2>1, <2>2
  <2>4. \A i \in 1..m : stack'[i] = stack[i] /\ stack[i] # g
    BY <1>5, <2>1, <2>3
  <2>5. \A i \in 1..m : st[stack[i]] = "running" /\ stack[i] # p
    BY <1>7, <2>2 DEF StackInv
  <2>6. \A i \in 1..m : stack[i] \notin D /\ st'[stack[i]] = "running" /\ stack'[i] = stack[i]
    BY <1>4, <1>10, <1>11, <2>2, <2>4, <2>5
  <2>7. \A i \in 1..m : p \in Reach({stack[i]}, handles)
    BY <1>10, <2>2
  <2>8. st[p] # "running" /\ st'[p] = "running"
    BY <1>4, <1>7, <1>9, <1>11
  <2> QED BY <1>6, <1>7, <1>9, <1>14, <2>2, <2>3, <2>6, <2>7, <2>8, StackKept
<1>16. TypeOK'
  <2>1. abandoned' \subseteq Frames
    BY <1>4, <1>6 DEF TypeOK, Unfinished
  <2>2. root_threw' \in BOOLEAN
    BY <1>4 DEF TypeOK
  <2>3. crashed' \in {"no", "terminate", "uaf"}
    BY <1>2 DEF TypeOK
  <2> QED BY <1>4, <1>14, <1>15, <2>1, <2>2, <2>3 DEF TypeOK, HandleSet, Status
<1> QED BY <1>14, <1>15, <1>16

\* A frame that suspends, is resumed, or is the handler of a connection.
LEMMA StatusChange ==
  ASSUME TypeOK, HandleInv, ParentInv, NEW g \in Frames,
         NEW s \in {"running", "blocked", "accepting"}, st' = [st EXCEPT ![g] = s],
         st[g] \in {"running", "blocked"} \/ (st[g] = "none" /\ g \in lost'),
         lost \subseteq lost', UNCHANGED <<handles, parent>>
  PROVE  HandleInv' /\ ParentInv'
<1>1. st'[g] = s /\ \A x \in Frames : x # g => st'[x] = st[x]
  BY DEF TypeOK
<1>2. \A x \in Frames : Alive(x)' <=> Alive(x) \/ x = g
  BY <1>1 DEF Alive
<1>3. \A h \in handles : h.in \in Frames /\ h.of \in Frames
  BY DEF TypeOK
<1>4. HandleInv'
  <2>1. ASSUME NEW h \in handles'
        PROVE  /\ Alive(h.in)' /\ Alive(h.of)'
               /\ \A j \in handles' : j.of = h.of => j = h
               /\ h.kind = "task" => st'[h.of] = "new"
               /\ h.kind = "await" => st'[h.in] = "waiting"
               /\ st'[h.in] # "final"
    BY SMT, <1>1, <1>2, <1>3 DEF HandleInv
  <2>2. \A h, j \in handles' : h.kind = "await" /\ j.kind = "await" /\ h.in = j.in => h = j
    BY DEF HandleInv
  <2>3. ASSUME NEW x \in Frames, Alive(x)', \A h \in handles' : h.of # x
        PROVE  x \in lost' \cup {Root}
    <3>1. CASE Alive(x) BY <2>3, <3>1 DEF HandleInv
    <3>2. CASE ~Alive(x) BY <1>2, <2>3, <3>2 DEF Alive
    <3> QED BY <3>1, <3>2
  <2> QED BY <2>1, <2>2, <2>3 DEF HandleInv
<1>5. ParentInv'
  <2>1. \A x \in Frames : \A p \in parent[x] : p \in Frames
    BY DEF TypeOK
  <2>2. ASSUME NEW x \in Frames, Alive(x)', NEW p \in parent'[x]
        PROVE  st'[p] = "waiting" /\ Handle("await", p, x) \in handles'
    <3>1. Alive(x)
      BY <1>2, <2>2 DEF ParentInv, Alive
    <3> QED BY <1>1, <2>1, <2>2, <3>1 DEF ParentInv
  <2>3. \A x \in Frames : st'[x] = "none" => parent'[x] = {}
    BY <1>1 DEF ParentInv
  <2> QED BY <2>2, <2>3 DEF ParentInv
<1> QED BY <1>4, <1>5

\* co_await of something outside, and the start of the accept loop.
LEMMA OwnSuspend ==
  ASSUME OwnInv, NEW g \in Frames, Block(g) \/ Listen(g)
  PROVE  OwnInv'
<1> USE DEF OwnInv
<1>1. Top(g) /\ st[g] = "running"
  BY TopRuns DEF Block, Listen
<1>2. handles \in SUBSET HandleSet
  BY DEF TypeOK, HandleSet
<1>3. CASE Block(g)
  <2>1. /\ st' = [st EXCEPT ![g] = "blocked"] /\ pending' = pending \cup {g} /\ stack' = Below
        /\ UNCHANGED <<handles, parent, lost, abandoned, root_threw, ended, crashed>>
        /\ blocks' = [blocks EXCEPT ![g] = @ + 1] /\ blocks[g] < MaxBlocks
    BY <1>3 DEF Block
  <2>2. HandleInv' /\ ParentInv'
    BY <1>1, <2>1, StatusChange
  <2>3. st'[g] = "blocked" /\ \A x \in Frames : x # g => st'[x] = st[x]
    BY <2>1 DEF TypeOK
  <2>4. StackInv' /\ stack' \in Seq(Frames)
    BY <1>1, <1>2, <2>1, <2>3, StackPop
  <2>5. PendingInv'
    BY <2>1, <2>3 DEF PendingInv, TypeOK
  <2>6. blocks' \in [Frames -> 0..MaxBlocks]
    BY SMT, <2>1, BlocksAssumption DEF TypeOK
  <2>7. \A x \in Frames : st'[x] = "blocked" => x \in pending'
    BY <2>1, <2>3 DEF TypeOK
  <2>8. TypeOK'
    BY <2>1, <2>4, <2>6, <2>7 DEF TypeOK
  <2> QED BY <2>1, <2>2, <2>4, <2>5, <2>8
<1>4. CASE Listen(g) /\ PrepAccept(g)
  <2>1. /\ st' = [st EXCEPT ![g] = "accepting"] /\ stack' = Below
        /\ UNCHANGED <<handles, parent, pending, blocks, lost, abandoned, root_threw, ended, crashed>>
    BY <1>4 DEF Listen, PrepAccept
  <2>2. HandleInv' /\ ParentInv'
    BY <1>1, <2>1, StatusChange
  <2>3. st'[g] = "accepting" /\ \A x \in Frames : x # g => st'[x] = st[x]
    BY <2>1 DEF TypeOK
  <2>4. StackInv' /\ stack' \in Seq(Frames)
    BY <1>1, <1>2, <2>1, <2>3, StackPop
  <2>5. PendingInv'
    BY <1>1, <2>1, <2>3 DEF PendingInv, TypeOK
  <2>6. \A x \in Frames : st'[x] = "blocked" => x \in pending'
    BY <2>1, <2>3 DEF TypeOK
  <2>7. TypeOK'
    BY <2>1, <2>4, <2>6 DEF TypeOK
  <2> QED BY <2>1, <2>2, <2>4, <2>5, <2>7
<1>5. CASE Listen(g) /\ InitSocketFails
  <2>1. /\ crashed' = "terminate"
        /\ UNCHANGED <<st, stack, handles, parent, pending, blocks, lost, abandoned, root_threw, ended>>
    BY <1>5 DEF Listen, InitSocketFails
  <2>2. TypeOK'
    BY <2>1 DEF TypeOK
  <2>3. HandleInv' /\ ParentInv' /\ StackInv' /\ PendingInv'
    BY SMT, <2>1 DEF HandleInv, ParentInv, StackInv, PendingInv, Alive
  <2> QED BY <2>1, <2>2, <2>3
<1> QED BY <1>3, <1>4, <1>5 DEF Listen

\* The ring resumes a frame, or the accept loop starts a handler.
LEMMA OwnRing ==
  ASSUME OwnInv, NEW f \in Frames, Resume(f) \/ Accept(f)
  PROVE  OwnInv'
<1> USE DEF OwnInv
<1>1. handles' = handles /\ parent' = parent /\ stack = <<>> /\ stack' \in {<<f>>, <<>>}
  BY DEF Resume, Accept, Idle
<1>2. CASE st' = st
  <2>1. /\ stack' = stack /\ lost' = lost /\ abandoned' = abandoned /\ pending' \subseteq pending
        /\ crashed' \in {"terminate", "uaf"} /\ UNCHANGED <<blocks, root_threw, ended>>
        /\ \A x \in pending : st[x] = "blocked" => x \in pending'
    BY <1>2 DEF Resume, Accept, TypeOK
  <2>2. TypeOK'
    BY <1>1, <1>2, <2>1 DEF TypeOK
  <2>3. HandleInv' /\ ParentInv'
    BY SMT, <1>1, <1>2, <2>1 DEF HandleInv, ParentInv, Alive
  <2>4. StackInv' /\ PendingInv'
    BY SMT, <1>1, <1>2, <2>1 DEF StackInv, PendingInv
  <2> QED BY <1>1, <2>2, <2>3, <2>4
<1>3. CASE st' # st
  <2>1. /\ st' = [st EXCEPT ![f] = "running"] /\ stack' = <<f>>
        /\ st[f] = "blocked" \/ (st[f] = "none" /\ f \in lost')
        /\ lost \subseteq lost' /\ lost' \subseteq lost \cup {f}
        /\ UNCHANGED <<blocks, abandoned, root_threw, ended, crashed>>
        /\ pending' = pending \ {f}
    <3>1. CASE Resume(f) BY <1>3, <3>1 DEF Resume
    <3>2. CASE Accept(f)
      <4>1. f \notin pending
        BY <3>2 DEF Accept, PendingInv
      <4> QED BY <1>3, <3>2, <4>1 DEF Accept
    <3> QED BY <3>1, <3>2
  <2>2. HandleInv' /\ ParentInv'
    BY <1>1, <2>1, StatusChange
  <2>3. st'[f] = "running" /\ \A x \in Frames : x # f => st'[x] = st[x]
    BY <2>1 DEF TypeOK
  <2>4. StackInv' /\ stack' \in Seq(Frames)
    <3>1. DOMAIN stack' = {1} /\ stack'[1] = f /\ stack' \in Seq(Frames)
      BY SMT, <2>1
    <3> QED BY SMT, <2>3, <3>1 DEF StackInv
  <2>5. PendingInv' /\ \A x \in Frames : st'[x] = "blocked" => x \in pending'
    BY <2>1, <2>3 DEF PendingInv, TypeOK
  <2>6. TypeOK'
    BY <1>1, <2>1, <2>4, <2>5 DEF TypeOK
  <2> QED BY <1>1, <2>2, <2>4, <2>5, <2>6
<1> QED BY <1>2, <1>3

\* Every step keeps the invariant.
LEMMA OwnStep == OwnInv /\ [Next]_vars => OwnInv'
<1> SUFFICES ASSUME OwnInv, [Next]_vars PROVE OwnInv'
  OBVIOUS
<1>1. CASE UNCHANGED vars
  <2>1. TypeOK'
    BY <1>1 DEF OwnInv, TypeOK, vars
  <2>2. HandleInv' /\ ParentInv' /\ StackInv' /\ PendingInv' /\ NoCycle(handles')
    BY SMT, <1>1 DEF OwnInv, HandleInv, ParentInv, StackInv, PendingInv, Alive, vars
  <2> QED BY <2>1, <2>2 DEF OwnInv
<1>2. ASSUME NEW g \in Frames, Step(g) PROVE OwnInv'
  <2>1. ASSUME NEW f \in Frames, JoinDone(g, f) PROVE OwnInv'
    <3>1. /\ st[f] = "final" /\ Destroy(st, {f}) /\ ended' = ended
          /\ UNCHANGED <<parent, stack, pending, blocks, lost, abandoned, root_threw, crashed>>
      BY <2>1 DEF JoinDone
    <3>2. ended' \in BOOLEAN
      BY <3>1 DEF OwnInv, TypeOK
    <3> QED BY <3>1, <3>2, OwnDone
  <2>2. ASSUME NEW threw \in BOOLEAN, Finish(g, threw) PROVE OwnInv'
    BY <2>2, OwnFinishAlone, OwnFinishTo
  <2> QED BY <1>2, <2>1, <2>2, OwnCreate, OwnAwaitTask, OwnSpawn, OwnJoinWait, OwnDrop,
             OwnLetGo, OwnGiveJoin, OwnSuspend DEF Step
<1>3. ASSUME NEW f \in Frames, Resume(f) \/ Accept(f) PROVE OwnInv'
  BY <1>3, OwnRing
<1>4. CASE BlockOnEnds
  <2>1. /\ st[Root] = "final" /\ ended' = TRUE /\ ended' \in BOOLEAN
        /\ UNCHANGED <<parent, stack, pending, blocks, lost, abandoned, root_threw, crashed>>
    BY <1>4 DEF BlockOnEnds
  <2>2. CASE root_threw
    <3>1. UNCHANGED <<st, handles>>
      BY <1>4, <2>2 DEF BlockOnEnds
    <3>2. TypeOK'
      BY <2>1, <3>1 DEF OwnInv, TypeOK
    <3>3. HandleInv'
      BY <2>1, <3>1 DEF OwnInv, HandleInv, Alive
    <3>4. ParentInv'
      BY <2>1, <3>1 DEF OwnInv, ParentInv, Alive
    <3>5. StackInv' /\ NoCycle(handles')
      BY <2>1, <3>1 DEF OwnInv, StackInv
    <3>6. PendingInv'
      BY <2>1, <3>1 DEF OwnInv, PendingInv
    <3> QED BY <3>2, <3>3, <3>4, <3>5, <3>6 DEF OwnInv
  <2>3. CASE ~root_threw
    BY <1>4, <2>1, <2>3, OwnDone, FramesAssumption DEF BlockOnEnds
  <2> QED BY <2>2, <2>3
<1> QED BY <1>1, <1>2, <1>3, <1>4 DEF Next

\* The invariant holds in every behaviour.
LEMMA OwnInvariant == Spec => []OwnInv
BY OwnInit, OwnStep, PTL DEF Spec

-----------------------------------------------------------------------------
(* The theorems.                                                            *)

\* Every frame is destroyed by exactly one object, for any number of coroutines:
\* Tasks, JoinHandles and their awaiters never share a frame, never outlive one,
\* and never leave one behind that was not let go by hand.
THEOREM OneOwner == Spec => []SingleOwner
<1>1. OwnInv => SingleOwner
  BY DEF OwnInv, HandleInv, SingleOwner
<1> QED BY OwnInvariant, <1>1, PTL

\* TaskFinalAwaiter always finds its parent alive and suspended at the co_await
\* that owns the coroutine, and what has control is never destroyed.
THEOREM ParentIsThere == Spec => []ParentWaits
<1>1. OwnInv => ParentWaits
  BY DEF OwnInv, ParentInv, StackInv, ParentWaits
<1> QED BY OwnInvariant, <1>1, PTL

\* A dangling address in the ring goes back to a JoinHandle that was destroyed or
\* overwritten early.
THEOREM DanglingIsAbandoned == Spec => []DanglingAbandoned
<1>1. OwnInv => DanglingAbandoned
  BY DEF OwnInv, PendingInv, DanglingAbandoned
<1> QED BY OwnInvariant, <1>1, PTL
=============================================================================
