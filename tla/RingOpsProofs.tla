---------------------------- MODULE RingOpsProofs ----------------------------
(***************************************************************************)
(* TLAPS proofs about RingOps, for every set of operations and buffers and *)
(* every size of the submission queue: the completions that ref_count      *)
(* counts are the references to an Operation, its result is what happened, *)
(* and a provided buffer has one owner, which it loses in one case only.   *)
(***************************************************************************)
EXTENDS RingOps, FiniteSetTheorems, TLAPS

\* A completion of that kind is still to be dispatched for operation o.
Due(o, kind) ==
  \/ \E c \in owed : c.op = o /\ c.kind = kind
  \/ \E i \in DOMAIN cq : cq[i].op = o /\ cq[i].kind = kind

\* Operation o as await_suspend leaves it, and while nothing was decided for it.
Started(o) ==
  /\ phase[o] = "pending" /\ result[o] = "zero" /\ bid[o] = None
  /\ ref_count[o] = IF linked[o] THEN 2 ELSE 1

Fresh(o) == Started(o) /\ ~Due(o, "io") /\ ~Due(o, "to")

\* What the SQEs, the requests and the CQEs say of their operation.
SqeInv ==
  \A i \in DOMAIN sq :
    \/ sq[i].kind = "provide" /\ sq[i].op = None /\ sq[i].buf \in Buffers
    \/ /\ sq[i].kind \in {"io", "to"} /\ sq[i].op \in Ops /\ sq[i].buf = None
       /\ sq[i].op \notin issued /\ Fresh(sq[i].op)

IssuedInv == \A o \in issued : Fresh(o)

Answers(c) ==
  /\ c.kind \in {"io", "to"} /\ c.op \in Ops /\ phase[c.op] = "pending"
  /\ c.kind = "io" => c.res = outcome[c.op].io
  /\ c.kind = "to" => c.res = outcome[c.op].to /\ c.buf = None /\ linked[c.op]

CqeInv ==
  /\ \A c \in owed : Answers(c)
  /\ \A i \in DOMAIN cq : cq[i] = ProvideCqe \/ Answers(cq[i])
  /\ \A c, d \in owed : c.op = d.op /\ c.kind = d.kind => c = d
  /\ \A c \in owed, i \in DOMAIN cq : ~(c.op = cq[i].op /\ c.kind = cq[i].kind)
  /\ \A i, j \in DOMAIN cq :
       cq[i].op \in Ops /\ cq[i].op = cq[j].op /\ cq[i].kind = cq[j].kind => i = j

\* ref_count is the number of completions to come, and result what those that
\* came have left in it.
CountInv ==
  \A o \in Ops : Due(o, "io") \/ Due(o, "to") =>
    /\ ref_count[o] = IF Due(o, "io") /\ Due(o, "to") THEN 2 ELSE 1
    /\ outcome[o].io = "canceled" => outcome[o].to = "etime"
    /\ result[o] = CASE ~Due(o, "io") /\ outcome[o].io # "canceled" -> outcome[o].io
                     [] ~Due(o, "to") /\ outcome[o].to = "etime" -> "etime"
                     [] OTHER -> "zero"

QueueInv == SqeInv /\ IssuedInv /\ CqeInv /\ CountInv

OpInv == TypeOK /\ QueueInv /\ ResultIsOutcome

\* Operation o has buffer b: in a CQE, in its bid while it waits, or in its IOResult.
OpHas(o, b) ==
  \/ \E c \in owed : c.op = o /\ c.buf = b
  \/ \E i \in DOMAIN cq : cq[i].op = o /\ cq[i].buf = b
  \/ phase[o] = "pending" /\ bid[o] = b
  \/ held[o] = b

Provided(b) == \E i \in DOMAIN sq : sq[i].kind = "provide" /\ sq[i].buf = b

OwnerInv ==
  /\ \A o \in Ops : held[o] # None => phase[o] = "resumed"
  /\ \A b \in Buffers :
       /\ \A o, p \in Ops : OpHas(o, b) /\ OpHas(p, b) => o = p
       /\ \A o \in Ops : OpHas(o, b) => b \notin free /\ ~Provided(b)
       /\ Provided(b) => b \notin free

-----------------------------------------------------------------------------
\* The leaves are first-order: Zenon proves those that do not cite SMT.
USE Zenon

(* The submission queue.  Everything the loop thread does to it comes to    *)
(* this: SQEs of N are added, the kernel may have consumed the others, and  *)
(* the buffers of F may have been put into its buffer ring.                 *)

\* No buffer gets lost in the queues: each stays with the kernel or in its SQE, or
\* goes from there to the kernel.
Kept(N, F) ==
  /\ free \subseteq free' /\ F \subseteq free'
  /\ \A b : Provided(b) => Provided(b)' \/ b \in free'
  /\ \A e \in N : e.kind = "provide" => Provided(e.buf)'

Shift(N, F) ==
  /\ sq' \in Seq(Sqes) /\ Len(sq') <= Entries
  /\ cq' \in Seq(Cqes)
  /\ \A i \in DOMAIN cq : i \in DOMAIN cq' /\ cq'[i] = cq[i]
  /\ \A i \in DOMAIN cq' : i \in DOMAIN cq \/ cq'[i] = ProvideCqe
  /\ \/ /\ issued' = issued /\ free' \subseteq free \cup F
        /\ \A i \in DOMAIN sq' : sq'[i] \in N \/ \E j \in DOMAIN sq : sq'[i] = sq[j]
     \/ /\ \A i \in DOMAIN sq' : sq'[i] \in N
        /\ \A o \in issued' :
             o \in issued \/ \E j \in DOMAIN sq : sq[j].kind = "io" /\ sq[j].op = o
        /\ \A b \in free' : b \in free \cup F \/ Provided(b)
  /\ Kept(N, F)

\* Two queues in a row.
LEMMA InARow ==
  ASSUME NEW S, NEW s \in Seq(S), NEW t \in Seq(S)
  PROVE  /\ s \o t \in Seq(S) /\ Len(s \o t) = Len(s) + Len(t)
         /\ \A i \in 1 .. Len(s) : (s \o t)[i] = s[i]
         /\ \A i \in 1 .. Len(t) : (s \o t)[Len(s) + i] = t[i]
BY SMT

\* An entry behind a queue.
Follows(z, s, e) ==
  /\ \A i \in DOMAIN s : i \in DOMAIN z /\ z[i] = s[i]
  /\ \E i \in DOMAIN z : z[i] = e

LEMMA Behind ==
  ASSUME NEW S, NEW s \in Seq(S), NEW e \in S
  PROVE  Follows(Append(s, e), s, e)
<1>1. PICK n \in Nat : n = Len(s)
  BY SMT
<1>2. /\ DOMAIN s = 1 .. n /\ DOMAIN Append(s, e) = 1 .. (n + 1)
      /\ \A i \in 1 .. n : Append(s, e)[i] = s[i]
      /\ Append(s, e)[n + 1] = e
  BY SMT, <1>1
<1>3. n + 1 \in 1 .. (n + 1) /\ \A i \in 1 .. n : i \in 1 .. (n + 1)
  BY SMT
<1>4. PICK z : z = Append(s, e)
  OBVIOUS
<1>5. Follows(z, s, e)
  BY <1>2, <1>3, <1>4 DEF Follows
<1> QED BY <1>4, <1>5

\* io_uring_submit adds to the CQ only completions without an operation.
LEMMA ConsumeEffect ==
  ASSUME sq \in Seq(Sqes), cq \in Seq(Cqes), Consume(sq)
  PROVE  /\ cq' \in Seq(Cqes)
         /\ \A i \in DOMAIN cq : i \in DOMAIN cq' /\ cq'[i] = cq[i]
         /\ \A i \in DOMAIN cq' : i \in DOMAIN cq \/ cq'[i] = ProvideCqe
         /\ \A o \in issued' :
              o \in issued \/ \E j \in DOMAIN sq : sq[j].kind = "io" /\ sq[j].op = o
         /\ \A b \in free' : b \in free \/ Provided(b)
         /\ free \subseteq free' /\ \A b : Provided(b) => b \in free'
<1>1. PICK P : P = {j \in DOMAIN sq : sq[j].kind = "provide"}
  OBVIOUS
<1>2. PICK n : n = Cardinality(P)
  OBVIOUS
<1>3. n \in Nat
  <2>1. IsFiniteSet(1 .. Len(sq))
    BY SMT, FS_Interval
  <2>2. P \subseteq 1 .. Len(sq)
    BY SMT, <1>1
  <2>3. IsFiniteSet(P)
    BY <2>1, <2>2, FS_Subset
  <2> QED BY <1>2, <2>3, FS_CardinalityType
<1>4. PICK t : t = [i \in 1 .. n |-> ProvideCqe]
  OBVIOUS
<1>5. ProvideCqe \in Cqes
  BY DEF ProvideCqe, Cqes, Results
<1>6. t \in Seq(Cqes) /\ Len(t) = n /\ \A i \in 1 .. n : t[i] = ProvideCqe
  BY SMT, <1>3, <1>4, <1>5
<1>7. cq' = cq \o t
  BY <1>1, <1>2, <1>4 DEF Consume
<1>8. /\ cq' \in Seq(Cqes) /\ Len(cq') = Len(cq) + n
      /\ \A i \in 1 .. Len(cq) : cq'[i] = cq[i]
      /\ \A i \in 1 .. n : cq'[Len(cq) + i] = ProvideCqe
  <2>1. /\ cq \o t \in Seq(Cqes) /\ Len(cq \o t) = Len(cq) + Len(t)
        /\ \A i \in 1 .. Len(cq) : (cq \o t)[i] = cq[i]
        /\ \A i \in 1 .. Len(t) : (cq \o t)[Len(cq) + i] = t[i]
    BY SMT, <1>6, InARow
  <2> QED BY <1>6, <1>7, <2>1
<1>9. \A i \in DOMAIN cq : i \in DOMAIN cq' /\ cq'[i] = cq[i]
  BY SMT, <1>3, <1>8
<1>10. ASSUME NEW i \in DOMAIN cq', i \notin DOMAIN cq PROVE cq'[i] = ProvideCqe
  <2>1. i - Len(cq) \in 1 .. n /\ i = Len(cq) + (i - Len(cq))
    BY SMT, <1>3, <1>8, <1>10
  <2> QED BY <1>8, <2>1
<1>11. /\ \A o \in issued' :
            o \in issued \/ \E j \in DOMAIN sq : sq[j].kind = "io" /\ sq[j].op = o
       /\ \A b \in free' : b \in free \/ Provided(b)
  BY DEF Consume, Range, Provided
<1>12. free \subseteq free' /\ \A b : Provided(b) => b \in free'
  BY DEF Consume, Range, Provided
<1> QED BY <1>8, <1>9, <1>10, <1>11, <1>12

\* get_sqe and the SQEs behind it, when they fit.
LEMMA EnqueueShift ==
  ASSUME sq \in Seq(Sqes), Len(sq) <= Entries, cq \in Seq(Cqes),
         NEW new \in Seq(Sqes), Len(new) <= Room, Enqueue(new)
  PROVE  Shift({new[i] : i \in DOMAIN new}, {})
<1>1. CASE Len(sq) = Entries
  <2>1. Consume(sq) /\ sq' = new
    BY <1>1 DEF Enqueue
  <2>2. Len(sq') <= Entries
    BY <1>1, <2>1 DEF Room
  <2>3. Kept({new[i] : i \in DOMAIN new}, {})
    <3>1. free \subseteq free' /\ \A b : Provided(b) => b \in free'
      BY <2>1, ConsumeEffect
    <3>2. \A e \in {new[i] : i \in DOMAIN new} : e.kind = "provide" => Provided(e.buf)'
      BY <2>1 DEF Provided
    <3> QED BY <3>1, <3>2 DEF Kept
  <2> QED BY <2>1, <2>2, <2>3, ConsumeEffect DEF Shift
<1>2. CASE Len(sq) # Entries
  <2>1. sq' = sq \o new /\ UNCHANGED <<issued, free, cq>>
    BY <1>2 DEF Enqueue
  <2>2. /\ sq' \in Seq(Sqes) /\ Len(sq') = Len(sq) + Len(new)
        /\ \A i \in 1 .. Len(sq) : sq'[i] = sq[i]
        /\ \A i \in 1 .. Len(new) : sq'[Len(sq) + i] = new[i]
    BY SMT, <2>1
  <2>3. Len(sq') <= Entries
    BY SMT, <1>2, <2>2, EntriesAssumption DEF Room
  <2>4. ASSUME NEW i \in DOMAIN sq', i \notin DOMAIN sq
        PROVE  sq'[i] \in {new[j] : j \in DOMAIN new}
    <3>1. i - Len(sq) \in 1 .. Len(new) /\ i = Len(sq) + (i - Len(sq))
      BY SMT, <2>2, <2>4
    <3>2. sq'[i] = new[i - Len(sq)]
      BY <2>2, <3>1
    <3> QED BY SMT, <3>1, <3>2
  <2>5. \A i \in DOMAIN sq : sq'[i] = sq[i]
    BY SMT, <2>2
  <2>6. \A i \in DOMAIN sq' : \/ sq'[i] \in {new[j] : j \in DOMAIN new}
                              \/ \E j \in DOMAIN sq : sq'[i] = sq[j]
    BY <2>4, <2>5
  <2>7. \A b : Provided(b) => Provided(b)'
    <3>1. \A i \in DOMAIN sq : i \in DOMAIN sq'
      BY SMT, <2>2
    <3> QED BY <2>5, <3>1 DEF Provided
  <2>8. ASSUME NEW j \in DOMAIN new, new[j].kind = "provide" PROVE Provided(new[j].buf)'
    <3>1. j \in 1 .. Len(new) /\ Len(sq) + j \in DOMAIN sq'
      BY SMT, <2>2
    <3> QED BY <2>2, <2>8, <3>1 DEF Provided
  <2>9. Kept({new[i] : i \in DOMAIN new}, {})
    BY <2>1, <2>7, <2>8 DEF Kept
  <2> QED BY <2>1, <2>2, <2>3, <2>6, <2>9 DEF Shift
<1> QED BY <1>1, <1>2

-----------------------------------------------------------------------------
(* The invariant of the operations.                                         *)

Same(o) ==
  /\ phase'[o] = phase[o] /\ result'[o] = result[o] /\ bid'[o] = bid[o]
  /\ ref_count'[o] = ref_count[o] /\ linked'[o] = linked[o]
  /\ outcome'[o] = outcome[o]

\* An SQE that may be added: for a buffer, or for an operation just started.
Addable(e) ==
  \/ e.kind = "provide" /\ e.op = None /\ e.buf \in Buffers
  \/ /\ e.kind \in {"io", "to"} /\ e.op \in Ops /\ e.buf = None
     /\ phase[e.op] # "pending" /\ Started(e.op)'

\* Nothing refers to an operation that does not wait.
LEMMA NoReference ==
  ASSUME QueueInv, NEW o \in Ops, phase[o] # "pending"
  PROVE  /\ o \notin issued /\ \A i \in DOMAIN sq : sq[i].op # o
         /\ \A c \in owed : c.op # o
         /\ \A i \in DOMAIN cq : cq[i].op # o
BY SMT, NoneAssumption
DEF QueueInv, SqeInv, IssuedInv, CqeInv, Fresh, Started, Answers, ProvideCqe

\* What the loop thread does to the queues keeps what is known of the operations
\* that wait.
LEMMA ShiftKeeps ==
  ASSUME QueueInv, issued \subseteq Ops, NEW N, NEW F, Shift(N, F), owed' = owed,
         \A o \in Ops : Same(o) \/ phase[o] # "pending",
         \A e \in N : Addable(e)
  PROVE  QueueInv'
<1>1. ASSUME NEW o \in Ops, NEW k PROVE Due(o, k)' <=> Due(o, k)
  BY SMT, NoneAssumption DEF Shift, Due, ProvideCqe
<1>2. ASSUME NEW o \in Ops, Fresh(o) PROVE Fresh(o)'
  BY <1>1, <1>2 DEF Fresh, Started, Same
<1>3. ASSUME NEW o \in Ops, phase[o] # "pending", Started(o)' PROVE Fresh(o)'
  <2>1. ~Due(o, "io") /\ ~Due(o, "to")
    BY <1>3, NoReference DEF Due
  <2> QED BY <1>1, <1>3, <2>1 DEF Fresh
<1>4. SqeInv'
  <2> SUFFICES ASSUME NEW i \in DOMAIN sq'
      PROVE \/ sq'[i].kind = "provide" /\ sq'[i].op = None /\ sq'[i].buf \in Buffers
            \/ /\ sq'[i].kind \in {"io", "to"} /\ sq'[i].op \in Ops /\ sq'[i].buf = None
               /\ sq'[i].op \notin issued' /\ Fresh(sq[i].op)'
    BY DEF SqeInv
  <2>1. CASE sq'[i] \in N
    <3>1. CASE sq'[i].kind = "provide" /\ sq'[i].op = None /\ sq'[i].buf \in Buffers
      BY <3>1
    <3>2. CASE /\ sq'[i].kind \in {"io", "to"} /\ sq'[i].op \in Ops /\ sq'[i].buf = None
               /\ phase[sq'[i].op] # "pending" /\ Started(sq[i].op)'
      <4>1. PICK o \in Ops : o = sq'[i].op
        BY <3>2
      <4>2. Started(o)' /\ phase[o] # "pending"
        BY <3>2, <4>1 DEF Started
      <4>3. Fresh(o)'
        BY <1>3, <4>2
      <4>4. Fresh(sq[i].op)'
        BY <4>1, <4>3 DEF Fresh, Started, Due
      <4>5. o \notin issued'
        BY SMT, <4>2, NoReference DEF Shift
      <4> QED BY <3>2, <4>1, <4>4, <4>5
    <3> QED BY <2>1, <3>1, <3>2 DEF Addable, Started
  <2>2. CASE sq'[i] \notin N
    <3>1. PICK j \in DOMAIN sq : sq'[i] = sq[j]
      BY <2>2 DEF Shift
    <3>2. issued' = issued
      BY <2>2 DEF Shift
    <3>3. CASE sq[j].op \notin Ops
      BY <3>1, <3>3 DEF QueueInv, SqeInv
    <3>4. CASE sq[j].op \in Ops
      <4>1. PICK o \in Ops : o = sq[j].op
        BY <3>4
      <4>2. /\ sq[j].kind \in {"io", "to"} /\ sq[j].buf = None
            /\ o \notin issued /\ Fresh(o)
        BY <4>1, NoneAssumption DEF QueueInv, SqeInv
      <4>3. Fresh(o)'
        BY <1>2, <4>2
      <4>4. Fresh(sq[i].op)'
        BY <3>1, <4>1, <4>3 DEF Fresh, Started, Due
      <4> QED BY <3>1, <3>2, <4>1, <4>2, <4>4
    <3> QED BY <3>3, <3>4
  <2> QED BY <2>1, <2>2
<1>5. IssuedInv'
  <2> SUFFICES ASSUME NEW o \in issued' PROVE Fresh(o)'
    BY DEF IssuedInv
  <2>1. o \in issued \/ \E j \in DOMAIN sq : sq[j].kind = "io" /\ sq[j].op = o
    BY DEF Shift
  <2>2. Fresh(o) /\ o \in Ops
    BY <2>1 DEF QueueInv, IssuedInv, SqeInv
  <2> QED BY <1>2, <2>2
<1>6. ASSUME NEW c, Answers(c) PROVE Answers(c)'
  BY <1>6 DEF Answers, Same
<1>7. CqeInv'
  <2>1. \A c \in owed' : Answers(c)'
    BY <1>6 DEF QueueInv, CqeInv
  <2>2. \A i \in DOMAIN cq' : cq'[i] = ProvideCqe \/ Answers(cq[i])'
    <3> SUFFICES ASSUME NEW i \in DOMAIN cq', cq'[i] # ProvideCqe
                 PROVE  Answers(cq[i])'
      BY DEF ProvideCqe
    <3>1. i \in DOMAIN cq /\ cq'[i] = cq[i] /\ Answers(cq[i])
      BY DEF Shift, QueueInv, CqeInv
    <3>2. PICK c : c = cq[i]
      OBVIOUS
    <3>3. Answers(c)'
      BY <1>6, <3>1, <3>2
    <3> QED BY <3>1, <3>2, <3>3 DEF Answers
  <2>3. \A c, d \in owed' : c.op = d.op /\ c.kind = d.kind => c = d
    BY DEF QueueInv, CqeInv
  <2>4. \A c \in owed', i \in DOMAIN cq' : ~(c.op = cq'[i].op /\ c.kind = cq'[i].kind)
    BY SMT, NoneAssumption DEF QueueInv, CqeInv, Shift, ProvideCqe, Answers
  <2>5. \A i, j \in DOMAIN cq' :
          cq'[i].op \in Ops /\ cq'[i].op = cq'[j].op /\ cq'[i].kind = cq'[j].kind => i = j
    <3>1. \A i \in DOMAIN cq' : cq'[i].op \in Ops => i \in DOMAIN cq /\ cq'[i] = cq[i]
      <4>1. ProvideCqe.op \notin Ops
        BY NoneAssumption DEF ProvideCqe
      <4>2. \A i \in DOMAIN cq' : (i \in DOMAIN cq /\ cq'[i] = cq[i]) \/ cq'[i] = ProvideCqe
        BY DEF Shift
      <4> QED BY <4>1, <4>2
    <3>2. \A i, j \in DOMAIN cq :
            cq[i].op \in Ops /\ cq[i].op = cq[j].op /\ cq[i].kind = cq[j].kind => i = j
      BY DEF QueueInv, CqeInv
    <3> QED BY SMT, <3>1, <3>2
  <2> QED BY <2>1, <2>2, <2>3, <2>4, <2>5 DEF CqeInv, ProvideCqe
<1>8. CountInv'
  <2> SUFFICES ASSUME NEW o \in Ops, Due(o, "io")' \/ Due(o, "to")'
      PROVE /\ ref_count'[o] = IF Due(o, "io")' /\ Due(o, "to")' THEN 2 ELSE 1
            /\ outcome'[o].io = "canceled" => outcome'[o].to = "etime"
            /\ result'[o] =
                 CASE ~Due(o, "io")' /\ outcome'[o].io # "canceled" -> outcome'[o].io
                   [] ~Due(o, "to")' /\ outcome'[o].to = "etime" -> "etime"
                   [] OTHER -> "zero"
    BY DEF CountInv
  <2>1. Due(o, "io") \/ Due(o, "to")
    BY <1>1
  <2>2. Same(o)
    BY <2>1, NoReference DEF Due
  <2> QED BY <1>1, <2>1, <2>2 DEF QueueInv, CountInv, Same
<1> QED BY <1>4, <1>5, <1>7, <1>8 DEF QueueInv

\* The queues keep their types.
LEMMA ShiftTypes ==
  ASSUME TypeOK, QueueInv, NEW N, NEW F \in SUBSET Buffers, Shift(N, F)
  PROVE  issued' \subseteq Ops /\ free' \subseteq Buffers
<1>1. \A i \in DOMAIN sq : /\ sq[i].kind = "io" => sq[i].op \in Ops
                           /\ sq[i].kind = "provide" => sq[i].buf \in Buffers
  BY DEF QueueInv, SqeInv
<1>2. issued \subseteq Ops /\ free \subseteq Buffers
  BY DEF TypeOK
<1> QED BY SMT, <1>1, <1>2 DEF Shift, Provided

\* The constructor leaves no operation waiting.
LEMMA OpInit == Init => OpInv
<1> SUFFICES ASSUME Init PROVE OpInv
  OBVIOUS
<1>1. TypeOK
  <2>1. crashed \in BOOLEAN /\ using_buf_ring_ \in BOOLEAN
    BY DEF Init
  <2>2. linked \in [Ops -> BOOLEAN] /\ select \in [Ops -> BOOLEAN]
    BY DEF Init
  <2>3. outcome \in [Ops -> Outcomes]
    BY DEF Init, Outcomes, NoOutcome, Results
  <2> QED
    BY SMT, <2>1, <2>2, <2>3, EntriesAssumption DEF Init, TypeOK, Results
<1>2. QueueInv
  BY SMT DEF Init, QueueInv, SqeInv, IssuedInv, CqeInv, CountInv, Due
<1>3. ResultIsOutcome
  BY DEF Init, ResultIsOutcome
<1> QED BY <1>1, <1>2, <1>3 DEF OpInv

\* await_suspend and Ring::submit.
LEMMA OpAwait ==
  ASSUME OpInv, NEW o \in Ops, NEW timeout \in BOOLEAN, NEW buffered \in BOOLEAN,
         Await(o, timeout, buffered)
  PROVE  (\E N : Shift(N, {}) /\ N \subseteq {IoSqe(o), TimeoutSqe(o)}) /\ OpInv'
<1> USE DEF OpInv
<1>1. PICK new \in Seq(Sqes) :
        /\ Enqueue(new) /\ Len(new) <= Room
        /\ \A i \in DOMAIN new : new[i] \in {IoSqe(o), TimeoutSqe(o)}
  <2>1. IoSqe(o) \in Sqes /\ TimeoutSqe(o) \in Sqes
    BY DEF IoSqe, TimeoutSqe, Sqes
  <2>2. Room \in Nat /\ Room >= 1
    BY SMT, EntriesAssumption DEF Room, TypeOK
  <2>3. CASE timeout /\ Room # 1
    <3>1. Enqueue(<<IoSqe(o), TimeoutSqe(o)>>)
      BY <2>3 DEF Await, Submit
    <3>2. <<IoSqe(o), TimeoutSqe(o)>> \in Seq(Sqes) /\ Len(<<IoSqe(o), TimeoutSqe(o)>>) <= Room
      BY SMT, <2>1, <2>2, <2>3
    <3>3. \A i \in DOMAIN <<IoSqe(o), TimeoutSqe(o)>> : <<IoSqe(o), TimeoutSqe(o)>>[i] \in {IoSqe(o), TimeoutSqe(o)}
      BY SMT
    <3> QED BY <3>1, <3>2, <3>3
  <2>4. CASE ~(timeout /\ Room # 1)
    <3>1. Enqueue(<<IoSqe(o)>>)
      BY <2>4 DEF Await, Submit
    <3>2. <<IoSqe(o)>> \in Seq(Sqes) /\ Len(<<IoSqe(o)>>) <= Room
      BY SMT, <2>1, <2>2
    <3>3. \A i \in DOMAIN <<IoSqe(o)>> : <<IoSqe(o)>>[i] \in {IoSqe(o), TimeoutSqe(o)}
      BY SMT
    <3> QED BY <3>1, <3>2, <3>3
  <2> QED BY <2>3, <2>4
<1>2. PICK N : N = {new[i] : i \in DOMAIN new}
  OBVIOUS
<1>3. Shift(N, {})
  BY <1>1, <1>2, EnqueueShift DEF TypeOK
<1>4. /\ phase[o] = "idle" /\ owed' = owed
      /\ phase' = [phase EXCEPT ![o] = "pending"]
      /\ result' = [result EXCEPT ![o] = "zero"]
      /\ bid' = [bid EXCEPT ![o] = None]
      /\ linked' = [linked EXCEPT ![o] = timeout]
      /\ select' = [select EXCEPT ![o] = buffered]
      /\ outcome' = [outcome EXCEPT ![o] = NoOutcome]
      /\ ref_count' = [ref_count EXCEPT ![o] = IF timeout THEN 2 ELSE 1]
      /\ UNCHANGED <<held, using_buf_ring_>>
  BY DEF Await, StartOp
<1>5. Started(o)'
  <2>1. phase'[o] = "pending" /\ result'[o] = "zero" /\ bid'[o] = None
    BY <1>4 DEF TypeOK
  <2>2. linked'[o] = timeout /\ ref_count'[o] = IF timeout THEN 2 ELSE 1
    BY <1>4 DEF TypeOK
  <2> QED BY <2>1, <2>2 DEF Started
<1>6. \A p \in Ops : Same(p) \/ phase[p] # "pending"
  BY <1>4 DEF Same, TypeOK
<1>7. \A e \in N : Addable(e)
  <2>1. Addable(IoSqe(o)) /\ Addable(TimeoutSqe(o))
    BY <1>4, <1>5 DEF Addable, IoSqe, TimeoutSqe, Started
  <2> QED BY <1>1, <1>2, <2>1
<1>8. QueueInv'
  BY <1>3, <1>4, <1>6, <1>7, ShiftKeeps DEF TypeOK
<1>9. TypeOK'
  <2>1. issued' \subseteq Ops /\ free' \subseteq Buffers
    BY <1>3, ShiftTypes
  <2>2. sq' \in Seq(Sqes) /\ Len(sq') <= Entries /\ cq' \in Seq(Cqes)
    BY <1>3 DEF Shift
  <2>3. linked' \in [Ops -> BOOLEAN] /\ select' \in [Ops -> BOOLEAN]
    BY <1>4 DEF TypeOK
  <2>4. outcome' \in [Ops -> Outcomes]
    BY <1>4 DEF TypeOK, Outcomes, NoOutcome, Results
  <2>5. crashed' \in BOOLEAN /\ using_buf_ring_' \in BOOLEAN
    BY <1>4 DEF TypeOK, Await, Submit
  <2>6. /\ phase' \in [Ops -> {"idle", "pending", "resumed"}]
        /\ result' \in [Ops -> Results \ {"canceled"}]
        /\ bid' \in [Ops -> Buffers \cup {None}]
        /\ ref_count' \in [Ops -> 0..2]
        /\ held' \in [Ops -> Buffers \cup {None}] /\ owed' \subseteq Cqes
    BY SMT, <1>4 DEF TypeOK, Results
  <2> QED BY <2>1, <2>2, <2>3, <2>4, <2>5, <2>6 DEF TypeOK
<1>10. ResultIsOutcome'
  BY <1>4 DEF ResultIsOutcome, TypeOK
<1> QED BY <1>1, <1>2, <1>3, <1>8, <1>9, <1>10

\* io_uring_submit_and_wait.
LEMMA OpSubmit ==
  ASSUME OpInv, SubmitAndWait
  PROVE  Shift({}, {}) /\ OpInv'
<1>1. /\ Consume(sq) /\ sq' = <<>>
      /\ UNCHANGED <<opvars, owed, outcome, crashed, using_buf_ring_>>
  BY DEF SubmitAndWait
<1>2. TypeOK /\ QueueInv /\ ResultIsOutcome
  BY DEF OpInv
<1>3. Shift({}, {})
  <2>1. sq' \in Seq(Sqes) /\ Len(sq') <= Entries /\ \A i \in DOMAIN sq' : sq'[i] \in {}
    BY SMT, <1>1, EntriesAssumption
  <2>2. Kept({}, {})
    <3>1. free \subseteq free' /\ \A b : Provided(b) => b \in free'
      BY <1>1, <1>2, ConsumeEffect DEF TypeOK
    <3> QED BY <3>1 DEF Kept
  <2> QED BY <1>1, <1>2, <2>1, <2>2, ConsumeEffect DEF Shift, TypeOK
<1>4. QueueInv'
  <2>1. \A o \in Ops : Same(o)
    BY <1>1 DEF Same, opvars
  <2> QED BY SMT, <1>1, <1>2, <1>3, <2>1, ShiftKeeps DEF TypeOK
<1>5. TypeOK'
  <2>1. issued' \subseteq Ops /\ free' \subseteq Buffers
    BY <1>2, <1>3, ShiftTypes
  <2>2. sq' \in Seq(Sqes) /\ Len(sq') <= Entries /\ cq' \in Seq(Cqes)
    BY <1>3 DEF Shift
  <2> QED BY <1>1, <1>2, <2>1, <2>2 DEF TypeOK, opvars
<1>6. ResultIsOutcome'
  BY <1>1, <1>2 DEF ResultIsOutcome, opvars
<1> QED BY <1>3, <1>4, <1>5, <1>6 DEF OpInv

\* ~IOResult: the buffer goes back through the ring or through an SQE.
LEMMA OpRelease ==
  ASSUME OpInv, NEW o \in Ops, Release(o)
  PROVE  /\ \E N \in SUBSET {ProvideSqe(held[o])}, F \in SUBSET {held[o]} :
              /\ Shift(N, F) /\ (N = {} \/ F = {})
              /\ held[o] = None => N = {} /\ F = {}
              /\ held[o] # None => ProvideSqe(held[o]) \in N \/ held[o] \in F
         /\ OpInv'
<1>1. /\ phase[o] = "resumed" /\ phase' = [phase EXCEPT ![o] = "idle"]
      /\ held' = [held EXCEPT ![o] = None]
      /\ UNCHANGED <<result, bid, ref_count, linked, select, owed, outcome, crashed,
                     using_buf_ring_>>
  BY DEF Release
<1>2. TypeOK /\ QueueInv /\ ResultIsOutcome
  BY DEF OpInv
<1>3. held[o] \in Buffers \cup {None} /\ sq \in Seq(Sqes) /\ cq \in Seq(Cqes) /\ Len(sq) <= Entries
  BY <1>2 DEF TypeOK
<1>4. PICK N \in SUBSET {ProvideSqe(held[o])}, F \in SUBSET {held[o]} :
        /\ Shift(N, F) /\ (N = {} \/ F = {}) /\ (held[o] = None => N = {} /\ F = {})
        /\ held[o] # None => ProvideSqe(held[o]) \in N \/ held[o] \in F
  <2>1. CASE held[o] = None
    <3>1. UNCHANGED <<sq, issued, free, cq>>
      BY <2>1 DEF Release
    <3>2. Kept({}, {})
      BY <3>1 DEF Kept, Provided
    <3>3. Shift({}, {})
      BY <1>3, <3>1, <3>2 DEF Shift
    <3> QED BY <2>1, <3>3
  <2>2. CASE held[o] # None /\ using_buf_ring_
    <3>1. free' = free \cup {held[o]} /\ UNCHANGED <<sq, issued, cq>>
      BY <2>2 DEF Release, RecycleBuffer
    <3>2. Kept({}, {held[o]})
      BY <3>1 DEF Kept, Provided
    <3>3. Shift({}, {held[o]})
      BY <1>3, <3>1, <3>2 DEF Shift
    <3> QED BY <2>2, <3>3
  <2>3. CASE held[o] # None /\ ~using_buf_ring_
    <3>1. Enqueue(<<ProvideSqe(held[o])>>)
      BY <2>3 DEF Release, RecycleBuffer
    <3>2. PICK new : new = <<ProvideSqe(held[o])>>
      OBVIOUS
    <3>3. ProvideSqe(held[o]) \in Sqes
      BY <1>3 DEF ProvideSqe, Sqes
    <3>4. new \in Seq(Sqes) /\ Len(new) = 1 /\ {new[i] : i \in DOMAIN new} = {ProvideSqe(held[o])}
      BY SMT, <3>2, <3>3
    <3>5. Room >= 1
      BY SMT, <1>3, EntriesAssumption DEF Room
    <3>6. Shift({ProvideSqe(held[o])}, {})
      BY <1>3, <3>1, <3>2, <3>4, <3>5, EnqueueShift
    <3> QED BY <2>3, <3>6
  <2> QED BY <2>1, <2>2, <2>3
<1>5. QueueInv'
  <2>1. \A p \in Ops : Same(p) \/ phase[p] # "pending"
    BY <1>1, <1>2 DEF Same, TypeOK
  <2>2. \A e \in N : Addable(e)
    BY SMT, <1>3, <1>4 DEF Addable, ProvideSqe
  <2> QED BY <1>1, <1>2, <1>4, <2>1, <2>2, ShiftKeeps DEF TypeOK
<1>6. TypeOK'
  <2>1. F \subseteq Buffers
    BY <1>3, <1>4
  <2>2. issued' \subseteq Ops /\ free' \subseteq Buffers
    BY <1>2, <1>4, <2>1, ShiftTypes
  <2>3. sq' \in Seq(Sqes) /\ Len(sq') <= Entries /\ cq' \in Seq(Cqes)
    BY <1>4 DEF Shift
  <2>4. /\ phase' \in [Ops -> {"idle", "pending", "resumed"}]
        /\ held' \in [Ops -> Buffers \cup {None}]
    BY <1>1, <1>2 DEF TypeOK
  <2> QED BY <1>1, <1>2, <2>2, <2>3, <2>4 DEF TypeOK
<1>7. ResultIsOutcome'
  BY <1>1, <1>2 DEF ResultIsOutcome, TypeOK
<1> QED BY <1>4, <1>5, <1>6, <1>7 DEF OpInv

-----------------------------------------------------------------------------
(* The kernel.                                                              *)

\* What KernelComplete and KernelTimeout decide.
Decision(o, r, b) ==
  /\ r \in Outcomes
  /\ r.io = "canceled" => r.to = "etime"
  /\ ~linked[o] => r.to = "zero"
  /\ b \in free \cup {None}
  /\ b # None => r.io \in {"zero", "data"}

\* The kernel decides: the completions it owes are those ref_count counts.
LEMMA OpDecide ==
  ASSUME OpInv, NEW o \in Ops, NEW r, NEW b, Decision(o, r, b), Decide(o, r, b)
  PROVE  OpInv'
<1>1. TypeOK /\ QueueInv /\ ResultIsOutcome
  BY DEF OpInv
<1>2. /\ o \in issued /\ issued' = issued \ {o}
      /\ outcome' = [outcome EXCEPT ![o] = r]
      /\ owed' = owed \cup CqesOf(o, r, b) /\ free' = free \ {b}
      /\ UNCHANGED <<opvars, sq, cq, crashed, using_buf_ring_>>
  BY DEF Decide
<1>3. outcome'[o] = r /\ \A p \in Ops : p # o => outcome'[p] = outcome[p]
  BY <1>1, <1>2 DEF TypeOK
<1>4. Fresh(o) /\ \A i \in DOMAIN sq : sq[i].op # o
  BY <1>1, <1>2, NoneAssumption DEF QueueInv, IssuedInv, SqeInv
<1>5. PICK c1 : c1 = [kind |-> "io", op |-> o, res |-> r.io, buf |-> b]
  OBVIOUS
<1>6. PICK c2 : c2 = [kind |-> "to", op |-> o, res |-> r.to, buf |-> None]
  OBVIOUS
<1>7. /\ \A c \in owed' : c \in owed \/ c = c1 \/ (c = c2 /\ linked[o])
      /\ \A c \in owed : c \in owed'
      /\ c1 \in owed' /\ (linked[o] => c2 \in owed')
  BY <1>2, <1>5, <1>6 DEF CqesOf
<1>8. /\ c1.kind = "io" /\ c1.op = o /\ c1.res = r.io /\ c1.buf = b
      /\ c2.kind = "to" /\ c2.op = o /\ c2.res = r.to /\ c2.buf = None
  BY <1>5, <1>6
<1>9. ASSUME NEW p \in Ops, p # o, NEW k PROVE Due(p, k)' <=> Due(p, k)
  BY <1>2, <1>7, <1>8, <1>9 DEF Due
<1>10. Due(o, "io")' /\ (Due(o, "to")' <=> linked[o])
  BY <1>2, <1>4, <1>7, <1>8 DEF Due, Fresh
<1>11. ASSUME NEW p \in Ops, p # o, Fresh(p) PROVE Fresh(p)'
  BY <1>2, <1>9, <1>11 DEF Fresh, Started, opvars
<1>12. SqeInv'
  <2>1. ASSUME NEW i \in DOMAIN sq', sq'[i].kind # "provide"
        PROVE  /\ sq'[i].kind \in {"io", "to"} /\ sq'[i].op \in Ops /\ sq'[i].buf = None
               /\ sq'[i].op \notin issued' /\ Fresh(sq[i].op)'
    <3>1. PICK p : p = sq[i].op
      OBVIOUS
    <3>2. /\ sq[i].kind \in {"io", "to"} /\ p \in Ops /\ sq[i].buf = None
          /\ p \notin issued /\ Fresh(p) /\ p # o
      BY <1>1, <1>2, <1>4, <2>1, <3>1 DEF QueueInv, SqeInv
    <3>3. Fresh(p)'
      BY <1>11, <3>2
    <3>4. Fresh(sq[i].op)'
      BY <1>2, <3>1, <3>3 DEF Fresh, Started, Due
    <3> QED BY <1>2, <3>1, <3>2, <3>4
  <2> QED BY <1>1, <1>2, <2>1 DEF QueueInv, SqeInv
<1>13. IssuedInv'
  BY <1>1, <1>2, <1>11 DEF QueueInv, IssuedInv, TypeOK
<1>14. CqeInv'
  <2>1. ASSUME NEW c, Answers(c), c.op # o PROVE Answers(c)'
    BY <1>2, <1>3, <2>1 DEF Answers, opvars
  <2>2. Answers(c1)' /\ (linked[o] => Answers(c2)')
    <3>1. phase'[o] = "pending" /\ linked' = linked
      BY <1>2, <1>4 DEF Fresh, Started, opvars
    <3>2. Answers(c1)'
      BY <1>3, <1>8, <3>1 DEF Answers
    <3>3. linked[o] => Answers(c2)'
      BY <1>3, <1>8, <3>1 DEF Answers
    <3> QED BY <3>2, <3>3
  <2>3. /\ \A c \in owed : Answers(c) /\ c.op # o
        /\ \A i \in DOMAIN cq : (cq[i] = ProvideCqe \/ Answers(cq[i])) /\ cq[i].op # o
    BY SMT, <1>1, <1>4, NoneAssumption DEF QueueInv, CqeInv, Answers, Fresh, Due, ProvideCqe
  <2>4. \A c \in owed' : Answers(c)'
    BY <1>7, <2>1, <2>2, <2>3
  <2>5. ASSUME NEW i \in DOMAIN cq', cq'[i] # ProvideCqe PROVE Answers(cq[i])'
    <3>1. PICK c : c = cq[i] /\ Answers(c) /\ c.op # o
      BY SMT, <1>2, <2>3, <2>5
    <3>2. Answers(c)'
      BY <2>1, <3>1
    <3> QED BY <1>2, <3>1, <3>2 DEF Answers
  <2>6. \A c, d \in owed' : c.op = d.op /\ c.kind = d.kind => c = d
    <3>1. \A c, d \in owed : c.op = d.op /\ c.kind = d.kind => c = d
      BY <1>1 DEF QueueInv, CqeInv
    <3>2. \A c \in owed' : (c \in owed /\ c.op # o) \/ c = c1 \/ c = c2
      BY <1>7, <2>3
    <3>3. c1.op = o /\ c2.op = o /\ c1.kind # c2.kind
      BY <1>8
    <3> QED BY SMT, <3>1, <3>2, <3>3
  <2>7. \A c \in owed', i \in DOMAIN cq' : ~(c.op = cq'[i].op /\ c.kind = cq'[i].kind)
    BY SMT, <1>1, <1>2, <1>7, <1>8, <2>3 DEF QueueInv, CqeInv
  <2>8. \A i, j \in DOMAIN cq' :
          cq'[i].op \in Ops /\ cq'[i].op = cq'[j].op /\ cq'[i].kind = cq'[j].kind => i = j
    BY <1>1, <1>2 DEF QueueInv, CqeInv
  <2> QED BY <2>4, <2>5, <2>6, <2>7, <2>8 DEF CqeInv, ProvideCqe
<1>15. CountInv'
  <2> SUFFICES ASSUME NEW p \in Ops, Due(p, "io")' \/ Due(p, "to")'
      PROVE /\ ref_count'[p] = IF Due(p, "io")' /\ Due(p, "to")' THEN 2 ELSE 1
            /\ outcome'[p].io = "canceled" => outcome'[p].to = "etime"
            /\ result'[p] =
                 CASE ~Due(p, "io")' /\ outcome'[p].io # "canceled" -> outcome'[p].io
                   [] ~Due(p, "to")' /\ outcome'[p].to = "etime" -> "etime"
                   [] OTHER -> "zero"
    BY DEF CountInv
  <2>1. CASE p # o
    BY SMT, <1>1, <1>2, <1>3, <1>9, <2>1 DEF QueueInv, CountInv, opvars
  <2>2. CASE p = o
    <3>1. ref_count'[o] = IF linked[o] THEN 2 ELSE 1
      BY <1>2, <1>4 DEF Fresh, Started, opvars
    <3>2. result'[o] = "zero"
      BY <1>2, <1>4 DEF Fresh, Started, opvars
    <3> QED BY <1>3, <1>10, <2>2, <3>1, <3>2 DEF Decision
  <2> QED BY <2>1, <2>2
<1>16. TypeOK'
  <2>1. b \in Buffers \cup {None} /\ r.io \in Results /\ r.to \in Results
    BY <1>1 DEF Decision, TypeOK, Outcomes
  <2>2. c1 \in Cqes /\ c2 \in Cqes
    BY <1>5, <1>6, <2>1 DEF Cqes
  <2>3. owed' \subseteq Cqes /\ outcome' \in [Ops -> Outcomes]
    BY <1>1, <1>2, <1>7, <2>2 DEF TypeOK, Decision
  <2> QED BY <1>1, <1>2, <2>3 DEF TypeOK, opvars
<1>17. ResultIsOutcome'
  BY <1>1, <1>2, <1>3, <1>4 DEF ResultIsOutcome, Fresh, Started, opvars
<1> QED BY <1>12, <1>13, <1>14, <1>15, <1>16, <1>17 DEF OpInv, QueueInv

\* A completion that was owed goes to the end of the CQ.
LEMMA OpPost ==
  ASSUME OpInv, NEW o \in Ops, KernelPost(o)
  PROVE  OpInv'
<1>1. TypeOK /\ QueueInv /\ ResultIsOutcome
  BY DEF OpInv
<1>2. PICK c \in owed : owed' = owed \ {c} /\ cq' = Append(cq, c)
  BY DEF KernelPost
<1>3. UNCHANGED <<opvars, sq, issued, free, outcome, crashed, using_buf_ring_>>
  BY DEF KernelPost
<1>4. cq \in Seq(Cqes) /\ owed \subseteq Cqes
  BY <1>1 DEF TypeOK
<1>5. /\ cq' \in Seq(Cqes) /\ Len(cq) + 1 \in DOMAIN cq' /\ cq'[Len(cq) + 1] = c
      /\ \A i \in DOMAIN cq : i \in DOMAIN cq' /\ cq'[i] = cq[i]
      /\ \A i \in DOMAIN cq' : i \in DOMAIN cq \/ i = Len(cq) + 1
  BY SMT, <1>2, <1>4
<1>6. ASSUME NEW p, NEW k PROVE Due(p, k)' <=> Due(p, k)
  BY <1>2, <1>5 DEF Due
<1>7. \A p \in Ops : Fresh(p)' <=> Fresh(p)
  BY <1>3, <1>6 DEF Fresh, Started, opvars
<1>8. \A d : Answers(d)' <=> Answers(d)
  BY <1>3 DEF Answers, opvars
<1>9. SqeInv' /\ IssuedInv'
  <2>1. \A i \in DOMAIN sq : sq[i].op \in Ops => (Fresh(sq[i].op)' <=> Fresh(sq[i].op))
    BY <1>3, <1>6 DEF Fresh, Started, opvars
  <2> QED BY <1>1, <1>3, <1>7, <2>1 DEF QueueInv, SqeInv, IssuedInv, TypeOK
<1>10. CqeInv'
  <2>1. \A d \in owed' : Answers(d)'
    BY <1>1, <1>2, <1>8 DEF QueueInv, CqeInv
  <2>2. ASSUME NEW i \in DOMAIN cq', cq'[i] # ProvideCqe PROVE Answers(cq[i])'
    <3>1. PICK d : d = cq'[i] /\ Answers(d)
      BY <1>1, <1>2, <1>5, <2>2 DEF QueueInv, CqeInv
    <3>2. Answers(d)'
      BY <1>8, <3>1
    <3> QED BY <3>1, <3>2 DEF Answers
  <2>3. \A d, e \in owed' : d.op = e.op /\ d.kind = e.kind => d = e
    BY <1>1, <1>2 DEF QueueInv, CqeInv
  <2>4. \A d \in owed', i \in DOMAIN cq' : ~(d.op = cq'[i].op /\ d.kind = cq'[i].kind)
    BY SMT, <1>1, <1>2, <1>5 DEF QueueInv, CqeInv
  <2>5. \A i, j \in DOMAIN cq' :
          cq'[i].op \in Ops /\ cq'[i].op = cq'[j].op /\ cq'[i].kind = cq'[j].kind => i = j
    BY SMT, <1>1, <1>2, <1>5 DEF QueueInv, CqeInv
  <2> QED BY <2>1, <2>2, <2>3, <2>4, <2>5 DEF CqeInv, ProvideCqe
<1>11. CountInv'
  BY <1>1, <1>3, <1>6 DEF QueueInv, CountInv, opvars
<1>12. TypeOK'
  BY <1>1, <1>2, <1>3, <1>5 DEF TypeOK, opvars
<1>13. ResultIsOutcome'
  BY <1>1, <1>3 DEF ResultIsOutcome, opvars
<1> QED BY <1>9, <1>10, <1>11, <1>12, <1>13 DEF OpInv, QueueInv

-----------------------------------------------------------------------------
(* The CQE loop of run_one.                                                 *)

\* Taking the oldest CQE leaves every other completion where it was.
LEMMA PopCqe ==
  ASSUME TypeOK, CqeInv, cq # <<>>, cq' = Tail(cq), owed' = owed,
         NEW p \in Ops, NEW k
  PROVE  Due(p, k)' <=> Due(p, k) /\ ~(p = Head(cq).op /\ k = Head(cq).kind)
<1>1. cq \in Seq(Cqes)
  BY DEF TypeOK
<1>2. /\ 1 \in DOMAIN cq /\ Head(cq) = cq[1]
      /\ \A i \in DOMAIN cq' : i + 1 \in DOMAIN cq /\ cq'[i] = cq[i + 1] /\ i + 1 # 1
      /\ \A i \in DOMAIN cq : i # 1 => i - 1 \in DOMAIN cq' /\ cq'[i - 1] = cq[i]
  BY SMT, <1>1
<1>3. CASE p = Head(cq).op /\ k = Head(cq).kind
  BY SMT, <1>2, <1>3 DEF Due, CqeInv
<1>4. CASE ~(p = Head(cq).op /\ k = Head(cq).kind)
  <2>1. Due(p, k)' => Due(p, k)
    BY SMT, <1>2 DEF Due
  <2>2. ASSUME NEW i \in DOMAIN cq, cq[i].op = p, cq[i].kind = k PROVE Due(p, k)'
    <3>1. i # 1
      BY <1>2, <1>4, <2>2
    <3> QED BY <1>2, <2>2, <3>1 DEF Due
  <2>3. Due(p, k) => Due(p, k)'
    BY <2>2 DEF Due
  <2> QED BY <1>4, <2>1, <2>3
<1> QED BY <1>3, <1>4

\* The assignments of run_one for a completion: the coroutine is resumed by the
\* last one, with what happened in result.
LEMMA OpDispatch ==
  ASSUME OpInv, Dispatch
  PROVE  OpInv'
<1>1. TypeOK /\ QueueInv /\ ResultIsOutcome
  BY DEF OpInv
<1>2. /\ cq # <<>> /\ cq' = Tail(cq)
      /\ UNCHANGED <<sq, issued, owed, free, outcome, crashed, using_buf_ring_>>
  BY DEF Dispatch
<1>3. cq \in Seq(Cqes) /\ cq' \in Seq(Cqes)
  BY SMT, <1>1, <1>2 DEF TypeOK
<1>4. /\ 1 \in DOMAIN cq /\ Head(cq) = cq[1]
      /\ \A i \in DOMAIN cq' : i \in Nat /\ i + 1 \in DOMAIN cq /\ cq'[i] = cq[i + 1]
  BY SMT, <1>2, <1>3
<1>5. PICK c \in Cqes : c = Head(cq)
  BY SMT, <1>3, <1>4
<1>6. ASSUME NEW p \in Ops, NEW k
      PROVE  Due(p, k)' <=> Due(p, k) /\ ~(p = c.op /\ k = c.kind)
  BY <1>1, <1>2, <1>5, PopCqe DEF QueueInv
<1>7. /\ \A d, e \in owed' : d.op = e.op /\ d.kind = e.kind => d = e
      /\ \A d \in owed', i \in DOMAIN cq' : ~(d.op = cq'[i].op /\ d.kind = cq'[i].kind)
      /\ \A i, j \in DOMAIN cq' :
           cq'[i].op \in Ops /\ cq'[i].op = cq'[j].op /\ cq'[i].kind = cq'[j].kind => i = j
  <2>1. /\ \A d, e \in owed' : d.op = e.op /\ d.kind = e.kind => d = e
        /\ \A d \in owed', i \in DOMAIN cq' : ~(d.op = cq'[i].op /\ d.kind = cq'[i].kind)
    BY SMT, <1>1, <1>2, <1>4 DEF QueueInv, CqeInv
  <2>2. ASSUME NEW i \in DOMAIN cq', NEW j \in DOMAIN cq', cq'[i].op \in Ops,
               cq'[i].op = cq'[j].op, cq'[i].kind = cq'[j].kind
        PROVE  i = j
    <3>1. i + 1 = j + 1
      BY SMT, <1>1, <1>4, <2>2 DEF QueueInv, CqeInv
    <3> QED BY SMT, <1>4, <3>1
  <2> QED BY <2>1, <2>2
<1>8. CASE c.op = None
  <2>1. UNCHANGED opvars
    BY <1>5, <1>8 DEF Dispatch
  <2>2. \A p \in Ops : /\ Due(p, "io")' <=> Due(p, "io")
                       /\ Due(p, "to")' <=> Due(p, "to")
    BY <1>6, <1>8, NoneAssumption
  <2>3. \A p \in Ops : Fresh(p)' <=> Fresh(p)
    BY <2>1, <2>2 DEF Fresh, Started, opvars
  <2>4. SqeInv' /\ IssuedInv'
    <3>1. ASSUME NEW i \in DOMAIN sq, sq[i].op \in Ops
          PROVE  Fresh(sq[i].op)' <=> Fresh(sq[i].op)
      <4>1. PICK p \in Ops : p = sq[i].op BY <3>1
      <4>2. Fresh(p)' <=> Fresh(sq[i].op)' BY <1>2, <4>1 DEF Fresh, Started, Due
      <4> QED BY <2>3, <4>1, <4>2
    <3> QED BY <1>1, <1>2, <2>3, <3>1 DEF QueueInv, SqeInv, IssuedInv, TypeOK
  <2>5. CqeInv'
    <3>1. \A d : Answers(d)' <=> Answers(d)
      BY <1>2, <2>1 DEF Answers, opvars
    <3>2. ASSUME NEW i \in DOMAIN cq', cq'[i] # ProvideCqe PROVE Answers(cq[i])'
      <4>1. PICK d : d = cq'[i] /\ Answers(d)
        BY <1>1, <1>4, <3>2 DEF QueueInv, CqeInv
      <4>2. Answers(d)' BY <3>1, <4>1
      <4> QED BY <4>1, <4>2 DEF Answers
    <3> QED BY <1>1, <1>2, <1>7, <3>1, <3>2 DEF QueueInv, CqeInv, ProvideCqe
  <2>6. CountInv'
    BY <1>1, <1>2, <2>1, <2>2 DEF QueueInv, CountInv, opvars
  <2>7. TypeOK' /\ ResultIsOutcome'
    BY <1>1, <1>2, <1>3, <2>1 DEF TypeOK, ResultIsOutcome, opvars
  <2> QED BY <2>4, <2>5, <2>6, <2>7 DEF OpInv, QueueInv
<1>9. CASE c.op # None
  <2>1. Answers(c)
    BY SMT, <1>1, <1>4, <1>5, <1>9 DEF QueueInv, CqeInv, ProvideCqe
  <2>2. PICK o \in Ops : o = c.op
    BY <2>1 DEF Answers
  <2>3. /\ result' = [result EXCEPT ![o] = NewResult(c)]
        /\ bid' = [bid EXCEPT ![o] = NewBid(c)]
        /\ ref_count' = [ref_count EXCEPT ![o] = @ - 1]
        /\ IF ref_count[o] = 1
           THEN /\ phase' = [phase EXCEPT ![o] = "resumed"]
                /\ held' = [held EXCEPT ![o] = ResumedWith(NewResult(c), NewBid(c))]
           ELSE UNCHANGED <<phase, held>>
        /\ UNCHANGED <<linked, select>>
    BY <1>5, <1>9, <2>2 DEF Dispatch
  <2>4. \A p \in Ops : p # o => Same(p)
    BY <1>1, <1>2, <2>3 DEF Same, TypeOK
  <2>5. Due(o, c.kind) /\ c.kind \in {"io", "to"} /\ phase[o] = "pending"
    BY <1>4, <1>5, <2>1, <2>2 DEF Due, Answers
  <2>6. /\ ref_count[o] = IF Due(o, "io") /\ Due(o, "to") THEN 2 ELSE 1
        /\ outcome[o].io = "canceled" => outcome[o].to = "etime"
        /\ result[o] = CASE ~Due(o, "io") /\ outcome[o].io # "canceled" -> outcome[o].io
                         [] ~Due(o, "to") /\ outcome[o].to = "etime" -> "etime"
                         [] OTHER -> "zero"
    BY <1>1, <2>5 DEF QueueInv, CountInv
  <2>7. /\ result'[o] = NewResult(c) /\ ref_count'[o] = ref_count[o] - 1
        /\ phase'[o] = IF ref_count[o] = 1 THEN "resumed" ELSE "pending"
    BY <1>1, <2>3, <2>5 DEF TypeOK
  <2>8. /\ c.kind = "io" => c.res = outcome[o].io
        /\ c.kind = "to" => c.res = outcome[o].to
    BY <2>1, <2>2 DEF Answers
  <2>9. ~Fresh(o) /\ o \notin issued /\ \A i \in DOMAIN sq : sq[i].op # o
    BY <1>1, <2>5, NoneAssumption DEF QueueInv, SqeInv, IssuedInv, Fresh
  <2>10. ASSUME NEW p \in Ops, Fresh(p) PROVE Fresh(p)'
    <3>1. p # o BY <2>9, <2>10
    <3> QED BY <1>6, <2>4, <2>10, <3>1 DEF Fresh, Started, Same
  <2>11. SqeInv'
    <3>1. ASSUME NEW i \in DOMAIN sq, Fresh(sq[i].op), sq[i].op \in Ops PROVE Fresh(sq[i].op)'
      <4>1. PICK p \in Ops : p = sq[i].op BY <3>1
      <4>2. Fresh(p)' BY <2>10, <3>1, <4>1
      <4> QED BY <1>2, <4>1, <4>2 DEF Fresh, Started, Due
    <3> QED BY <1>1, <1>2, <3>1 DEF QueueInv, SqeInv
  <2>12. IssuedInv'
    BY <1>1, <1>2, <2>10 DEF QueueInv, IssuedInv, TypeOK
  <2>13. CqeInv'
    <3>1. ASSUME NEW d, Answers(d), d.op # o \/ phase'[o] = "pending" PROVE Answers(d)'
      <4>1. phase'[d.op] = "pending"
        BY <2>4, <3>1 DEF Answers, Same
      <4> QED BY <1>2, <2>3, <3>1, <4>1 DEF Answers
    <3>2. phase'[o] # "pending" => ~Due(o, "io")' /\ ~Due(o, "to")'
      BY SMT, <1>6, <2>2, <2>5, <2>6, <2>7
    <3>3. ASSUME NEW d \in owed' PROVE Answers(d)'
      <4>1. Answers(d)
        BY <1>1, <1>2 DEF QueueInv, CqeInv
      <4>2. d.op # o \/ phase'[o] = "pending"
        BY <3>2, <4>1 DEF Due, Answers
      <4> QED BY <3>1, <4>1, <4>2
    <3>4. ASSUME NEW i \in DOMAIN cq', cq'[i] # ProvideCqe PROVE Answers(cq[i])'
      <4>1. PICK d : d = cq'[i] /\ Answers(d)
        BY <1>1, <1>4, <3>4 DEF QueueInv, CqeInv
      <4>2. d.op # o \/ phase'[o] = "pending"
        BY <3>2, <4>1 DEF Due, Answers
      <4>3. Answers(d)' BY <3>1, <4>1, <4>2
      <4> QED BY <4>1, <4>3 DEF Answers
    <3> QED BY <1>7, <3>3, <3>4 DEF CqeInv, ProvideCqe
  <2>14. CountInv'
    <3> SUFFICES ASSUME NEW p \in Ops, Due(p, "io")' \/ Due(p, "to")'
        PROVE /\ ref_count'[p] = IF Due(p, "io")' /\ Due(p, "to")' THEN 2 ELSE 1
              /\ outcome'[p].io = "canceled" => outcome'[p].to = "etime"
              /\ result'[p] =
                   CASE ~Due(p, "io")' /\ outcome'[p].io # "canceled" -> outcome'[p].io
                     [] ~Due(p, "to")' /\ outcome'[p].to = "etime" -> "etime"
                     [] OTHER -> "zero"
      BY DEF CountInv
    <3>1. CASE p # o
      <4>1. (Due(p, "io")' <=> Due(p, "io")) /\ (Due(p, "to")' <=> Due(p, "to"))
        BY <1>6, <2>2, <3>1
      <4> QED BY SMT, <1>1, <2>4, <3>1, <4>1 DEF QueueInv, CountInv, Same
    <3>2. CASE p = o
      <4>1. /\ Due(o, "io") /\ Due(o, "to") /\ ref_count'[o] = 1 /\ result[o] = "zero"
            /\ Due(o, "io")' <=> c.kind # "io"
            /\ Due(o, "to")' <=> c.kind # "to"
        BY SMT, <1>6, <2>2, <2>5, <2>6, <2>7, <3>2
      <4>2. result'[o] = CASE c.kind = "to" /\ outcome[o].to = "etime" -> "etime"
                           [] c.kind = "io" /\ outcome[o].io # "canceled" -> outcome[o].io
                           [] OTHER -> "zero"
        BY <2>2, <2>7, <2>8, <4>1 DEF NewResult
      <4> QED BY <1>2, <2>5, <2>6, <3>2, <4>1, <4>2
    <3> QED BY <3>1, <3>2
  <2>15. ResultIsOutcome'
    <3> SUFFICES ASSUME NEW p \in Ops, phase'[p] = "resumed"
                 PROVE  \/ result'[p] = outcome'[p].io
                        \/ result'[p] = "etime" /\ outcome'[p].to = "etime"
      BY DEF ResultIsOutcome
    <3>1. CASE p # o
      BY <1>1, <2>4, <3>1 DEF Same, ResultIsOutcome
    <3>2. CASE p = o
      <4>1. ~(Due(o, "io") /\ Due(o, "to"))
        BY SMT, <2>6, <2>7, <3>2
      <4>2. CASE c.kind = "io"
        <5>1. Due(o, "io") /\ ~Due(o, "to")
          BY <2>5, <4>1, <4>2
        <5>2. result'[o] = IF c.res # "canceled" THEN c.res ELSE result[o]
          BY <2>2, <2>7, <4>2 DEF NewResult
        <5> QED BY SMT, <1>2, <2>6, <2>8, <3>2, <4>2, <5>1, <5>2
      <4>3. CASE c.kind = "to"
        <5>1. Due(o, "to") /\ ~Due(o, "io")
          BY <2>5, <4>1, <4>3
        <5>2. result'[o] = IF c.res = "etime" THEN "etime" ELSE result[o]
          BY <2>2, <2>7, <4>3 DEF NewResult
        <5> QED BY SMT, <1>2, <2>6, <2>8, <3>2, <4>3, <5>1, <5>2
      <4> QED BY <2>5, <4>2, <4>3
    <3> QED BY <3>1, <3>2
  <2>16. TypeOK'
    <3>1. NewResult(c) \in Results \ {"canceled"}
      BY <1>1, <2>2, <2>5 DEF NewResult, TypeOK, Results, Cqes
    <3>2. NewBid(c) \in Buffers \cup {None}
      BY <1>1, <2>2 DEF NewBid, TypeOK, Cqes
    <3>3. ref_count' \in [Ops -> 0..2]
      BY SMT, <1>1, <2>3, <2>6 DEF TypeOK
    <3>4. result' \in [Ops -> Results \ {"canceled"}] /\ bid' \in [Ops -> Buffers \cup {None}]
      BY <1>1, <2>3, <3>1, <3>2 DEF TypeOK
    <3>5. /\ phase' \in [Ops -> {"idle", "pending", "resumed"}]
          /\ held' \in [Ops -> Buffers \cup {None}]
      <4>1. PICK v \in Buffers \cup {None} : v = ResumedWith(NewResult(c), NewBid(c))
        BY <3>2 DEF ResumedWith
      <4>2. phase' = phase \/ phase' = [phase EXCEPT ![o] = "resumed"]
        BY <2>3
      <4>3. held' = held \/ held' = [held EXCEPT ![o] = v]
        BY <2>3, <4>1
      <4>4. /\ phase \in [Ops -> {"idle", "pending", "resumed"}]
            /\ held \in [Ops -> Buffers \cup {None}]
        BY <1>1 DEF TypeOK
      <4> QED BY <4>2, <4>3, <4>4
    <3> QED BY SMT, <1>1, <1>2, <1>3, <2>3, <3>3, <3>4, <3>5 DEF TypeOK
  <2> QED BY <2>11, <2>12, <2>13, <2>14, <2>15, <2>16 DEF OpInv, QueueInv
<1> QED BY <1>8, <1>9

-----------------------------------------------------------------------------
(* The results.                                                             *)

\* What the kernel decides is one of the outcomes ref_count and result allow for.
LEMMA KernelDecides ==
  ASSUME TypeOK, NEW o \in Ops, KernelComplete(o) \/ KernelTimeout(o)
  PROVE  \E r, b : Decision(o, r, b) /\ Decide(o, r, b)
<1>1. CASE KernelComplete(o)
  <2>1. PICK io \in IoResults, to \in {"canceled", "err", "etime"}, b \in free \cup {None} :
          /\ Decide(o, [io |-> io, to |-> IF linked[o] THEN to ELSE "zero"], b)
          /\ b # None => io \in {"zero", "data"}
    BY <1>1 DEF KernelComplete
  <2>2. PICK r : r = [io |-> io, to |-> IF linked[o] THEN to ELSE "zero"]
    OBVIOUS
  <2>3. r.io = io /\ r.to = IF linked[o] THEN to ELSE "zero"
    BY <2>2
  <2>4. r \in Outcomes
    BY <2>1, <2>2 DEF Outcomes, Results, IoResults
  <2>5. Decision(o, r, b)
    BY <2>1, <2>3, <2>4 DEF Decision, IoResults
  <2> QED BY <2>1, <2>2, <2>5
<1>2. CASE KernelTimeout(o)
  <2>1. PICK r : r = [io |-> "canceled", to |-> "etime"]
    OBVIOUS
  <2>2. r \in Outcomes /\ r.io = "canceled" /\ r.to = "etime"
    BY <2>1 DEF Outcomes, Results
  <2>3. linked[o] /\ Decide(o, r, None)
    BY <1>2, <2>1 DEF KernelTimeout
  <2>4. Decision(o, r, None)
    BY <2>2, <2>3 DEF Decision
  <2> QED BY <2>3, <2>4
<1> QED BY <1>1, <1>2

\* Every step keeps the invariant of the operations.
LEMMA OpStep == OpInv /\ [Next]_vars => OpInv'
<1> SUFFICES ASSUME OpInv, [Next]_vars PROVE OpInv'
  OBVIOUS
<1>1. CASE UNCHANGED vars
  <2>1. TypeOK' /\ ResultIsOutcome'
    BY <1>1 DEF OpInv, TypeOK, ResultIsOutcome, vars
  <2>2. QueueInv'
    BY SMT, <1>1
    DEF OpInv, QueueInv, SqeInv, IssuedInv, CqeInv, CountInv, Answers, Fresh,
        Started, Due, vars
  <2> QED BY <2>1, <2>2 DEF OpInv
<1>2. CASE \E o \in Ops : KernelComplete(o) \/ KernelTimeout(o)
  BY <1>2, KernelDecides, OpDecide DEF OpInv
<1>3. CASE Dispatch BY <1>3, OpDispatch
<1>4. CASE SubmitAndWait BY <1>4, OpSubmit
<1>5. CASE \E o \in Ops : KernelPost(o) BY <1>5, OpPost
<1>6. CASE \E o \in Ops : Release(o) BY <1>6, OpRelease
<1>7. CASE \E o \in Ops, timeout, buffered \in BOOLEAN : Await(o, timeout, buffered)
  BY <1>7, OpAwait
<1> QED BY <1>1, <1>2, <1>3, <1>4, <1>5, <1>6, <1>7 DEF Next

\* The invariant of the operations holds in every reachable state.
LEMMA OpInvariant == Spec => []OpInv
BY OpInit, OpStep, PTL DEF Spec

\* Once its coroutine is resumed, nothing in the ring or in the kernel refers to an
\* Operation, for every number of operations and every size of the queue: ref_count
\* is exactly the number of completions to come.
THEOREM NoneRefersAfterResume == Spec => []NoReferenceAfterResume
<1>1. ASSUME OpInv PROVE NoReferenceAfterResume
  <2> SUFFICES ASSUME NEW o \in Ops, phase[o] # "pending"
               PROVE  /\ o \notin issued
                      /\ \A e \in Range(sq) : e.op # o
                      /\ \A c \in owed \cup Range(cq) : c.op # o
    BY DEF NoReferenceAfterResume
  <2> QED BY <1>1, NoReference DEF OpInv, Range
<1> QED BY OpInvariant, <1>1, PTL

\* What a coroutine sees is what happened to its operation, for every number of
\* operations and whichever completion comes first.
THEOREM ResultIsWhatHappened == Spec => []ResultIsOutcome
<1>1. OpInv => ResultIsOutcome
  BY DEF OpInv
<1> QED BY OpInvariant, <1>1, PTL

-----------------------------------------------------------------------------
(* The buffers.                                                             *)

\* A step that gives no operation a buffer and puts none back.
LEMMA OwnerKept ==
  ASSUME OwnerInv, free' = free, sq' = sq,
         \A o \in Ops : held'[o] # None => phase'[o] = "resumed",
         \A o \in Ops, b \in Buffers : OpHas(o, b)' => OpHas(o, b)
  PROVE  OwnerInv'
<1>1. \A b : Provided(b)' <=> Provided(b)
  BY DEF Provided
<1> QED BY <1>1 DEF OwnerInv

\* A step of the loop thread that changes the queues: the buffers it puts back are
\* no operation's any more.
LEMMA OwnerShift ==
  ASSUME OwnerInv, NEW N, NEW F, Shift(N, F),
         \A o \in Ops : held'[o] # None => phase'[o] = "resumed",
         \A o \in Ops, b \in Buffers : OpHas(o, b)' => OpHas(o, b),
         N = {} \/ F = {},
         \A b \in Buffers :
           b \in F \/ (\E e \in N : e.kind = "provide" /\ e.buf = b) =>
             /\ b \notin free /\ ~Provided(b)
             /\ \A o \in Ops : ~OpHas(o, b)'
  PROVE  OwnerInv'
<1>1. ASSUME NEW b \in Buffers
      PROVE  /\ Provided(b)' => \/ Provided(b) /\ free' \subseteq free \cup F
                                \/ \E e \in N : e.kind = "provide" /\ e.buf = b
             /\ b \in free' => b \in free \/ b \in F \/ Provided(b)
  BY SMT DEF Shift, Provided
<1>2. ASSUME NEW b \in Buffers, NEW o \in Ops, OpHas(o, b)'
      PROVE  b \notin free' /\ ~Provided(b)'
  BY <1>1, <1>2 DEF OwnerInv
<1>3. ASSUME NEW b \in Buffers, Provided(b)' PROVE b \notin free'
  <2>1. CASE \E e \in N : e.kind = "provide" /\ e.buf = b
    BY <1>1, <2>1
  <2>2. CASE ~\E e \in N : e.kind = "provide" /\ e.buf = b
    <3>1. Provided(b) /\ free' \subseteq free \cup F
      BY <1>1, <1>3, <2>2
    <3> QED BY <3>1 DEF OwnerInv
  <2> QED BY <2>1, <2>2
<1> QED BY <1>2, <1>3 DEF OwnerInv

\* At the start every buffer is the kernel's.
LEMMA OwnerInit == Init => OwnerInv
<1> SUFFICES ASSUME Init PROVE OwnerInv
  OBVIOUS
<1>1. \A o \in Ops : held[o] = None /\ bid[o] = None
  BY DEF Init
<1>2. \A o \in Ops, b \in Buffers : ~OpHas(o, b)
  BY SMT, <1>1, NoneAssumption DEF Init, OpHas
<1>3. \A b \in Buffers : ~Provided(b)
  BY SMT DEF Init, Provided
<1> QED BY <1>1, <1>2, <1>3 DEF OwnerInv

\* A CQE without an operation gives nobody a buffer.
LEMMA OwnerCq ==
  ASSUME NEW N, NEW F, Shift(N, F), NEW o \in Ops, NEW b
  PROVE  (\E i \in DOMAIN cq' : cq'[i].op = o /\ cq'[i].buf = b)
           => \E i \in DOMAIN cq : cq[i].op = o /\ cq[i].buf = b
BY SMT, NoneAssumption DEF Shift, ProvideCqe

\* Submitting the queue moves SQEs, and no buffer but to the kernel.
LEMMA OwnerSubmit ==
  ASSUME OpInv, OwnerInv, SubmitAndWait
  PROVE  OwnerInv'
<1>1. Shift({}, {})
  BY OpSubmit
<1>2. UNCHANGED <<phase, bid, held, owed>>
  BY DEF SubmitAndWait, opvars
<1>3. \A p \in Ops, b \in Buffers : OpHas(p, b)' => OpHas(p, b)
  BY SMT, <1>1, <1>2, OwnerCq DEF OpHas
<1>4. \A p \in Ops : held'[p] # None => phase'[p] = "resumed"
  BY <1>2 DEF OwnerInv
<1> QED BY SMT, <1>1, <1>3, <1>4, OwnerShift

\* Starting an operation hands no buffer on; releasing its result gives the
\* buffer back.
LEMMA OwnerLoop ==
  ASSUME OpInv, OwnerInv, NEW o \in Ops,
         Release(o) \/ \E timeout, buffered \in BOOLEAN : Await(o, timeout, buffered)
  PROVE  OwnerInv'
<1>1. TypeOK /\ QueueInv
  BY DEF OpInv
<1>2. CASE Release(o)
  <2>1. PICK N \in SUBSET {ProvideSqe(held[o])}, F \in SUBSET {held[o]} :
          Shift(N, F) /\ (held[o] = None => N = {} /\ F = {}) /\ (N = {} \/ F = {})
    BY <1>2, OpRelease
  <2>2. /\ phase[o] = "resumed" /\ phase' = [phase EXCEPT ![o] = "idle"]
        /\ held' = [held EXCEPT ![o] = None] /\ UNCHANGED <<bid, owed>>
    BY <1>2 DEF Release
  <2>3. /\ phase'[o] = "idle" /\ held'[o] = None
        /\ \A p \in Ops : p # o => phase'[p] = phase[p] /\ held'[p] = held[p]
    BY <1>1, <2>2 DEF TypeOK
  <2>4. ASSUME NEW p \in Ops, NEW b \in Buffers, OpHas(p, b)' PROVE OpHas(p, b) /\ p # o
    <3>1. p # o
      BY SMT, <1>1, <2>1, <2>2, <2>3, <2>4, OwnerCq, NoReference, NoneAssumption DEF OpHas
    <3> QED BY SMT, <2>1, <2>2, <2>3, <2>4, <3>1, OwnerCq DEF OpHas
  <2>5. \A p \in Ops : held'[p] # None => phase'[p] = "resumed"
    BY <2>3 DEF OwnerInv
  <2>6. ASSUME NEW b \in Buffers,
               b \in F \/ (\E e \in N : e.kind = "provide" /\ e.buf = b)
        PROVE  /\ b \notin free /\ ~Provided(b)
               /\ \A p \in Ops : ~OpHas(p, b)'
    <3>1. b = held[o]
      BY SMT, <2>1, <2>6 DEF ProvideSqe
    <3>2. OpHas(o, b)
      BY <3>1 DEF OpHas
    <3> QED BY <2>4, <3>2 DEF OwnerInv
  <2> QED BY <2>1, <2>4, <2>5, <2>6, OwnerShift
<1>3. ASSUME NEW timeout \in BOOLEAN, NEW buffered \in BOOLEAN, Await(o, timeout, buffered)
      PROVE  OwnerInv'
  <2>1. PICK N : Shift(N, {}) /\ N \subseteq {IoSqe(o), TimeoutSqe(o)}
    BY <1>3, OpAwait
  <2>2. /\ phase[o] = "idle" /\ phase' = [phase EXCEPT ![o] = "pending"]
        /\ bid' = [bid EXCEPT ![o] = None] /\ UNCHANGED <<held, owed>>
    BY <1>3 DEF Await, StartOp
  <2>3. /\ phase'[o] = "pending" /\ bid'[o] = None /\ held[o] = None
        /\ \A p \in Ops : p # o => phase'[p] = phase[p] /\ bid'[p] = bid[p]
    BY <1>1, <2>2 DEF TypeOK, OwnerInv
  <2>4. \A p \in Ops, b \in Buffers : OpHas(p, b)' => OpHas(p, b)
    BY SMT, <2>1, <2>2, <2>3, OwnerCq, NoneAssumption DEF OpHas
  <2>5. \A p \in Ops : held'[p] # None => phase'[p] = "resumed"
    BY <2>2, <2>3 DEF OwnerInv
  <2>6. \A e \in N : e.kind # "provide"
    BY SMT, <2>1 DEF IoSqe, TimeoutSqe
  <2> QED BY SMT, <2>1, <2>4, <2>5, <2>6, OwnerShift
<1> QED BY <1>2, <1>3

\* A buffer the kernel hands out was free.
LEMMA OwnerDecide ==
  ASSUME OpInv, OwnerInv, NEW o \in Ops, NEW r, NEW b, Decision(o, r, b), Decide(o, r, b)
  PROVE  OwnerInv'
<1>1. /\ o \in issued /\ owed' = owed \cup CqesOf(o, r, b) /\ free' = free \ {b}
      /\ UNCHANGED <<phase, bid, held, sq, cq>>
  BY DEF Decide, opvars
<1>2. \A c \in CqesOf(o, r, b) : c.op = o /\ (c.buf = b \/ c.buf = None)
  BY SMT DEF CqesOf
<1>3. ASSUME NEW p \in Ops, NEW x \in Buffers, OpHas(p, x)'
      PROVE  OpHas(p, x) \/ (p = o /\ x = b /\ x \in free)
  <2>1. OpHas(p, x) \/ \E c \in CqesOf(o, r, b) : c.op = p /\ c.buf = x
    BY <1>1, <1>3 DEF OpHas
  <2> QED BY <1>2, <2>1, NoneAssumption DEF Decision
<1>4. \A x : Provided(x)' <=> Provided(x)
  BY <1>1 DEF Provided
<1>5. \A p \in Ops : held'[p] # None => phase'[p] = "resumed"
  BY <1>1 DEF OwnerInv
<1> QED BY <1>1, <1>3, <1>4, <1>5 DEF OwnerInv

\* A completion hands its buffer on to bid or to the IOResult, or drops it.
LEMMA OwnerDispatch ==
  ASSUME OpInv, OwnerInv, Dispatch
  PROVE  OwnerInv'
<1>1. TypeOK /\ QueueInv
  BY DEF OpInv
<1>2. /\ cq # <<>> /\ cq' = Tail(cq) /\ UNCHANGED <<sq, owed, free>>
  BY DEF Dispatch
<1>3. /\ 1 \in DOMAIN cq /\ Head(cq) = cq[1]
      /\ \A i \in DOMAIN cq' : i + 1 \in DOMAIN cq /\ cq'[i] = cq[i + 1]
  BY SMT, <1>1, <1>2 DEF TypeOK
<1>4. PICK c : c = Head(cq)
  OBVIOUS
<1>5. CASE c.op = None
  <2>1. UNCHANGED <<phase, bid, held>>
    BY <1>4, <1>5 DEF Dispatch, opvars
  <2>2. \A p \in Ops, b \in Buffers : OpHas(p, b)' => OpHas(p, b)
    BY SMT, <1>2, <1>3, <2>1 DEF OpHas
  <2> QED BY <1>2, <2>1, <2>2, OwnerKept DEF OwnerInv
<1>6. CASE c.op # None
  <2>1. PICK o \in Ops : o = c.op /\ phase[o] = "pending"
    BY SMT, <1>1, <1>3, <1>4, <1>6 DEF QueueInv, CqeInv, Answers, ProvideCqe
  <2>2. /\ bid' = [bid EXCEPT ![o] = NewBid(c)]
        /\ IF ref_count[o] = 1
           THEN /\ phase' = [phase EXCEPT ![o] = "resumed"]
                /\ held' = [held EXCEPT ![o] = ResumedWith(NewResult(c), NewBid(c))]
           ELSE UNCHANGED <<phase, held>>
    BY <1>4, <1>6, <2>1 DEF Dispatch
  <2>3. \A p \in Ops : p # o => /\ phase'[p] = phase[p] /\ held'[p] = held[p]
                                /\ bid'[p] = bid[p]
    BY <1>1, <2>2 DEF TypeOK
  <2>4. bid'[o] = NewBid(c) /\ (NewBid(c) = c.buf \/ NewBid(c) = bid[o])
    BY <1>1, <2>1, <2>2 DEF TypeOK, NewBid
  <2>5. \/ phase'[o] = "pending" /\ held'[o] = held[o]
        \/ phase'[o] = "resumed" /\ held'[o] \in {NewBid(c), None}
    BY <1>1, <2>1, <2>2 DEF TypeOK, ResumedWith
  <2>6. OpHas(o, c.buf) /\ OpHas(o, bid[o])
    BY <1>3, <1>4, <2>1 DEF OpHas
  <2>7. ASSUME NEW p \in Ops, NEW b \in Buffers, OpHas(p, b)' PROVE OpHas(p, b)
    <3>1. CASE \/ \E d \in owed' : d.op = p /\ d.buf = b
               \/ \E i \in DOMAIN cq' : cq'[i].op = p /\ cq'[i].buf = b
      BY <1>2, <1>3, <3>1 DEF OpHas
    <3>2. CASE (phase'[p] = "pending" /\ bid'[p] = b) \/ held'[p] = b
      <4>1. CASE p # o BY <2>3, <3>2, <4>1 DEF OpHas
      <4>2. CASE p = o
        BY SMT, <2>1, <2>4, <2>5, <2>6, <3>2, <4>2, NoneAssumption DEF OwnerInv
      <4> QED BY <4>1, <4>2
    <3> QED BY <2>7, <3>1, <3>2 DEF OpHas
  <2>8. \A p \in Ops : held'[p] # None => phase'[p] = "resumed"
    BY <2>1, <2>3, <2>5 DEF OwnerInv
  <2> QED BY <1>2, <2>7, <2>8, OwnerKept
<1> QED BY <1>5, <1>6

\* Every step keeps a single owner for every buffer.
LEMMA OwnerStep == OpInv /\ OwnerInv /\ [Next]_vars => OwnerInv'
<1> SUFFICES ASSUME OpInv, OwnerInv, [Next]_vars PROVE OwnerInv'
  OBVIOUS
<1>1. CASE UNCHANGED vars
  BY <1>1, OwnerKept DEF vars, OwnerInv, OpHas
<1>2. CASE \E o \in Ops : KernelComplete(o) \/ KernelTimeout(o)
  BY <1>2, KernelDecides, OwnerDecide DEF OpInv
<1>3. CASE Dispatch BY <1>3, OwnerDispatch
<1>4. ASSUME NEW o \in Ops, KernelPost(o) PROVE OwnerInv'
  <2>1. PICK c \in owed : owed' = owed \ {c} /\ cq' = Append(cq, c)
    BY <1>4 DEF KernelPost
  <2>2. UNCHANGED <<phase, bid, held, sq, free>>
    BY <1>4 DEF KernelPost, opvars
  <2>3. \A i \in DOMAIN cq' : (i \in DOMAIN cq /\ cq'[i] = cq[i]) \/ cq'[i] = c
    BY SMT, <2>1 DEF OpInv, TypeOK
  <2>4. \A p \in Ops, b \in Buffers : OpHas(p, b)' => OpHas(p, b)
    BY <2>1, <2>2, <2>3 DEF OpHas
  <2> QED BY <2>2, <2>4, OwnerKept DEF OwnerInv
<1>5. ASSUME NEW o \in Ops, Release(o) PROVE OwnerInv'
  BY <1>5, OwnerLoop
<1>6. ASSUME NEW o \in Ops, NEW t \in BOOLEAN, NEW b \in BOOLEAN, Await(o, t, b)
      PROVE  OwnerInv'
  BY <1>6, OwnerLoop
<1>7. CASE SubmitAndWait
  BY <1>7, OwnerSubmit
<1> QED BY <1>1, <1>2, <1>3, <1>4, <1>5, <1>6, <1>7 DEF Next

\* A provided buffer a coroutine can read is nobody else's, for every number of
\* operations and buffers: not another IOResult's, not the kernel's to hand out,
\* and in no queue.
THEOREM BufferHasOneOwner == Spec => []BufferOwnership
<1>1. ASSUME OpInv, OwnerInv PROVE BufferOwnership
  <2> SUFFICES ASSUME NEW o \in Ops, held[o] # None
               PROVE  /\ \A p \in Ops \ {o} : held[p] # held[o]
                      /\ held[o] \notin free
                      /\ \A c \in owed \cup Range(cq) : c.buf # held[o]
                      /\ \A e \in Range(sq) : e.buf # held[o]
    BY <1>1 DEF BufferOwnership, OpInv
  <2>1. PICK b \in Buffers : b = held[o] /\ OpHas(o, b) /\ phase[o] = "resumed"
    BY <1>1 DEF OpInv, TypeOK, OwnerInv, OpHas
  <2>2. \A p \in Ops \ {o} : held[p] # b
    BY <1>1, <2>1 DEF OwnerInv, OpHas
  <2>3. b \notin free /\ ~Provided(b)
    BY <1>1, <2>1 DEF OwnerInv
  <2>4. \A i \in DOMAIN sq : sq[i].buf # b
    BY <1>1, <2>1, <2>3, NoneAssumption DEF OpInv, QueueInv, SqeInv, Provided
  <2>5. ASSUME NEW c \in owed \cup Range(cq), c.buf = b PROVE FALSE
    <3>1. c.op \in Ops /\ OpHas(c.op, b)
      <4>1. b # None /\ (c \in owed \/ \E i \in DOMAIN cq : c = cq[i])
        BY <2>5, NoneAssumption DEF Range
      <4>2. c = ProvideCqe \/ Answers(c)
        BY <1>1, <4>1 DEF OpInv, QueueInv, CqeInv
      <4> QED BY SMT, <2>5, <4>1, <4>2, NoneAssumption DEF Answers, ProvideCqe, OpHas, Range
    <3>2. c.op = o
      BY <1>1, <2>1, <3>1 DEF OwnerInv
    <3> QED BY <1>1, <2>1, <2>5, <3>2, NoReference DEF OpInv, Range
  <2> QED BY <2>1, <2>2, <2>3, <2>4, <2>5 DEF Range
<1> QED BY OpInvariant, OwnerInit, OwnerStep, <1>1, PTL DEF Spec

-----------------------------------------------------------------------------
(* The buffers that get lost.                                               *)

\* Only a request that succeeded has a buffer in its CQE, and bid is set only once
\* that CQE has been dispatched.
BidInv ==
  /\ \A c \in owed : c.buf # None => c.res \in {"zero", "data"}
  /\ \A i \in DOMAIN cq : cq[i].buf # None => cq[i].res \in {"zero", "data"}
  /\ \A o \in Ops : phase[o] = "pending" /\ bid[o] # None =>
       ~Due(o, "io") /\ outcome[o].io \in {"zero", "data"}

\* At the start there is no CQE and no bid.
LEMMA BidInit == Init => BidInv
<1> SUFFICES ASSUME Init PROVE BidInv
  OBVIOUS
<1>1. owed = {} /\ cq = <<>> /\ \A o \in Ops : bid[o] = None
  BY DEF Init
<1>2. DOMAIN cq = {}
  BY SMT, <1>1
<1> QED BY <1>1, <1>2 DEF BidInv

\* A step of the loop thread that changes the queues.
LEMMA BidShift ==
  ASSUME BidInv, NEW N, NEW F, Shift(N, F), owed' = owed,
         \A p \in Ops : phase'[p] = "pending" /\ bid'[p] # None =>
           phase[p] = "pending" /\ bid[p] = bid'[p] /\ outcome'[p] = outcome[p]
  PROVE  BidInv'
<1>1. ProvideCqe.buf = None /\ ProvideCqe.op = None
  BY DEF ProvideCqe
<1>2. \A i \in DOMAIN cq' : (i \in DOMAIN cq /\ cq'[i] = cq[i]) \/ cq'[i] = ProvideCqe
  BY DEF Shift
<1>3. ASSUME NEW p \in Ops, Due(p, "io")' PROVE Due(p, "io")
  <2>1. p # None
    BY NoneAssumption
  <2> QED BY <1>1, <1>2, <1>3, <2>1 DEF Due
<1>4. \A i \in DOMAIN cq' : cq'[i].buf # None => cq'[i].res \in {"zero", "data"}
  BY <1>1, <1>2 DEF BidInv
<1>5. \A c \in owed' : c.buf # None => c.res \in {"zero", "data"}
  BY DEF BidInv
<1>6. ASSUME NEW p \in Ops, phase'[p] = "pending", bid'[p] # None
      PROVE  ~Due(p, "io")' /\ outcome'[p].io \in {"zero", "data"}
  <2>1. phase[p] = "pending" /\ bid[p] # None /\ outcome'[p] = outcome[p]
    BY <1>6
  <2> QED BY <1>3, <2>1 DEF BidInv
<1> QED BY <1>4, <1>5, <1>6 DEF BidInv

\* The steps of the loop thread that change the queues.
LEMMA BidLoop ==
  ASSUME OpInv, BidInv,
         \/ SubmitAndWait
         \/ \E o \in Ops : Release(o)
         \/ \E o \in Ops, timeout, buffered \in BOOLEAN : Await(o, timeout, buffered)
  PROVE  BidInv'
<1>1. TypeOK
  BY DEF OpInv
<1>2. CASE SubmitAndWait
  <2>1. Shift({}, {})
    BY <1>2, OpSubmit
  <2>2. UNCHANGED <<phase, bid, owed, outcome>>
    BY <1>2 DEF SubmitAndWait, opvars
  <2> QED BY <2>1, <2>2, BidShift
<1>3. ASSUME NEW o \in Ops, Release(o) PROVE BidInv'
  <2>1. PICK N, F : Shift(N, F)
    BY <1>3, OpRelease
  <2>2. phase' = [phase EXCEPT ![o] = "idle"] /\ UNCHANGED <<bid, owed, outcome>>
    BY <1>3 DEF Release
  <2>3. \A p \in Ops : phase'[p] = "pending" => phase[p] = "pending"
    BY <1>1, <2>2 DEF TypeOK
  <2> QED BY <2>1, <2>2, <2>3, BidShift
<1>4. ASSUME NEW o \in Ops, NEW timeout \in BOOLEAN, NEW buffered \in BOOLEAN,
             Await(o, timeout, buffered)
      PROVE  BidInv'
  <2>1. PICK N : Shift(N, {})
    BY <1>4, OpAwait
  <2>2. /\ phase' = [phase EXCEPT ![o] = "pending"] /\ bid' = [bid EXCEPT ![o] = None]
        /\ outcome' = [outcome EXCEPT ![o] = NoOutcome] /\ owed' = owed
    BY <1>4 DEF Await, StartOp
  <2>3. bid'[o] = None
    BY <1>1, <2>2 DEF TypeOK
  <2>4. \A p \in Ops : p # o =>
          phase'[p] = phase[p] /\ bid'[p] = bid[p] /\ outcome'[p] = outcome[p]
    BY <1>1, <2>2 DEF TypeOK
  <2>5. \A p \in Ops : phase'[p] = "pending" /\ bid'[p] # None =>
          phase[p] = "pending" /\ bid[p] = bid'[p] /\ outcome'[p] = outcome[p]
    BY <2>3, <2>4
  <2> QED BY <2>1, <2>2, <2>5, BidShift
<1> QED BY <1>2, <1>3, <1>4

\* The kernel hands a buffer to a request that succeeds, which has no bid yet.
LEMMA BidDecide ==
  ASSUME OpInv, BidInv, NEW o \in Ops, NEW r, NEW b, Decision(o, r, b), Decide(o, r, b)
  PROVE  BidInv'
<1>1. /\ o \in issued /\ owed' = owed \cup CqesOf(o, r, b)
      /\ outcome' = [outcome EXCEPT ![o] = r] /\ UNCHANGED <<phase, bid, cq>>
  BY DEF Decide, opvars
<1>2. bid[o] = None
  BY <1>1 DEF OpInv, QueueInv, IssuedInv, Fresh, Started
<1>3. \A c \in CqesOf(o, r, b) : c.op = o /\ (c.buf # None => c.buf = b /\ c.res = r.io)
  <2>1. PICK x, y : /\ x = [kind |-> "io", op |-> o, res |-> r.io, buf |-> b]
                    /\ y = [kind |-> "to", op |-> o, res |-> r.to, buf |-> None]
    OBVIOUS
  <2>2. x.op = o /\ x.buf = b /\ x.res = r.io /\ y.op = o /\ y.buf = None
    BY <2>1
  <2>3. \A c \in CqesOf(o, r, b) : c = x \/ c = y
    BY <2>1 DEF CqesOf
  <2> QED BY <2>2, <2>3
<1>4. \A c \in owed' : c.buf # None => c.res \in {"zero", "data"}
  BY <1>1, <1>3 DEF BidInv, Decision
<1>5. ASSUME NEW p \in Ops, phase'[p] = "pending", bid'[p] # None
      PROVE  ~Due(p, "io")' /\ outcome'[p].io \in {"zero", "data"}
  <2>1. p # o /\ phase[p] = "pending" /\ bid[p] # None
    BY <1>1, <1>2, <1>5
  <2>2. outcome'[p] = outcome[p]
    BY <1>1, <2>1 DEF OpInv, TypeOK
  <2>3. Due(p, "io")' => Due(p, "io")
    BY <1>1, <1>3, <2>1 DEF Due
  <2> QED BY <2>1, <2>2, <2>3 DEF BidInv
<1> QED BY <1>1, <1>4, <1>5 DEF BidInv

\* A CQE is posted as it is.
LEMMA BidPost ==
  ASSUME OpInv, BidInv, NEW o \in Ops, KernelPost(o)
  PROVE  BidInv'
<1>1. PICK c \in owed : owed' = owed \ {c} /\ cq' = Append(cq, c)
  BY DEF KernelPost
<1>2. UNCHANGED <<phase, bid, outcome>>
  BY DEF KernelPost, opvars
<1>3. \A i \in DOMAIN cq' : (i \in DOMAIN cq /\ cq'[i] = cq[i]) \/ cq'[i] = c
  BY SMT, <1>1 DEF OpInv, TypeOK
<1>4. \A p \in Ops : Due(p, "io")' => Due(p, "io")
  BY <1>1, <1>3 DEF Due
<1>5. \A i \in DOMAIN cq' : cq'[i].buf # None => cq'[i].res \in {"zero", "data"}
  BY <1>3 DEF BidInv
<1>6. \A d \in owed' : d.buf # None => d.res \in {"zero", "data"}
  BY <1>1 DEF BidInv
<1> QED BY <1>2, <1>4, <1>5, <1>6 DEF BidInv

\* A turn of the CQE loop, for a CQE c of operation o: bid takes the buffer of c, if
\* it has one, and the IOResult the bid, if the coroutine is resumed with a success.
Turn(c, o) ==
  /\ o \in Ops /\ c.op = o /\ phase[o] = "pending"
  /\ c.kind \in {"io", "to"} /\ Due(o, c.kind) /\ ~Due(o, c.kind)'
  /\ c.buf # None => c.kind = "io" /\ c.res = outcome[o].io
  /\ bid'[o] = (IF c.kind = "io" /\ c.res # "canceled" /\ c.buf # None THEN c.buf ELSE bid[o])
  /\ \/ phase'[o] = "pending" /\ held'[o] = held[o]
     \/ phase'[o] = "resumed" /\ held'[o] = ResumedWith(result'[o], bid'[o])
  /\ \A p \in Ops : p # o =>
       phase'[p] = phase[p] /\ bid'[p] = bid[p] /\ held'[p] = held[p]

\* The CQEs that are left, and the operation of the one that was taken.
LEMMA DispatchTurn ==
  ASSUME OpInv, Dispatch, NEW c, c = Head(cq)
  PROVE  /\ UNCHANGED <<owed, sq, free, outcome>>
         /\ \E i \in DOMAIN cq : c = cq[i]
         /\ \A i \in DOMAIN cq' : \E j \in DOMAIN cq : cq'[i] = cq[j]
         /\ \A i \in DOMAIN cq : cq[i] = c \/ \E j \in DOMAIN cq' : cq'[j] = cq[i]
         /\ \A p \in Ops : \A k : Due(p, k)' => Due(p, k)
         /\ \/ c.buf = None /\ UNCHANGED <<phase, bid, held>>
            \/ \E o \in Ops : Turn(c, o)
<1>1. TypeOK /\ QueueInv
  BY DEF OpInv
<1>2. cq # <<>> /\ cq' = Tail(cq) /\ UNCHANGED <<owed, sq, free, outcome>>
  BY DEF Dispatch
<1>3. /\ 1 \in DOMAIN cq /\ c = cq[1]
      /\ \A i \in DOMAIN cq' : i + 1 \in DOMAIN cq /\ cq'[i] = cq[i + 1]
      /\ \A i \in DOMAIN cq : i # 1 => i - 1 \in DOMAIN cq' /\ cq'[i - 1] = cq[i]
  BY SMT, <1>1, <1>2 DEF TypeOK
<1>4. \A p \in Ops : \A k : Due(p, k)' <=> Due(p, k) /\ ~(p = c.op /\ k = c.kind)
  BY <1>1, <1>2, PopCqe DEF QueueInv
<1>5. c = ProvideCqe \/ Answers(c)
  BY <1>1, <1>3 DEF QueueInv, CqeInv
<1>6. CASE c.op = None
  <2>1. c = ProvideCqe
    BY <1>5, <1>6, NoneAssumption DEF Answers
  <2>2. c.buf = None
    <3>1. ProvideCqe.buf = None
      BY DEF ProvideCqe
    <3> QED BY <2>1, <3>1
  <2>3. UNCHANGED <<phase, bid, held>>
    BY <1>6 DEF Dispatch, opvars
  <2> QED BY <1>2, <1>3, <1>4, <2>2, <2>3
<1>7. CASE c.op # None
  <2>1. Answers(c)
    <3>1. ProvideCqe.op = None
      BY DEF ProvideCqe
    <3> QED BY <1>5, <1>7, <3>1
  <2>2. PICK o \in Ops : o = c.op /\ phase[o] = "pending"
    BY <2>1 DEF Answers
  <2>3. c.kind \in {"io", "to"} /\ (c.buf # None => c.kind = "io" /\ c.res = outcome[o].io)
    BY <2>1, <2>2 DEF Answers
  <2>4. /\ result' = [result EXCEPT ![o] = NewResult(c)]
        /\ bid' = [bid EXCEPT ![o] = NewBid(c)]
        /\ IF ref_count[o] = 1
           THEN /\ phase' = [phase EXCEPT ![o] = "resumed"]
                /\ held' = [held EXCEPT ![o] = ResumedWith(NewResult(c), NewBid(c))]
           ELSE UNCHANGED <<phase, held>>
    BY <1>7, <2>2 DEF Dispatch
  <2>5. result'[o] = NewResult(c) /\ bid'[o] = NewBid(c)
    BY <1>1, <2>4 DEF TypeOK
  <2>6. \/ phase'[o] = "pending" /\ held'[o] = held[o]
        \/ phase'[o] = "resumed" /\ held'[o] = ResumedWith(NewResult(c), NewBid(c))
    BY <1>1, <2>2, <2>4 DEF TypeOK
  <2>7. \A p \in Ops : p # o =>
          phase'[p] = phase[p] /\ bid'[p] = bid[p] /\ held'[p] = held[p]
    BY <1>1, <2>4 DEF TypeOK
  <2>8. Due(o, c.kind) /\ ~Due(o, c.kind)'
    BY <1>3, <1>4, <2>2 DEF Due
  <2>9. NewBid(c) = IF c.kind = "io" /\ c.res # "canceled" /\ c.buf # None THEN c.buf ELSE bid[o]
    BY <2>2 DEF NewBid
  <2>10. Turn(c, o)
    BY <2>2, <2>3, <2>5, <2>6, <2>7, <2>8, <2>9 DEF Turn
  <2> QED BY <1>2, <1>3, <1>4, <2>10
<1> QED BY <1>6, <1>7

\* The bid that a CQE leaves behind is that of a success, and no other will come.
LEMMA BidDispatch ==
  ASSUME OpInv, BidInv, Dispatch
  PROVE  BidInv'
<1>1. PICK c : c = Head(cq)
  OBVIOUS
<1>2. /\ UNCHANGED <<owed, outcome>>
      /\ \E i \in DOMAIN cq : c = cq[i]
      /\ \A i \in DOMAIN cq' : \E j \in DOMAIN cq : cq'[i] = cq[j]
      /\ \A p \in Ops : \A k : Due(p, k)' => Due(p, k)
      /\ \/ UNCHANGED <<phase, bid>>
         \/ \E o \in Ops : Turn(c, o)
  BY <1>1, DispatchTurn
<1>3. c.buf # None => c.res \in {"zero", "data"}
  BY <1>2 DEF BidInv
<1>4. /\ \A d \in owed' : d.buf # None => d.res \in {"zero", "data"}
      /\ \A i \in DOMAIN cq' : cq'[i].buf # None => cq'[i].res \in {"zero", "data"}
  BY <1>2 DEF BidInv
<1>5. ASSUME NEW p \in Ops, phase'[p] = "pending", bid'[p] # None
      PROVE  ~Due(p, "io")' /\ outcome[p].io \in {"zero", "data"}
  <2>1. CASE phase[p] = "pending" /\ bid[p] # None
    BY <1>2, <2>1 DEF BidInv
  <2>2. CASE ~(phase[p] = "pending" /\ bid[p] # None)
    <3>1. PICK o \in Ops : Turn(c, o)
      BY <1>2, <1>5, <2>2
    <3>2. p = o
      BY <1>5, <2>2, <3>1 DEF Turn
    <3>3. c.buf # None /\ c.kind = "io"
      BY <1>5, <2>2, <3>1, <3>2 DEF Turn
    <3> QED BY <1>3, <3>1, <3>2, <3>3 DEF Turn
  <2> QED BY <2>1, <2>2
<1> QED BY <1>2, <1>4, <1>5 DEF BidInv

\* Every step keeps it.
LEMMA BidStep == OpInv /\ BidInv /\ [Next]_vars => BidInv'
<1> SUFFICES ASSUME OpInv, BidInv, [Next]_vars PROVE BidInv'
  OBVIOUS
<1>1. CASE UNCHANGED vars
  <2>1. UNCHANGED <<phase, bid, owed, cq, outcome>>
    BY <1>1 DEF vars
  <2>2. \A p \in Ops : Due(p, "io")' <=> Due(p, "io")
    BY <2>1 DEF Due
  <2> QED BY <2>1, <2>2 DEF BidInv
<1>2. CASE \E o \in Ops : KernelComplete(o) \/ KernelTimeout(o)
  BY <1>2, KernelDecides, BidDecide DEF OpInv
<1>3. CASE Dispatch BY <1>3, BidDispatch
<1>4. CASE \E o \in Ops : KernelPost(o) BY <1>4, BidPost
<1>5. CASE \/ SubmitAndWait \/ \E o \in Ops : Release(o)
           \/ \E o \in Ops, timeout, buffered \in BOOLEAN : Await(o, timeout, buffered)
  BY <1>5, BidLoop
<1> QED BY <1>1, <1>2, <1>3, <1>4, <1>5 DEF Next

\* Somebody has buffer b: the kernel, an operation or an SQE.
Has(b) == b \in free \/ (\E o \in Ops : OpHas(o, b)) \/ Provided(b)

\* A buffer that is not lost is somebody's.
LEMMA HasUnlessLost ==
  ASSUME OpInv, NEW b \in Buffers, b \notin Lost
  PROVE  Has(b)
<1>1. QueueInv /\ b # None
  BY NoneAssumption DEF OpInv
<1>2. ASSUME NEW e \in Range(sq), e.buf = b PROVE Provided(b)
  <2>1. PICK i \in DOMAIN sq : e = sq[i]
    BY DEF Range
  <2>2. sq[i].kind = "provide"
    BY <1>1, <1>2, <2>1 DEF QueueInv, SqeInv
  <2> QED BY <1>2, <2>1, <2>2 DEF Provided
<1>3. ASSUME NEW c \in owed, c.buf = b PROVE \E o \in Ops : OpHas(o, b)
  <2>1. c.op \in Ops
    BY <1>1 DEF QueueInv, CqeInv, Answers
  <2> QED BY <1>3, <2>1 DEF OpHas
<1>4. ASSUME NEW c \in Range(cq), c.buf = b PROVE \E o \in Ops : OpHas(o, b)
  <2>1. PICK i \in DOMAIN cq : c = cq[i]
    BY DEF Range
  <2>2. ProvideCqe.buf = None
    BY DEF ProvideCqe
  <2>3. Answers(cq[i])
    BY <1>1, <1>4, <2>1, <2>2 DEF QueueInv, CqeInv
  <2>4. cq[i].op \in Ops
    BY <2>3 DEF Answers
  <2> QED BY <1>4, <2>1, <2>4 DEF OpHas
<1>5. \/ b \in free \/ (\E o \in Ops : held[o] = b)
      \/ (\E o \in Ops : phase[o] = "pending" /\ bid[o] = b)
      \/ (\E c \in owed \cup Range(cq) : c.buf = b) \/ (\E e \in Range(sq) : e.buf = b)
  BY DEF Lost
<1> QED BY <1>2, <1>3, <1>4, <1>5 DEF Has, OpHas

\* A buffer that is lost by a step is nobody's after it.
LEMMA LostIsNobodys ==
  ASSUME NEW b, b \in Lost'
  PROVE  ~Has(b)'
<1>1. /\ b \notin free' /\ \A o \in Ops : held'[o] # b
      /\ \A o \in Ops : phase'[o] = "pending" => bid'[o] # b
      /\ \A c \in owed' \cup Range(cq') : c.buf # b
      /\ \A e \in Range(sq') : e.buf # b
  BY DEF Lost
<1>2. \A i \in DOMAIN cq' : cq'[i].buf # b
  BY <1>1 DEF Range
<1>3. \A i \in DOMAIN sq' : sq'[i].buf # b
  BY <1>1 DEF Range
<1> QED BY <1>1, <1>2, <1>3 DEF Has, OpHas, Provided

\* A step of the loop thread that changes the queues loses nothing.
LEMMA ShiftLosesNothing ==
  ASSUME NEW N, NEW F, Shift(N, F), owed' = owed, NEW b, Has(b),
         \A p \in Ops : phase[p] = "pending" => phase'[p] = "pending" /\ bid'[p] = bid[p],
         \A p \in Ops : held[p] = b =>
           held'[p] = b \/ b \in F \/ \E e \in N : e.kind = "provide" /\ e.buf = b
  PROVE  Has(b)'
<1>1. /\ free \subseteq free' /\ F \subseteq free'
      /\ Provided(b) => Provided(b)' \/ b \in free'
      /\ \A e \in N : e.kind = "provide" => Provided(e.buf)'
  BY DEF Shift, Kept
<1>2. \A i \in DOMAIN cq : i \in DOMAIN cq' /\ cq'[i] = cq[i]
  BY DEF Shift
<1>3. ASSUME NEW p \in Ops, OpHas(p, b) PROVE Has(b)'
  <2>1. CASE held[p] = b
    BY <1>1, <2>1 DEF Has, OpHas
  <2>2. CASE held[p] # b
    <3>1. OpHas(p, b)'
      BY <1>2, <1>3, <2>2 DEF OpHas
    <3> QED BY <3>1 DEF Has
  <2> QED BY <2>1, <2>2
<1> QED BY <1>1, <1>3 DEF Has

\* Starting an operation, releasing a result and submitting lose nothing.
LEMMA LoopLosesNothing ==
  ASSUME OpInv, OwnerInv, NEW b \in Buffers, Has(b),
         \/ SubmitAndWait
         \/ \E o \in Ops : Release(o)
         \/ \E o \in Ops, timeout, buffered \in BOOLEAN : Await(o, timeout, buffered)
  PROVE  Has(b)'
<1>1. TypeOK
  BY DEF OpInv
<1>2. CASE SubmitAndWait
  <2>1. Shift({}, {})
    BY <1>2, OpSubmit
  <2>2. UNCHANGED <<phase, bid, held, owed>>
    BY <1>2 DEF SubmitAndWait, opvars
  <2> QED BY <2>1, <2>2, ShiftLosesNothing
<1>3. ASSUME NEW o \in Ops, Release(o) PROVE Has(b)'
  <2>1. PICK N, F : /\ Shift(N, F)
                    /\ held[o] # None => ProvideSqe(held[o]) \in N \/ held[o] \in F
    BY <1>3, OpRelease
  <2>2. /\ phase[o] = "resumed" /\ phase' = [phase EXCEPT ![o] = "idle"]
        /\ held' = [held EXCEPT ![o] = None] /\ UNCHANGED <<bid, owed>>
    BY <1>3 DEF Release
  <2>3. \A p \in Ops : phase[p] = "pending" => phase'[p] = "pending" /\ bid'[p] = bid[p]
    BY <1>1, <2>2 DEF TypeOK
  <2>4. \A p \in Ops : p # o => held'[p] = held[p]
    BY <1>1, <2>2 DEF TypeOK
  <2>5. held[o] = b => b \in F \/ \E e \in N : e.kind = "provide" /\ e.buf = b
    <3>1. ProvideSqe(b).kind = "provide" /\ ProvideSqe(b).buf = b
      BY DEF ProvideSqe
    <3>2. b # None
      BY NoneAssumption
    <3> QED BY <2>1, <3>1, <3>2
  <2>6. \A p \in Ops : held[p] = b =>
          held'[p] = b \/ b \in F \/ \E e \in N : e.kind = "provide" /\ e.buf = b
    BY <2>4, <2>5
  <2> QED BY <2>1, <2>2, <2>3, <2>6, ShiftLosesNothing
<1>4. ASSUME NEW o \in Ops, NEW timeout \in BOOLEAN, NEW buffered \in BOOLEAN,
             Await(o, timeout, buffered)
      PROVE  Has(b)'
  <2>1. PICK N : Shift(N, {})
    BY <1>4, OpAwait
  <2>2. /\ phase[o] = "idle" /\ phase' = [phase EXCEPT ![o] = "pending"]
        /\ bid' = [bid EXCEPT ![o] = None] /\ UNCHANGED <<held, owed>>
    BY <1>4 DEF Await, StartOp
  <2>3. \A p \in Ops : p # o => phase'[p] = phase[p] /\ bid'[p] = bid[p]
    BY <1>1, <2>2 DEF TypeOK
  <2>4. \A p \in Ops : phase[p] = "pending" => phase'[p] = "pending" /\ bid'[p] = bid[p]
    BY <2>2, <2>3
  <2> QED BY <2>1, <2>2, <2>4, ShiftLosesNothing
<1> QED BY <1>2, <1>3, <1>4

\* The kernel loses nothing.
LEMMA KernelLosesNothing ==
  ASSUME OpInv, NEW b \in Buffers, Has(b), NEW o \in Ops,
         KernelComplete(o) \/ KernelTimeout(o) \/ KernelPost(o)
  PROVE  Has(b)'
<1>1. ASSUME NEW r, NEW x, Decide(o, r, x) PROVE Has(b)'
  <2>1. /\ owed' = owed \cup CqesOf(o, r, x) /\ free' = free \ {x}
        /\ UNCHANGED <<phase, bid, held, sq, cq>>
    BY <1>1 DEF Decide, opvars
  <2>2. CASE b = x
    <3>1. PICK c : c = [kind |-> "io", op |-> o, res |-> r.io, buf |-> x]
      OBVIOUS
    <3>2. c \in owed' /\ c.op = o /\ c.buf = b
      BY <2>1, <2>2, <3>1 DEF CqesOf
    <3> QED BY <3>2 DEF Has, OpHas
  <2>3. CASE b # x
    <3>1. Provided(b)' <=> Provided(b)
      BY <2>1 DEF Provided
    <3>2. \A p \in Ops : OpHas(p, b) => OpHas(p, b)'
      BY <2>1 DEF OpHas
    <3> QED BY <2>1, <2>3, <3>1, <3>2 DEF Has
  <2> QED BY <2>2, <2>3
<1>2. CASE KernelPost(o)
  <2>1. PICK c \in owed : owed' = owed \ {c} /\ cq' = Append(cq, c)
    BY <1>2 DEF KernelPost
  <2>2. UNCHANGED <<phase, bid, held, sq, free>>
    BY <1>2 DEF KernelPost, opvars
  <2>3. /\ \A i \in DOMAIN cq : i \in DOMAIN cq' /\ cq'[i] = cq[i]
        /\ \E i \in DOMAIN cq' : cq'[i] = c
    <3>1. cq \in Seq(Cqes) /\ c \in Cqes
      BY DEF OpInv, TypeOK
    <3>2. PICK z : z = cq' /\ z = Append(cq, c)
      BY <2>1
    <3>3. Follows(z, cq, c)
      BY <3>1, <3>2, Behind
    <3> QED BY <3>2, <3>3 DEF Follows
  <2>4. \A p \in Ops : OpHas(p, b) => OpHas(p, b)'
    BY <2>1, <2>2, <2>3 DEF OpHas
  <2>5. Provided(b)' <=> Provided(b)
    BY <2>2 DEF Provided
  <2> QED BY <2>2, <2>4, <2>5 DEF Has
<1>3. CASE KernelComplete(o) \/ KernelTimeout(o)
  BY <1>1, <1>3, KernelDecides DEF OpInv
<1> QED BY <1>2, <1>3

\* The -ETIME of the timeout of a read that succeeded.
Overtaken(o, b) ==
  /\ phase[o] = "pending" /\ phase'[o] = "resumed"
  /\ result'[o] = "etime" /\ bid'[o] = b
  /\ outcome[o].io \in {"zero", "data"}

\* A turn of the CQE loop loses a buffer in that case only.
LEMMA DispatchLoses ==
  ASSUME OpInv, OwnerInv, BidInv, Dispatch, ResultIsOutcome',
         NEW b \in Buffers, Has(b), ~Has(b)'
  PROVE  \E o \in Ops : Overtaken(o, b)
<1>1. PICK c : c = Head(cq)
  OBVIOUS
<1>2. /\ UNCHANGED <<owed, sq, free, outcome>>
      /\ \E i \in DOMAIN cq : c = cq[i]
      /\ \A i \in DOMAIN cq : cq[i] = c \/ \E j \in DOMAIN cq' : cq'[j] = cq[i]
      /\ \/ c.buf = None /\ UNCHANGED <<phase, bid, held>>
         \/ \E o \in Ops : Turn(c, o)
  BY <1>1, DispatchTurn
<1>3. b # None
  BY NoneAssumption
<1>4. PICK p \in Ops : OpHas(p, b)
  <2>1. Provided(b)' <=> Provided(b)
    BY <1>2 DEF Provided
  <2> QED BY <1>2, <2>1 DEF Has
<1>5. ~OpHas(p, b)'
  BY DEF Has
<1>6. \/ c.buf = b /\ c.op = p
      \/ phase[p] = "pending" /\ bid[p] = b
      \/ held[p] = b
  BY <1>2, <1>4, <1>5 DEF OpHas
<1>7. PICK o \in Ops : Turn(c, o)
  BY <1>2, <1>3, <1>5, <1>6 DEF OpHas
<1>8. p = o
  BY <1>5, <1>6, <1>7 DEF Turn, OpHas
<1>9. held[o] # b
  BY <1>3, <1>7 DEF Turn, OwnerInv
<1>10. bid'[o] = b /\ outcome[o].io \in {"zero", "data"}
  <2>1. CASE c.buf = b
    <3>1. c.kind = "io" /\ c.res = outcome[o].io /\ c.res \in {"zero", "data"}
      <4>1. c.buf # None
        BY <1>3, <2>1
      <4>2. c.res \in {"zero", "data"}
        BY <1>2, <4>1 DEF BidInv
      <4>3. c.buf # None => c.kind = "io" /\ c.res = outcome[o].io
        BY <1>7 DEF Turn
      <4> QED BY <4>1, <4>2, <4>3
    <3>2. c.res # "canceled"
      BY <3>1
    <3> QED BY <1>3, <1>7, <2>1, <3>1, <3>2 DEF Turn
  <2>2. CASE c.buf # b
    <3>1. bid[o] = b /\ phase[o] = "pending"
      BY <1>6, <1>8, <1>9, <2>2
    <3>2. ~Due(o, "io") /\ outcome[o].io \in {"zero", "data"}
      BY <1>3, <3>1 DEF BidInv
    <3>3. c.kind # "io"
      BY <1>7, <3>2 DEF Turn
    <3> QED BY <1>7, <3>1, <3>2, <3>3 DEF Turn
  <2> QED BY <2>1, <2>2
<1>11. phase[o] = "pending" /\ phase'[o] = "resumed" /\ held'[o] = ResumedWith(result'[o], b)
  BY <1>5, <1>7, <1>8, <1>10 DEF Turn, OpHas
<1>12. result'[o] \notin {"zero", "data"}
  BY <1>5, <1>8, <1>11 DEF ResumedWith, OpHas
<1>13. result'[o] = "etime"
  <2>1. result'[o] = outcome[o].io \/ result'[o] = "etime"
    BY <1>2, <1>11 DEF ResultIsOutcome
  <2> QED BY <1>10, <1>12, <2>1
<1> QED BY <1>10, <1>11, <1>13 DEF Overtaken

\* For every number of operations and buffers, a provided buffer is lost to later
\* reads in one case only: its read succeeded and the -ETIME of the linked timeout
\* replaced the result before await_resume made the IOResult.
THEOREM LostToTimeoutOnly == Spec => LostOnlyToTimeout
<1>1. ASSUME OpInv, OwnerInv, BidInv, [Next]_vars, NEW b \in Lost' \ Lost
      PROVE  \E o \in Ops : Overtaken(o, b)
  <2>1. b \in Buffers /\ b \notin Lost /\ b \in Lost'
    BY DEF Lost
  <2>2. Has(b) /\ ~Has(b)'
    BY <1>1, <2>1, HasUnlessLost, LostIsNobodys
  <2>3. CASE Dispatch
    <3>1. ResultIsOutcome'
      BY <1>1, OpStep DEF OpInv
    <3> QED BY <1>1, <2>1, <2>2, <2>3, <3>1, DispatchLoses
  <2>4. CASE UNCHANGED vars
    <3>1. Has(b)' <=> Has(b)
      BY <2>4 DEF vars, Has, OpHas, Provided
    <3> QED BY <2>2, <3>1
  <2>5. CASE \E o \in Ops : KernelComplete(o) \/ KernelTimeout(o) \/ KernelPost(o)
    BY <1>1, <2>1, <2>2, <2>5, KernelLosesNothing
  <2>6. CASE \/ SubmitAndWait \/ \E o \in Ops : Release(o)
             \/ \E o \in Ops, timeout, buffered \in BOOLEAN : Await(o, timeout, buffered)
    BY <1>1, <2>1, <2>2, <2>6, LoopLosesNothing
  <2> QED BY <1>1, <2>3, <2>4, <2>5, <2>6 DEF Next
<1>2. OpInv /\ OwnerInv /\ BidInv /\ [Next]_vars =>
        [\A b \in Lost' \ Lost :
           \E o \in Ops : /\ phase[o] = "pending" /\ phase'[o] = "resumed"
                          /\ result'[o] = "etime" /\ bid'[o] = b
                          /\ outcome[o].io \in {"zero", "data"}]_vars
  BY <1>1 DEF Overtaken
<1> QED BY <1>2, OpInvariant, OwnerInit, OwnerStep, BidInit, BidStep, PTL DEF Spec, LostOnlyToTimeout
=============================================================================
