------------------------- MODULE SessionPoolProofs -------------------------
(***************************************************************************)
(* TLAPS proofs about SessionPool: the four invariants of its run, for any *)
(* number of coroutines, keys, connections, requests and idle sessions.    *)
(*                                                                         *)
(* Base, of three parts, is inductive by itself.  TypeInv gives the types, *)
(* ExchangeInv says what each session may hold at each control state of    *)
(* the coroutine that uses it (nothing before the request is written,      *)
(* after that parts of this request's response only, nothing when idle),   *)
(* and PlaceInv that an HTTP/1 session is one entry of one h1_idle or one  *)
(* coroutine's.  PlaceInv is what lets a step on one session leave the     *)
(* exchange of every other one alone.  IdleIsQuiet and OwnResponse follow  *)
(* from Base.  NoLeakOnCleanPath, and DriverInv, which gives               *)
(* DriverOutlived, are inductive together with Base.                       *)
(*                                                                         *)
(* Many actions change the state in the same way, so the effect is named   *)
(* once (Moves, GivesBack, Settles, Serves, Works, Acquired, ConnectedAs,  *)
(* Closes) and each invariant is shown to survive the effect; an action    *)
(* then only has to be shown to have it.                                   *)
(***************************************************************************)
EXTENDS SessionPool, TLAPS

USE Zenon

-----------------------------------------------------------------------------
(* Types *)

\* The control states of a coroutine with an HTTP/1 session, with an HTTP/2 session.
H1Pcs == {"write", "head", "response", "body"}
H2Pcs == {"h2wait", "h2response"}

\* All control states of a coroutine.
Pcs == {"idle", "connect"} \cup H1Pcs \cup H2Pcs

\* The requests, the sessions and the coroutines.
Ids == 1..MaxRequests

Sessions ==
  [fd : {"none", "open", "closed"}, ver : {"h1", "h2"}, peer : {"up", "gone"},
   asked : Seq(Ids), answering : BOOLEAN, unread : Seq(Parts),
   headers_complete_ : BOOLEAN, message_complete_ : BOOLEAN, seen : SUBSET Ids,
   driver : BOOLEAN, should_close_ : BOOLEAN, goaway : BOOLEAN]

UserStates ==
  [pc : Pcs, key : Keys \cup {0}, conn : Conns \cup {None}, id : Ids \cup {0}]

\* What the control state of a coroutine says about its other fields.
WellFormed(r) ==
  /\ r.conn = None <=> r.pc \in {"idle", "connect"}
  /\ r.pc # "idle" => r.key \in Keys
  /\ r.conn # None => r.id \in Ids

\* The types, with the fields that TypeOK leaves open.
TypeInv ==
  /\ h2_session \in [Keys -> Conns \cup {None}]
  /\ h1_idle \in [Keys -> Seq(Conns)]
  /\ conn \in [Conns -> Sessions]
  /\ user \in [Users -> UserStates]
  /\ \A u \in Users : WellFormed(user[u])
  /\ requests \in 0..MaxRequests
  /\ "pc" \in DOMAIN closer /\ closer.pc \in {"idle", "join", "done"}
  /\ stale \subseteq Users
  /\ let_go \subseteq Conns /\ killed \subseteq Conns /\ dropped \subseteq Conns

-----------------------------------------------------------------------------
(* Sessions: what each update of the record leaves alone. *)

\* A connected session of either version.  An HTTP/2 session never uses the HTTP/1
\* queue of requests.
H1(s) == s.ver = "h1" /\ s.fd # "none"
H2(s) == s.ver = "h2" /\ s.fd # "none" /\ s.asked = <<>>

\* Nothing is owed, and nothing of an earlier exchange is recorded either.
Quiet(s) == s.asked = <<>> /\ s.unread = <<>>
Fresh(s) == Quiet(s) /\ s.seen = {} /\ ~s.message_complete_

\* The session may hold parts of the response to request id and of no other; the
\* body is the last of them, and behind the whole message nothing is left.
Owes(s, id) ==
  /\ s.asked \in {<<>>, <<id>>}
  /\ \A i \in DOMAIN s.unread :
       /\ s.unread[i].id = id
       /\ s.unread[i].part = "body" => i = Len(s.unread) /\ s.asked = <<>>
  /\ s.seen \subseteq {id}
  /\ s.message_complete_ => Quiet(s)

\* t is s with the descriptor closed, the peer gone, or a flag of HTTP/2 changed.
Alike(s, t) ==
  /\ t.ver = s.ver /\ (s.fd # "none" => t.fd # "none")
  /\ t.asked = s.asked /\ t.unread = s.unread /\ t.seen = s.seen
  /\ t.message_complete_ = s.message_complete_

\* Closing the descriptor.
LEMMA CloseSession ==
  ASSUME NEW s \in Sessions
  PROVE  LET t == [s EXCEPT !.fd = "closed"]
         IN  t \in Sessions /\ Alike(s, t) /\ t.fd = "closed" /\ t.peer = s.peer
<1> DEFINE t == [s EXCEPT !.fd = "closed"]
<1>1. t \in Sessions
  BY DEF Sessions
<1>2. Alike(s, t) /\ t.fd = "closed" /\ t.peer = s.peer
  BY SMT DEF Sessions, Alike
<1> QED BY <1>1, <1>2

\* What the destructor and close_async do.
LEMMA EndSession ==
  ASSUME NEW s \in Sessions
  PROVE  LET t == [s EXCEPT !.fd = "closed", !.should_close_ = TRUE]
         IN  /\ t \in Sessions /\ Alike(s, t) /\ t.peer = s.peer /\ t.fd = "closed"
             /\ t.driver = s.driver /\ t.goaway = s.goaway
<1> DEFINE t == [s EXCEPT !.fd = "closed", !.should_close_ = TRUE]
<1>1. t \in Sessions
  BY DEF Sessions
<1>2. Alike(s, t) /\ t.fd = "closed" /\ t.peer = s.peer
  BY SMT DEF Sessions, Alike
<1>3. t.driver = s.driver /\ t.goaway = s.goaway
  BY DEF Sessions
<1> QED BY <1>1, <1>2, <1>3

\* reset_state.
LEMMA ResetSession ==
  ASSUME NEW s \in Sessions
  PROVE  LET t == ResetState(s)
         IN  /\ t \in Sessions /\ t.ver = s.ver /\ t.fd = s.fd /\ t.peer = s.peer
             /\ t.asked = s.asked /\ t.unread = s.unread /\ t.driver = s.driver
             /\ t.goaway = s.goaway /\ t.should_close_ = s.should_close_
             /\ t.seen = {} /\ ~t.message_complete_
<1> DEFINE t == ResetState(s)
<1>1. t \in Sessions
  BY DEF Sessions, ResetState
<1>2. /\ t.ver = s.ver /\ t.fd = s.fd /\ t.peer = s.peer
      /\ t.asked = s.asked /\ t.unread = s.unread /\ t.seen = {}
  BY SMT DEF Sessions, ResetState
<1>3. t.driver = s.driver /\ t.goaway = s.goaway /\ t.should_close_ = s.should_close_
  BY DEF Sessions, ResetState
<1>4. ~t.message_complete_
  BY DEF Sessions, ResetState
<1> QED BY <1>1, <1>2, <1>3, <1>4

\* The flags of an HTTP/2 session, and the peer's end of the stream.
LEMMA FlagSession ==
  ASSUME NEW s \in Sessions
  PROVE  /\ LET t == [s EXCEPT !.driver = TRUE]
            IN  /\ t \in Sessions /\ Alike(s, t) /\ t.fd = s.fd /\ t.peer = s.peer
                /\ t.goaway = s.goaway /\ t.should_close_ = s.should_close_
         /\ LET t == [s EXCEPT !.goaway = TRUE]
            IN  /\ t \in Sessions /\ Alike(s, t) /\ t.fd = s.fd /\ t.peer = s.peer
                /\ t.goaway /\ t.driver = s.driver
         /\ LET t == [s EXCEPT !.driver = FALSE, !.should_close_ = TRUE]
            IN  /\ t \in Sessions /\ Alike(s, t) /\ t.fd = s.fd /\ t.peer = s.peer
                /\ t.goaway = s.goaway /\ ~t.driver
         /\ LET t == [s EXCEPT !.peer = "gone"]
            IN  /\ t \in Sessions /\ Alike(s, t) /\ t.fd = s.fd /\ t.goaway = s.goaway
                /\ t.driver = s.driver /\ t.should_close_ = s.should_close_
<1>1. LET t == [s EXCEPT !.driver = TRUE]
      IN  /\ t \in Sessions /\ Alike(s, t) /\ t.fd = s.fd /\ t.peer = s.peer
          /\ t.goaway = s.goaway /\ t.should_close_ = s.should_close_
  BY DEF Sessions, Alike
<1>2. LET t == [s EXCEPT !.goaway = TRUE]
      IN  /\ t \in Sessions /\ Alike(s, t) /\ t.fd = s.fd /\ t.peer = s.peer
          /\ t.goaway /\ t.driver = s.driver
  BY DEF Sessions, Alike
<1>3. LET t == [s EXCEPT !.driver = FALSE, !.should_close_ = TRUE]
      IN  /\ t \in Sessions /\ Alike(s, t) /\ t.fd = s.fd /\ t.peer = s.peer
          /\ t.goaway = s.goaway /\ ~t.driver
  BY DEF Sessions, Alike
<1>4. LET t == [s EXCEPT !.peer = "gone"]
      IN  /\ t \in Sessions /\ Alike(s, t) /\ t.fd = s.fd /\ t.goaway = s.goaway
          /\ t.driver = s.driver /\ t.should_close_ = s.should_close_
  BY DEF Sessions, Alike
<1> QED BY <1>1, <1>2, <1>3, <1>4

\* A connection that is not made yet, and one that has just been made.
LEMMA NewSession ==
  ASSUME NEW ver \in {"h1", "h2"}
  PROVE  LET t == NewConn(ver)
         IN  /\ t \in Sessions /\ t.ver = ver /\ t.fd = "open" /\ t.peer = "up"
             /\ t.asked = <<>> /\ t.unread = <<>> /\ ~t.driver
             /\ ~t.goaway /\ ~t.should_close_
<1> DEFINE t == NewConn(ver)
<1>1. <<>> \in Seq(Ids) /\ <<>> \in Seq(Parts)
  BY SMT
<1>2. NoConn \in Sessions
  BY <1>1 DEF NoConn, Sessions
<1>3. NoConn.peer = "up" /\ NoConn.asked = <<>> /\ NoConn.unread = <<>>
      /\ ~NoConn.driver /\ ~NoConn.goaway /\ ~NoConn.should_close_
  BY DEF NoConn
<1>4. t \in Sessions
  BY <1>2 DEF NewConn, Sessions
<1>5. /\ t.ver = ver /\ t.fd = "open" /\ t.peer = NoConn.peer
      /\ t.asked = NoConn.asked /\ t.unread = NoConn.unread /\ t.driver = NoConn.driver
      /\ t.goaway = NoConn.goaway /\ t.should_close_ = NoConn.should_close_
  BY <1>2 DEF NewConn, Sessions
<1> QED BY <1>3, <1>4, <1>5

\* A sequence in two parts.
LEMMA SplitSeq ==
  ASSUME NEW S, NEW q \in Seq(S), NEW n \in 1..Len(q)
  PROVE  /\ SubSeq(q, 1, n) \in Seq(S) /\ DOMAIN SubSeq(q, 1, n) = 1..n
         /\ \A i \in 1..n : SubSeq(q, 1, n)[i] = q[i]
         /\ SubSeq(q, n + 1, Len(q)) \in Seq(S)
         /\ Len(SubSeq(q, n + 1, Len(q))) = Len(q) - n
         /\ \A i \in 1..(Len(q) - n) : SubSeq(q, n + 1, Len(q))[i] = q[n + i]
<1>1. /\ SubSeq(q, 1, n) \in Seq(S) /\ DOMAIN SubSeq(q, 1, n) = 1..n
      /\ \A i \in 1..n : SubSeq(q, 1, n)[i] = q[i]
  BY SMT
<1>2. /\ SubSeq(q, n + 1, Len(q)) \in Seq(S)
      /\ Len(SubSeq(q, n + 1, Len(q))) = Len(q) - n
  BY SMT
<1>3. \A i \in 1..(Len(q) - n) : SubSeq(q, n + 1, Len(q))[i] = q[n + i]
  BY SMT
<1> QED BY <1>1, <1>2, <1>3

\* The fields that the exchange of one request leaves alone.
SameLife(s, t) ==
  /\ t.ver = s.ver /\ t.fd = s.fd /\ t.peer = s.peer /\ t.driver = s.driver
  /\ t.should_close_ = s.should_close_ /\ t.goaway = s.goaway

\* llhttp_execute.
LEMMA ExecuteSession ==
  ASSUME NEW s \in Sessions, NEW parts \in Seq(Parts)
  PROVE  LET t == Execute(s, parts)
         IN  /\ t \in Sessions /\ SameLife(s, t)
             /\ t.asked = s.asked /\ t.unread = s.unread
             /\ t.seen = s.seen \cup {parts[i].id : i \in DOMAIN parts}
             /\ t.message_complete_ =
                  (s.message_complete_ \/ \E i \in DOMAIN parts : parts[i].part = "body")
<1> DEFINE hc == s.headers_complete_ \/ \E i \in DOMAIN parts : parts[i].part = "head"
           mc == s.message_complete_ \/ \E i \in DOMAIN parts : parts[i].part = "body"
           ids == s.seen \cup {parts[i].id : i \in DOMAIN parts}
           t == [s EXCEPT !.headers_complete_ = hc, !.message_complete_ = mc, !.seen = ids]
<1>1. \A i \in DOMAIN parts : parts[i].id \in Ids
  <2>1. \A i \in DOMAIN parts : parts[i] \in Parts
    BY SMT
  <2> QED BY <2>1 DEF Parts, Ids
<1>2. s.seen \subseteq Ids
  BY DEF Sessions
<1>3. ids \in SUBSET Ids
  BY <1>1, <1>2
<1>4. hc \in BOOLEAN /\ mc \in BOOLEAN
  OBVIOUS
<1>5. t = Execute(s, parts)
  BY DEF Execute
<1> HIDE DEF hc, mc, ids
<1>6. t \in Sessions
  BY <1>3, <1>4 DEF Sessions
<1>7. SameLife(s, t)
  BY DEF Sessions, SameLife
<1>8. t.asked = s.asked /\ t.unread = s.unread /\ t.seen = ids /\ t.message_complete_ = mc
  BY DEF Sessions
<1> QED BY <1>5, <1>6, <1>7, <1>8 DEF mc, ids

\* One read: it keeps the parts of one response together, and what completes the
\* message is the last of it.
LEMMA ReadSession ==
  ASSUME NEW c \in Conns, conn[c] \in Sessions, NEW n \in 1..Len(conn[c].unread)
  PROVE  /\ Read(c, n) \in Sessions /\ SameLife(conn[c], Read(c, n))
         /\ \A id \in Ids : Owes(conn[c], id) => Owes(Read(c, n), id)
<1> PICK s \in Sessions : s = conn[c]
  OBVIOUS
<1> DEFINE q == s.unread
           rest == SubSeq(q, n + 1, Len(q))
           got == SubSeq(q, 1, n)
           a == [s EXCEPT !.unread = rest]
           t == Execute(a, got)
<1>0. t = Read(c, n)
  BY DEF Read
<1>1. q \in Seq(Parts) /\ n \in 1..Len(q)
  BY DEF Sessions
<1>2. /\ got \in Seq(Parts) /\ DOMAIN got = 1..n
      /\ \A i \in 1..n : got[i] = q[i]
      /\ rest \in Seq(Parts)
      /\ Len(rest) = Len(q) - n
      /\ \A i \in 1..(Len(q) - n) : rest[i] = q[n + i]
  <2> HIDE DEF q
  <2> QED BY <1>1, SplitSeq
<1>3. /\ a \in Sessions /\ SameLife(s, a) /\ a.asked = s.asked /\ a.unread = rest
      /\ a.seen = s.seen /\ a.message_complete_ = s.message_complete_
  <2> HIDE DEF rest
  <2> QED BY <1>2 DEF Sessions, SameLife
<1> HIDE DEF a, got
<1>4. /\ t \in Sessions /\ SameLife(a, t)
      /\ t.asked = a.asked /\ t.unread = a.unread
      /\ t.seen = a.seen \cup {got[i].id : i \in DOMAIN got}
      /\ t.message_complete_ =
           (a.message_complete_ \/ \E i \in DOMAIN got : got[i].part = "body")
  BY <1>2, <1>3, ExecuteSession
<1> HIDE DEF t
<1>5. SameLife(s, t)
  BY <1>3, <1>4 DEF SameLife
<1>6. ASSUME NEW id \in Ids, Owes(s, id) PROVE Owes(t, id)
  <2> HIDE DEF q, rest
  <2>1. /\ q = s.unread /\ t.unread = rest /\ t.asked = s.asked
        /\ t.seen = s.seen \cup {got[i].id : i \in DOMAIN got}
    BY <1>3, <1>4 DEF q
  <2>2. \A i \in 1..Len(q) : q[i].id = id
                             /\ (q[i].part = "body" => i = Len(q) /\ s.asked = <<>>)
    <3>1. DOMAIN q = 1..Len(q)
      BY <1>1, SMT
    <3> QED BY <1>6, <2>1, <3>1 DEF Owes
  <2>3. t.asked \in {<<>>, <<id>>} /\ s.seen \subseteq {id}
    BY <1>6, <2>1 DEF Owes
  <2>4. \A i \in 1..n : i \in 1..Len(q)
    BY <1>1, SMT
  <2>5. t.seen \subseteq {id}
    <3>1. \A i \in DOMAIN got : got[i].id = id
      BY <1>2, <2>2, <2>4
    <3> QED BY <2>1, <2>3, <3>1
  <2>6. ASSUME NEW i \in DOMAIN t.unread
        PROVE  /\ t.unread[i].id = id
               /\ t.unread[i].part = "body" => i = Len(t.unread) /\ t.asked = <<>>
    <3>1. i \in 1..(Len(q) - n) /\ n + i \in 1..Len(q)
      BY <1>1, <1>2, <2>1, SMT
    <3>2. t.unread[i] = q[n + i] /\ (n + i = Len(q) => i = Len(t.unread))
      BY <1>1, <1>2, <2>1, <3>1, SMT
    <3> QED BY <2>1, <2>2, <3>1, <3>2
  <2>7. ASSUME t.message_complete_ PROVE Quiet(t)
    <3>1. CASE s.message_complete_
      <4>1. q = <<>>
        BY <1>6, <2>1, <3>1 DEF Owes, Quiet
      <4>2. Len(q) = 0
        BY <4>1, SMT
      <4> QED BY <4>2, <1>1, SMT
    <3>2. CASE \E i \in 1..n : got[i].part = "body"
      <4>1. PICK i \in 1..n : q[i].part = "body"
        BY <1>2, <3>2
      <4>2. i = Len(q) /\ s.asked = <<>>
        BY <2>2, <2>4, <4>1
      <4>3. Len(rest) = 0
        <5>1. Len(q) \in Nat /\ n <= Len(q) /\ Len(q) <= n
          BY <1>1, <4>2, SMT
        <5>2. Len(rest) = Len(q) - n
          BY <1>2
        <5> QED BY <5>1, <5>2, SMT
      <4>4. rest = <<>>
        BY <1>2, <4>3, SMT
      <4> QED BY <2>1, <4>2, <4>4 DEF Quiet
    <3> QED BY <1>2, <1>3, <1>4, <2>7, <3>1, <3>2
  <2> QED BY <2>3, <2>5, <2>6, <2>7 DEF Owes
<1> QED BY <1>0, <1>4, <1>5, <1>6

\* A request that has been written owes the session nothing else.
LEMMA AskSession ==
  ASSUME NEW s \in Sessions, NEW id \in Ids, Fresh(s)
  PROVE  /\ Owes(s, id)
         /\ LET t == [s EXCEPT !.asked = Append(@, id)]
            IN  t \in Sessions /\ SameLife(s, t) /\ Owes(t, id)
<1> DEFINE t == [s EXCEPT !.asked = Append(@, id)]
<1>1. s.asked = <<>> /\ s.unread = <<>> /\ s.seen = {} /\ ~s.message_complete_
  BY DEF Fresh, Quiet
<1>2. Append(s.asked, id) = <<id>> /\ <<id>> \in Seq(Ids) /\ DOMAIN s.unread = {}
  <2>1. Append(s.asked, id) = <<id>> /\ <<id>> \in Seq(Ids)
    BY <1>1, SMT
  <2>2. DOMAIN s.unread = {}
    BY <1>1, SMT
  <2> QED BY <2>1, <2>2
<1>3. t = [s EXCEPT !.asked = <<id>>]
  BY <1>2
<1>4. t \in Sessions /\ SameLife(s, t)
  BY <1>2, <1>3 DEF Sessions, SameLife
<1>5. /\ t.asked = <<id>> /\ t.unread = s.unread /\ t.seen = s.seen
      /\ t.message_complete_ = s.message_complete_
  BY <1>2, <1>3 DEF Sessions
<1> HIDE DEF t
<1>6. Owes(s, id)
  BY <1>1, <1>2 DEF Owes, Quiet
<1>7. Owes(t, id)
  BY <1>1, <1>2, <1>5 DEF Owes, Quiet
<1> QED BY <1>4, <1>6, <1>7 DEF t

\* What the peer makes of a session when it sends a head, or a body.
SendHead(s) ==
  [s EXCEPT !.unread = Append(@, [id |-> Head(s.asked), part |-> "head"]),
            !.answering = TRUE]

\* The peer finishes the response it is sending.
SendBody(s) ==
  [s EXCEPT !.unread = Append(@, [id |-> Head(s.asked), part |-> "body"]),
            !.asked = Tail(@), !.answering = FALSE]

\* An answer is that of the request the session carries, and its body comes last.
LEMMA AnswerSession ==
  ASSUME NEW s \in Sessions, s.asked # <<>>,
         NEW t \in {SendHead(s), SendBody(s)}
  PROVE  /\ t \in Sessions /\ SameLife(s, t)
         /\ \A id \in Ids : Owes(s, id) => Owes(t, id)
<1> DEFINE id0 == Head(s.asked)
           part == IF t = SendBody(s) THEN "body" ELSE "head"
           m == [id |-> id0, part |-> part]
           q == s.unread
<1>1. s.asked \in Seq(Ids) /\ q \in Seq(Parts)
  BY DEF Sessions
<1>2. id0 \in Ids /\ Tail(s.asked) \in Seq(Ids)
  BY <1>1, SMT
<1>3. part \in {"head", "body"} /\ m.id = id0 /\ m.part = part
  OBVIOUS
<1>4. m \in Parts
  <2> HIDE DEF id0, part
  <2> QED BY <1>2, <1>3 DEF Parts, Ids
<1>5. /\ Append(q, m) \in Seq(Parts) /\ Len(Append(q, m)) = Len(q) + 1
      /\ DOMAIN Append(q, m) = 1..(Len(q) + 1)
      /\ Append(q, m)[Len(q) + 1] = m /\ \A i \in 1..Len(q) : Append(q, m)[i] = q[i]
  <2> HIDE DEF m, q
  <2> QED BY <1>1, <1>4, SMT
<1>6. /\ t \in Sessions /\ SameLife(s, t) /\ t.unread = Append(q, m)
      /\ t.seen = s.seen /\ t.message_complete_ = s.message_complete_
      /\ t.asked = IF t = SendBody(s) THEN Tail(s.asked) ELSE s.asked
  <2>1. CASE t = SendBody(s)
    <3>1. m = [id |-> Head(s.asked), part |-> "body"]
      BY <2>1
    <3> HIDE DEF m
    <3>2. t = [s EXCEPT !.unread = Append(q, m), !.asked = Tail(s.asked), !.answering = FALSE]
      BY <2>1, <3>1 DEF SendBody
    <3> QED BY <1>2, <1>5, <2>1, <3>2 DEF Sessions, SameLife
  <2>2. CASE t # SendBody(s)
    <3>1. m = [id |-> Head(s.asked), part |-> "head"]
      BY <2>2
    <3> HIDE DEF m
    <3>2. t = [s EXCEPT !.unread = Append(q, m), !.answering = TRUE]
      BY <2>2, <3>1 DEF SendHead
    <3> QED BY <1>2, <1>5, <2>2, <3>2 DEF Sessions, SameLife
  <2> QED BY <2>1, <2>2
<1>7. ASSUME NEW id \in Ids, Owes(s, id) PROVE Owes(t, id)
  <2>1. s.asked = <<id>> /\ s.seen \subseteq {id} /\ ~s.message_complete_
    BY <1>7 DEF Owes, Quiet
  <2>2. id0 = id /\ Tail(s.asked) = <<>>
    BY <2>1, SMT
  <2>3. t.asked \in {<<>>, <<id>>} /\ (part = "body" => t.asked = <<>>)
    BY <1>6, <2>1, <2>2
  <2> HIDE DEF m, part, id0, q
  <2>4. \A i \in 1..Len(q) : q[i].id = id /\ q[i].part # "body"
    <3>1. DOMAIN q = 1..Len(q)
      BY <1>1, SMT
    <3>2. <<id>> # <<>>
      BY SMT
    <3> QED BY <1>7, <2>1, <3>1, <3>2 DEF Owes, q
  <2>5. ASSUME NEW i \in DOMAIN t.unread
        PROVE  /\ t.unread[i].id = id
               /\ t.unread[i].part = "body" => i = Len(t.unread) /\ t.asked = <<>>
    <3>1. i \in 1..Len(q) \/ i = Len(q) + 1
      BY <1>1, <1>5, <1>6, SMT
    <3>2. CASE i \in 1..Len(q)
      BY <1>5, <1>6, <2>4, <3>2
    <3>3. CASE i = Len(q) + 1
      BY <1>3, <1>5, <1>6, <2>2, <2>3, <3>3
    <3> QED BY <3>1, <3>2, <3>3
  <2> QED BY <1>6, <2>1, <2>3, <2>5 DEF Owes
<1> QED BY <1>6, <1>7

-----------------------------------------------------------------------------
(* The inductive invariant *)

\* The session of a coroutine is in the state its control state says.
UserAt(r, f) ==
  /\ r.pc = "write" => H1(f[r.conn]) /\ Fresh(f[r.conn])
  /\ r.pc \in {"head", "response", "body"} => H1(f[r.conn]) /\ Owes(f[r.conn], r.id)
  /\ r.pc \in H2Pcs => H2(f[r.conn])

\* Sessions hold what belongs to the request that uses them, idle ones nothing.
ExchangeInv ==
  /\ \A u \in Users : UserAt(user[u], conn)
  /\ \A k \in Keys : \A i \in DOMAIN h1_idle[k] :
       H1(conn[h1_idle[k][i]]) /\ Quiet(conn[h1_idle[k][i]])
  /\ \A k \in Keys : Len(h1_idle[k]) <= MaxIdle
  /\ \A k \in Keys : h2_session[k] # None => H2(conn[h2_session[k]])

\* An HTTP/1 session is in one place.
PlaceInv ==
  /\ \A u, v \in Users :
       user[u].pc \in H1Pcs /\ user[v].conn = user[u].conn => u = v
  /\ \A k \in Keys : \A i \in DOMAIN h1_idle[k] : \A u \in Users :
       user[u].conn # h1_idle[k][i]
  /\ \A k, l \in Keys : \A i \in DOMAIN h1_idle[k], j \in DOMAIN h1_idle[l] :
       h1_idle[k][i] = h1_idle[l][j] => k = l /\ i = j

\* A session whose driver runs is in its group, and valid, unless the group let it go.
Pooled(c) == ~conn[c].should_close_ /\ \E k \in Keys : h2_session[k] = c
DriverInv ==
  /\ \A c \in Conns : conn[c].driver => H2(conn[c])
  /\ \A c \in killed : conn[c].fd # "none"
  /\ \A c \in Conns : conn[c].driver /\ ~conn[c].goaway /\ c \notin let_go => Pooled(c)
  /\ DriverOutlived

\* An HTTP/1 connection that both ends have open, and one that is accounted for.
Alive(s) == s.ver = "h1" /\ s.fd = "open" /\ s.peer = "up"
Owned(c) == Held(c) \/ c \in dropped

-----------------------------------------------------------------------------
(* Helpers of the actions *)

\* What DropUnheld leaves of the sessions `next`.
Dropped(next) ==
  /\ conn' \in [Conns -> Sessions]
  /\ \A c \in Conns :
       /\ Alike(next[c], conn'[c]) /\ conn'[c].peer = next[c].peer
       /\ conn'[c].driver = next[c].driver /\ conn'[c].goaway = next[c].goaway
       /\ next[c].ver = "h1" \/ Held(c)' => conn'[c] = next[c]
       /\ c \in killed' /\ c \notin killed =>
            next[c].driver /\ next[c].fd # "none" /\ ~Held(c)'
  /\ killed' \subseteq killed \cup Conns

\* The last shared_ptr takes an HTTP/2 session with it, and no other one.
LEMMA Dropping ==
  ASSUME NEW next \in [Conns -> Sessions], DropUnheld(next)
  PROVE  Dropped(next)
<1> DEFINE gone == {c \in Conns : next[c].ver = "h2" /\ next[c].fd # "none" /\ ~Held(c)'}
           end(s) == [s EXCEPT !.fd = "closed", !.should_close_ = TRUE]
<1>1. /\ conn' = [c \in Conns |-> IF c \in gone THEN end(next[c]) ELSE next[c]]
      /\ killed' = killed \cup {c \in gone : next[c].driver}
  BY DEF DropUnheld
<1>2. \A s \in Sessions : /\ end(s) \in Sessions /\ Alike(s, end(s)) /\ end(s).peer = s.peer
                          /\ end(s).driver = s.driver /\ end(s).goaway = s.goaway
  BY EndSession
<1> HIDE DEF end
<1>3. \A c \in Conns : conn'[c] = IF c \in gone THEN end(next[c]) ELSE next[c]
  BY <1>1
<1>4. conn' \in [Conns -> Sessions]
  BY <1>1, <1>2
<1>5. ASSUME NEW c \in Conns
      PROVE  /\ Alike(next[c], conn'[c]) /\ conn'[c].peer = next[c].peer
             /\ conn'[c].driver = next[c].driver /\ conn'[c].goaway = next[c].goaway
  <2>1. CASE c \in gone
    BY <1>2, <1>3, <2>1
  <2>2. CASE c \notin gone
    BY <1>3, <2>2 DEF Alike
  <2> QED BY <2>1, <2>2
<1>6. ASSUME NEW c \in Conns, next[c].ver = "h1" \/ Held(c)'
      PROVE  conn'[c] = next[c]
  <2>1. c \notin gone
    BY <1>6
  <2> QED BY <1>3, <2>1
<1>7. ASSUME NEW c \in Conns, c \in killed', c \notin killed
      PROVE  next[c].driver /\ next[c].fd # "none" /\ ~Held(c)'
  BY <1>1, <1>7
<1>8. killed' \subseteq killed \cup Conns
  BY <1>1
<1> QED BY <1>4, <1>5, <1>6, <1>7, <1>8 DEF Dropped

\* Sessions that are alike serve a coroutine alike.
LEMMA AlikeUser ==
  ASSUME NEW r, NEW f, NEW g, UserAt(r, f), Alike(f[r.conn], g[r.conn])
  PROVE  UserAt(r, g)
  BY DEF UserAt, Alike, H1, H2, Fresh, Quiet, Owes

\* Sessions that agree in version, descriptor and exchange satisfy the same predicates.
LEMMA AlikeSession ==
  ASSUME NEW s, NEW t, Alike(s, t)
  PROVE  (H1(s) => H1(t)) /\ (H2(s) => H2(t)) /\ (Quiet(s) => Quiet(t))
  BY DEF Alike, H1, H2, Quiet

\* The entries of t are entries of s, each taken once.
Part(t, s) ==
  \E pos \in [DOMAIN t -> DOMAIN s] :
    /\ \A i, j \in DOMAIN t : pos[i] = pos[j] => i = j
    /\ \A i \in DOMAIN t : t[i] = s[pos[i]]

\* A list is a part of itself, and the empty list of every list.
LEMMA PartRefl == \A s : Part(s, s)
<1> SUFFICES ASSUME NEW s PROVE Part(s, s)
  OBVIOUS
<1>1. [i \in DOMAIN s |-> i] \in [DOMAIN s -> DOMAIN s]
  OBVIOUS
<1> QED BY <1>1 DEF Part
LEMMA PartEmpty == \A s : Part(<<>>, s)
<1> SUFFICES ASSUME NEW s PROVE Part(<<>>, s)
  OBVIOUS
<1>1. DOMAIN <<>> = {}
  BY SMT
<1>2. [i \in {} |-> i] \in [{} -> DOMAIN s]
  OBVIOUS
<1> QED BY <1>1, <1>2 DEF Part

\* t is what is left of s: a part of it that has every element of ok.
Survived(t, s, ok) ==
  /\ t \in Seq(Conns) /\ Len(t) <= Len(s) /\ Part(t, s)
  /\ \A i \in DOMAIN s : s[i] \in ok => \E j \in DOMAIN t : t[j] = s[i]

\* remove_if keeps every entry that passes, and no entry twice.
LEMMA Surviving ==
  ASSUME NEW s \in Seq(Conns), NEW ok, NEW t \in Survivors(s, ok)
  PROVE  Survived(t, s, ok)
<1> DEFINE kept == {i \in DOMAIN s : s[i] \in ok}
           order(n) == {pos \in [1..n -> kept] :
                          /\ \A i, j \in 1..n : i < j => pos[i] < pos[j]
                          /\ \A p \in kept : \E i \in 1..n : pos[i] = p}
<1>0. t \in UNION {{[i \in 1..n |-> s[pos[i]]] : pos \in order(n)} : n \in 0..Len(s)}
  BY DEF Survivors
<1>1. PICK n \in 0..Len(s) : \E pos \in order(n) : t = [i \in 1..n |-> s[pos[i]]]
  <2> HIDE DEF order
  <2> QED BY <1>0
<1>2. PICK pos \in order(n) : t = [i \in 1..n |-> s[pos[i]]]
  BY <1>1
<1>3. /\ pos \in [1..n -> kept]
      /\ \A i, j \in 1..n : i < j => pos[i] < pos[j]
      /\ \A p \in kept : \E i \in 1..n : pos[i] = p
  BY <1>2
<1>4. DOMAIN t = 1..n /\ \A i \in 1..n : t[i] = s[pos[i]]
  BY <1>2
<1>5. \A i \in 1..n : pos[i] \in DOMAIN s /\ s[pos[i]] \in ok
  BY <1>3
<1>6. Len(s) \in Nat /\ n \in Nat /\ n <= Len(s) /\ DOMAIN s = 1..Len(s)
  BY SMT
<1>7. \A i \in DOMAIN s : s[i] \in Conns
  BY SMT
<1>8. t \in [1..n -> Conns]
  BY <1>2, <1>5, <1>7
<1>9. t \in Seq(Conns) /\ Len(t) = n
  BY <1>6, <1>8, SMT
<1>10. \A i, j \in 1..n : pos[i] = pos[j] => i = j
  <2>1. ASSUME NEW i \in 1..n, NEW j \in 1..n, pos[i] = pos[j] PROVE i = j
    <3>1. PICK a \in Nat : a = pos[i]
      BY <1>5, <1>6, SMT
    <3>2. ~(i < j) /\ ~(j < i)
      BY <1>3, <2>1, <3>1, SMT
    <3> QED BY <3>2, SMT
  <2> QED BY <2>1
<1>11. pos \in [DOMAIN t -> DOMAIN s]
  BY <1>3, <1>4
<1>12. Part(t, s)
  <2>1. \A i, j \in DOMAIN t : pos[i] = pos[j] => i = j
    BY <1>4, <1>10
  <2>2. \A i \in DOMAIN t : t[i] = s[pos[i]]
    BY <1>4
  <2> HIDE DEF kept, order
  <2> QED BY <1>11, <2>1, <2>2 DEF Part
<1>14. ASSUME NEW i \in DOMAIN s, s[i] \in ok PROVE \E j \in DOMAIN t : t[j] = s[i]
  <2>1. i \in kept
    BY <1>14
  <2>2. PICK j \in 1..n : pos[j] = i
    BY <1>3, <2>1
  <2> QED BY <1>4, <2>2
<1>15. Len(t) <= Len(s)
  BY <1>6, <1>9, SMT
<1> HIDE DEF kept, order
<1> QED BY <1>9, <1>12, <1>14, <1>15 DEF Survived

\* Taking the oldest entry.
LEMMA TailSeq ==
  ASSUME NEW t \in Seq(Conns), t # <<>>
  PROVE  /\ Tail(t) \in Seq(Conns) /\ Len(Tail(t)) <= Len(t)
         /\ 1 \in DOMAIN t /\ Head(t) = t[1]
         /\ \A i \in DOMAIN Tail(t) :
              i + 1 \in DOMAIN t /\ i + 1 # 1 /\ Tail(t)[i] = t[i + 1]
         /\ \A i \in DOMAIN t : i = 1 \/ \E j \in DOMAIN Tail(t) : Tail(t)[j] = t[i]
<1>1. Tail(t) \in Seq(Conns) /\ Len(Tail(t)) <= Len(t) /\ 1 \in DOMAIN t /\ Head(t) = t[1]
  BY SMT
<1>2. \A i \in DOMAIN Tail(t) :
        i + 1 \in DOMAIN t /\ i + 1 # 1 /\ Tail(t)[i] = t[i + 1]
  BY SMT
<1>3. ASSUME NEW i \in DOMAIN t, i # 1 PROVE \E j \in DOMAIN Tail(t) : Tail(t)[j] = t[i]
  <2>1. i - 1 \in DOMAIN Tail(t) /\ Tail(t)[i - 1] = t[i]
    BY <1>3, SMT
  <2> QED BY <2>1
<1> QED BY <1>1, <1>2, <1>3

\* The list without its front, after pop_front in acquire_session, is still a part.
LEMMA PartTail ==
  ASSUME NEW s \in Seq(Conns), NEW t \in Seq(Conns), t # <<>>, Part(t, s)
  PROVE  Part(Tail(t), s)
<1>1. PICK pos \in [DOMAIN t -> DOMAIN s] :
        /\ \A i, j \in DOMAIN t : pos[i] = pos[j] => i = j
        /\ \A i \in DOMAIN t : t[i] = s[pos[i]]
  BY DEF Part
<1> DEFINE d == DOMAIN Tail(t)
           p == [i \in d |-> pos[i + 1]]
<1>2. \A i \in d : i + 1 \in DOMAIN t /\ Tail(t)[i] = t[i + 1] /\ p[i] = pos[i + 1]
  BY TailSeq
<1>3. p \in [d -> DOMAIN s]
  BY <1>1, <1>2
<1>4. \A i, j \in d : i + 1 = j + 1 => i = j
  BY SMT
<1>5. /\ \A i, j \in d : p[i] = p[j] => i = j
      /\ \A i \in d : Tail(t)[i] = s[p[i]]
  BY <1>1, <1>2, <1>4
<1> QED BY <1>3, <1>5 DEF Part

-----------------------------------------------------------------------------
(* Steps of the exchange *)

\* One coroutine, u0, goes on, and one session, x, changes in its hands; all other
\* sessions stay alike, the pool only shrinks or takes an HTTP/2 session.
Moves(u0, x) ==
  /\ \A u \in Users : u # u0 => user'[u] = user[u] /\ (x \in Conns => user[u].conn # x)
  /\ u0 \in Users => /\ UserAt(user'[u0], conn')
                     /\ user'[u0].pc \in H1Pcs => user'[u0].conn = x
  /\ \A c \in Conns : c # x => Alike(conn[c], conn'[c])
  /\ \A k \in Keys : Part(h1_idle'[k], h1_idle[k]) /\ Len(h1_idle'[k]) <= MaxIdle
  /\ \A k \in Keys : \A i \in DOMAIN h1_idle'[k] : h1_idle'[k][i] # x
  /\ \A k \in Keys : h2_session'[k] # None => H2(conn'[h2_session'[k]])

\* Facts that every step uses.
LEMMA Basics ==
  ASSUME TypeInv
  PROVE  /\ None \notin Conns
         /\ \A u \in Users : /\ user[u] \in UserStates /\ user[u].pc \in Pcs
                             /\ user[u].conn \in Conns \cup {None}
                             /\ user[u].pc \in H1Pcs \cup H2Pcs =>
                                  /\ user[u].conn \in Conns /\ user[u].conn # None
                                  /\ user[u].id \in Ids /\ user[u].key \in Keys
                             /\ user[u].pc \in {"idle", "connect"} => user[u].conn = None
         /\ \A k \in Keys : h1_idle[k] \in Seq(Conns)
         /\ \A k \in Keys : \A i \in DOMAIN h1_idle[k] : h1_idle[k][i] \in Conns
         /\ \A k \in Keys : h2_session[k] \in Conns \cup {None}
         /\ \A c \in Conns : conn[c] \in Sessions
<1>1. \A u \in Users : user[u] \in UserStates /\ WellFormed(user[u])
  BY DEF TypeInv
<1>2. ASSUME NEW u \in Users
      PROVE  /\ user[u].pc \in Pcs /\ user[u].conn \in Conns \cup {None}
             /\ user[u].pc \in H1Pcs \cup H2Pcs =>
                  /\ user[u].conn \in Conns /\ user[u].conn # None
                  /\ user[u].id \in Ids /\ user[u].key \in Keys
             /\ user[u].pc \in {"idle", "connect"} => user[u].conn = None
  <2>1. user[u].pc \in Pcs /\ user[u].conn \in Conns \cup {None}
    BY <1>1 DEF UserStates
  <2>2. user[u].pc \in {"idle", "connect"} => user[u].conn = None
    BY <1>1 DEF WellFormed
  <2>3. ASSUME user[u].pc \in H1Pcs \cup H2Pcs
        PROVE  /\ user[u].conn \in Conns /\ user[u].conn # None
               /\ user[u].id \in Ids /\ user[u].key \in Keys
    <3>1. user[u].pc \notin {"idle", "connect"}
      BY <2>3 DEF H1Pcs, H2Pcs
    <3> QED BY <1>1, <2>1, <3>1 DEF WellFormed
  <2> QED BY <2>1, <2>2, <2>3
<1>3. \A k \in Keys : h1_idle[k] \in Seq(Conns) /\ h2_session[k] \in Conns \cup {None}
  BY DEF TypeInv
<1>4. \A q \in Seq(Conns) : \A i \in DOMAIN q : q[i] \in Conns
  BY SMT
<1>5. \A c \in Conns : conn[c] \in Sessions
  BY DEF TypeInv
<1> QED BY <1>1, <1>2, <1>3, <1>4, <1>5, NoneAssumption

\* What the pool holds are connections.
LEMMA PoolHoldsConns ==
  ASSUME TypeInv, NEW ks \in SUBSET Keys
  PROVE  /\ RunningIn(Keys) \subseteq Conns
         /\ UNION {Range(h1_idle[k]) : k \in ks} \subseteq Conns
<1>1. ASSUME NEW c \in RunningIn(Keys) PROVE c \in Conns
  <2>1. PICK k \in Keys : c = h2_session[k] /\ c # None
    BY DEF RunningIn
  <2> QED BY <2>1, Basics
<1>2. ASSUME NEW c \in UNION {Range(h1_idle[k]) : k \in ks} PROVE c \in Conns
  <2>1. PICK k \in ks : c \in Range(h1_idle[k])
    OBVIOUS
  <2>2. PICK i \in DOMAIN h1_idle[k] : h1_idle[k][i] = c
    BY <2>1 DEF Range
  <2> QED BY <2>1, <2>2, Basics
<1> QED BY <1>1, <1>2

\* Such a step keeps every session's exchange with its one owner.
LEMMA Moving ==
  ASSUME TypeInv, TypeInv', ExchangeInv, PlaceInv, NEW u0, NEW x, Moves(u0, x)
  PROVE  ExchangeInv' /\ PlaceInv'
<1>1. ASSUME NEW u \in Users PROVE UserAt(user'[u], conn')
  <2>1. CASE u = u0
    BY <2>1 DEF Moves
  <2>2. CASE u # u0
    <3>1. user'[u] = user[u] /\ UserAt(user[u], conn)
      BY <2>2 DEF Moves, ExchangeInv
    <3>2. CASE user[u].pc \in {"idle", "connect"}
      <4>1. user[u].pc # "write" /\ user[u].pc \notin {"head", "response", "body"}
            /\ user[u].pc \notin H2Pcs
        BY <3>2 DEF H2Pcs
      <4> QED BY <3>1, <4>1 DEF UserAt
    <3>3. CASE user[u].pc \in H1Pcs \cup H2Pcs
      <4>1. user[u].conn \in Conns
        BY <3>3, Basics
      <4>2. Alike(conn[user[u].conn], conn'[user[u].conn])
        BY <2>2, <4>1 DEF Moves
      <4> QED BY <3>1, <4>2, AlikeUser
    <3> QED BY <3>2, <3>3, Basics DEF Pcs
  <2> QED BY <2>1, <2>2
<1>2. ASSUME NEW k \in Keys, NEW i \in DOMAIN h1_idle'[k]
      PROVE  /\ \E j \in DOMAIN h1_idle[k] : h1_idle'[k][i] = h1_idle[k][j]
             /\ h1_idle'[k][i] \in Conns /\ h1_idle'[k][i] # x
             /\ H1(conn'[h1_idle'[k][i]]) /\ Quiet(conn'[h1_idle'[k][i]])
  <2>1. Part(h1_idle'[k], h1_idle[k]) /\ h1_idle'[k][i] # x
    BY DEF Moves
  <2>2. PICK j \in DOMAIN h1_idle[k] : h1_idle'[k][i] = h1_idle[k][j]
    BY <2>1 DEF Part
  <2>3. PICK c : c = h1_idle[k][j]
    OBVIOUS
  <2>4. c \in Conns /\ H1(conn[c]) /\ Quiet(conn[c])
    BY <2>3, Basics DEF ExchangeInv
  <2>5. Alike(conn[c], conn'[c])
    BY <2>1, <2>2, <2>3, <2>4 DEF Moves
  <2> QED BY <2>1, <2>2, <2>3, <2>4, <2>5, AlikeSession
<1>3. ExchangeInv'
  BY <1>1, <1>2 DEF ExchangeInv, Moves
<1>4. ASSUME NEW u \in Users, NEW v \in Users,
             user'[u].pc \in H1Pcs, user'[v].conn = user'[u].conn
      PROVE  u = v
  <2>1. user'[u].conn \in Conns /\ user'[u].conn # None /\ H1(conn'[user'[u].conn])
    <3>1. user'[u].conn \in Conns /\ user'[u].conn # None
      BY <1>4 DEF TypeInv, WellFormed, UserStates, H1Pcs
    <3> QED BY <1>1, <1>4, <3>1 DEF UserAt, H1Pcs
  <2>2. CASE u # u0 /\ v # u0
    BY <1>4, <2>2 DEF Moves, PlaceInv
  <2>3. CASE u = u0 /\ v # u0
    BY <1>4, <2>1, <2>3 DEF Moves
  <2>4. CASE u # u0 /\ v = u0
    <3>1. user'[v].pc \notin {"idle", "connect"}
      BY <1>4, <2>1 DEF TypeInv, WellFormed
    <3>2. user'[v].pc \notin H2Pcs
      BY <1>1, <1>4, <2>1 DEF UserAt, H1, H2
    <3>3. user'[v].pc \in H1Pcs
      BY <3>1, <3>2 DEF TypeInv, UserStates, Pcs
    <3>4. user'[v].conn = x /\ user'[u] = user[u] /\ (x \in Conns => user[u].conn # x)
      BY <2>4, <3>3 DEF Moves
    <3> QED BY <1>4, <2>1, <3>4
  <2> QED BY <2>2, <2>3, <2>4
<1>5. ASSUME NEW k \in Keys, NEW i \in DOMAIN h1_idle'[k], NEW u \in Users
      PROVE  user'[u].conn # h1_idle'[k][i]
  <2>1. CASE u # u0
    <3>1. user'[u] = user[u]
      BY <2>1 DEF Moves
    <3>2. PICK j \in DOMAIN h1_idle[k] : h1_idle'[k][i] = h1_idle[k][j]
      BY <1>2
    <3>3. user[u].conn # h1_idle[k][j]
      BY DEF PlaceInv
    <3> QED BY <3>1, <3>2, <3>3
  <2>2. CASE u = u0
    <3> SUFFICES ASSUME user'[u].conn = h1_idle'[k][i] PROVE FALSE
      OBVIOUS
    <3>1. user'[u].conn \in Conns /\ user'[u].conn # x /\ H1(conn'[user'[u].conn])
      BY <1>2
    <3>2. user'[u].pc \notin {"idle", "connect"}
      BY <3>1, NoneAssumption DEF TypeInv, WellFormed
    <3>3. user'[u].pc \notin H2Pcs
      BY <1>1, <3>1 DEF UserAt, H1, H2
    <3>4. user'[u].pc \in H1Pcs
      BY <3>2, <3>3 DEF TypeInv, UserStates, Pcs
    <3> QED BY <2>2, <3>1, <3>4 DEF Moves
  <2> QED BY <2>1, <2>2
<1>6. ASSUME NEW k \in Keys, NEW l \in Keys,
             NEW i \in DOMAIN h1_idle'[k], NEW j \in DOMAIN h1_idle'[l],
             h1_idle'[k][i] = h1_idle'[l][j]
      PROVE  k = l /\ i = j
  <2>1. Part(h1_idle'[k], h1_idle[k]) /\ Part(h1_idle'[l], h1_idle[l])
    BY DEF Moves
  <2>2. \A m, n \in Keys : \A a \in DOMAIN h1_idle[m], b \in DOMAIN h1_idle[n] :
          h1_idle[m][a] = h1_idle[n][b] => m = n /\ a = b
    BY DEF PlaceInv
  <2>3. k = l
    <3>1. PICK a \in DOMAIN h1_idle[k] : h1_idle'[k][i] = h1_idle[k][a]
      BY <1>2
    <3>2. PICK b \in DOMAIN h1_idle[l] : h1_idle'[l][j] = h1_idle[l][b]
      BY <1>2
    <3>3. h1_idle[k][a] = h1_idle[l][b]
      BY <1>6, <3>1, <3>2
    <3> QED BY <2>2, <3>3
  <2>4. PICK pos \in [DOMAIN h1_idle'[k] -> DOMAIN h1_idle[k]] :
          /\ \A a, b \in DOMAIN h1_idle'[k] : pos[a] = pos[b] => a = b
          /\ \A a \in DOMAIN h1_idle'[k] : h1_idle'[k][a] = h1_idle[k][pos[a]]
    BY <2>1 DEF Part
  <2>5. pos[i] = pos[j]
    <3>1. j \in DOMAIN h1_idle'[k] /\ h1_idle'[k][i] = h1_idle'[k][j]
      BY <1>6, <2>3
    <3>2. pos[i] \in DOMAIN h1_idle[k] /\ pos[j] \in DOMAIN h1_idle[k]
      BY <2>4, <3>1
    <3>3. h1_idle[k][pos[i]] = h1_idle[k][pos[j]]
      BY <2>4, <3>1
    <3> QED BY <2>2, <3>2, <3>3
  <2> QED BY <2>3, <2>4, <2>5
<1>7. PlaceInv'
  BY <1>4, <1>5, <1>6 DEF PlaceInv
<1> QED BY <1>3, <1>7

\* The coroutine u0 gives its session back to group k.
GivesBack(u0, k) ==
  LET x == user[u0].conn
  IN  /\ user[u0].pc \in H1Pcs /\ user'[u0] = Idle
      /\ \A u \in Users : u # u0 => user'[u] = user[u]
      /\ \A c \in Conns : c # x => conn'[c] = conn[c]
      /\ H1(conn'[x]) /\ Quiet(conn'[x])
      /\ Len(h1_idle[k]) < MaxIdle
      /\ h1_idle' = [h1_idle EXCEPT ![k] = Append(@, x)]
      /\ h2_session' = h2_session

\* release_h1_session may put a session into h1_idle: it is quiet, its user forgets it.
LEMMA GivingBack ==
  ASSUME TypeInv, TypeInv', ExchangeInv, PlaceInv, NEW u0 \in Users, NEW k \in Keys,
         GivesBack(u0, k)
  PROVE  ExchangeInv' /\ PlaceInv'
<1> PICK x \in Conns : x = user[u0].conn
  BY Basics DEF GivesBack
<1>1. x # None /\ H1(conn[x]) /\ H1(conn'[x]) /\ Quiet(conn'[x])
  BY Basics DEF GivesBack, ExchangeInv, UserAt, H1Pcs
<1>2. \A u \in Users : u # u0 => user'[u] = user[u] /\ user[u].conn # x
  BY DEF GivesBack, PlaceInv
<1>3. user'[u0] = Idle /\ Idle.conn = None /\ Idle.pc = "idle"
  BY DEF GivesBack, Idle
<1>4. \A c \in Conns : c # x => conn'[c] = conn[c]
  BY DEF GivesBack
<1>5. \A u \in Users : UserAt(user'[u], conn')
  <2>1. UserAt(user'[u0], conn')
    BY <1>3 DEF UserAt, H2Pcs
  <2>2. ASSUME NEW u \in Users, u # u0 PROVE UserAt(user'[u], conn')
    <3>1. user'[u] = user[u] /\ user[u].conn # x /\ UserAt(user[u], conn)
      BY <1>2, <2>2 DEF ExchangeInv
    <3>2. CASE user[u].pc \in {"idle", "connect"}
      BY <3>1, <3>2 DEF UserAt, H2Pcs
    <3>3. CASE user[u].pc \in H1Pcs \cup H2Pcs
      <4>1. user[u].conn \in Conns
        BY <3>3, Basics
      <4>2. conn'[user[u].conn] = conn[user[u].conn]
        BY <1>4, <3>1, <4>1
      <4> QED BY <3>1, <4>2 DEF UserAt
    <3> QED BY <3>2, <3>3, Basics DEF Pcs
  <2> QED BY <2>1, <2>2
<1>6. PICK n \in Nat :
        /\ n < MaxIdle /\ Len(h1_idle'[k]) = n + 1 /\ n + 1 \notin DOMAIN h1_idle[k]
        /\ DOMAIN h1_idle'[k] = DOMAIN h1_idle[k] \cup {n + 1}
        /\ h1_idle'[k][n + 1] = x
        /\ \A i \in DOMAIN h1_idle[k] : h1_idle'[k][i] = h1_idle[k][i]
  <2>1. PICK q \in Seq(Conns) : q = h1_idle[k]
    BY Basics
  <2>2. Len(q) \in Nat /\ Len(q) < MaxIdle /\ h1_idle'[k] = Append(q, x)
    <3>1. Len(q) \in Nat
      BY SMT
    <3>2. k \in DOMAIN h1_idle
      BY DEF TypeInv
    <3> QED BY <2>1, <3>1, <3>2 DEF GivesBack
  <2>3. /\ Len(Append(q, x)) = Len(q) + 1 /\ Len(q) + 1 \notin DOMAIN q
        /\ DOMAIN Append(q, x) = DOMAIN q \cup {Len(q) + 1}
        /\ Append(q, x)[Len(q) + 1] = x
        /\ \A i \in DOMAIN q : Append(q, x)[i] = q[i]
    BY SMT
  <2> QED BY <2>1, <2>2, <2>3
<1>7. \A l \in Keys : l # k => h1_idle'[l] = h1_idle[l]
  BY DEF TypeInv, GivesBack
<1>8. ASSUME NEW l \in Keys, NEW i \in DOMAIN h1_idle[l]
      PROVE  /\ h1_idle[l][i] \in Conns /\ h1_idle[l][i] # x
             /\ i \in DOMAIN h1_idle'[l] /\ h1_idle'[l][i] = h1_idle[l][i]
             /\ H1(conn'[h1_idle[l][i]]) /\ Quiet(conn'[h1_idle[l][i]])
  <2>1. h1_idle[l][i] \in Conns /\ h1_idle[l][i] # x
    <3>1. h1_idle[l][i] \in Conns
      BY Basics
    <3>2. user[u0].conn # h1_idle[l][i]
      BY DEF PlaceInv
    <3> QED BY <3>1, <3>2
  <2>2. conn'[h1_idle[l][i]] = conn[h1_idle[l][i]]
    BY <1>4, <2>1
  <2>3. H1(conn[h1_idle[l][i]]) /\ Quiet(conn[h1_idle[l][i]])
    BY DEF ExchangeInv
  <2>4. i \in DOMAIN h1_idle'[l] /\ h1_idle'[l][i] = h1_idle[l][i]
    BY <1>6, <1>7
  <2> QED BY <2>1, <2>2, <2>3, <2>4
<1>9. ASSUME NEW l \in Keys, NEW i \in DOMAIN h1_idle'[l]
      PROVE  \/ i \in DOMAIN h1_idle[l] /\ h1_idle'[l][i] = h1_idle[l][i]
             \/ l = k /\ i = n + 1 /\ h1_idle'[l][i] = x
  <2>1. CASE l = k
    <3>1. i \in DOMAIN h1_idle[k] \/ i = n + 1
      BY <1>6, <2>1
    <3> QED BY <1>6, <2>1, <3>1
  <2>2. CASE l # k
    BY <1>7, <2>2
  <2> QED BY <2>1, <2>2
<1>10. ASSUME NEW l \in Keys, NEW i \in DOMAIN h1_idle'[l]
       PROVE  H1(conn'[h1_idle'[l][i]]) /\ Quiet(conn'[h1_idle'[l][i]])
  BY <1>1, <1>8, <1>9
<1>11. ASSUME NEW l \in Keys PROVE Len(h1_idle'[l]) <= MaxIdle
  <2>1. CASE l = k
    BY <1>6, <2>1, BoundsAssumption, SMT
  <2>2. CASE l # k
    BY <1>7, <2>2 DEF ExchangeInv
  <2> QED BY <2>1, <2>2
<1>12. ASSUME NEW l \in Keys, h2_session'[l] # None PROVE H2(conn'[h2_session'[l]])
  <2>1. h2_session'[l] = h2_session[l] /\ h2_session[l] \in Conns
    BY <1>12, Basics DEF GivesBack
  <2>2. H2(conn[h2_session[l]])
    BY <1>12, <2>1 DEF ExchangeInv
  <2>3. h2_session[l] # x
    BY <1>1, <2>2 DEF H1, H2
  <2> QED BY <1>4, <2>1, <2>2, <2>3
<1>13. ExchangeInv'
  BY <1>5, <1>10, <1>11, <1>12 DEF ExchangeInv
<1>14. ASSUME NEW u \in Users, NEW v \in Users,
              user'[u].pc \in H1Pcs, user'[v].conn = user'[u].conn
       PROVE  u = v
  <2>1. u # u0
    BY <1>3, <1>14 DEF H1Pcs
  <2>2. user'[u] = user[u] /\ user[u].conn # None
    BY <1>2, <1>14, <2>1, Basics
  <2>3. v # u0
    BY <1>3, <1>14, <2>2
  <2> QED BY <1>2, <1>14, <2>1, <2>2, <2>3 DEF PlaceInv
<1>15. ASSUME NEW l \in Keys, NEW i \in DOMAIN h1_idle'[l], NEW u \in Users
       PROVE  user'[u].conn # h1_idle'[l][i]
  <2>1. h1_idle'[l][i] \in Conns
    BY <1>8, <1>9
  <2>2. CASE u = u0
    BY <1>3, <2>1, <2>2, NoneAssumption
  <2>3. CASE u # u0
    <3>1. user'[u] = user[u] /\ user[u].conn # x
      BY <1>2, <2>3
    <3>2. \A j \in DOMAIN h1_idle[l] : user[u].conn # h1_idle[l][j]
      BY DEF PlaceInv
    <3> QED BY <1>9, <3>1, <3>2
  <2> QED BY <2>2, <2>3
<1>16. ASSUME NEW l \in Keys, NEW m \in Keys,
              NEW i \in DOMAIN h1_idle'[l], NEW j \in DOMAIN h1_idle'[m],
              h1_idle'[l][i] = h1_idle'[m][j]
       PROVE  l = m /\ i = j
  <2>1. CASE h1_idle'[l][i] = x
    <3>1. l = k /\ i = n + 1
      <4>1. ~(i \in DOMAIN h1_idle[l] /\ h1_idle'[l][i] = h1_idle[l][i])
        BY <1>8, <2>1
      <4> QED BY <1>9, <4>1
    <3>2. m = k /\ j = n + 1
      <4>1. ~(j \in DOMAIN h1_idle[m] /\ h1_idle'[m][j] = h1_idle[m][j])
        BY <1>8, <1>16, <2>1
      <4> QED BY <1>9, <4>1
    <3> QED BY <3>1, <3>2
  <2>2. CASE h1_idle'[l][i] # x
    <3>1. i \in DOMAIN h1_idle[l] /\ h1_idle'[l][i] = h1_idle[l][i]
      BY <1>9, <2>2
    <3>2. j \in DOMAIN h1_idle[m] /\ h1_idle'[m][j] = h1_idle[m][j]
      BY <1>9, <1>16, <2>2
    <3>3. h1_idle[l][i] = h1_idle[m][j]
      BY <1>16, <3>1, <3>2
    <3>4. \A a \in DOMAIN h1_idle[l], b \in DOMAIN h1_idle[m] :
            h1_idle[l][a] = h1_idle[m][b] => l = m /\ a = b
      BY DEF PlaceInv
    <3> QED BY <3>1, <3>2, <3>3, <3>4
  <2> QED BY <2>1, <2>2
<1>17. PlaceInv'
  BY <1>14, <1>15, <1>16 DEF PlaceInv
<1> QED BY <1>13, <1>17

-----------------------------------------------------------------------------
(* Start, and the types *)

\* What Start makes of the session it is given.
FirstPc(s) == IF s.ver = "h1" THEN "write" ELSE "h2wait"

\* What request() finds: reset_state for HTTP/1, a running driver for HTTP/2.
Begun(s) == IF s.ver = "h1" THEN ResetState(s) ELSE [s EXCEPT !.driver = TRUE]

\* A request of u begins on c, the sessions being `next` before unheld ones are dropped.
Started(next, u, c) ==
  /\ requests' \in 0..MaxRequests
  /\ user' \in [Users -> UserStates]
  /\ \A v \in Users : WellFormed(user'[v]) /\ (v # u => user'[v] = user[v])
  /\ user'[u].conn = c /\ user'[u].pc = FirstPc(next[c])
  /\ conn' \in [Conns -> Sessions] /\ conn'[c] = Begun(next[c])
  /\ \A d \in Conns : d # c =>
       /\ Alike(next[d], conn'[d]) /\ conn'[d].peer = next[d].peer
       /\ conn'[d].driver = next[d].driver /\ conn'[d].goaway = next[d].goaway
       /\ next[d].ver = "h1" \/ Held(d)' => conn'[d] = next[d]
  /\ killed' \subseteq killed \cup Conns
  /\ \A d \in Conns : d \in killed' /\ d \notin killed =>
       d # c /\ next[d].driver /\ next[d].fd # "none" /\ ~Held(d)'

\* Beginning a request changes neither the descriptor nor what the peer owes, and leaves
\* nothing of the request before.
LEMMA BegunSession ==
  ASSUME NEW s \in Sessions
  PROVE  /\ Begun(s) \in Sessions /\ Begun(s).ver = s.ver /\ Begun(s).fd = s.fd
         /\ Begun(s).peer = s.peer /\ Begun(s).goaway = s.goaway
         /\ Begun(s).should_close_ = s.should_close_
         /\ Begun(s).asked = s.asked /\ Begun(s).unread = s.unread
         /\ s.ver = "h1" => Begun(s).driver = s.driver
         /\ s.ver = "h1" /\ Quiet(s) => Fresh(Begun(s))
<1>1. CASE s.ver = "h1"
  BY <1>1, ResetSession DEF Begun, Fresh, Quiet
<1>2. CASE s.ver # "h1"
  <2>1. PICK t : t = [s EXCEPT !.driver = TRUE]
    OBVIOUS
  <2>2. /\ t \in Sessions /\ Alike(s, t) /\ t.fd = s.fd /\ t.peer = s.peer
        /\ t.goaway = s.goaway /\ t.should_close_ = s.should_close_
    BY <2>1, FlagSession
  <2>3. Begun(s) = t
    BY <1>2, <2>1 DEF Begun
  <2> QED BY <1>2, <2>2, <2>3 DEF Alike
<1> QED BY <1>1, <1>2

\* AnySession::request up to its first co_await.
LEMMA Starting ==
  ASSUME TypeInv, NEW next \in [Conns -> Sessions], NEW u \in Users, NEW k \in Keys,
         NEW c \in Conns, requests < MaxRequests, Start(next, u, k, c)
  PROVE  Started(next, u, c)
<1> DEFINE p == FirstPc(next[c])
           r == [pc |-> p, key |-> k, conn |-> c, id |-> requests + 1]
           n == [next EXCEPT ![c] = Begun(next[c])]
<1>1. requests' = requests + 1 /\ user' = [user EXCEPT ![u] = r]
  BY DEF Start, FirstPc
<1>2. DropUnheld(n)
  BY DEF Start, Begun
<1>3. requests' \in 0..MaxRequests /\ requests + 1 \in Ids
  BY <1>1, BoundsAssumption, SMT DEF TypeInv, Ids
<1>4. r \in UserStates /\ WellFormed(r)
  <2>0. p \in Pcs /\ p \notin {"idle", "connect"}
    BY DEF FirstPc, Pcs, H1Pcs, H2Pcs
  <2> HIDE DEF p
  <2>1. r.pc = p /\ r.conn = c /\ r.key = k /\ r.id = requests + 1
    OBVIOUS
  <2>2. r.pc \in Pcs /\ r.pc \notin {"idle", "connect"}
    BY <2>0, <2>1
  <2>3. r \in UserStates
    BY <1>3, <2>2 DEF UserStates
  <2>4. WellFormed(r)
    <3> HIDE DEF r
    <3>0. r.conn # None /\ r.pc \notin {"idle", "connect"}
      BY <2>1, <2>2, NoneAssumption
    <3>1. r.conn = None <=> (r.pc \in {"idle", "connect"})
      BY <3>0
    <3> QED BY <1>3, <2>1, <3>1 DEF WellFormed
  <2> QED BY <2>3, <2>4
<1>5. user'[u] = r /\ \A v \in Users : v # u => user'[v] = user[v]
  BY <1>1 DEF TypeInv
<1>6. user' \in [Users -> UserStates]
  <2> HIDE DEF r
  <2> QED BY <1>1, <1>4 DEF TypeInv
<1>7. \A v \in Users : WellFormed(user'[v])
  <2> HIDE DEF r
  <2> QED BY <1>4, <1>5 DEF TypeInv
<1>8. user'[u].conn = c /\ user'[u].pc = FirstPc(next[c])
  <2>1. r.conn = c /\ r.pc = FirstPc(next[c])
    OBVIOUS
  <2> HIDE DEF r
  <2> QED BY <1>5, <2>1
<1>9. n \in [Conns -> Sessions] /\ n[c] = Begun(next[c])
      /\ \A d \in Conns : d # c => n[d] = next[d]
  BY BegunSession
<1> HIDE DEF n, r
<1>10. Dropped(n)
  BY <1>2, <1>9, Dropping
<1>11. Held(c)'
  BY <1>8 DEF Held
<1>12. conn' \in [Conns -> Sessions] /\ conn'[c] = Begun(next[c])
  BY <1>9, <1>10, <1>11 DEF Dropped
<1>13. ASSUME NEW d \in Conns, d # c
       PROVE  /\ Alike(next[d], conn'[d]) /\ conn'[d].peer = next[d].peer
              /\ conn'[d].driver = next[d].driver /\ conn'[d].goaway = next[d].goaway
              /\ next[d].ver = "h1" \/ Held(d)' => conn'[d] = next[d]
  <2>1. n[d] = next[d]
    BY <1>9, <1>13
  <2> QED BY <1>10, <2>1 DEF Dropped
<1>14. ASSUME NEW d \in Conns, d \in killed', d \notin killed
       PROVE  d # c /\ next[d].driver /\ next[d].fd # "none" /\ ~Held(d)'
  <2>1. ~Held(d)' /\ n[d].driver /\ n[d].fd # "none"
    BY <1>10, <1>14 DEF Dropped
  <2>2. d # c
    BY <1>11, <2>1
  <2> QED BY <1>9, <2>1, <2>2
<1>15. killed' \subseteq killed \cup Conns
  BY <1>10 DEF Dropped
<1> QED BY <1>3, <1>6, <1>7, <1>5, <1>8, <1>12, <1>13, <1>14, <1>15 DEF Started

\* Assignments to one coroutine and to one session.
UserSet(u, r) ==
  /\ user' \in [Users -> UserStates] /\ \A v \in Users : WellFormed(user'[v])
  /\ user'[u] = r /\ \A v \in Users : v # u => user'[v] = user[v]

\* An assignment to one coroutine leaves the others alone.
LEMMA SetUser ==
  ASSUME TypeInv, NEW u \in Users, NEW r \in UserStates, WellFormed(r),
         user' = [user EXCEPT ![u] = r]
  PROVE  UserSet(u, r)
<1>1. user'[u] = r /\ \A v \in Users : v # u => user'[v] = user[v]
  BY DEF TypeInv
<1>2. user' \in [Users -> UserStates]
  BY DEF TypeInv
<1>3. \A v \in Users : WellFormed(user'[v])
  BY <1>1 DEF TypeInv
<1> QED BY <1>1, <1>2, <1>3 DEF UserSet

\* A coroutine that has returned holds nothing.
LEMMA IdleUser == Idle \in UserStates /\ WellFormed(Idle)
                  /\ Idle.pc = "idle" /\ Idle.conn = None /\ Idle.pc \notin H1Pcs
                  /\ \A f : UserAt(Idle, f)
<1>1. Idle.pc = "idle" /\ Idle.conn = None
  BY DEF Idle
<1>2. Idle \in UserStates
  BY DEF Idle, UserStates, Pcs
<1> QED BY <1>1, <1>2 DEF WellFormed, UserAt, H1Pcs, H2Pcs

\* Moving on within an exchange keeps the session and the request.
LEMMA SetPc ==
  ASSUME TypeInv, NEW u \in Users, NEW p \in H1Pcs \cup H2Pcs,
         user[u].pc \in H1Pcs \cup H2Pcs
  PROVE  LET r == [user[u] EXCEPT !.pc = p]
         IN  /\ r \in UserStates /\ WellFormed(r)
             /\ r.pc = p /\ r.conn = user[u].conn /\ r.id = user[u].id
<1> DEFINE r == [user[u] EXCEPT !.pc = p]
<1>1. user[u] \in UserStates
  BY DEF TypeInv
<1>2. p \in Pcs
  BY DEF Pcs
<1>3. r \in UserStates
  BY <1>1, <1>2 DEF UserStates
<1>4. r.pc = p /\ r.conn = user[u].conn /\ r.id = user[u].id /\ r.key = user[u].key
  BY <1>1 DEF UserStates
<1> HIDE DEF r
<1>5. r.conn # None /\ r.id \in Ids /\ r.key \in Keys
  BY <1>4, Basics
<1>6. r.pc \notin {"idle", "connect"}
  BY <1>4 DEF H1Pcs, H2Pcs
<1>7. WellFormed(r)
  BY <1>5, <1>6 DEF WellFormed
<1> QED BY <1>3, <1>4, <1>7 DEF r

\* An assignment to one session leaves the others alone.
ConnSet(c, s) ==
  /\ conn' \in [Conns -> Sessions]
  /\ conn'[c] = s /\ \A d \in Conns : d # c => conn'[d] = conn[d]
LEMMA SetConn ==
  ASSUME TypeInv, NEW c \in Conns, NEW s \in Sessions, conn' = [conn EXCEPT ![c] = s]
  PROVE  ConnSet(c, s)
  BY DEF TypeInv, ConnSet

\* Steps in which all sessions stay alike and no coroutine gets an HTTP/1 session.
Settles(u0) ==
  /\ \A u \in Users : u # u0 => user'[u] = user[u]
  /\ u0 \in Users => UserAt(user'[u0], conn') /\ user'[u0].pc \notin H1Pcs
  /\ \A c \in Conns : Alike(conn[c], conn'[c])
  /\ \A k \in Keys : h1_idle'[k] = h1_idle[k] \/ h1_idle'[k] = <<>>
  /\ \A k \in Keys : h2_session'[k] = h2_session[k] \/ h2_session'[k] = None

\* A step in which sessions change only in flags, and at most one coroutine leaves or
\* moves within HTTP/2, keeps the exchanges.
LEMMA Settling ==
  ASSUME TypeInv, TypeInv', ExchangeInv, PlaceInv, NEW u0, Settles(u0)
  PROVE  ExchangeInv' /\ PlaceInv'
<1>1. ASSUME NEW k \in Keys
      PROVE  /\ Part(h1_idle'[k], h1_idle[k]) /\ Len(h1_idle'[k]) <= MaxIdle
             /\ \A i \in DOMAIN h1_idle'[k] : h1_idle'[k][i] # None
  <2>1. Part(h1_idle'[k], h1_idle[k])
    BY PartRefl, PartEmpty DEF Settles
  <2>2. Len(<<>>) <= MaxIdle
    BY BoundsAssumption, SMT
  <2>3. Len(h1_idle'[k]) <= MaxIdle
    <3>1. h1_idle'[k] = h1_idle[k] \/ h1_idle'[k] = <<>>
      BY DEF Settles
    <3>2. CASE h1_idle'[k] = h1_idle[k]
      BY <3>2 DEF ExchangeInv
    <3>3. CASE h1_idle'[k] = <<>>
      BY <2>2, <3>3
    <3> QED BY <3>1, <3>2, <3>3
  <2>4. h1_idle'[k] \in Seq(Conns)
    BY DEF TypeInv
  <2>5. \A i \in DOMAIN h1_idle'[k] : h1_idle'[k][i] \in Conns
    BY <2>4, SMT
  <2> QED BY <2>1, <2>3, <2>5, NoneAssumption
<1>2. ASSUME NEW k \in Keys, h2_session'[k] # None PROVE H2(conn'[h2_session'[k]])
  <2>0. h2_session'[k] = h2_session[k] /\ h2_session[k] \in Conns \cup {None}
    BY <1>2 DEF Settles, TypeInv
  <2>1. h2_session'[k] = h2_session[k] /\ h2_session[k] \in Conns
    BY <1>2, <2>0
  <2>2. H2(conn[h2_session[k]]) /\ Alike(conn[h2_session[k]], conn'[h2_session[k]])
    BY <1>2, <2>1 DEF Settles, ExchangeInv
  <2> QED BY <2>1, <2>2, AlikeSession
<1>3. Moves(u0, None)
  BY <1>1, <1>2, NoneAssumption DEF Moves, Settles
<1> QED BY <1>3, Moving

\* Steps of a coroutine on its own HTTP/1 session.
Serves(u) ==
  /\ user[u].pc \in H1Pcs
  /\ \A v \in Users : v # u => user'[v] = user[v]
  /\ \A c \in Conns : c # user[u].conn => conn'[c] = conn[c]
  /\ h1_idle' = h1_idle /\ h2_session' = h2_session
  /\ UserAt(user'[u], conn') /\ user'[u].conn \in {user[u].conn, None}

\* A step of one exchange keeps all the others.
LEMMA Serving ==
  ASSUME TypeInv, TypeInv', ExchangeInv, PlaceInv, NEW u \in Users, Serves(u)
  PROVE  ExchangeInv' /\ PlaceInv'
<1> PICK x \in Conns : x = user[u].conn
  BY Basics DEF Serves
<1>1. H1(conn[x])
  BY DEF Serves, ExchangeInv, UserAt, H1Pcs
<1>2. ASSUME NEW v \in Users, v # u PROVE user'[v] = user[v] /\ user[v].conn # x
  BY <1>2 DEF Serves, PlaceInv
<1>3. ASSUME NEW c \in Conns, c # x PROVE Alike(conn[c], conn'[c])
  BY <1>3 DEF Serves, Alike
<1>4. ASSUME NEW k \in Keys
      PROVE  /\ Part(h1_idle'[k], h1_idle[k]) /\ Len(h1_idle'[k]) <= MaxIdle
             /\ \A i \in DOMAIN h1_idle'[k] : h1_idle'[k][i] # x
  <2>1. h1_idle'[k] = h1_idle[k]
    BY DEF Serves
  <2>2. Len(h1_idle[k]) <= MaxIdle
    BY DEF ExchangeInv
  <2>3. \A i \in DOMAIN h1_idle[k] : user[u].conn # h1_idle[k][i]
    BY DEF PlaceInv
  <2> QED BY <2>1, <2>2, <2>3, PartRefl
<1>5. ASSUME NEW k \in Keys, h2_session'[k] # None PROVE H2(conn'[h2_session'[k]])
  <2>1. h2_session'[k] = h2_session[k] /\ h2_session[k] \in Conns
    BY <1>5, Basics DEF Serves
  <2>2. H2(conn[h2_session[k]])
    BY <1>5, <2>1 DEF ExchangeInv
  <2>3. h2_session[k] # x
    BY <1>1, <2>2 DEF H1, H2
  <2> QED BY <2>1, <2>2, <2>3 DEF Serves
<1>6. user'[u].pc \in H1Pcs => user'[u].conn = x
  <2>1. user'[u].pc \in H1Pcs => user'[u].conn # None
    BY DEF TypeInv, WellFormed, H1Pcs
  <2> QED BY <2>1 DEF Serves
<1>7. UserAt(user'[u], conn')
  BY DEF Serves
<1>8. Moves(u, x)
  BY <1>2, <1>3, <1>4, <1>5, <1>6, <1>7 DEF Moves
<1> QED BY <1>8, Moving

-----------------------------------------------------------------------------
(* The actions *)

\* What all the theorems rest on.
Base == TypeInv /\ ExchangeInv /\ PlaceInv

\* What the simple actions leave alone.
Rest == <<h2_session, h1_idle, requests, closer, let_go>>

\* Actions that set one coroutine to idle and change sessions only alike.
LEMMA LeaveStep ==
  ASSUME Base, NEW u \in Users, UNCHANGED Rest,
         user' = [user EXCEPT ![u] = Idle],
         conn' \in [Conns -> Sessions], \A c \in Conns : Alike(conn[c], conn'[c]),
         stale' \subseteq stale, killed' \subseteq Conns, dropped' \subseteq Conns
  PROVE  Base'
<1> USE DEF Base
<1>1. UserSet(u, Idle)
  BY SetUser, IdleUser
<1>2. /\ h2_session' = h2_session /\ h1_idle' = h1_idle /\ requests' = requests
      /\ closer' = closer /\ let_go' = let_go
  BY DEF Rest
<1>3. TypeInv'
  BY <1>1, <1>2 DEF TypeInv, UserSet
<1>4. Settles(u)
  BY <1>1, <1>2, IdleUser DEF Settles, UserSet
<1> QED BY <1>3, <1>4, Settling

\* Alike is reflexive.
LEMMA AlikeRefl == \A s : Alike(s, s)
  BY DEF Alike

\* Destroying the sessions nobody refers to changes no exchange.
LEMMA DropSame ==
  ASSUME TypeInv, DropUnheld(conn)
  PROVE  /\ conn' \in [Conns -> Sessions] /\ \A c \in Conns : Alike(conn[c], conn'[c])
         /\ killed' \subseteq Conns /\ Dropped(conn)
<1>1. Dropped(conn)
  BY Dropping DEF TypeInv
<1> QED BY <1>1 DEF Dropped, TypeInv

\* Base is preserved when a coroutine returns: a failed connect or request, a dropped or
\* finished response, a failed body.
LEMMA ConnectFailedStep == ASSUME Base, NEW u \in Users, ConnectFailed(u) PROVE Base'
  BY LeaveStep, AlikeRefl DEF Base, ConnectFailed, Rest, TypeInv
LEMMA RequestFailedStep == ASSUME Base, NEW u \in Users, RequestFailed(u) PROVE Base'
<1>1. user[u].conn \in Conns
  BY Basics DEF Base, RequestFailed, H1Pcs
<1>2. dropped' \subseteq Conns
  BY <1>1 DEF Base, RequestFailed, TypeInv
<1> QED BY <1>2, LeaveStep, AlikeRefl DEF Base, RequestFailed, Rest, pool, TypeInv
LEMMA DropResponseStep == ASSUME Base, NEW u \in Users, DropResponse(u) PROVE Base'
<1>1. user[u].conn \in Conns
  BY Basics DEF Base, DropResponse, H1Pcs, H2Pcs
<1>2. dropped' \subseteq Conns
  BY <1>1 DEF Base, DropResponse, TypeInv
<1> QED BY <1>2, LeaveStep, DropSame DEF Base, DropResponse, Rest
LEMMA H2DoneStep == ASSUME Base, NEW u \in Users, H2Done(u) PROVE Base'
<1>1. dropped' \subseteq Conns
  BY DEF Base, H2Done, TypeInv
<1> QED BY <1>1, LeaveStep, DropSame DEF Base, H2Done, Rest, pool

LEMMA BodyFailedStep == ASSUME Base, NEW u \in Users, BodyFailed(u) PROVE Base'
<1> USE DEF Base
<1>1. user[u].conn \in Conns
  BY Basics DEF BodyFailed, H1Pcs
<1> PICK x \in Conns : x = user[u].conn
  BY <1>1
<1> PICK t : t = [conn[x] EXCEPT !.fd = "closed"]
  OBVIOUS
<1>2. t \in Sessions /\ Alike(conn[x], t)
  BY CloseSession, Basics
<1>3. conn' = [conn EXCEPT ![x] = t]
  BY DEF BodyFailed
<1>4. ConnSet(x, t)
  BY <1>2, <1>3, SetConn
<1>5. \A c \in Conns : Alike(conn[c], conn'[c])
  BY <1>2, <1>4, AlikeRefl DEF ConnSet
<1> QED BY <1>4, <1>5, LeaveStep DEF BodyFailed, Rest, pool, ConnSet, TypeInv

\* Actions on one session, with no coroutine involved.
LEMMA FlagStep ==
  ASSUME Base, UNCHANGED <<pool, user, requests, killed>>, dropped' \subseteq Conns,
         NEW c \in Conns, NEW t \in Sessions, Alike(conn[c], t),
         conn' = [conn EXCEPT ![c] = t]
  PROVE  Base'
<1> USE DEF Base
<1>1. ConnSet(c, t)
  BY SetConn
<1>2. \A d \in Conns : Alike(conn[d], conn'[d])
  BY <1>1, AlikeRefl DEF ConnSet
<1>3. /\ h2_session' = h2_session /\ h1_idle' = h1_idle /\ requests' = requests
      /\ closer' = closer /\ let_go' = let_go /\ stale' = stale /\ user' = user
      /\ killed' = killed
  BY DEF pool
<1>4. TypeInv'
  BY <1>1, <1>3 DEF TypeInv, ConnSet
<1>5. PICK u0 : u0 \notin Users
  BY NoSetContainsEverything
<1>6. Settles(u0)
  BY <1>2, <1>3, <1>5 DEF Settles
<1> QED BY <1>4, <1>6, Settling

\* Base is preserved by GOAWAY, by the end of a driver and by the peer's close.
LEMMA GoAwayStep == ASSUME Base, NEW c \in Conns, GoAway(c) PROVE Base'
<1> PICK t : t = [conn[c] EXCEPT !.goaway = TRUE]
  OBVIOUS
<1>1. t \in Sessions /\ Alike(conn[c], t)
  BY FlagSession, Basics DEF Base
<1>2. conn' = [conn EXCEPT ![c] = t] /\ dropped' \subseteq Conns
  BY DEF GoAway, Base, TypeInv
<1> QED BY <1>1, <1>2, FlagStep DEF GoAway
LEMMA DriverEndsStep == ASSUME Base, NEW c \in Conns, DriverEnds(c) PROVE Base'
<1> PICK t : t = [conn[c] EXCEPT !.driver = FALSE, !.should_close_ = TRUE]
  OBVIOUS
<1>1. t \in Sessions /\ Alike(conn[c], t)
  BY FlagSession, Basics DEF Base
<1>2. conn' = [conn EXCEPT ![c] = t] /\ dropped' \subseteq Conns
  BY DEF DriverEnds, Base, TypeInv
<1> QED BY <1>1, <1>2, FlagStep DEF DriverEnds
LEMMA PeerClosesStep == ASSUME Base, NEW c \in Conns, PeerCloses(c) PROVE Base'
<1> PICK t : t = [conn[c] EXCEPT !.peer = "gone"]
  OBVIOUS
<1>1. t \in Sessions /\ Alike(conn[c], t)
  BY FlagSession, Basics DEF Base
<1>2. conn' = [conn EXCEPT ![c] = t] /\ dropped' \subseteq Conns
  BY DEF PeerCloses, Base, TypeInv
<1> QED BY <1>1, <1>2, FlagStep DEF PeerCloses

\* Base is preserved when the headers of an HTTP/2 response arrive.
LEMMA H2HeadersStep == ASSUME Base, NEW u \in Users, H2Headers(u) PROVE Base'
<1> USE DEF Base
<1>1. user[u].pc \in H2Pcs /\ "h2response" \in H2Pcs
  BY DEF H2Headers, H2Pcs
<1> PICK r : r = [user[u] EXCEPT !.pc = "h2response"]
  OBVIOUS
<1>2. r \in UserStates /\ WellFormed(r) /\ r.pc = "h2response" /\ r.conn = user[u].conn
  BY <1>1, SetPc
<1>3. user' = [user EXCEPT ![u] = r]
  BY DEF H2Headers
<1>4. UserSet(u, r)
  BY <1>2, <1>3, SetUser
<1>5. /\ h2_session' = h2_session /\ h1_idle' = h1_idle /\ requests' = requests
      /\ closer' = closer /\ let_go' = let_go /\ stale' = stale /\ conn' = conn
      /\ killed' = killed /\ dropped' = dropped
  BY DEF H2Headers, pool
<1>6. TypeInv'
  BY <1>4, <1>5 DEF TypeInv, UserSet
<1>7. H2(conn[user[u].conn])
  BY <1>1 DEF ExchangeInv, UserAt
<1>8. UserAt(r, conn) /\ r.pc \notin H1Pcs
  BY <1>2, <1>7 DEF UserAt, H1Pcs
<1>9. Settles(u)
  BY <1>4, <1>5, <1>8, AlikeRefl DEF Settles, UserSet
<1> QED BY <1>6, <1>9, Settling

\* A coroutine works on its HTTP/1 session and keeps it, or drops it.
LEMMA ServeStep ==
  ASSUME Base, NEW u \in Users, user[u].pc \in H1Pcs,
         UNCHANGED Rest, stale' = stale, killed' = killed, dropped' = dropped,
         NEW r, UserSet(u, r), r.conn \in {user[u].conn, None},
         NEW s, ConnSet(user[u].conn, s), UserAt(r, conn')
  PROVE  Base'
<1> USE DEF Base
<1>1. /\ h2_session' = h2_session /\ h1_idle' = h1_idle /\ requests' = requests
      /\ closer' = closer /\ let_go' = let_go
  BY DEF Rest
<1>2. TypeInv'
  BY <1>1 DEF TypeInv, UserSet, ConnSet
<1>3. Serves(u)
  BY <1>1 DEF Serves, UserSet, ConnSet
<1> QED BY <1>2, <1>3, Serving

\* The control state of a coroutine and its session, after SetPc and SetConn.
LEMMA ServeOwes ==
  ASSUME Base, NEW u \in Users, user[u].pc \in H1Pcs,
         NEW p \in {"head", "response", "body"}, user' = [user EXCEPT ![u].pc = p],
         NEW s, ConnSet(user[u].conn, s), H1(s), Owes(s, user[u].id),
         UNCHANGED Rest, stale' = stale, killed' = killed, dropped' = dropped
  PROVE  Base'
<1> USE DEF Base
<1>1. p \in H1Pcs \cup H2Pcs /\ p # "write" /\ p \notin H2Pcs
  BY DEF H1Pcs, H2Pcs
<1> PICK r : r = [user[u] EXCEPT !.pc = p]
  OBVIOUS
<1>2. /\ r \in UserStates /\ WellFormed(r) /\ r.pc = p /\ r.conn = user[u].conn
      /\ r.id = user[u].id
  BY <1>1, SetPc
<1>3. UserSet(u, r)
  BY <1>2, SetUser
<1>4. conn'[r.conn] = s
  BY <1>2 DEF ConnSet
<1>5. UserAt(r, conn')
  BY <1>1, <1>2, <1>4 DEF UserAt
<1> QED BY <1>2, <1>3, <1>5, ServeStep

\* Base is preserved when the request is written: the session now owes its response.
LEMMA WriteDoneStep == ASSUME Base, NEW u \in Users, WriteDone(u) PROVE Base'
<1> USE DEF Base
<1>1. user[u].pc = "write" /\ user[u].pc \in H1Pcs
  BY DEF WriteDone, H1Pcs
<1> PICK x \in Conns : x = user[u].conn
  BY <1>1, Basics
<1> PICK id \in Ids : id = user[u].id
  BY <1>1, Basics
<1>2. conn[x] \in Sessions /\ H1(conn[x]) /\ Fresh(conn[x])
  BY <1>1, Basics DEF ExchangeInv, UserAt
<1> PICK t : t = [conn[x] EXCEPT !.asked = Append(@, id)]
  OBVIOUS
<1>3. t \in Sessions /\ SameLife(conn[x], t) /\ Owes(t, id) /\ Owes(conn[x], id)
  BY <1>2, AskSession
<1>4. H1(t)
  BY <1>2, <1>3 DEF H1, SameLife
<1>5. conn' = [conn EXCEPT ![x] = t] \/ conn' = conn
  BY DEF WriteDone
<1>6. PICK s : ConnSet(x, s) /\ H1(s) /\ Owes(s, id)
  <2>1. CASE conn' = [conn EXCEPT ![x] = t]
    BY <1>3, <1>4, <2>1, SetConn
  <2>2. CASE conn' = conn
    BY <1>2, <1>3, <2>2 DEF ConnSet, TypeInv
  <2> QED BY <1>5, <2>1, <2>2
<1>7. /\ UNCHANGED Rest /\ stale' = stale /\ killed' = killed /\ dropped' = dropped
      /\ user' = [user EXCEPT ![u].pc = "head"]
  BY DEF WriteDone, Rest, pool
<1> QED BY <1>1, <1>6, <1>7, ServeOwes

\* Base is preserved by a read of request(), which may find the head, the body or the end.
LEMMA ReadHeadStep == ASSUME Base, NEW u \in Users, ReadHead(u) PROVE Base'
<1> USE DEF Base
<1>1. user[u].pc = "head" /\ user[u].pc \in H1Pcs
  BY DEF ReadHead, H1Pcs
<1> PICK x \in Conns : x = user[u].conn
  BY <1>1, Basics
<1> PICK id \in Ids : id = user[u].id
  BY <1>1, Basics
<1>2. conn[x] \in Sessions /\ H1(conn[x]) /\ Owes(conn[x], id)
  BY <1>1, Basics DEF ExchangeInv, UserAt
<1>3. UNCHANGED Rest /\ stale' = stale /\ killed' = killed /\ dropped' = dropped
  BY DEF ReadHead, Rest, pool
<1>4. CASE conn' = conn /\ user' = [user EXCEPT ![u].pc = "response"]
  <2>1. ConnSet(x, conn[x])
    BY <1>4 DEF ConnSet, TypeInv
  <2> QED BY <1>1, <1>2, <1>3, <1>4, <2>1, ServeOwes
<1>5. ASSUME NEW n \in 1..Len(conn[x].unread), conn' = [conn EXCEPT ![x] = Read(x, n)],
             user' = user \/ user' = [user EXCEPT ![u].pc = "response"]
      PROVE  Base'
  <2> PICK s : s = Read(x, n)
    OBVIOUS
  <2>1. s \in Sessions /\ SameLife(conn[x], s) /\ Owes(s, id)
    BY <1>2, ReadSession
  <2>2. ConnSet(x, s)
    BY <1>5, <2>1, SetConn
  <2>3. H1(s)
    BY <1>2, <2>1 DEF H1, SameLife
  <2>4. CASE user' = [user EXCEPT ![u].pc = "response"]
    BY <1>1, <1>3, <2>1, <2>2, <2>3, <2>4, ServeOwes
  <2>5. CASE user' = user
    <3>1. UserSet(u, user[u])
      BY <2>5 DEF UserSet, TypeInv
    <3>2. conn'[user[u].conn] = s
      BY <2>2 DEF ConnSet
    <3>3. UserAt(user[u], conn')
      BY <1>1, <2>1, <2>3, <3>2 DEF UserAt, H2Pcs
    <3> QED BY <1>1, <1>3, <2>2, <3>1, <3>3, ServeStep
  <2> QED BY <1>5, <2>4, <2>5
<1> QED BY <1>4, <1>5 DEF ReadHead

\* The hook of body_full: the session goes back, is closed, or is dropped.
LEMMA ConsumedStep ==
  ASSUME Base, NEW u \in Users, user[u].pc \in {"response", "body"},
         NEW s \in Sessions, SameLife(conn[user[u].conn], s),
         Quiet(s) \/ s.peer = "gone", Consumed(u, s),
         UNCHANGED <<h2_session, closer, stale, let_go, requests, killed, dropped>>
  PROVE  Base'
<1> USE DEF Base
<1>1. user[u].pc \in H1Pcs
  BY DEF H1Pcs
<1> PICK x \in Conns : x = user[u].conn
  BY <1>1, Basics
<1> PICK k \in Keys : k = user[u].key
  BY <1>1, Basics
<1>2. H1(conn[x]) /\ H1(s)
  BY <1>1 DEF ExchangeInv, UserAt, H1, SameLife
<1>3. UserSet(u, Idle)
  BY SetUser, IdleUser DEF Consumed
<1> DEFINE valid == s.fd = "open" /\ s.unread = <<>> /\ s.peer = "up"
           put == valid /\ Len(h1_idle[k]) < MaxIdle
<1>4. Release(k, x, s)
  BY DEF Consumed
<1>5. CASE put
  <2>1. h1_idle' = [h1_idle EXCEPT ![k] = Append(@, x)] /\ conn' = [conn EXCEPT ![x] = s]
    BY <1>4, <1>5 DEF Release
  <2>2. ConnSet(x, s)
    BY <2>1, SetConn
  <2>3. Quiet(s)
    BY <1>5
  <2>4. GivesBack(u, k)
    BY <1>1, <1>2, <1>3, <1>5, <2>1, <2>2, <2>3 DEF GivesBack, UserSet, ConnSet
  <2>5. \A q \in Seq(Conns) : Append(q, x) \in Seq(Conns)
    BY SMT
  <2>6. h1_idle' \in [Keys -> Seq(Conns)]
    BY <2>1, <2>5 DEF TypeInv
  <2>7. TypeInv'
    BY <1>3, <2>2, <2>6 DEF TypeInv, UserSet, ConnSet
  <2> QED BY <2>4, <2>7, GivingBack
<1>6. CASE ~put
  <2>1. /\ conn' = [conn EXCEPT ![x] = IF valid THEN [s EXCEPT !.fd = "closed"] ELSE s]
        /\ h1_idle' = h1_idle
    BY <1>4, <1>6 DEF Release
  <2>2. PICK t \in Sessions : conn' = [conn EXCEPT ![x] = t]
    <3>1. [s EXCEPT !.fd = "closed"] \in Sessions
      BY CloseSession
    <3> QED BY <2>1, <3>1
  <2>3. ConnSet(x, t)
    BY <2>2, SetConn
  <2> QED BY <1>1, <1>3, <2>1, <2>3, IdleUser, ServeStep DEF Rest
<1> QED BY <1>5, <1>6

\* Base is preserved when body_full finds the message complete and releases the session.
LEMMA BodyFullStep == ASSUME Base, NEW u \in Users, BodyFull(u) PROVE Base'
<1> USE DEF Base
<1>1. user[u].pc = "response" /\ user[u].pc \in H1Pcs
  BY DEF BodyFull, H1Pcs
<1> PICK x \in Conns : x = user[u].conn
  BY <1>1, Basics
<1>2. conn[x] \in Sessions /\ H1(conn[x]) /\ Owes(conn[x], user[u].id)
  BY <1>1, Basics DEF ExchangeInv, UserAt
<1>3. UNCHANGED <<h2_session, closer, stale, let_go, requests, killed, dropped>>
  BY DEF BodyFull
<1>4. CASE conn[x].message_complete_
  <2>1. Quiet(conn[x]) /\ SameLife(conn[x], conn[x])
    BY <1>2, <1>4 DEF Owes, SameLife
  <2>2. Consumed(u, conn[x])
    BY <1>4 DEF BodyFull
  <2> QED BY <1>1, <1>2, <1>3, <2>1, <2>2, ConsumedStep
<1>5. CASE ~conn[x].message_complete_
  <2>1. user' = [user EXCEPT ![u].pc = "body"] /\ h1_idle' = h1_idle /\ conn' = conn
    BY <1>5 DEF BodyFull
  <2>2. ConnSet(x, conn[x])
    BY <2>1 DEF ConnSet, TypeInv
  <2> QED BY <1>1, <1>2, <1>3, <2>1, <2>2, ServeOwes DEF Rest
<1> QED BY <1>4, <1>5

\* Base is preserved by a read of body_full, which may release the session.
LEMMA ReadBodyStep == ASSUME Base, NEW u \in Users, ReadBody(u) PROVE Base'
<1> USE DEF Base
<1>1. user[u].pc = "body" /\ user[u].pc \in H1Pcs
  BY DEF ReadBody, H1Pcs
<1> PICK x \in Conns : x = user[u].conn
  BY <1>1, Basics
<1> PICK id \in Ids : id = user[u].id
  BY <1>1, Basics
<1>2. conn[x] \in Sessions /\ H1(conn[x]) /\ Owes(conn[x], id)
  BY <1>1, Basics DEF ExchangeInv, UserAt
<1>3. UNCHANGED <<h2_session, closer, stale, let_go, requests, killed, dropped>>
  BY DEF ReadBody
<1>4. CASE conn[x].peer = "gone" /\ Consumed(u, conn[x])
  <2>1. SameLife(conn[x], conn[x])
    BY DEF SameLife
  <2> QED BY <1>1, <1>2, <1>3, <1>4, <2>1, ConsumedStep
<1>5. ASSUME NEW n \in 1..Len(conn[x].unread),
             IF Read(x, n).message_complete_
             THEN Consumed(u, Read(x, n))
             ELSE conn' = [conn EXCEPT ![x] = Read(x, n)] /\ UNCHANGED <<user, h1_idle>>
      PROVE  Base'
  <2> PICK s : s = Read(x, n)
    OBVIOUS
  <2>1. s \in Sessions /\ SameLife(conn[x], s) /\ Owes(s, id)
    BY <1>2, ReadSession
  <2>2. CASE s.message_complete_
    <3>1. Quiet(s)
      BY <2>1, <2>2 DEF Owes
    <3>2. Consumed(u, s)
      BY <1>5, <2>2
    <3> QED BY <1>1, <1>3, <2>1, <3>1, <3>2, ConsumedStep
  <2>3. CASE ~s.message_complete_
    <3>1. conn' = [conn EXCEPT ![x] = s] /\ user' = user /\ h1_idle' = h1_idle
      BY <1>5, <2>3
    <3>2. ConnSet(x, s)
      BY <2>1, <3>1, SetConn
    <3>3. UserSet(u, user[u])
      BY <3>1 DEF UserSet, TypeInv
    <3>4. H1(s) /\ conn'[user[u].conn] = s
      BY <1>2, <2>1, <3>2 DEF H1, SameLife, ConnSet
    <3>5. UserAt(user[u], conn')
      BY <1>1, <2>1, <3>4 DEF UserAt, H2Pcs
    <3> QED BY <1>1, <1>3, <3>1, <3>2, <3>3, <3>5, ServeStep DEF Rest
  <2> QED BY <2>2, <2>3
<1> QED BY <1>4, <1>5 DEF ReadBody

\* Base is preserved when the peer sends a part of the response it owes.
LEMMA PeerAnswersStep == ASSUME Base, NEW c \in Conns, PeerAnswers(c) PROVE Base'
<1> USE DEF Base
<1>1. conn[c] \in Sessions /\ conn[c].asked # <<>>
  BY Basics DEF PeerAnswers
<1>2. PICK t \in {SendHead(conn[c]), SendBody(conn[c])} : conn' = [conn EXCEPT ![c] = t]
  BY DEF PeerAnswers, SendHead, SendBody
<1>3. /\ t \in Sessions /\ SameLife(conn[c], t)
      /\ \A id \in Ids : Owes(conn[c], id) => Owes(t, id)
  BY <1>1, <1>2, AnswerSession
<1>4. ConnSet(c, t)
  BY <1>2, <1>3, SetConn
<1>5. /\ h2_session' = h2_session /\ h1_idle' = h1_idle /\ requests' = requests
      /\ closer' = closer /\ let_go' = let_go /\ stale' = stale /\ user' = user
      /\ killed' = killed /\ dropped' = dropped
  BY DEF PeerAnswers, pool
<1>6. TypeInv'
  BY <1>4, <1>5 DEF TypeInv, ConnSet
<1>7. ASSUME NEW k \in Keys
      PROVE  /\ Part(h1_idle'[k], h1_idle[k]) /\ Len(h1_idle'[k]) <= MaxIdle
             /\ \A i \in DOMAIN h1_idle'[k] : h1_idle'[k][i] # c
  BY <1>1, <1>5, PartRefl DEF ExchangeInv, Quiet
<1>8. ASSUME NEW k \in Keys, h2_session'[k] # None PROVE H2(conn'[h2_session'[k]])
  <2>1. H2(conn[h2_session[k]]) /\ h2_session[k] \in Conns
    BY <1>5, <1>8 DEF ExchangeInv, TypeInv
  <2>2. h2_session[k] # c
    BY <1>1, <2>1 DEF H2
  <2> QED BY <1>4, <1>5, <2>1, <2>2 DEF ConnSet
<1>9. ASSUME NEW u \in Users, user[u].conn = c
      PROVE  user[u].pc \in H1Pcs /\ UserAt(user'[u], conn')
  <2>1. user[u].pc \in H1Pcs \cup H2Pcs
    BY <1>9, Basics DEF Pcs
  <2>2. user[u].pc \notin H2Pcs /\ user[u].pc # "write"
    BY <1>1, <1>9 DEF ExchangeInv, UserAt, H2, Fresh, Quiet
  <2>3. user[u].pc \in {"head", "response", "body"} /\ user[u].id \in Ids
    BY <2>1, <2>2, Basics DEF H1Pcs
  <2>4. H1(conn[c]) /\ Owes(conn[c], user[u].id)
    BY <1>9, <2>3 DEF ExchangeInv, UserAt
  <2>5. H1(t) /\ Owes(t, user[u].id) /\ conn'[user[u].conn] = t
    BY <1>3, <1>4, <1>9, <2>3, <2>4 DEF H1, SameLife, ConnSet
  <2> QED BY <1>5, <2>2, <2>3, <2>5 DEF UserAt, H1Pcs
<1>10. \A d \in Conns : d # c => Alike(conn[d], conn'[d])
  BY <1>4, AlikeRefl DEF ConnSet
<1>11. CASE \E u \in Users : user[u].conn = c
  <2> PICK u \in Users : user[u].conn = c
    BY <1>11
  <2>1. user[u].pc \in H1Pcs /\ UserAt(user'[u], conn')
    BY <1>9
  <2>2. \A v \in Users : v # u => user[v].conn # c
    BY <2>1 DEF PlaceInv
  <2>3. Moves(u, c)
    BY <1>5, <1>7, <1>8, <1>10, <2>1, <2>2 DEF Moves
  <2> QED BY <1>6, <2>3, Moving
<1>12. CASE ~\E u \in Users : user[u].conn = c
  <2> PICK u0 : u0 \notin Users
    BY NoSetContainsEverything
  <2>1. Moves(u0, c)
    BY <1>5, <1>7, <1>8, <1>10, <1>12 DEF Moves
  <2> QED BY <1>6, <2>1, Moving
<1> QED BY <1>11, <1>12

\* Alike is transitive.
LEMMA AlikeTrans ==
  ASSUME NEW r, NEW s, NEW t, Alike(r, s), Alike(s, t) PROVE Alike(r, t)
  BY DEF Alike

\* What a step does that takes sessions out of their groups and coroutines leave alone:
\* the sessions it closes or drops are in let_go and dropped.
Closes ==
  /\ user' = user /\ let_go \subseteq let_go' /\ dropped \subseteq dropped'
  /\ \A c \in Conns :
       /\ Alike(conn[c], conn'[c])
       /\ conn'[c].driver = conn[c].driver /\ conn'[c].goaway = conn[c].goaway
       /\ c \in killed' /\ c \notin killed =>
            conn'[c].driver /\ conn'[c].fd # "none" /\ ~Held(c)'
       /\ conn[c].driver /\ Pooled(c) /\ c \notin let_go' => Pooled(c)'
       /\ Alive(conn'[c]) =>
            /\ Alive(conn[c])
            /\ \A k \in Keys : \A i \in DOMAIN h1_idle[k] : h1_idle[k][i] = c => Owned(c)'

\* close_async empties the groups and closes what was idle in them; Base is preserved.
LEMMA CloseGroupsStep ==
  ASSUME Base, NEW h2 \in [Keys -> Conns \cup {None}],
         \A k \in Keys : h2[k] = h2_session[k] \/ h2[k] = None,
         NEW from, CloseGroups(h2, from)
  PROVE  Base' /\ Closes
<1> USE DEF Base
<1> DEFINE rest    == {k \in Keys : k >= from}
           joins   == {k \in rest : h2[k] # None /\ conn[h2[k]].driver}
           at      == CHOOSE k \in joins : \A j \in joins : k <= j
           passed  == IF joins = {} THEN rest ELSE {k \in rest : k < at}
           closing == UNION {Range(h1_idle[k]) : k \in passed}
                        \cup {h2[k] : k \in IF joins = {} THEN passed ELSE passed \cup {at}}
           end(s)  == [s EXCEPT !.fd = "closed", !.should_close_ = TRUE]
           next    == [c \in Conns |-> IF c \in closing THEN end(conn[c]) ELSE conn[c]]
           idle    == UNION {Range(h1_idle[k]) : k \in Keys \ rest}
<1>1. /\ IF joins = {}
         THEN /\ h1_idle' = [k \in Keys |-> <<>>]
              /\ h2_session' = [k \in Keys |-> None]
              /\ closer' = [closer EXCEPT !.pc = "done"]
              /\ stale' = {u \in Users : user[u].pc = "connect"}
         ELSE /\ h1_idle' = [k \in Keys |-> IF k \in passed THEN <<>> ELSE h1_idle[k]]
              /\ h2_session' = [k \in Keys |-> IF k \in passed THEN None ELSE h2[k]]
              /\ closer' = [pc |-> "join", key |-> at, conn |-> h2[at]]
              /\ stale' = stale
      /\ let_go' = let_go \cup {c \in RunningIn(Keys) :
                                  c \in closing \/ \A k \in Keys : h2_session'[k] # c}
      /\ dropped' = dropped \cup (IF joins = {} THEN idle ELSE {})
      /\ user' = user /\ requests' = requests
      /\ DropUnheld(next)
  BY DEF CloseGroups
<1> HIDE DEF joins, at, passed, closing, idle
<1>2. \A s \in Sessions : /\ end(s) \in Sessions /\ Alike(s, end(s)) /\ end(s).fd = "closed"
                          /\ end(s).driver = s.driver /\ end(s).goaway = s.goaway
                          /\ end(s).peer = s.peer
  BY EndSession
<1> HIDE DEF end
<1>3. next \in [Conns -> Sessions]
  BY <1>2 DEF TypeInv
<1>4. ASSUME NEW c \in Conns
      PROVE  /\ Alike(conn[c], next[c]) /\ next[c].driver = conn[c].driver
             /\ next[c].goaway = conn[c].goaway /\ next[c].peer = conn[c].peer
             /\ IF c \in closing THEN next[c].fd = "closed" ELSE next[c] = conn[c]
  <2>1. conn[c] \in Sessions
    BY DEF TypeInv
  <2>2. CASE c \in closing
    BY <1>2, <2>1, <2>2
  <2>3. CASE c \notin closing
    BY <2>3, AlikeRefl
  <2> QED BY <2>2, <2>3
<1> HIDE DEF next
<1>5. Dropped(next)
  BY <1>1, <1>3, Dropping
<1>6. ASSUME NEW c \in Conns
      PROVE  /\ Alike(conn[c], conn'[c]) /\ conn'[c].driver = conn[c].driver
             /\ conn'[c].goaway = conn[c].goaway
             /\ c \in killed' /\ c \notin killed =>
                  conn'[c].driver /\ conn'[c].fd # "none" /\ ~Held(c)'
  <2>1. /\ Alike(next[c], conn'[c]) /\ conn'[c].driver = next[c].driver
        /\ conn'[c].goaway = next[c].goaway
        /\ c \in killed' /\ c \notin killed =>
             next[c].driver /\ next[c].fd # "none" /\ ~Held(c)'
    BY <1>5 DEF Dropped
  <2>2. c \in killed' /\ c \notin killed =>
          conn'[c].driver /\ conn'[c].fd # "none" /\ ~Held(c)'
    BY <2>1 DEF Alike
  <2>3. Alike(conn[c], next[c]) /\ next[c].driver = conn[c].driver
        /\ next[c].goaway = conn[c].goaway
    BY <1>4
  <2>4. Alike(conn[c], conn'[c])
    BY <2>1, <2>3, AlikeTrans
  <2> QED BY <2>1, <2>2, <2>3, <2>4
<1>7. /\ "pc" \in DOMAIN closer' /\ closer'.pc \in {"join", "done"}
  <2>1. CASE joins = {}
    <3>1. closer' = [closer EXCEPT !.pc = "done"]
      BY <1>1, <2>1
    <3> QED BY <3>1 DEF TypeInv
  <2>2. CASE joins # {}
    <3>1. closer' = [pc |-> "join", key |-> at, conn |-> h2[at]]
      BY <1>1, <2>2
    <3> QED BY <3>1
  <2> QED BY <2>1, <2>2
<1>8. /\ h1_idle' \in [Keys -> Seq(Conns)]
      /\ \A k \in Keys : h1_idle'[k] = h1_idle[k] \/ h1_idle'[k] = <<>>
  <2>1. <<>> \in Seq(Conns)
    BY SMT
  <2>2. CASE joins = {}
    BY <1>1, <2>1, <2>2
  <2>3. CASE joins # {}
    <3>1. h1_idle' = [k \in Keys |-> IF k \in passed THEN <<>> ELSE h1_idle[k]]
      BY <1>1, <2>3
    <3> QED BY <2>1, <3>1 DEF TypeInv
  <2> QED BY <2>2, <2>3
<1>9. /\ h2_session' \in [Keys -> Conns \cup {None}]
      /\ \A k \in Keys : h2_session'[k] = h2_session[k] \/ h2_session'[k] = None
  <2>1. CASE joins = {}
    BY <1>1, <2>1
  <2>2. CASE joins # {}
    <3>1. h2_session' = [k \in Keys |-> IF k \in passed THEN None ELSE h2[k]]
      BY <1>1, <2>2
    <3> QED BY <3>1
  <2> QED BY <2>1, <2>2
<1>10. stale' \subseteq Users
  BY <1>1 DEF TypeInv
<1>11. conn' \in [Conns -> Sessions] /\ killed' \subseteq Conns
  BY <1>5 DEF Dropped, TypeInv
<1>12. /\ user' = user /\ requests' = requests
       /\ let_go \subseteq let_go' /\ let_go' \subseteq Conns
       /\ dropped \subseteq dropped' /\ dropped' \subseteq Conns
  <2>1. RunningIn(Keys) \subseteq Conns
    BY PoolHoldsConns
  <2>2. let_go \subseteq let_go' /\ let_go' \subseteq Conns
    BY <1>1, <2>1 DEF TypeInv
  <2>3. idle \subseteq Conns
    BY PoolHoldsConns DEF idle
  <2>4. dropped \subseteq dropped' /\ dropped' \subseteq Conns
    BY <1>1, <2>3 DEF TypeInv
  <2> QED BY <1>1, <2>2, <2>4
<1>13. TypeInv'
  BY <1>7, <1>8, <1>9, <1>10, <1>11, <1>12 DEF TypeInv
<1> PICK u0 : u0 \notin Users
  BY NoSetContainsEverything
<1>14. Settles(u0)
  BY <1>6, <1>8, <1>9, <1>12 DEF Settles
<1>15. ASSUME NEW c \in Conns, conn[c].driver, Pooled(c), c \notin let_go' PROVE Pooled(c)'
  <2>1. c \in RunningIn(Keys)
    BY <1>15, NoneAssumption DEF RunningIn, Pooled
  <2>2. c \notin closing /\ \E k \in Keys : h2_session'[k] = c
    BY <1>1, <1>15, <2>1
  <2>3. Held(c)'
    BY <2>2 DEF Held
  <2>4. conn'[c] = conn[c]
    BY <1>4, <1>5, <2>2, <2>3 DEF Dropped
  <2>5. ~conn'[c].should_close_
    BY <1>15, <2>4 DEF Pooled
  <2> QED BY <2>2, <2>5 DEF Pooled
<1>16. ASSUME NEW c \in Conns, Alive(conn'[c])
       PROVE  c \notin closing /\ Alive(conn[c])
  <2>1. next[c].ver = "h1"
    BY <1>5, <1>16 DEF Dropped, Alike, Alive
  <2>2. conn'[c] = next[c]
    BY <1>5, <2>1 DEF Dropped
  <2>3. c \notin closing
    BY <1>4, <1>16, <2>2 DEF Alive
  <2> QED BY <1>4, <1>16, <2>2, <2>3
<1>17. ASSUME NEW c \in Conns, Alive(conn'[c]), NEW k \in Keys, NEW i \in DOMAIN h1_idle[k],
              h1_idle[k][i] = c
       PROVE  Owned(c)'
  <2>1. c \in Range(h1_idle[k])
    BY <1>17 DEF Range
  <2>2. k \notin passed
    BY <1>16, <1>17, <2>1 DEF closing
  <2>3. CASE joins = {}
    <3>1. k \notin rest
      BY <2>2, <2>3 DEF passed
    <3>2. c \in idle
      BY <2>1, <3>1 DEF idle
    <3> QED BY <1>1, <2>3, <3>2 DEF Owned
  <2>4. CASE joins # {}
    <3>1. h1_idle'[k] = h1_idle[k]
      BY <1>1, <2>2, <2>4
    <3>2. c \in Range(h1_idle'[k])
      BY <2>1, <3>1
    <3> QED BY <3>2 DEF Owned, Held
  <2> QED BY <2>3, <2>4
<1>18. Closes
  BY <1>6, <1>12, <1>15, <1>16, <1>17 DEF Closes
<1> QED BY <1>13, <1>14, <1>18, Settling

\* The same for both halves of close_async, before and after it joins a driver.
LEMMA CloseAsyncStep == ASSUME Base, CloseAsync PROVE Base' /\ Closes
<1>1. h2_session \in [Keys -> Conns \cup {None}] /\ CloseGroups(h2_session, 0)
  BY DEF Base, TypeInv, CloseAsync
<1> QED BY <1>1, CloseGroupsStep

LEMMA CloseJoinedStep == ASSUME Base, CloseJoined PROVE Base' /\ Closes
<1> PICK h2 : h2 = [h2_session EXCEPT ![closer.key] = None]
  OBVIOUS
<1>1. h2_session \in [Keys -> Conns \cup {None}]
  BY DEF Base, TypeInv
<1>2. /\ h2 \in [Keys -> Conns \cup {None}]
      /\ \A k \in Keys : h2[k] = h2_session[k] \/ h2[k] = None
  BY <1>1
<1>3. CloseGroups(h2, closer.key)
  BY DEF CloseJoined
<1> QED BY <1>2, <1>3, CloseGroupsStep

\* The destructor of the pool lets everything go; Base is preserved.
LEMMA DestroyPoolStep == ASSUME Base, DestroyPool PROVE Base' /\ Closes
<1> USE DEF Base
<1>1. /\ h2_session' = [k \in Keys |-> None] /\ h1_idle' = [k \in Keys |-> <<>>]
      /\ closer' = NotClosing /\ let_go' = let_go \cup RunningIn(Keys)
      /\ dropped' = dropped \cup UNION {Range(h1_idle[k]) : k \in Keys}
      /\ user' = user /\ requests' = requests /\ stale' = stale /\ DropUnheld(conn)
  BY DEF DestroyPool
<1>2. Dropped(conn) /\ conn' \in [Conns -> Sessions] /\ killed' \subseteq Conns
  BY <1>1, DropSame
<1>3. <<>> \in Seq(Conns)
  BY SMT
<1>4. /\ h2_session' \in [Keys -> Conns \cup {None}] /\ h1_idle' \in [Keys -> Seq(Conns)]
      /\ \A k \in Keys : h2_session'[k] = None /\ h1_idle'[k] = <<>>
  BY <1>1, <1>3
<1>5. "pc" \in DOMAIN closer' /\ closer'.pc = "idle"
  BY <1>1 DEF NotClosing
<1>6. /\ let_go \subseteq let_go' /\ let_go' \subseteq Conns
      /\ dropped \subseteq dropped' /\ dropped' \subseteq Conns
  <2>1. RunningIn(Keys) \subseteq Conns
    BY PoolHoldsConns
  <2>2. UNION {Range(h1_idle[k]) : k \in Keys} \subseteq Conns
    BY PoolHoldsConns
  <2>3. let_go \subseteq let_go' /\ let_go' \subseteq Conns
    BY <1>1, <2>1 DEF TypeInv
  <2>4. dropped \subseteq dropped' /\ dropped' \subseteq Conns
    BY <1>1, <2>2 DEF TypeInv
  <2> QED BY <2>3, <2>4
<1>7. TypeInv'
  BY <1>1, <1>2, <1>4, <1>5, <1>6 DEF TypeInv
<1>8. ASSUME NEW c \in Conns
      PROVE  /\ Alike(conn[c], conn'[c]) /\ conn'[c].driver = conn[c].driver
             /\ conn'[c].goaway = conn[c].goaway
             /\ c \in killed' /\ c \notin killed =>
                  conn'[c].driver /\ conn'[c].fd # "none" /\ ~Held(c)'
             /\ conn[c].ver = "h1" => conn'[c] = conn[c]
  <2>1. /\ Alike(conn[c], conn'[c]) /\ conn'[c].driver = conn[c].driver
        /\ conn'[c].goaway = conn[c].goaway
        /\ c \in killed' /\ c \notin killed =>
             conn[c].driver /\ conn[c].fd # "none" /\ ~Held(c)'
        /\ conn[c].ver = "h1" => conn'[c] = conn[c]
    BY <1>2 DEF Dropped
  <2>2. conn[c].fd # "none" => conn'[c].fd # "none"
    BY <2>1 DEF Alike
  <2> QED BY <2>1, <2>2
<1> PICK u0 : u0 \notin Users
  BY NoSetContainsEverything
<1>9. Settles(u0)
  BY <1>1, <1>4, <1>8 DEF Settles
<1>10. ASSUME NEW c \in Conns, conn[c].driver, Pooled(c), c \notin let_go' PROVE FALSE
  <2>1. c \in RunningIn(Keys)
    BY <1>10, NoneAssumption DEF RunningIn, Pooled
  <2> QED BY <1>1, <1>10, <2>1
<1>11. ASSUME NEW c \in Conns, Alive(conn'[c]) PROVE Alive(conn[c])
  <2>1. conn[c].ver = "h1"
    BY <1>8, <1>11 DEF Alive, Alike
  <2> QED BY <1>8, <1>11, <2>1
<1>12. ASSUME NEW c \in Conns, NEW k \in Keys, NEW i \in DOMAIN h1_idle[k], h1_idle[k][i] = c
       PROVE  Owned(c)'
  <2>1. c \in Range(h1_idle[k])
    BY <1>12 DEF Range
  <2>2. c \in dropped'
    BY <1>1, <2>1
  <2> QED BY <2>2 DEF Owned
<1>13. Closes
  BY <1>1, <1>6, <1>8, <1>10, <1>11, <1>12 DEF Closes
<1> QED BY <1>7, <1>9, <1>13, Settling

\* acquire_session: `valid` is what remove_if leaves, and one of three things follows.
AcquiredH2(u, k, valid) ==
  LET h == h2_session[k]
  IN  /\ h \in Conns /\ is_valid(h) /\ h2_session'[k] = h
      /\ h1_idle'[k] = valid /\ Started(conn, u, h)

\* The outcomes of acquire_session: an idle HTTP/1 session, or a connect; and what all
\* outcomes share.
AcquiredH1(u, k, valid) ==
  valid # <<>> /\ h1_idle'[k] = Tail(valid) /\ Started(conn, u, Head(valid))
Connects(u, k, valid) ==
  /\ valid = <<>> /\ h1_idle'[k] = valid /\ requests' = requests
  /\ \E r : UserSet(u, r) /\ r.pc = "connect" /\ r.conn = None
  /\ Dropped(conn)
Acquired(u, k, valid) ==
  /\ valid \in Seq(Conns) /\ Len(valid) <= Len(h1_idle[k]) /\ Part(valid, h1_idle[k])
  /\ \A i \in DOMAIN h1_idle[k] :
       is_valid(h1_idle[k][i]) => \E j \in DOMAIN valid : valid[j] = h1_idle[k][i]
  /\ \A l \in Keys : l # k => h2_session'[l] = h2_session[l] /\ h1_idle'[l] = h1_idle[l]
  /\ h2_session' \in [Keys -> Conns \cup {None}] /\ h1_idle' \in [Keys -> Seq(Conns)]
  /\ \/ h2_session'[k] = h2_session[k]
     \/ h2_session'[k] = None /\ ~is_valid(h2_session[k])
  /\ UNCHANGED <<closer, stale, let_go, dropped>>
  /\ AcquiredH2(u, k, valid) \/ AcquiredH1(u, k, valid) \/ Connects(u, k, valid)

\* Acquire is one of these outcomes.
LEMMA Acquiring ==
  ASSUME TypeInv, NEW u \in Users, NEW k \in Keys, Acquire(u, k)
  PROVE  user[u].pc = "idle" /\ \E valid : Acquired(u, k, valid)
<1> DEFINE h == h2_session[k]
           h2 == IF h # None /\ is_valid(h) THEN h ELSE None
           ok == {c \in Conns : is_valid(c)}
<1>1. PICK valid \in Survivors(h1_idle[k], ok) :
         \/ /\ h2 # None
            /\ h1_idle' = [h1_idle EXCEPT ![k] = valid]
            /\ Start(conn, u, k, h2)
         \/ /\ h2 = None /\ valid # <<>>
            /\ h1_idle' = [h1_idle EXCEPT ![k] = Tail(valid)]
            /\ Start(conn, u, k, Head(valid))
         \/ /\ h2 = None /\ valid = <<>>
            /\ h1_idle' = [h1_idle EXCEPT ![k] = valid]
            /\ user' = [user EXCEPT ![u] = [@ EXCEPT !.pc = "connect", !.key = k]]
            /\ DropUnheld(conn)
            /\ UNCHANGED requests
  BY DEF Acquire
<1>2. /\ user[u].pc = "idle" /\ requests < MaxRequests
      /\ h2_session' = [h2_session EXCEPT ![k] = h2]
      /\ UNCHANGED <<closer, stale, let_go, dropped>>
  BY DEF Acquire
<1>3. h1_idle[k] \in Seq(Conns) /\ h \in Conns \cup {None} /\ conn \in [Conns -> Sessions]
  BY DEF TypeInv
<1>4. h2 = h \/ (h2 = None /\ (h = None \/ ~is_valid(h)))
  OBVIOUS
<1>5. h2 \in Conns \cup {None} /\ (h2 # None => h2 = h /\ h \in Conns /\ is_valid(h))
  BY <1>3
<1> HIDE DEF h2, ok
<1>6. /\ valid \in Seq(Conns) /\ Len(valid) <= Len(h1_idle[k]) /\ Part(valid, h1_idle[k])
      /\ \A i \in DOMAIN h1_idle[k] :
           h1_idle[k][i] \in ok => \E j \in DOMAIN valid : valid[j] = h1_idle[k][i]
  <2>1. Survived(valid, h1_idle[k], ok)
    BY <1>3, Surviving
  <2> QED BY <2>1 DEF Survived
<1>7. \A i \in DOMAIN h1_idle[k] :
        is_valid(h1_idle[k][i]) => \E j \in DOMAIN valid : valid[j] = h1_idle[k][i]
  <2>1. \A i \in DOMAIN h1_idle[k] : h1_idle[k][i] \in Conns
    BY <1>3, SMT
  <2>2. \A i \in DOMAIN h1_idle[k] : is_valid(h1_idle[k][i]) => h1_idle[k][i] \in ok
    BY <2>1 DEF ok
  <2>3. \A i \in DOMAIN h1_idle[k] :
          h1_idle[k][i] \in ok => \E j \in DOMAIN valid : valid[j] = h1_idle[k][i]
    BY <1>6
  <2> QED BY <2>2, <2>3
<1>8. /\ h2_session' \in [Keys -> Conns \cup {None}] /\ h2_session'[k] = h2
      /\ \A l \in Keys : l # k => h2_session'[l] = h2_session[l]
  BY <1>2, <1>5 DEF TypeInv
<1>9. h2_session'[k] = h2_session[k] \/ (h2_session'[k] = None /\ ~is_valid(h2_session[k]))
  BY <1>4, <1>8
<1>10. ASSUME NEW q \in Seq(Conns), h1_idle' = [h1_idle EXCEPT ![k] = q]
       PROVE  /\ h1_idle' \in [Keys -> Seq(Conns)] /\ h1_idle'[k] = q
              /\ \A l \in Keys : l # k => h1_idle'[l] = h1_idle[l]
  BY <1>10 DEF TypeInv
<1>11. ASSUME NEW q \in Seq(Conns), h1_idle' = [h1_idle EXCEPT ![k] = q],
              h1_idle'[k] = q =>
                AcquiredH2(u, k, valid) \/ AcquiredH1(u, k, valid) \/ Connects(u, k, valid)
       PROVE  Acquired(u, k, valid)
  <2>1. /\ h1_idle' \in [Keys -> Seq(Conns)] /\ h1_idle'[k] = q
        /\ \A l \in Keys : l # k => h1_idle'[l] = h1_idle[l]
    BY <1>10, <1>11
  <2> QED BY <1>2, <1>6, <1>7, <1>8, <1>9, <1>11, <2>1 DEF Acquired
<1>12. CASE h2 # None /\ h1_idle' = [h1_idle EXCEPT ![k] = valid] /\ Start(conn, u, k, h2)
  <2>1. h2 = h /\ h \in Conns /\ is_valid(h)
    BY <1>5, <1>12
  <2>2. Started(conn, u, h)
    BY <1>2, <1>3, <1>12, <2>1, Starting
  <2> QED BY <1>2, <1>6, <1>8, <1>11, <1>12, <2>1, <2>2 DEF AcquiredH2
<1>13. CASE /\ h2 = None /\ valid # <<>>
            /\ h1_idle' = [h1_idle EXCEPT ![k] = Tail(valid)]
            /\ Start(conn, u, k, Head(valid))
  <2>1. Tail(valid) \in Seq(Conns) /\ Head(valid) \in Conns
    BY <1>6, <1>13, SMT
  <2>2. Started(conn, u, Head(valid))
    BY <1>2, <1>3, <1>13, <2>1, Starting
  <2> QED BY <1>2, <1>11, <1>13, <2>1, <2>2 DEF AcquiredH1
<1>14. CASE /\ h2 = None /\ valid = <<>>
            /\ h1_idle' = [h1_idle EXCEPT ![k] = valid]
            /\ user' = [user EXCEPT ![u] = [@ EXCEPT !.pc = "connect", !.key = k]]
            /\ DropUnheld(conn)
            /\ UNCHANGED requests
  <2> PICK r : r = [user[u] EXCEPT !.pc = "connect", !.key = k]
    OBVIOUS
  <2>1. user[u] \in UserStates /\ WellFormed(user[u]) /\ user[u].conn = None
    BY <1>2 DEF TypeInv, WellFormed
  <2>2. r \in UserStates
    BY <2>1 DEF UserStates, Pcs
  <2>3. r.pc = "connect" /\ r.conn = None /\ r.key = k
    BY <2>1 DEF UserStates
  <2>4. WellFormed(r)
    BY <2>3 DEF WellFormed
  <2>5. user' = [user EXCEPT ![u] = r]
    BY <1>14
  <2>6. UserSet(u, r)
    BY <2>2, <2>4, <2>5, SetUser
  <2>7. Dropped(conn)
    BY <1>3, <1>14, Dropping
  <2> QED BY <1>2, <1>6, <1>11, <1>14, <2>3, <2>6, <2>7 DEF Connects
<1> QED BY <1>1, <1>2, <1>12, <1>13, <1>14

\* Base is preserved by acquire_session.
LEMMA AcquireStep ==
  ASSUME Base, NEW u \in Users, NEW k \in Keys, Acquire(u, k)
  PROVE  Base'
<1> USE DEF Base
<1> PICK valid : Acquired(u, k, valid)
  BY Acquiring
<1> PICK q \in Seq(Conns) : q = h1_idle[k]
  BY Basics
<1>1. valid \in Seq(Conns) /\ Len(valid) <= Len(q) /\ Part(valid, q)
  BY DEF Acquired
<1>2. Len(q) <= MaxIdle /\ Len(q) \in Nat /\ Len(valid) \in Nat
  <2>1. Len(q) \in Nat /\ Len(valid) \in Nat
    BY <1>1, SMT
  <2> QED BY <2>1 DEF ExchangeInv
<1>3. /\ \A l \in Keys : l # k => h2_session'[l] = h2_session[l] /\ h1_idle'[l] = h1_idle[l]
      /\ h2_session' \in [Keys -> Conns \cup {None}] /\ h1_idle' \in [Keys -> Seq(Conns)]
      /\ \A l \in Keys : h2_session'[l] = h2_session[l] \/ h2_session'[l] = None
      /\ closer' = closer /\ stale' = stale /\ let_go' = let_go /\ dropped' = dropped
  BY DEF Acquired
<1>4. ASSUME NEW x, \A c \in Conns : c # x => Alike(conn[c], conn'[c]),
             x \in Conns => H1(conn[x]), NEW l \in Keys, h2_session'[l] # None
      PROVE  H2(conn'[h2_session'[l]])
  <2>1. h2_session'[l] = h2_session[l] /\ h2_session[l] \in Conns
    BY <1>3, <1>4 DEF TypeInv
  <2>2. H2(conn[h2_session[l]])
    BY <1>4, <2>1 DEF ExchangeInv
  <2>3. h2_session[l] # x
    BY <1>4, <2>1, <2>2 DEF H1, H2
  <2> QED BY <1>4, <2>1, <2>2, <2>3, AlikeSession
<1>5. ASSUME NEW p \in Seq(Conns), Part(p, q), Len(p) <= Len(q), h1_idle'[k] = p,
             NEW l \in Keys
      PROVE  Part(h1_idle'[l], h1_idle[l]) /\ Len(h1_idle'[l]) <= MaxIdle
  <2>1. CASE l = k
    <3>1. Len(p) <= MaxIdle
      BY <1>2, <1>5, BoundsAssumption, SMT
    <3> QED BY <1>5, <2>1, <3>1
  <2>2. CASE l # k
    <3>1. h1_idle'[l] = h1_idle[l]
      BY <1>3, <2>2
    <3>2. Len(h1_idle[l]) <= MaxIdle
      BY DEF ExchangeInv
    <3> QED BY <3>1, <3>2, PartRefl
  <2> QED BY <2>1, <2>2
<1>6. \A l \in Keys : \A i \in DOMAIN h1_idle'[l] : h1_idle'[l][i] # None
  <2>1. \A p \in Seq(Conns) : \A i \in DOMAIN p : p[i] \in Conns
    BY SMT
  <2>2. \A l \in Keys : h1_idle'[l] \in Seq(Conns)
    BY <1>3
  <2>3. \A l \in Keys : \A i \in DOMAIN h1_idle'[l] : h1_idle'[l][i] \in Conns
    BY <2>1, <2>2
  <2> QED BY <2>3, NoneAssumption
<1>7. CASE AcquiredH2(u, k, valid)
  <2> PICK h \in Conns : h = h2_session[k]
    BY <1>7 DEF AcquiredH2
  <2>1. h1_idle'[k] = valid /\ Started(conn, u, h)
    BY <1>7 DEF AcquiredH2
  <2>2. TypeInv'
    BY <1>3, <2>1 DEF TypeInv, Started
  <2>3. H2(conn[h]) /\ conn[h] \in Sessions
    <3>1. h2_session[k] # None
      BY NoneAssumption
    <3>2. H2(conn[h2_session[k]])
      BY <3>1 DEF ExchangeInv
    <3> QED BY <3>2 DEF TypeInv
  <2>4. Alike(conn[h], conn'[h])
    <3>1. conn'[h] = [conn[h] EXCEPT !.driver = TRUE]
      BY <2>1, <2>3 DEF Started, Begun, H2
    <3>2. Alike(conn[h], [conn[h] EXCEPT !.driver = TRUE])
      BY <2>3 DEF Alike, Sessions
    <3> QED BY <3>1, <3>2
  <2>5. \A c \in Conns : Alike(conn[c], conn'[c])
    BY <2>1, <2>4 DEF Started
  <2>6. user'[u].pc = "h2wait" /\ user'[u].conn = h
    BY <2>1, <2>3 DEF Started, FirstPc, H2
  <2>7. H2(conn'[h])
    BY <2>3, <2>4, AlikeSession
  <2>8. UserAt(user'[u], conn') /\ user'[u].pc \notin H1Pcs
    BY <2>6, <2>7 DEF UserAt, H1Pcs
  <2>9. \A l \in Keys : h2_session'[l] # None => H2(conn'[h2_session'[l]])
    BY <1>4, <2>5, NoneAssumption
  <2>10. \A l \in Keys : Part(h1_idle'[l], h1_idle[l]) /\ Len(h1_idle'[l]) <= MaxIdle
    BY <1>1, <1>5, <2>1
  <2>11. \A v \in Users : v # u => user'[v] = user[v]
    BY <2>1 DEF Started
  <2>12. Moves(u, None)
    BY <1>6, <2>5, <2>8, <2>9, <2>10, <2>11, NoneAssumption DEF Moves
  <2> QED BY <2>2, <2>12, Moving
<1>8. CASE AcquiredH1(u, k, valid)
  <2>1. valid # <<>> /\ h1_idle'[k] = Tail(valid) /\ Started(conn, u, Head(valid))
    BY <1>8 DEF AcquiredH1
  <2> PICK x : x = Head(valid)
    OBVIOUS
  <2>2. TypeInv'
    BY <1>3, <2>1 DEF TypeInv, Started
  <2>3. /\ Tail(valid) \in Seq(Conns) /\ Len(Tail(valid)) <= Len(valid)
        /\ 1 \in DOMAIN valid /\ x = valid[1]
        /\ \A i \in DOMAIN Tail(valid) :
             i + 1 \in DOMAIN valid /\ i + 1 # 1 /\ Tail(valid)[i] = valid[i + 1]
    BY <1>1, <2>1, TailSeq
  <2>4. PICK pos \in [DOMAIN valid -> DOMAIN q] :
          /\ \A i, j \in DOMAIN valid : pos[i] = pos[j] => i = j
          /\ \A i \in DOMAIN valid : valid[i] = q[pos[i]]
    BY <1>1 DEF Part
  <2> PICK a \in DOMAIN q : a = pos[1]
    BY <2>3, <2>4
  <2>5. x = h1_idle[k][a]
    BY <2>3, <2>4
  <2>6. x \in Conns /\ conn[x] \in Sessions /\ H1(conn[x]) /\ Quiet(conn[x])
    <3>1. x \in Conns
      BY <2>5, Basics
    <3> QED BY <2>5, <3>1 DEF ExchangeInv, TypeInv
  <2>7. user'[u].conn = x /\ user'[u].pc = "write" /\ conn'[x] = Begun(conn[x])
    BY <2>1, <2>6 DEF Started, FirstPc, H1
  <2>8. H1(conn'[x]) /\ Fresh(conn'[x])
    <3> PICK b : b = Begun(conn[x])
      OBVIOUS
    <3>1. b.ver = conn[x].ver /\ b.fd = conn[x].fd /\ Fresh(b)
      BY <2>6, BegunSession DEF H1
    <3> QED BY <2>6, <2>7, <3>1 DEF H1
  <2>9. UserAt(user'[u], conn')
    BY <2>7, <2>8 DEF UserAt, H2Pcs
  <2>10. \A c \in Conns : c # x => Alike(conn[c], conn'[c])
    BY <2>1 DEF Started
  <2>11. ASSUME NEW v \in Users, v # u PROVE user'[v] = user[v] /\ user[v].conn # x
    <3>1. user'[v] = user[v]
      BY <2>1, <2>11 DEF Started
    <3>2. \A i \in DOMAIN h1_idle[k] : user[v].conn # h1_idle[k][i]
      BY DEF PlaceInv
    <3>3. user[v].conn # h1_idle[k][a]
      BY <3>2
    <3> QED BY <2>5, <3>1, <3>3
  <2>12. \A l \in Keys : h2_session'[l] # None => H2(conn'[h2_session'[l]])
    BY <1>4, <2>6, <2>10
  <2>13. Part(Tail(valid), q) /\ Len(Tail(valid)) <= Len(q)
    <3>1. Len(Tail(valid)) <= Len(q)
      BY <1>1, <1>2, <2>3, SMT
    <3> QED BY <1>1, <2>1, <3>1, PartTail
  <2>14. \A l \in Keys : Part(h1_idle'[l], h1_idle[l]) /\ Len(h1_idle'[l]) <= MaxIdle
    BY <1>5, <2>1, <2>3, <2>13
  <2>15. \A m, n \in Keys : \A b \in DOMAIN h1_idle[m], d \in DOMAIN h1_idle[n] :
           h1_idle[m][b] = h1_idle[n][d] => m = n /\ b = d
    BY DEF PlaceInv
  <2>16. ASSUME NEW l \in Keys, NEW i \in DOMAIN h1_idle'[l] PROVE h1_idle'[l][i] # x
    <3>1. CASE l = k
      <4>1. i + 1 \in DOMAIN valid /\ i + 1 # 1 /\ h1_idle'[l][i] = valid[i + 1]
        BY <2>1, <2>3, <3>1
      <4> PICK j : j = i + 1
        OBVIOUS
      <4>2. pos[j] \in DOMAIN q /\ pos[j] # a /\ valid[j] = q[pos[j]]
        BY <2>3, <2>4, <4>1
      <4>3. q[pos[j]] # q[a]
        <5>1. \A b, d \in DOMAIN h1_idle[k] : h1_idle[k][b] = h1_idle[k][d] => b = d
          BY <2>15
        <5>2. \A b, d \in DOMAIN q : q[b] = q[d] => b = d
          BY <5>1
        <5> QED BY <4>2, <5>2
      <4> QED BY <2>5, <4>1, <4>2, <4>3
    <3>2. CASE l # k
      <4>1. h1_idle'[l] = h1_idle[l]
        BY <1>3, <3>2
      <4>2. i \in DOMAIN h1_idle[l] /\ a \in DOMAIN h1_idle[k]
        BY <4>1
      <4>3. h1_idle[l][i] # h1_idle[k][a]
        BY <2>15, <3>2, <4>2
      <4> QED BY <2>5, <4>1, <4>3
    <3> QED BY <3>1, <3>2
  <2>17. Moves(u, x)
    BY <2>7, <2>9, <2>10, <2>11, <2>12, <2>14, <2>16 DEF Moves
  <2> QED BY <2>2, <2>17, Moving
<1>9. CASE Connects(u, k, valid)
  <2>1. h1_idle'[k] = valid /\ requests' = requests /\ Dropped(conn)
    BY <1>9 DEF Connects
  <2> PICK r : UserSet(u, r) /\ r.pc = "connect" /\ r.conn = None
    BY <1>9 DEF Connects
  <2>2. TypeInv'
    BY <1>3, <2>1 DEF TypeInv, UserSet, Dropped
  <2>3. \A c \in Conns : Alike(conn[c], conn'[c])
    BY <2>1 DEF Dropped
  <2>4. UserAt(user'[u], conn') /\ user'[u].pc \notin H1Pcs
    BY DEF UserSet, UserAt, H1Pcs, H2Pcs
  <2>5. \A l \in Keys : h2_session'[l] # None => H2(conn'[h2_session'[l]])
    BY <1>4, <2>3, NoneAssumption
  <2>6. \A l \in Keys : Part(h1_idle'[l], h1_idle[l]) /\ Len(h1_idle'[l]) <= MaxIdle
    BY <1>1, <1>5, <2>1
  <2>7. \A v \in Users : v # u => user'[v] = user[v]
    BY DEF UserSet
  <2>8. Moves(u, None)
    BY <1>6, <2>3, <2>4, <2>5, <2>6, <2>7, NoneAssumption DEF Moves
  <2> QED BY <2>2, <2>8, Moving
<1> QED BY <1>7, <1>8, <1>9 DEF Acquired

\* session_connect is done.
ConnectedAs(u, c, ver) ==
  LET next == [conn EXCEPT ![c] = NewConn(ver)]
  IN  /\ Started(next, u, c) /\ next[c] = NewConn(ver)
      /\ \A d \in Conns : d # c => next[d] = conn[d]
      /\ conn[c].fd = "none" /\ user[u].pc = "connect" /\ user[u].key \in Keys
      /\ h1_idle' = h1_idle /\ closer' = closer /\ dropped' = dropped
      /\ stale' = stale \ {u}
      /\ h2_session' \in [Keys -> Conns \cup {None}]
      /\ \A l \in Keys : h2_session'[l] = h2_session[l] \/ (ver = "h2" /\ h2_session'[l] = c)
      /\ \A l \in Keys : h2_session[l] # None /\ h2_session'[l] # h2_session[l] =>
                           h2_session[l] \in let_go'
      /\ let_go \subseteq let_go' /\ let_go' \subseteq Conns
      /\ ver = "h2" => h2_session'[user[u].key] = c \/ c \in let_go'

\* Connected has the effect ConnectedAs says, whether or not the group is still the same.
LEMMA Connecting ==
  ASSUME TypeInv, NEW u \in Users, NEW c \in Conns, NEW ver \in {"h1", "h2"},
         Connected(u, c, ver)
  PROVE  ConnectedAs(u, c, ver)
<1> DEFINE next == [conn EXCEPT ![c] = NewConn(ver)]
           stores == ver = "h2" /\ u \notin stale
<1> PICK k : k = user[u].key
  OBVIOUS
<1> DEFINE lost == CASE ver = "h1" -> {}
                     [] stores     -> {h2_session[k]} \ {None}
                     [] OTHER      -> {c}
<1>1. /\ user[u].pc = "connect" /\ requests < MaxRequests /\ conn[c].fd = "none"
      /\ h2_session' = IF stores THEN [h2_session EXCEPT ![k] = c] ELSE h2_session
      /\ let_go' = let_go \cup lost
      /\ h1_idle' = h1_idle /\ closer' = closer /\ dropped' = dropped
      /\ Start(next, u, k, c)
      /\ stale' = stale \ {u}
  BY DEF Connected
<1>2. k \in Keys
  BY <1>1 DEF TypeInv, WellFormed
<1>3. h2_session \in [Keys -> Conns \cup {None}] /\ let_go \subseteq Conns
  BY DEF TypeInv
<1>4. /\ next \in [Conns -> Sessions] /\ next[c] = NewConn(ver)
      /\ \A d \in Conns : d # c => next[d] = conn[d]
  <2> PICK t \in Sessions : t = NewConn(ver)
    BY NewSession
  <2> QED BY DEF TypeInv
<1> HIDE DEF next
<1>5. Started(next, u, c)
  BY <1>1, <1>2, <1>4, Starting
<1>0. /\ ver = "h1" => lost = {}
      /\ stores => lost = {h2_session[k]} \ {None}
      /\ ver = "h2" /\ ~stores => lost = {c}
  OBVIOUS
<1> HIDE DEF lost
<1>6. CASE stores
  <2>1. /\ h2_session' = [h2_session EXCEPT ![k] = c]
        /\ let_go' = let_go \cup ({h2_session[k]} \ {None})
    BY <1>0, <1>1, <1>6
  <2>2. h2_session'[k] = c /\ \A l \in Keys : l # k => h2_session'[l] = h2_session[l]
    BY <1>2, <1>3, <2>1
  <2>3. h2_session' \in [Keys -> Conns \cup {None}]
    BY <1>3, <2>1
  <2>4. \A l \in Keys : h2_session'[l] = h2_session[l] \/ (ver = "h2" /\ h2_session'[l] = c)
    BY <1>6, <2>2
  <2>5. let_go \subseteq let_go' /\ let_go' \subseteq Conns
    BY <1>2, <1>3, <2>1
  <2>6. \A l \in Keys : h2_session[l] # None /\ h2_session'[l] # h2_session[l] =>
                          h2_session[l] \in let_go'
    BY <2>1, <2>2
  <2> QED BY <1>1, <1>2, <1>4, <1>5, <2>2, <2>3, <2>4, <2>5, <2>6 DEF ConnectedAs, next
<1>7. CASE ~stores
  <2>1. h2_session' = h2_session
    BY <1>1, <1>7
  <2>2. lost \subseteq {c} /\ (ver = "h2" => c \in lost)
    BY <1>0, <1>7
  <2>3. let_go \subseteq let_go' /\ let_go' \subseteq Conns /\ (ver = "h2" => c \in let_go')
    BY <1>1, <1>3, <2>2
  <2> QED BY <1>1, <1>2, <1>3, <1>4, <1>5, <1>7, <2>1, <2>3 DEF ConnectedAs, next
<1> QED BY <1>6, <1>7

\* A connection that is not made yet is nobody's.
LEMMA Unmade ==
  ASSUME TypeInv, ExchangeInv, NEW c \in Conns, conn[c].fd = "none"
  PROVE  /\ \A u \in Users : user[u].conn # c
         /\ \A k \in Keys : \A i \in DOMAIN h1_idle[k] : h1_idle[k][i] # c
         /\ \A k \in Keys : h2_session[k] # c
<1>1. ASSUME NEW u \in Users, user[u].conn = c PROVE FALSE
  <2>1. user[u].pc \in H1Pcs \cup H2Pcs
    BY <1>1, Basics DEF Pcs
  <2>2. H1(conn[c]) \/ H2(conn[c])
    BY <1>1, <2>1 DEF ExchangeInv, UserAt, H1Pcs
  <2> QED BY <2>2 DEF H1, H2
<1>2. \A k \in Keys : \A i \in DOMAIN h1_idle[k] : h1_idle[k][i] # c
  BY DEF ExchangeInv, H1
<1>3. \A k \in Keys : h2_session[k] # c
  BY NoneAssumption DEF ExchangeInv, H2
<1> QED BY <1>1, <1>2, <1>3

\* Base is preserved when a connection is made and given up again.
LEMMA GivenUpStep ==
  ASSUME Base, NEW u \in Users, NEW c \in Conns, GivenUp(u, c) PROVE Base'
<1> USE DEF Base
<1>1. conn[c].fd = "none" /\ stale' \subseteq stale /\ dropped' = dropped \cup {c}
  BY DEF GivenUp
<1>2. /\ h2_session' = h2_session /\ h1_idle' = h1_idle /\ requests' = requests
      /\ closer' = closer /\ let_go' = let_go /\ killed' = killed
  BY DEF GivenUp
<1>3. UserSet(u, Idle)
  BY SetUser, IdleUser DEF GivenUp
<1> PICK s \in Sessions : s = NewConn("h1")
  BY NewSession
<1>4. ConnSet(c, s)
  BY SetConn DEF GivenUp
<1>5. TypeInv'
  BY <1>1, <1>2, <1>3, <1>4 DEF TypeInv, UserSet, ConnSet
<1>6. /\ \A v \in Users : user[v].conn # c
      /\ \A k \in Keys : \A i \in DOMAIN h1_idle[k] : h1_idle[k][i] # c
      /\ \A k \in Keys : h2_session[k] # c
  BY <1>1, Unmade
<1>7. \A d \in Conns : d # c => Alike(conn[d], conn'[d])
  BY <1>4, AlikeRefl DEF ConnSet
<1>8. ASSUME NEW k \in Keys
      PROVE  /\ Part(h1_idle'[k], h1_idle[k]) /\ Len(h1_idle'[k]) <= MaxIdle
             /\ \A i \in DOMAIN h1_idle'[k] : h1_idle'[k][i] # c
  BY <1>2, <1>6, PartRefl DEF ExchangeInv
<1>9. ASSUME NEW k \in Keys, h2_session'[k] # None PROVE H2(conn'[h2_session'[k]])
  <2>1. h2_session[k] \in Conns /\ h2_session[k] # c /\ H2(conn[h2_session[k]])
    BY <1>2, <1>6, <1>9, Basics DEF ExchangeInv
  <2> QED BY <1>2, <1>4, <2>1 DEF ConnSet
<1>10. Moves(u, c)
  BY <1>3, <1>6, <1>7, <1>8, <1>9, IdleUser DEF Moves, UserSet
<1> QED BY <1>5, <1>10, Moving

\* Base is preserved when a connect succeeds.
LEMMA ConnectedStep ==
  ASSUME Base, NEW u \in Users, NEW c \in Conns, NEW ver \in {"h1", "h2"},
         Connected(u, c, ver)
  PROVE  Base'
<1> USE DEF Base
<1> PICK next : next = [conn EXCEPT ![c] = NewConn(ver)]
  OBVIOUS
<1>1. ConnectedAs(u, c, ver)
  BY Connecting
<1>2. /\ Started(next, u, c) /\ next[c] = NewConn(ver)
      /\ \A d \in Conns : d # c => next[d] = conn[d]
      /\ conn[c].fd = "none"
      /\ h1_idle' = h1_idle /\ closer' = closer /\ dropped' = dropped
      /\ stale' \subseteq stale
      /\ h2_session' \in [Keys -> Conns \cup {None}]
      /\ \A l \in Keys : h2_session'[l] = h2_session[l] \/ (ver = "h2" /\ h2_session'[l] = c)
      /\ let_go' \subseteq Conns
  BY <1>1 DEF ConnectedAs
<1>3. TypeInv'
  BY <1>2 DEF TypeInv, Started
<1>4. \A d \in Conns : d # c => Alike(conn[d], conn'[d])
  BY <1>2 DEF Started
<1> PICK s \in Sessions : s = NewConn(ver)
  BY NewSession
<1>5. s.ver = ver /\ s.fd = "open" /\ s.asked = <<>> /\ s.unread = <<>>
  BY NewSession
<1>6. conn'[c] = Begun(s) /\ user'[u].conn = c /\ user'[u].pc = FirstPc(s)
  BY <1>2 DEF Started
<1>7. /\ Begun(s).ver = ver /\ Begun(s).fd = "open" /\ Begun(s).asked = <<>>
      /\ ver = "h1" => Fresh(Begun(s))
  BY <1>5, BegunSession DEF Quiet
<1>8. UserAt(user'[u], conn')
  <2>1. CASE ver = "h1"
    <3>1. user'[u].pc = "write" /\ H1(conn'[c]) /\ Fresh(conn'[c])
      BY <1>5, <1>6, <1>7, <2>1 DEF FirstPc, H1
    <3> QED BY <1>6, <3>1 DEF UserAt, H2Pcs
  <2>2. CASE ver = "h2"
    <3>1. user'[u].pc = "h2wait" /\ H2(conn'[c])
      BY <1>5, <1>6, <1>7, <2>2 DEF FirstPc, H2
    <3> QED BY <1>6, <3>1 DEF UserAt
  <2> QED BY <2>1, <2>2
<1>9. ASSUME NEW v \in Users, v # u PROVE user'[v] = user[v] /\ user[v].conn # c
  <2>1. user'[v] = user[v]
    BY <1>2, <1>9 DEF Started
  <2> QED BY <1>2, <2>1, Unmade
<1>10. ASSUME NEW l \in Keys
       PROVE  /\ Part(h1_idle'[l], h1_idle[l]) /\ Len(h1_idle'[l]) <= MaxIdle
              /\ \A i \in DOMAIN h1_idle'[l] : h1_idle'[l][i] # c
  <2>1. \A i \in DOMAIN h1_idle[l] : h1_idle[l][i] # c
    BY <1>2 DEF ExchangeInv, H1
  <2>2. Len(h1_idle[l]) <= MaxIdle
    BY DEF ExchangeInv
  <2> QED BY <1>2, <2>1, <2>2, PartRefl
<1>11. ASSUME NEW l \in Keys, h2_session'[l] # None PROVE H2(conn'[h2_session'[l]])
  <2>1. CASE ver = "h2" /\ h2_session'[l] = c
    BY <1>6, <1>7, <2>1 DEF H2
  <2>2. CASE h2_session'[l] = h2_session[l]
    <3>1. h2_session[l] \in Conns /\ H2(conn[h2_session[l]])
      BY <1>11, <2>2 DEF ExchangeInv, TypeInv
    <3>2. h2_session[l] # c
      BY <1>2, <3>1 DEF H2
    <3> QED BY <1>4, <2>2, <3>1, <3>2, AlikeSession
  <2> QED BY <1>2, <2>1, <2>2
<1>12. Moves(u, c)
  BY <1>4, <1>6, <1>8, <1>9, <1>10, <1>11 DEF Moves
<1> QED BY <1>3, <1>12, Moving

-----------------------------------------------------------------------------
(* Sessions are exclusive and idle ones quiet *)

\* Base holds at the start and is preserved by every step.
LEMMA BaseInit == Init => Base
<1> SUFFICES ASSUME Init PROVE Base
  OBVIOUS
<1>1. <<>> \in Seq(Ids) /\ <<>> \in Seq(Parts) /\ <<>> \in Seq(Conns)
      /\ DOMAIN <<>> = {} /\ Len(<<>>) = 0
  BY SMT
<1>2. NoConn \in Sessions
  BY <1>1 DEF NoConn, Sessions
<1>3. /\ h2_session = [k \in Keys |-> None] /\ h1_idle = [k \in Keys |-> <<>>]
      /\ conn = [c \in Conns |-> NoConn] /\ user = [u \in Users |-> Idle]
  BY DEF Init
<1>4. /\ h2_session \in [Keys -> Conns \cup {None}] /\ h1_idle \in [Keys -> Seq(Conns)]
      /\ conn \in [Conns -> Sessions] /\ user \in [Users -> UserStates]
      /\ \A u \in Users : user[u] = Idle
      /\ \A k \in Keys : h1_idle[k] = <<>> /\ h2_session[k] = None
  BY <1>1, <1>2, <1>3, IdleUser
<1>5. requests \in 0..MaxRequests
  BY BoundsAssumption, SMT DEF Init
<1>6. /\ "pc" \in DOMAIN closer /\ closer.pc = "idle"
      /\ stale = {} /\ let_go = {} /\ killed = {} /\ dropped = {}
  BY DEF Init, NotClosing
<1>7. TypeInv
  BY <1>4, <1>5, <1>6, IdleUser DEF TypeInv
<1>8. Len(<<>>) <= MaxIdle
  BY BoundsAssumption, SMT
<1>9. ExchangeInv
  BY <1>1, <1>4, <1>8, IdleUser DEF ExchangeInv
<1>10. PlaceInv
  BY <1>1, <1>4, IdleUser DEF PlaceInv
<1> QED BY <1>7, <1>9, <1>10 DEF Base

LEMMA BaseStep == Base /\ [Next]_vars => Base'
<1> SUFFICES ASSUME Base, [Next]_vars PROVE Base'
  OBVIOUS
<1>1. ASSUME NEW u \in Users, Client(u) PROVE Base'
  BY <1>1, AcquireStep, ConnectedStep, ConnectFailedStep, GivenUpStep, WriteDoneStep,
     ReadHeadStep, RequestFailedStep, DropResponseStep, BodyFullStep, ReadBodyStep,
     BodyFailedStep, H2HeadersStep, H2DoneStep DEF Client, ProxyRefused, HandshakeFailed
<1>2. CASE CloseAsync \/ CloseJoined \/ DestroyPool
  BY <1>2, CloseAsyncStep, CloseJoinedStep, DestroyPoolStep
<1>3. ASSUME NEW c \in Conns, GoAway(c) \/ DriverEnds(c) \/ PeerAnswers(c) \/ PeerCloses(c)
      PROVE  Base'
  BY <1>3, GoAwayStep, DriverEndsStep, PeerAnswersStep, PeerClosesStep
<1>4. CASE UNCHANGED vars
  <2>1. /\ h2_session' = h2_session /\ h1_idle' = h1_idle /\ conn' = conn /\ user' = user
        /\ requests' = requests /\ closer' = closer /\ stale' = stale
        /\ let_go' = let_go /\ killed' = killed /\ dropped' = dropped
    BY <1>4 DEF vars
  <2>2. TypeInv'
    BY <2>1 DEF Base, TypeInv
  <2>3. ExchangeInv'
    BY <2>1 DEF Base, ExchangeInv
  <2>4. PlaceInv'
    <3>1. PlaceInv
      BY DEF Base
    <3> QED BY <2>1, <3>1, SMT DEF PlaceInv
  <2> QED BY <2>2, <2>3, <2>4 DEF Base
<1> QED BY <1>1, <1>2, <1>3, <1>4 DEF Next

\* Every reachable state has the types, the exchanges and the places.
THEOREM BaseInvariant == Spec => []Base
  BY BaseInit, BaseStep, PTL DEF Spec

\* Base implies IdleIsQuiet.
LEMMA BaseQuiet == Base => IdleIsQuiet
<1> SUFFICES ASSUME Base PROVE IdleIsQuiet
  OBVIOUS
<1> USE DEF Base
<1>1. TypeOK
  <2>1. ASSUME NEW c \in Conns
        PROVE  /\ conn[c].fd \in {"none", "open", "closed"}
               /\ conn[c].ver \in {"h1", "h2"}
               /\ conn[c].peer \in {"up", "gone"}
               /\ conn[c].asked \in Seq(1..MaxRequests) /\ conn[c].unread \in Seq(Parts)
               /\ conn[c].seen \subseteq 1..MaxRequests
    <3>1. conn[c] \in Sessions
      BY DEF TypeInv
    <3> QED BY <3>1 DEF Sessions, Ids
  <2>2. ASSUME NEW u \in Users
        PROVE  /\ user[u].pc \in {"idle", "connect", "write", "head", "response", "body",
                                  "h2wait", "h2response"}
               /\ user[u].conn = None <=> user[u].pc \in {"idle", "connect"}
    <3>1. user[u].pc \in Pcs /\ WellFormed(user[u])
      BY Basics DEF TypeInv
    <3> QED BY <3>1 DEF Pcs, H1Pcs, H2Pcs, WellFormed
  <2> QED BY <2>1, <2>2 DEF TypeOK, TypeInv
<1>2. \A k \in Keys : Len(h1_idle[k]) <= MaxIdle
  BY DEF ExchangeInv
<1>3. ASSUME NEW k \in Keys, NEW c \in Range(h1_idle[k])
      PROVE  conn[c].asked = <<>> /\ conn[c].unread = <<>>
  <2> PICK i \in DOMAIN h1_idle[k] : c = h1_idle[k][i]
    BY DEF Range
  <2> QED BY DEF ExchangeInv, Quiet
<1> QED BY <1>1, <1>2, <1>3 DEF IdleIsQuiet

\* An idle session of release_h1_session owes no response, neither unread nor still
\* to be sent, and a group never holds more than the limit.
THEOREM PoolIsQuiet == Spec => []IdleIsQuiet
  BY BaseInvariant, BaseQuiet, PTL

\* Base implies OwnResponse: PlaceInv gives the one place, UserAt the response.
LEMMA BaseOwn == Base => OwnResponse
<1> SUFFICES ASSUME Base PROVE OwnResponse
  OBVIOUS
<1> USE DEF Base
<1>1. ASSUME NEW c \in Conns, conn[c].ver = "h1"
      PROVE  /\ \A p, r \in InPool(c) : p = r
             /\ \A u, v \in UsersOf(c) : u = v
             /\ InPool(c) = {} \/ UsersOf(c) = {}
  <2>1. ASSUME NEW u \in UsersOf(c)
        PROVE  u \in Users /\ user[u].conn = c /\ user[u].pc \in H1Pcs
    <3>1. u \in Users /\ user[u].conn = c
      BY DEF UsersOf
    <3>2. user[u].pc \in H1Pcs \cup H2Pcs
      BY <3>1, Basics DEF Pcs
    <3>3. user[u].pc \notin H2Pcs
      BY <1>1, <3>1 DEF ExchangeInv, UserAt, H2
    <3> QED BY <3>1, <3>2, <3>3
  <2>2. \A u, v \in UsersOf(c) : u = v
    BY <2>1 DEF PlaceInv
  <2>3. ASSUME NEW p \in InPool(c)
        PROVE  /\ p = <<p[1], p[2]>> /\ p[1] \in Keys /\ p[2] \in DOMAIN h1_idle[p[1]]
               /\ h1_idle[p[1]][p[2]] = c
    <3>1. /\ p \in Keys \X (1..MaxIdle)
          /\ p[2] <= Len(h1_idle[p[1]]) /\ h1_idle[p[1]][p[2]] = c
      BY DEF InPool
    <3>2. p = <<p[1], p[2]>> /\ p[1] \in Keys /\ p[2] \in 1..MaxIdle
      BY <3>1, SMT
    <3> PICK q \in Seq(Conns) : q = h1_idle[p[1]]
      BY <3>2, Basics
    <3> PICK i \in 1..MaxIdle : i = p[2]
      BY <3>2
    <3>3. i <= Len(q)
      BY <3>1
    <3>4. i \in DOMAIN q
      BY <3>3, SMT
    <3> QED BY <3>1, <3>2, <3>4
  <2>4. ASSUME NEW p \in InPool(c), NEW r \in InPool(c) PROVE p = r
    <3>1. \A k, l \in Keys : \A i \in DOMAIN h1_idle[k], j \in DOMAIN h1_idle[l] :
            h1_idle[k][i] = h1_idle[l][j] => k = l /\ i = j
      BY DEF PlaceInv
    <3> DEFINE k == p[1]
               i == p[2]
               l == r[1]
               j == r[2]
    <3>3. /\ k \in Keys /\ i \in DOMAIN h1_idle[k] /\ h1_idle[k][i] = c
          /\ l \in Keys /\ j \in DOMAIN h1_idle[l] /\ h1_idle[l][j] = c
      BY <2>3
    <3> HIDE DEF k, i, l, j
    <3>4. k = l /\ i = j
      BY <3>1, <3>3
    <3>2. p[1] = r[1] /\ p[2] = r[2]
      BY <3>4 DEF k, i, l, j
    <3> QED BY <2>3, <3>2
  <2>5. InPool(c) = {} \/ UsersOf(c) = {}
    <3>1. ASSUME NEW p \in InPool(c), NEW u \in UsersOf(c) PROVE FALSE
      <4>1. p[1] \in Keys /\ p[2] \in DOMAIN h1_idle[p[1]] /\ h1_idle[p[1]][p[2]] = c
        BY <2>3
      <4> DEFINE k == p[1]
                 i == p[2]
      <4>2. k \in Keys /\ i \in DOMAIN h1_idle[k] /\ h1_idle[k][i] = c
        BY <4>1
      <4> HIDE DEF k, i
      <4>3. u \in Users /\ user[u].conn = c
        BY DEF UsersOf
      <4>4. user[u].conn # h1_idle[k][i]
        BY <4>2, <4>3 DEF PlaceInv
      <4> QED BY <4>2, <4>3, <4>4
    <3> QED BY <3>1
  <2> QED BY <2>2, <2>4, <2>5
<1>2. ASSUME NEW u \in Users, user[u].pc \in {"write", "head", "response", "body"}
      PROVE  conn[user[u].conn].seen \subseteq {user[u].id}
  BY <1>2 DEF ExchangeInv, UserAt, Fresh, Owes
<1> QED BY <1>1, <1>2 DEF OwnResponse

\* An HTTP/1 session is in one place, an entry of h1_idle or a coroutine, and what it
\* hands to a request is that request's response.
THEOREM ResponseIsOwn == Spec => []OwnResponse
  BY BaseInvariant, BaseOwn, PTL

-----------------------------------------------------------------------------
(* The driver of an HTTP/2 session *)

\* What a step has to say about sessions for DriverInv to hold behind it: every
\* driver that runs is in the pool, or the exceptions of DriverOutlived apply.
Drives ==
  /\ let_go \subseteq let_go'
  /\ \A c \in Conns :
       /\ conn'[c].driver => H2(conn'[c])
       /\ conn[c].fd # "none" => conn'[c].fd # "none" /\ (conn[c].goaway => conn'[c].goaway)
       /\ c \in killed' /\ c \notin killed =>
            conn'[c].driver /\ conn'[c].fd # "none" /\ ~Held(c)'
       /\ conn'[c].driver /\ ~conn'[c].goaway /\ c \notin let_go' => Pooled(c)'

\* A session of the pool is held.
LEMMA PooledHeld == \A c : Pooled(c)' => Held(c)'
  BY DEF Pooled, Held

\* Such a step preserves DriverInv.
LEMMA Driving ==
  ASSUME TypeInv, TypeInv', DriverInv, Drives
  PROVE  DriverInv'
<1>1. \A c \in Conns : conn'[c].driver => H2(conn'[c])
  BY DEF Drives
<1>2. ASSUME NEW c \in killed' PROVE conn'[c].fd # "none"
  <2>1. c \in Conns
    BY DEF TypeInv
  <2> QED BY <2>1 DEF Drives, DriverInv
<1>3. ASSUME NEW c \in killed' PROVE conn'[c].goaway \/ c \in let_go'
  <2>1. c \in Conns
    BY DEF TypeInv
  <2>2. CASE c \in killed
    <3>1. conn[c].fd # "none"
      BY <2>2 DEF DriverInv
    <3>2. c \in let_go \/ conn[c].goaway
      BY <2>2 DEF DriverInv, DriverOutlived
    <3> QED BY <2>1, <3>1, <3>2 DEF Drives
  <2>3. CASE c \notin killed
    <3>1. conn'[c].driver /\ ~Held(c)'
      BY <2>1, <2>3 DEF Drives
    <3>2. ~Pooled(c)'
      BY <3>1, PooledHeld
    <3> QED BY <2>1, <3>1, <3>2 DEF Drives
  <2> QED BY <2>2, <2>3
<1>4. ASSUME NEW c \in Conns, conn'[c].driver /\ ~conn'[c].goaway /\ c \notin let_go'
      PROVE  Pooled(c)'
  BY <1>4 DEF Drives
<1> QED BY <1>1, <1>2, <1>3, <1>4 DEF DriverInv, DriverOutlived

\* Steps that start no driver and leave the groups alone.
DriverKept(c) ==
  /\ conn'[c].driver => conn[c].driver /\ Alike(conn[c], conn'[c])
  /\ conn[c].fd # "none" => conn'[c].fd # "none" /\ (conn[c].goaway => conn'[c].goaway)
  /\ Held(c)' /\ conn'[c].driver /\ ~conn'[c].goaway =>
       (conn'[c].should_close_ => conn[c].should_close_)
  /\ conn'[c].driver /\ ~conn'[c].goaway => ~conn[c].goaway
  /\ c \in killed' /\ c \notin killed =>
       conn'[c].driver /\ conn'[c].fd # "none" /\ ~Held(c)'

\* So does one that leaves the groups alone and keeps every driver's session.
LEMMA KeepingDriver ==
  ASSUME TypeInv, TypeInv', DriverInv, h2_session' = h2_session, let_go' = let_go,
         \A c \in Conns : DriverKept(c)
  PROVE  DriverInv'
<1>1. ASSUME NEW c \in Conns, conn'[c].driver PROVE H2(conn'[c])
  <2>1. conn[c].driver /\ Alike(conn[c], conn'[c])
    BY <1>1 DEF DriverKept
  <2>2. H2(conn[c])
    BY <2>1 DEF DriverInv
  <2> QED BY <2>1, <2>2, AlikeSession
<1>2. ASSUME NEW c \in Conns, conn'[c].driver, ~conn'[c].goaway, c \notin let_go'
      PROVE  Pooled(c)'
  <2>1. conn[c].driver /\ ~conn[c].goaway /\ c \notin let_go
    BY <1>2 DEF DriverKept
  <2>2. Pooled(c)
    BY <1>2, <2>1 DEF DriverInv
  <2>3. ~conn[c].should_close_ /\ \E k \in Keys : h2_session'[k] = c
    BY <2>2 DEF Pooled
  <2>4. Held(c)'
    BY <2>3 DEF Held
  <2>5. ~conn'[c].should_close_
    BY <1>2, <2>3, <2>4 DEF DriverKept
  <2> QED BY <2>3, <2>5 DEF Pooled
<1>3. ASSUME NEW c \in Conns
      PROVE  /\ conn[c].fd # "none" =>
                  conn'[c].fd # "none" /\ (conn[c].goaway => conn'[c].goaway)
             /\ c \in killed' /\ c \notin killed =>
                  conn'[c].driver /\ conn'[c].fd # "none" /\ ~Held(c)'
  BY DEF DriverKept
<1>4. Drives
  BY <1>1, <1>2, <1>3 DEF Drives
<1> QED BY <1>4, Driving

\* One session changes, and its driver does not begin to run.
LEMMA DriverOne ==
  ASSUME Base, TypeInv', DriverInv, h2_session' = h2_session, let_go' = let_go,
         killed' = killed,
         NEW x \in Conns, NEW t, ConnSet(x, t), t.fd # "none",
         t.driver => conn[x].driver /\ Alike(conn[x], t),
         conn[x].goaway => t.goaway,
         t.driver /\ ~t.goaway => ~conn[x].goaway /\ (t.should_close_ => conn[x].should_close_)
  PROVE  DriverInv'
<1>1. ASSUME NEW c \in Conns PROVE DriverKept(c)
  <2>1. CASE c = x
    BY <2>1 DEF DriverKept, ConnSet
  <2>2. CASE c # x
    <3>1. conn'[c] = conn[c]
      BY <2>2 DEF ConnSet
    <3> QED BY <3>1, AlikeRefl DEF DriverKept
  <2> QED BY <2>1, <2>2
<1> QED BY <1>1, KeepingDriver DEF Base

\* An HTTP/1 session has no driver.
LEMMA DriverServed ==
  ASSUME Base, TypeInv', DriverInv, h2_session' = h2_session, let_go' = let_go,
         killed' = killed,
         NEW x \in Conns, H1(conn[x]) \/ conn[x].asked # <<>>,
         NEW t, ConnSet(x, t), t.driver = conn[x].driver, t.goaway = conn[x].goaway,
         conn[x].fd # "none" => t.fd # "none"
  PROVE  DriverInv'
<1>1. ~conn[x].driver
  BY DEF DriverInv, H1, H2
<1>2. ~t.driver
  BY <1>1
<1>3. ASSUME NEW c \in Conns PROVE DriverKept(c)
  <2>1. CASE c = x
    BY <1>2, <2>1 DEF DriverKept, ConnSet
  <2>2. CASE c # x
    <3>1. conn'[c] = conn[c]
      BY <2>2 DEF ConnSet
    <3> QED BY <3>1, AlikeRefl DEF DriverKept
  <2> QED BY <2>1, <2>2
<1> QED BY <1>3, KeepingDriver DEF Base

\* The last shared_ptr of a coroutine.
LEMMA DriverDropped ==
  ASSUME Base, TypeInv', DriverInv, h2_session' = h2_session, let_go' = let_go,
         DropUnheld(conn)
  PROVE  DriverInv'
<1>1. Dropped(conn)
  BY DropSame DEF Base
<1>2. ASSUME NEW c \in Conns PROVE DriverKept(c)
  <2>1. /\ Alike(conn[c], conn'[c]) /\ conn'[c].driver = conn[c].driver
        /\ conn'[c].goaway = conn[c].goaway /\ (Held(c)' => conn'[c] = conn[c])
        /\ c \in killed' /\ c \notin killed =>
             conn[c].driver /\ conn[c].fd # "none" /\ ~Held(c)'
    BY <1>1 DEF Dropped
  <2>2. conn[c].fd # "none" => conn'[c].fd # "none"
    BY <2>1 DEF Alike
  <2>3. Held(c)' => (conn'[c].should_close_ => conn[c].should_close_)
    BY <2>1
  <2> QED BY <2>1, <2>2, <2>3 DEF DriverKept
<1> QED BY <1>2, KeepingDriver DEF Base

\* close_async and the destructor of the pool let go of what they do not keep.
LEMMA DriverClosed ==
  ASSUME Base, TypeInv', DriverInv, Closes PROVE DriverInv'
<1>1. \A c \in Conns : /\ Alike(conn[c], conn'[c]) /\ conn'[c].driver = conn[c].driver
                       /\ conn'[c].goaway = conn[c].goaway
                       /\ c \in killed' /\ c \notin killed =>
                            conn'[c].driver /\ conn'[c].fd # "none" /\ ~Held(c)'
                       /\ conn[c].driver /\ Pooled(c) /\ c \notin let_go' => Pooled(c)'
  BY DEF Closes
<1>2. ASSUME NEW c \in Conns, conn'[c].driver PROVE H2(conn'[c])
  <2>1. H2(conn[c]) /\ Alike(conn[c], conn'[c])
    BY <1>1, <1>2 DEF DriverInv
  <2> QED BY <2>1, AlikeSession
<1>3. \A c \in Conns : conn[c].fd # "none" => conn'[c].fd # "none"
  BY <1>1 DEF Alike
<1>4. let_go \subseteq let_go'
  BY DEF Closes
<1>5. ASSUME NEW c \in Conns, conn'[c].driver, ~conn'[c].goaway, c \notin let_go'
      PROVE  Pooled(c)'
  <2>1. conn[c].driver /\ ~conn[c].goaway /\ c \notin let_go
    BY <1>1, <1>4, <1>5
  <2>2. Pooled(c)
    BY <2>1 DEF DriverInv
  <2> QED BY <1>1, <1>5, <2>1, <2>2
<1>6. Drives
  BY <1>1, <1>2, <1>3, <1>4, <1>5 DEF Drives
<1> QED BY <1>6, Driving DEF Base

\* The steps of a coroutine on its HTTP/1 session x, which they leave as s: the
\* session stays with it, or the hook of body_full has it.
Keeps(u, s) ==
  /\ ConnSet(user[u].conn, s) /\ h1_idle' = h1_idle
  /\ \A v \in Users : user'[v].conn = user[v].conn

\* A step of an HTTP/1 exchange of u that leaves its session as s: it keeps the session,
\* or has consumed the response and releases it.
Works(u, s) ==
  /\ user[u].pc \in H1Pcs /\ s \in Sessions /\ SameLife(conn[user[u].conn], s)
  /\ h2_session' = h2_session /\ closer' = closer /\ stale' = stale
  /\ let_go' = let_go /\ killed' = killed /\ dropped' = dropped
  /\ Keeps(u, s) \/ (Consumed(u, s) /\ (Quiet(s) \/ s.peer = "gone"))

\* The control state changes, the session does not.
LEMMA SamePlace ==
  ASSUME TypeInv, NEW u \in Users, NEW p,
         user' = user \/ user' = [user EXCEPT ![u].pc = p]
  PROVE  \A v \in Users : user'[v].conn = user[v].conn
<1>1. CASE user' = user
  BY <1>1
<1>2. CASE user' = [user EXCEPT ![u].pc = p]
  <2> PICK r : r = [user[u] EXCEPT !.pc = p]
    OBVIOUS
  <2>1. user[u] \in UserStates
    BY DEF TypeInv
  <2>2. r.conn = user[u].conn
    BY <2>1 DEF UserStates
  <2>3. user' = [user EXCEPT ![u] = r]
    BY <1>2
  <2>4. user'[u] = r /\ \A v \in Users : v # u => user'[v] = user[v]
    BY <2>3 DEF TypeInv
  <2> QED BY <2>2, <2>4
<1> QED BY <1>1, <1>2

\* The steps of an HTTP/1 exchange are such steps.
LEMMA Working ==
  ASSUME Base, NEW u \in Users, WriteDone(u) \/ ReadHead(u) \/ BodyFull(u) \/ ReadBody(u)
  PROVE  \E s : Works(u, s)
<1> USE DEF Base
<1>1. user[u].pc \in H1Pcs
  BY DEF WriteDone, ReadHead, BodyFull, ReadBody, H1Pcs
<1> PICK x \in Conns : x = user[u].conn
  BY <1>1, Basics
<1> PICK id \in Ids : id = user[u].id
  BY <1>1, Basics
<1>2. conn[x] \in Sessions /\ SameLife(conn[x], conn[x])
  BY DEF TypeInv, SameLife
<1>3. /\ h2_session' = h2_session /\ closer' = closer /\ stale' = stale
      /\ let_go' = let_go /\ killed' = killed /\ dropped' = dropped
  BY DEF WriteDone, ReadHead, BodyFull, ReadBody, pool
<1>4. ASSUME conn' = conn, h1_idle' = h1_idle, NEW p, user' = [user EXCEPT ![u].pc = p]
      PROVE  Works(u, conn[x])
  <2>1. ConnSet(x, conn[x])
    BY <1>4 DEF ConnSet, TypeInv
  <2>2. \A v \in Users : user'[v].conn = user[v].conn
    BY <1>4, SamePlace
  <2>3. Keeps(u, conn[x])
    BY <1>4, <2>1, <2>2 DEF Keeps
  <2> QED BY <1>1, <1>2, <1>3, <2>3 DEF Works
<1>5. ASSUME NEW s \in Sessions, SameLife(conn[x], s), conn' = [conn EXCEPT ![x] = s],
             h1_idle' = h1_idle, NEW p, user' = user \/ user' = [user EXCEPT ![u].pc = p]
      PROVE  Works(u, s)
  <2>1. ConnSet(x, s)
    BY <1>5, SetConn
  <2>2. \A v \in Users : user'[v].conn = user[v].conn
    BY <1>5, SamePlace
  <2>3. Keeps(u, s)
    BY <1>5, <2>1, <2>2 DEF Keeps
  <2> QED BY <1>1, <1>3, <1>5, <2>3 DEF Works
<1>6. ASSUME NEW n \in 1..Len(conn[x].unread)
      PROVE  /\ Read(x, n) \in Sessions /\ SameLife(conn[x], Read(x, n))
             /\ Owes(conn[x], id) => Owes(Read(x, n), id)
  BY <1>2, ReadSession
<1>7. CASE WriteDone(u)
  <2> PICK t : t = [conn[x] EXCEPT !.asked = Append(@, id)]
    OBVIOUS
  <2>1. Fresh(conn[x])
    BY <1>7 DEF WriteDone, ExchangeInv, UserAt
  <2>2. t \in Sessions /\ SameLife(conn[x], t)
    BY <1>2, <2>1, AskSession
  <2>3. /\ user' = [user EXCEPT ![u].pc = "head"] /\ h1_idle' = h1_idle
        /\ conn' = [conn EXCEPT ![x] = t] \/ conn' = conn
    BY <1>7 DEF WriteDone, pool
  <2> QED BY <1>4, <1>5, <2>2, <2>3
<1>8. CASE ReadHead(u)
  <2>1. h1_idle' = h1_idle
    BY <1>8 DEF ReadHead, pool
  <2>2. CASE user' = [user EXCEPT ![u].pc = "response"] /\ conn' = conn
    BY <1>4, <2>1, <2>2
  <2>3. ASSUME NEW n \in 1..Len(conn[x].unread), conn' = [conn EXCEPT ![x] = Read(x, n)],
               user' = user \/ user' = [user EXCEPT ![u].pc = "response"]
        PROVE  \E s : Works(u, s)
    BY <1>5, <1>6, <2>1, <2>3
  <2> QED BY <1>8, <2>2, <2>3 DEF ReadHead
<1>9. CASE BodyFull(u)
  <2>1. CASE conn[x].message_complete_
    <3>1. Consumed(u, conn[x]) /\ user[u].pc = "response"
      BY <1>9, <2>1 DEF BodyFull
    <3>2. Quiet(conn[x])
      BY <2>1, <3>1 DEF ExchangeInv, UserAt, Owes
    <3> QED BY <1>1, <1>2, <1>3, <3>1, <3>2 DEF Works
  <2>2. CASE ~conn[x].message_complete_
    <3>1. user' = [user EXCEPT ![u].pc = "body"] /\ h1_idle' = h1_idle /\ conn' = conn
      BY <1>9, <2>2 DEF BodyFull
    <3> QED BY <1>4, <3>1
  <2> QED BY <2>1, <2>2
<1>10. CASE ReadBody(u)
  <2>1. CASE conn[x].peer = "gone" /\ Consumed(u, conn[x])
    BY <1>1, <1>2, <1>3, <2>1 DEF Works
  <2>2. ASSUME NEW n \in 1..Len(conn[x].unread),
               IF Read(x, n).message_complete_
               THEN Consumed(u, Read(x, n))
               ELSE conn' = [conn EXCEPT ![x] = Read(x, n)] /\ UNCHANGED <<user, h1_idle>>
        PROVE  \E s : Works(u, s)
    <3> PICK s : s = Read(x, n)
      OBVIOUS
    <3>1. s \in Sessions /\ SameLife(conn[x], s) /\ Owes(s, id)
      <4>1. Owes(conn[x], id)
        BY <1>10 DEF ReadBody, ExchangeInv, UserAt
      <4> QED BY <1>6, <4>1
    <3>2. CASE s.message_complete_
      <4>1. Consumed(u, s) /\ Quiet(s)
        BY <2>2, <3>1, <3>2 DEF Owes
      <4> QED BY <1>1, <1>3, <3>1, <4>1 DEF Works
    <3>3. CASE ~s.message_complete_
      <4>1. conn' = [conn EXCEPT ![x] = s] /\ user' = user /\ h1_idle' = h1_idle
        BY <2>2, <3>3
      <4> QED BY <1>5, <3>1, <4>1
    <3> QED BY <3>2, <3>3
  <2> QED BY <1>10, <2>1, <2>2 DEF ReadBody
<1> QED BY <1>7, <1>8, <1>9, <1>10

\* release_h1_session leaves session x of coroutine u as t: kept, closed or dropped.
Released(u, s, t) ==
  LET x == user[u].conn
      k == user[u].key
      valid == s.fd = "open" /\ s.unread = <<>> /\ s.peer = "up"
  IN  /\ UserSet(u, Idle) /\ ConnSet(x, t)
      /\ t.driver = s.driver /\ t.goaway = s.goaway /\ t.peer = s.peer /\ t.ver = s.ver
      /\ (s.fd # "none" => t.fd # "none") /\ (t.fd = "open" => s.fd = "open")
      /\ \/ t = s /\ valid /\ h1_idle' = [h1_idle EXCEPT ![k] = Append(@, x)]
         \/ h1_idle' = h1_idle /\ (t.fd = "open" => ~valid)

\* release_h1_session puts a valid session into h1_idle or closes it, and keeps no other.
LEMMA Releasing ==
  ASSUME Base, NEW u \in Users, user[u].pc \in H1Pcs, NEW s \in Sessions, Consumed(u, s)
  PROVE  \E t : Released(u, s, t)
<1> USE DEF Base
<1> PICK x \in Conns : x = user[u].conn
  BY Basics
<1> PICK k : k = user[u].key
  OBVIOUS
<1> DEFINE valid == s.fd = "open" /\ s.unread = <<>> /\ s.peer = "up"
<1>1. UserSet(u, Idle)
  BY SetUser, IdleUser DEF Consumed
<1>2. Release(k, x, s)
  BY DEF Consumed
<1>3. CASE valid /\ Len(h1_idle[k]) < MaxIdle
  <2>1. h1_idle' = [h1_idle EXCEPT ![k] = Append(@, x)] /\ conn' = [conn EXCEPT ![x] = s]
    BY <1>2, <1>3 DEF Release
  <2>2. ConnSet(x, s)
    BY <2>1, SetConn
  <2> QED BY <1>1, <1>3, <2>1, <2>2 DEF Released
<1>4. CASE valid /\ ~(Len(h1_idle[k]) < MaxIdle)
  <2> PICK t : t = [s EXCEPT !.fd = "closed"]
    OBVIOUS
  <2>1. conn' = [conn EXCEPT ![x] = t] /\ h1_idle' = h1_idle
    BY <1>2, <1>4 DEF Release
  <2>2. t \in Sessions /\ t.fd = "closed" /\ t.peer = s.peer /\ t.ver = s.ver
    BY CloseSession DEF Alike
  <2>3. t.driver = s.driver /\ t.goaway = s.goaway
    BY DEF Sessions
  <2>4. ConnSet(x, t)
    BY <2>1, <2>2, SetConn
  <2> QED BY <1>1, <2>1, <2>2, <2>3, <2>4 DEF Released
<1>5. CASE ~valid
  <2>1. conn' = [conn EXCEPT ![x] = s] /\ h1_idle' = h1_idle
    BY <1>2, <1>5 DEF Release
  <2>2. ConnSet(x, s)
    BY <2>1, SetConn
  <2> HIDE DEF valid
  <2>3. s.fd = "open" => ~valid
    BY <1>5
  <2> QED BY <1>1, <2>1, <2>2, <2>3 DEF Released, valid
<1> QED BY <1>3, <1>4, <1>5

\* They start and stop no driver, so DriverInv is preserved.
LEMMA DriverWorks ==
  ASSUME Base, TypeInv', DriverInv, NEW u \in Users, NEW s, Works(u, s)
  PROVE  DriverInv'
<1> USE DEF Base
<1>1. /\ user[u].pc \in H1Pcs /\ s \in Sessions /\ SameLife(conn[user[u].conn], s)
      /\ h2_session' = h2_session /\ closer' = closer /\ stale' = stale
      /\ let_go' = let_go /\ killed' = killed
  BY DEF Works
<1> PICK x \in Conns : x = user[u].conn
  BY <1>1, Basics
<1>2. H1(conn[x])
  BY <1>1 DEF ExchangeInv, UserAt, H1Pcs
<1>3. s.driver = conn[x].driver /\ s.goaway = conn[x].goaway /\ s.fd = conn[x].fd
  BY <1>1 DEF SameLife
<1>4. CASE Keeps(u, s)
  <2>1. ConnSet(x, s)
    BY <1>4 DEF Keeps
  <2> QED BY <1>1, <1>2, <1>3, <2>1, DriverServed
<1>5. CASE Consumed(u, s)
  <2>1. PICK t : Released(u, s, t)
    BY <1>1, <1>5, Releasing
  <2>2. /\ ConnSet(x, t) /\ t.driver = conn[x].driver /\ t.goaway = conn[x].goaway
        /\ conn[x].fd # "none" => t.fd # "none"
    BY <1>3, <2>1 DEF Released
  <2> QED BY <1>1, <1>2, <2>2, DriverServed
<1> QED BY <1>4, <1>5 DEF Works

\* A request takes the HTTP/2 session of its group, whose driver it starts; a session
\* that its group drops had its driver told to stop, or the peer said GOAWAY.
LEMMA DriverAcquire ==
  ASSUME Base, TypeInv', DriverInv, NEW u \in Users, NEW k \in Keys, Acquire(u, k)
  PROVE  DriverInv'
<1> USE DEF Base
<1> PICK valid : Acquired(u, k, valid)
  BY Acquiring
<1>1. /\ let_go' = let_go
      /\ \A l \in Keys : l # k => h2_session'[l] = h2_session[l]
      /\ \/ h2_session'[k] = h2_session[k]
         \/ h2_session'[k] = None /\ ~is_valid(h2_session[k])
  BY DEF Acquired
<1> DEFINE Kept(c) == /\ Alike(conn[c], conn'[c]) /\ conn'[c].driver = conn[c].driver
                      /\ conn'[c].goaway = conn[c].goaway
                      /\ Held(c)' => conn'[c] = conn[c]
                      /\ c \in killed' /\ c \notin killed =>
                           conn[c].driver /\ conn[c].fd # "none" /\ ~Held(c)'
<1>2. ASSUME NEW c \in Conns, Kept(c), conn'[c].driver, ~conn'[c].goaway, c \notin let_go'
      PROVE  Pooled(c)'
  <2>1. conn[c].driver /\ ~conn[c].goaway /\ c \notin let_go
    BY <1>1, <1>2
  <2>2. Pooled(c) /\ H2(conn[c])
    BY <1>2, <2>1 DEF DriverInv
  <2> PICK l \in Keys : h2_session[l] = c /\ ~conn[c].should_close_
    BY <2>2 DEF Pooled
  <2>3. is_valid(c)
    BY <2>1, <2>2 DEF is_valid, H2
  <2>4. h2_session'[l] = c
    BY <1>1, <2>3
  <2>5. conn'[c] = conn[c]
    <3>1. Held(c)'
      BY <2>4 DEF Held
    <3> QED BY <1>2, <3>1
  <2>6. ~conn'[c].should_close_
    BY <2>5
  <2> QED BY <2>4, <2>6 DEF Pooled
<1>3. ASSUME NEW c \in Conns, Kept(c)
      PROVE  /\ conn'[c].driver => H2(conn'[c])
             /\ conn[c].fd # "none" =>
                  conn'[c].fd # "none" /\ (conn[c].goaway => conn'[c].goaway)
             /\ c \in killed' /\ c \notin killed =>
                  conn'[c].driver /\ conn'[c].fd # "none" /\ ~Held(c)'
  <2>1. conn[c].fd # "none" => conn'[c].fd # "none"
    BY <1>3 DEF Alike
  <2>2. conn'[c].driver => H2(conn'[c])
    BY <1>3, AlikeSession DEF DriverInv
  <2> QED BY <1>3, <2>1, <2>2
<1>4. CASE Connects(u, k, valid)
  <2>1. \A c \in Conns : Kept(c)
    BY <1>4 DEF Connects, Dropped
  <2>2. Drives
    <3> HIDE DEF Kept
    <3> QED BY <1>1, <1>2, <1>3, <2>1 DEF Drives
  <2> QED BY <2>2, Driving
<1>5. ASSUME NEW x \in Conns, Started(conn, u, x),
             H1(conn[x]) \/ (H2(conn[x]) /\ is_valid(x) /\ h2_session'[k] = x)
      PROVE  DriverInv'
  <2>1. \A c \in Conns : c # x => Kept(c)
    BY <1>5 DEF Started
  <2>2. conn[x] \in Sessions /\ conn'[x] = Begun(conn[x])
    BY <1>5 DEF Started, TypeInv
  <2>3. /\ conn'[x].ver = conn[x].ver /\ conn'[x].fd = conn[x].fd
        /\ conn'[x].goaway = conn[x].goaway /\ conn'[x].asked = conn[x].asked
        /\ conn'[x].should_close_ = conn[x].should_close_
        /\ conn[x].ver = "h1" => conn'[x].driver = conn[x].driver
    <3> PICK s \in Sessions : s = conn[x]
      BY <2>2
    <3> PICK b : b = Begun(s)
      OBVIOUS
    <3>1. /\ b.ver = s.ver /\ b.fd = s.fd /\ b.goaway = s.goaway /\ b.asked = s.asked
          /\ b.should_close_ = s.should_close_ /\ (s.ver = "h1" => b.driver = s.driver)
      BY BegunSession
    <3> QED BY <2>2, <3>1
  <2>4. ~(x \in killed' /\ x \notin killed)
    BY <1>5 DEF Started
  <2>5. CASE H1(conn[x])
    <3>1. ~conn[x].driver
      BY <2>5 DEF DriverInv, H1, H2
    <3>2. ~conn'[x].driver
      BY <2>3, <2>5, <3>1 DEF H1
    <3>3. Drives
      <4> HIDE DEF Kept
      <4> QED BY <1>1, <1>2, <1>3, <2>1, <2>3, <2>4, <3>2 DEF Drives
    <3> QED BY <3>3, Driving
  <2>6. CASE H2(conn[x]) /\ is_valid(x) /\ h2_session'[k] = x
    <3>1. H2(conn'[x])
      BY <2>3, <2>6 DEF H2
    <3>2. ~conn'[x].should_close_
      BY <2>3, <2>6 DEF H2, is_valid
    <3>3. Pooled(x)'
      BY <2>6, <3>2 DEF Pooled
    <3>4. Drives
      <4> HIDE DEF Kept
      <4> QED BY <1>1, <1>2, <1>3, <2>1, <2>3, <2>4, <3>1, <3>3 DEF Drives
    <3> QED BY <3>4, Driving
  <2> QED BY <1>5, <2>5, <2>6
<1>6. CASE AcquiredH2(u, k, valid)
  <2> PICK h \in Conns : h = h2_session[k] /\ is_valid(h) /\ h2_session'[k] = h
                         /\ Started(conn, u, h)
    BY <1>6 DEF AcquiredH2
  <2>1. H2(conn[h])
    BY NoneAssumption DEF ExchangeInv
  <2> QED BY <1>5, <2>1
<1>7. CASE AcquiredH1(u, k, valid)
  <2>1. valid \in Seq(Conns) /\ Part(valid, h1_idle[k]) /\ valid # <<>>
    BY <1>7 DEF Acquired, AcquiredH1
  <2>2. 1 \in DOMAIN valid /\ Head(valid) = valid[1]
    BY <2>1, TailSeq
  <2>3. PICK i \in DOMAIN h1_idle[k] : valid[1] = h1_idle[k][i]
    BY <2>1, <2>2 DEF Part
  <2>4. Head(valid) \in Conns /\ H1(conn[Head(valid)])
    BY <2>2, <2>3, Basics DEF ExchangeInv
  <2> QED BY <1>5, <1>7, <2>4 DEF AcquiredH1
<1> QED BY <1>4, <1>6, <1>7 DEF Acquired

\* A new HTTP/2 session goes into its group before its driver is started, and the
\* session it displaces is in let_go; it is in let_go itself when the group is gone.
LEMMA DriverConnected ==
  ASSUME Base, TypeInv', DriverInv, NEW u \in Users, NEW c \in Conns,
         NEW ver \in {"h1", "h2"}, Connected(u, c, ver)
  PROVE  DriverInv'
<1> USE DEF Base
<1> PICK next : next = [conn EXCEPT ![c] = NewConn(ver)]
  OBVIOUS
<1>0. ConnectedAs(u, c, ver)
  BY Connecting
<1>1. /\ Started(next, u, c) /\ next[c] = NewConn(ver)
      /\ \A d \in Conns : d # c => next[d] = conn[d]
      /\ conn[c].fd = "none"
      /\ \A l \in Keys : h2_session[l] # None /\ h2_session'[l] # h2_session[l] =>
                           h2_session[l] \in let_go'
      /\ let_go \subseteq let_go'
      /\ user[u].key \in Keys /\ (ver = "h2" => h2_session'[user[u].key] = c \/ c \in let_go')
  BY <1>0 DEF ConnectedAs
<1> PICK s \in Sessions : s = NewConn(ver)
  BY NewSession
<1>2. s.ver = ver /\ s.fd = "open" /\ s.asked = <<>> /\ ~s.driver /\ ~s.should_close_
  BY NewSession
<1>3. conn'[c] = Begun(s)
  BY <1>1 DEF Started
<1>4. /\ conn'[c].ver = ver /\ conn'[c].fd = "open" /\ conn'[c].asked = <<>>
      /\ ~conn'[c].should_close_ /\ (ver = "h1" => ~conn'[c].driver)
  <2> PICK b : b = Begun(s)
    OBVIOUS
  <2>1. /\ b.ver = s.ver /\ b.fd = s.fd /\ b.asked = s.asked
        /\ b.should_close_ = s.should_close_ /\ (s.ver = "h1" => b.driver = s.driver)
    BY BegunSession
  <2>2. conn'[c] = b
    BY <1>3
  <2> QED BY <1>2, <2>1, <2>2
<1>5. ~(c \in killed' /\ c \notin killed)
  BY <1>1 DEF Started
<1>6. conn'[c].driver => H2(conn'[c])
  BY <1>4 DEF H2
<1>7. ASSUME conn'[c].driver, c \notin let_go' PROVE Pooled(c)'
  <2>2. ver = "h2"
    BY <1>4, <1>7
  <2>3. h2_session'[user[u].key] = c /\ user[u].key \in Keys
    BY <1>1, <1>7, <2>2
  <2> QED BY <1>4, <2>3 DEF Pooled
<1>8. ASSUME NEW d \in Conns, d # c
      PROVE  /\ Alike(conn[d], conn'[d]) /\ conn'[d].driver = conn[d].driver
             /\ conn'[d].goaway = conn[d].goaway
             /\ Held(d)' => conn'[d] = conn[d]
             /\ d \in killed' /\ d \notin killed =>
                  conn[d].driver /\ conn[d].fd # "none" /\ ~Held(d)'
  <2>1. next[d] = conn[d]
    BY <1>1, <1>8
  <2>2. /\ Alike(next[d], conn'[d]) /\ conn'[d].driver = next[d].driver
        /\ conn'[d].goaway = next[d].goaway /\ (Held(d)' => conn'[d] = next[d])
        /\ d \in killed' /\ d \notin killed =>
             next[d].driver /\ next[d].fd # "none" /\ ~Held(d)'
    BY <1>1, <1>8 DEF Started
  <2> QED BY <2>1, <2>2
<1>9. ASSUME NEW d \in Conns, d # c
      PROVE  /\ conn'[d].driver => H2(conn'[d])
             /\ conn[d].fd # "none" =>
                  conn'[d].fd # "none" /\ (conn[d].goaway => conn'[d].goaway)
             /\ d \in killed' /\ d \notin killed =>
                  conn'[d].driver /\ conn'[d].fd # "none" /\ ~Held(d)'
  <2>1. conn[d].fd # "none" => conn'[d].fd # "none"
    BY <1>8, <1>9 DEF Alike
  <2>2. conn'[d].driver => H2(conn'[d])
    BY <1>8, <1>9, AlikeSession DEF DriverInv
  <2> QED BY <1>8, <1>9, <2>1, <2>2
<1>10. ASSUME NEW d \in Conns, d # c, conn'[d].driver, ~conn'[d].goaway, d \notin let_go'
       PROVE  Pooled(d)'
  <2>1. conn[d].driver /\ ~conn[d].goaway /\ d \notin let_go
    BY <1>1, <1>8, <1>10
  <2>2. Pooled(d)
    BY <1>10, <2>1 DEF DriverInv
  <2> PICK l \in Keys : h2_session[l] = d /\ ~conn[d].should_close_
    BY <2>2 DEF Pooled
  <2>3. h2_session'[l] = d
    BY <1>1, <1>10, NoneAssumption
  <2>4. Held(d)'
    BY <2>3 DEF Held
  <2>5. ~conn'[d].should_close_
    BY <1>8, <1>10, <2>4
  <2> QED BY <2>3, <2>5 DEF Pooled
<1>11. Drives
  BY <1>1, <1>4, <1>5, <1>6, <1>7, <1>9, <1>10 DEF Drives
<1> QED BY <1>11, Driving

\* DriverInv holds at the start and is preserved by every step.
LEMMA DriverInit == Init => DriverInv
<1> SUFFICES ASSUME Init PROVE DriverInv
  OBVIOUS
<1>1. \A c \in Conns : conn[c] = NoConn
  BY DEF Init
<1>2. ~NoConn.driver
  BY DEF NoConn
<1>3. killed = {}
  BY DEF Init
<1> QED BY <1>1, <1>2, <1>3 DEF DriverInv, DriverOutlived

LEMMA DriverStep == Base /\ DriverInv /\ [Next]_vars => DriverInv'
<1> SUFFICES ASSUME Base, DriverInv, [Next]_vars PROVE DriverInv'
  OBVIOUS
<1>1. TypeInv'
  BY BaseStep DEF Base
<1>2. ASSUME NEW x \in Conns PROVE conn[x] \in Sessions
  BY DEF Base, TypeInv
<1>3. ASSUME h2_session' = h2_session, let_go' = let_go, conn' = conn, killed' = killed
      PROVE  DriverInv'
  <2>1. \A c \in Conns : DriverKept(c)
    BY <1>3, AlikeRefl DEF DriverKept
  <2> QED BY <1>1, <1>3, <2>1, KeepingDriver DEF Base
<1>4. ASSUME NEW u \in Users, BodyFailed(u) PROVE DriverInv'
  <2>1. user[u].pc = "body" /\ user[u].pc \in H1Pcs
    BY <1>4 DEF BodyFailed, H1Pcs
  <2> PICK x \in Conns : x = user[u].conn
    BY <2>1, Basics DEF Base
  <2> PICK t : t = [conn[x] EXCEPT !.fd = "closed"]
    OBVIOUS
  <2>2. t \in Sessions /\ t.fd = "closed"
    BY <1>2, CloseSession
  <2>3. t.driver = conn[x].driver /\ t.goaway = conn[x].goaway
    BY <1>2 DEF Sessions
  <2>4. /\ conn' = [conn EXCEPT ![x] = t] /\ h2_session' = h2_session
        /\ let_go' = let_go /\ killed' = killed
    BY <1>4 DEF BodyFailed, pool
  <2>5. ConnSet(x, t)
    BY <2>2, <2>4, SetConn DEF Base
  <2>6. H1(conn[x])
    BY <2>1 DEF Base, ExchangeInv, UserAt
  <2>7. t.fd # "none"
    BY <2>2
  <2> QED BY <1>1, <2>3, <2>4, <2>5, <2>6, <2>7, DriverServed
<1>5. ASSUME NEW u \in Users, Client(u) PROVE DriverInv'
  <2>1. ASSUME ConnectFailed(u) \/ RequestFailed(u) \/ H2Headers(u) PROVE DriverInv'
    BY <1>3, <2>1 DEF ConnectFailed, RequestFailed, H2Headers, pool
  <2>2. ASSUME DropResponse(u) \/ H2Done(u) PROVE DriverInv'
    BY <1>1, <2>2, DriverDropped DEF DropResponse, H2Done, pool
  <2>3. ASSUME WriteDone(u) \/ ReadHead(u) \/ BodyFull(u) \/ ReadBody(u) PROVE DriverInv'
    BY <1>1, <2>3, Working, DriverWorks
  <2>4. ASSUME NEW k \in Keys, Acquire(u, k) PROVE DriverInv'
    BY <1>1, <2>4, DriverAcquire
  <2>5. ASSUME NEW c \in Conns, NEW ver \in {"h1", "h2"}, Connected(u, c, ver)
        PROVE  DriverInv'
    BY <1>1, <2>5, DriverConnected
  <2>6. ASSUME NEW c \in Conns, GivenUp(u, c) PROVE DriverInv'
    <3>1. /\ conn[c].fd = "none" /\ h2_session' = h2_session /\ let_go' = let_go
          /\ killed' = killed /\ conn' = [conn EXCEPT ![c] = NewConn("h1")]
      BY <2>6 DEF GivenUp
    <3> PICK s \in Sessions : s = NewConn("h1")
      BY NewSession
    <3>2. ConnSet(c, s) /\ ~s.driver
      BY <3>1, SetConn, NewSession DEF Base
    <3>3. ASSUME NEW d \in Conns PROVE DriverKept(d)
      <4>1. CASE d = c
        BY <3>1, <3>2, <4>1 DEF DriverKept, ConnSet
      <4>2. CASE d # c
        <5>1. conn'[d] = conn[d]
          BY <3>2, <4>2 DEF ConnSet
        <5> QED BY <3>1, <5>1, AlikeRefl DEF DriverKept
      <4> QED BY <4>1, <4>2
    <3> QED BY <1>1, <3>1, <3>3, KeepingDriver DEF Base
  <2> QED BY <1>4, <1>5, <2>1, <2>2, <2>3, <2>4, <2>5, <2>6
          DEF Client, ProxyRefused, HandshakeFailed
<1>6. CASE CloseAsync \/ CloseJoined \/ DestroyPool
  BY <1>1, <1>6, CloseAsyncStep, CloseJoinedStep, DestroyPoolStep, DriverClosed
<1>7. ASSUME NEW c \in Conns, NEW t \in Sessions, conn' = [conn EXCEPT ![c] = t],
             UNCHANGED <<pool, killed>>
      PROVE  /\ ConnSet(c, t) /\ h2_session' = h2_session /\ let_go' = let_go
             /\ killed' = killed
  BY <1>7, SetConn DEF pool, Base
<1>8. ASSUME NEW c \in Conns, GoAway(c) PROVE DriverInv'
  <2> PICK t : t = [conn[c] EXCEPT !.goaway = TRUE]
    OBVIOUS
  <2>1. /\ t \in Sessions /\ Alike(conn[c], t) /\ t.fd = conn[c].fd
        /\ t.goaway /\ t.driver = conn[c].driver
    BY <1>2, FlagSession
  <2>2. /\ ConnSet(c, t) /\ h2_session' = h2_session /\ let_go' = let_go
        /\ killed' = killed
    BY <1>7, <1>8, <2>1 DEF GoAway
  <2>3. conn[c].driver /\ H2(conn[c])
    BY <1>8 DEF GoAway, DriverInv
  <2>4. t.fd # "none"
    BY <2>1, <2>3 DEF H2
  <2> QED BY <1>1, <2>1, <2>2, <2>3, <2>4, DriverOne
<1>9. ASSUME NEW c \in Conns, DriverEnds(c) PROVE DriverInv'
  <2> PICK t : t = [conn[c] EXCEPT !.driver = FALSE, !.should_close_ = TRUE]
    OBVIOUS
  <2>1. /\ t \in Sessions /\ Alike(conn[c], t) /\ t.fd = conn[c].fd
        /\ t.goaway = conn[c].goaway /\ ~t.driver
    BY <1>2, FlagSession
  <2>2. /\ ConnSet(c, t) /\ h2_session' = h2_session /\ let_go' = let_go
        /\ killed' = killed
    BY <1>7, <1>9, <2>1 DEF DriverEnds
  <2>3. H2(conn[c])
    BY <1>9 DEF DriverEnds, DriverInv
  <2>4. t.fd # "none"
    BY <2>1, <2>3 DEF H2
  <2> QED BY <1>1, <2>1, <2>2, <2>4, DriverOne
<1>10. ASSUME NEW c \in Conns, PeerCloses(c) PROVE DriverInv'
  <2> PICK t : t = [conn[c] EXCEPT !.peer = "gone"]
    OBVIOUS
  <2>1. /\ t \in Sessions /\ Alike(conn[c], t) /\ t.fd = conn[c].fd
        /\ t.goaway = conn[c].goaway /\ t.driver = conn[c].driver
        /\ t.should_close_ = conn[c].should_close_
    BY <1>2, FlagSession
  <2>2. /\ ConnSet(c, t) /\ h2_session' = h2_session /\ let_go' = let_go
        /\ killed' = killed
    BY <1>7, <1>10, <2>1 DEF PeerCloses
  <2>3. t.fd # "none"
    BY <1>10, <2>1 DEF PeerCloses
  <2> QED BY <1>1, <2>1, <2>2, <2>3, DriverOne
<1>11. ASSUME NEW c \in Conns, PeerAnswers(c) PROVE DriverInv'
  <2>1. PICK t \in {SendHead(conn[c]), SendBody(conn[c])} : conn' = [conn EXCEPT ![c] = t]
    BY <1>11 DEF PeerAnswers, SendHead, SendBody
  <2>2. conn[c].asked # <<>> /\ t \in Sessions /\ SameLife(conn[c], t)
    <3> PICK s \in Sessions : s = conn[c]
      BY <1>2
    <3>1. s.asked # <<>> /\ t \in {SendHead(s), SendBody(s)}
      BY <1>11, <2>1 DEF PeerAnswers
    <3> QED BY <3>1, AnswerSession
  <2>3. /\ ConnSet(c, t) /\ h2_session' = h2_session /\ let_go' = let_go
        /\ killed' = killed
    BY <1>7, <1>11, <2>1, <2>2 DEF PeerAnswers
  <2>4. t.fd = conn[c].fd /\ t.driver = conn[c].driver /\ t.goaway = conn[c].goaway
    BY <2>2 DEF SameLife
  <2> QED BY <1>1, <2>2, <2>3, <2>4, DriverServed
<1>12. CASE UNCHANGED vars
  BY <1>3, <1>12 DEF vars
<1> QED BY <1>5, <1>6, <1>8, <1>9, <1>10, <1>11, <1>12 DEF Next

\* The pool keeps an HTTP/2 session alive while its driver runs, unless the peer said
\* GOAWAY or its group let it go.
THEOREM DriverIsOutlived == Spec => []DriverOutlived
<1>1. DriverInv => DriverOutlived
  BY DEF DriverInv
<1> QED BY <1>1, BaseInit, DriverInit, BaseStep, DriverStep, PTL DEF Spec

-----------------------------------------------------------------------------
(* No descriptor is lost silently *)

\* A step in which only x changes its place: every other connection that is alive was
\* so before, and stays where a shared_ptr to it is kept or is recorded as dropped.
CleanMoves(x) ==
  /\ dropped \subseteq dropped'
  /\ x \in Conns /\ Alive(conn'[x]) => Owned(x)'
  /\ \A c \in Conns : c # x /\ Alive(conn'[c]) =>
       /\ Alive(conn[c])
       /\ \A k \in Keys : \A i \in DOMAIN h1_idle[k] : h1_idle[k][i] = c => Owned(c)'
       /\ \A u \in Users : user[u].conn = c => Owned(c)'

\* Such a step preserves NoLeakOnCleanPath.
LEMMA CleanMoving ==
  ASSUME Base, NoLeakOnCleanPath, NEW x, CleanMoves(x)
  PROVE  NoLeakOnCleanPath'
<1>1. ASSUME NEW c \in Conns, Alive(conn'[c]) PROVE Owned(c)'
  <2>1. CASE c = x
    BY <1>1, <2>1 DEF CleanMoves
  <2>2. CASE c # x
    <3>1. Alive(conn[c])
      BY <1>1, <2>2 DEF CleanMoves
    <3>2. Held(c) \/ c \in dropped
      BY <3>1 DEF NoLeakOnCleanPath, Alive
    <3>3. c \in dropped => Owned(c)'
      BY DEF CleanMoves, Owned
    <3>4. ASSUME NEW k \in Keys, h2_session[k] = c PROVE FALSE
      BY <3>1, <3>4, NoneAssumption DEF Base, ExchangeInv, H2, Alive
    <3>5. ASSUME NEW k \in Keys, c \in Range(h1_idle[k]) PROVE Owned(c)'
      <4> PICK i \in DOMAIN h1_idle[k] : c = h1_idle[k][i]
        BY <3>5 DEF Range
      <4> QED BY <1>1, <2>2 DEF CleanMoves
    <3>6. ASSUME NEW u \in Users, user[u].conn = c PROVE Owned(c)'
      BY <1>1, <2>2, <3>6 DEF CleanMoves
    <3> QED BY <3>2, <3>3, <3>4, <3>5, <3>6 DEF Held
  <2> QED BY <2>1, <2>2
<1> QED BY <1>1 DEF NoLeakOnCleanPath, Owned, Alive

\* Where a session is held: in h1_idle, or in the hands of a coroutine.
LEMMA HeldIdle ==
  \A k \in Keys : \A i \in DOMAIN h1_idle'[k] : \A c : h1_idle'[k][i] = c => Owned(c)'
  BY DEF Owned, Held, Range
LEMMA HeldUser == \A u \in Users : \A c : user'[u].conn = c => Owned(c)'
  BY DEF Owned, Held

\* No connection comes to life.
LivesOn(c) ==
  /\ conn'[c].ver = conn[c].ver
  /\ conn[c].ver = "h1" => /\ conn'[c].fd = "open" => conn[c].fd = "open"
                           /\ conn'[c].peer = "up" => conn[c].peer = "up"
LEMMA LivingOn == ASSUME NEW c, LivesOn(c), Alive(conn'[c]) PROVE Alive(conn[c])
  BY DEF LivesOn, Alive

\* The idle sessions stay, and every coroutine keeps its HTTP/1 session or drops it.
LEMMA CleanSame ==
  ASSUME Base, NoLeakOnCleanPath, h1_idle' = h1_idle, dropped \subseteq dropped',
         \A c \in Conns : LivesOn(c),
         \A u \in Users : user[u].pc \in H1Pcs =>
           user'[u].conn = user[u].conn \/ user[u].conn \in dropped'
  PROVE  NoLeakOnCleanPath'
<1>1. ASSUME NEW c \in Conns, Alive(conn'[c]), NEW u \in Users, user[u].conn = c
      PROVE  Owned(c)'
  <2>1. user[u].pc \in H1Pcs \cup H2Pcs
    BY <1>1, Basics DEF Base, Pcs
  <2>2. Alive(conn[c])
    BY <1>1, LivingOn
  <2>3. user[u].pc \notin H2Pcs
    BY <1>1, <2>2 DEF Base, ExchangeInv, UserAt, H2, Alive
  <2>4. user'[u].conn = c \/ c \in dropped'
    BY <1>1, <2>1, <2>3
  <2> QED BY <2>4, HeldUser DEF Owned
<1>2. \A k \in Keys : \A i \in DOMAIN h1_idle[k] : \A c : h1_idle[k][i] = c => Owned(c)'
  BY HeldIdle
<1>3. \A c \in Conns : Alive(conn'[c]) => Alive(conn[c])
  BY LivingOn
<1>4. CleanMoves(None)
  BY <1>1, <1>2, <1>3, NoneAssumption DEF CleanMoves
<1> QED BY <1>4, CleanMoving

\* The steps of an HTTP/1 exchange: a session that is not kept is put into h1_idle or
\* closed, or the peer has closed it.
LEMMA CleanWorks ==
  ASSUME Base, NoLeakOnCleanPath, NEW u \in Users, NEW s, Works(u, s)
  PROVE  NoLeakOnCleanPath'
<1> USE DEF Base
<1>1. /\ user[u].pc \in H1Pcs /\ s \in Sessions /\ SameLife(conn[user[u].conn], s)
      /\ dropped' = dropped
  BY DEF Works
<1> PICK x \in Conns : x = user[u].conn
  BY <1>1, Basics
<1>2. s.ver = conn[x].ver /\ s.fd = conn[x].fd /\ s.peer = conn[x].peer
  BY <1>1 DEF SameLife
<1>4. CASE Keeps(u, s)
  <2>1. /\ ConnSet(x, s) /\ h1_idle' = h1_idle
        /\ \A v \in Users : user'[v].conn = user[v].conn
    BY <1>4 DEF Keeps
  <2>2. ASSUME NEW c \in Conns PROVE LivesOn(c)
    <3>1. CASE c = x
      BY <1>2, <2>1, <3>1 DEF LivesOn, ConnSet
    <3>2. CASE c # x
      BY <2>1, <3>2 DEF LivesOn, ConnSet
    <3> QED BY <3>1, <3>2
  <2> QED BY <1>1, <2>1, <2>2, CleanSame
<1>5. CASE Consumed(u, s) /\ (Quiet(s) \/ s.peer = "gone")
  <2>1. PICK t : Released(u, s, t)
    BY <1>1, <1>5, Releasing
  <2>2. /\ UserSet(u, Idle) /\ ConnSet(x, t) /\ t.peer = s.peer
        /\ t.fd = "open" => s.fd = "open"
    BY <2>1 DEF Released
  <2>3. conn'[x] = t /\ \A c \in Conns : c # x => conn'[c] = conn[c]
    BY <2>2 DEF ConnSet
  <2>4. ASSUME NEW c \in Conns, c # x, NEW v \in Users, user[v].conn = c PROVE Owned(c)'
    <3>1. user'[v] = user[v]
      BY <2>2, <2>4 DEF UserSet
    <3> QED BY <2>4, <3>1, HeldUser
  <2>5. CASE h1_idle' = h1_idle /\ ~Alive(t)
    <3>1. \A k \in Keys : \A i \in DOMAIN h1_idle[k] : \A c : h1_idle[k][i] = c => Owned(c)'
      BY <2>5, HeldIdle
    <3>2. CleanMoves(x)
      BY <1>1, <2>3, <2>4, <2>5, <3>1 DEF CleanMoves
    <3> QED BY <3>2, CleanMoving
  <2>6. CASE h1_idle' = [h1_idle EXCEPT ![user[u].key] = Append(@, x)]
    <3> PICK k \in Keys : k = user[u].key
      BY <1>1, Basics
    <3> PICK q \in Seq(Conns) : q = h1_idle[k]
      BY Basics
    <3> PICK n : n = Len(q) + 1
      OBVIOUS
    <3>1. /\ DOMAIN Append(q, x) = DOMAIN q \cup {n} /\ Append(q, x)[n] = x
          /\ \A i \in DOMAIN q : Append(q, x)[i] = q[i]
      BY SMT
    <3>2. h1_idle'[k] = Append(q, x) /\ \A l \in Keys : l # k => h1_idle'[l] = h1_idle[l]
      BY <2>6 DEF TypeInv
    <3>3. ASSUME NEW l \in Keys, NEW i \in DOMAIN h1_idle[l], NEW c, h1_idle[l][i] = c
          PROVE  Owned(c)'
      <4>1. i \in DOMAIN h1_idle'[l] /\ h1_idle'[l][i] = h1_idle[l][i]
        <5>1. CASE l = k
          BY <3>1, <3>2, <5>1
        <5>2. CASE l # k
          BY <3>2, <5>2
        <5> QED BY <5>1, <5>2
      <4> QED BY <3>3, <4>1, HeldIdle
    <3>4. Owned(x)'
      <4>1. n \in DOMAIN h1_idle'[k] /\ h1_idle'[k][n] = x
        BY <3>1, <3>2
      <4> QED BY <4>1, HeldIdle
    <3>5. CleanMoves(x)
      BY <1>1, <2>3, <2>4, <3>3, <3>4 DEF CleanMoves
    <3> QED BY <3>5, CleanMoving
  <2>7. s.unread = <<>> \/ s.peer = "gone"
    BY <1>5 DEF Quiet
  <2>8. \/ h1_idle' = h1_idle /\ ~Alive(t)
        \/ h1_idle' = [h1_idle EXCEPT ![user[u].key] = Append(@, x)]
    <3>1. \/ h1_idle' = [h1_idle EXCEPT ![user[u].key] = Append(@, x)]
          \/ /\ h1_idle' = h1_idle
             /\ t.fd = "open" => ~(s.fd = "open" /\ s.unread = <<>> /\ s.peer = "up")
      BY <2>1 DEF Released
    <3> QED BY <2>2, <2>7, <3>1 DEF Alive
  <2> QED BY <2>5, <2>6, <2>8
<1> QED BY <1>4, <1>5 DEF Works

\* An idle session passes is_valid while both ends are open, so that acquire_session
\* drops no live one.
LEMMA CleanAcquire ==
  ASSUME Base, NoLeakOnCleanPath, NEW u \in Users, NEW k \in Keys, Acquire(u, k)
  PROVE  NoLeakOnCleanPath'
<1> USE DEF Base
<1>1. user[u].pc = "idle" /\ \E valid : Acquired(u, k, valid)
  BY Acquiring
<1> PICK valid : Acquired(u, k, valid)
  BY <1>1
<1>2. /\ valid \in Seq(Conns) /\ dropped' = dropped
      /\ \A l \in Keys : l # k => h1_idle'[l] = h1_idle[l]
  BY DEF Acquired
<1>3. ASSUME NEW i \in DOMAIN h1_idle[k], Alive(conn[h1_idle[k][i]])
      PROVE  \E j \in DOMAIN valid : valid[j] = h1_idle[k][i]
  <2> PICK c \in Conns : c = h1_idle[k][i]
    BY Basics
  <2>1. Quiet(conn[c])
    BY DEF ExchangeInv
  <2>2. is_valid(c)
    BY <1>3, <2>1 DEF is_valid, is_alive, Alive, Quiet
  <2> QED BY <2>2 DEF Acquired
<1>4. user[u].conn = None
  BY <1>1, Basics
<1>6. ASSUME \A c \in Conns : LivesOn(c), \A v \in Users : v # u => user'[v] = user[v],
             \A c : (\E i \in DOMAIN valid : valid[i] = c) => Owned(c)'
      PROVE  NoLeakOnCleanPath'
  <2>0. \A c \in Conns : Alive(conn'[c]) => Alive(conn[c])
    BY <1>6, LivingOn
  <2>1. ASSUME NEW c \in Conns, Alive(conn'[c]), NEW l \in Keys, NEW i \in DOMAIN h1_idle[l],
               h1_idle[l][i] = c
        PROVE  Owned(c)'
    <3>1. CASE l = k
      <4>1. PICK j \in DOMAIN valid : valid[j] = c
        BY <1>3, <2>0, <2>1, <3>1
      <4> QED BY <1>6, <4>1
    <3>2. CASE l # k
      <4>1. h1_idle'[l] = h1_idle[l]
        BY <1>2, <3>2
      <4>2. i \in DOMAIN h1_idle'[l] /\ h1_idle'[l][i] = c
        BY <2>1, <4>1
      <4> QED BY <4>2, HeldIdle
    <3> QED BY <3>1, <3>2
  <2>4. ASSUME NEW c \in Conns, NEW v \in Users, user[v].conn = c PROVE Owned(c)'
    <3>1. v # u
      BY <1>4, <2>4, NoneAssumption
    <3>2. user'[v].conn = c
      BY <1>6, <2>4, <3>1
    <3> QED BY <3>2, HeldUser
  <2>5. CleanMoves(None)
    BY <1>2, <2>0, <2>1, <2>4, NoneAssumption DEF CleanMoves
  <2> QED BY <2>5, CleanMoving
<1>7. ASSUME h1_idle'[k] = valid, NEW c, NEW i \in DOMAIN valid, valid[i] = c
      PROVE  Owned(c)'
  BY <1>7, HeldIdle
<1>8. ASSUME NEW x \in Conns, Started(conn, u, x)
      PROVE  /\ \A c \in Conns : LivesOn(c)
             /\ \A v \in Users : v # u => user'[v] = user[v]
             /\ user'[u].conn = x
  <2>1. ASSUME NEW c \in Conns PROVE LivesOn(c)
    <3>1. CASE c = x
      <4> PICK s \in Sessions : s = conn[x]
        BY DEF TypeInv
      <4>1. Begun(s).ver = s.ver /\ Begun(s).fd = s.fd /\ Begun(s).peer = s.peer
        BY BegunSession
      <4>2. conn'[x] = Begun(s)
        BY <1>8 DEF Started
      <4> QED BY <3>1, <4>1, <4>2 DEF LivesOn
    <3>2. CASE c # x
      <4>1. /\ Alike(conn[c], conn'[c]) /\ conn'[c].peer = conn[c].peer
            /\ conn[c].ver = "h1" => conn'[c] = conn[c]
        BY <1>8, <3>2 DEF Started
      <4> QED BY <4>1 DEF LivesOn, Alike
    <3> QED BY <3>1, <3>2
  <2> QED BY <1>8, <2>1 DEF Started
<1>9. CASE AcquiredH2(u, k, valid)
  <2> PICK h \in Conns : h1_idle'[k] = valid /\ Started(conn, u, h)
    BY <1>9 DEF AcquiredH2
  <2> QED BY <1>6, <1>7, <1>8
<1>10. CASE Connects(u, k, valid)
  <2>1. h1_idle'[k] = valid /\ Dropped(conn) /\ \A v \in Users : v # u => user'[v] = user[v]
    BY <1>10 DEF Connects, UserSet
  <2>2. ASSUME NEW c \in Conns PROVE LivesOn(c)
    <3>1. /\ Alike(conn[c], conn'[c]) /\ conn'[c].peer = conn[c].peer
          /\ conn[c].ver = "h1" => conn'[c] = conn[c]
      BY <2>1 DEF Dropped
    <3> QED BY <3>1 DEF LivesOn, Alike
  <2> QED BY <1>6, <1>7, <2>1, <2>2
<1>11. CASE AcquiredH1(u, k, valid)
  <2>1. valid # <<>> /\ h1_idle'[k] = Tail(valid) /\ Started(conn, u, Head(valid))
    BY <1>11 DEF AcquiredH1
  <2>2. /\ 1 \in DOMAIN valid /\ Head(valid) = valid[1]
        /\ \A i \in DOMAIN valid : i = 1 \/ \E j \in DOMAIN Tail(valid) : Tail(valid)[j] = valid[i]
    BY <1>2, <2>1, TailSeq
  <2>3. Head(valid) \in Conns
    BY <1>2, <2>1, SMT
  <2>4. ASSUME NEW c, NEW i \in DOMAIN valid, valid[i] = c PROVE Owned(c)'
    <3>1. CASE i = 1
      <4>1. user'[u].conn = c
        BY <1>8, <2>1, <2>2, <2>3, <2>4, <3>1
      <4> QED BY <4>1, HeldUser
    <3>2. CASE i # 1
      <4>1. PICK j \in DOMAIN Tail(valid) : Tail(valid)[j] = valid[i]
        BY <2>2, <3>2
      <4> QED BY <2>1, <2>4, <4>1, HeldIdle
    <3> QED BY <3>1, <3>2
  <2>6. /\ \A c \in Conns : LivesOn(c)
        /\ \A v \in Users : v # u => user'[v] = user[v]
    BY <1>8, <2>1, <2>3
  <2> QED BY <1>6, <2>4, <2>6
<1> QED BY <1>9, <1>10, <1>11 DEF Acquired

\* A new connection is in the hands of the coroutine that made it.
LEMMA CleanConnected ==
  ASSUME Base, NoLeakOnCleanPath, NEW u \in Users, NEW c \in Conns,
         NEW ver \in {"h1", "h2"}, Connected(u, c, ver)
  PROVE  NoLeakOnCleanPath'
<1> USE DEF Base
<1> PICK next : next = [conn EXCEPT ![c] = NewConn(ver)]
  OBVIOUS
<1>0. ConnectedAs(u, c, ver)
  BY Connecting
<1>1. /\ Started(next, u, c) /\ next[c] = NewConn(ver)
      /\ \A d \in Conns : d # c => next[d] = conn[d]
      /\ h1_idle' = h1_idle /\ user[u].pc = "connect" /\ dropped' = dropped
  BY <1>0 DEF ConnectedAs
<1>3. Owned(c)'
  <2>1. user'[u].conn = c
    BY <1>1 DEF Started
  <2> QED BY <2>1, HeldUser
<1>4. ASSUME NEW d \in Conns, d # c, Alive(conn'[d]) PROVE Alive(conn[d])
  <2>1. next[d] = conn[d]
    BY <1>1, <1>4
  <2>2. /\ Alike(next[d], conn'[d]) /\ conn'[d].peer = next[d].peer
        /\ next[d].ver = "h1" => conn'[d] = next[d]
    BY <1>1, <1>4 DEF Started
  <2>3. LivesOn(d)
    BY <2>1, <2>2 DEF LivesOn, Alike
  <2> QED BY <1>4, <2>3, LivingOn
<1>6. \A k \in Keys : \A i \in DOMAIN h1_idle[k] : \A d : h1_idle[k][i] = d => Owned(d)'
  BY <1>1, HeldIdle
<1>7. ASSUME NEW d \in Conns, NEW v \in Users, user[v].conn = d PROVE Owned(d)'
  <2>1. user[u].conn = None
    BY <1>1, Basics
  <2>2. v # u
    BY <1>7, <2>1, NoneAssumption
  <2>3. user'[v].conn = d
    BY <1>1, <1>7, <2>2 DEF Started
  <2> QED BY <2>3, HeldUser
<1>8. CleanMoves(c)
  BY <1>1, <1>3, <1>4, <1>6, <1>7 DEF CleanMoves
<1> QED BY <1>8, CleanMoving

\* A connection that is given up is recorded as dropped.
LEMMA CleanGivenUp ==
  ASSUME Base, NoLeakOnCleanPath, NEW u \in Users, NEW c \in Conns, GivenUp(u, c)
  PROVE  NoLeakOnCleanPath'
<1>1. /\ h1_idle' = h1_idle /\ dropped' = dropped \cup {c} /\ user[u].pc = "connect"
      /\ conn' = [conn EXCEPT ![c] = NewConn("h1")] /\ user' = [user EXCEPT ![u] = Idle]
  BY DEF GivenUp
<1>2. \A d \in Conns : d # c => conn'[d] = conn[d]
  BY <1>1 DEF Base, TypeInv
<1>3. Owned(c)'
  BY <1>1 DEF Owned
<1>4. \A k \in Keys : \A i \in DOMAIN h1_idle[k] : \A d : h1_idle[k][i] = d => Owned(d)'
  BY <1>1, HeldIdle
<1>5. ASSUME NEW d \in Conns, NEW v \in Users, user[v].conn = d PROVE Owned(d)'
  <2>1. v # u
    BY <1>1, <1>5, Basics, NoneAssumption DEF Base
  <2>2. user'[v].conn = d
    BY <1>1, <1>5, <2>1 DEF Base, TypeInv
  <2> QED BY <2>2, HeldUser
<1>6. CleanMoves(c)
  BY <1>1, <1>2, <1>3, <1>4, <1>5 DEF CleanMoves
<1> QED BY <1>6, CleanMoving

\* A body that fails has its connection closed.
LEMMA CleanBodyFailed ==
  ASSUME Base, NoLeakOnCleanPath, NEW u \in Users, BodyFailed(u)
  PROVE  NoLeakOnCleanPath'
<1> USE DEF Base
<1> PICK x \in Conns : x = user[u].conn
  BY Basics DEF BodyFailed, H1Pcs
<1> PICK t : t = [conn[x] EXCEPT !.fd = "closed"]
  OBVIOUS
<1>1. t \in Sessions /\ t.fd = "closed"
  BY CloseSession, Basics
<1>2. /\ conn' = [conn EXCEPT ![x] = t] /\ user' = [user EXCEPT ![u] = Idle]
      /\ h1_idle' = h1_idle /\ dropped' = dropped
  BY DEF BodyFailed, pool
<1>3. ConnSet(x, t)
  BY <1>1, <1>2, SetConn
<1>4. ~Alive(conn'[x]) /\ \A c \in Conns : c # x => conn'[c] = conn[c]
  BY <1>1, <1>3 DEF Alive, ConnSet
<1>5. \A k \in Keys : \A i \in DOMAIN h1_idle[k] : \A d : h1_idle[k][i] = d => Owned(d)'
  BY <1>2, HeldIdle
<1>6. ASSUME NEW d \in Conns, d # x, NEW v \in Users, user[v].conn = d PROVE Owned(d)'
  <2>1. user'[v] = user[v]
    BY <1>2, <1>6 DEF TypeInv
  <2> QED BY <1>6, <2>1, HeldUser
<1>7. CleanMoves(x)
  BY <1>2, <1>4, <1>5, <1>6 DEF CleanMoves
<1> QED BY <1>7, CleanMoving

\* NoLeakOnCleanPath holds at the start and is preserved by every step.
LEMMA CleanInit == Init => NoLeakOnCleanPath
<1> SUFFICES ASSUME Init PROVE NoLeakOnCleanPath
  OBVIOUS
<1>1. \A c \in Conns : conn[c] = NoConn
  BY DEF Init
<1>2. NoConn.fd = "none"
  BY DEF NoConn
<1> QED BY <1>1, <1>2 DEF NoLeakOnCleanPath

LEMMA CleanStep == Base /\ NoLeakOnCleanPath /\ [Next]_vars => NoLeakOnCleanPath'
<1> SUFFICES ASSUME Base, NoLeakOnCleanPath, [Next]_vars PROVE NoLeakOnCleanPath'
  OBVIOUS
<1>1. ASSUME NEW x \in Conns PROVE conn[x] \in Sessions
  BY DEF Base, TypeInv
<1>2. ASSUME conn' = conn PROVE \A c \in Conns : LivesOn(c)
  BY <1>2 DEF LivesOn
<1>3. CASE CloseAsync \/ CloseJoined \/ DestroyPool
  <2>1. Closes
    BY <1>3, CloseAsyncStep, CloseJoinedStep, DestroyPoolStep
  <2>2. \A u \in Users : \A c \in Conns : user[u].conn = c => Owned(c)'
    BY <2>1, HeldUser DEF Closes
  <2>3. CleanMoves(None)
    BY <2>1, <2>2, NoneAssumption DEF CleanMoves, Closes
  <2> QED BY <2>3, CleanMoving
<1>4. ASSUME DropUnheld(conn) PROVE \A c \in Conns : LivesOn(c)
  <2>1. Dropped(conn)
    BY <1>4, DropSame DEF Base
  <2> QED BY <2>1 DEF LivesOn, Dropped, Alike
<1>5. ASSUME NEW u \in Users, Client(u) PROVE NoLeakOnCleanPath'
  <2>0. ASSUME NEW r, user' = [user EXCEPT ![u] = r],
               user[u].pc \notin H1Pcs \/ user[u].conn \in dropped'
        PROVE  \A v \in Users : user[v].pc \in H1Pcs =>
                 user'[v].conn = user[v].conn \/ user[v].conn \in dropped'
    BY <2>0 DEF Base, TypeInv
  <2>1. CASE ConnectFailed(u)
    <3>1. /\ user' = [user EXCEPT ![u] = Idle] /\ user[u].pc \notin H1Pcs
          /\ dropped' = dropped /\ conn' = conn /\ h1_idle' = h1_idle
      BY <2>1 DEF ConnectFailed, H1Pcs
    <3> QED BY <1>2, <2>0, <3>1, CleanSame
  <2>2. CASE H2Headers(u)
    <3>1. /\ user' = [user EXCEPT ![u].pc = "h2response"]
          /\ dropped' = dropped /\ conn' = conn /\ h1_idle' = h1_idle
      BY <2>2 DEF H2Headers, pool
    <3>2. \A v \in Users : user'[v].conn = user[v].conn
      BY <3>1, SamePlace DEF Base
    <3> QED BY <1>2, <3>1, <3>2, CleanSame
  <2>3. CASE H2Done(u)
    <3>1. /\ user' = [user EXCEPT ![u] = Idle] /\ user[u].pc \notin H1Pcs
          /\ dropped' = dropped /\ h1_idle' = h1_idle /\ DropUnheld(conn)
      BY <2>3 DEF H2Done, H1Pcs, pool
    <3> QED BY <1>4, <2>0, <3>1, CleanSame
  <2>4. CASE DropResponse(u)
    <3>1. /\ user' = [user EXCEPT ![u] = Idle] /\ h1_idle' = h1_idle /\ DropUnheld(conn)
          /\ dropped \subseteq dropped'
          /\ user[u].pc \notin H1Pcs \/ user[u].conn \in dropped'
      BY <2>4 DEF DropResponse, H1Pcs
    <3> QED BY <1>4, <2>0, <3>1, CleanSame
  <2>5. CASE RequestFailed(u)
    <3>1. /\ user' = [user EXCEPT ![u] = Idle] /\ h1_idle' = h1_idle /\ conn' = conn
          /\ dropped \subseteq dropped' /\ user[u].conn \in dropped'
      BY <2>5 DEF RequestFailed, pool
    <3> QED BY <1>2, <2>0, <3>1, CleanSame
  <2>6. CASE WriteDone(u) \/ ReadHead(u) \/ BodyFull(u) \/ ReadBody(u)
    BY <2>6, Working, CleanWorks
  <2> QED BY <1>5, <2>1, <2>2, <2>3, <2>4, <2>5, <2>6, CleanAcquire, CleanConnected,
             CleanGivenUp, CleanBodyFailed DEF Client, ProxyRefused, HandshakeFailed
<1>6. ASSUME NEW c \in Conns, NEW t \in Sessions, conn' = [conn EXCEPT ![c] = t],
             t.fd = conn[c].fd, t.ver = conn[c].ver, t.peer \in {conn[c].peer, "gone"},
             UNCHANGED <<pool, user, dropped>>
      PROVE  NoLeakOnCleanPath'
  <2>1. ConnSet(c, t)
    BY <1>6, SetConn DEF Base
  <2>2. h1_idle' = h1_idle /\ user' = user /\ dropped' = dropped
    BY <1>6 DEF pool
  <2>3. ASSUME NEW d \in Conns PROVE LivesOn(d)
    <3>1. CASE d = c
      BY <1>6, <2>1, <3>1 DEF LivesOn, ConnSet
    <3>2. CASE d # c
      BY <2>1, <3>2 DEF LivesOn, ConnSet
    <3> QED BY <3>1, <3>2
  <2> QED BY <2>2, <2>3, CleanSame
<1>7. ASSUME NEW c \in Conns, GoAway(c) PROVE NoLeakOnCleanPath'
  <2> PICK t : t = [conn[c] EXCEPT !.goaway = TRUE]
    OBVIOUS
  <2>1. t \in Sessions /\ t.ver = conn[c].ver /\ t.fd = conn[c].fd /\ t.peer = conn[c].peer
    BY <1>1, FlagSession DEF Alike
  <2> QED BY <1>6, <1>7, <2>1 DEF GoAway
<1>8. ASSUME NEW c \in Conns, DriverEnds(c) PROVE NoLeakOnCleanPath'
  <2> PICK t : t = [conn[c] EXCEPT !.driver = FALSE, !.should_close_ = TRUE]
    OBVIOUS
  <2>1. t \in Sessions /\ t.ver = conn[c].ver /\ t.fd = conn[c].fd /\ t.peer = conn[c].peer
    BY <1>1, FlagSession DEF Alike
  <2> QED BY <1>6, <1>8, <2>1 DEF DriverEnds
<1>9. ASSUME NEW c \in Conns, PeerAnswers(c) PROVE NoLeakOnCleanPath'
  <2>1. PICK t \in {SendHead(conn[c]), SendBody(conn[c])} : conn' = [conn EXCEPT ![c] = t]
    BY <1>9 DEF PeerAnswers, SendHead, SendBody
  <2>2. t \in Sessions /\ SameLife(conn[c], t)
    <3> PICK s \in Sessions : s = conn[c]
      BY <1>1
    <3>1. s.asked # <<>> /\ t \in {SendHead(s), SendBody(s)}
      BY <1>9, <2>1 DEF PeerAnswers
    <3> QED BY <3>1, AnswerSession
  <2> QED BY <1>6, <1>9, <2>1, <2>2 DEF PeerAnswers, SameLife
<1>10. ASSUME NEW c \in Conns, PeerCloses(c) PROVE NoLeakOnCleanPath'
  <2> PICK t : t = [conn[c] EXCEPT !.peer = "gone"]
    OBVIOUS
  <2>1. t \in Sessions /\ t.ver = conn[c].ver /\ t.fd = conn[c].fd
    BY <1>1, FlagSession DEF Alike
  <2>2. t.peer = "gone"
    BY <1>1 DEF Sessions
  <2> QED BY <1>6, <1>10, <2>1, <2>2 DEF PeerCloses
<1>11. CASE UNCHANGED vars
  BY <1>2, <1>11, CleanSame DEF vars
<1> QED BY <1>3, <1>5, <1>7, <1>8, <1>9, <1>10, <1>11 DEF Next

\* While the peer is there, an open HTTP/1 connection is in use or idle, or one of the
\* paths that drop it without a close was taken: release_h1_session closes what it does
\* not keep, and acquire_session drops only what is dead.
THEOREM CleanPathLeaksNothing == Spec => []NoLeakOnCleanPath
  BY BaseInit, CleanInit, BaseStep, CleanStep, PTL DEF Spec
=============================================================================
