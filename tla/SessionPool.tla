---------------------------- MODULE SessionPool ----------------------------
(***************************************************************************)
(* HttpClient::request, SessionPool and Http1Session of ppnt-http: client  *)
(* coroutines acquire a session for a key, send a request on it, read the  *)
(* response, and the hook of HttpResponse::body_full gives an HTTP/1       *)
(* session back to the pool.  An HTTP/2 session stays in the pool and is   *)
(* shared; Http2Session models its inside, here only its life is kept.     *)
(*                                                                         *)
(* All coroutines run on the loop thread: an action is one coroutine from  *)
(* one co_await that really suspends to the next.  A session is identified *)
(* with its connection.  A response is two parts, its head and its body;   *)
(* one read returns what has arrived of them.                              *)
(***************************************************************************)
EXTENDS Integers, Sequences, Functions

CONSTANTS
  Keys,         \* the session keys, in the order of the map
  Users,        \* client coroutines
  Conns,        \* bound: the connections that can be made
  None,         \* no connection
  MaxIdle,      \* the limit on h1_idle (100 in the code)
  MaxRequests   \* bound: requests of all users together

ASSUME KeysAssumption == Keys \subseteq Nat
ASSUME NoneAssumption == None \notin Conns
ASSUME BoundsAssumption == MaxIdle \in Nat /\ MaxRequests \in Nat

VARIABLES
  h2_session,   \* sessions_[k].h2_session
  h1_idle,      \* sessions_[k].h1_idle
  conn,         \* conn[c]: the session, its connection and the peer's end
  user,         \* user[u]: the coroutine of a request and of its body_full
  requests,     \* requests made
  closer,       \* the coroutine of close_async
  stale,        \* users whose reference into sessions_ was invalidated by clear()
  let_go,       \* history: HTTP/2 sessions their group lost, or never got
  killed,       \* history: HTTP/2 sessions destroyed under their driver
  dropped       \* history: HTTP/1 connections dropped without a close

vars == <<h2_session, h1_idle, conn, user, requests, closer, stale, let_go,
          killed, dropped>>

Parts == [id : 1..MaxRequests, part : {"head", "body"}]

\* A connection that has not been made.
NoConn ==
  [fd |-> "none", ver |-> "h1", peer |-> "up",
   asked |-> <<>>, answering |-> FALSE, unread |-> <<>>,
   headers_complete_ |-> FALSE, message_complete_ |-> FALSE, seen |-> {},
   driver |-> FALSE, should_close_ |-> FALSE, goaway |-> FALSE]

Idle == [pc |-> "idle", key |-> 0, conn |-> None, id |-> 0]

NotClosing == [pc |-> "idle", key |-> 0, conn |-> None]

\* Groups, connections and control states are well formed.
TypeOK ==
  /\ h2_session \in [Keys -> Conns \cup {None}]
  /\ h1_idle \in [Keys -> Seq(Conns)]
  /\ \A c \in Conns :
       /\ conn[c].fd \in {"none", "open", "closed"}
       /\ conn[c].ver \in {"h1", "h2"}
       /\ conn[c].peer \in {"up", "gone"}
       /\ conn[c].asked \in Seq(1..MaxRequests) /\ conn[c].unread \in Seq(Parts)
       /\ conn[c].seen \subseteq 1..MaxRequests
  /\ \A u \in Users :
       /\ user[u].pc \in {"idle", "connect", "write", "head", "response", "body",
                          "h2wait", "h2response"}
       /\ user[u].conn = None <=> user[u].pc \in {"idle", "connect"}
  /\ requests \in 0..MaxRequests
  /\ closer.pc \in {"idle", "join", "done"}
  /\ stale \subseteq Users
  /\ let_go \subseteq Conns /\ killed \subseteq Conns /\ dropped \subseteq Conns

Init ==
  /\ h2_session = [k \in Keys |-> None]
  /\ h1_idle = [k \in Keys |-> <<>>]
  /\ conn = [c \in Conns |-> NoConn]
  /\ user = [u \in Users |-> Idle]
  /\ requests = 0
  /\ closer = NotClosing
  /\ stale = {}
  /\ let_go = {}
  /\ killed = {}
  /\ dropped = {}

-----------------------------------------------------------------------------
(* Sessions.                                                                *)

\* TcpStream::is_alive: open, nothing to read, no end of stream.
is_alive(c) == conn[c].fd = "open" /\ conn[c].unread = <<>> /\ conn[c].peer = "up"

\* AnySession::is_valid.
is_valid(c) ==
  IF conn[c].ver = "h1" THEN is_alive(c)
                        ELSE ~conn[c].should_close_ /\ ~conn[c].goaway

\* A shared_ptr to the session exists: in its group or in a client coroutine.
Held(c) ==
  \/ \E k \in Keys : h2_session[k] = c \/ c \in Range(h1_idle[k])
  \/ \E u \in Users : user[u].conn = c

\* What the last shared_ptr takes with it: ~Http2Session closes the connection,
\* an Http1Session leaves its descriptor open.  A driver that is still running
\* loses the object it works on.
DropUnheld(next) ==
  LET gone == {c \in Conns : next[c].ver = "h2" /\ next[c].fd # "none" /\ ~Held(c)'}
  IN  /\ conn' = [c \in Conns |->
                    IF c \in gone THEN [next[c] EXCEPT !.fd = "closed",
                                                       !.should_close_ = TRUE]
                                  ELSE next[c]]
      /\ killed' = killed \cup {c \in gone : next[c].driver}

\* Bug: response_ and body_buffer_ keep what they hold.
ResetStateFlags(s) ==
  [s EXCEPT !.headers_complete_ = FALSE, !.message_complete_ = FALSE]

\* Http1Session::reset_state.  seen: the responses whose parts are in response_ and
\* body_buffer_.
ResetState(s) ==
  [s EXCEPT !.headers_complete_ = FALSE, !.message_complete_ = FALSE, !.seen = {}]

\* llhttp_execute on the parts of a response.
Execute(s, parts) ==
  [s EXCEPT
     !.headers_complete_ = @ \/ \E i \in DOMAIN parts : parts[i].part = "head",
     !.message_complete_ = @ \/ \E i \in DOMAIN parts : parts[i].part = "body",
     !.seen = @ \cup {parts[i].id : i \in DOMAIN parts}]

Read(c, n) ==
  Execute([conn[c] EXCEPT !.unread = SubSeq(@, n + 1, Len(@))],
          SubSeq(conn[c].unread, 1, n))

\* AnySession::request up to its first co_await: an Http1Session is reset, an
\* Http2Session has its driver started.
Start(next, u, k, c) ==
  /\ requests' = requests + 1
  /\ user' = [user EXCEPT ![u] =
                [pc |-> IF next[c].ver = "h1" THEN "write" ELSE "h2wait",
                 key |-> k, conn |-> c, id |-> requests + 1]]
  /\ DropUnheld([next EXCEPT ![c] =
                   IF @.ver = "h1" THEN ResetState(@) ELSE [@ EXCEPT !.driver = TRUE]])

-----------------------------------------------------------------------------
(* HttpClient::request: acquire_session and request.                        *)

\* std::ranges::remove_if and erase: the sessions of s that are in ok, in their order.
Survivors(s, ok) ==
  LET kept     == {i \in DOMAIN s : s[i] \in ok}
      order(n) == {pos \in [1..n -> kept] :
                     /\ \A i, j \in 1..n : i < j => pos[i] < pos[j]
                     /\ \A p \in kept : \E i \in 1..n : pos[i] = p}
  IN  UNION {{[i \in 1..n |-> s[pos[i]]] : pos \in order(n)} : n \in 0..Len(s)}

\* Invalid sessions are dropped, then the HTTP/2 session is taken, else the oldest
\* idle one, else a connection is made.
Acquire(u, k) ==
  LET h2 == IF h2_session[k] # None /\ is_valid(h2_session[k])
            THEN h2_session[k] ELSE None
  IN  /\ user[u].pc = "idle"
      /\ requests < MaxRequests
      /\ h2_session' = [h2_session EXCEPT ![k] = h2]
      /\ \E valid \in Survivors(h1_idle[k], {c \in Conns : is_valid(c)}) :
           \/ /\ h2 # None
              /\ h1_idle' = [h1_idle EXCEPT ![k] = valid]
              /\ Start(conn, u, k, h2)
           \/ /\ h2 = None /\ valid # <<>>
              /\ h1_idle' = [h1_idle EXCEPT ![k] = Tail(valid)]
              /\ Start(conn, u, k, Head(valid))
           \/ /\ h2 = None /\ valid = <<>>
              /\ h1_idle' = [h1_idle EXCEPT ![k] = valid]
              /\ user' = [user EXCEPT ![u] = [@ EXCEPT !.pc = "connect", !.key = k]]
              /\ DropUnheld(conn)
              /\ UNCHANGED requests
      /\ UNCHANGED <<closer, stale, let_go, dropped>>

NewConn(ver) == [NoConn EXCEPT !.fd = "open", !.ver = ver]

\* Bug: the HTTP/2 session is not put into its group.
ConnectedUnpooled(u, c, ver) ==
  /\ user[u].pc = "connect"
  /\ requests < MaxRequests
  /\ conn[c].fd = "none"
  /\ UNCHANGED <<h1_idle, h2_session, let_go, closer, dropped>>
  /\ Start([conn EXCEPT ![c] = NewConn(ver)], u, user[u].key, c)
  /\ stale' = stale \ {u}

\* session_connect is done.  An HTTP/2 session goes into the group that was looked
\* up before the connect; when clear() has freed it, the store is lost.
Connected(u, c, ver) ==
  LET k      == user[u].key
      stores == ver = "h2" /\ u \notin stale
  IN  /\ user[u].pc = "connect"
      /\ requests < MaxRequests
      /\ conn[c].fd = "none"
      /\ h2_session' = IF stores THEN [h2_session EXCEPT ![k] = c] ELSE h2_session
      /\ let_go' = let_go \cup
           CASE ver = "h1" -> {}
             [] stores     -> {h2_session[k]} \ {None}
             [] OTHER      -> {c}
      /\ UNCHANGED <<h1_idle, closer, dropped>>
      /\ Start([conn EXCEPT ![c] = NewConn(ver)], u, k, c)
      /\ stale' = stale \ {u}

\* No connection: the name, the socket or the TCP connect failed, and connect has
\* closed its descriptor.
ConnectFailed(u) ==
  /\ user[u].pc = "connect"
  /\ user' = [user EXCEPT ![u] = Idle]
  /\ stale' = stale \ {u}
  /\ UNCHANGED <<h2_session, h1_idle, conn, requests, closer, let_go, killed, dropped>>

\* A connection that is made and given up before there is a session: its TcpStream
\* is dropped, which does not close it.
GivenUp(u, c) ==
  /\ user[u].pc = "connect"
  /\ conn[c].fd = "none"
  /\ conn' = [conn EXCEPT ![c] = NewConn("h1")]
  /\ dropped' = dropped \cup {c}
  /\ user' = [user EXCEPT ![u] = Idle]
  /\ stale' = stale \ {u}
  /\ UNCHANGED <<h2_session, h1_idle, requests, closer, let_go, killed>>

\* The proxy does not answer CONNECT with 200.
ProxyRefused(u, c) == GivenUp(u, c)

\* There is no TLS context, or the handshake fails.
HandshakeFailed(u, c) == GivenUp(u, c)

-----------------------------------------------------------------------------
(* Http1Session::request and body_full, HttpResponse::body_full.            *)

pool == <<h2_session, h1_idle, closer, stale, let_go>>

\* The request is written; the peer, if it is still there, has it.
WriteDone(u) ==
  LET c == user[u].conn
  IN  /\ user[u].pc = "write"
      /\ user' = [user EXCEPT ![u].pc = "head"]
      /\ conn' = IF conn[c].peer = "up"
                 THEN [conn EXCEPT ![c].asked = Append(@, user[u].id)] ELSE conn
      /\ UNCHANGED <<pool, requests, killed, dropped>>

\* A write or read fails (an error, a timeout, a response that does not parse):
\* the error is returned and the session goes with the coroutine.
RequestFailed(u) ==
  /\ user[u].pc \in {"write", "head"}
  /\ user' = [user EXCEPT ![u] = Idle]
  /\ dropped' = dropped \cup {user[u].conn}
  /\ UNCHANGED <<pool, conn, requests, killed>>

\* The read loop of request: it ends with the headers, or silently at the end of
\* the stream.
ReadHead(u) ==
  LET c == user[u].conn
  IN  /\ user[u].pc = "head"
      /\ \/ /\ conn[c].unread = <<>> /\ conn[c].peer = "gone"
            /\ user' = [user EXCEPT ![u].pc = "response"]
            /\ UNCHANGED conn
         \/ \E n \in 1..Len(conn[c].unread) :
              /\ conn' = [conn EXCEPT ![c] = Read(c, n)]
              /\ user' = IF Read(c, n).headers_complete_
                         THEN [user EXCEPT ![u].pc = "response"] ELSE user
      /\ UNCHANGED <<pool, requests, killed, dropped>>

\* The response is destroyed without body_full: its hook never runs.
DropResponse(u) ==
  /\ user[u].pc \in {"response", "h2response"}
  /\ user' = [user EXCEPT ![u] = Idle]
  /\ dropped' = dropped \cup (IF user[u].pc = "response" THEN {user[u].conn} ELSE {})
  /\ UNCHANGED <<h2_session, h1_idle, closer, stale, let_go, requests>>
  /\ DropUnheld(conn)

\* Bug: a session over the limit is forgotten.
ReleaseForget(k, c, s) ==
  LET valid == s.fd = "open" /\ s.unread = <<>> /\ s.peer = "up"
  IN  /\ h1_idle' = IF valid /\ Len(h1_idle[k]) < MaxIdle
                    THEN [h1_idle EXCEPT ![k] = Append(@, c)] ELSE h1_idle
      /\ conn' = [conn EXCEPT ![c] = s]

\* release_h1_session of session c in state s: dropped, kept or closed.
Release(k, c, s) ==
  LET valid == s.fd = "open" /\ s.unread = <<>> /\ s.peer = "up"
  IN  IF valid /\ Len(h1_idle[k]) < MaxIdle
      THEN h1_idle' = [h1_idle EXCEPT ![k] = Append(@, c)]
           /\ conn' = [conn EXCEPT ![c] = s]
      ELSE conn' = [conn EXCEPT ![c] = IF valid THEN [s EXCEPT !.fd = "closed"] ELSE s]
           /\ UNCHANGED h1_idle

\* body_full has the whole message, or met the end of the stream: the hook gives
\* the session back.
Consumed(u, s) ==
  /\ user' = [user EXCEPT ![u] = Idle]
  /\ Release(user[u].key, user[u].conn, s)

BodyFull(u) ==
  /\ user[u].pc = "response"
  /\ LET s == conn[user[u].conn]
     IN  IF s.message_complete_
         THEN Consumed(u, s)
         ELSE user' = [user EXCEPT ![u].pc = "body"] /\ UNCHANGED <<h1_idle, conn>>
  /\ UNCHANGED <<h2_session, closer, stale, let_go, requests, killed, dropped>>

ReadBody(u) ==
  LET c == user[u].conn
  IN  /\ user[u].pc = "body"
      /\ \/ conn[c].unread = <<>> /\ conn[c].peer = "gone" /\ Consumed(u, conn[c])
         \/ \E n \in 1..Len(conn[c].unread) :
              IF Read(c, n).message_complete_
              THEN Consumed(u, Read(c, n))
              ELSE conn' = [conn EXCEPT ![c] = Read(c, n)] /\ UNCHANGED <<user, h1_idle>>
      /\ UNCHANGED <<h2_session, closer, stale, let_go, requests, killed, dropped>>

\* Bug: the hook is told that the body was consumed.
BodyFailedReleases(u) ==
  /\ user[u].pc = "body"
  /\ Consumed(u, conn[user[u].conn])
  /\ UNCHANGED <<h2_session, closer, stale, let_go, requests, killed, dropped>>

\* A read of body_full fails: the hook closes the session.
BodyFailed(u) ==
  /\ user[u].pc = "body"
  /\ user' = [user EXCEPT ![u] = Idle]
  /\ conn' = [conn EXCEPT ![user[u].conn].fd = "closed"]
  /\ UNCHANGED <<pool, requests, killed, dropped>>

-----------------------------------------------------------------------------
(* Http2Session, from outside.                                              *)

H2Headers(u) ==
  /\ user[u].pc = "h2wait"
  /\ conn[user[u].conn].driver
  /\ user' = [user EXCEPT ![u].pc = "h2response"]
  /\ UNCHANGED <<pool, conn, requests, killed, dropped>>

\* request failed, or body_full returned.
H2Done(u) ==
  /\ user[u].pc \in {"h2wait", "h2response"}
  /\ user' = [user EXCEPT ![u] = Idle]
  /\ UNCHANGED <<pool, requests, dropped>>
  /\ DropUnheld(conn)

\* The peer announced that it takes no more requests, and none is open: nghttp2
\* wants neither to read nor to write.
GoAway(c) ==
  /\ conn[c].driver /\ conn[c].peer = "up" /\ ~conn[c].goaway
  /\ \A u \in Users : user[u].conn = c => user[u].pc # "h2wait"
  /\ conn' = [conn EXCEPT ![c].goaway = TRUE]
  /\ UNCHANGED <<pool, user, requests, killed, dropped>>

\* The driver's read returns and its loop ends.
DriverEnds(c) ==
  /\ conn[c].driver
  /\ conn[c].should_close_ \/ conn[c].peer = "gone"
  /\ conn' = [conn EXCEPT ![c].driver = FALSE, ![c].should_close_ = TRUE]
  /\ UNCHANGED <<pool, user, requests, killed, dropped>>

-----------------------------------------------------------------------------
(* SessionPool::close_async.                                                *)

\* The HTTP/2 sessions of the groups of ks whose driver runs.
RunningIn(ks) == {c \in {h2_session[k] : k \in ks} \ {None} : conn[c].driver}

\* From group `from` on, with h2 for h2_session: sessions are closed and dropped
\* up to the first HTTP/2 session whose driver must be joined; behind the last
\* group the map is cleared, with what the groups behind got meanwhile.
CloseGroups(h2, from) ==
  LET rest    == {k \in Keys : k >= from}
      joins   == {k \in rest : h2[k] # None /\ conn[h2[k]].driver}
      at      == CHOOSE k \in joins : \A j \in joins : k <= j
      passed  == IF joins = {} THEN rest ELSE {k \in rest : k < at}
      closing == UNION {Range(h1_idle[k]) : k \in passed}
                   \cup {h2[k] : k \in IF joins = {} THEN passed ELSE passed \cup {at}}
      next    == [c \in Conns |->
                    IF c \in closing
                    THEN [conn[c] EXCEPT !.fd = "closed", !.should_close_ = TRUE]
                    ELSE conn[c]]
  IN  /\ IF joins = {}
         THEN /\ h1_idle' = [k \in Keys |-> <<>>]
              /\ h2_session' = [k \in Keys |-> None]
              /\ closer' = [closer EXCEPT !.pc = "done"]
              /\ stale' = {u \in Users : user[u].pc = "connect"}
         ELSE /\ h1_idle' = [k \in Keys |-> IF k \in passed THEN <<>> ELSE h1_idle[k]]
              /\ h2_session' = [k \in Keys |-> IF k \in passed THEN None ELSE h2[k]]
              /\ closer' = [pc |-> "join", key |-> at, conn |-> h2[at]]
              /\ UNCHANGED stale
      /\ let_go' = let_go \cup {c \in RunningIn(Keys) :
                                 c \in closing \/ \A k \in Keys : h2_session'[k] # c}
      /\ dropped' = dropped \cup
           (IF joins = {} THEN UNION {Range(h1_idle[k]) : k \in Keys \ rest} ELSE {})
      /\ UNCHANGED <<user, requests>>
      /\ DropUnheld(next)

CloseAsync ==
  /\ closer.pc = "idle"
  /\ CloseGroups(h2_session, 0)

\* The driver has ended; whatever session the group has now is dropped.
CloseJoined ==
  /\ closer.pc = "join"
  /\ ~conn[closer.conn].driver
  /\ CloseGroups([h2_session EXCEPT ![closer.key] = None], closer.key)

\* The HttpClient is destroyed, without or after close_async, and the pool with it:
\* no request is on its way and no HTTP/1 response is left, whose hook would hold
\* the pool.  What follows is the pool of the next client.
DestroyPool ==
  /\ \A u \in Users : user[u].pc \in {"idle", "h2response"}
  /\ closer.pc # "join"
  /\ h2_session' = [k \in Keys |-> None]
  /\ h1_idle' = [k \in Keys |-> <<>>]
  /\ closer' = NotClosing
  /\ let_go' = let_go \cup RunningIn(Keys)
  /\ dropped' = dropped \cup UNION {Range(h1_idle[k]) : k \in Keys}
  /\ UNCHANGED <<user, requests, stale>>
  /\ DropUnheld(conn)

-----------------------------------------------------------------------------
(* The peer.                                                                *)

\* It answers requests in order, a head and then a body.
PeerAnswers(c) ==
  /\ conn[c].peer = "up" /\ conn[c].asked # <<>>
  /\ LET s  == conn[c]
         id == Head(s.asked)
     IN  conn' = [conn EXCEPT ![c] =
           IF s.answering
           THEN [s EXCEPT !.unread = Append(@, [id |-> id, part |-> "body"]),
                          !.asked = Tail(@), !.answering = FALSE]
           ELSE [s EXCEPT !.unread = Append(@, [id |-> id, part |-> "head"]),
                          !.answering = TRUE]]
  /\ UNCHANGED <<pool, user, requests, killed, dropped>>

PeerCloses(c) ==
  /\ conn[c].fd # "none" /\ conn[c].peer = "up"
  /\ conn' = [conn EXCEPT ![c].peer = "gone"]
  /\ UNCHANGED <<pool, user, requests, killed, dropped>>

-----------------------------------------------------------------------------
Client(u) ==
  \/ \E k \in Keys : Acquire(u, k)
  \/ \E c \in Conns, ver \in {"h1", "h2"} : Connected(u, c, ver)
  \/ ConnectFailed(u)
  \/ \E c \in Conns : ProxyRefused(u, c) \/ HandshakeFailed(u, c)
  \/ WriteDone(u) \/ ReadHead(u) \/ RequestFailed(u) \/ DropResponse(u)
  \/ BodyFull(u) \/ ReadBody(u) \/ BodyFailed(u)
  \/ H2Headers(u) \/ H2Done(u)

Next ==
  \/ \E u \in Users : Client(u)
  \/ CloseAsync \/ CloseJoined \/ DestroyPool
  \/ \E c \in Conns : GoAway(c) \/ DriverEnds(c) \/ PeerAnswers(c) \/ PeerCloses(c)

Spec == Init /\ [][Next]_vars

-----------------------------------------------------------------------------
(* Properties *)

InPool(c) ==
  {p \in Keys \X (1..MaxIdle) :
     p[2] <= Len(h1_idle[p[1]]) /\ h1_idle[p[1]][p[2]] = c}
UsersOf(c) == {u \in Users : user[u].conn = c}

\* "Idle keep-alive sockets should not have unread bytes pending": an idle session
\* owes no response, neither unread nor still to be sent.
IdleIsQuiet ==
  /\ TypeOK
  /\ \A k \in Keys : Len(h1_idle[k]) <= MaxIdle
  /\ \A k \in Keys : \A c \in Range(h1_idle[k]) :
       conn[c].asked = <<>> /\ conn[c].unread = <<>>

\* An HTTP/1 session is in one place, one entry of one h1_idle or one client
\* coroutine, and the response and body it hands to a request are those of that
\* request, whoever used the session before.
OwnResponse ==
  /\ \A c \in Conns : conn[c].ver = "h1" =>
       /\ \A p, q \in InPool(c) : p = q
       /\ \A u, v \in UsersOf(c) : u = v
       /\ InPool(c) = {} \/ UsersOf(c) = {}
  /\ \A u \in Users : user[u].pc \in {"write", "head", "response", "body"} =>
       conn[user[u].conn].seen \subseteq {user[u].id}

\* No descriptor is lost silently: while the peer is there, an open HTTP/1 connection
\* is in use or idle, unless it was given up before there was a session, its request
\* failed, its response was dropped unread, or the pool went away with it, by its
\* destructor or by the clear() of close_async.
NoLeakOnCleanPath ==
  \A c \in Conns :
    conn[c].ver = "h1" /\ conn[c].fd = "open" /\ conn[c].peer = "up" =>
      Held(c) \/ c \in dropped

\* An HTTP/2 session is destroyed under its running driver only after the peer said
\* GOAWAY, or its group let it go: a second connect replaced it, close_async closed it
\* or cleared its group, its own connect came back to a group cleared meanwhile, or
\* the pool was destroyed.
DriverOutlived == \A c \in killed : conn[c].goaway \/ c \in let_go
=============================================================================
