---------------------------- MODULE Http1Messages ---------------------------
(***************************************************************************)
(* Reading HTTP/1 messages: Http1ServerSession (ppnt-http/src/server.ixx)  *)
(* and Http1Session (ppnt-http/src/http1.ixx) have the same llhttp         *)
(* callbacks.  One session reads sequentially, so what it returns is a     *)
(* function of the reads.  The bytes of a message are cells [kind, text]:  *)
(* "line" (the URL of a request, the reason of a response), "field",       *)
(* "value", the end of the header block ("eoh", or "eoh!" when there is no *)
(* body) and "body", the last one "body!".  A read is a sequence of cells; *)
(* how the peer's bytes are cut into reads is arbitrary.                   *)
(*                                                                         *)
(* External: llhttp, which calls back once per run of cells of one kind    *)
(* within one read, also with an empty text, and goes on to the next       *)
(* message in the same buffer.                                             *)
(***************************************************************************)
EXTENDS Integers, SequencesExt

\* The members after reset_state; fresh is llhttp's own state: the next cell
\* begins a message.
ResetState ==
    [ok |-> TRUE, fresh |-> TRUE, line |-> <<>>, headers |-> <<>>, name |-> <<>>, value |-> <<>>,
     last_was_value |-> FALSE, headers_complete |-> FALSE, message_complete |-> FALSE, body |-> <<>>]

commit_header(s) ==
    IF s.name = <<>> THEN s
    ELSE [s EXCEPT !.headers = Append(@, <<s.name, s.value>>), !.name = <<>>, !.value = <<>>]

\* on_url and on_status: the last run replaces the earlier ones.
on_line(s, text) == [s EXCEPT !.line = text]

on_header_field(s, text) ==
    LET next == IF s.last_was_value THEN [commit_header(s) EXCEPT !.last_was_value = FALSE] ELSE s
    IN  [next EXCEPT !.name = @ \o text]

on_header_value(s, text) == [s EXCEPT !.last_was_value = TRUE, !.value = @ \o text]

on_headers_complete(s) ==
    [(IF s.last_was_value THEN commit_header(s) ELSE s) EXCEPT !.headers_complete = TRUE]

on_body(s, text) == [s EXCEPT !.body = @ \o text]

on_message_complete(s) == [s EXCEPT !.message_complete = TRUE, !.fresh = TRUE]

\* The runs of one read: the callbacks llhttp makes, with their texts.
Runs(cells) ==
    LET join(runs, c) ==
            IF runs # <<>> /\ Last(runs).kind = c.kind
                THEN Append(Front(runs), [kind |-> c.kind, text |-> Last(runs).text \o c.text])
                ELSE Append(runs, c)
    IN  FoldLeft(join, <<>>, cells)

Callback(s, run) ==
    IF ~s.ok \/ (s.fresh /\ run.kind # "line") THEN [s EXCEPT !.ok = FALSE]
    ELSE CASE run.kind = "line" -> on_line([s EXCEPT !.fresh = FALSE], run.text)
           [] run.kind = "field" -> on_header_field(s, run.text)
           [] run.kind = "value" -> on_header_value(s, run.text)
           [] run.kind = "eoh" -> on_headers_complete(s)
           [] run.kind = "eoh!" -> on_message_complete(on_headers_complete(s))
           [] run.kind = "body" -> on_body(s, run.text)
           [] run.kind = "body!" -> on_message_complete(on_body(s, run.text))

llhttp_execute(s, cells) == FoldLeft(Callback, s, Runs(cells))

\* The read loop that every receiving function has: until its flag is set, the
\* parser fails, or there is no further read, which is the end of the stream.
RECURSIVE Receive(_, _, _)
Receive(s, reads, flag) ==
    IF ~s.ok \/ s[flag] \/ reads = <<>> THEN [s |-> s, reads |-> reads]
    ELSE Receive(llhttp_execute(s, Head(reads)), Tail(reads), flag)

\* The server's receive_request: the end of the stream is an error.
receive_request(reads) ==
    LET r == Receive(ResetState, reads, "headers_complete")
    IN  [s |-> [r.s EXCEPT !.ok = @ /\ r.s.headers_complete], reads |-> r.reads]

\* A client that completes the last header at the end of the stream.
RequestCommits(reads) ==
    LET r == Receive(ResetState, reads, "headers_complete") IN [r EXCEPT !.s = commit_header(@)]

\* The client's request, after the write: the end of the stream breaks the
\* loop, and the response is returned as far as it was read.
request(reads) == Receive(ResetState, reads, "headers_complete")

\* receive_body and body_full: the end of the stream breaks the loop, and the
\* body is returned as far as it was read.
receive_body(s, reads) == Receive(s, reads, "message_complete")

Message(s) == [line |-> s.line, headers |-> s.headers, body |-> s.body]

\* What a handler gets that serves the requests of a connection in turn and
\* reads each body, until an error.
RECURSIVE Serve(_)
Serve(reads) ==
    LET head == receive_request(reads)
        body == receive_body(head.s, head.reads)
    IN  CASE ~head.s.ok -> <<>>
          [] head.s.ok /\ ~body.s.ok -> <<Message(head.s)>>
          [] head.s.ok /\ body.s.ok -> <<Message(body.s)>> \o Serve(body.reads)

\* What a caller gets that makes one request and reads the body.
Fetch(reads) ==
    LET head == request(reads)
    IN  Message(receive_body(head.s, head.reads).s)
=============================================================================
