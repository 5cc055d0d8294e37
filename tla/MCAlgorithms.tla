---------------------------- MODULE MCAlgorithms ----------------------------
(***************************************************************************)
(* The pure functions of the project on bounded inputs: one behaviour per  *)
(* call, which makes the call and returns.  The properties compare the     *)
(* result with a reference definition or with a second call.               *)
(***************************************************************************)
EXTENDS Url, ClientHello, Http1Messages

CONSTANTS MaxPath,      \* length of the paths to normalise
          MaxBytes,     \* length of the byte strings to encode
          MaxText       \* length of the texts to decode

B64 == INSTANCE Base64

VARIABLES call,      \* the function and its arguments
          result     \* <<>> until it returns, then its value

vars == <<call, result>>
-----------------------------------------------------------------------------
Concat(seqs) == FlattenSeq(seqs)

PathCalls == {[fn |-> "normalise", path |-> p] : p \in BoundedSeq({"/", ".", "x"}, MaxPath)}

Schemes == {<<"h">>, <<"X", "h">>}
Users == {<<>>, <<"x", "@">>, <<"@">>}
Hosts == {<<>>, <<"H">>, <<"x", ".", "h">>, <<"[", ":", "1", "]">>, <<"[", "x", "]">>, <<"x", ":", "x">>,
          <<"x", "@", "h">>, <<"[", "[", "x", "]", "]">>, <<"[", "[", "x", ":", "2", "]">>}
Ports == {<<>>, <<":">>, <<":", "0">>, <<":", "2", "9">>, <<":", "9", "9">>, <<":", "8", "x">>, <<":", "-", "1">>}
Paths == {<<>>, <<"/">>, <<"/", "x", "/", ".", ".", "/", "h">>, <<"/", "/", "x", ":">>, <<"/", "x", "@">>}
Queries == {<<>>, <<"?">>, <<"?", "x", "?">>, <<"?", "/", ".", ".", "/">>}
Fragments == {<<>>, <<"#">>, <<"#", "?", "x">>, <<"#", "/", "#">>}

UrlTexts ==
    {Concat(<<s, <<":", "/", "/">>, u, h, p, q>>) :
        s \in Schemes, u \in Users, h \in Hosts, p \in Ports,
        q \in {Concat(<<a, b, c>>) : a \in Paths, b \in Queries, c \in Fragments}}

ParseCalls == {[fn |-> "parse", text |-> t] : t \in UrlTexts}

Bases == {parse(Concat(<<<<"h", ":", "/", "/", "x">>, p, <<"?", "x", "#", "h">>>>)) :
             p \in {<<>>, <<"/">>, <<"/", "h">>, <<"/", "h", "/", "x">>, <<"/", "/", "h">>}}

References ==
    {Concat(<<p, q, f>>) :
        p \in BoundedSeq({"/", ".", "x"}, 4) \cup {<<"/", "/", "h", ":">>, <<"x", ":", "/">>, <<"/", ":">>},
        q \in {<<>>, <<"?">>, <<"?", "/", ":">>}, f \in {<<>>, <<"#", "?">>}}

ResolveCalls == {[fn |-> "resolve", text |-> t, base |-> b] : t \in References, b \in Bases}

EncodeCalls == {[fn |-> "encode", bytes |-> b] : b \in BoundedSeq({0, 77, 131, 255}, MaxBytes)}
DecodeCalls == {[fn |-> "decode", text |-> t] : t \in BoundedSeq({0, 21, 42, 63, B64!Pad, B64!Other}, MaxText)}

Exts == [id : {1, 2}, data : {<<>>, <<3>>}]
Hellos ==
    {[version |-> <<3, 0>>, random |-> [i \in 1..RandomLen |-> 2], session_id |-> s, exts |-> e] :
        s \in {<<>>, <<1, 2>>}, e \in BoundedSeq(Exts, 2) \cup {<<[id |-> 1, data |-> <<>>],
            [id |-> 9, data |-> <<1>>], [id |-> 2, data |-> <<>>]>>}}
HelloSpec(ciphers, exts) ==
    [cipher_suites |-> ciphers, compression_method |-> <<0>>, extensions |-> exts]
Written(h) == LET body == Body(h, HelloSpec(<<5>>, <<>>)) IN <<1>> \o U24(Len(body)) \o body

Configs == [id : {1, 2, 7}, strategy : {"Drop", "ForceData", "Auto"}, data : {<<1, 1>>}]
Specs == {HelloSpec(<<6, 7>>, e) : e \in BoundedSeq(Configs, 2)}
         \cup {HelloSpec([i \in 1..n |-> i], <<>>) : n \in {0, 7, 8}}
RewriteCalls ==
    {[fn |-> "rewrite", original |-> Written(h) \o junk, spec |-> s] :
        h \in Hellos, junk \in {<<>>, <<1>>}, s \in Specs}

Cell(kind, text) == [kind |-> kind, text |-> text]
First ==
    <<Cell("line", <<"a">>), Cell("line", <<"b">>), Cell("field", <<"n">>), Cell("field", <<"m">>),
      Cell("value", <<"v">>), Cell("value", <<"w">>), Cell("field", <<"k">>), Cell("value", <<>>),
      Cell("eoh", <<>>), Cell("body", <<"x">>), Cell("body!", <<"y">>)>>
Second == <<Cell("line", <<"c">>), Cell("field", <<"o">>), Cell("value", <<"u">>), Cell("eoh!", <<>>)>>

\* The cells cut into reads behind the positions in cuts.
ReadsOf(cells, cuts) ==
    LET isEnd(i) == i \in cuts \cup {Len(cells)}
        ends == SelectSeq([i \in DOMAIN cells |-> i], isEnd)
    IN  [i \in DOMAIN ends |-> SubSeq(cells, IF i = 1 THEN 1 ELSE ends[i - 1] + 1, ends[i])]

\* A peer that waits for each answer: the second message is in reads of its
\* own.  It may close the connection after any cell.
ServeCalls ==
    {[fn |-> "serve", cells |-> SubSeq(First \o Second, 1, n), cuts |-> c \cup {Len(First)}] :
        n \in 0..(Len(First) + Len(Second)), c \in SUBSET (1..(Len(First) - 1))}
FetchCalls ==
    {[fn |-> "fetch", cells |-> SubSeq(First, 1, n), cuts |-> c] :
        n \in 0..Len(First), c \in SUBSET (1..(Len(First) - 1))}
-----------------------------------------------------------------------------
Init ==
    /\ \/ call \in PathCalls
       \/ call \in ParseCalls
       \/ call \in ResolveCalls
       \/ call \in EncodeCalls
       \/ call \in DecodeCalls
       \/ call \in RewriteCalls
       \/ call \in ServeCalls
       \/ call \in FetchCalls
    /\ result = <<>>

Return(fn, value) == call.fn = fn /\ result = <<>> /\ result' = <<value>> /\ UNCHANGED call

Next ==
    \/ call.fn = "normalise" /\ Return("normalise", remove_dot_segments(call.path))
    \/ call.fn = "parse" /\ Return("parse", parse(call.text))
    \/ call.fn = "resolve" /\ Return("resolve", resolve(call.text, call.base))
    \/ call.fn = "encode" /\ Return("encode", B64!encode(call.bytes))
    \/ call.fn = "decode" /\ Return("decode", B64!decode(call.text))
    \/ call.fn = "rewrite" /\ Return("rewrite", rewrite(call.original, call.spec))
    \/ call.fn = "serve" /\ Return("serve", Serve(ReadsOf(call.cells, call.cuts)))
    \/ call.fn = "fetch" /\ Return("fetch", Fetch(ReadsOf(call.cells, call.cuts)))

Spec == Init /\ [][Next]_vars

Returned(fn) == call.fn = fn /\ result # <<>>
Value == result[1]
-----------------------------------------------------------------------------
\* remove_dot_segments computes the normal form of RFC 3986 for every absolute
\* path, and normalising any path a second time changes nothing.
PathNormalised ==
    Returned("normalise") =>
        /\ starts_with(call.path, <<"/">>) => Value = RfcNormal(call.path)
        /\ remove_dot_segments(Value) = Value

\* href is the inverse of parse on URLs with an authority: an accepted text, written
\* out by href and parsed again, is the same URL.  Userinfo, IPv6 brackets, ports
\* and the order of "?" and "#" all have to survive.  Two kinds of accepted texts do
\* not: href drops the "@" of an empty user info in front of a host that has an "@"
\* of its own (h://@a@b), and it writes a host that begins with "[" without the
\* brackets it was parsed out of (h://[[x]]).
HrefParsesBack ==
    /\ Returned("parse") /\ Value.ok
    /\ Value.user_info = <<>> => find(Value.host, {"@"}) = 0
    /\ ~starts_with(Value.host, <<"[">>)
    => parse(href(Value)) = Value

\* resolve gives the target of RFC 3986 for a reference with a path of its own
\* and no scheme: path from the reference or merged with the base, query and
\* fragment from the reference.  Not covered: a reference that starts with
\* "//" (its check of parse_authority is inverted, and a valid one is refused)
\* and one that is only a fragment (it loses the query of the base).
ResolveTarget ==
    LET hash == find(call.text, {"#"})
        mark == find(Before(call.text, hash), {"?"})
        path == Before(Before(call.text, hash), mark)
    IN  Returned("resolve") /\ path # <<>> /\ find(path, {":"}) = 0 /\ ~starts_with(path, <<"/", "/">>) =>
            Value = [call.base EXCEPT !.path = RfcTargetPath(path, call.base),
                                      !.query = After(Before(call.text, hash), mark),
                                      !.fragment = After(call.text, hash)]
-----------------------------------------------------------------------------
\* Base64::encode is RFC 4648 with padding, and decode and decode_bin give back
\* the bytes that were encoded, whatever the length of the last group; decode of
\* any other text gives the whole bytes of the characters before the first '='
\* or foreign one, and the 255 that stands for the missing characters of a short
\* group never reaches the output.
Base64Exact ==
    /\ Returned("decode") => Value = B64!RfcDecode(call.text)
    /\ Returned("encode") =>
         /\ Value = B64!RfcEncode(call.bytes)
         /\ B64!decode(Value) = call.bytes /\ B64!decode_bin(Value) = call.bytes
-----------------------------------------------------------------------------
Hello == ParseHello(call.original)
NewHello == ParseHello(Value.bytes)

\* The blocks behind 16-bit length fields are within 16 bits.
Fits ==
    /\ Len(CipherBytes(call.spec)) <= MaxU16
    /\ Len(ExtensionBytes(Extensions(Hello.exts, call.spec))) <= MaxU16

ListedOnce == IsInjective([i \in DOMAIN call.spec.extensions |-> call.spec.extensions[i].id])

\* What a receiver finds in the rewritten extension block: in the order of the
\* specification, every extension it forces, with the forced data, and every one it
\* leaves to the original that the original has, with the data it had there (at its
\* first occurrence); none of the dropped ones; behind them every extension the
\* specification does not mention, unchanged and in the original order.
ExtensionsAsListed(new) ==
    LET listed(e) == \E c \in ToSet(call.spec.extensions) : c.id = e.id
        unlisted(e) == ~listed(e)
        FirstWith(id) == SelectInSeq(Hello.exts, LAMBDA e : e.id = id)
        kept(c) == c.strategy = "ForceData" \/ (c.strategy = "Auto" /\ FirstWith(c.id) # 0)
        expected == SelectSeq(call.spec.extensions, kept)
    IN  /\ new = SelectSeq(new, listed) \o SelectSeq(new, unlisted)
        /\ SelectSeq(new, unlisted) = SelectSeq(Hello.exts, unlisted)
        /\ Len(SelectSeq(new, listed)) = Len(expected)
        /\ \A i \in DOMAIN expected :
              LET c == expected[i]
              IN  /\ new[i].id = c.id
                  /\ new[i].data = IF c.strategy = "ForceData" THEN c.data
                                   ELSE Hello.exts[FirstWith(c.id)].data

\* Within the 16-bit limits the rewritten hello is well formed: every length
\* field, the 24-bit one included, matches what follows it; version, random
\* and session id are the original's, ciphers, compression and extensions the
\* specification's; and, unless the specification lists an extension twice,
\* rewriting it again changes nothing.  A hello cut short anywhere is refused,
\* never rewritten from a part.
RewriteWellFormed ==
    Returned("rewrite") /\ Value.ok =>
        /\ Fits =>
             /\ NewHello.ok /\ NewHello.rest = <<>> /\ NewHello.len = Len(Value.bytes) - 4
             /\ <<NewHello.version, NewHello.random, NewHello.session_id>>
                    = <<Hello.version, Hello.random, Hello.session_id>>
             /\ NewHello.ciphers = CipherBytes(call.spec)
             /\ NewHello.compression = call.spec.compression_method
             /\ ExtensionsAsListed(NewHello.exts)
             /\ ListedOnce => rewrite(Value.bytes, call.spec) = Value
        /\ \A n \in 0..(Len(call.original) - Len(Hello.rest) - 1) :
              ~rewrite(SubSeq(call.original, 1, n), call.spec).ok
-----------------------------------------------------------------------------
\* The text of the cells of a message of the given kinds.
TextOf(cells, kinds) ==
    LET wanted(c) == c.kind \in kinds
    IN  FlattenSeq([i \in DOMAIN SelectSeq(cells, wanted) |-> SelectSeq(cells, wanted)[i].text])

\* What a reader should get of the cells of the first message that arrived,
\* the first of its reads cut behind one cell of the line or not.
FirstHeaders == <<<<<<"n", "m">>, <<"v", "w">>>>, <<<<"k">>, <<>>>>>>
FirstLine == IF 1 \in call.cuts THEN <<"b">> ELSE <<"a", "b">>
FirstMessage(cells) ==
    [line |-> FirstLine, headers |-> FirstHeaders, body |-> TextOf(cells, {"body", "body!"})]
SecondMessage == [line |-> <<"c">>, headers |-> <<<<<<"o">>, <<"u">>>>>>, body |-> <<>>]

\* Headers and bodies do not depend on where the reads were cut.  A server that
\* reads the bodies gets each request whose header block arrived, in order; the
\* second is untouched by the first.  A client always gets a response; when the
\* peer closed early its headers are the first ones sent, each name and value
\* whole.  Two things are lost: of a URL or reason cut by a read only the last
\* part is kept (on_url, on_status), and a body that the peer cut short is
\* returned like a whole one.
MessagesAsSent ==
    LET n == Len(call.cells)
    IN  /\ Returned("serve") =>
             Value = (IF n < 9 THEN <<>> ELSE <<FirstMessage(call.cells)>>)
                         \o (IF n < Len(First) + Len(Second) THEN <<>> ELSE <<SecondMessage>>)
        /\ Returned("fetch") =>
             /\ IsPrefix(Value.headers, FirstHeaders)
             /\ n >= 9 => Value = FirstMessage(call.cells)
=============================================================================
