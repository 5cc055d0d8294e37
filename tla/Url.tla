-------------------------------- MODULE Url ---------------------------------
(***************************************************************************)
(* ppnt::net::Url (ppnt-io/src/net/url.cpp): parse, resolve and href, and   *)
(* the two helpers below them.  A text is a sequence of characters;    *)
(* the position 0 is npos.  A result is a record with ok.                  *)
(***************************************************************************)
EXTENDS Integers, SequencesExt

CONSTANT IntMax      \* the largest int, 2^31 - 1 in the code
ASSUME IntMaxAssumption == IntMax \in Nat \ {0}

Digits == <<"0", "1", "2", "3", "4", "5", "6", "7", "8", "9">>
LowerOf == [H |-> "h", X |-> "x"]
Letters == {"h", "x", "H", "X"}

find(s, chars) == SelectInSeq(s, LAMBDA c : c \in chars)
rfind(s, char) == SelectLastInSeq(s, LAMBDA c : c = char)
Before(s, i) == IF i = 0 THEN s ELSE SubSeq(s, 1, i - 1)
From(s, i) == IF i = 0 THEN <<>> ELSE SubSeq(s, i, Len(s))
After(s, i) == IF i = 0 THEN <<>> ELSE SubSeq(s, i + 1, Len(s))
starts_with(s, prefix) == IsPrefix(prefix, s)

to_lower_ascii_str(s) == [i \in DOMAIN s |-> IF s[i] \in DOMAIN LowerOf THEN LowerOf[s[i]] ELSE s[i]]

\* std::from_chars into an int: a sign, the digits up to the first other
\* character (the rest is ignored), an error without digits or out of range.
from_chars(s) ==
    LET neg == starts_with(s, <<"-">>)
        body == IF neg THEN Tail(s) ELSE s
        digits == Before(body, SelectInSeq(body, LAMBDA c : ~Contains(Digits, c)))
        value == FoldLeft(LAMBDA v, c : 10 * v + SelectInSeq(Digits, LAMBDA d : d = c) - 1, 0, digits)
    IN  [ok |-> digits # <<>> /\ value <= (IF neg THEN IntMax + 1 ELSE IntMax),
         num |-> IF neg THEN -value ELSE value]

RECURSIVE to_string(_)
to_string(n) ==
    CASE n < 0 -> <<"-">> \o to_string(-n)
      [] n \in 0..9 -> <<Digits[n + 1]>>
      [] OTHER -> to_string(n \div 10) \o to_string(n % 10)
-----------------------------------------------------------------------------
\* url with the user info, host and port of authority.  On an invalid port
\* the user info is already written.
parse_authority(authority, url) ==
    LET at == find(authority, {"@"})
        named == IF at = 0 THEN url ELSE [url EXCEPT !.user_info = Before(authority, at)]
        rest == IF at = 0 THEN authority ELSE After(authority, at)
        colon == rfind(rest, ":")
        has_port == colon # 0 /\ colon > rfind(rest, "]")
        port == from_chars(After(rest, colon))
        host == to_lower_ascii_str(IF has_port THEN Before(rest, colon) ELSE rest)
        bare == IF Len(host) >= 2 /\ Head(host) = "[" /\ Last(host) = "]"
                    THEN SubSeq(host, 2, Len(host) - 1) ELSE host
    IN  IF has_port /\ ~port.ok THEN [named EXCEPT !.ok = FALSE]
        ELSE [named EXCEPT !.host = bare, !.port = IF has_port THEN port.num ELSE -1]

\* The loop of remove_dot_segments, one recursion per iteration.
RECURSIVE RemoveDots(_, _)
RemoveDots(input, output) ==
    CASE input = <<>> -> output
      [] starts_with(input, <<".", ".", "/">>) -> RemoveDots(From(input, 4), output)
      [] starts_with(input, <<".", "/">>) \/ starts_with(input, <<"/", ".", "/">>) ->
            RemoveDots(From(input, 3), output)
      [] input = <<"/", ".">> -> RemoveDots(<<"/">>, output)
      [] starts_with(input, <<"/", ".", ".", "/">>) \/ input = <<"/", ".", ".">> ->
            RemoveDots(<<"/">> \o From(input, 5), SubSeq(output, 1, rfind(output, "/") - 1))
      [] input \in {<<".">>, <<".", ".">>} -> output
      [] OTHER ->
            LET next_slash == SelectInSubSeq(input, 2, Len(input), LAMBDA c : c = "/")
            IN  RemoveDots(From(input, next_slash), output \o Before(input, next_slash))

\* A loop that knows "/../" but not a path that ends in "/..".
KeepLastDots(input) ==
    IF IsSuffix(<<"/", ".", ".">>, input)
        THEN RemoveDots(SubSeq(input, 1, Len(input) - 3), <<>>) \o <<"/", ".", ".">>
        ELSE RemoveDots(input, <<>>)

remove_dot_segments(input) == RemoveDots(input, <<>>)
-----------------------------------------------------------------------------
Fresh == [ok |-> TRUE, scheme |-> <<>>, user_info |-> <<>>, host |-> <<>>, port |-> -1,
          path |-> <<"/">>, query |-> <<>>, fragment |-> <<>>]
Failed == [ok |-> FALSE]

parse(input) ==
    LET scheme_end == find(input, {":"})
        scheme == to_lower_ascii_str(Before(input, scheme_end))
        hier == After(input, scheme_end)
        has_authority == starts_with(hier, <<"/", "/">>)
        from == SubSeq(hier, 3, Len(hier))
        authority_end == find(from, {"/", "?", "#"})
        named == [Fresh EXCEPT !.scheme = scheme]
        url == IF has_authority THEN parse_authority(Before(from, authority_end), named) ELSE named
        rest == IF has_authority THEN From(from, authority_end) ELSE hier
        fragment_pos == find(rest, {"#"})
        unfragmented == Before(rest, fragment_pos)
        query_pos == find(unfragmented, {"?"})
    IN  IF scheme_end = 0 \/ scheme = <<>> \/ scheme[1] \notin Letters \/ ~url.ok THEN Failed
        ELSE [url EXCEPT !.fragment = After(rest, fragment_pos),
                         !.query = After(unfragmented, query_pos),
                         !.path = remove_dot_segments(Before(unfragmented, query_pos))]

\* A reference that keeps the last segment of the base path.
resolveKeepingLast(relative, base) ==
    [base EXCEPT !.query = <<>>, !.fragment = <<>>,
                 !.path = remove_dot_segments(base.path \o <<"/">> \o relative)]

\* A reference with a valid authority ends in UNDEFINED BEHAVIOUR, err.error() of a
\* result that holds a value: the caller gets an error made of whatever lies there.
resolve(relative, base) ==
    LET scheme_end == find(relative, {":"})
        absolute == scheme_end # 0 /\ find(Before(relative, scheme_end), {"/", "?", "#"}) = 0
        fragment_pos == find(relative, {"#"})
        unfragmented == Before(relative, fragment_pos)
        query_pos == find(unfragmented, {"?"})
        rest == Before(unfragmented, query_pos)
        url == [base EXCEPT !.query = After(unfragmented, query_pos),
                            !.fragment = After(relative, fragment_pos)]
        from == SubSeq(rest, 3, Len(rest))
        auth_end == find(from, {"/", "?", "#"})
        named == parse_authority(Before(from, auth_end), url)
        last_slash == rfind(base.path, "/")
        base_dir == IF last_slash = 0 THEN <<"/">> ELSE SubSeq(base.path, 1, last_slash)
    IN  CASE relative = <<>> -> base
          [] absolute -> parse(relative)
          [] relative # <<>> /\ rest = <<>> -> url
          [] starts_with(rest, <<"/", "/">>) ->
                IF named.ok THEN Failed
                ELSE [named EXCEPT !.ok = TRUE,
                                   !.path = IF auth_end = 0 THEN <<"/">>
                                            ELSE remove_dot_segments(From(from, auth_end))]
          [] OTHER ->
                [url EXCEPT !.path = remove_dot_segments(
                    IF rest[1] = "/" THEN rest ELSE base_dir \o rest)]

Prefixed(mark, s) == IF s = <<>> THEN <<>> ELSE mark \o s

\* href without the brackets of an IPv6 host.
hrefBare(url) ==
    url.scheme \o <<":", "/", "/">> \o url.host
        \o (IF url.port = -1 THEN <<>> ELSE <<":">> \o to_string(url.port))
        \o url.path \o Prefixed(<<"?">>, url.query) \o Prefixed(<<"#">>, url.fragment)

href(url) ==
    url.scheme \o <<":", "/", "/">>
        \o (IF url.user_info = <<>> THEN <<>> ELSE Append(url.user_info, "@"))
        \o (IF find(url.host, {":"}) # 0 /\ url.host[1] # "["
                THEN <<"[">> \o url.host \o <<"]">> ELSE url.host)
        \o (IF url.port = -1 THEN <<>> ELSE <<":">> \o to_string(url.port))
        \o url.path \o Prefixed(<<"?">>, url.query) \o Prefixed(<<"#">>, url.fragment)
-----------------------------------------------------------------------------
\* RFC 3986, 5.2.4, by segments: the path as a stack of segments.

Segments(path) ==
    FoldLeft(LAMBDA segs, c : IF c = "/" THEN Append(segs, <<>>)
                              ELSE Append(Front(segs), Append(Last(segs), c)), <<>>, path)

Joined(segs) == FlattenSeq([i \in DOMAIN segs |-> <<"/">> \o segs[i]])

Dots == {<<".">>, <<".", ".">>}

\* The normal form of an absolute path: "." is skipped, ".." pops, and a path
\* that ends in either keeps its final slash.
RfcNormal(path) ==
    LET segs == Segments(path)
        push(stack, seg) ==
            CASE seg = <<".">> -> stack
              [] seg = <<".", ".">> -> IF stack = <<>> THEN stack ELSE Front(stack)
              [] OTHER -> Append(stack, seg)
        stack == FoldLeft(push, <<>>, segs)
    IN  IF path = <<>> THEN <<>>
        ELSE Joined(IF Last(segs) \in Dots THEN Append(stack, <<>>) ELSE stack)

\* RFC 3986, 5.2.2, for a reference with a path and without scheme or
\* authority, against a base that has an authority: an absolute path replaces
\* the base's, a relative one replaces what follows its last slash.
RfcTargetPath(path, base) ==
    RfcNormal(IF path[1] = "/" THEN path
              ELSE Joined(IF Segments(base.path) = <<>> THEN <<<<>>>>
                          ELSE Append(Front(Segments(base.path)), <<>>)) \o path)
=============================================================================
