--------------------------------- MODULE Uri ---------------------------------
(***************************************************************************)
(* The uri functions of src/src/uri.c as operators.  An operator that      *)
(* changes a uri returns the changed one.  The buffer of build appears as  *)
(* lengths in BuiltInto; the 512 bytes of encode and decode do not.        *)
(***************************************************************************)
EXTENDS Naturals, Sequences, SequencesExt, Texts

CONSTANTS
    URI_MAX_PARAMS, \* size of the parameter table
    BUILD_SIZE      \* the 1024 of libdistexec_uri_build

-----------------------------------------------------------------------------
(* Encoding of parameter values *)

\* Words stand for the signs of that name: a grave accent, a comma, a space and so on.
char_map == <<
    <<"!", "2", "1">>, <<"#", "2", "3">>, <<"$", "2", "4">>, <<"&", "2", "6">>,
    <<"'", "2", "7">>, <<"(", "2", "8">>, <<")", "2", "9">>, <<"*", "2", "A">>,
    <<"+", "2", "B">>, <<"comma", "2", "C">>, <<"/", "2", "F">>, <<":", "3", "A">>,
    <<"semicolon", "3", "B">>, <<"=", "3", "D">>, <<"?", "3", "F">>, <<"@", "4", "0">>,
    <<"[", "5", "B">>, <<"]", "5", "D">>, <<"\n", "0", "A">>, <<"space", "2", "0">>,
    <<"quote", "2", "2">>, <<"%", "2", "5">>, <<"-", "2", "D">>, <<".", "2", "E">>,
    <<"<", "3", "C">>, <<">", "3", "E">>, <<"\\", "5", "C">>, <<"^", "5", "E">>,
    <<"underscore", "5", "F">>, <<"grave", "6", "0">>, <<"lbrace", "7", "B">>, <<"|", "7", "C">>,
    <<"rbrace", "7", "D">>, <<"~", "7", "E">> >>

\* The signs of a uri and of the codes are symbols like others.
ASSUME UriAssumption ==
    /\ URI_MAX_PARAMS \in Nat
    /\ BUILD_SIZE \in Nat
    /\ {":", "/", "?", "&", "=", "%"} \subseteq Symbols
    /\ \A e \in ToSet(char_map) : {e[1], e[2], e[3]} \subseteq Symbols

\* Mutant: the percent sign is left as it is.
EncodesAllButPercent(v) ==
    LET Code(c) == LET found == {e \in ToSet(char_map) : e[1] = c /\ c # "%"}
                   IN  IF found = {} THEN <<c>>
                       ELSE LET e == CHOOSE e \in found : TRUE IN <<"%", e[2], e[3]>>
    IN  FlattenSeq([k \in DOMAIN v |-> Code(v[k])])

\* libdistexec_uri_encode
encode(v) ==
    LET Code(c) == LET found == {e \in ToSet(char_map) : e[1] = c}
                   IN  IF found = {} THEN <<c>>
                       ELSE LET e == CHOOSE e \in found : TRUE IN <<"%", e[2], e[3]>>
    IN  FlattenSeq([k \in DOMAIN v |-> Code(v[k])])

\* libdistexec_uri_decode: only the codes of char_map are replaced.
decode(v) ==
    LET Meant(k) == {e \in ToSet(char_map) :
                         k + 2 <= Len(v) /\ SubSeq(v, k, k + 2) = <<"%", e[2], e[3]>>}
        from[k \in 1..(Len(v) + 1)] ==
            IF k > Len(v) THEN << >>
            ELSE IF Meant(k) = {} THEN <<v[k]>> \o from[k + 1]
            ELSE <<(CHOOSE e \in Meant(k) : TRUE)[1]>> \o from[k + 3]
    IN  from[1]

-----------------------------------------------------------------------------
(* Uris and their parameters *)

\* libdistexec_uri_new
uri_new == [scheme |-> NoText, hostname |-> NoText, port |-> NoText,
            path |-> NoText, get_params |-> << >>]

\* Whether libdistexec_uri_add_get_param adds anything.
HasRoom(uri) == Len(uri.get_params) < URI_MAX_PARAMS

\* libdistexec_uri_add_get_param
add_get_param(uri, key, value) ==
    IF HasRoom(uri) /\ key # NoText
    THEN [uri EXCEPT !.get_params = Append(@, [key |-> key, value |-> value])]
    ELSE uri

\* libdistexec_uri_get_uri_param: the first with that key, as an index or 0.
get_uri_param(uri, key) ==
    SelectInSeq(uri.get_params, LAMBDA p : p.key = key)

\* libdistexec_uri_get_param
get_param(uri, key) ==
    LET k == get_uri_param(uri, key)
    IN  IF k = 0 THEN NoText ELSE uri.get_params[k].value

\* libdistexec_uri_set_get_param
set_get_param(uri, key, value) ==
    LET k == get_uri_param(uri, key)
    IN  CASE NoText \in {key, value} -> uri
          [] NoText \notin {key, value} /\ k = 0 -> add_get_param(uri, key, value)
          [] NoText \notin {key, value} /\ k # 0 ->
                 [uri EXCEPT !.get_params[k].value = value]

\* libdistexec_uri_copy aborts for a uri that has not all four parts.
CanCopy(uri) == NoText \notin {uri.scheme, uri.hostname, uri.port, uri.path}

-----------------------------------------------------------------------------
(* From a uri to its text *)

ParamPieces(p, last) ==
    <<p.key>>
    \o (IF p.value = NoText THEN << >> ELSE << <<"=">>, encode(p.value) >>)
    \o (IF last THEN << >> ELSE << <<"&">> >>)

\* What libdistexec_uri_build adds to its buffer, in order.
Pieces(uri) ==
    LET params == uri.get_params
    IN  <<uri.scheme, <<":", "/", "/">>, uri.hostname>>
        \o (IF uri.port = NoText THEN << >> ELSE << <<":">>, uri.port >>)
        \o << <<"/">>, uri.path >>
        \o (IF params = << >> THEN << >> ELSE << <<"?">> >>)
        \o FlattenSeq([k \in DOMAIN params |->
                           ParamPieces(params[k], k = Len(params))])

\* A piece that is NULL adds nothing.
Given(pieces) ==
    [k \in DOMAIN pieces |-> IF pieces[k] = NoText THEN << >> ELSE pieces[k]]

\* libdistexec_uri_build
build(uri) == FlattenSeq(Given(Pieces(uri)))

\* Mutant: what the buffer holds already is not counted.
AddsUncounted(buf, s) ==
    LET need == buf.len + Len(s)
        grow == buf.bufsize < Len(s)
        size == IF grow THEN need + 2 ELSE buf.size
    IN  [len |-> need,
         bufsize |-> IF grow THEN need + 2 ELSE buf.bufsize,
         size |-> size,
         over |-> IF need + 1 > size + buf.over THEN need + 1 - size ELSE buf.over]

(***************************************************************************)
(* ADD_TO_URI: size is what was allocated, bufsize what the code takes for *)
(* it, over by how many bytes the text and its 0 ever passed the end.      *)
(***************************************************************************)
ADD_TO_URI(buf, s) ==
    LET need == buf.len + Len(s)
        grow == buf.bufsize < need
        size == IF grow THEN need + 2 ELSE buf.size
    IN  [len |-> need,
         bufsize |-> IF grow THEN need + 2 ELSE buf.bufsize,
         size |-> size,
         over |-> IF need + 1 > size + buf.over THEN need + 1 - size ELSE buf.over]

EmptyBuffer == [len |-> 0, bufsize |-> BUILD_SIZE, size |-> BUILD_SIZE + 1, over |-> 0]

\* The buffer of libdistexec_uri_build when it returns.
BuiltInto(uri) ==
    LET pieces == Given(Pieces(uri))
        buf[k \in 0..Len(pieces)] ==
            IF k = 0 THEN EmptyBuffer ELSE ADD_TO_URI(buf[k - 1], pieces[k])
    IN  buf[Len(pieces)]

-----------------------------------------------------------------------------
(* From a text to a uri *)

\* The first position from k on that holds one of chars, or the end.
Find(url, k, chars) ==
    LET at == {n \in k..Len(url) : url[n] \in chars}
    IN  IF at = {} THEN Len(url) + 1 ELSE CHOOSE n \in at : \A m \in at : n <= m

\* strtok_r over the whole text: the nonempty parts between separators.
Tokens(s, sep) ==
    LET Longer(parts, c) == [parts EXCEPT ![Len(parts)] = Append(@, c)]
        upTo[k \in 0..Len(s)] ==
            IF k = 0 THEN << >>
            ELSE IF s[k] = sep THEN upTo[k - 1]
            ELSE IF k = 1 \/ s[k - 1] = sep THEN Append(upTo[k - 1], <<s[k]>>)
            ELSE Longer(upTo[k - 1], s[k])
    IN  upTo[Len(s)]

\* A parameter's key is its first token at "=", its value what follows that.
Param(token) ==
    LET key == Find(token, 1, ToSet(token) \ {"="})
        eq  == Find(token, key, {"="})
        val == SubSeq(token, eq + 1, Len(token))
    IN  [key   |-> IF key > Len(token) THEN NoText ELSE SubSeq(token, key, eq - 1),
         value |-> IF val = << >> THEN NoText ELSE decode(val)]

\* The scheme, and where parsing goes on: in the text (p) and in the copies taken
\* from it (uindex), which a sign between the colon and the slashes sets apart.
SchemePart(url) ==
    LET colon == Find(url, 1, {":"})
        Is(k) == k <= Len(url) /\ url[k] = "/"
    IN  CASE colon > Len(url) ->
                 [rc |-> 0, scheme |-> NoText, uindex |-> 1, p |-> Len(url) + 1]
          [] colon = Len(url) -> [rc |-> 1]
          [] colon < Len(url) /\ ~Is(colon + 1) /\ ~Is(colon + 2) -> [rc |-> 2]
          [] colon < Len(url) /\ (Is(colon + 1) \/ Is(colon + 2)) ->
                 [rc |-> 0, scheme |-> SubSeq(url, 1, colon - 1),
                  uindex |-> colon + 3,
                  p |-> IF Is(colon + 1) THEN colon + 3 ELSE colon + 4]

(***************************************************************************)
(* libdistexec_uri_parse.  rc is 0, 1 or 2 for the code's 0, -1 and -2,    *)
(* and 3 where the source says nothing: the text is read behind its end,   *)
(* or a query of separators alone makes strtok_r use an unset pointer.     *)
(***************************************************************************)
parse(url, uri) ==
    LET part == SchemePart(url)
        host == Find(url, part.p, {":", "/"})
        Copy(from, n) == SubSeq(url, from, from + n - 1)
        slash == Find(url, host, {"/"})
        hasHost == host <= Len(url)
        hasPort == hasHost /\ url[host] = ":"
        port == part.uindex + host - part.p + 1
        \* behind the slash after host and port
        p == CASE ~hasHost -> host
               [] hasPort -> IF slash > Len(url) THEN slash ELSE slash + 1
               [] hasHost /\ ~hasPort -> host + 1
        uindex == CASE ~hasHost -> part.uindex
                    [] hasPort -> port + slash - host
                    [] hasHost /\ ~hasPort -> port
        mark == Find(url, p, {"?"})
        query == Tokens(SubSeq(url, mark + 1, Len(url)), "&")
        Add(u, token) == add_get_param(u, Param(token).key, Param(token).value)
        filled[k \in 0..Len(query)] ==
            IF k = 0 THEN uri ELSE Add(filled[k - 1], query[k])
    IN  IF part.rc # 0 THEN [rc |-> part.rc, uri |-> uri]
        ELSE IF part.p > Len(url) + 1 \/ (mark < Len(url) /\ query = << >>)
        THEN [rc |-> 3, uri |-> uri]
        ELSE [rc |-> 0,
              uri |-> [filled[Len(query)] EXCEPT
                  !.scheme = part.scheme,
                  !.hostname = IF hasHost THEN Copy(part.uindex, host - part.p) ELSE NoText,
                  !.port = IF hasPort THEN Copy(port, slash - host - 1) ELSE NoText,
                  !.path = Copy(uindex, mark - p)]]
===============================================================================
