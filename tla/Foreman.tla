------------------------------- MODULE Foreman -------------------------------
(***************************************************************************)
(* The collect callback of src/src/plugins/foreman.c and, external, the    *)
(* server it asks through libcurl.  get_json is split where the answer     *)
(* comes in; everything else up to the next request is one step.  main     *)
(* collects without a filter.                                              *)
(*                                                                         *)
(* A body is received in two parts; what json-c makes of it is the answer  *)
(* the server sent, or nothing.                                            *)
(***************************************************************************)
EXTENDS Uri, Functions

CONSTANT DefaultPerPage  \* of the server, external

Digits == <<"0", "1", "2", "3", "4", "5", "6", "7", "8", "9">>

\* The names of the parameters and the digits are symbols like others.
ASSUME ForemanAssumption ==
    /\ DefaultPerPage \in Nat \ {0}
    /\ {"page", "per_page", "false"} \union ToSet(Digits) \subseteq Symbols

VARIABLES
    \* foreman.c
    foreman,       \* where collect is, or how it ended
    cfg,
    baseuri,       \* static: the uri and the parameters stay between calls
    headers,       \* the list of headers, freed after the first call
    chunk,         \* the parts received
    current_page, pages,
    results,       \* "results" of the answer read last
    \* node.c
    nodes,         \* hostnames in the order of libdistexec_node_add
    \* the server
    hosts,
    request,       \* the text it was sent and has not answered
    incoming,      \* the parts on their way
    \* observed
    before,        \* how many nodes there were when collect was called
    asked,         \* the pages the server was asked for
    fits,          \* whether the parameter table had room for the first page
    sound          \* whether all answers were good and no host vanished

pluginVars == <<cfg, baseuri, headers, current_page, pages, results>>
transferVars == <<chunk, request, incoming>>
worldVars == <<hosts, sound>>
observedVars == <<before, asked, fits>>
foremanVars == <<foreman, pluginVars, transferVars, nodes, worldVars, observedVars>>

Page == <<"page">>
PerPage == <<"per_page">>

\* The greatest number that fits into the 8 bytes of pg_str; for up to as many hosts
\* the float quotient in get_hosts has the ceiling that the quotient has.
MaxPage == 9999999

\* The text of a number up to MaxPage, as snprintf writes it.
Number(p) ==
    LET digits[q \in 0..p] ==
            IF q < 10 THEN <<Digits[q + 1]>>
            ELSE Append(digits[q \div 10], Digits[(q % 10) + 1])
    IN  digits[p]

\* collect_init
Unconfigured ==
    [key \in {"url", "username", "password", "ssl-verify", "per-page"} |->
        CASE key = "ssl-verify" -> <<"false">>
          [] key = "per-page" -> <<"5", "0">>
          [] OTHER -> NoText]

\* The static variables before the first call, and a server with these hosts.
ForemanInit(served) ==
    /\ foreman = "idle"
    /\ cfg = Unconfigured
    /\ baseuri = uri_new
    /\ headers = "null"
    /\ chunk = << >>
    /\ current_page = 0
    /\ pages = 0
    /\ results = << >>
    /\ nodes = << >>
    /\ hosts = served
    /\ request = NoText
    /\ incoming = << >>
    /\ before = 0
    /\ asked = << >>
    /\ fits = TRUE
    /\ sound = TRUE

-----------------------------------------------------------------------------
(* The server *)

\* No answer, or one without any of the fields.
Garbage == [kind |-> "garbage"]
NoFields == [kind |-> "error"]

\* The number that a text of digits means; no other text means one.
NumberOf(v) ==
    LET Digit(c) == CHOOSE d \in 0..9 : Digits[d + 1] = c
        upTo[k \in 0..Len(v)] == IF k = 0 THEN 0 ELSE 10 * upTo[k - 1] + Digit(v[k])
    IN  upTo[Len(v)]

IsNumber(v) == v # NoText /\ ToSet(v) \subseteq ToSet(Digits)

\* The value of the last parameter with this key.
Asked(uri, key, default) ==
    LET given == {k \in DOMAIN uri.get_params : uri.get_params[k].key = key}
        value == uri.get_params[Max(given)].value
    IN  IF given = {} THEN default ELSE IF IsNumber(value) THEN NumberOf(value) ELSE 0

PageAsked == Asked(parse(request, uri_new).uri, Page, 1)
PerPageAsked == Asked(parse(request, uri_new).uri, PerPage, DefaultPerPage)

\* Those of the hosts that are on page p.
OnPage(p, per_page) ==
    LET end == IF p * per_page < Len(hosts) THEN p * per_page ELSE Len(hosts)
    IN  SubSeq(hosts, (p - 1) * per_page + 1, end)

Parts(answer) == <<[part |-> 1, of |-> answer], [part |-> 2, of |-> answer]>>

Waiting == request # NoText

Answers ==
    /\ Waiting
    /\ asked' = Append(asked, PageAsked)
    /\ request' = NoText
    /\ UNCHANGED <<foreman, pluginVars, chunk, nodes, hosts, before, fits>>

Serve ==
    /\ Answers
    /\ PageAsked > 0
    /\ PerPageAsked > 0
    /\ incoming' = Parts([kind |-> "page", subtotal |-> Len(hosts), page |-> PageAsked,
                          per_page |-> PerPageAsked,
                          results |-> OnPage(PageAsked, PerPageAsked)])
    /\ UNCHANGED sound

\* No status is looked at (no CURLOPT_FAILONERROR): an error is an answer.
ServeBad ==
    /\ Answers
    /\ incoming' \in {Parts(Garbage), Parts(NoFields), << >>}
    /\ sound' = FALSE

\* Between two pages a host is deleted, once in a run.
HostVanishes ==
    /\ foreman \in {"first", "next"}
    /\ sound
    /\ \E k \in DOMAIN hosts : hosts' = RemoveAt(hosts, k)
    /\ sound' = FALSE
    /\ UNCHANGED <<foreman, pluginVars, transferVars, nodes, observedVars>>

-----------------------------------------------------------------------------
(* libcurl *)

\* get_json up to the transfer.
get_json(url) == request' = url /\ incoming' = << >> /\ chunk' = << >>

Receive ==
    /\ ~Waiting
    /\ incoming # << >>
    /\ chunk' = Append(chunk, Head(incoming))
    /\ incoming' = Tail(incoming)
    /\ UNCHANGED <<foreman, pluginVars, request, nodes, worldVars, observedVars>>

Stops(how) ==
    /\ foreman' = how
    /\ request' = NoText
    /\ incoming' = << >>
    /\ UNCHANGED <<pluginVars, chunk, nodes, worldVars, observedVars>>

\* curl_easy_perform reports an error, whatever was received by then.
PerformFails == foreman \in {"first", "next"} /\ Stops("aborted")

Received == foreman \in {"first", "next"} /\ ~Waiting /\ incoming = << >>

(***************************************************************************)
(* json_tokener_parse_verbose reads the first value in the text.  Nothing  *)
(* received leaves one byte that malloc returned and nobody set.           *)
(***************************************************************************)
json_tokener_parse(c) ==
    IF c = << >> THEN {Garbage, NoFields} ELSE {Head(c).of}

-----------------------------------------------------------------------------
(* collect *)

collect ==
    /\ foreman' = "collect"
    /\ before' = Len(nodes)
    /\ asked' = << >>
    /\ UNCHANGED <<pluginVars, transferVars, nodes, worldVars, fits>>

Configured == NoText \notin {cfg.url, cfg.username, cfg.password, cfg["ssl-verify"]}

\* CHECK_CONFIG
NotConfigured == foreman = "collect" /\ ~Configured /\ Stops("aborted")

init_curl ==
    /\ foreman = "collect"
    /\ Configured
    /\ headers' = "live"
    /\ chunk' = << >>
    /\ foreman' = "uri"
    /\ UNCHANGED <<cfg, baseuri, current_page, pages, results, request, incoming,
                   nodes, worldVars, observedVars>>

\* The second call appends to the list of headers the first has freed.
HeadersReused ==
    foreman = "collect" /\ Configured /\ headers = "freed" /\ Stops("crashed")

Parsed == parse(cfg.url, baseuri)

\* baseuri as the first request is made from it.
Prepared == add_get_param(Parsed.uri, PerPage, cfg["per-page"])

\* -1 or -2 from the parser: "Could not parse %s".
BadUrl == foreman = "uri" /\ Parsed.rc \in {1, 2} /\ Stops("aborted")

\* The parser reads behind the text.
UrlOverread == foreman = "uri" /\ Parsed.rc = 3 /\ Stops("crashed")

\* libdistexec_uri_copy: "is null!", for instance without a port.
IncompleteUrl ==
    foreman = "uri" /\ Parsed.rc = 0 /\ ~CanCopy(Prepared) /\ Stops("aborted")

FirstRequest ==
    /\ foreman = "uri"
    /\ Parsed.rc = 0
    /\ CanCopy(Prepared)
    /\ baseuri' = Prepared
    /\ get_json(build(add_get_param(Prepared, Page, Number(1))))
    /\ fits' = HasRoom(Prepared)
    /\ foreman' = "first"
    /\ UNCHANGED <<cfg, headers, current_page, pages, results, nodes, worldVars,
                   before, asked>>

\* The end of collect, with cleanup_curl.
Returns == foreman' = "returned" /\ headers' = "freed"

-----------------------------------------------------------------------------
(* get_hosts *)

\* Mutant: the last page is left out unless it is full.
PagesFilled(subtotal, per_page) == IF subtotal >= per_page THEN subtotal \div per_page ELSE 1

\* ceil of the quotient.
PageCount(subtotal, per_page) ==
    IF subtotal >= per_page THEN (subtotal + per_page - 1) \div per_page ELSE 1

Unparsable ==
    Received /\ Garbage \in json_tokener_parse(chunk) /\ Stops("aborted")

\* A field that is not there reads as 0.
NoResults ==
    /\ Received
    /\ foreman = "first"
    /\ \E json \in json_tokener_parse(chunk) :
        json = NoFields \/ (json.kind = "page" /\ json.subtotal = 0)
    /\ Returns
    /\ UNCHANGED <<cfg, baseuri, current_page, pages, results, transferVars, nodes,
                   worldVars, observedVars>>

FirstPage ==
    /\ Received
    /\ foreman = "first"
    /\ \E json \in json_tokener_parse(chunk) :
        /\ json.kind = "page"
        /\ json.subtotal # 0
        /\ current_page' = json.page
        /\ pages' = PageCount(json.subtotal, json.per_page)
        /\ results' = json.results
    /\ foreman' = "hosts"
    /\ UNCHANGED <<cfg, baseuri, headers, transferVars, nodes, worldVars, observedVars>>

\* Mutant: current_page++ where the code has ++current_page.
AddHostsAskAgain ==
    /\ foreman = "hosts"
    /\ results # NoText
    /\ pages # 1
    /\ nodes' = nodes \o results
    /\ current_page' = current_page + 1
    /\ LET next == set_get_param(baseuri, Page, Number(current_page))
       IN  baseuri' = next /\ get_json(build(next))
    /\ foreman' = "next"
    /\ UNCHANGED <<cfg, headers, pages, results, worldVars, observedVars>>

\* The hosts of a page become nodes and the next page is asked for.
AddHosts ==
    /\ foreman = "hosts"
    /\ results # NoText
    /\ pages # 1
    /\ nodes' = nodes \o results
    /\ current_page' = current_page + 1
    /\ LET next == set_get_param(baseuri, Page, Number(current_page + 1))
       IN  baseuri' = next /\ get_json(build(next))
    /\ foreman' = "next"
    /\ UNCHANGED <<cfg, headers, pages, results, worldVars, observedVars>>

AddOnlyPage ==
    /\ foreman = "hosts"
    /\ results # NoText
    /\ pages = 1
    /\ nodes' = nodes \o results
    /\ Returns
    /\ UNCHANGED <<cfg, baseuri, current_page, pages, results, transferVars, worldVars,
                   observedVars>>

\* json_object_array_length of NULL.
MissingResults == foreman = "hosts" /\ results = NoText /\ Stops("crashed")

\* while (current_page <= pages): the page after the last is read and left.
NextPage ==
    /\ Received
    /\ foreman = "next"
    /\ \E json \in json_tokener_parse(chunk) \ {Garbage} :
        results' = IF json = NoFields THEN NoText ELSE json.results
    /\ IF current_page <= pages THEN foreman' = "hosts" /\ UNCHANGED headers ELSE Returns
    /\ UNCHANGED <<cfg, baseuri, current_page, pages, transferVars, nodes, worldVars,
                   observedVars>>

ServerNext == Serve \/ ServeBad \/ HostVanishes

ForemanNext ==
    \/ NotConfigured \/ init_curl \/ HeadersReused
    \/ BadUrl \/ UrlOverread \/ IncompleteUrl \/ FirstRequest
    \/ Receive \/ PerformFails
    \/ Unparsable \/ NoResults \/ FirstPage
    \/ AddHosts \/ AddOnlyPage \/ MissingResults \/ NextPage

-----------------------------------------------------------------------------
(* Properties *)

UriType(uri) ==
    /\ {uri.scheme, uri.hostname, uri.port, uri.path} \subseteq MaybeText
    /\ Len(uri.get_params) <= URI_MAX_PARAMS

ForemanTypeOK ==
    /\ foreman \in {"idle", "collect", "uri", "first", "hosts", "next", "returned",
                    "aborted", "crashed"}
    /\ \A key \in DOMAIN cfg : cfg[key] \in MaybeText
    /\ UriType(baseuri)
    /\ headers \in {"null", "live", "freed"}
    /\ Len(chunk) <= 2
    /\ current_page \in Nat
    /\ pages \in Nat
    /\ nodes \in Seq(Text)
    /\ before \in 0..Len(nodes)
    /\ request \in MaybeText
    /\ sound \in BOOLEAN
    /\ fits \in BOOLEAN

\* The table had a place for the first page, the later ones replace the only page there
\* is, and the host holds no sign that ends it, so that it is read back: a url with a
\* sign between the colon and the slashes gives the host a slash.
PageFits ==
    /\ fits
    /\ \A a, b \in DOMAIN baseuri.get_params :
        baseuri.get_params[a].key = Page /\ baseuri.get_params[b].key = Page => a = b
    /\ baseuri.hostname \in Without({":", "/"})

\* The nodes this call of collect has added.
Found == SubSeq(nodes, before + 1, Len(nodes))

\* "call page for page" (foreman.c:30): when collect returns, no host was added
\* twice, even if one vanished or the server failed, and without that all were
\* added; unless the page could not be asked for.
EveryHostOnce ==
    foreman = "returned" /\ PageFits =>
        /\ IsInjective(Found)
        /\ sound => Found = hosts

\* What the server reads from the requests, through build and encode, is page 1
\* and then each following one, at most one beyond the last (foreman.c:213-232).
PagesInOrder ==
    PageFits =>
        /\ \A k \in DOMAIN asked : asked[k] = k
        /\ Len(asked) > 1 => Len(asked) <= pages + 1
===============================================================================
