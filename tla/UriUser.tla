------------------------------- MODULE UriUser -------------------------------
(***************************************************************************)
(* src/src/tests/test-uri.c: a uri is put together, another one is parsed  *)
(* from the same text, and all parts and parameters must agree.  The test  *)
(* does so for one text that it holds ready; here the text is what         *)
(* libdistexec_uri_build makes of the uri, and the parameters are open.    *)
(***************************************************************************)
EXTENDS Uri

CONSTANTS
    ParamKeys, ParamValues,
    MaxOps  \* bound on the calls that add or set a parameter

\* No key holds a sign by which parse finds its end, and nothing is empty.
ASSUME UriUserAssumption ==
    /\ ParamKeys \subseteq Without({"=", "&"}) \ {<< >>}
    /\ ParamValues \subseteq Text \ {<< >>}
    /\ MaxOps \in Nat

VARIABLES
    test_uri,  \* where the test is
    uri,       \* put together
    uri1,      \* parsed
    ops        \* the calls so far

uriVars == <<test_uri, uri, uri1, ops>>

\* The test has set scheme, hostname, port and path.
UriInit(parts) ==
    /\ test_uri = "params"
    /\ uri = parts
    /\ uri1 = uri_new
    /\ ops = 0

Op ==
    /\ test_uri = "params"
    /\ ops < MaxOps
    /\ ops' = ops + 1
    /\ UNCHANGED <<test_uri, uri1>>

AddParam ==
    Op /\ \E key \in ParamKeys, val \in ParamValues \union {NoText} :
        uri' = add_get_param(uri, key, val)

SetParam ==
    Op /\ \E key \in ParamKeys, val \in ParamValues : uri' = set_get_param(uri, key, val)

ParseBack ==
    /\ test_uri = "params"
    /\ LET parsed == parse(build(uri), uri_new)
       IN  /\ uri1' = parsed.uri
           /\ test_uri' = IF parsed.rc = 0 THEN "parsed" ELSE "aborted"
    /\ UNCHANGED <<uri, ops>>

UriNext == AddParam \/ SetParam \/ ParseBack

-----------------------------------------------------------------------------
(* Properties *)

UriTypeOK ==
    /\ test_uri \in {"params", "parsed", "aborted"}
    /\ \A u \in {uri, uri1} : Len(u.get_params) <= URI_MAX_PARAMS
    /\ ops \in 0..MaxOps

\* TEST_SAME and TEST_SAME_PARAM (test-uri.c:27-39) for whatever parameters were
\* added or set: a uri's text is parsed back to the same parts and, in order,
\* the same parameters, as long as no value is empty.
RoundTrip ==
    /\ test_uri # "aborted"
    /\ test_uri = "parsed" => uri1 = uri
===============================================================================
