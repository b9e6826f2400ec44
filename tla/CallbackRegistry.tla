--------------------------- MODULE CallbackRegistry ---------------------------
(***************************************************************************)
(* What a registry of callbacks promises the plugins and the program: the  *)
(* callbacks form a list that only grows at its young end; a round passes  *)
(* them in the order of the list, each at most once, and does not end      *)
(* before it has passed all of them but perhaps the last; and only a       *)
(* callback that failed may leave the list, it alone, when it fails.       *)
(***************************************************************************)
EXTENDS Naturals, Sequences, SequencesExt

CONSTANT Callbacks

VARIABLES
    list,    \* the callbacks, in the order of a round
    round,   \* is a round going on?
    passed,  \* the callbacks the last round has passed, in order
    failed   \* the callbacks that have failed in some round

vars == <<list, round, passed, failed>>

Members(s) == {s[j] : j \in DOMAIN s}

Init ==
    /\ list = << >>
    /\ round = FALSE
    /\ passed = << >>
    /\ failed = {}

Add(cb) ==
    /\ ~round
    /\ cb \notin Members(list)
    /\ list' = Append(list, cb)
    /\ UNCHANGED <<round, passed, failed>>

Begin ==
    /\ ~round
    /\ round' = TRUE
    /\ passed' = << >>
    /\ UNCHANGED <<list, failed>>

\* The callbacks that may be next: the round has not gone past them.
Ahead == {list[j] : j \in {k \in DOMAIN list :
                             \A l \in k..Len(list) : list[l] \notin Members(passed)}}

Pass(cb) ==
    /\ round
    /\ cb \in Ahead
    /\ passed' = Append(passed, cb)
    /\ \/ UNCHANGED <<list, failed>>
       \/ /\ failed' = failed \union {cb}
          /\ \/ UNCHANGED list
             \/ \E j \in DOMAIN list : list[j] = cb /\ list' = RemoveAt(list, j)
    /\ UNCHANGED round

End ==
    /\ round
    /\ \A j \in DOMAIN list : list[j] \in Members(passed) \/ j = Len(list)
    /\ round' = FALSE
    /\ UNCHANGED <<list, passed, failed>>

Next ==
    \/ \E cb \in Callbacks : Add(cb) \/ Pass(cb)
    \/ Begin
    \/ End

Spec == Init /\ [][Next]_vars
===============================================================================
