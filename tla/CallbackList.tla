----------------------------- MODULE CallbackList -----------------------------
(***************************************************************************)
(* A list of callbacks of src/src/plugin.c: `execute` or `collect`, which  *)
(* are filled, called, initialised and terminated by the same code.  The   *)
(* list is a heap of cells with next and prev pointers, as the macros of   *)
(* util.h and the llist functions of util.c build and change it; a cell is *)
(* named by the order of its allocation, cell 1 is the one LL_INIT makes,  *)
(* which has no value, and every other cell is named like its callback.    *)
(*                                                                         *)
(* LIBDISTEXEC_LL_APPEND is the definition that is compiled.  One thread   *)
(* uses the list here; Execute.tla is about several.                       *)
(***************************************************************************)
EXTENDS Naturals, Sequences, FiniteSets, SequencesExt

CONSTANTS
    MaxCallbacks,  \* bound on the registered callbacks
    MaxRounds,     \* bound on the rounds
    Hookless       \* callbacks registered without init and terminate

ASSUME CallbackListAssumption ==
    /\ MaxCallbacks \in Nat
    /\ MaxRounds \in Nat
    /\ Hookless \subseteq 2..(MaxCallbacks + 1)

NULL == 0
Cells == 1..(MaxCallbacks + 1)
Callbacks == Cells \ {1}
Kinds == {"call", "init", "terminate"}

VARIABLES
    head,    \* the list
    cursor,  \* its LL_EACH cursor, execute_current or collect_current
    used,    \* how many cells were allocated
    next,    \* cell -> cell
    prev,    \* cell -> cell
    round,   \* the round going on: a kind, or "none"
    passed,  \* the callbacks this round or the last one has passed
    failed,  \* callbacks whose init or terminate has failed in some round
    rounds   \* how many rounds were begun

vars == <<head, cursor, used, next, prev, round, passed, failed, rounds>>

Allocated == 1..used

\* A cell's value: the callback, or NULL in the cell of LL_INIT.
Value(c) == IF c = 1 THEN NULL ELSE c

\* The cells that following the next pointers from the head leads to.
Reachable ==
    {c \in Allocated :
        \A S \in SUBSET Allocated :
            (/\ head \in S
             /\ \A d \in S : next[d] # NULL => next[d] \in S) => c \in S}

-----------------------------------------------------------------------------

Init ==
    /\ head = NULL
    /\ cursor = NULL
    /\ used = 0
    /\ next = [c \in Cells |-> NULL]
    /\ prev = [c \in Cells |-> NULL]
    /\ round = "none"
    /\ passed = << >>
    /\ failed = {}
    /\ rounds = 0

(***************************************************************************)
(* libdistexec_register_callback_*.  The list is created first, whether or *)
(* not the callback is then accepted.  It is refused when its init fails.  *)
(***************************************************************************)
CreatesList == head = NULL /\ cursor = NULL

RegisterRefused ==
    /\ round = "none"
    /\ used <= MaxCallbacks
    /\ CreatesList
    /\ head' = 1
    /\ used' = 1
    /\ UNCHANGED <<cursor, next, prev, round, passed, failed, rounds>>

\* Mutant: appended to the head instead of to the end.
AppendedToHead(h, new) ==
    /\ head' = h
    /\ next' = [next EXCEPT ![h] = new]
    /\ prev' = [prev EXCEPT ![new] = h]

\* llist_append: after the last cell that the next pointers lead to.
Appended(h, new) ==
    \E last \in IF CreatesList THEN {h} ELSE {c \in Reachable : next[c] = NULL} :
        /\ head' = h
        /\ next' = [next EXCEPT ![last] = new]
        /\ prev' = [prev EXCEPT ![new] = last]

\* Mutant: callbacks are registered with the workaround.
RegisterPushed ==
    /\ round = "none"
    /\ used <= MaxCallbacks
    /\ LET h   == IF CreatesList THEN 1 ELSE head
           new == IF CreatesList THEN 2 ELSE used + 1
       IN  /\ new \in Cells
           /\ used' = new
           /\ head' = new
           /\ next' = [next EXCEPT ![new] = h]
           /\ UNCHANGED prev
    /\ UNCHANGED <<cursor, round, passed, failed, rounds>>

Register ==
    /\ round = "none"
    /\ used <= MaxCallbacks
    /\ LET h   == IF CreatesList THEN 1 ELSE head
           new == IF CreatesList THEN 2 ELSE used + 1
       IN  /\ new \in Cells
           /\ used' = new
           /\ Appended(h, new)
    /\ UNCHANGED <<cursor, round, passed, failed, rounds>>

\* Mutant: the list is not tested for NULL.
BeginUntested(kind) ==
    /\ round = "none"
    /\ rounds < MaxRounds
    /\ rounds' = rounds + 1
    /\ cursor' = head
    /\ passed' = << >>
    /\ round' = kind
    /\ UNCHANGED <<head, used, next, prev, failed>>

\* Mutant: the loop starts where the cursor was left.
BeginAtCursor(kind) ==
    /\ round = "none"
    /\ rounds < MaxRounds
    /\ rounds' = rounds + 1
    /\ cursor' = IF cursor = NULL THEN head ELSE cursor
    /\ passed' = << >>
    /\ round' = IF head = NULL THEN "none" ELSE kind
    /\ UNCHANGED <<head, used, next, prev, failed>>

\* The head of LIBDISTEXEC_LL_EACH; there is nothing to do without a list.
BeginRound(kind) ==
    /\ round = "none"
    /\ rounds < MaxRounds
    /\ rounds' = rounds + 1
    /\ cursor' = head
    /\ passed' = << >>
    /\ round' = IF head = NULL THEN "none" ELSE kind
    /\ UNCHANGED <<head, used, next, prev, failed>>

\* One turn of the loop: the cursor is moved on before the body runs.
Turn ==
    /\ round # "none"
    /\ next[cursor] # NULL
    /\ cursor' = next[cursor]
    /\ UNCHANGED <<head, used, prev, round, rounds>>

\* Mutant: a NULL value is skipped before the cursor was moved on.
SkipWithoutMoving ==
    /\ round # "none"
    /\ next[cursor] # NULL
    /\ Value(cursor) = NULL
    /\ UNCHANGED vars

SkipNull ==
    /\ Turn
    /\ Value(cursor) = NULL
    /\ UNCHANGED <<next, passed, failed>>

\* The callback is called, or its init or terminate succeeds or is missing.
PassCallback ==
    /\ Turn
    /\ Value(cursor) # NULL
    /\ passed' = Append(passed, Value(cursor))
    /\ UNCHANGED <<next, failed>>

\* Mutant: the successor is taken to be the cell allocated next.
UnlinkedAdjacent(c) ==
    IF prev[c] # NULL /\ next[c] # NULL
    THEN [next EXCEPT ![prev[c]] = c + 1]
    ELSE next

(***************************************************************************)
(* "failed, removing": the predecessor is linked to the successor, if      *)
(* there are both, and the successor's prev pointer is left as it is.      *)
(***************************************************************************)
Unlinked(c) ==
    IF prev[c] # NULL /\ next[c] # NULL
    THEN [next EXCEPT ![prev[c]] = next[c]]
    ELSE next

PassFailing ==
    /\ round \in {"init", "terminate"}
    /\ Turn
    /\ Value(cursor) # NULL
    /\ Value(cursor) \notin Hookless
    /\ passed' = Append(passed, Value(cursor))
    /\ failed' = failed \union {Value(cursor)}
    /\ next' = Unlinked(cursor)

EndRound ==
    /\ round # "none"
    /\ next[cursor] = NULL
    /\ round' = "none"
    /\ UNCHANGED <<head, cursor, used, next, prev, passed, failed, rounds>>

\* The bounds are exhausted.
Finished ==
    /\ round = "none"
    /\ rounds = MaxRounds
    /\ used > MaxCallbacks
    /\ UNCHANGED vars

Next ==
    \/ RegisterRefused \/ Register
    \/ \E kind \in Kinds : BeginRound(kind)
    \/ SkipNull \/ PassCallback \/ PassFailing \/ EndRound
    \/ Finished

\* A round is a loop of its caller, which goes on when it can.
Spec == Init /\ [][Next]_vars

FairSpec == Spec /\ WF_vars(SkipNull \/ PassCallback \/ PassFailing \/ EndRound)
-----------------------------------------------------------------------------
(* Properties *)

\* Every variable keeps its type, and the loops of plugin.c have a cell
\* under their cursor.
TypeOK ==
    /\ head \in {NULL} \union Allocated
    /\ used \in 0..(MaxCallbacks + 1)
    /\ next \in [Cells -> {NULL} \union Allocated]
    /\ prev \in [Cells -> {NULL} \union Allocated]
    /\ round \in Kinds \union {"none"}
    /\ cursor \in {NULL} \union Allocated
    /\ round # "none" => cursor # NULL
    /\ passed \in Seq(Callbacks)
    /\ failed \subseteq Callbacks \ Hookless
    /\ rounds \in 0..MaxRounds

\* Removals leave the list a list: however the stale prev pointers have
\* been used (plugin.c:160-164), the pointers lead to one end, which is the
\* cell llist_append has to find.
OneEnd ==
    head # NULL =>
        {c \in Reachable : next[c] = NULL} = {used}

\* A callback whose init and terminate never failed stays in the list,
\* whatever its neighbours did (plugin.c:222-228).
HealthyStay == \A c \in Allocated \ {1} : c \notin failed => c \in Reachable

\* A removed callback is never linked again, although its cell is still
\* some cell's prev and its own next pointer is still written.
RemovedStayRemoved ==
    [][\A c \in Allocated : c \notin Reachable => c \notin Reachable']_vars

\* With the list as it is compiled the callback registered last, and so an
\* only one, is never passed: LL_EACH stops before the last cell.
YoungestNeverPassed ==
    round # "none" => \A j \in DOMAIN passed : passed[j] # used

\* Every round comes to its end.
RoundEnds == round # "none" ~> round = "none"

\* "terminate failed, removing": after a round the callbacks whose init or
\* terminate has failed are no longer in the list.
FailedAreRemoved == round = "none" => failed \intersect Reachable = {}

-----------------------------------------------------------------------------
(* Refinement of CallbackRegistry *)

\* Cells in the order of their allocation.
InOrder(cells) ==
    LET upTo[c \in 0..(MaxCallbacks + 1)] ==
            IF c = 0 THEN << >>
            ELSE IF c \in cells THEN Append(upTo[c - 1], c)
            ELSE upTo[c - 1]
    IN  upTo[MaxCallbacks + 1]

\* The callbacks in the list, in the order of the next pointers, which lead from
\* a cell to one that was allocated later.
Chain == InOrder(Reachable \ {1})

Registry == INSTANCE CallbackRegistry WITH
    list <- Chain,
    round <- round # "none"

\* The heap of cells implements the registry of callbacks.
Implements == Registry!Spec
===============================================================================
