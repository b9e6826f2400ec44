-------------------------- MODULE CallbackListProofs --------------------------
(***************************************************************************)
(* Theorems about CallbackList, for every number of callbacks and rounds   *)
(* and whichever callbacks have no init and terminate.                     *)
(***************************************************************************)
EXTENDS CallbackList, Induction

-----------------------------------------------------------------------------
(* The inductive invariant *)

(***************************************************************************)
(* llist_append finds the last cell, so a cell's prev is the cell allocated *)
(* before it, and remains that although the list changes.  A removal links *)
(* that cell past the failed one; so a next pointer goes forward, and what *)
(* it goes past has failed.                                                *)
(***************************************************************************)
PointerInv ==
    /\ head = IF used = 0 THEN NULL ELSE 1
    /\ head = NULL => cursor = NULL
    /\ \A c \in Cells : c >= used => next[c] = NULL
    /\ \A c \in Allocated : c < used =>
          /\ next[c] \in (c + 1)..used
          /\ \A d \in Allocated : c < d /\ d < next[c] => d \in failed
    /\ \A c \in Allocated \ {1} : prev[c] = c - 1

PassedInv == round # "none" => \A j \in DOMAIN passed : passed[j] < used

ListInv == TypeOK /\ PointerInv /\ PassedInv

LEMMA ListInit == Init => ListInv
<1>. SUFFICES ASSUME Init PROVE ListInv
  OBVIOUS
<1>1. << >> \in Seq(Callbacks) /\ MaxCallbacks \in Nat /\ MaxRounds \in Nat
  BY CallbackListAssumption
<1>2. TypeOK
  BY <1>1 DEF Init, TypeOK, Allocated, Kinds
<1>3. PointerInv
  BY DEF Init, PointerInv, Allocated
<1>. QED
  BY <1>2, <1>3 DEF Init, ListInv, PassedInv

LEMMA Numbers ==
    ASSUME ListInv
    PROVE  /\ used \in Nat /\ MaxCallbacks \in Nat /\ used <= MaxCallbacks + 1
           /\ Allocated \subseteq Cells
           /\ next \in [Cells -> {NULL} \union Allocated]
           /\ prev \in [Cells -> {NULL} \union Allocated]
  BY CallbackListAssumption DEF ListInv, TypeOK, Allocated, Cells

\* The pointers from the head pass no cell by that has not failed, and arrive
\* at the last one: take the largest cell that a closed set has up to c.
LEMMA NonePassedBy ==
    ASSUME ListInv, NEW S \in SUBSET Allocated, head \in S,
           \A d \in S : next[d] # NULL => next[d] \in S,
           NEW c \in Allocated, c \notin failed \/ c = used
    PROVE  c \in S
<1>. DEFINE T == {d \in S : d <= c}
<1>1. used \in Nat /\ c \in 1..used /\ S \subseteq 1..used
  BY Numbers DEF Allocated
<1>2. head = 1
  BY <1>1 DEF ListInv, PointerInv
<1>3. T # {} /\ T \in SUBSET (0..c) /\ c \in Nat
  <2>1. c \in Nat /\ 1 \in T
    BY <1>1, <1>2
  <2>2. ASSUME NEW d \in T
        PROVE  d \in 0..c
    <3>1. d \in S /\ d <= c
      OBVIOUS
    <3>. QED
      BY <1>1, <2>1, <3>1
  <2>. QED
    BY <2>1, <2>2
<1>4. PICK m \in T : \A k \in T : k <= m
  BY <1>3, Largest
<1>5. CASE m = c
  BY <1>5
<1>6. CASE m # c
  <2>1. m \in Allocated /\ m < c /\ m < used /\ m \in S
    BY <1>1, <1>6 DEF Allocated
  <2>2. /\ next[m] \in (m + 1)..used
        /\ \A d \in Allocated : m < d /\ d < next[m] => d \in failed
    BY <2>1 DEF ListInv, PointerInv
  <2>3. next[m] # NULL
    BY <1>1, <2>1, <2>2 DEF NULL
  <2>4. next[m] \in S
    BY <2>1, <2>3
  <2>5. ~(next[m] <= c)
    BY <1>1, <1>4, <2>1, <2>2, <2>4
  <2>6. c < next[m]
    BY <1>1, <2>2, <2>5
  <2>7. c \in failed /\ c # used
    BY <1>1, <2>1, <2>2, <2>6
  <2>. QED
    BY <2>7
<1>. QED
  BY <1>5, <1>6

LEMMA EndIsLast ==
    ASSUME ListInv, head # NULL
    PROVE  {c \in Reachable : next[c] = NULL} = {used}
<1>1. used \in Nat /\ used # 0 /\ used \in Allocated /\ Allocated = 1..used
  BY Numbers DEF ListInv, PointerInv, Allocated
<1>2. used \in Reachable
  BY <1>1, NonePassedBy DEF Reachable
<1>3. next[used] = NULL
  BY <1>1, Numbers DEF ListInv, PointerInv
<1>4. ASSUME NEW c \in Reachable, next[c] = NULL
      PROVE  c = used
  <2>1. c \in 1..used
    BY <1>1, <1>4 DEF Reachable
  <2>2. ~(c < used)
    <3>1. SUFFICES ASSUME c < used PROVE FALSE
      OBVIOUS
    <3>2. next[c] \in (c + 1)..used
      BY <1>1, <2>1, <3>1 DEF ListInv, PointerInv
    <3>. QED
      BY <1>1, <1>4, <2>1, <3>2 DEF NULL
  <2>. QED
    BY <1>1, <2>1, <2>2
<1>. QED
  BY <1>2, <1>3, <1>4

-----------------------------------------------------------------------------
(* The steps *)

\* A callback gets the cell allocated next, behind the one that was last.
LEMMA RegisterWrites ==
    ASSUME ListInv, Register
    PROVE  /\ used' = (IF head = NULL THEN 2 ELSE used + 1) /\ used' \in Cells
           /\ head' = 1
           /\ next' = [next EXCEPT ![used' - 1] = used']
           /\ prev' = [prev EXCEPT ![used'] = used' - 1]
<1>1. used \in Nat /\ (CreatesList <=> head = NULL) /\ (head # NULL => head = 1)
  BY Numbers DEF CreatesList, ListInv, PointerInv
<1>2. used' = (IF head = NULL THEN 2 ELSE used + 1) /\ used' \in Cells
  BY <1>1 DEF Register
<1>3. CASE head = NULL
  BY <1>1, <1>2, <1>3 DEF Register, Appended
<1>4. CASE head # NULL
  <2>1. PICK end \in {c \in Reachable : next[c] = NULL} :
            /\ head' = head
            /\ next' = [next EXCEPT ![end] = used']
            /\ prev' = [prev EXCEPT ![used'] = end]
    BY <1>1, <1>2, <1>4 DEF Register, Appended
  <2>2. end = used /\ used' - 1 = used
    BY <1>1, <1>2, <1>4, <2>1, EndIsLast
  <2>. QED
    BY <1>1, <1>2, <1>4, <2>1, <2>2
<1>. QED
  BY <1>3, <1>4

LEMMA RegisterKeeps ==
    ASSUME ListInv, RegisterRefused \/ Register
    PROVE  ListInv'
<1>1. /\ round = "none" /\ used <= MaxCallbacks
      /\ UNCHANGED <<cursor, round, passed, failed, rounds>>
  BY DEF RegisterRefused, Register
<1>2. /\ used \in Nat /\ MaxCallbacks \in Nat
      /\ next \in [Cells -> {NULL} \union Allocated]
      /\ prev \in [Cells -> {NULL} \union Allocated]
  BY Numbers
<1>3. PassedInv'
  BY <1>1 DEF PassedInv
<1>4. CASE RegisterRefused
  <2>1. /\ head = NULL /\ used = 0 /\ head' = 1 /\ used' = 1
        /\ UNCHANGED <<next, prev>>
    BY <1>2, <1>4 DEF RegisterRefused, CreatesList, ListInv, PointerInv, NULL
  <2>2. Allocated = {} /\ Allocated' = {1}
    BY <2>1 DEF Allocated
  <2>3. TypeOK'
    BY <1>1, <1>2, <2>1, <2>2 DEF ListInv, TypeOK
  <2>4. PointerInv'
    BY <1>1, <1>2, <2>1, <2>2 DEF ListInv, PointerInv, NULL, Cells
  <2>. QED
    BY <1>3, <2>3, <2>4 DEF ListInv
<1>5. CASE Register
  <2>. DEFINE new == IF head = NULL THEN 2 ELSE used + 1
              last == new - 1
  <2>1. /\ used' = new /\ new \in Cells /\ new \in Nat \ {0, 1}
        /\ used <= last /\ (used = last \/ used = 0)
        /\ last \in Cells
    BY <1>2, <1>5, RegisterWrites DEF ListInv, PointerInv, Cells, NULL
  <2>2. /\ head' = 1
        /\ next' = [next EXCEPT ![last] = new]
        /\ prev' = [prev EXCEPT ![new] = last]
    BY <1>5, <2>1, RegisterWrites
  <2>3. /\ Allocated' = 1..new /\ Allocated = 1..used
        /\ Allocated \subseteq Allocated' /\ last \in Allocated' /\ new \in Allocated'
    BY <1>2, <2>1 DEF Allocated
  <2>4. TypeOK'
    <3>1. used' \in 0..(MaxCallbacks + 1)
      BY <1>2, <2>1 DEF Cells
    <3>2. /\ next' \in [Cells -> {NULL} \union Allocated']
          /\ prev' \in [Cells -> {NULL} \union Allocated']
      BY <1>2, <2>1, <2>2, <2>3
    <3>3. head' \in {NULL} \union Allocated' /\ cursor' \in {NULL} \union Allocated'
      BY <1>1, <2>1, <2>2, <2>3 DEF ListInv, TypeOK
    <3>. QED
      BY <1>1, <3>1, <3>2, <3>3 DEF ListInv, TypeOK
  <2>5. PointerInv'
    <3>1. \A c \in Cells : c >= new => next'[c] = NULL
      <4>1. \A c \in Cells : c >= new => c # last /\ c >= used
        BY <1>2, <2>1 DEF Cells
      <4>. QED
        BY <1>2, <2>2, <4>1 DEF ListInv, PointerInv
    <3>2. ASSUME NEW c \in Allocated', c < new
          PROVE  /\ next'[c] \in (c + 1)..new
                 /\ \A d \in Allocated' : c < d /\ d < next'[c] => d \in failed
      <4>1. CASE c = last
        BY <1>2, <2>1, <2>2, <2>3, <4>1
      <4>2. CASE c # last
        <5>1. c \in Allocated /\ c < used /\ used = last /\ next'[c] = next[c]
          BY <1>2, <2>1, <2>2, <2>3, <3>2, <4>2
        <5>2. /\ next[c] \in (c + 1)..used
              /\ \A d \in Allocated : c < d /\ d < next[c] => d \in failed
          BY <5>1 DEF ListInv, PointerInv
        <5>3. \A d \in Allocated' : d < next[c] => d \in Allocated
          BY <1>2, <2>1, <2>3, <5>1, <5>2
        <5>. QED
          BY <1>2, <2>1, <5>1, <5>2, <5>3
      <4>. QED
        BY <4>1, <4>2
    <3>3. ASSUME NEW c \in Allocated' \ {1}
          PROVE  prev'[c] = c - 1
      <4>1. CASE c = new
        BY <1>2, <2>1, <2>2, <4>1
      <4>2. CASE c # new
        <5>1. c \in Allocated \ {1}
          BY <1>2, <2>1, <2>3, <3>3, <4>2
        <5>. QED
          BY <1>2, <2>2, <4>2, <5>1 DEF ListInv, PointerInv
      <4>. QED
        BY <4>1, <4>2
    <3>. QED
      BY <1>1, <2>1, <2>2, <3>1, <3>2, <3>3 DEF PointerInv, NULL
  <2>. QED
    BY <1>3, <2>4, <2>5 DEF ListInv
<1>. QED
  BY <1>4, <1>5

LEMMA BeginKeeps ==
    ASSUME ListInv, NEW kind \in Kinds, BeginRound(kind)
    PROVE  ListInv'
<1>1. /\ cursor' = head /\ passed' = << >> /\ rounds' = rounds + 1
      /\ rounds < MaxRounds
      /\ round' = IF head = NULL THEN "none" ELSE kind
      /\ UNCHANGED <<head, used, next, prev, failed>>
  BY DEF BeginRound
<1>2. << >> \in Seq(Callbacks) /\ rounds' \in 0..MaxRounds
  BY <1>1, CallbackListAssumption DEF ListInv, TypeOK
<1>3. TypeOK'
  BY <1>1, <1>2 DEF ListInv, TypeOK, Allocated
<1>4. PointerInv'
  BY <1>1 DEF ListInv, PointerInv, Allocated
<1>. QED
  BY <1>1, <1>3, <1>4 DEF ListInv, PassedInv

\* The cell under the cursor when the loop has a turn, and the next one.
LEMMA TurnFacts ==
    ASSUME ListInv, Turn
    PROVE  /\ cursor \in Allocated /\ cursor < used
           /\ next[cursor] \in (cursor + 1)..used
           /\ cursor' \in Allocated /\ cursor' # NULL
           /\ UNCHANGED <<head, used, prev, round, rounds>>
<1>1. /\ round # "none" /\ next[cursor] # NULL /\ cursor' = next[cursor]
      /\ UNCHANGED <<head, used, prev, round, rounds>>
  BY DEF Turn
<1>2. cursor \in Allocated
  BY <1>1 DEF ListInv, TypeOK
<1>3. used \in Nat /\ Allocated = 1..used /\ Allocated \subseteq Cells
  BY Numbers DEF Allocated
<1>4. cursor < used
  BY <1>1, <1>2, <1>3 DEF ListInv, PointerInv
<1>5. next[cursor] \in (cursor + 1)..used
  BY <1>2, <1>4 DEF ListInv, PointerInv
<1>. QED
  BY <1>1, <1>2, <1>3, <1>4, <1>5 DEF NULL

\* What has been passed was followed by another cell.
LEMMA PassedKeeps ==
    ASSUME ListInv, Turn, Value(cursor) # NULL, passed' = Append(passed, Value(cursor))
    PROVE  PassedInv' /\ passed' \in Seq(Callbacks) /\ cursor \in Callbacks
<1>1. /\ cursor \in Allocated /\ cursor < used /\ Value(cursor) = cursor /\ cursor # 1
      /\ used' = used /\ round # "none"
  BY TurnFacts DEF Turn, Value
<1>2. cursor \in Callbacks
  BY <1>1, Numbers DEF Callbacks
<1>3. passed \in Seq(Callbacks) /\ \A j \in DOMAIN passed : passed[j] < used
  BY <1>1 DEF ListInv, TypeOK, PassedInv
<1>4. passed' \in Seq(Callbacks) /\ Len(passed') = Len(passed) + 1
  BY <1>1, <1>2, <1>3
<1>5. \A j \in DOMAIN passed' : passed'[j] < used
  <2>1. \A j \in DOMAIN passed' :
            passed'[j] = IF j = Len(passed) + 1 THEN cursor ELSE passed[j]
    BY <1>1, <1>2, <1>3
  <2>2. \A j \in DOMAIN passed' : j = Len(passed) + 1 \/ j \in DOMAIN passed
    BY <1>3, <1>4
  <2>. QED
    BY <1>1, <1>3, <2>1, <2>2
<1>. QED
  BY <1>1, <1>2, <1>4, <1>5 DEF PassedInv

LEMMA TurnKeeps ==
    ASSUME ListInv, SkipNull \/ PassCallback
    PROVE  ListInv'
<1>1. Turn /\ UNCHANGED <<next, failed>>
  BY DEF SkipNull, PassCallback
<1>2. /\ cursor' \in Allocated /\ cursor' # NULL
      /\ UNCHANGED <<head, used, prev, round, rounds>>
      /\ round # "none"
  BY <1>1, TurnFacts DEF Turn
<1>3. PointerInv'
  <2>1. head # NULL
    BY <1>1, TurnFacts, Numbers DEF ListInv, PointerInv, Allocated, NULL
  <2>. QED
    BY <1>1, <1>2, <2>1 DEF ListInv, PointerInv, Allocated
<1>4. passed' \in Seq(Callbacks) /\ PassedInv'
  <2>1. CASE SkipNull
    BY <1>2, <2>1 DEF SkipNull, ListInv, TypeOK, PassedInv
  <2>2. CASE PassCallback
    BY <1>1, <2>2, PassedKeeps DEF PassCallback
  <2>. QED
    BY <2>1, <2>2
<1>5. TypeOK'
  BY <1>1, <1>2, <1>4 DEF ListInv, TypeOK, Allocated
<1>. QED
  BY <1>3, <1>4, <1>5 DEF ListInv

\* A removal links the cell allocated before the failed one past it.
LEMMA RemovalKeeps ==
    ASSUME ListInv, PassFailing
    PROVE  ListInv'
<1>. DEFINE c == cursor
<1>1. /\ Turn /\ Value(c) # NULL /\ Value(c) = c /\ c # 1 /\ c \notin Hookless
      /\ passed' = Append(passed, Value(c))
      /\ failed' = failed \union {c}
      /\ next' = Unlinked(c)
  BY DEF PassFailing, Value
<1>2. /\ c \in Allocated /\ c < used /\ next[c] \in (c + 1)..used
      /\ cursor' \in Allocated /\ cursor' # NULL
      /\ UNCHANGED <<head, used, prev, round, rounds>>
  BY <1>1, TurnFacts
<1>3. /\ used \in Nat /\ Allocated = 1..used /\ Allocated \subseteq Cells
      /\ next \in [Cells -> {NULL} \union Allocated]
  BY Numbers DEF Allocated
<1>4. prev[c] = c - 1 /\ c - 1 \in Allocated /\ c \in Nat
  BY <1>1, <1>2, <1>3 DEF ListInv, PointerInv
<1>5. next' = [next EXCEPT ![c - 1] = next[c]]
  BY <1>1, <1>2, <1>3, <1>4 DEF Unlinked, NULL
<1>6. next[c] \in Allocated /\ Allocated' = Allocated
  BY <1>2, <1>3 DEF Allocated
<1>7. PassedInv' /\ passed' \in Seq(Callbacks) /\ c \in Callbacks
  BY <1>1, PassedKeeps
<1>8. TypeOK'
  <2>1. next' \in [Cells -> {NULL} \union Allocated]
    BY <1>3, <1>5, <1>6
  <2>2. failed' \subseteq Callbacks \ Hookless
    BY <1>1, <1>7 DEF ListInv, TypeOK
  <2>. QED
    BY <1>2, <1>6, <1>7, <2>1, <2>2 DEF ListInv, TypeOK
<1>9. PointerInv'
  <2>1. head # NULL
    BY <1>2, <1>3 DEF ListInv, PointerInv, NULL
  <2>2. \A d \in Cells : d >= used => next'[d] = NULL
    BY <1>2, <1>3, <1>4, <1>5 DEF ListInv, PointerInv, Cells
  <2>3. ASSUME NEW b \in Allocated, b < used
        PROVE  /\ next'[b] \in (b + 1)..used
               /\ \A d \in Allocated : b < d /\ d < next'[b] => d \in failed'
    <3>1. CASE b = c - 1
      <4>1. next'[b] = next[c]
        BY <1>3, <1>4, <1>5, <3>1
      <4>2. \A d \in Allocated : c < d /\ d < next[c] => d \in failed
        BY <1>2 DEF ListInv, PointerInv
      <4>3. \A d \in Allocated : b < d => d = c \/ c < d
        BY <1>3, <1>4, <3>1
      <4>. QED
        BY <1>1, <1>2, <1>3, <1>4, <3>1, <4>1, <4>2, <4>3
    <3>2. CASE b # c - 1
      <4>1. next'[b] = next[b]
        BY <1>3, <1>4, <1>5, <3>2
      <4>. QED
        BY <1>1, <2>3, <4>1 DEF ListInv, PointerInv
    <3>. QED
      BY <3>1, <3>2
  <2>. QED
    BY <1>2, <1>6, <2>1, <2>2, <2>3 DEF ListInv, PointerInv
<1>. QED
  BY <1>7, <1>8, <1>9 DEF ListInv

LEMMA ListNext == ListInv /\ [Next]_vars => ListInv'
<1>. SUFFICES ASSUME ListInv, [Next]_vars PROVE ListInv'
  OBVIOUS
<1>1. CASE EndRound
  BY <1>1 DEF EndRound, ListInv, TypeOK, PointerInv, PassedInv, Allocated
<1>2. CASE UNCHANGED vars
  BY <1>2 DEF vars, ListInv, TypeOK, PointerInv, PassedInv, Allocated
<1>. QED
  BY <1>1, <1>2, RegisterKeeps, BeginKeeps, TurnKeeps, RemovalKeeps DEF Next, Finished

LEMMA ListAlways == Spec => []ListInv
  BY ListInit, ListNext, PTL DEF Spec

-----------------------------------------------------------------------------
(* Theorems *)

\* Every variable keeps its type; a loop has a cell under its cursor as long as
\* it goes on.
THEOREM Typing == Spec => []TypeOK
<1>1. ListInv => TypeOK
  BY DEF ListInv
<1>. QED
  BY <1>1, ListAlways, PTL

\* However many callbacks were removed through their stale prev pointers, the
\* list ends at the callback registered last, where the next one is appended.
THEOREM OneEndAlways == Spec => []OneEnd
<1>1. ListInv => OneEnd
  BY EndIsLast DEF OneEnd
<1>. QED
  BY <1>1, ListAlways, PTL

\* A removal takes nothing away but what has failed.
THEOREM HealthyStayAlways == Spec => []HealthyStay
<1>1. ListInv => HealthyStay
  <2>. SUFFICES ASSUME ListInv, NEW c \in Allocated \ {1}, c \notin failed
                PROVE  c \in Reachable
    BY DEF HealthyStay
  <2>. QED
    BY NonePassedBy DEF Reachable
<1>. QED
  BY <1>1, ListAlways, PTL

\* A loop never gets to the callback that was registered last.
THEOREM YoungestIsNotPassed == Spec => []YoungestNeverPassed
<1>1. ListInv => YoungestNeverPassed
  <2>. SUFFICES ASSUME ListInv, round # "none", NEW j \in DOMAIN passed
                PROVE  passed[j] # used
    BY DEF YoungestNeverPassed
  <2>1. passed[j] < used /\ used \in Nat
    BY Numbers DEF ListInv, PassedInv
  <2>. QED
    BY <2>1
<1>. QED
  BY <1>1, ListAlways, PTL
-----------------------------------------------------------------------------
(* What is removed stays removed *)

\* The sets of cells that the next pointers do not lead out of.
Closed(S) == /\ S \in SUBSET Allocated
             /\ head \in S
             /\ \A d \in S : next[d] # NULL => next[d] \in S

(***************************************************************************)
(* The loop reads next before its body may unlink the cell it has passed,  *)
(* so the cell it goes on from is in the list, although the predecessor of *)
(* the unlinked cell, its prev, may have been removed before.              *)
(***************************************************************************)
CursorInv == round # "none" => cursor \in Reachable

LEMMA ReachableCells ==
    \A c : c \in Reachable <=> c \in Allocated /\ \A S : Closed(S) => c \in S
  BY DEF Reachable, Closed

\* What the unlinking of the cell under the cursor writes.
LEMMA RemovalWrites ==
    ASSUME ListInv, PassFailing
    PROVE  /\ cursor - 1 \in Allocated /\ cursor \in Allocated
           /\ next' = [next EXCEPT ![cursor - 1] = next[cursor]]
           /\ next[cursor] # NULL /\ cursor - 1 # cursor
           /\ cursor' = next[cursor] /\ cursor' \in Allocated
           /\ UNCHANGED <<head, used, round>>
<1>1. /\ Turn /\ Value(cursor) # NULL /\ Value(cursor) = cursor /\ cursor # 1
      /\ next' = Unlinked(cursor)
  BY DEF PassFailing, Value
<1>2. /\ cursor \in Allocated /\ cursor < used /\ next[cursor] \in (cursor + 1)..used
      /\ cursor' \in Allocated
      /\ UNCHANGED <<head, used, round>>
  BY <1>1, TurnFacts
<1>3. used \in Nat /\ Allocated = 1..used
  BY Numbers DEF Allocated
<1>4. prev[cursor] = cursor - 1 /\ cursor - 1 \in Allocated /\ cursor \in Nat
  BY <1>1, <1>2, <1>3 DEF ListInv, PointerInv
<1>. QED
  BY <1>1, <1>2, <1>3, <1>4 DEF Unlinked, Turn, NULL

LEMMA CursorNext == ListInv /\ CursorInv /\ [Next]_vars => CursorInv'
<1>. SUFFICES ASSUME ListInv, CursorInv, [Next]_vars, round' # "none"
              PROVE  cursor' \in Reachable'
  BY DEF CursorInv
<1>1. CASE UNCHANGED vars
  BY <1>1 DEF CursorInv, Reachable, Allocated, vars
<1>2. CASE RegisterRefused \/ Register \/ EndRound \/ Finished
  BY <1>1, <1>2 DEF RegisterRefused, Register, EndRound, Finished
<1>3. CASE \E kind \in Kinds : BeginRound(kind)
  <2>1. /\ cursor' = head /\ head # NULL
        /\ UNCHANGED <<head, used, next>>
    BY <1>3 DEF BeginRound
  <2>2. head \in Allocated
    BY <2>1 DEF ListInv, TypeOK
  <2>. QED
    BY <2>1, <2>2 DEF Reachable, Allocated
<1>4. CASE SkipNull \/ PassCallback
  <2>1. Turn /\ UNCHANGED <<next, head, used>>
    BY <1>4 DEF SkipNull, PassCallback, Turn
  <2>2. cursor' = next[cursor] /\ cursor' # NULL /\ cursor' \in Allocated
    BY <2>1, TurnFacts DEF Turn
  <2>3. cursor \in Reachable
    BY <2>1 DEF Turn, CursorInv
  <2>. QED
    BY <2>1, <2>2, <2>3 DEF Reachable, Allocated
<1>5. CASE PassFailing
  <2>1. /\ cursor - 1 \in Allocated /\ cursor \in Allocated
        /\ next' = [next EXCEPT ![cursor - 1] = next[cursor]]
        /\ next[cursor] # NULL /\ cursor - 1 # cursor
        /\ cursor' = next[cursor] /\ cursor' \in Allocated
        /\ UNCHANGED <<head, used, round>>
    BY <1>5, RemovalWrites
  <2>2. cursor \in Reachable
    BY <1>5 DEF PassFailing, CursorInv
  <2>3. next \in [Cells -> {NULL} \union Allocated] /\ Allocated \subseteq Cells
    BY Numbers
  <2>4. ASSUME NEW S \in SUBSET Allocated, head \in S,
               \A d \in S : next'[d] # NULL => next'[d] \in S
        PROVE  cursor' \in S
    <3>1. CASE cursor \in S
      BY <2>1, <2>3, <2>4, <3>1
    <3>2. CASE cursor - 1 \in S
      BY <2>1, <2>3, <2>4, <3>2
    <3>3. CASE cursor - 1 \notin S
      <4>1. \A d \in S : next'[d] = next[d]
        BY <2>1, <2>3, <3>3
      <4>2. Closed(S)
        BY <2>4, <4>1 DEF Closed
      <4>3. cursor \in S
        BY <2>2, <4>2, ReachableCells
      <4>. QED
        BY <3>1, <4>3
    <3>. QED
      BY <3>2, <3>3
  <2>. QED
    BY <2>1, <2>4 DEF Reachable, Allocated
<1>. QED
  BY <1>1, <1>2, <1>3, <1>4, <1>5 DEF Next

\* A set that leaves a cell out can be had after the step, too.
LEMMA StaysRemoved ==
    ASSUME ListInv, CursorInv, Next, NEW c \in Allocated, c \notin Reachable
    PROVE  c \notin Reachable'
<1>1. PICK S : Closed(S) /\ c \notin S
  BY ReachableCells
<1>2. /\ used \in Nat /\ used # 0 /\ head # NULL /\ Allocated = 1..used
      /\ next \in [Cells -> {NULL} \union Allocated] /\ Allocated \subseteq Cells
  BY Numbers DEF ListInv, PointerInv, Allocated, NULL
<1>. SUFFICES \E T \in SUBSET Allocated' :
                /\ head' \in T /\ c \notin T
                /\ \A d \in T : next'[d] # NULL => next'[d] \in T
  BY DEF Reachable
<1>3. CASE UNCHANGED <<head, used, next>>
  BY <1>1, <1>3 DEF Closed, Allocated
<1>4. CASE RegisterRefused \/ Finished \/ EndRound \/ SkipNull \/ PassCallback
           \/ \E kind \in Kinds : BeginRound(kind)
  <2>1. ~RegisterRefused
    BY <1>2 DEF RegisterRefused, CreatesList
  <2>. QED
    BY <1>3, <1>4, <2>1
       DEF Finished, EndRound, SkipNull, PassCallback, Turn, BeginRound, vars
<1>5. CASE Register
  <2>1. PICK last \in Reachable :
            /\ next[last] = NULL
            /\ head' = head /\ used' = used + 1 /\ used + 1 \in Cells
            /\ next' = [next EXCEPT ![last] = used + 1]
    BY <1>2, <1>5 DEF Register, CreatesList, Appended
  <2>. DEFINE T == S \union {used + 1}
  <2>2. Allocated' = 1..(used + 1) /\ T \in SUBSET Allocated'
    BY <1>1, <1>2, <2>1 DEF Closed, Allocated
  <2>3. c \notin T /\ head' \in T
    BY <1>1, <1>2, <2>1 DEF Closed
  <2>4. last \in Allocated /\ last # used + 1
    BY <1>2, <2>1 DEF Reachable
  <2>5. next'[used + 1] = NULL
    BY <1>2, <2>1, <2>4 DEF ListInv, PointerInv
  <2>6. \A d \in S : next'[d] \in {next[d], used + 1}
    BY <1>1, <1>2, <2>1 DEF Closed
  <2>7. \A d \in T : next'[d] # NULL => next'[d] \in T
    BY <1>1, <2>5, <2>6 DEF Closed
  <2>. QED
    BY <2>2, <2>3, <2>7
<1>6. CASE PassFailing
  <2>1. /\ cursor - 1 \in Allocated /\ cursor \in Allocated
        /\ next' = [next EXCEPT ![cursor - 1] = next[cursor]]
        /\ next[cursor] # NULL
        /\ UNCHANGED <<head, used>>
    BY <1>6, RemovalWrites
  <2>2. cursor \in S
    BY <1>1, <1>6, ReachableCells DEF PassFailing, CursorInv
  <2>3. \A d \in S : next'[d] = next[d] \/ next'[d] = next[cursor]
    BY <1>1, <1>2, <2>1 DEF Closed
  <2>4. \A d \in S : next'[d] # NULL => next'[d] \in S
    BY <1>1, <2>1, <2>2, <2>3 DEF Closed
  <2>. QED
    BY <1>1, <2>1, <2>4 DEF Closed, Allocated
<1>. QED
  BY <1>4, <1>5, <1>6 DEF Next

\* A callback that a failing init or terminate took out of the list never
\* gets back, although its own pointers and those to it are still written.
THEOREM RemovedForGood == Spec => RemovedStayRemoved
<1>1. Init => CursorInv
  BY DEF Init, CursorInv
<1>2. ListInv /\ CursorInv /\ [Next]_vars
      => [\A c \in Allocated : c \notin Reachable => c \notin Reachable']_vars
  BY StaysRemoved
<1>. QED
  BY <1>1, <1>2, CursorNext, ListAlways, PTL DEF Spec, RemovedStayRemoved
-----------------------------------------------------------------------------
(* A set of cells in the order of their allocation *)

Sorted(s, S) == s \in Seq(Nat) /\ Increasing(s) /\ ToSet(s) = S

LEMMA SortedElements ==
    ASSUME NEW s, NEW S, Sorted(s, S)
    PROVE  /\ s \in Seq(Nat) /\ Len(s) \in Nat /\ DOMAIN s = 1..Len(s)
           /\ \A i \in 1..Len(s) : s[i] \in Nat /\ s[i] \in S
           /\ \A c \in S : \E i \in 1..Len(s) : s[i] = c
           /\ \A i, j \in 1..Len(s) : i < j => s[i] < s[j]
<1>1. s \in Seq(Nat)
  BY DEF Sorted
<1>2. Len(s) \in Nat /\ DOMAIN s = 1..Len(s) /\ \A i \in 1..Len(s) : s[i] \in Nat
  BY <1>1
<1>3. /\ \A i \in 1..Len(s) : s[i] \in S
      /\ \A c \in S : \E i \in 1..Len(s) : s[i] = c
  BY <1>2 DEF Sorted, ToSet
<1>. QED
  BY <1>1, <1>2, <1>3 DEF Sorted, Increasing

LEMMA SortedAgree ==
    ASSUME NEW s, NEW t, NEW C, Sorted(s, C), Sorted(t, C)
    PROVE  Len(s) <= Len(t) /\ \A i \in 1..Len(s) : s[i] = t[i]
<1>1. /\ Len(s) \in Nat /\ Len(t) \in Nat
      /\ \A i \in 1..Len(s) : s[i] \in Nat /\ s[i] \in C
      /\ \A i \in 1..Len(t) : t[i] \in Nat /\ t[i] \in C
      /\ \A c \in C : \E i \in 1..Len(s) : s[i] = c
      /\ \A c \in C : \E i \in 1..Len(t) : t[i] = c
      /\ \A i, j \in 1..Len(s) : i < j => s[i] < s[j]
      /\ \A i, j \in 1..Len(t) : i < j => t[i] < t[j]
  BY SortedElements
<1>. DEFINE S == {m \in Nat : m <= Len(s) =>
                    m <= Len(t) /\ \A i \in 1..m : s[i] = t[i]}
<1>2. 0 \in S
  BY <1>1
<1>3. ASSUME NEW m \in Nat, m \in S
      PROVE  m + 1 \in S
  <2>. SUFFICES ASSUME m + 1 <= Len(s)
                PROVE  m + 1 <= Len(t) /\ \A i \in 1..(m + 1) : s[i] = t[i]
    OBVIOUS
  <2>1. m <= Len(t) /\ \A i \in 1..m : s[i] = t[i]
    BY <1>1, <1>3
  <2>2. PICK j \in 1..Len(t) : t[j] = s[m + 1]
    <3>1. m + 1 \in 1..Len(s)
      BY <1>1
    <3>. QED
      BY <1>1, <3>1
  <2>3. j > m
    <3>. SUFFICES ASSUME j <= m PROVE FALSE
      BY <1>1
    <3>1. j \in 1..m /\ j \in 1..Len(s) /\ m + 1 \in 1..Len(s) /\ j < m + 1
      BY <1>1
    <3>2. s[j] < s[m + 1] /\ s[j] = t[j] /\ s[j] \in Nat /\ s[m + 1] \in Nat
      BY <1>1, <2>1, <3>1
    <3>. QED
      BY <2>2, <3>2
  <2>4. m + 1 \in 1..Len(t)
    BY <1>1, <2>3
  <2>5. PICK k \in 1..Len(s) : s[k] = t[m + 1]
    BY <1>1, <2>4
  <2>6. k > m
    <3>. SUFFICES ASSUME k <= m PROVE FALSE
      BY <1>1
    <3>1. k \in 1..m /\ k \in 1..Len(t) /\ k < m + 1
      BY <1>1, <2>1
    <3>2. t[k] < t[m + 1] /\ s[k] = t[k] /\ t[k] \in Nat /\ t[m + 1] \in Nat
      BY <1>1, <2>1, <2>4, <3>1
    <3>. QED
      BY <2>5, <3>2
  <2>7. s[m + 1] = t[m + 1]
    <3>1. m + 1 \in 1..Len(s) /\ s[m + 1] \in Nat /\ t[m + 1] \in Nat
      BY <1>1, <2>4
    <3>2. k = m + 1 \/ s[m + 1] < s[k]
      BY <1>1, <2>6, <3>1
    <3>3. j = m + 1 \/ t[m + 1] < t[j]
      BY <1>1, <2>3, <2>4
    <3>. QED
      BY <2>2, <2>5, <3>1, <3>2, <3>3
  <2>8. \A i \in 1..(m + 1) : i \in 1..m \/ i = m + 1
    OBVIOUS
  <2>. QED
    BY <1>1, <2>1, <2>4, <2>7, <2>8
<1>4. \A m \in Nat : m \in S
  <2>. HIDE DEF S
  <2>. QED
    BY <1>2, <1>3, InductiveSet
<1>. QED
  BY <1>1, <1>4

LEMMA SortedUnique ==
    ASSUME NEW s, NEW t, NEW C, Sorted(s, C), Sorted(t, C)
    PROVE  s = t
<1>1. Len(s) <= Len(t) /\ \A i \in 1..Len(s) : s[i] = t[i]
  BY SortedAgree
<1>2. Len(t) <= Len(s)
  BY SortedAgree
<1>3. s \in Seq(Nat) /\ t \in Seq(Nat) /\ Len(s) \in Nat /\ Len(t) \in Nat
  BY SortedElements
<1>4. Len(s) = Len(t)
  BY <1>1, <1>2, <1>3
<1>. QED
  BY <1>1, <1>3, <1>4, SeqEqual

LEMMA SortedAppend ==
    ASSUME NEW s, NEW C, Sorted(s, C), NEW v \in Nat, \A c \in C : c < v
    PROVE  Sorted(Append(s, v), C \union {v})
<1>1. /\ s \in Seq(Nat) /\ Increasing(s) /\ ToSet(s) = C
      /\ \A i \in 1..Len(s) : s[i] < v
  BY SortedElements DEF Sorted
<1>2. Append(s, v) \in Seq(Nat)
  BY <1>1, AppendProperties
<1>3. Increasing(Append(s, v))
  BY <1>1, IncreasingAppend
<1>4. ToSet(Append(s, v)) = C \union {v}
  BY <1>1, ToSetAppend
<1>. QED
  BY <1>2, <1>3, <1>4 DEF Sorted

LEMMA RemoveAtElements ==
    ASSUME NEW s \in Seq(Nat), NEW j \in 1..Len(s)
    PROVE  /\ RemoveAt(s, j) \in Seq(Nat)
           /\ Len(RemoveAt(s, j)) = Len(s) - 1
           /\ \A i \in 1..(Len(s) - 1) :
                RemoveAt(s, j)[i] = IF i < j THEN s[i] ELSE s[i + 1]
<1>1. Len(s) \in Nat /\ \A i \in 1..Len(s) : s[i] \in Nat
  OBVIOUS
<1>. DEFINE a == SubSeq(s, 1, j - 1)
            b == SubSeq(s, j + 1, Len(s))
<1>2. /\ a \in Seq(Nat) /\ Len(a) = j - 1
      /\ \A i \in 1..(j - 1) : a[i] = s[i]
  <2>1. 1 \in Int /\ j - 1 \in Int /\ \A i \in 1..(j - 1) : s[i] \in Nat
    BY <1>1
  <2>2. /\ a \in Seq(Nat) /\ Len(a) = IF 1 <= j - 1 THEN (j - 1) - 1 + 1 ELSE 0
        /\ \A i \in 1..((j - 1) - 1 + 1) : a[i] = s[1 + i - 1]
    BY <2>1, SubSeqProperties
  <2>3. \A i \in 1..(j - 1) : i \in 1..((j - 1) - 1 + 1) /\ 1 + i - 1 = i
    BY <1>1
  <2>. HIDE DEF a
  <2>. QED
    BY <1>1, <2>2, <2>3
<1>3. /\ b \in Seq(Nat) /\ Len(b) = Len(s) - j
      /\ \A i \in 1..(Len(s) - j) : b[i] = s[j + i]
  <2>1. j + 1 \in Int /\ Len(s) \in Int /\ \A i \in (j + 1)..Len(s) : s[i] \in Nat
    BY <1>1
  <2>2. /\ b \in Seq(Nat) /\ Len(b) = IF j + 1 <= Len(s) THEN Len(s) - (j + 1) + 1 ELSE 0
        /\ \A i \in 1..(Len(s) - (j + 1) + 1) : b[i] = s[(j + 1) + i - 1]
    BY <2>1, SubSeqProperties
  <2>3. \A i \in 1..(Len(s) - j) : i \in 1..(Len(s) - (j + 1) + 1) /\ (j + 1) + i - 1 = j + i
    BY <1>1
  <2>. HIDE DEF b
  <2>. QED
    BY <1>1, <2>2, <2>3
<1>4. RemoveAt(s, j) = a \o b
  BY DEF RemoveAt
<1>. HIDE DEF a, b
<1>5. /\ a \o b \in Seq(Nat) /\ Len(a \o b) = Len(a) + Len(b)
      /\ \A i \in 1..(Len(a) + Len(b)) :
            (a \o b)[i] = IF i <= Len(a) THEN a[i] ELSE b[i - Len(a)]
  BY <1>2, <1>3, ConcatProperties
<1>6. Len(a) + Len(b) = Len(s) - 1
  BY <1>1, <1>2, <1>3
<1>7. ASSUME NEW i \in 1..(Len(s) - 1)
      PROVE  (a \o b)[i] = IF i < j THEN s[i] ELSE s[i + 1]
  <2>1. (a \o b)[i] = IF i <= j - 1 THEN a[i] ELSE b[i - (j - 1)]
    BY <1>2, <1>5, <1>6
  <2>2. CASE i < j
    <3>1. i <= j - 1 /\ i \in 1..(j - 1)
      BY <1>1, <2>2
    <3>. QED
      BY <1>2, <2>1, <2>2, <3>1
  <2>3. CASE ~(i < j)
    <3>1. ~(i <= j - 1) /\ i - (j - 1) \in 1..(Len(s) - j) /\ j + (i - (j - 1)) = i + 1
      BY <1>1, <2>3
    <3>. QED
      BY <1>3, <2>1, <2>3, <3>1
  <2>. QED
    BY <2>2, <2>3
<1>. QED
  BY <1>4, <1>5, <1>6, <1>7

LEMMA SortedRemove ==
    ASSUME NEW s, NEW C, Sorted(s, C), NEW j \in 1..Len(s)
    PROVE  Sorted(RemoveAt(s, j), C \ {s[j]})
<1>. DEFINE r == RemoveAt(s, j)
<1>1. /\ s \in Seq(Nat) /\ Len(s) \in Nat
      /\ \A i \in 1..Len(s) : s[i] \in Nat /\ s[i] \in C
      /\ \A c \in C : \E i \in 1..Len(s) : s[i] = c
      /\ \A i, k \in 1..Len(s) : i < k => s[i] < s[k]
  BY SortedElements
<1>2. /\ r \in Seq(Nat) /\ Len(r) = Len(s) - 1
      /\ \A i \in 1..(Len(s) - 1) : r[i] = IF i < j THEN s[i] ELSE s[i + 1]
  BY <1>1, RemoveAtElements
<1>. HIDE DEF r
<1>. DEFINE at(i) == IF i < j THEN i ELSE i + 1
<1>3. /\ \A i \in 1..(Len(s) - 1) : at(i) \in 1..Len(s) /\ at(i) # j /\ r[i] = s[at(i)]
      /\ \A i, k \in 1..(Len(s) - 1) : i < k => at(i) < at(k)
      /\ \A k \in 1..Len(s) : k # j => \E i \in 1..(Len(s) - 1) : at(i) = k
  <2>1. ASSUME NEW i \in 1..(Len(s) - 1)
        PROVE  at(i) \in 1..Len(s) /\ at(i) # j /\ r[i] = s[at(i)]
    <3>1. at(i) \in 1..Len(s) /\ at(i) # j
      BY <1>1
    <3>2. r[i] = s[at(i)]
      BY <1>2
    <3>. QED
      BY <3>1, <3>2
  <2>3. ASSUME NEW i \in 1..(Len(s) - 1), NEW k \in 1..(Len(s) - 1), i < k
        PROVE  at(i) < at(k)
    BY <1>1, <2>3
  <2>2. ASSUME NEW k \in 1..Len(s), k # j
        PROVE  \E i \in 1..(Len(s) - 1) : at(i) = k
    <3>1. CASE k < j
      <4>1. k \in 1..(Len(s) - 1) /\ at(k) = k
        BY <1>1, <3>1
      <4>. QED
        BY <4>1
    <3>2. CASE k > j
      <4>1. k - 1 \in 1..(Len(s) - 1) /\ at(k - 1) = k
        BY <1>1, <3>2
      <4>. QED
        BY <4>1
    <3>. QED
      BY <1>1, <2>2, <3>1, <3>2
  <2>. QED
    BY <2>1, <2>2, <2>3
<1>. HIDE DEF at
<1>4. Increasing(r)
  <2>. SUFFICES ASSUME NEW i \in 1..(Len(s) - 1), NEW k \in 1..(Len(s) - 1), i < k
                PROVE  r[i] < r[k]
    BY <1>2 DEF Increasing
  <2>1. at(i) \in 1..Len(s) /\ at(k) \in 1..Len(s) /\ at(i) < at(k)
    BY <1>3
  <2>2. r[i] = s[at(i)] /\ r[k] = s[at(k)]
    BY <1>3
  <2>. QED
    BY <1>1, <2>1, <2>2
<1>5. ToSet(r) = {r[i] : i \in 1..(Len(s) - 1)}
  <2>1. DOMAIN r = 1..(Len(s) - 1)
    BY <1>2
  <2>. QED
    BY <2>1 DEF ToSet
<1>6. \A i \in 1..Len(s) : i # j => s[i] # s[j]
  <2>1. \A i \in 1..Len(s) : i # j => i < j \/ j < i
    BY <1>1
  <2>2. \A i \in 1..Len(s) : i # j => s[i] < s[j] \/ s[j] < s[i]
    BY <1>1, <2>1
  <2>. QED
    BY <1>1, <2>2
<1>7. \A i \in 1..(Len(s) - 1) : r[i] \in C \ {s[j]}
  BY <1>1, <1>3, <1>6
<1>8. ASSUME NEW c \in C \ {s[j]}
      PROVE  \E i \in 1..(Len(s) - 1) : r[i] = c
  <2>1. PICK k \in 1..Len(s) : s[k] = c
    BY <1>1
  <2>2. k # j
    BY <2>1
  <2>3. PICK i \in 1..(Len(s) - 1) : at(i) = k
    BY <1>3, <2>2
  <2>. QED
    BY <1>3, <2>1, <2>3
<1>9. ToSet(r) = C \ {s[j]}
  BY <1>5, <1>7, <1>8
<1>. QED
  BY <1>2, <1>4, <1>9 DEF Sorted, r

\* The function by which InOrder is defined, as an equation.
Orders(f, cells) ==
    f = [c \in 0..(MaxCallbacks + 1) |->
            IF c = 0 THEN << >>
            ELSE IF c \in cells THEN Append(f[c - 1], c) ELSE f[c - 1]]

LEMMA InOrderEqn ==
    ASSUME NEW cells
    PROVE  InOrder(cells) = (CHOOSE f : Orders(f, cells))[MaxCallbacks + 1]
  BY Zenon DEF InOrder, Orders

LEMMA OrdersExists ==
    ASSUME NEW cells
    PROVE  \E f : Orders(f, cells)
<1>. DEFINE last == MaxCallbacks + 1
            step == [c \in 1..last |-> [s \in Seq(Nat) |->
                        IF c \in cells THEN Append(s, c) ELSE s]]
<1>1. last \in Nat
  BY CallbackListAssumption
<1>2. step \in [1..last -> [Seq(Nat) -> Seq(Nat)]]
  BY <1>1, AppendProperties
<1>3. \E f : Recurses(f, Seq(Nat), << >>, last, step)
  <2>1. PICK X : X = Seq(Nat)
    OBVIOUS
  <2>2. << >> \in X
    BY <2>1
  <2>. HIDE DEF last, step
  <2>3. step \in [1..last -> [X -> X]]
    BY <1>2, <2>1
  <2>4. \E f : Recurses(f, X, << >>, last, step)
    BY <1>1, <2>2, <2>3, RecursiveFunction
  <2>. QED
    BY <2>1, <2>4
<1>4. PICK f : Recurses(f, Seq(Nat), << >>, last, step)
  BY <1>3
<1>5. /\ f \in [0..last -> Seq(Nat)] /\ f[0] = << >>
      /\ \A c \in 1..last : f[c] = step[c][f[c - 1]]
  BY <1>4 DEF Recurses
<1>6. ASSUME NEW c \in 0..last
      PROVE  f[c] = IF c = 0 THEN << >>
                    ELSE IF c \in cells THEN Append(f[c - 1], c) ELSE f[c - 1]
  <2>1. CASE c = 0
    BY <1>5, <2>1
  <2>2. CASE c # 0
    <3>1. c \in 1..last /\ c - 1 \in 0..last
      BY <1>1, <2>2
    <3>2. f[c] = step[c][f[c - 1]] /\ f[c - 1] \in Seq(Nat)
      BY <1>5, <3>1
    <3>. QED
      BY <2>2, <3>1, <3>2
  <2>. QED
    BY <2>1, <2>2
<1>7. f = [c \in 0..last |-> IF c = 0 THEN << >>
                             ELSE IF c \in cells THEN Append(f[c - 1], c) ELSE f[c - 1]]
  BY <1>5, <1>6
<1>. QED
  BY <1>7 DEF Orders

LEMMA InOrderSorted ==
    ASSUME NEW cells \in SUBSET Cells
    PROVE  Sorted(InOrder(cells), cells)
<1>. DEFINE last == MaxCallbacks + 1
            f == CHOOSE g : Orders(g, cells)
            upTo(k) == {c \in cells : c <= k}
<1>1. last \in Nat /\ \A c \in cells : c \in 1..last
  BY CallbackListAssumption DEF Cells
<1>2. Orders(f, cells)
  BY OrdersExists, Zenon
<1>3. InOrder(cells) = f[last]
  BY InOrderEqn
<1>. HIDE DEF f
<1>4. \A c \in 0..last :
        f[c] = IF c = 0 THEN << >>
               ELSE IF c \in cells THEN Append(f[c - 1], c) ELSE f[c - 1]
  BY <1>2, Zenon DEF Orders
<1>. DEFINE S == {k \in Nat : k <= last => Sorted(f[k], upTo(k))}
<1>. HIDE DEF last
<1>5. 0 \in S
  <2>1. f[0] = << >>
    BY <1>1, <1>4
  <2>2. upTo(0) = {}
    BY <1>1
  <2>3. << >> \in Seq(Nat) /\ Increasing(<< >>) /\ ToSet(<< >>) = {}
    BY DEF Increasing, ToSet
  <2>4. Sorted(f[0], upTo(0))
    BY <2>1, <2>2, <2>3 DEF Sorted
  <2>. QED
    BY <2>4
<1>6. ASSUME NEW k \in Nat, k \in S
      PROVE  k + 1 \in S
  <2>. SUFFICES ASSUME k + 1 <= last PROVE Sorted(f[k + 1], upTo(k + 1))
    OBVIOUS
  <2>1. k + 1 \in 0..last /\ k + 1 # 0 /\ (k + 1) - 1 = k
    BY <1>1
  <2>2. f[k + 1] = IF k + 1 \in cells THEN Append(f[k], k + 1) ELSE f[k]
    BY <1>4, <2>1
  <2>3. Sorted(f[k], upTo(k))
    BY <1>1, <1>6
  <2>4. CASE k + 1 \in cells
    <3>1. upTo(k + 1) = upTo(k) \union {k + 1} /\ \A c \in upTo(k) : c < k + 1
      BY <1>1, <2>4
    <3>2. Sorted(Append(f[k], k + 1), upTo(k) \union {k + 1})
      <4>. HIDE DEF upTo
      <4>. QED
        BY <2>1, <2>3, <3>1, SortedAppend
    <3>. QED
      BY <2>2, <2>4, <3>1, <3>2
  <2>5. CASE k + 1 \notin cells
    <3>1. upTo(k + 1) = upTo(k)
      BY <1>1, <2>5
    <3>. QED
      BY <2>2, <2>3, <2>5, <3>1
  <2>. QED
    BY <2>4, <2>5
<1>7. \A k \in Nat : k \in S
  <2>. HIDE DEF S
  <2>. QED
    BY <1>5, <1>6, InductiveSet
<1>8. upTo(last) = cells
  BY <1>1
<1>9. Sorted(f[last], upTo(last))
  BY <1>1, <1>7
<1>. QED
  BY <1>3, <1>8, <1>9

-----------------------------------------------------------------------------
(* What the steps do to the list *)

LEMMA ReachableClosed ==
    ASSUME ListInv, head # NULL
    PROVE  /\ Reachable \subseteq Allocated /\ Allocated = 1..used /\ used \in Nat
           /\ head = 1 /\ 1 \in Reachable /\ used \in Reachable /\ next[used] = NULL
           /\ \A c \in Reachable : next[c] # NULL =>
                    next[c] \in Reachable /\ c < used /\ c < next[c]
<1>1. /\ used \in Nat /\ used # 0 /\ Allocated = 1..used /\ head = 1
      /\ 1 \in Allocated /\ used \in Allocated
  BY Numbers DEF ListInv, PointerInv, Allocated
<1>2. used \in Reachable /\ next[used] = NULL
  BY <1>1, EndIsLast
<1>3. 1 \in Reachable
  BY <1>1 DEF Reachable
<1>4. ASSUME NEW c \in Reachable, next[c] # NULL
      PROVE  next[c] \in Reachable /\ c < used /\ c < next[c]
  <2>1. c \in Allocated /\ next[c] \in Allocated
    BY <1>4, Numbers DEF Reachable
  <2>2. next[c] \in Reachable
    BY <1>4, <2>1 DEF Reachable
  <2>3. c < used
    BY <1>1, <1>4, <2>1, Numbers DEF ListInv, PointerInv
  <2>4. next[c] \in (c + 1)..used
    BY <2>1, <2>3 DEF ListInv, PointerInv
  <2>. QED
    BY <1>1, <2>1, <2>2, <2>3, <2>4
<1>. QED
  BY <1>1, <1>2, <1>3, <1>4 DEF Reachable

\* A set that holds the head and is not led out of holds the list.
LEMMA ReachableIn ==
    ASSUME NEW S \in SUBSET Allocated, head \in S,
           \A d \in S : next[d] # NULL => next[d] \in S
    PROVE  Reachable \subseteq S
  BY DEF Reachable

\* The next pointers of the list's cells lead to the list's next cell: the cells
\* up to c and those from its successor on are all that the pointers lead to.
LEMMA NoneBetween ==
    ASSUME ListInv, NEW c \in Reachable, NEW d \in Reachable, c < d
    PROVE  next[c] \in (c + 1)..d
<1>1. head # NULL
  BY Numbers DEF Reachable, Allocated, ListInv, PointerInv, NULL
<1>2. /\ Reachable \subseteq Allocated /\ Allocated = 1..used /\ used \in Nat
      /\ head = 1 /\ 1 \in Reachable
      /\ \A e \in Reachable : next[e] # NULL =>
                next[e] \in Reachable /\ e < used /\ e < next[e]
  BY <1>1, ReachableClosed
<1>3. \A e \in Reachable : e < used => next[e] \in (e + 1)..used
  BY <1>2 DEF ListInv, PointerInv
<1>. DEFINE Adjacent(e) == \A a \in Reachable : e < a => next[e] <= a
            S == {m \in Nat : \A e \in Reachable : e <= m => Adjacent(e)}
<1>4. 0 \in S
  BY <1>2
<1>5. ASSUME NEW m \in Nat, m \in S
      PROVE  m + 1 \in S
  <2>. SUFFICES ASSUME NEW e \in Reachable, e <= m + 1, NEW a \in Reachable, e < a
                PROVE  next[e] <= a
    OBVIOUS
  <2>1. \A b \in Reachable : b < e => Adjacent(b)
    BY <1>2, <1>5
  <2>2. e \in 1..used /\ a \in 1..used /\ e < used /\ next[e] \in (e + 1)..used
    BY <1>2, <1>3
  <2>. DEFINE T == {b \in Reachable : b <= e \/ next[e] <= b}
  <2>3. T \in SUBSET Allocated /\ head \in T
    <3>1. 1 <= e
      BY <2>2
    <3>2. T \subseteq Reachable /\ 1 \in T
      BY <1>2, <3>1
    <3>. HIDE DEF T
    <3>. QED
      BY <1>2, <3>2
  <2>4. ASSUME NEW b \in T, next[b] # NULL
        PROVE  next[b] \in T
    <3>1. b \in Reachable /\ next[b] \in Reachable /\ b < next[b] /\ b \in 1..used
          /\ next[b] \in 1..used
      BY <1>2, <2>4
    <3>2. CASE b < e
      <4>1. next[b] <= e
        BY <2>1, <3>1, <3>2
      <4>. QED
        BY <3>1, <4>1
    <3>3. CASE b = e
      BY <2>2, <3>1, <3>3
    <3>4. CASE next[e] <= b
      BY <2>2, <3>1, <3>4
    <3>. QED
      BY <2>2, <2>4, <3>1, <3>2, <3>3, <3>4
  <2>5. Reachable \subseteq T
    <3>. HIDE DEF T
    <3>. QED
      BY <2>3, <2>4, ReachableIn
  <2>. QED
    BY <2>2, <2>5
<1>6. \A m \in Nat : m \in S
  <2>. HIDE DEF S
  <2>. QED
    BY <1>4, <1>5, InductiveSet
<1>7. c \in Nat /\ c \in 1..used /\ d \in 1..used /\ c <= c
  BY <1>2
<1>8. next[c] <= d
  BY <1>6, <1>7
<1>. QED
  BY <1>2, <1>3, <1>7, <1>8

LEMMA SameReachable ==
    ASSUME UNCHANGED <<head, used, next>>
    PROVE  Reachable' = Reachable
  BY DEF Reachable, Allocated

\* A new callback is linked to the last one.
LEMMA RegisterReaches ==
    ASSUME ListInv, ListInv', Register
    PROVE  Reachable' = IF head = NULL THEN {1, 2} ELSE Reachable \union {used'}
<1>1. /\ used' = (IF head = NULL THEN 2 ELSE used + 1) /\ used' \in Cells
      /\ head' = 1 /\ next' = [next EXCEPT ![used' - 1] = used']
  BY RegisterWrites
<1>2. /\ used \in Nat /\ used' \in Nat /\ Allocated' = 1..(used') /\ Allocated = 1..used
      /\ next \in [Cells -> {NULL} \union Allocated]
      /\ Cells = 1..(MaxCallbacks + 1) /\ MaxCallbacks \in Nat
  BY <1>1, Numbers DEF Allocated, Cells
<1>3. CASE head = NULL
  <2>1. used = 0 /\ used' = 2 /\ used' - 1 = 1 /\ 1 \in Cells /\ 2 \in Cells
    BY <1>1, <1>2, <1>3 DEF ListInv, PointerInv, NULL
  <2>2. next[1] = NULL /\ next[2] = NULL
    BY <1>2, <2>1 DEF ListInv, PointerInv
  <2>3. next'[1] = 2 /\ next'[2] = NULL /\ 2 # NULL
    BY <1>1, <1>2, <2>1, <2>2 DEF NULL
  <2>4. Allocated' = {1, 2}
    BY <1>2, <2>1
  <2>5. \A T \in SUBSET Allocated' :
            head' \in T /\ (\A d \in T : next'[d] # NULL => next'[d] \in T)
                => 1 \in T /\ 2 \in T
    BY <1>1, <2>3
  <2>6. Reachable' = {1, 2}
    BY <2>4, <2>5 DEF Reachable
  <2>. QED
    BY <1>3, <2>6
<1>4. CASE head # NULL
  <2>. DEFINE new == used + 1
  <2>1. /\ Reachable \subseteq Allocated
        /\ head = 1 /\ 1 \in Reachable /\ used \in Reachable /\ next[used] = NULL
        /\ \A c \in Reachable : next[c] # NULL =>
                 next[c] \in Reachable /\ c < used /\ c < next[c]
    BY <1>4, ReachableClosed
  <2>2. /\ used' = new /\ new \in Cells /\ used' - 1 = used /\ used \in Cells
        /\ used # new
    BY <1>1, <1>2, <1>4, <2>1
  <2>3. next[new] = NULL
    BY <1>2, <2>2 DEF ListInv, PointerInv
  <2>4. /\ \A d \in Cells : d # used => next'[d] = next[d]
        /\ next'[used] = new /\ next'[new] = NULL
    BY <1>1, <1>2, <2>2, <2>3
  <2>5. Allocated \subseteq Cells /\ Allocated' = Allocated \union {new} /\ new # NULL
    BY <1>2, <2>2 DEF NULL
  <2>. HIDE DEF new
  <2>6. ASSUME NEW T \in SUBSET Allocated', head' \in T,
               \A d \in T : next'[d] # NULL => next'[d] \in T
        PROVE  Reachable \subseteq T /\ new \in T
    <3>. DEFINE U == T \intersect Allocated
    <3>1. U \in SUBSET Allocated /\ head \in U
      BY <1>1, <2>1, <2>6
    <3>2. ASSUME NEW d \in U, next[d] # NULL
          PROVE  next[d] \in U
      <4>1. d \in Cells /\ d # used
        BY <2>1, <2>5, <3>2
      <4>2. next'[d] = next[d] /\ next[d] \in Allocated
        BY <1>2, <2>4, <3>2, <4>1
      <4>. QED
        BY <2>6, <3>2, <4>2
    <3>3. Reachable \subseteq U
      <4>. HIDE DEF U
      <4>. QED
        BY <3>1, <3>2, ReachableIn
    <3>4. used \in T
      BY <2>1, <3>3
    <3>. QED
      BY <2>4, <2>5, <2>6, <3>3, <3>4
  <2>7. Reachable \union {new} \subseteq Reachable'
    <3>1. Reachable \union {new} \subseteq Allocated'
      BY <2>1, <2>5
    <3>. QED
      BY <2>6, <3>1 DEF Reachable
  <2>8. ASSUME NEW d \in Reachable \union {new}, next'[d] # NULL
        PROVE  next'[d] \in Reachable \union {new}
    <3>1. CASE d = used
      BY <2>4, <3>1
    <3>2. CASE d # used
      <4>1. d \in Reachable /\ d \in Cells
        BY <2>1, <2>4, <2>5, <2>8
      <4>. QED
        BY <2>1, <2>4, <2>8, <3>2, <4>1
    <3>. QED
      BY <3>1, <3>2
  <2>9. Reachable' \subseteq Reachable \union {new}
    <3>1. Reachable \union {new} \in SUBSET Allocated' /\ head' \in Reachable \union {new}
      BY <1>1, <2>1, <2>5
    <3>. DEFINE R == Reachable \union {new}
    <3>2. \A c \in Reachable' : \A T \in SUBSET Allocated' :
              (head' \in T /\ (\A d \in T : next'[d] # NULL => next'[d] \in T)) => c \in T
      BY DEF Reachable
    <3>3. R \in SUBSET Allocated' /\ head' \in R
          /\ \A d \in R : next'[d] # NULL => next'[d] \in R
      BY <2>8, <3>1
    <3>. HIDE DEF R
    <3>4. Reachable' \subseteq R
      BY <3>2, <3>3
    <3>. QED
      BY <3>4 DEF R
  <2>10. Reachable' = Reachable \union {new}
    BY <2>7, <2>9
  <2>. QED
    BY <1>4, <2>2, <2>10
<1>. QED
  BY <1>3, <1>4

\* A refused callback leaves a list of the cell without a value.
LEMMA RefusedReaches ==
    ASSUME ListInv, RegisterRefused
    PROVE  Reachable = {} /\ Reachable' = {1}
<1>1. head = NULL /\ head' = 1 /\ used' = 1 /\ next' = next
  BY DEF RegisterRefused, CreatesList
<1>2. used = 0 /\ MaxCallbacks \in Nat
  BY <1>1, Numbers DEF ListInv, PointerInv, NULL
<1>3. next[1] = NULL
  BY <1>2 DEF ListInv, PointerInv, Cells
<1>4. Allocated = {} /\ Allocated' = {1}
  BY <1>1, <1>2 DEF Allocated
<1>. QED
  BY <1>1, <1>3, <1>4 DEF Reachable

\* The failed callback leaves the list if the cell allocated before it, its
\* prev, is still in the list; and no other callback does.
LEMMA RemovalReaches ==
    ASSUME ListInv, PassFailing, cursor \in Reachable
    PROVE  Reachable' = IF cursor - 1 \in Reachable THEN Reachable \ {cursor}
                        ELSE Reachable
<1>. DEFINE p == cursor - 1
<1>1. /\ p \in Allocated /\ cursor \in Allocated
      /\ next' = [next EXCEPT ![p] = next[cursor]]
      /\ next[cursor] # NULL /\ p # cursor
      /\ UNCHANGED <<head, used>>
  BY RemovalWrites
<1>2. Allocated' = Allocated /\ head # NULL
  BY <1>1, Numbers DEF Allocated, ListInv, PointerInv, NULL
<1>3. /\ Reachable \subseteq Allocated /\ Allocated = 1..used /\ used \in Nat
      /\ head = 1 /\ 1 \in Reachable
      /\ \A c \in Reachable : next[c] # NULL =>
               next[c] \in Reachable /\ c < used /\ c < next[c]
  BY <1>2, ReachableClosed
<1>4. Allocated \subseteq Cells /\ next \in [Cells -> {NULL} \union Allocated]
  BY Numbers
<1>5. next'[p] = next[cursor] /\ \A d \in Allocated : d # p => next'[d] = next[d]
  BY <1>1, <1>4
<1>6. cursor \in Nat /\ p < cursor /\ \A d \in 1..used : d < cursor => d <= p
  BY <1>1, <1>3
<1>7. \A c : c \in Reachable' <=>
           /\ c \in Allocated
           /\ \A T \in SUBSET Allocated :
                (head \in T /\ (\A d \in T : next'[d] # NULL => next'[d] \in T)) => c \in T
  BY <1>1, <1>2 DEF Reachable
<1>. HIDE DEF p
<1>8. CASE p \notin Reachable
  <2>1. \A d \in Reachable : next'[d] = next[d]
    BY <1>3, <1>5, <1>8
  <2>2. Reachable' \subseteq Reachable
    <3>1. Reachable \in SUBSET Allocated /\ head \in Reachable
          /\ \A d \in Reachable : next'[d] # NULL => next'[d] \in Reachable
      BY <1>3, <2>1
    <3>. QED
      BY <1>7, <3>1
  <2>3. ASSUME NEW T \in SUBSET Allocated, head \in T,
               \A d \in T : next'[d] # NULL => next'[d] \in T
        PROVE  Reachable \subseteq T
    <3>. DEFINE U == T \intersect Reachable
    <3>1. U \in SUBSET Allocated /\ head \in U
      BY <1>3, <2>3
    <3>2. \A d \in U : next[d] # NULL => next[d] \in U
      BY <1>3, <2>1, <2>3
    <3>3. Reachable \subseteq U
      <4>. HIDE DEF U
      <4>. QED
        BY <3>1, <3>2, ReachableIn
    <3>. QED
      BY <3>3
  <2>4. Reachable \subseteq Reachable'
    BY <1>3, <1>7, <2>3
  <2>. QED
    BY <1>8, <2>2, <2>4 DEF p
<1>9. CASE p \in Reachable
  <2>1. next[p] = cursor
    <3>1. next[p] \in (p + 1)..cursor
      BY <1>6, <1>9, NoneBetween
    <3>. QED
      BY <1>6, <3>1 DEF p
  <2>2. ASSUME NEW d \in Reachable, d # p, d # cursor
        PROVE  next[d] # cursor /\ next'[d] = next[d]
    <3>1. next'[d] = next[d] /\ d \in 1..used
      BY <1>3, <1>5, <2>2
    <3>2. CASE d < cursor
      <4>1. d < p
        BY <1>3, <1>6, <2>2, <3>1, <3>2 DEF p
      <4>2. next[d] \in (d + 1)..p
        BY <1>9, <4>1, NoneBetween
      <4>. QED
        BY <1>6, <3>1, <4>2 DEF p
    <3>3. CASE cursor < d
      <4>1. next[d] # NULL => d < next[d] /\ next[d] \in 1..used
        BY <1>3
      <4>. QED
        BY <1>1, <1>3, <1>6, <3>1, <3>3, <4>1 DEF NULL
    <3>. QED
      BY <1>3, <1>6, <2>2, <3>1, <3>2, <3>3
  <2>3. Reachable' \subseteq Reachable \ {cursor}
    <3>. DEFINE R == Reachable \ {cursor}
    <3>1. R \in SUBSET Allocated /\ head \in R
      <4>1. cursor # 1
        BY <1>1, <1>3 DEF p
      <4>. QED
        BY <1>3, <4>1
    <3>2. ASSUME NEW d \in R, next'[d] # NULL
          PROVE  next'[d] \in R
      <4>1. CASE d = p
        <5>1. next[cursor] \in Reachable /\ cursor < next[cursor]
          BY <1>1, <1>3
        <5>2. next[cursor] # cursor
          BY <1>6, <5>1
        <5>. QED
          BY <1>5, <4>1, <5>1, <5>2
      <4>2. CASE d # p
        BY <1>3, <2>2, <3>2, <4>2
      <4>. QED
        BY <4>1, <4>2
    <3>. HIDE DEF R
    <3>3. Reachable' \subseteq R
      BY <1>7, <3>1, <3>2
    <3>. QED
      BY <3>3 DEF R
  <2>4. ASSUME NEW T \in SUBSET Allocated, head \in T,
               \A d \in T : next'[d] # NULL => next'[d] \in T
        PROVE  Reachable \subseteq T \union {cursor}
    <3>1. p \in T
      <4>. SUFFICES ASSUME p \notin T PROVE FALSE
        OBVIOUS
      <4>1. \A d \in T : next'[d] = next[d]
        BY <1>5
      <4>2. Reachable \subseteq T
        BY <2>4, <4>1, ReachableIn
      <4>. QED
        BY <1>9, <4>2
    <3>. DEFINE U == T \union {cursor}
    <3>2. U \in SUBSET Allocated /\ head \in U
      BY <1>1, <2>4
    <3>3. ASSUME NEW d \in U, next[d] # NULL
          PROVE  next[d] \in U
      <4>1. CASE d = cursor
        BY <1>1, <1>5, <2>4, <3>1, <4>1
      <4>2. CASE d = p
        BY <2>1, <4>2
      <4>3. CASE d # cursor /\ d # p
        <5>1. d \in T /\ d \in Allocated /\ next'[d] = next[d]
          BY <1>5, <3>3, <4>3
        <5>. QED
          BY <2>4, <3>3, <5>1
      <4>. QED
        BY <4>1, <4>2, <4>3
    <3>4. Reachable \subseteq U
      <4>. HIDE DEF U
      <4>. QED
        BY <3>2, <3>3, ReachableIn
    <3>. QED
      BY <3>4
  <2>5. Reachable \ {cursor} \subseteq Reachable'
    BY <1>3, <1>7, <2>4
  <2>. QED
    BY <1>9, <2>3, <2>5 DEF p
<1>. QED
  BY <1>8, <1>9

-----------------------------------------------------------------------------
(* The registry of callbacks *)

(***************************************************************************)
(* A round has passed the callbacks that are in the list before its        *)
(* cursor, and nothing from its cursor on.                                 *)
(***************************************************************************)
RoundInv ==
    /\ head = NULL => passed = << >>
    /\ round # "none" =>
          /\ \A j \in DOMAIN passed : passed[j] < cursor
          /\ \A c \in Reachable \ {1} : c < cursor => c \in ToSet(passed)

RegistryInv == ListInv /\ CursorInv /\ RoundInv

LEMMA TurnRound ==
    ASSUME RegistryInv, ListInv', Turn, Reachable' \subseteq Reachable,
           \/ cursor = 1 /\ passed' = passed
           \/ cursor # 1 /\ passed' = Append(passed, cursor)
    PROVE  RoundInv'
<1>1. /\ ListInv /\ cursor \in Allocated /\ cursor < used
      /\ next[cursor] \in (cursor + 1)..used /\ cursor' = next[cursor]
      /\ UNCHANGED <<head, used, round>> /\ round # "none" /\ cursor \in Reachable
  BY TurnFacts DEF RegistryInv, CursorInv, Turn
<1>2. /\ used \in Nat /\ Allocated = 1..used /\ Allocated \subseteq Cells
      /\ Reachable \subseteq Allocated
  BY <1>1, Numbers DEF Allocated, Reachable
<1>3. head # NULL
  BY <1>1, <1>2 DEF ListInv, PointerInv, NULL
<1>4. /\ passed \in Seq(Nat) /\ Len(passed) \in Nat
      /\ \A j \in 1..Len(passed) : passed[j] \in Nat /\ passed[j] < cursor
      /\ \A c \in Reachable \ {1} : c < cursor => c \in ToSet(passed)
  <2>1. passed \in Seq(Callbacks) /\ Callbacks \subseteq Nat
    BY <1>1 DEF ListInv, TypeOK, Callbacks, Cells
  <2>2. passed \in Seq(Nat)
    BY <2>1, SeqMonotonic
  <2>3. Len(passed) \in Nat /\ DOMAIN passed = 1..Len(passed)
        /\ \A j \in 1..Len(passed) : passed[j] \in Nat
    BY <2>2
  <2>. QED
    BY <1>1, <2>2, <2>3 DEF RegistryInv, RoundInv
<1>5. cursor \in Nat /\ cursor' \in Nat /\ cursor < cursor'
  BY <1>1, <1>2
<1>6. ASSUME NEW c \in Reachable', c < cursor'
      PROVE  c < cursor \/ c = cursor
  <2>. SUFFICES ASSUME cursor < c PROVE FALSE
    BY <1>2, <1>5, <1>6
  <2>1. next[cursor] \in (cursor + 1)..c
    BY <1>1, <1>6, NoneBetween
  <2>. QED
    BY <1>1, <1>2, <1>5, <1>6, <2>1
<1>7. CASE cursor = 1 /\ passed' = passed
  <2>1. \A j \in DOMAIN passed' : passed'[j] < cursor'
    BY <1>4, <1>5, <1>7
  <2>2. \A c \in Reachable' \ {1} : c < cursor' => c \in ToSet(passed')
    BY <1>4, <1>6, <1>7
  <2>. QED
    BY <1>1, <1>3, <2>1, <2>2 DEF RoundInv
<1>8. CASE cursor # 1 /\ passed' = Append(passed, cursor)
  <2>1. /\ Len(passed') = Len(passed) + 1 /\ DOMAIN passed' = 1..(Len(passed) + 1)
        /\ \A j \in 1..Len(passed) : passed'[j] = passed[j]
        /\ passed'[Len(passed) + 1] = cursor
    BY <1>4, <1>5, <1>8
  <2>2. ToSet(passed') = ToSet(passed) \union {cursor}
    BY <1>4, <1>5, <1>8, ToSetAppend
  <2>3. \A j \in DOMAIN passed' : passed'[j] < cursor'
    <3>1. \A j \in DOMAIN passed' : j \in 1..Len(passed) \/ j = Len(passed) + 1
      BY <1>4, <2>1
    <3>. QED
      BY <1>4, <1>5, <2>1, <3>1
  <2>4. \A c \in Reachable' \ {1} : c < cursor' => c \in ToSet(passed')
    BY <1>4, <1>6, <2>2
  <2>. QED
    BY <1>1, <1>3, <2>3, <2>4 DEF RoundInv
<1>. QED
  BY <1>7, <1>8

LEMMA RoundNext == RegistryInv /\ [Next]_vars => RegistryInv'
<1>. SUFFICES ASSUME RegistryInv, [Next]_vars PROVE RegistryInv'
  OBVIOUS
<1>1. ListInv /\ CursorInv /\ RoundInv /\ ListInv' /\ CursorInv'
  BY ListNext, CursorNext DEF RegistryInv
<1>. SUFFICES RoundInv'
  BY <1>1 DEF RegistryInv
<1>2. CASE UNCHANGED vars
  BY <1>1, <1>2, SameReachable DEF RoundInv, vars
<1>3. CASE RegisterRefused \/ Register
  <2>1. round' = "none" /\ head' = 1
    BY <1>1, <1>3, RegisterWrites DEF RegisterRefused, Register
  <2>. QED
    BY <2>1 DEF RoundInv, NULL
<1>4. CASE \E kind \in Kinds : BeginRound(kind)
  <2>1. cursor' = head /\ passed' = << >> /\ UNCHANGED <<head, used, next>>
        /\ (head = NULL => round' = "none")
    BY <1>4 DEF BeginRound
  <2>2. head # NULL => head = 1
    BY <1>1 DEF ListInv, PointerInv
  <2>3. \A c \in Reachable' : c \in Nat /\ c # 0
    BY <1>1, Numbers, <2>1, SameReachable DEF Reachable, Allocated
  <2>. QED
    BY <2>1, <2>2, <2>3 DEF RoundInv
<1>5. CASE SkipNull \/ PassCallback
  <2>1. Turn /\ UNCHANGED <<head, used, next>>
    BY <1>5 DEF SkipNull, PassCallback, Turn
  <2>2. Reachable' = Reachable
    BY <2>1, SameReachable
  <2>3. \/ cursor = 1 /\ passed' = passed
        \/ cursor # 1 /\ passed' = Append(passed, cursor)
    <3>1. cursor # 0
      BY <1>1, <2>1, TurnFacts, Numbers DEF Allocated
    <3>. QED
      BY <1>5, <3>1 DEF SkipNull, PassCallback, Value, NULL
  <2>. QED
    BY <1>1, <2>1, <2>2, <2>3, TurnRound
<1>6. CASE PassFailing
  <2>1. Turn /\ cursor # 1 /\ passed' = Append(passed, cursor) /\ cursor \in Reachable
    BY <1>1, <1>6 DEF PassFailing, Turn, Value, CursorInv
  <2>2. Reachable' \subseteq Reachable
    BY <1>1, <1>6, <2>1, RemovalReaches
  <2>. QED
    BY <1>1, <2>1, <2>2, TurnRound
<1>7. CASE EndRound
  BY <1>1, <1>7 DEF EndRound, RoundInv
<1>. QED
  BY <1>2, <1>3, <1>4, <1>5, <1>6, <1>7 DEF Next, Finished

ChainInv == Sorted(Chain, Reachable \ {1})

LEMMA ChainSorted == ListInv => ChainInv
<1>. SUFFICES ASSUME ListInv PROVE ChainInv
  OBVIOUS
<1>1. Reachable \ {1} \in SUBSET Cells
  BY Numbers DEF Reachable
<1>. QED
  BY <1>1, InOrderSorted DEF ChainInv, Chain

LEMMA ChainElements ==
    ASSUME ListInv
    PROVE  /\ Chain \in Seq(Nat) /\ Len(Chain) \in Nat /\ DOMAIN Chain = 1..Len(Chain)
           /\ \A i \in 1..Len(Chain) : Chain[i] \in Nat /\ Chain[i] \in Reachable \ {1}
           /\ \A c \in Reachable \ {1} : \E i \in 1..Len(Chain) : Chain[i] = c
           /\ \A i, j \in 1..Len(Chain) : i < j => Chain[i] < Chain[j]
<1>1. Sorted(Chain, Reachable \ {1})
  BY ChainSorted DEF ChainInv
<1>. QED
  BY <1>1, SortedElements

\* The list is the same as long as it has the same cells.
LEMMA SameChain ==
    ASSUME ListInv, ListInv', Reachable' \ {1} = Reachable \ {1}
    PROVE  Chain' = Chain
<1>1. ListInv' => ChainInv'
  BY ChainSorted, PTL
<1>2. Sorted(Chain, Reachable \ {1}) /\ Sorted(Chain', Reachable' \ {1})
  BY <1>1, ChainSorted DEF ChainInv
<1>. QED
  BY <1>2, SortedUnique

LEMMA AddRefines ==
    ASSUME RegistryInv, RegistryInv', Register
    PROVE  \E cb \in Callbacks : Registry!Add(cb)
<1>1. ListInv /\ ListInv'
  BY DEF RegistryInv
<1>2. /\ used' = (IF head = NULL THEN 2 ELSE used + 1) /\ used' \in Cells
      /\ round = "none" /\ UNCHANGED <<round, passed, failed>>
  BY <1>1, RegisterWrites DEF Register
<1>3. used \in Nat /\ Reachable \subseteq 1..used /\ (head = NULL => used = 0)
  BY <1>1, Numbers DEF Reachable, Allocated, ListInv, PointerInv, NULL
<1>4. used' \in Nat \ {0, 1} /\ \A c \in Reachable : c < used'
  <2>1. head # NULL => used # 0
    BY <1>1 DEF ListInv, PointerInv
  <2>. QED
    BY <1>2, <1>3, <2>1
<1>5. used' \in Callbacks
  BY <1>2, <1>4 DEF Callbacks
<1>6. Reachable' \ {1} = (Reachable \ {1}) \union {used'}
  <2>1. head = NULL => Reachable = {} /\ used' = 2
    BY <1>2, <1>3
  <2>. QED
    BY <1>1, <1>4, <2>1, RegisterReaches
<1>7. Chain' = Append(Chain, used')
  <2>1. ListInv' => ChainInv'
    BY ChainSorted, PTL
  <2>2. Sorted(Chain, Reachable \ {1}) /\ Sorted(Chain', Reachable' \ {1})
    BY <1>1, <2>1, ChainSorted DEF ChainInv
  <2>3. Sorted(Append(Chain, used'), (Reachable \ {1}) \union {used'})
    BY <1>4, <2>2, SortedAppend
  <2>. QED
    BY <1>6, <2>2, <2>3, SortedUnique
<1>8. used' \notin Registry!Members(Chain)
  <2>1. \A j \in DOMAIN Chain : Chain[j] \in Reachable
    BY <1>1, ChainElements
  <2>2. \A c \in Reachable : c # used'
    BY <1>3, <1>4
  <2>. QED
    BY <2>1, <2>2 DEF Registry!Members
<1>9. Registry!Add(used')
  BY <1>2, <1>7, <1>8 DEF Registry!Add
<1>. QED
  BY <1>5, <1>9

\* What a turn passes is the first of the callbacks that are ahead.
LEMMA CursorIsAhead ==
    ASSUME RegistryInv, round # "none", cursor # 1
    PROVE  /\ cursor \in Registry!Ahead
           /\ \E j \in 1..Len(Chain) : Chain[j] = cursor
<1>1. ListInv /\ cursor \in Reachable \ {1} /\ \A j \in DOMAIN passed : passed[j] < cursor
  BY DEF RegistryInv, CursorInv, RoundInv
<1>2. /\ Len(Chain) \in Nat /\ DOMAIN Chain = 1..Len(Chain)
      /\ \A i \in 1..Len(Chain) : Chain[i] \in Nat
      /\ \A i, j \in 1..Len(Chain) : i < j => Chain[i] < Chain[j]
  BY <1>1, ChainElements
<1>3. PICK j \in 1..Len(Chain) : Chain[j] = cursor
  BY <1>1, ChainElements
<1>4. ASSUME NEW m \in j..Len(Chain)
      PROVE  Chain[m] \notin Registry!Members(passed)
  <2>1. m \in 1..Len(Chain) /\ (m = j \/ j < m)
    BY <1>2
  <2>2. ~(Chain[m] < cursor)
    BY <1>2, <1>3, <2>1
  <2>. QED
    BY <1>1, <2>2 DEF Registry!Members
<1>5. cursor \in Registry!Ahead
  BY <1>2, <1>3, <1>4 DEF Registry!Ahead
<1>. QED
  BY <1>3, <1>5

LEMMA PassRefines ==
    ASSUME RegistryInv, RegistryInv', PassCallback \/ PassFailing
    PROVE  \E cb \in Callbacks : Registry!Pass(cb)
<1>1. ListInv /\ ListInv' /\ cursor \in Reachable
  BY DEF RegistryInv, CursorInv, PassCallback, PassFailing, Turn
<1>2. /\ Turn /\ round # "none" /\ cursor # 1 /\ passed' = Append(passed, cursor)
      /\ UNCHANGED <<round, head, used>>
  BY DEF PassCallback, PassFailing, Turn, Value
<1>3. cursor \in Callbacks
  BY <1>1, <1>2, Numbers DEF Reachable, Callbacks
<1>4. cursor \in Registry!Ahead /\ \E j \in 1..Len(Chain) : Chain[j] = cursor
  BY <1>2, CursorIsAhead
<1>5. CASE PassCallback
  <2>1. UNCHANGED <<next, failed>>
    BY <1>5 DEF PassCallback
  <2>2. Chain' = Chain
    BY <1>1, <1>2, <2>1, SameReachable, SameChain
  <2>3. Registry!Pass(cursor)
    BY <1>2, <1>4, <2>1, <2>2 DEF Registry!Pass
  <2>. QED
    BY <1>3, <2>3
<1>6. CASE PassFailing
  <2>1. failed' = failed \union {cursor}
    BY <1>2, <1>6 DEF PassFailing, Value
  <2>2. Reachable' = IF cursor - 1 \in Reachable THEN Reachable \ {cursor} ELSE Reachable
    BY <1>1, <1>6, RemovalReaches
  <2>3. CASE Reachable' = Reachable
    <3>1. Chain' = Chain
      BY <1>1, <2>3, SameChain
    <3>2. Registry!Pass(cursor)
      BY <1>2, <1>4, <2>1, <3>1 DEF Registry!Pass
    <3>. QED
      BY <1>3, <3>2
  <2>4. CASE Reachable' = Reachable \ {cursor}
    <3>1. PICK j \in 1..Len(Chain) : Chain[j] = cursor
      BY <1>4
    <3>2. Chain' = RemoveAt(Chain, j)
      <4>1. ListInv' => ChainInv'
        BY ChainSorted, PTL
      <4>2. Sorted(Chain, Reachable \ {1}) /\ Sorted(Chain', Reachable' \ {1})
        BY <1>1, <4>1, ChainSorted DEF ChainInv
      <4>3. Sorted(RemoveAt(Chain, j), (Reachable \ {1}) \ {Chain[j]})
        BY <4>2, SortedRemove
      <4>4. Reachable' \ {1} = (Reachable \ {1}) \ {Chain[j]}
        BY <2>4, <3>1
      <4>. QED
        BY <4>2, <4>3, <4>4, SortedUnique
    <3>3. j \in DOMAIN Chain
      BY <1>1, ChainElements
    <3>4. \E i \in DOMAIN Chain :
              Chain[i] = cursor /\ Chain' = Registry!RemoveAt(Chain, i)
      BY <3>1, <3>2, <3>3 DEF RemoveAt, Registry!RemoveAt
    <3>5. Registry!Pass(cursor)
      BY <1>2, <1>4, <2>1, <3>4 DEF Registry!Pass
    <3>. QED
      BY <1>3, <3>5
  <2>. QED
    BY <2>2, <2>3, <2>4
<1>. QED
  BY <1>5, <1>6

LEMMA EndRefines ==
    ASSUME RegistryInv, RegistryInv', EndRound
    PROVE  Registry!End
<1>1. /\ ListInv /\ ListInv' /\ round # "none" /\ next[cursor] = NULL
      /\ round' = "none" /\ UNCHANGED <<head, used, next, passed, failed>>
  BY DEF RegistryInv, EndRound
<1>2. /\ used \in Nat /\ Allocated = 1..used /\ Reachable \subseteq 1..used
      /\ cursor \in Reachable
      /\ \A c \in Reachable \ {1} : c < cursor => c \in ToSet(passed)
  BY <1>1, Numbers DEF Allocated, Reachable, RegistryInv, CursorInv, RoundInv
<1>3. cursor = used
  <2>1. head # NULL
    BY <1>1, <1>2 DEF ListInv, PointerInv, NULL
  <2>. QED
    BY <1>1, <1>2, <2>1, EndIsLast
<1>4. Chain' = Chain
  BY <1>1, SameReachable, SameChain
<1>5. ASSUME NEW j \in DOMAIN Chain, j # Len(Chain)
      PROVE  Chain[j] \in Registry!Members(passed)
  <2>1. /\ j \in 1..Len(Chain) /\ Len(Chain) \in Nat
        /\ Len(Chain) \in 1..Len(Chain) /\ j < Len(Chain)
    BY <1>1, <1>5, ChainElements
  <2>2. /\ Chain[j] < Chain[Len(Chain)] /\ Chain[j] \in Reachable \ {1}
        /\ Chain[Len(Chain)] \in Reachable
    BY <1>1, <2>1, ChainElements
  <2>3. Chain[j] < cursor
    <3>1. Chain[j] \in 1..used /\ Chain[Len(Chain)] \in 1..used
      BY <1>2, <2>2
    <3>. QED
      BY <1>2, <1>3, <2>2, <3>1
  <2>4. Chain[j] \in ToSet(passed)
    BY <1>2, <2>2, <2>3
  <2>. QED
    BY <2>4 DEF ToSet, Registry!Members
<1>. QED
  BY <1>1, <1>4, <1>5 DEF Registry!End

LEMMA RegistryInit == Init => RegistryInv /\ Registry!Init
<1>. SUFFICES ASSUME Init PROVE RegistryInv /\ Registry!Init
  OBVIOUS
<1>1. ListInv
  BY ListInit
<1>2. Reachable = {}
  BY DEF Init, Reachable, Allocated
<1>3. DOMAIN Chain = {}
  BY <1>1, <1>2, ChainElements
<1>4. Chain = << >>
  <2>1. Chain \in Seq(Nat) /\ Len(Chain) \in Nat /\ DOMAIN Chain = 1..Len(Chain)
    BY <1>1, ChainElements
  <2>2. Len(Chain) = 0
    BY <1>3, <2>1
  <2>. QED
    BY <2>1, <2>2, EmptySeq
<1>5. Registry!Init
  BY <1>4 DEF Init, Registry!Init
<1>. QED
  BY <1>1, <1>5 DEF RegistryInv, CursorInv, RoundInv, Init

LEMMA RegistryNext ==
    RegistryInv /\ [Next]_vars => RegistryInv' /\ [Registry!Next]_(Registry!vars)
<1>. SUFFICES ASSUME RegistryInv, [Next]_vars
              PROVE  RegistryInv' /\ [Registry!Next]_(Registry!vars)
  OBVIOUS
<1>1. RegistryInv' /\ ListInv /\ ListInv' /\ RoundInv
  BY RoundNext DEF RegistryInv
<1>2. CASE UNCHANGED vars
  BY <1>1, <1>2, SameReachable, SameChain DEF vars, Registry!vars
<1>3. CASE RegisterRefused
  <2>1. Chain' = Chain
    <3>1. Reachable' \ {1} = Reachable \ {1}
      BY <1>1, <1>3, RefusedReaches
    <3>. QED
      BY <1>1, <3>1, SameChain
  <2>. QED
    BY <1>1, <1>3, <2>1 DEF RegisterRefused, Registry!vars
<1>4. CASE \E kind \in Kinds : BeginRound(kind)
  <2>1. /\ UNCHANGED <<head, used, next, failed>> /\ passed' = << >> /\ round = "none"
        /\ (head = NULL => round' = "none") /\ (head # NULL => round' # "none")
    BY <1>4 DEF BeginRound, Kinds
  <2>2. Chain' = Chain
    BY <1>1, <2>1, SameReachable, SameChain
  <2>3. CASE head = NULL
    BY <1>1, <2>1, <2>2, <2>3 DEF RoundInv, Registry!vars
  <2>4. CASE head # NULL
    BY <1>1, <2>1, <2>2, <2>4 DEF Registry!Next, Registry!Begin
  <2>. QED
    BY <2>3, <2>4
<1>5. CASE SkipNull
  <2>1. UNCHANGED <<head, used, next, round, passed, failed>>
    BY <1>5 DEF SkipNull, Turn
  <2>. QED
    BY <1>1, <2>1, SameReachable, SameChain DEF Registry!vars
<1>6. CASE Register
  BY <1>1, <1>6, AddRefines DEF Registry!Next
<1>7. CASE PassCallback \/ PassFailing
  BY <1>1, <1>7, PassRefines DEF Registry!Next
<1>8. CASE EndRound
  BY <1>1, <1>8, EndRefines DEF Registry!Next
<1>. QED
  BY <1>2, <1>3, <1>4, <1>5, <1>6, <1>7, <1>8 DEF Next, Finished

\* The heap of cells, with its stale prev pointers and the removals during a
\* round, is a registry that passes its callbacks in order and loses only those
\* that failed (plugin.c:147-235).
THEOREM RegistryImplemented == Spec => Implements
  BY RegistryInit, RegistryNext, PTL DEF Spec, Implements, Registry!Spec
===============================================================================
