---------------------------- MODULE ExecuteProofs ----------------------------
(***************************************************************************)
(* Proofs about module Execute, for every number of nodes, slots and       *)
(* callbacks and for every value cfg->concurrent may have on entry.        *)
(***************************************************************************)
EXTENDS Execute, LinkedListsProofs

-----------------------------------------------------------------------------
(* Lists *)

\* A registered list has one cell per value and one cell without a value.
LEMMA RegisteredList ==
    ASSUME NEW k \in Nat
    PROVE  /\ Registered(k) \in Seq(0..k)
           /\ Len(Registered(k)) = k + 1
           /\ llist_count(Registered(k)) = k
           /\ \A c \in 1..(k + 1) : Registered(k)[c] \in 0..k
<1>. DEFINE f == [c \in 1..(k + 1) |-> IF Discipline = "push" THEN k + 1 - c ELSE c - 1]
<1>1. f \in [1..(k + 1) -> 0..k]
  OBVIOUS
<1>2. f \in Seq(0..k) /\ Len(f) = k + 1
  BY <1>1
<1>. QED
  BY <1>1, <1>2 DEF Registered, llist_count

\* The list of execute callbacks, which does not exist without callbacks.
LEMMA ExecuteList ==
    /\ execute \in Seq(0..NumCallbacks)
    /\ Len(execute) \in Nat
    /\ executeHead \in 0..Len(execute)
    /\ \A c \in 1..Len(execute) :
          /\ execute[c] \in 0..NumCallbacks
          /\ NextCell(execute, c) \in 0..Len(execute)
<1>1. CASE NumCallbacks = 0
  BY <1>1 DEF execute, executeHead, NULL
<1>2. CASE NumCallbacks # 0
  <2>1. /\ execute = Registered(NumCallbacks)
        /\ NumCallbacks \in Nat
    BY <1>2, ExecuteAssumption DEF execute
  <2>2. /\ execute \in Seq(0..NumCallbacks)
        /\ Len(execute) = NumCallbacks + 1
        /\ \A c \in 1..(NumCallbacks + 1) : execute[c] \in 0..NumCallbacks
    BY <2>1, RegisteredList
  <2>. QED
    BY <2>1, <2>2 DEF executeHead, NextCell, NULL
<1>. QED
  BY <1>1, <1>2

-----------------------------------------------------------------------------
(* Typing *)

(***************************************************************************)
(* What keeps the caller inside its arrays: while it dispatches and joins, *)
(* the cell it is at is a cell of the list, count is what is left behind   *)
(* that cell, and there are no more slots than nodes.  The compiled list   *)
(* never gets past its first cell.                                         *)
(***************************************************************************)
CallerInv ==
    /\ pc = "setup" => i = 1
    /\ pc \in {"visit", "join"} =>
        /\ current_node \in 1..Len(nodes)
        /\ count = Len(nodes) - current_node
        /\ concurrent \in 1..llist_count(nodes)
        /\ i \in 1..(concurrent + 1)
        /\ Discipline = "append" => current_node = 1

TypeInv == TypeOK /\ CallerInv

\* What a cell with a node says about its place in the list.
LEMMA NodeCell ==
    ASSUME TypeInv, pc = "visit", nodes[current_node] # NULL
    PROVE  /\ current_node < Len(nodes)
           /\ NextCell(nodes, current_node) = current_node + 1
           /\ nodes[current_node] \in 1..MaxNodes
           /\ current_node \in Threads
           /\ Discipline = "push"
<1>1. PICK k \in 0..MaxNodes : nodes = Registered(k)
  BY DEF TypeInv, TypeOK
<1>2. k \in Nat /\ MaxNodes \in Nat /\ k <= MaxNodes
  BY <1>1, ExecuteAssumption
<1>3. Len(nodes) = k + 1
  BY <1>1, <1>2, RegisteredList
<1>4. current_node \in 1..(k + 1)
  BY <1>3 DEF TypeInv, CallerInv
<1>5. nodes[current_node] =
         IF Discipline = "push" THEN k + 1 - current_node ELSE current_node - 1
  BY <1>1, <1>4 DEF Registered
<1>6. Discipline = "push"
  BY <1>5, DisciplineAssumption DEF TypeInv, CallerInv, NULL
<1>. QED
  BY <1>2, <1>3, <1>4, <1>5, <1>6 DEF NextCell, NULL, Threads

\* The lengths of the nodes lists.
LEMMA NodesList ==
    ASSUME nodes \in {Registered(k) : k \in 0..MaxNodes}
    PROVE  /\ llist_count(nodes) \in 0..MaxNodes
           /\ Len(nodes) = llist_count(nodes) + 1
<1>1. PICK k \in 0..MaxNodes : nodes = Registered(k)
  OBVIOUS
<1>2. k \in Nat
  BY ExecuteAssumption
<1>. QED
  BY <1>1, <1>2, RegisteredList

LEMMA InitTyped == Init => TypeInv
<1>. SUFFICES ASSUME Init PROVE TypeInv
  OBVIOUS
<1>1. << >> \in Seq(0..NumCallbacks) /\ 0 \in 0..Len(execute) /\ 0 \in 0..NumCallbacks
  BY ExecuteList, ExecuteAssumption
<1>2. 1 \in Slots /\ 0 \in 0..MaxNodes /\ 0 \in 0..(MaxNodes + 1) /\ 1 \in 1..(MaxNodes + 1)
  BY ExecuteAssumption DEF Slots
<1>3. TypeOK
  BY <1>1, <1>2, ExecuteAssumption DEF Init, TypeOK, NULL, Busy, Ended
<1>4. CallerInv
  BY DEF Init, CallerInv
<1>. QED
  BY <1>3, <1>4 DEF TypeInv

\* A step of the caller that takes a node from its cell.
LEMMA TakeNodeTyped ==
    ASSUME TypeInv, TakeNode
    PROVE  /\ i' \in 1..(MaxNodes + 1)
           /\ current_node' \in 0..(MaxNodes + 1)
           /\ count' \in 0..MaxNodes
           /\ mutex' \in [Slots -> {"free", "locked"}]
           /\ container' \in [Slots -> 0..MaxNodes]
           /\ CallerInv'
           /\ i \in Slots
           /\ current_node \in Threads
<1>1. /\ pc = "visit"
      /\ i <= concurrent
      /\ nodes[current_node] # NULL
  BY DEF TakeNode, FreeSlot
<1>2. /\ current_node < Len(nodes)
      /\ NextCell(nodes, current_node) = current_node + 1
      /\ nodes[current_node] \in 1..MaxNodes
      /\ current_node \in Threads
      /\ Discipline = "push"
  BY <1>1, NodeCell
<1>3. /\ llist_count(nodes) \in 0..MaxNodes
      /\ Len(nodes) = llist_count(nodes) + 1
  BY NodesList DEF TypeInv, TypeOK
<1>4. /\ current_node \in 1..Len(nodes)
      /\ count = Len(nodes) - current_node
      /\ concurrent \in 1..llist_count(nodes)
      /\ i \in 1..(concurrent + 1)
  BY <1>1 DEF TypeInv, CallerInv
<1>5. /\ current_node' = current_node + 1
      /\ count' = count - 1
      /\ i' = i + 1
      /\ UNCHANGED <<pc, nodes, concurrent>>
      /\ mutex' = [mutex EXCEPT ![i] = "locked"]
      /\ container' = [container EXCEPT ![i] = nodes[current_node]]
  BY <1>2 DEF TakeNode
<1>6. CallerInv'
  BY <1>1, <1>2, <1>3, <1>4, <1>5, DisciplineAssumption DEF CallerInv, llist_count
<1>7. i \in Slots /\ MaxNodes \in Nat
  BY <1>1, <1>3, <1>4, ExecuteAssumption DEF Slots
<1>8. /\ mutex' \in [Slots -> {"free", "locked"}]
      /\ container' \in [Slots -> 0..MaxNodes]
  <2>1. /\ mutex \in [Slots -> {"free", "locked"}]
        /\ container \in [Slots -> 0..MaxNodes]
    BY DEF TypeInv, TypeOK
  <2>2. nodes[current_node] \in 0..MaxNodes
    BY <1>2
  <2>. QED
    BY <1>5, <1>7, <2>1, <2>2
<1>9. /\ i' \in 1..(MaxNodes + 1)
      /\ current_node' \in 0..(MaxNodes + 1)
      /\ count' \in 0..MaxNodes
  <2>1. /\ i \in 1..MaxNodes /\ current_node \in 1..MaxNodes
        /\ Len(nodes) \in 1..(MaxNodes + 1) /\ current_node < Len(nodes)
    BY <1>2, <1>3, <1>4, <1>7 DEF Slots
  <2>2. count \in 1..MaxNodes
    BY <1>4, <1>7, <2>1
  <2>. QED
    BY <1>5, <1>7, <2>1, <2>2
<1>. QED
  BY <1>2, <1>6, <1>7, <1>8, <1>9

LEMMA CallerTyped == TypeInv /\ Caller => TypeInv'
<1>. SUFFICES ASSUME TypeInv, Caller PROVE TypeInv'
  OBVIOUS
<1>. USE ExecuteAssumption
<1>0. /\ llist_count(nodes) \in 0..MaxNodes
      /\ Len(nodes) = llist_count(nodes) + 1
  BY NodesList DEF TypeInv, TypeOK
<1>1. CASE SetupEmpty
  BY <1>1 DEF SetupEmpty, TypeInv, TypeOK, CallerInv, Stopped, slotVars, threadVars
<1>2. CASE Setup
  <2>1. /\ llist_count(nodes) \in 1..MaxNodes
        /\ count' = llist_count(nodes)
        /\ concurrent' \in 1..llist_count(nodes)
        /\ current_node' = 1
        /\ pc' \in {"visit", "enomem"}
        /\ command' = "set"
        /\ UNCHANGED <<i, nodes, slotVars, threadVars, execute_current>>
    BY <1>0, <1>2 DEF Setup, Clamped, TypeInv, TypeOK
  <2>2. TypeOK'
    BY <2>1 DEF TypeInv, TypeOK, Stopped, slotVars, threadVars
  <2>3. i = 1
    BY <1>2 DEF Setup, TypeInv, CallerInv
  <2>4. CallerInv'
    <3>1. /\ llist_count(nodes') = llist_count(nodes)
          /\ Len(nodes') = llist_count(nodes) + 1
          /\ i' = 1
      BY <1>0, <2>1, <2>3
    <3>2. llist_count(nodes) \in Nat \ {0}
      BY <2>1
    <3>4. current_node' \in 1..Len(nodes')
      BY <2>1, <3>1, <3>2
    <3>5. count' = Len(nodes') - current_node'
      BY <2>1, <3>1, <3>2
    <3>6. i' \in 1..(concurrent' + 1)
      <4>1. \A n \in Nat : 1 \in 1..(n + 1)
        OBVIOUS
      <4>2. concurrent' \in Nat /\ i' = 1
        BY <2>1, <3>1, <3>2
      <4>. QED
        BY <4>1, <4>2
    <3>3. pc' # "setup"
      BY <2>1
    <3>. QED
      BY <2>1, <3>1, <3>3, <3>4, <3>5, <3>6 DEF CallerInv
  <2>. QED
    BY <2>2, <2>4 DEF TypeInv
<1>3. CASE SkipSlot
  <2>1. /\ pc = "visit"
        /\ i <= concurrent
        /\ mutex' = [mutex EXCEPT ![i] = "locked"]
        /\ UNCHANGED <<nodes, current_node, count, concurrent, command,
                       container, handle, threadVars, execute_current>>
    BY <1>3 DEF SkipSlot
  <2>2. /\ current_node \in 1..Len(nodes)
        /\ concurrent \in 1..MaxNodes
        /\ i \in 1..(concurrent + 1)
    BY <1>0, <2>1 DEF TypeInv, CallerInv
  <2>3. pc' = "visit" /\ i' = i + 1
    BY <1>3, <2>2 DEF SkipSlot, NULL
  <2>4. i' \in 1..(concurrent + 1) /\ i' \in 1..(MaxNodes + 1)
    BY <2>1, <2>2, <2>3
  <2>5. TypeOK'
    BY <2>1, <2>3, <2>4 DEF TypeInv, TypeOK, threadVars
  <2>. QED
    BY <2>1, <2>3, <2>4, <2>5 DEF TypeInv, CallerInv
<1>4. CASE DispatchNull
  <2>1. /\ pc = "visit"
        /\ pc' = "crash_node"
        /\ mutex' = [mutex EXCEPT ![i] = "locked"]
        /\ current_node' = NextCell(nodes, current_node)
        /\ UNCHANGED <<i, nodes, count, concurrent, command, container, handle,
                       threadVars, execute_current>>
    BY <1>4 DEF DispatchNull, FreeSlot
  <2>2. current_node' \in 0..(MaxNodes + 1)
    BY <1>0, <2>1 DEF TypeInv, CallerInv, NextCell, NULL
  <2>. QED
    BY <2>1, <2>2 DEF TypeInv, TypeOK, CallerInv, Stopped, Crashes, threadVars
<1>5. CASE Dispatch
  <2>1. /\ handle' = [handle EXCEPT ![i] = current_node]
        /\ tpc' = [tpc EXCEPT ![current_node] = "fetch"]
        /\ tslot' = [tslot EXCEPT ![current_node] = i]
        /\ UNCHANGED <<pc, nodes, concurrent, command, tnode, elem, next,
                       trace, execute_current>>
    BY <1>5 DEF Dispatch, TakeNode
  <2>2. TakeNode
    BY <1>5 DEF Dispatch
  <2>3. current_node \in 0..(MaxNodes + 1)
    BY DEF TypeInv, TypeOK
  <2>. QED
    BY <2>1, <2>2, <2>3, TakeNodeTyped DEF TypeInv, TypeOK, Busy
<1>6. CASE SpawnFails
  <2>1. /\ tpc' = [tpc EXCEPT ![current_node] = "failed"]
        /\ tslot' = [tslot EXCEPT ![current_node] = i]
        /\ UNCHANGED <<pc, nodes, concurrent, command, tnode, elem, next,
                       trace, execute_current>>
    BY <1>6 DEF SpawnFails, TakeNode
  <2>2. TakeNode /\ i \in Slots
    BY <1>6, TakeNodeTyped DEF SpawnFails
  <2>3. PICK h \in {NULL, handle[i], Indeterminate} : handle' = [handle EXCEPT ![i] = h]
    BY <1>6 DEF SpawnFails
  <2>4. handle \in [Slots -> 0..(MaxNodes + 1)]
    BY DEF TypeInv, TypeOK
  <2>5. h \in 0..(MaxNodes + 1)
    BY <2>2, <2>3, <2>4 DEF Indeterminate, NULL
  <2>6. handle' \in [Slots -> 0..(MaxNodes + 1)]
    BY <2>3, <2>4, <2>5
  <2>. QED
    BY <2>1, <2>2, <2>6, TakeNodeTyped DEF TypeInv, TypeOK
<1>7. CASE EndPass
  <2>1. /\ pc = "visit" /\ pc' \in {"visit", "join"}
        /\ i' = 1
        /\ UNCHANGED <<nodes, current_node, count, concurrent, command>>
        /\ UNCHANGED <<slotVars, threadVars, execute_current>>
    BY <1>7 DEF EndPass
  <2>2. 1 \in 1..(MaxNodes + 1) /\ \A m \in Nat : 1 \in 1..(m + 1)
    OBVIOUS
  <2>3. TypeOK'
    BY <2>1, <2>2 DEF TypeInv, TypeOK, slotVars, threadVars
  <2>4. concurrent \in 1..llist_count(nodes)
    BY <2>1 DEF TypeInv, CallerInv
  <2>5. i' \in 1..(concurrent' + 1)
    BY <1>0, <2>1, <2>2, <2>4
  <2>6. CallerInv'
    BY <2>1, <2>5 DEF TypeInv, CallerInv
  <2>. QED
    BY <2>3, <2>6 DEF TypeInv
<1>8. CASE Join
  <2>1. i' \in 1..(concurrent + 1) /\ i' \in 1..(MaxNodes + 1)
    BY <1>0, <1>8 DEF Join, TypeInv, CallerInv
  <2>. QED
    BY <1>8, <2>1 DEF Join, TypeInv, TypeOK, CallerInv, slotVars, threadVars
<1>9. CASE JoinInvalid
  <2>1. i \in 1..concurrent /\ concurrent \in 1..MaxNodes
    BY <1>0, <1>9 DEF JoinInvalid, TypeInv, CallerInv
  <2>2. CASE pc' = "crash_join" /\ i' = i
    BY <1>9, <2>2 DEF JoinInvalid, TypeInv, TypeOK, CallerInv, Stopped, Crashes,
                      slotVars, threadVars
  <2>3. CASE pc' = "join" /\ i' = i + 1
    <3>1. i' \in 1..(concurrent + 1) /\ i' \in 1..(MaxNodes + 1)
      BY <2>1, <2>3
    <3>. QED
      BY <1>9, <2>3, <3>1 DEF JoinInvalid, TypeInv, TypeOK, CallerInv,
                              slotVars, threadVars
  <2>. QED
    BY <1>9, <2>2, <2>3 DEF JoinInvalid
<1>10. CASE Finish
  BY <1>10, ExecuteList DEF Finish, TypeInv, TypeOK, CallerInv, Stopped,
                            slotVars, threadVars
<1>. QED
  BY <1>1, <1>2, <1>3, <1>4, <1>5, <1>6, <1>7, <1>8, <1>9, <1>10 DEF Caller

\* What the steps of a thread leave alone.
LEMMA ThreadFrame ==
    ASSUME NEW t \in Threads, Thread(t)
    PROVE  /\ UNCHANGED <<i, nodes, current_node, count, concurrent, command,
                          container, handle, tslot>>
           /\ pc' \in {pc, "crash_cursor"}
<1>1. CASE CursorFault(t)
  BY <1>1 DEF CursorFault, slotVars, threadVars
<1>2. CASE ~CursorFault(t)
  BY <1>2 DEF Thread, Fetch, EachStart, EachGuard, EachTest, EachValue, EachLoad,
              EachStore, Call, Release, Exit, Goes, callerVars
<1>. QED
  BY <1>1, <1>2

LEMMA ThreadTyped == ASSUME NEW t \in Threads PROVE TypeInv /\ Thread(t) => TypeInv'
<1>. SUFFICES ASSUME TypeInv, Thread(t) PROVE TypeInv'
  OBVIOUS
<1>. USE ExecuteAssumption, ExecuteList DEF NULL
<1>1. /\ UNCHANGED <<i, nodes, current_node, count, concurrent, command,
                     container, handle, tslot>>
      /\ pc' \in {pc, "crash_cursor"}
  BY ThreadFrame
<1>2. CallerInv'
  BY <1>1 DEF TypeInv, CallerInv
<1>3. /\ pc' \in {"setup", "visit", "join"} \union Stopped
      /\ i' \in 1..(MaxNodes + 1)
      /\ nodes' \in {Registered(k) : k \in 0..MaxNodes}
      /\ current_node' \in 0..(MaxNodes + 1)
      /\ count' \in 0..MaxNodes
      /\ concurrent' \in Int
      /\ command' \in {"unset", "set", "freed"}
      /\ container' \in [Slots -> 0..MaxNodes]
      /\ handle' \in [Slots -> 0..(MaxNodes + 1)]
      /\ tslot' \in [Threads -> Slots]
  BY <1>1 DEF TypeInv, TypeOK, Stopped, Crashes
<1>. DEFINE Rest ==
        /\ mutex \in [Slots -> {"free", "locked"}]
        /\ tpc \in [Threads -> {"none", "failed"} \union Busy \union Ended]
        /\ tnode \in [Threads -> 0..MaxNodes]
        /\ elem \in [Threads -> 0..NumCallbacks]
        /\ next \in [Threads -> 0..Len(execute)]
        /\ trace \in [Threads -> Seq(0..NumCallbacks)]
        /\ execute_current \in 0..Len(execute)
<1>4. Rest /\ container \in [Slots -> 0..MaxNodes] /\ tslot \in [Threads -> Slots]
  BY DEF TypeInv, TypeOK
<1>. USE <1>4 DEF Goes, Busy, Walking, Ended
<1>5. Rest'
  <2>1. CASE Fetch(t)
    BY <2>1 DEF Fetch
  <2>2. CASE EachStart(t)
    BY <2>2 DEF EachStart
  <2>3. CASE EachGuard(t)
    BY <2>3 DEF EachGuard
  <2>4. CASE EachTest(t)
    BY <2>4 DEF EachTest
  <2>5. CASE EachValue(t)
    <3>1. execute_current \in 1..Len(execute)
      BY <2>5 DEF EachValue
    <3>2. execute[execute_current] \in 0..NumCallbacks
      BY <3>1
    <3>. QED
      BY <2>5, <3>2 DEF EachValue
  <2>6. CASE EachLoad(t)
    <3>1. execute_current \in 1..Len(execute)
      BY <2>6 DEF EachLoad
    <3>2. NextCell(execute, execute_current) \in 0..Len(execute)
      BY <3>1
    <3>. QED
      BY <2>6, <3>2 DEF EachLoad
  <2>7. CASE EachStore(t)
    BY <2>7 DEF EachStore
  <2>8. CASE Call(t)
    <3>1. Append(trace[t], elem[t]) \in Seq(0..NumCallbacks)
      OBVIOUS
    <3>. QED
      BY <2>8, <3>1 DEF Call
  <2>9. CASE CursorFault(t)
    BY <2>9 DEF CursorFault, slotVars, threadVars
  <2>10. CASE Release(t)
    BY <2>10 DEF Release
  <2>11. CASE Exit(t)
    BY <2>11 DEF Exit
  <2>. QED
    BY <2>1, <2>2, <2>3, <2>4, <2>5, <2>6, <2>7, <2>8, <2>9, <2>10, <2>11 DEF Thread
<1>. QED
  BY <1>2, <1>3, <1>5 DEF TypeInv, TypeOK

LEMMA NextTyped == TypeInv /\ [Next]_vars => TypeInv'
<1>. SUFFICES ASSUME TypeInv, [Next]_vars PROVE TypeInv'
  OBVIOUS
<1>1. CASE UNCHANGED vars
  BY <1>1 DEF TypeInv, TypeOK, CallerInv, vars, callerVars, slotVars, threadVars
<1>. QED
  BY <1>1, CallerTyped, ThreadTyped DEF Next, Terminated

\* The variables of Execute keep their types: no slot, cell or thread
\* outside the arrays of libdistexec_execute is ever used.
THEOREM Typing == Spec => []TypeOK
<1>1. Spec => []TypeInv
  BY InitTyped, NextTyped, PTL DEF Spec
<1>2. TypeInv => TypeOK
  BY DEF TypeInv
<1>. QED
  BY <1>1, <1>2, PTL

-----------------------------------------------------------------------------
(* Slots *)

(***************************************************************************)
(* SlotOwned is not inductive.  A slot is handed to a new thread because   *)
(* its mutex is free, so a busy thread must be known to hold its mutex; it *)
(* is joined through the handle, so the handle must still name it; and     *)
(* when the caller joins, the slots it has passed must have no busy thread *)
(* left.                                                                   *)
(***************************************************************************)
SlotInv ==
    /\ \A t \in Threads : tpc[t] \in Busy =>
          /\ pc \notin {"setup", "einval", "enomem", "returned"}
          /\ pc = "join" => tslot[t] >= i
          /\ command = "set"
          /\ tslot[t] \in 1..concurrent
          /\ mutex[tslot[t]] = "locked"
          /\ container[tslot[t]] = nodes[t]
          /\ handle[tslot[t]] = t
    /\ pc = "setup" => \A t \in Threads : tpc[t] = "none"
    /\ pc \in {"visit", "join"} =>
          /\ command = "set"
          /\ \A t \in Threads : tpc[t] # "none" => t < current_node

LEMMA BusyStates == Busy \intersect ({"none", "failed"} \union Ended) = {}
BY DEF Busy, Walking, Ended

LEMMA InitSlots == Init => SlotInv
BY BusyStates DEF Init, SlotInv

\* Handing slot i to the thread of the current cell does not disturb a busy
\* thread, because that thread holds another mutex.
LEMMA TakeNodeSlots ==
    ASSUME Platform = "posix", TypeInv, SlotInv, TakeNode,
           NEW t \in Threads, tpc[t] \in Busy
    PROVE  /\ tslot[t] # i
           /\ t # current_node
           /\ mutex'[tslot[t]] = mutex[tslot[t]]
           /\ container'[tslot[t]] = container[tslot[t]]
<1>1. pc = "visit" /\ mutex[i] = "free"
  BY DEF TakeNode, FreeSlot, Acquires
<1>2. mutex[tslot[t]] = "locked" /\ t < current_node
  BY <1>1, BusyStates DEF SlotInv
<1>3. /\ mutex \in [Slots -> {"free", "locked"}]
      /\ container \in [Slots -> 0..MaxNodes]
      /\ tslot[t] \in Slots
      /\ current_node \in Threads
  BY TakeNodeTyped DEF TypeInv, TypeOK
<1>4. tslot[t] # i
  BY <1>1, <1>2
<1>5. t # current_node
  BY <1>2, <1>3, ExecuteAssumption DEF Threads
<1>. QED
  BY <1>3, <1>4, <1>5 DEF TakeNode

LEMMA CallerSlots ==
    ASSUME Platform = "posix", TypeInv, SlotInv, Caller
    PROVE  SlotInv'
<1>. USE ExecuteAssumption
<1>1. CASE SetupEmpty
  BY <1>1, BusyStates DEF SetupEmpty, SlotInv, slotVars, threadVars
<1>2. CASE Setup
  BY <1>2, BusyStates DEF Setup, SlotInv, slotVars, threadVars
<1>3. CASE SkipSlot
  <2>1. /\ pc = "visit"
        /\ current_node \in 1..Len(nodes)
    BY <1>3 DEF SkipSlot, TypeInv, CallerInv
  <2>2. /\ pc' = "visit"
        /\ mutex' = [mutex EXCEPT ![i] = "locked"]
        /\ UNCHANGED <<nodes, current_node, count, concurrent, command,
                       container, handle, threadVars>>
    BY <1>3, <2>1 DEF SkipSlot, NULL
  <2>3. /\ mutex \in [Slots -> {"free", "locked"}]
        /\ tslot \in [Threads -> Slots]
    BY DEF TypeInv, TypeOK
  <2>. QED
    BY <2>1, <2>2, <2>3 DEF SlotInv, threadVars
<1>4. CASE DispatchNull
  <2>1. /\ pc = "visit"
        /\ pc' = "crash_node"
        /\ mutex' = [mutex EXCEPT ![i] = "locked"]
        /\ UNCHANGED <<nodes, concurrent, command, container, handle, threadVars>>
    BY <1>4 DEF DispatchNull, FreeSlot
  <2>2. /\ mutex \in [Slots -> {"free", "locked"}]
        /\ tslot \in [Threads -> Slots]
    BY DEF TypeInv, TypeOK
  <2>. QED
    BY <2>1, <2>2 DEF SlotInv, threadVars
<1>5. ASSUME TakeNode
      PROVE  /\ pc = "visit" /\ pc' = "visit" /\ command = "set" /\ command' = "set"
             /\ i \in 1..concurrent /\ concurrent' = concurrent /\ nodes' = nodes
             /\ i \in Slots /\ current_node \in Threads
             /\ current_node' = current_node + 1
             /\ mutex'[i] = "locked"
             /\ container'[i] = nodes[current_node]
             /\ \A t \in Threads : tpc[t] # "none" => t < current_node
  <2>1. /\ pc = "visit"
        /\ nodes[current_node] # NULL
        /\ i <= concurrent
        /\ mutex' = [mutex EXCEPT ![i] = "locked"]
        /\ container' = [container EXCEPT ![i] = nodes[current_node]]
        /\ current_node' = NextCell(nodes, current_node)
        /\ UNCHANGED <<pc, nodes, concurrent, command>>
    BY <1>5 DEF TakeNode, FreeSlot
  <2>2. i \in 1..(concurrent + 1) /\ concurrent \in Int
    BY <2>1 DEF TypeInv, CallerInv, TypeOK
  <2>3. i \in Slots /\ current_node \in Threads /\ current_node' = current_node + 1
    BY <1>5, <2>1, TakeNodeTyped, NodeCell
  <2>4. /\ mutex \in [Slots -> {"free", "locked"}]
        /\ container \in [Slots -> 0..MaxNodes]
    BY DEF TypeInv, TypeOK
  <2>5. command = "set" /\ \A t \in Threads : tpc[t] # "none" => t < current_node
    BY <2>1 DEF SlotInv
  <2>. QED
    BY <2>1, <2>2, <2>3, <2>4, <2>5
<1>6. /\ tpc \in [Threads -> {"none", "failed"} \union Busy \union Ended]
      /\ tslot \in [Threads -> Slots]
      /\ handle \in [Slots -> 0..(MaxNodes + 1)]
  BY DEF TypeInv, TypeOK
<1>7. CASE Dispatch
  <2>1. /\ TakeNode
        /\ handle' = [handle EXCEPT ![i] = current_node]
        /\ tpc' = [tpc EXCEPT ![current_node] = "fetch"]
        /\ tslot' = [tslot EXCEPT ![current_node] = i]
    BY <1>7 DEF Dispatch
  <2>2. ASSUME NEW t \in Threads, tpc'[t] \in Busy
        PROVE  /\ tslot'[t] \in 1..concurrent
               /\ mutex'[tslot'[t]] = "locked"
               /\ container'[tslot'[t]] = nodes[t]
               /\ handle'[tslot'[t]] = t
    <3>1. CASE t = current_node
      BY <1>5, <1>6, <2>1, <3>1
    <3>2. CASE t # current_node
      <4>1. tpc[t] \in Busy /\ tslot'[t] = tslot[t]
        BY <1>6, <2>1, <2>2, <3>2
      <4>2. /\ tslot[t] # i
            /\ mutex'[tslot[t]] = mutex[tslot[t]]
            /\ container'[tslot[t]] = container[tslot[t]]
        BY <2>1, <4>1, TakeNodeSlots
      <4>. QED
        BY <1>6, <2>1, <4>1, <4>2 DEF SlotInv
    <3>. QED
      BY <3>1, <3>2
  <2>3. ASSUME NEW t \in Threads, tpc'[t] # "none"
        PROVE  t < current_node'
    BY <1>5, <1>6, <2>1, <2>3 DEF Threads
  <2>. QED
    BY <1>5, <2>1, <2>2, <2>3 DEF SlotInv
<1>8. CASE SpawnFails
  <2>1. PICK h : handle' = [handle EXCEPT ![i] = h]
    BY <1>8 DEF SpawnFails
  <2>2. /\ TakeNode
        /\ tpc' = [tpc EXCEPT ![current_node] = "failed"]
        /\ tslot' = [tslot EXCEPT ![current_node] = i]
    BY <1>8 DEF SpawnFails
  <2>3. ASSUME NEW t \in Threads, tpc'[t] \in Busy
        PROVE  /\ tslot'[t] \in 1..concurrent
               /\ mutex'[tslot'[t]] = "locked"
               /\ container'[tslot'[t]] = nodes[t]
               /\ handle'[tslot'[t]] = t
    <3>1. t # current_node /\ tpc[t] \in Busy /\ tslot'[t] = tslot[t]
      BY <1>6, <2>2, <2>3, BusyStates
    <3>2. /\ tslot[t] # i
          /\ mutex'[tslot[t]] = mutex[tslot[t]]
          /\ container'[tslot[t]] = container[tslot[t]]
      BY <2>2, <3>1, TakeNodeSlots
    <3>. QED
      BY <1>6, <2>1, <3>1, <3>2 DEF SlotInv
  <2>4. ASSUME NEW t \in Threads, tpc'[t] # "none"
        PROVE  t < current_node'
    BY <1>5, <1>6, <2>2, <2>4 DEF Threads
  <2>. QED
    BY <1>5, <2>2, <2>3, <2>4 DEF SlotInv
<1>9. CASE EndPass
  BY <1>6, <1>9 DEF EndPass, SlotInv, slotVars, threadVars, Slots
<1>10. CASE Join
  <2>1. /\ pc = "join" /\ pc' = "join"
        /\ handle[i] \in Threads /\ tpc[handle[i]] = "exited"
        /\ i' = i + 1
        /\ UNCHANGED <<nodes, current_node, concurrent, command, slotVars, threadVars>>
    BY <1>10 DEF Join
  <2>2. ASSUME NEW t \in Threads, tpc[t] \in Busy
        PROVE  tslot[t] >= i'
    <3>1. tslot[t] >= i /\ handle[tslot[t]] = t /\ tpc[t] # "exited"
      BY <2>1, <2>2, BusyStates DEF SlotInv, Ended
    <3>2. i \in Int /\ tslot[t] \in Int
      BY <1>6 DEF TypeInv, TypeOK, Slots
    <3>. QED
      BY <2>1, <3>1, <3>2
  <2>. QED
    BY <2>1, <2>2 DEF SlotInv, slotVars, threadVars
<1>11. CASE JoinInvalid
  <2>1. /\ pc = "join" /\ handle[i] \notin Threads
        /\ \/ pc' = "crash_join" /\ i' = i
           \/ pc' = "join" /\ i' = i + 1
        /\ UNCHANGED <<nodes, current_node, concurrent, command, slotVars, threadVars>>
    BY <1>11 DEF JoinInvalid
  <2>2. ASSUME NEW t \in Threads, tpc[t] \in Busy
        PROVE  tslot[t] >= i + 1
    <3>1. tslot[t] >= i /\ handle[tslot[t]] = t
      BY <2>1, <2>2 DEF SlotInv
    <3>2. i \in Int /\ tslot[t] \in Int
      BY <1>6 DEF TypeInv, TypeOK, Slots
    <3>. QED
      BY <2>1, <3>1, <3>2
  <2>. QED
    BY <2>1, <2>2 DEF SlotInv, slotVars, threadVars
<1>12. CASE Finish
  <2>1. /\ pc = "join" /\ pc' = "returned" /\ i > concurrent
        /\ UNCHANGED <<threadVars>>
    BY <1>12 DEF Finish
  <2>2. \A t \in Threads : tpc[t] \notin Busy
    <3>1. \A t \in Threads : tpc[t] \in Busy => tslot[t] \in 1..concurrent /\ tslot[t] >= i
      BY <2>1 DEF SlotInv
    <3>2. i \in Int /\ concurrent \in Int
      BY <1>6 DEF TypeInv, TypeOK, Slots
    <3>. QED
      BY <2>1, <3>1, <3>2
  <2>. QED
    BY <2>1, <2>2 DEF SlotInv, threadVars
<1>. QED
  BY <1>1, <1>2, <1>3, <1>4, <1>7, <1>8, <1>9, <1>10, <1>11, <1>12 DEF Caller

\* A step of a thread makes no thread busy and frees at most the mutex of a
\* thread that is then no longer busy.
LEMMA ThreadSteps ==
    ASSUME Platform = "posix", TypeInv, NEW t \in Threads, Thread(t)
    PROVE  /\ \A u \in Threads : (tpc'[u] = "none") <=> (tpc[u] = "none")
           /\ \A u \in Threads : tpc'[u] \in Busy => tpc[u] \in Busy
           /\ \/ UNCHANGED mutex
              \/ /\ tpc[t] \in Busy
                 /\ tpc'[t] \notin Busy
                 /\ mutex' = [mutex EXCEPT ![tslot[t]] = "free"]
<1>1. tpc \in [Threads -> {"none", "failed"} \union Busy \union Ended]
  BY DEF TypeInv, TypeOK
<1>. USE <1>1 DEF Goes, Busy, Walking, Ended
<1>2. CASE CursorFault(t)
  BY <1>2 DEF CursorFault, slotVars, threadVars
<1>3. CASE Release(t)
  BY <1>3 DEF Release
<1>4. CASE Fetch(t) \/ EachStart(t) \/ EachGuard(t) \/ EachTest(t) \/ EachValue(t)
  BY <1>4 DEF Fetch, EachStart, EachGuard, EachTest, EachValue
<1>5. CASE EachLoad(t) \/ EachStore(t) \/ Call(t) \/ Exit(t)
  BY <1>5 DEF EachLoad, EachStore, Call, Exit
<1>. QED
  BY <1>2, <1>3, <1>4, <1>5 DEF Thread

LEMMA ThreadSlots ==
    ASSUME Platform = "posix", TypeInv, SlotInv, NEW t \in Threads, Thread(t)
    PROVE  SlotInv'
<1>1. /\ UNCHANGED <<i, nodes, current_node, count, concurrent, command,
                     container, handle, tslot>>
      /\ pc' \in {pc, "crash_cursor"}
  BY ThreadFrame
<1>2. ASSUME NEW u \in Threads, tpc'[u] \in Busy
      PROVE  mutex'[tslot[u]] = "locked"
  <2>1. tpc[u] \in Busy
    BY <1>2, ThreadSteps
  <2>2. /\ mutex[tslot[u]] = "locked"
        /\ handle[tslot[u]] = u
    BY <2>1 DEF SlotInv
  <2>3. CASE UNCHANGED mutex
    BY <2>2, <2>3
  <2>4. CASE /\ tpc[t] \in Busy
             /\ tpc'[t] \notin Busy
             /\ mutex' = [mutex EXCEPT ![tslot[t]] = "free"]
    <3>1. handle[tslot[t]] = t /\ u # t
      BY <1>2, <2>4 DEF SlotInv
    <3>2. tslot[u] # tslot[t]
      BY <2>2, <3>1
    <3>3. mutex \in [Slots -> {"free", "locked"}] /\ tslot[u] \in Slots
      BY DEF TypeInv, TypeOK
    <3>. QED
      BY <2>2, <2>4, <3>2, <3>3
  <2>. QED
    BY <2>3, <2>4, ThreadSteps
<1>3. /\ \A u \in Threads : (tpc'[u] = "none") <=> (tpc[u] = "none")
      /\ \A u \in Threads : tpc'[u] \in Busy => tpc[u] \in Busy
  BY ThreadSteps
<1>. QED
  BY <1>1, <1>2, <1>3 DEF SlotInv

LEMMA NextSlots == Platform = "posix" /\ TypeInv /\ SlotInv /\ [Next]_vars => SlotInv'
<1>. SUFFICES ASSUME Platform = "posix", TypeInv, SlotInv, [Next]_vars
              PROVE  SlotInv'
  OBVIOUS
<1>1. CASE UNCHANGED vars
  BY <1>1 DEF SlotInv, vars, callerVars, slotVars, threadVars
<1>. QED
  BY <1>1, CallerSlots, ThreadSlots DEF Next, Terminated

LEMMA SlotsAlways == Spec => [](TypeInv /\ (Platform = "posix" => SlotInv))
<1>1. Init => TypeInv /\ (Platform = "posix" => SlotInv)
  BY InitTyped, InitSlots
<1>2. /\ TypeInv /\ (Platform = "posix" => SlotInv)
      /\ [Next]_vars
      => (TypeInv /\ (Platform = "posix" => SlotInv))'
  BY NextTyped, NextSlots
<1>. QED
  BY <1>1, <1>2, PTL DEF Spec

\* With pthreads a slot belongs to one thread until that thread unlocks it.
THEOREM SlotsOwned == Spec => [](Platform = "posix" => SlotOwned)
<1>1. TypeInv /\ (Platform = "posix" => SlotInv) => (Platform = "posix" => SlotOwned)
  BY DEF SlotInv, SlotOwned
<1>. QED
  BY <1>1, SlotsAlways, PTL

\* With pthreads the command is freed only when no thread can pass it on any
\* more, although a slot's earlier threads are never joined.
THEOREM CommandSafe == Spec => [](Platform = "posix" => CommandOutlivesCalls)
<1>1. TypeInv /\ (Platform = "posix" => SlotInv)
      => (Platform = "posix" => CommandOutlivesCalls)
  BY DEF SlotInv, CommandOutlivesCalls
<1>. QED
  BY <1>1, SlotsAlways, PTL

LEMMA SlotsBound == ASSUME TypeInv, SlotInv PROVE ConcurrencyBound
<1>. DEFINE executing == {t \in Threads : tpc[t] \in Busy}
            slot == [t \in executing |-> tslot[t]]
<1>. SUFFICES ASSUME executing # {}
              PROVE  Cardinality(executing) <= concurrent
  BY DEF ConcurrencyBound
<1>1. \A t \in executing : tslot[t] \in 1..concurrent /\ handle[tslot[t]] = t
  BY DEF SlotInv
<1>2. slot \in Injection(executing, 1..concurrent)
  BY <1>1 DEF Injection, IsInjective
<1>3. concurrent \in Int /\ 1 <= concurrent
  BY <1>1 DEF TypeInv, TypeOK
<1>4. IsFiniteSet(1..concurrent) /\ Cardinality(1..concurrent) = concurrent
  BY <1>3, FS_Interval
<1>. QED
  BY <1>2, <1>4, FS_Injection

\* With pthreads no more nodes than cfg->concurrent are executed at a time:
\* a busy thread is the one its slot's handle names.
THEOREM SlotsLimit == Spec => [](Platform = "posix" => ConcurrencyBound)
<1>1. TypeInv /\ (Platform = "posix" => SlotInv)
      => (Platform = "posix" => ConcurrencyBound)
  BY SlotsBound
<1>. QED
  BY <1>1, SlotsAlways, PTL

-----------------------------------------------------------------------------
(* The cell without a node *)

(***************************************************************************)
(* Why NullNodeOnlyMidPass holds.  A pass begins only while nodes are      *)
(* left, so the last node is never taken before a pass.  With as many      *)
(* slots as nodes there is one pass only: the slots from the current one   *)
(* on have not been used yet, and each is given the node of its number.    *)
(***************************************************************************)
PassInv ==
    /\ pc = "setup" => \A s \in Slots : mutex[s] = "free"
    /\ pc = "visit" /\ i = 1 => count > 0
    /\ pc = "visit" /\ concurrent = llist_count(nodes) =>
          /\ i = current_node
          /\ \A s \in Slots : s >= i => mutex[s] = "free"
    /\ NullNodeOnlyMidPass

LEMMA InitPass == Init => PassInv
BY DEF Init, PassInv, NullNodeOnlyMidPass

\* The values of the cells of the list the workaround builds.
LEMMA PushedCell ==
    ASSUME TypeInv, Discipline = "push", NEW c \in 1..Len(nodes)
    PROVE  nodes[c] = Len(nodes) - c
<1>1. PICK k \in 0..MaxNodes : nodes = Registered(k)
  BY DEF TypeInv, TypeOK
<1>2. k \in Nat
  BY <1>1, ExecuteAssumption
<1>3. Len(nodes) = k + 1
  BY <1>1, <1>2, RegisteredList
<1>. QED
  BY <1>1, <1>2, <1>3 DEF Registered

LEMMA NextPass == TypeInv /\ PassInv /\ [Next]_vars => PassInv'
<1>. SUFFICES ASSUME TypeInv, PassInv, [Next]_vars PROVE PassInv'
  OBVIOUS
<1>. USE ExecuteAssumption
<1>0. /\ llist_count(nodes) \in 0..MaxNodes
      /\ Len(nodes) = llist_count(nodes) + 1
      /\ mutex \in [Slots -> {"free", "locked"}]
      /\ count \in 0..MaxNodes
      /\ i \in 1..(MaxNodes + 1)
      /\ concurrent \in Int
  BY NodesList DEF TypeInv, TypeOK
<1>1. CASE UNCHANGED vars
  BY <1>1 DEF PassInv, NullNodeOnlyMidPass, vars, callerVars, slotVars, threadVars
<1>2. CASE SetupEmpty
  BY <1>2 DEF SetupEmpty, PassInv, NullNodeOnlyMidPass, slotVars
<1>3. CASE Setup
  <2>1. /\ pc = "setup" /\ pc' \in {"visit", "enomem"}
        /\ count' = llist_count(nodes) /\ llist_count(nodes) >= 1
        /\ current_node' = 1
        /\ i' = i /\ nodes' = nodes /\ mutex' = mutex
    BY <1>3 DEF Setup, slotVars
  <2>2. i = 1
    BY <2>1 DEF TypeInv, CallerInv
  <2>. QED
    BY <1>0, <2>1, <2>2 DEF PassInv, NullNodeOnlyMidPass
<1>4. CASE SkipSlot
  <2>1. /\ pc = "visit" /\ pc' = "visit"
        /\ i' = i + 1 /\ mutex[i] # "free"
        /\ i \in 1..concurrent
        /\ UNCHANGED <<nodes, current_node, count, concurrent>>
    BY <1>0, <1>4 DEF SkipSlot, TypeInv, CallerInv, NULL, Acquires
  <2>2. concurrent \in 1..llist_count(nodes)
    BY <2>1 DEF TypeInv, CallerInv
  <2>3. concurrent # llist_count(nodes)
    BY <1>0, <2>1, <2>2 DEF PassInv, Slots
  <2>. QED
    BY <1>0, <2>1, <2>3 DEF PassInv, NullNodeOnlyMidPass
<1>5. CASE DispatchNull
  <2>1. /\ pc = "visit" /\ pc' = "crash_node"
        /\ i <= concurrent
        /\ nodes[current_node] = NULL
        /\ UNCHANGED <<i, nodes, count, concurrent>>
    BY <1>5 DEF DispatchNull, FreeSlot
  <2>2. /\ current_node \in 1..Len(nodes)
        /\ count = Len(nodes) - current_node
        /\ concurrent \in 1..llist_count(nodes)
    BY <2>1 DEF TypeInv, CallerInv
  <2>3. ASSUME Discipline = "push"
        PROVE  /\ count = 0
               /\ 1 < i /\ 1 < concurrent
               /\ concurrent < llist_count(nodes)
    <3>1. count = 0
      BY <2>1, <2>2, <2>3, PushedCell DEF NULL
    <3>2. i > 1
      BY <1>0, <2>1, <3>1 DEF PassInv
    <3>3. concurrent # llist_count(nodes)
      BY <1>0, <2>1, <2>2, <3>1 DEF PassInv
    <3>. QED
      BY <1>0, <2>1, <2>2, <3>1, <3>2, <3>3
  <2>. QED
    BY <2>1, <2>3 DEF PassInv, NullNodeOnlyMidPass
<1>6. CASE Dispatch \/ SpawnFails
  <2>1. TakeNode
    BY <1>6 DEF Dispatch, SpawnFails
  <2>2. /\ pc = "visit" /\ pc' = "visit"
        /\ i' = i + 1
        /\ nodes[current_node] # NULL
        /\ mutex' = [mutex EXCEPT ![i] = "locked"]
        /\ UNCHANGED <<nodes, concurrent>>
        /\ current_node' = NextCell(nodes, current_node)
    BY <2>1 DEF TakeNode, FreeSlot
  <2>3. current_node' = current_node + 1
    BY <2>2, NodeCell
  <2>. QED
    BY <1>0, <2>2, <2>3 DEF PassInv, NullNodeOnlyMidPass, Slots
<1>7. CASE EndPass
  <2>1. /\ pc = "visit" /\ i > concurrent /\ i' = 1
        /\ pc' = IF count > 0 THEN "visit" ELSE "join"
        /\ UNCHANGED <<nodes, current_node, count, concurrent, mutex>>
    BY <1>7 DEF EndPass, slotVars
  <2>2. /\ count = Len(nodes) - current_node
        /\ concurrent \in 1..llist_count(nodes)
        /\ i \in 1..(concurrent + 1)
    BY <2>1 DEF TypeInv, CallerInv
  <2>3. concurrent = llist_count(nodes) => count = 0
    BY <1>0, <2>1, <2>2 DEF PassInv
  <2>. QED
    BY <1>0, <2>1, <2>3 DEF PassInv, NullNodeOnlyMidPass
<1>8. CASE Join \/ JoinInvalid \/ Finish
  BY <1>8 DEF Join, JoinInvalid, Finish, PassInv, NullNodeOnlyMidPass
<1>9. ASSUME NEW t \in Threads, Thread(t)
      PROVE  PassInv'
  <2>1. /\ UNCHANGED <<i, nodes, current_node, count, concurrent>>
        /\ pc' \in {pc, "crash_cursor"}
    BY <1>9, ThreadFrame
  <2>2. \/ UNCHANGED mutex
        \/ mutex' = [mutex EXCEPT ![tslot[t]] = "free"]
    <3>1. CASE CursorFault(t)
      BY <3>1 DEF CursorFault, slotVars
    <3>2. CASE Release(t)
      BY <3>2 DEF Release
    <3>3. CASE Fetch(t) \/ EachStart(t) \/ EachGuard(t) \/ EachTest(t)
      BY <3>3 DEF Fetch, EachStart, EachGuard, EachTest
    <3>4. CASE EachValue(t) \/ EachLoad(t) \/ EachStore(t) \/ Call(t) \/ Exit(t)
      BY <3>4 DEF EachValue, EachLoad, EachStore, Call, Exit
    <3>. QED
      BY <1>9, <3>1, <3>2, <3>3, <3>4 DEF Thread
  <2>3. \A s \in Slots : mutex[s] = "free" => mutex'[s] = "free"
    BY <1>0, <2>2
  <2>. QED
    BY <2>1, <2>3 DEF PassInv, NullNodeOnlyMidPass
<1>. QED
  BY <1>1, <1>2, <1>3, <1>4, <1>5, <1>6, <1>7, <1>8, <1>9
     DEF Next, Caller, Terminated

\* Under the list workaround the caller reaches the cell without a node only
\* in the middle of a pass, with more than one slot and fewer than nodes.
THEOREM NullNodeMidPass == Spec => []NullNodeOnlyMidPass
<1>1. Init => TypeInv /\ PassInv
  BY InitTyped, InitPass
<1>2. TypeInv /\ PassInv /\ [Next]_vars => (TypeInv /\ PassInv)'
  BY NextTyped, NextPass
<1>3. PassInv => NullNodeOnlyMidPass
  BY DEF PassInv
<1>. QED
  BY <1>1, <1>2, <1>3, PTL DEF Spec

-----------------------------------------------------------------------------
(* Every node is executed *)

(***************************************************************************)
(* Why CompleteOnReturn holds.  The cells before the current one, and no   *)
(* others, have had their thread; the caller joins only when the current   *)
(* cell is the last one, which the compiled list never reaches; and since  *)
(* the container was not overwritten before it was read, a thread has got  *)
(* the node of the cell it was started for.                                *)
(***************************************************************************)
DoneInv ==
    /\ \A t \in Threads :
          tpc[t] \in Walking \union {"release"} \union Ended => tnode[t] = nodes[t]
    /\ pc \in {"visit", "join", "returned"} =>
          \A t \in Threads : (tpc[t] # "none") <=> (t < current_node)
    /\ pc = "join" => count = 0
    /\ pc = "returned" =>
          /\ Discipline = "push"
          /\ current_node = Len(nodes)
          /\ \A t \in Threads : tpc[t] \notin Busy

LEMMA InitDone == Init => DoneInv
BY DEF Init, DoneInv, Walking, Ended

LEMMA CallerDone ==
    ASSUME Platform = "posix", TypeInv, SlotInv, DoneInv, Caller
    PROVE  DoneInv'
<1>. USE ExecuteAssumption
<1>0. /\ tpc \in [Threads -> {"none", "failed"} \union Busy \union Ended]
      /\ Len(nodes) = llist_count(nodes) + 1
      /\ llist_count(nodes) \in 0..MaxNodes
      /\ count \in 0..MaxNodes
  BY NodesList DEF TypeInv, TypeOK
<1>1. CASE SetupEmpty
  BY <1>1 DEF SetupEmpty, DoneInv, slotVars, threadVars
<1>2. CASE Setup
  <2>1. /\ pc = "setup" /\ pc' \in {"visit", "enomem"}
        /\ current_node' = 1
        /\ UNCHANGED <<nodes, threadVars>>
    BY <1>2 DEF Setup
  <2>2. \A t \in Threads : tpc[t] = "none" /\ ~(t < 1)
    BY <2>1 DEF SlotInv, Threads
  <2>. QED
    BY <2>1, <2>2 DEF DoneInv, threadVars
<1>3. CASE SkipSlot
  <2>1. /\ pc = "visit" /\ pc' = "visit"
        /\ UNCHANGED <<nodes, current_node, count, threadVars>>
    BY <1>3 DEF SkipSlot, TypeInv, CallerInv, NULL
  <2>. QED
    BY <2>1 DEF DoneInv, threadVars
<1>4. CASE DispatchNull
  BY <1>4 DEF DispatchNull, FreeSlot, DoneInv, threadVars
<1>5. ASSUME TakeNode, NEW state \in {"fetch", "failed"},
             tpc' = [tpc EXCEPT ![current_node] = state]
      PROVE  DoneInv'
  <2>1. /\ pc = "visit" /\ pc' = "visit"
        /\ current_node \in Threads
        /\ current_node' = current_node + 1
        /\ UNCHANGED <<nodes, tnode>>
    BY <1>5, TakeNodeTyped, NodeCell DEF TakeNode, FreeSlot
  <2>2. state \notin Walking \union {"release", "none"} \union Ended
    BY <1>5 DEF Walking, Ended
  <2>3. ASSUME NEW t \in Threads,
               tpc'[t] \in Walking \union {"release"} \union Ended
        PROVE  tnode'[t] = nodes'[t]
    <3>1. t # current_node /\ tpc'[t] = tpc[t]
      BY <1>0, <1>5, <2>1, <2>2, <2>3
    <3>. QED
      BY <2>1, <2>3, <3>1 DEF DoneInv
  <2>4. ASSUME NEW t \in Threads
        PROVE  (tpc'[t] # "none") <=> (t < current_node')
    <3>1. (tpc[t] # "none") <=> (t < current_node)
      BY <2>1 DEF DoneInv
    <3>2. CASE t = current_node
      BY <1>0, <1>5, <2>1, <2>2, <3>2 DEF Threads
    <3>3. CASE t # current_node
      BY <1>0, <1>5, <2>1, <3>1, <3>3 DEF Threads
    <3>. QED
      BY <3>2, <3>3
  <2>. QED
    BY <2>1, <2>3, <2>4 DEF DoneInv
<1>6. CASE Dispatch
  BY <1>5, <1>6 DEF Dispatch
<1>7. CASE SpawnFails
  BY <1>5, <1>7 DEF SpawnFails
<1>8. CASE EndPass
  <2>1. /\ pc = "visit" /\ pc' \in {"visit", "join"}
        /\ pc' = "join" => count = 0
        /\ UNCHANGED <<nodes, current_node, count, threadVars>>
    BY <1>0, <1>8 DEF EndPass
  <2>. QED
    BY <2>1 DEF DoneInv, threadVars
<1>9. CASE Join \/ JoinInvalid
  <2>1. /\ pc = "join" /\ pc' \in {"join", "crash_join"}
        /\ UNCHANGED <<nodes, current_node, count, threadVars>>
    BY <1>9 DEF Join, JoinInvalid
  <2>. QED
    BY <2>1 DEF DoneInv, threadVars
<1>10. CASE Finish
  <2>1. /\ pc = "join" /\ pc' = "returned" /\ i > concurrent
        /\ UNCHANGED <<nodes, current_node, threadVars>>
    BY <1>10 DEF Finish
  <2>2. /\ current_node \in 1..Len(nodes)
        /\ count = Len(nodes) - current_node
        /\ count = 0
        /\ concurrent \in 1..llist_count(nodes)
        /\ Discipline = "append" => current_node = 1
    BY <2>1 DEF TypeInv, CallerInv, DoneInv
  <2>3. current_node = Len(nodes) /\ current_node # 1
    BY <1>0, <2>2
  <2>4. \A t \in Threads : tpc[t] \notin Busy
    <3>1. \A t \in Threads : tpc[t] \in Busy => tslot[t] \in 1..concurrent /\ tslot[t] >= i
      BY <2>1 DEF SlotInv
    <3>2. i \in Int /\ concurrent \in Int
      BY DEF TypeInv, TypeOK, Slots
    <3>. QED
      BY <2>1, <3>1, <3>2
  <2>. QED
    BY <2>1, <2>2, <2>3, <2>4, DisciplineAssumption DEF DoneInv, threadVars
<1>. QED
  BY <1>1, <1>2, <1>3, <1>4, <1>6, <1>7, <1>8, <1>9, <1>10 DEF Caller

LEMMA ThreadDone ==
    ASSUME Platform = "posix", TypeInv, SlotInv, DoneInv, NEW t \in Threads, Thread(t)
    PROVE  DoneInv'
<1>1. /\ UNCHANGED <<nodes, current_node, count>>
      /\ pc' \in {pc, "crash_cursor"}
  BY ThreadFrame
<1>2. /\ \A u \in Threads : (tpc'[u] = "none") <=> (tpc[u] = "none")
      /\ \A u \in Threads : tpc'[u] \in Busy => tpc[u] \in Busy
  BY ThreadSteps
<1>3. /\ tpc \in [Threads -> {"none", "failed"} \union Busy \union Ended]
      /\ tnode \in [Threads -> 0..MaxNodes]
  BY DEF TypeInv, TypeOK
<1>. DEFINE Read == Walking \union {"release"} \union Ended
<1>4. ASSUME NEW u \in Threads, tpc'[u] \in Read
      PROVE  tnode'[u] = nodes[u]
  <2>1. CASE Fetch(t)
    <3>1. CASE u = t
      <4>1. tpc[t] = "fetch" /\ tnode'[t] = container[tslot[t]]
        BY <1>3, <2>1 DEF Fetch, Goes
      <4>. QED
        BY <3>1, <4>1 DEF SlotInv, Busy
    <3>2. CASE u # t
      BY <1>3, <1>4, <2>1, <3>2 DEF Fetch, Goes, DoneInv
    <3>. QED
      BY <3>1, <3>2
  <2>2. CASE tnode' = tnode /\ (tpc'[u] = tpc[u] \/ tpc[u] \in Read)
    BY <1>4, <2>2 DEF DoneInv
  <2>3. CASE CursorFault(t)
    BY <2>2, <2>3 DEF CursorFault, threadVars
  <2>4. CASE EachStart(t) \/ EachGuard(t) \/ EachTest(t) \/ EachValue(t)
    BY <1>3, <2>2, <2>4 DEF EachStart, EachGuard, EachTest, EachValue, Goes, Walking
  <2>5. CASE EachLoad(t) \/ EachStore(t) \/ Call(t) \/ Release(t) \/ Exit(t)
    BY <1>3, <2>2, <2>5 DEF EachLoad, EachStore, Call, Release, Exit, Goes,
                            Walking, Ended
  <2>. QED
    BY <2>1, <2>3, <2>4, <2>5 DEF Thread
<1>. QED
  BY <1>1, <1>2, <1>4 DEF DoneInv

LEMMA NextDone ==
    Platform = "posix" /\ TypeInv /\ SlotInv /\ DoneInv /\ [Next]_vars => DoneInv'
<1>. SUFFICES ASSUME Platform = "posix", TypeInv, SlotInv, DoneInv, [Next]_vars
              PROVE  DoneInv'
  OBVIOUS
<1>1. CASE UNCHANGED vars
  BY <1>1 DEF DoneInv, vars, callerVars, threadVars
<1>. QED
  BY <1>1, CallerDone, ThreadDone DEF Next, Terminated

LEMMA DoneIsComplete ==
    ASSUME TypeInv, DoneInv PROVE CompleteOnReturn
<1>. SUFFICES ASSUME pc = "returned", NEW n \in 1..llist_count(nodes)
              PROVE  Cardinality({t \in Threads : \/ tpc[t] \in Ended /\ tnode[t] = n
                                                  \/ tpc[t] = "failed" /\ nodes[t] = n}) = 1
  BY DEF CompleteOnReturn
<1>. DEFINE last == Len(nodes)
            executed == {t \in Threads : \/ tpc[t] \in Ended /\ tnode[t] = n
                                         \/ tpc[t] = "failed" /\ nodes[t] = n}
<1>1. last = llist_count(nodes) + 1 /\ llist_count(nodes) \in 0..MaxNodes
  BY NodesList DEF TypeInv, TypeOK
<1>2. last - n \in Threads /\ last - n < last /\ last \in Nat /\ n \in Nat
  BY <1>1, ExecuteAssumption DEF Threads
<1>3. /\ \A t \in Threads : (tpc[t] # "none") <=> (t < last)
      /\ \A t \in Threads : tpc[t] \in Ended => tnode[t] = nodes[t]
      /\ \A t \in Threads : tpc[t] \in {"none", "failed"} \union Ended
  BY DEF DoneInv, TypeInv, TypeOK
<1>4. ASSUME NEW t \in Threads, t < last
      PROVE  nodes[t] = last - t
  <2>1. t \in 1..last
    BY <1>2, <1>4 DEF Threads
  <2>. QED
    BY <2>1, PushedCell DEF DoneInv
<1>5. last - n \in executed
  BY <1>2, <1>3, <1>4
<1>6. ASSUME NEW t \in executed
      PROVE  t = last - n
  <2>1. t \in Threads /\ tpc[t] # "none" /\ nodes[t] = n
    BY <1>3, <1>6 DEF Ended
  <2>2. t < last /\ nodes[t] = last - t /\ t \in Nat
    BY <1>3, <1>4, <2>1 DEF Threads
  <2>. QED
    BY <1>2, <2>1, <2>2
<1>7. executed = {last - n}
  BY <1>5, <1>6
<1>. QED
  BY <1>7, FS_Singleton

\* With pthreads, when the call returns 0 each node has had exactly one
\* thread, which has read it from its container and given its slot back, or
\* could not be started.  Nothing is said of callbacks: a thread whose walk was
\* disturbed ends as well.
THEOREM Completion == Spec => [](Platform = "posix" => CompleteOnReturn)
<1>. DEFINE Inv == TypeInv /\ (Platform = "posix" => SlotInv /\ DoneInv)
<1>1. Init => Inv
  BY InitTyped, InitSlots, InitDone
<1>2. Inv /\ [Next]_vars => Inv'
  BY NextTyped, NextSlots, NextDone
<1>3. Inv => (Platform = "posix" => CompleteOnReturn)
  BY DoneIsComplete
<1>. QED
  BY <1>1, <1>2, <1>3, PTL DEF Spec

-----------------------------------------------------------------------------
(* Slots that are held *)

\* The threads that keep a slot from being used again.
Holding == Busy \union {"failed"}

(***************************************************************************)
(* SlotInv speaks of the threads that run.  A slot whose thread was not    *)
(* started stays locked as well, and two holders have different slots.     *)
(***************************************************************************)
LockInv ==
    /\ \A t \in Threads : tpc[t] \in Holding =>
          /\ mutex[tslot[t]] = "locked"
          /\ tslot[t] \in 1..concurrent
    /\ \A t, u \in Threads :
          tpc[t] \in Holding /\ tpc[u] \in Holding /\ tslot[t] = tslot[u] => t = u

LEMMA InitLocks == Init => LockInv
  BY BusyStates DEF Init, LockInv, Holding

LEMMA TakeNodeLocks ==
    ASSUME Platform = "posix", TypeInv, SlotInv, DoneInv, LockInv, TakeNode,
           NEW state, tpc' = [tpc EXCEPT ![current_node] = state],
           tslot' = [tslot EXCEPT ![current_node] = i]
    PROVE  LockInv'
<1>1. /\ mutex[i] = "free" /\ mutex' = [mutex EXCEPT ![i] = "locked"]
      /\ i \in 1..concurrent /\ concurrent' = concurrent
      /\ i \in Slots /\ current_node \in Threads
  <2>1. /\ pc = "visit" /\ i <= concurrent /\ mutex[i] = "free"
        /\ mutex' = [mutex EXCEPT ![i] = "locked"] /\ concurrent' = concurrent
        /\ nodes[current_node] # NULL
    BY DEF TakeNode, FreeSlot, Acquires
  <2>2. /\ i \in 1..(concurrent + 1) /\ concurrent \in 1..llist_count(nodes)
        /\ llist_count(nodes) \in 0..MaxNodes
    BY <2>1, NodesList DEF TypeInv, TypeOK, CallerInv
  <2>3. i \in 1..concurrent /\ i \in Slots
    BY <2>1, <2>2, ExecuteAssumption DEF Slots
  <2>. QED
    BY <2>1, <2>3, NodeCell
<1>2. /\ mutex \in [Slots -> {"free", "locked"}]
      /\ tslot \in [Threads -> Slots]
      /\ tpc \in [Threads -> {"none", "failed"} \union Busy \union Ended]
  BY DEF TypeInv, TypeOK
<1>3. /\ tslot'[current_node] = i /\ mutex'[i] = "locked"
      /\ \A t \in Threads : t # current_node => tslot'[t] = tslot[t] /\ tpc'[t] = tpc[t]
  BY <1>1, <1>2
<1>4. ASSUME NEW t \in Threads, t # current_node, tpc'[t] \in Holding
      PROVE  /\ tpc[t] \in Holding /\ tslot'[t] # i
             /\ mutex'[tslot'[t]] = "locked" /\ tslot'[t] \in 1..concurrent
  <2>1. tpc[t] \in Holding /\ tslot'[t] = tslot[t]
    BY <1>3, <1>4
  <2>2. mutex[tslot[t]] = "locked" /\ tslot[t] \in 1..concurrent
    BY <2>1 DEF LockInv
  <2>. QED
    BY <1>1, <1>2, <2>1, <2>2
<1>5. ASSUME NEW t \in Threads, NEW u \in Threads, tpc'[t] \in Holding,
             tpc'[u] \in Holding, tslot'[t] = tslot'[u]
      PROVE  t = u
  <2>1. CASE t # current_node /\ u # current_node
    BY <1>3, <1>4, <1>5, <2>1 DEF LockInv
  <2>2. CASE t = current_node \/ u = current_node
    BY <1>3, <1>4, <1>5, <2>2
  <2>. QED
    BY <2>1, <2>2
<1>. QED
  BY <1>1, <1>3, <1>4, <1>5 DEF LockInv

LEMMA CallerLocks ==
    ASSUME Platform = "posix", TypeInv, SlotInv, DoneInv, LockInv, Caller
    PROVE  LockInv'
<1>1. CASE SetupEmpty \/ Setup
  <2>1. /\ \A t \in Threads : tpc[t] = "none"
        /\ UNCHANGED threadVars
    BY <1>1 DEF SetupEmpty, Setup, SlotInv
  <2>. QED
    BY <2>1, BusyStates DEF LockInv, Holding, threadVars
<1>2. CASE SkipSlot \/ DispatchNull
  <2>1. /\ UNCHANGED <<concurrent, threadVars>>
        /\ mutex' = [mutex EXCEPT ![i] = "locked"]
    BY <1>2 DEF SkipSlot, DispatchNull
  <2>2. /\ mutex \in [Slots -> {"free", "locked"}]
        /\ tslot \in [Threads -> Slots]
    BY DEF TypeInv, TypeOK
  <2>. QED
    BY <2>1, <2>2 DEF LockInv, threadVars
<1>3. CASE Dispatch
  BY <1>3, TakeNodeLocks DEF Dispatch
<1>4. CASE SpawnFails
  BY <1>4, TakeNodeLocks DEF SpawnFails
<1>5. CASE EndPass \/ Join \/ JoinInvalid \/ Finish
  <2>1. UNCHANGED <<concurrent, mutex, threadVars>>
    BY <1>5 DEF EndPass, Join, JoinInvalid, Finish, slotVars
  <2>. QED
    BY <2>1 DEF LockInv, threadVars
<1>. QED
  BY <1>1, <1>2, <1>3, <1>4, <1>5 DEF Caller

\* The steps of a thread: on the way with its node, the end of that way, the
\* end of the thread, or the end of the process.
LEMMA ThreadWays ==
    ASSUME Platform = "posix", TypeInv, NEW t \in Threads, Thread(t)
    PROVE  \/ \E to \in Busy :
                /\ pc \notin Crashes /\ tpc[t] \in Busy /\ UNCHANGED <<pc, mutex>>
                /\ tpc' = [tpc EXCEPT ![t] = to]
           \/ /\ pc \notin Crashes /\ tpc[t] \in Busy /\ UNCHANGED pc
              /\ tpc' = [tpc EXCEPT ![t] = "exiting"]
              /\ mutex' = [mutex EXCEPT ![tslot[t]] = "free"]
           \/ /\ tpc[t] = "exiting" /\ UNCHANGED <<pc, mutex>>
              /\ tpc' = [tpc EXCEPT ![t] = "exited"]
           \/ /\ pc \notin Crashes /\ tpc[t] \in Busy /\ pc' = "crash_cursor"
              /\ UNCHANGED <<mutex, threadVars>>
<1>. USE DEF Goes, Busy, Walking, callerVars
<1>1. CASE Fetch(t)
  BY <1>1 DEF Fetch
<1>2. CASE EachStart(t) \/ EachGuard(t) \/ EachTest(t) \/ EachValue(t)
  BY <1>2 DEF EachStart, EachGuard, EachTest, EachValue
<1>3. CASE EachLoad(t) \/ EachStore(t) \/ Call(t)
  BY <1>3 DEF EachLoad, EachStore, Call
<1>4. CASE CursorFault(t)
  BY <1>4 DEF CursorFault, slotVars
<1>5. CASE Release(t)
  BY <1>5 DEF Release
<1>6. CASE Exit(t)
  BY <1>6 DEF Exit
<1>. QED
  BY <1>1, <1>2, <1>3, <1>4, <1>5, <1>6 DEF Thread

LEMMA ThreadLocks ==
    ASSUME Platform = "posix", TypeInv, SlotInv, LockInv, NEW t \in Threads, Thread(t)
    PROVE  LockInv'
<1>1. UNCHANGED <<concurrent, tslot>>
  BY ThreadFrame
<1>2. /\ mutex \in [Slots -> {"free", "locked"}]
      /\ tslot \in [Threads -> Slots]
      /\ tpc \in [Threads -> {"none", "failed"} \union Busy \union Ended]
  BY DEF TypeInv, TypeOK
<1>3. "exiting" \notin Holding /\ "exited" \notin Holding
  BY DEF Holding, Busy, Walking
<1>4. \A u \in Threads : tpc'[u] \in Holding => tpc[u] \in Holding
  BY <1>2, <1>3, ThreadWays DEF Holding, threadVars
<1>5. ASSUME NEW u \in Threads, tpc'[u] \in Holding
      PROVE  mutex'[tslot[u]] = "locked"
  <2>1. tpc[u] \in Holding /\ mutex[tslot[u]] = "locked"
    BY <1>4, <1>5 DEF LockInv
  <2>2. CASE UNCHANGED mutex
    BY <2>1, <2>2
  <2>3. CASE /\ tpc[t] \in Busy
             /\ tpc' = [tpc EXCEPT ![t] = "exiting"]
             /\ mutex' = [mutex EXCEPT ![tslot[t]] = "free"]
    <3>1. u # t /\ tpc[t] \in Holding
      BY <1>2, <1>3, <1>5, <2>3 DEF Holding
    <3>2. tslot[u] # tslot[t]
      BY <2>1, <3>1 DEF LockInv
    <3>. QED
      BY <1>2, <2>1, <2>3, <3>2
  <2>. QED
    BY <2>2, <2>3, ThreadWays
<1>. QED
  BY <1>1, <1>4, <1>5 DEF LockInv

ExecuteInv == TypeInv /\ SlotInv /\ DoneInv /\ LockInv

LEMMA NextExecuteInv ==
    Platform = "posix" /\ ExecuteInv /\ [Next]_vars => ExecuteInv'
<1>. SUFFICES ASSUME Platform = "posix", ExecuteInv, [Next]_vars
              PROVE  ExecuteInv'
  OBVIOUS
<1>1. TypeInv' /\ SlotInv' /\ DoneInv'
  BY NextTyped, NextSlots, NextDone DEF ExecuteInv
<1>2. CASE UNCHANGED vars
  BY <1>1, <1>2 DEF ExecuteInv, LockInv, vars, callerVars, slotVars, threadVars
<1>. QED
  BY <1>1, <1>2, CallerLocks, ThreadLocks DEF ExecuteInv, Next, Terminated

LEMMA ExecuteInvAlways == ASSUME Platform = "posix" PROVE Spec => []ExecuteInv
<1>1. Init => ExecuteInv
  BY InitTyped, InitSlots, InitDone, InitLocks DEF ExecuteInv
<1>2. ExecuteInv /\ [Next]_vars => ExecuteInv'
  BY NextExecuteInv
<1>. QED
  BY <1>1, <1>2, PTL DEF Spec

\* With pthreads, when every slot was given to a thread that did not start,
\* the caller goes round its slots for ever: no step, not even the fault of a
\* thread, gets it out of the loop or takes another node.
THEOREM LeaksHang == ASSUME Platform = "posix" PROVE Spec => LeakedSlotsHang
<1>. DEFINE AllLeaked == pc = "visit" /\ count > 0 /\ \A s \in 1..concurrent : Leaked(s)
<1>1. ASSUME ExecuteInv, Next, AllLeaked
      PROVE  pc' = "visit" /\ count' = count
  <2>0. TypeInv /\ SlotInv /\ LockInv
    BY <1>1 DEF ExecuteInv
  <2>1. /\ pc = "visit" /\ count > 0
        /\ current_node \in 1..Len(nodes)
        /\ concurrent \in 1..llist_count(nodes)
        /\ i \in 1..(concurrent + 1)
    BY <1>1, <2>0 DEF TypeInv, CallerInv
  <2>2. \A s \in 1..concurrent : mutex[s] = "locked"
    BY <1>1, <2>0 DEF Leaked, LockInv, Holding
  <2>3. \A t \in Threads : tpc[t] \notin Busy
    <3>. SUFFICES ASSUME NEW t \in Threads, tpc[t] \in Busy PROVE FALSE
      OBVIOUS
    <3>1. tslot[t] \in 1..concurrent
      BY <2>0 DEF LockInv, Holding
    <3>2. PICK u \in Threads : tpc[u] = "failed" /\ tslot[u] = tslot[t]
      BY <1>1, <3>1 DEF Leaked
    <3>3. u = t
      BY <2>0, <3>2 DEF LockInv, Holding
    <3>. QED
      BY <3>2, <3>3, BusyStates
  <2>4. ~FreeSlot
    <3>1. i <= concurrent => mutex[i] = "locked"
      BY <2>1, <2>2
    <3>. QED
      BY <3>1 DEF FreeSlot, Acquires
  <2>5. ~DispatchNull /\ ~Dispatch /\ ~SpawnFails
    BY <2>4 DEF DispatchNull, Dispatch, SpawnFails, TakeNode
  <2>6. CASE SkipSlot
    BY <2>1, <2>6 DEF SkipSlot, NULL
  <2>7. CASE EndPass
    BY <2>1, <2>7 DEF EndPass
  <2>8. CASE \E t \in Threads : Thread(t)
    <3>1. PICK t \in Threads : Thread(t)
      BY <2>8
    <3>. QED
      BY <2>0, <2>1, <2>3, <3>1, ThreadWays, ThreadFrame
  <2>9. ~(SetupEmpty \/ Setup \/ Join \/ JoinInvalid \/ Finish \/ Terminated)
    BY <2>1 DEF SetupEmpty, Setup, Join, JoinInvalid, Finish, Terminated, Stopped, Crashes
  <2>. QED
    BY <1>1, <2>5, <2>6, <2>7, <2>8, <2>9 DEF Next, Caller
<1>2. ExecuteInv /\ [Next]_vars
      => [ (pc = "visit" /\ count > 0 /\ \A s \in 1..concurrent : Leaked(s))
           => pc' = "visit" /\ count' = count ]_vars
  BY <1>1
<1>. HIDE DEF AllLeaked
<1>. QED
  BY <1>2, ExecuteInvAlways, PTL DEF Spec, LeakedSlotsHang

-----------------------------------------------------------------------------
(* One slot: the walk of the shared cursor *)

\* A thread between the start of its loop and the next test of it, at its cell.
AtCell == {"each_test", "each_value", "each_load", "each_store"}

\* What a thread nobody disturbs has called so far, place by place.
Walks(t) ==
    /\ tpc[t] = "each_guard" => execute_current = executeHead /\ trace[t] = << >>
    /\ tpc[t] \in AtCell =>
          /\ execute_current # NULL
          /\ trace[t] = Passed(execute)[execute_current - 1]
    /\ tpc[t] \in AtCell \ {"each_test"} => execute_current < Len(execute)
    /\ tpc[t] \in {"each_load", "each_store"} => elem[t] = execute[execute_current]
    /\ tpc[t] = "each_store" => next[t] = execute_current + 1
    /\ tpc[t] = "call" =>
          /\ execute_current > 1
          /\ elem[t] = execute[execute_current - 1]
          /\ elem[t] # NULL
          /\ trace[t] = Passed(execute)[execute_current - 2]
    /\ tpc[t] \in {"release"} \union Ended => trace[t] = LL_EACH(execute)

(***************************************************************************)
(* Why SerialWalkIsComplete holds.  With one slot there is at most one     *)
(* holder of it, so nobody moves the cursor under a thread that walks, not *)
(* even the terminate round of the caller, which joins that thread first.  *)
(***************************************************************************)
WalkInv ==
    /\ \A t \in Threads : tpc[t] # "none" => nodes[t] # NULL
    /\ \A t \in Threads :
          tpc[t] \in {"none", "failed", "fetch", "each_start"} => trace[t] = << >>
    /\ concurrent = 1 => pc # "crash_cursor" /\ \A t \in Threads : Walks(t)

LEMMA InitWalk == Init => WalkInv
BY DEF Init, WalkInv, Walks, AtCell, Ended

\* The loop over a list of cells, one of which is the first.
LEMMA WholeWalk ==
    /\ execute = << >> => LL_EACH(execute) = << >> /\ executeHead = NULL
    /\ execute # << >> => /\ LL_EACH(execute) = Passed(execute)[Len(execute) - 1]
                          /\ Passed(execute)[0] = << >>
                          /\ executeHead = 1
                          /\ Len(execute) \in Nat \ {0}
    /\ \A c \in 1..Len(execute) :
          Passed(execute)[c] = IF execute[c] = NULL THEN Passed(execute)[c - 1]
                               ELSE Append(Passed(execute)[c - 1], execute[c])
<1>1. execute \in Seq(0..NumCallbacks)
  BY ExecuteList
<1>2. execute # << >> => Len(execute) \in Nat \ {0}
  BY <1>1, EmptySeq
<1>. QED
  BY <1>1, <1>2, PassedCells DEF LL_EACH, executeHead

\* A step of the thread that holds the only slot.
LEMMA WalkOn ==
    ASSUME TypeInv, SlotInv, WalkInv, NEW t \in Threads, Walks(t), Thread(t)
    PROVE  Walks(t)' /\ ~CursorFault(t)
<1>1. /\ tpc \in [Threads -> {"none", "failed"} \union Busy \union Ended]
      /\ elem \in [Threads -> 0..NumCallbacks]
      /\ next \in [Threads -> 0..Len(execute)]
      /\ trace \in [Threads -> Seq(0..NumCallbacks)]
      /\ execute_current \in 0..Len(execute)
      /\ Len(execute) \in Nat
  BY ExecuteList DEF TypeInv, TypeOK
<1>2. ~CursorFault(t)
  BY DEF Walks, AtCell, CursorFault
<1>. SUFFICES Walks(t)'
  BY <1>2
<1>. USE <1>1 DEF Goes, AtCell, Ended
<1>3. CASE Fetch(t)
  <2>1. container[tslot[t]] = nodes[t] /\ nodes[t] # NULL
    BY <1>3 DEF Fetch, SlotInv, WalkInv, Busy
  <2>. QED
    BY <1>3, <2>1 DEF Fetch, Walks
<1>4. CASE EachStart(t)
  <2>1. trace[t] = << >>
    BY <1>4 DEF EachStart, WalkInv
  <2>. QED
    BY <1>4, <2>1 DEF EachStart, Walks
<1>5. CASE EachGuard(t)
  <2>1. execute_current = executeHead /\ trace[t] = << >>
    BY <1>5 DEF EachGuard, Walks
  <2>2. execute # << >> => Len(execute) \in Nat \ {0} /\ executeHead = 1
    BY WholeWalk
  <2>. QED
    BY <1>5, <2>1, <2>2, WholeWalk DEF EachGuard, Walks, NULL
<1>6. CASE EachTest(t)
  <2>1. /\ execute_current \in 1..Len(execute)
        /\ trace[t] = Passed(execute)[execute_current - 1]
    BY <1>6 DEF EachTest, Walks, NULL
  <2>2. execute # << >>
    BY <2>1
  <2>3. CASE execute_current < Len(execute)
    BY <1>6, <2>1, <2>3 DEF EachTest, Walks, NextCell, NULL
  <2>4. CASE execute_current = Len(execute)
    <3>1. trace[t] = LL_EACH(execute)
      BY <2>1, <2>2, <2>4, WholeWalk
    <3>. QED
      BY <1>6, <2>4, <3>1 DEF EachTest, Walks, NextCell, NULL
  <2>. QED
    BY <2>1, <2>3, <2>4
<1>7. CASE EachValue(t)
  BY <1>7 DEF EachValue, Walks
<1>8. CASE EachLoad(t)
  BY <1>8 DEF EachLoad, Walks, NextCell
<1>9. CASE EachStore(t)
  <2>1. /\ execute_current \in 1..Len(execute) /\ execute_current < Len(execute)
        /\ trace[t] = Passed(execute)[execute_current - 1]
        /\ elem[t] = execute[execute_current]
        /\ execute_current' = execute_current + 1
        /\ UNCHANGED <<trace, elem>>
        /\ tpc'[t] = IF elem[t] = NULL THEN "each_test" ELSE "call"
    BY <1>9 DEF EachStore, Walks, NULL
  <2>2. (execute_current + 1) - 1 = execute_current
        /\ (execute_current + 1) - 2 = execute_current - 1
    BY <2>1
  <2>3. elem[t] = NULL => trace[t] = Passed(execute)[execute_current]
    BY <2>1, WholeWalk
  <2>. QED
    BY <2>1, <2>2, <2>3 DEF Walks, NULL
<1>10. CASE Call(t)
  <2>1. /\ execute_current \in 2..Len(execute)
        /\ elem[t] = execute[execute_current - 1] /\ elem[t] # NULL
        /\ trace[t] = Passed(execute)[execute_current - 2]
        /\ trace'[t] = Append(trace[t], elem[t])
        /\ execute_current' = execute_current
        /\ tpc'[t] = "each_test"
    BY <1>10 DEF Call, Walks
  <2>2. /\ execute_current - 1 \in 1..Len(execute)
        /\ (execute_current - 1) - 1 = execute_current - 2
    BY <2>1
  <2>3. trace'[t] = Passed(execute)[execute_current - 1]
    BY <2>1, <2>2, WholeWalk
  <2>. QED
    BY <2>1, <2>3 DEF Walks, NULL
<1>11. CASE Release(t)
  BY <1>11 DEF Release, Walks
<1>12. CASE Exit(t)
  BY <1>12 DEF Exit, Walks
<1>. QED
  BY <1>2, <1>3, <1>4, <1>5, <1>6, <1>7, <1>8, <1>9, <1>10, <1>11, <1>12 DEF Thread

\* A step of another thread, which does not walk.
LEMMA WalkUndisturbed ==
    ASSUME TypeInv, NEW t \in Threads, NEW u \in Threads, t # u,
           Walks(u), Thread(t), tpc[u] \in Walking => tpc[t] \notin Busy
    PROVE  Walks(u)'
<1>1. /\ tpc \in [Threads -> {"none", "failed"} \union Busy \union Ended]
      /\ elem \in [Threads -> 0..NumCallbacks]
      /\ next \in [Threads -> 0..Len(execute)]
      /\ trace \in [Threads -> Seq(0..NumCallbacks)]
  BY DEF TypeInv, TypeOK
<1>2. tpc'[u] = tpc[u] /\ trace'[u] = trace[u] /\ elem'[u] = elem[u] /\ next'[u] = next[u]
  <2>. USE <1>1 DEF Goes
  <2>1. CASE CursorFault(t)
    BY <2>1 DEF CursorFault, threadVars
  <2>2. CASE Fetch(t) \/ EachStart(t) \/ EachGuard(t) \/ EachTest(t) \/ EachValue(t)
    BY <2>2 DEF Fetch, EachStart, EachGuard, EachTest, EachValue
  <2>3. CASE EachLoad(t) \/ EachStore(t) \/ Call(t) \/ Release(t) \/ Exit(t)
    BY <2>3 DEF EachLoad, EachStore, Call, Release, Exit
  <2>. QED
    BY <2>1, <2>2, <2>3 DEF Thread
<1>3. tpc[t] \notin Busy => execute_current' = execute_current
  <2>. USE DEF Goes, Busy, Walking
  <2>1. CASE CursorFault(t)
    BY <2>1 DEF CursorFault
  <2>2. CASE Fetch(t) \/ EachStart(t) \/ EachGuard(t) \/ EachTest(t) \/ EachValue(t)
    BY <2>2 DEF Fetch, EachStart, EachGuard, EachTest, EachValue
  <2>3. CASE EachLoad(t) \/ EachStore(t) \/ Call(t) \/ Release(t) \/ Exit(t)
    BY <2>3 DEF EachLoad, EachStore, Call, Release, Exit
  <2>. QED
    BY <2>1, <2>2, <2>3 DEF Thread
<1>4. CASE tpc[u] \in Walking
  BY <1>2, <1>3, <1>4 DEF Walks
<1>5. CASE tpc[u] \notin Walking
  BY <1>2, <1>5 DEF Walks, Walking, AtCell
<1>. QED
  BY <1>4, <1>5

\* The caller moves the cursor only when no thread walks.
LEMMA CallerWalk ==
    ASSUME Platform = "posix", ExecuteInv, WalkInv, Caller
    PROVE  WalkInv'
<1>0. TypeInv /\ SlotInv /\ LockInv
  BY DEF ExecuteInv
<1>1. tpc \in [Threads -> {"none", "failed"} \union Busy \union Ended]
  BY <1>0 DEF TypeInv, TypeOK
<1>2. CASE SetupEmpty \/ Setup
  <2>1. /\ \A t \in Threads : tpc[t] = "none"
        /\ pc' # "crash_cursor" /\ UNCHANGED <<nodes, threadVars>>
    BY <1>0, <1>2 DEF SetupEmpty, Setup, SlotInv
  <2>. QED
    BY <2>1 DEF WalkInv, Walks, AtCell, Ended, threadVars
<1>3. CASE SkipSlot \/ DispatchNull \/ EndPass \/ Join \/ JoinInvalid
  <2>1. /\ UNCHANGED <<nodes, concurrent, threadVars, execute_current>>
        /\ pc' # "crash_cursor"
    BY <1>3 DEF SkipSlot, DispatchNull, FreeSlot, EndPass, Join, JoinInvalid
  <2>. QED
    BY <2>1 DEF WalkInv, Walks, threadVars
<1>4. CASE Dispatch \/ SpawnFails
  <2>1. /\ TakeNode /\ \E state \in {"fetch", "failed"} :
                          tpc' = [tpc EXCEPT ![current_node] = state]
    BY <1>4 DEF Dispatch, SpawnFails
  <2>2. /\ pc = "visit" /\ nodes[current_node] # NULL
        /\ UNCHANGED <<pc, nodes, concurrent, elem, next, trace, execute_current>>
    BY <2>1 DEF TakeNode, FreeSlot
  <2>3. current_node \in Threads /\ tpc[current_node] = "none"
    <3>1. current_node \in Threads
      BY <1>0, <2>1, TakeNodeTyped
    <3>2. ~(current_node < current_node)
      BY <3>1, ExecuteAssumption DEF Threads
    <3>. QED
      BY <1>0, <2>2, <3>1, <3>2 DEF SlotInv
  <2>4. ASSUME NEW t \in Threads
        PROVE  \/ tpc'[t] = tpc[t]
               \/ t = current_node /\ tpc'[t] \in {"fetch", "failed"}
    <3>1. PICK state \in {"fetch", "failed"} : tpc' = [tpc EXCEPT ![current_node] = state]
      BY <2>1
    <3>. QED
      BY <1>1, <2>3, <3>1
  <2>5. trace[current_node] = << >>
    BY <2>3 DEF WalkInv
  <2>6. ASSUME NEW t \in Threads, Walks(t)
        PROVE  Walks(t)'
    BY <2>2, <2>4, <2>6 DEF Walks, AtCell, Ended
  <2>. QED
    BY <2>2, <2>4, <2>5, <2>6 DEF WalkInv
<1>5. CASE Finish
  <2>1. /\ pc = "join" /\ i > concurrent /\ pc' = "returned"
        /\ UNCHANGED <<nodes, concurrent, threadVars>>
    BY <1>5 DEF Finish
  <2>2. \A t \in Threads : tpc[t] \notin Busy
    BY <1>0, <2>1 DEF SlotInv, TypeInv, TypeOK, Slots
  <2>3. ASSUME NEW t \in Threads, Walks(t)
        PROVE  Walks(t)'
    BY <2>1, <2>2, <2>3 DEF Walks, AtCell, Busy, Walking, threadVars
  <2>. QED
    BY <2>1, <2>3 DEF WalkInv, threadVars
<1>. QED
  BY <1>2, <1>3, <1>4, <1>5 DEF Caller

LEMMA ThreadWalk ==
    ASSUME Platform = "posix", ExecuteInv, WalkInv, NEW t \in Threads, Thread(t)
    PROVE  WalkInv'
<1>0. TypeInv /\ SlotInv /\ LockInv
  BY DEF ExecuteInv
<1>1. UNCHANGED <<nodes, concurrent>> /\ pc' \in {pc, "crash_cursor"}
  BY ThreadFrame
<1>2. /\ tpc \in [Threads -> {"none", "failed"} \union Busy \union Ended]
      /\ trace \in [Threads -> Seq(0..NumCallbacks)]
  BY <1>0 DEF TypeInv, TypeOK
<1>3. ASSUME NEW u \in Threads, tpc'[u] # "none"
      PROVE  nodes'[u] # NULL
  BY <1>0, <1>1, <1>3, ThreadSteps DEF WalkInv
<1>4. ASSUME NEW u \in Threads, tpc'[u] \in {"none", "failed", "fetch", "each_start"}
      PROVE  trace'[u] = << >>
  <2>. USE <1>2, <1>4 DEF Goes, WalkInv
  <2>1. CASE CursorFault(t)
    BY <2>1 DEF CursorFault, threadVars
  <2>2. CASE Fetch(t) \/ EachStart(t) \/ EachGuard(t) \/ EachTest(t) \/ EachValue(t)
    BY <2>2 DEF Fetch, EachStart, EachGuard, EachTest, EachValue
  <2>3. CASE EachLoad(t) \/ EachStore(t) \/ Call(t) \/ Release(t) \/ Exit(t)
    BY <2>3 DEF EachLoad, EachStore, Call, Release, Exit
  <2>. QED
    BY <2>1, <2>2, <2>3 DEF Thread
<1>5. ASSUME concurrent = 1
      PROVE  pc' # "crash_cursor" /\ \A u \in Threads : Walks(u)'
  <2>1. pc # "crash_cursor" /\ \A u \in Threads : Walks(u)
    BY <1>5 DEF WalkInv
  <2>2. Walks(t)' /\ ~CursorFault(t)
    BY <1>0, <2>1, WalkOn
  <2>3. pc' # "crash_cursor"
    <3>1. UNCHANGED pc
      BY <2>2 DEF Thread, Fetch, EachStart, EachGuard, EachTest, EachValue, EachLoad,
                  EachStore, Call, Release, Exit, Goes, callerVars
    <3>. QED
      BY <2>1, <3>1
  <2>4. ASSUME NEW u \in Threads, u # t
        PROVE  Walks(u)'
    <3>1. tpc[u] \in Walking => tpc[t] \notin Busy
      <4>. SUFFICES ASSUME tpc[u] \in Walking, tpc[t] \in Busy PROVE FALSE
        OBVIOUS
      <4>1. tpc[u] \in Holding /\ tpc[t] \in Holding
        BY DEF Holding, Busy
      <4>2. tslot[u] \in 1..1 /\ tslot[t] \in 1..1
        BY <1>0, <1>5, <4>1 DEF LockInv
      <4>3. tslot[u] = tslot[t]
        BY <4>2
      <4>. QED
        BY <1>0, <2>4, <4>1, <4>3 DEF LockInv
    <3>. QED
      BY <1>0, <2>1, <2>4, <3>1, WalkUndisturbed
  <2>. QED
    BY <2>2, <2>3, <2>4
<1>. QED
  BY <1>1, <1>3, <1>4, <1>5 DEF WalkInv

\* With pthreads and one slot the static loop cursor does no harm: a thread
\* that has finished has called what an undisturbed loop calls, for every
\* list of callbacks, and no thread reads through a NULL cursor.
THEOREM SerialWalk == ASSUME Platform = "posix" PROVE Spec => []SerialWalkIsComplete
<1>1. Init => WalkInv
  BY InitWalk
<1>2. ExecuteInv /\ WalkInv /\ [Next]_vars => WalkInv'
  <2>1. CASE UNCHANGED vars
    BY <2>1 DEF WalkInv, Walks, vars, callerVars, threadVars
  <2>. QED
    BY <2>1, CallerWalk, ThreadWalk DEF Next, Terminated
<1>3. WalkInv => SerialWalkIsComplete
  BY DEF WalkInv, Walks, SerialWalkIsComplete
<1>. QED
  BY <1>1, <1>2, <1>3, ExecuteInvAlways, PTL DEF Spec

-----------------------------------------------------------------------------
(***************************************************************************)
(* The refinement: Execute implements BoundedExecution, for every number   *)
(* of nodes, slots and callbacks, every request and both lists, with       *)
(* pthreads.                                                               *)
(***************************************************************************)

\* The threads in one of some states, and the nodes they were started for.
Those(states) == {t \in Threads : tpc[t] \in states}
NodesOf(S) == {nodes[t] : t \in S}

-----------------------------------------------------------------------------
(* The abstract state *)

Cells == 1..llist_count(nodes)

\* The threads of the nodes of the list, and how many nodes that are.
LEMMA CellsOfNodes ==
    ASSUME TypeInv
    PROVE  /\ Cells \subseteq Threads
           /\ llist_count(nodes) \in Nat
           /\ Len(nodes) = llist_count(nodes) + 1
           /\ \A c, d \in Cells : nodes[c] = nodes[d] => c = d
<1>1. PICK k \in 0..MaxNodes : nodes = Registered(k)
  BY DEF TypeInv, TypeOK
<1>2. k \in Nat /\ k <= MaxNodes /\ MaxNodes \in Nat
  BY <1>1, ExecuteAssumption
<1>3. Len(nodes) = k + 1 /\ llist_count(nodes) = k
  BY <1>1, <1>2, RegisteredList
<1>4. \A c \in 1..(k + 1) :
          nodes[c] = IF Discipline = "push" THEN k + 1 - c ELSE c - 1
  BY <1>1 DEF Registered
<1>. QED
  BY <1>2, <1>3, <1>4 DEF Cells, Threads

\* A thread that was started has a node of the list.
LEMMA StartedCells ==
    ASSUME ExecuteInv, pc \in {"visit", "join", "returned"},
           NEW t \in Threads, tpc[t] # "none"
    PROVE  t \in Cells
<1>1. t < current_node
  BY DEF ExecuteInv, DoneInv
<1>2. current_node \in 1..Len(nodes)
  <2>1. llist_count(nodes) \in Nat /\ Len(nodes) = llist_count(nodes) + 1
    BY CellsOfNodes DEF ExecuteInv
  <2>. QED
    BY <2>1 DEF ExecuteInv, TypeInv, CallerInv, DoneInv
<1>3. llist_count(nodes) \in Nat /\ Len(nodes) = llist_count(nodes) + 1
  BY CellsOfNodes DEF ExecuteInv
<1>. QED
  BY <1>1, <1>2, <1>3 DEF Cells, Threads

\* A thread's node is the one it was started for, in the container or read.
View ==
    /\ Running = NodesOf(Those(Busy))
    /\ Done = NodesOf(Those(Ended))
    /\ Lost = NodesOf(Those({"failed"}))
    /\ Todo = NodesOf({c \in Cells : tpc[c] = "none"})

LEMMA ViewHolds == ExecuteInv => View
<1>. SUFFICES ASSUME ExecuteInv PROVE View
  OBVIOUS
<1>1. ASSUME NEW t \in Threads, tpc[t] \in Busy
      PROVE  NodeOf(t) = nodes[t]
  BY <1>1 DEF ExecuteInv, SlotInv, DoneInv, NodeOf, Busy
<1>2. ASSUME NEW t \in Threads, tpc[t] \in Ended
      PROVE  tnode[t] = nodes[t]
  BY <1>2 DEF ExecuteInv, DoneInv
<1>3. Running = NodesOf(Those(Busy))
  BY <1>1 DEF Running, NodesOf, Those
<1>4. Done = NodesOf(Those(Ended))
  BY <1>2 DEF Done, NodesOf, Those
<1>5. Lost = NodesOf(Those({"failed"}))
  BY DEF Lost, NodesOf, Those
<1>6. Todo = NodesOf({c \in Cells : tpc[c] = "none"})
  BY DEF Todo, NodesOf, Cells
<1>. QED
  BY <1>3, <1>4, <1>5, <1>6 DEF View

LEMMA ViewHoldsAfter == ExecuteInv' => View'
  BY ViewHolds, PTL

LEMMA Phases ==
    /\ pc = "setup" => Phase = "idle"
    /\ pc \in {"visit", "join"} => Phase = "active"
    /\ pc \in {"einval", "enomem", "returned"} => Phase = "returned"
    /\ pc \in Crashes => Phase = "aborted"
  BY DEF Phase, Crashes

LEMMA PhasesAfter ==
    /\ pc' = "setup" => Phase' = "idle"
    /\ pc' \in {"visit", "join"} => Phase' = "active"
    /\ pc' \in {"einval", "enomem", "returned"} => Phase' = "returned"
    /\ pc' \in Crashes => Phase' = "aborted"
  BY DEF Phase, Crashes

\* As long as no thread changes, the abstract sets do not.
LEMMA SameSets ==
    ASSUME UNCHANGED <<nodes, container, tpc, tslot, tnode>>
    PROVE  UNCHANGED <<Todo, Running, Done, Lost>>
  BY DEF Todo, Running, Done, Lost, NodeOf

\* A free slot means that fewer nodes run or are lost than there are slots.
LEMMA Room ==
    ASSUME ExecuteInv, View, pc = "visit", i \in 1..concurrent, mutex[i] = "free"
    PROVE  Cardinality(Running) + Cardinality(Lost) < concurrent
<1>. DEFINE busy == Those(Busy)
            failed == Those({"failed"})
            holders == busy \union failed
            free == (1..concurrent) \ {i}
<1>1. concurrent \in Nat
  BY DEF ExecuteInv, TypeInv, TypeOK
<1>2. IsFiniteSet(free) /\ Cardinality(free) = concurrent - 1
  <2>1. IsFiniteSet(1..concurrent) /\ Cardinality(1..concurrent) = concurrent
    BY <1>1, FS_Interval
  <2>. QED
    BY <2>1, FS_RemoveElement
<1>3. ASSUME NEW t \in holders
      PROVE  t \in Threads /\ tpc[t] \in Holding /\ tslot[t] \in free
  <2>1. t \in Threads /\ tpc[t] \in Holding
    BY <1>3 DEF Those, Holding
  <2>2. mutex[tslot[t]] = "locked" /\ tslot[t] \in 1..concurrent
    BY <2>1 DEF ExecuteInv, LockInv
  <2>. QED
    BY <2>1, <2>2
<1>4. [t \in holders |-> tslot[t]] \in Injection(holders, free)
  <2>1. \A t, u \in holders : tslot[t] = tslot[u] => t = u
    BY <1>3 DEF ExecuteInv, LockInv
  <2>. QED
    BY <1>3, <2>1 DEF Injection, IsInjective
<1>5. IsFiniteSet(holders) /\ Cardinality(holders) <= concurrent - 1
  BY <1>2, <1>4, FS_Injection
<1>6. busy \intersect failed = {}
  BY BusyStates DEF Those
<1>7. IsFiniteSet(busy) /\ IsFiniteSet(failed)
  BY <1>5, FS_Subset
<1>8. Cardinality(holders) = Cardinality(busy) + Cardinality(failed)
  <2>1. Cardinality(busy) \in Nat /\ Cardinality(failed) \in Nat
    BY <1>7, FS_CardinalityType
  <2>2. Cardinality(holders) =
            Cardinality(busy) + Cardinality(failed) - Cardinality(busy \intersect failed)
    BY <1>7, FS_Union
  <2>3. Cardinality(busy \intersect failed) = 0
    BY <1>6, FS_EmptySet
  <2>. QED
    BY <2>1, <2>2, <2>3
<1>9. ASSUME NEW S, IsFiniteSet(S)
      PROVE  IsFiniteSet(NodesOf(S)) /\ Cardinality(NodesOf(S)) <= Cardinality(S)
  <2>1. [t \in S |-> nodes[t]] \in Surjection(S, NodesOf(S))
    BY DEF NodesOf, Surjection
  <2>. QED
    BY <1>9, <2>1, FS_Surjection
<1>10. /\ Cardinality(Running) <= Cardinality(busy)
       /\ Cardinality(Lost) <= Cardinality(failed)
       /\ Cardinality(Running) \in Nat /\ Cardinality(Lost) \in Nat
  BY <1>7, <1>9, FS_CardinalityType DEF View
<1>11. /\ Cardinality(busy) \in Nat /\ Cardinality(failed) \in Nat
  BY <1>7, FS_CardinalityType
<1>. QED
  BY <1>1, <1>5, <1>8, <1>10, <1>11

-----------------------------------------------------------------------------
(* The steps *)

\* BoundedExecution has operators on finite sets of its own, the same ones.
LEMMA SameOperators ==
    /\ \A S : Abstract!IsFiniteSet(S) <=> IsFiniteSet(S)
    /\ \A S : Abstract!Cardinality(S) = Cardinality(S)
<1>1. \A S : Abstract!IsFiniteSet(S) <=> IsFiniteSet(S)
  BY DEF IsFiniteSet, Abstract!IsFiniteSet
<1>2. \A S : Abstract!Cardinality(S) = Cardinality(S)
  BY DEF Cardinality, Abstract!Cardinality
<1>. QED
  BY <1>1, <1>2

LEMMA InitRefines == Init => Abstract!Init
<1>. SUFFICES ASSUME Init PROVE Abstract!Init
  OBVIOUS
<1>1. /\ nodes \in {Registered(k) : k \in 0..MaxNodes}
      /\ \A t \in Threads : tpc[t] = "none"
      /\ pc = "setup" /\ concurrent \in Int
  BY ExecuteAssumption DEF Init
<1>2. Phase = "idle"
  BY <1>1, Phases
<1>3. Running = {} /\ Done = {} /\ Lost = {}
  <2>1. \A t \in Threads : tpc[t] \notin Busy /\ tpc[t] \notin Ended /\ tpc[t] # "failed"
    BY <1>1 DEF Busy, Walking, Ended
  <2>. QED
    BY <2>1 DEF Running, Done, Lost
<1>4. IsFiniteSet(Todo)
  <2>. DEFINE idle == {u \in Cells : tpc[u] = "none"}
  <2>1. llist_count(nodes) \in Int
    BY <1>1, NodesList
  <2>2. IsFiniteSet(Cells)
    BY <2>1, FS_Interval DEF Cells
  <2>3. IsFiniteSet(idle)
    BY <2>2, FS_Subset
  <2>4. [t \in idle |-> nodes[t]] \in Surjection(idle, Todo)
    BY DEF Todo, Cells, Surjection
  <2>. QED
    BY <2>3, <2>4, FS_Surjection
<1>. QED
  BY <1>1, <1>2, <1>3, <1>4, SameOperators DEF Abstract!Init

\* As many nodes are waiting as are registered, before the first is taken.
LEMMA AllToDo ==
    ASSUME ExecuteInv, pc = "setup"
    PROVE  Cardinality(Todo) = llist_count(nodes)
<1>1. /\ llist_count(nodes) \in Nat /\ Cells \subseteq Threads
      /\ \A c, d \in Cells : nodes[c] = nodes[d] => c = d
  BY CellsOfNodes DEF ExecuteInv
<1>2. \A t \in Threads : tpc[t] = "none"
  BY DEF ExecuteInv, SlotInv
<1>3. Todo = {nodes[c] : c \in Cells}
  BY <1>1, <1>2 DEF Todo, Cells
<1>4. /\ [c \in Cells |-> nodes[c]] \in Surjection(Cells, Todo)
      /\ [c \in Cells |-> nodes[c]] \in Injection(Cells, Todo)
  BY <1>1, <1>3 DEF Surjection, Injection, IsInjective
<1>5. IsFiniteSet(Cells) /\ Cardinality(Cells) = llist_count(nodes)
  BY <1>1, FS_Interval DEF Cells
<1>. QED
  BY <1>4, <1>5, FS_Surjection

LEMMA SetupRefines ==
    ASSUME ExecuteInv, SetupEmpty \/ Setup
    PROVE  Abstract!Next
<1>1. UNCHANGED <<Todo, Running, Done, Lost>>
  BY SameSets DEF SetupEmpty, Setup, slotVars, threadVars
<1>2. pc = "setup" /\ Phase = "idle" /\ concurrent \in Int
  BY Phases DEF SetupEmpty, Setup, ExecuteInv, TypeInv, TypeOK
<1>3. CASE SetupEmpty
  <2>1. Phase' = "returned" /\ concurrent' \in Int
    BY <1>2, <1>3, PhasesAfter DEF SetupEmpty
  <2>. QED
    BY <1>1, <1>2, <2>1 DEF Abstract!Next, Abstract!Refuse
<1>4. CASE Setup
  <2>1. /\ llist_count(nodes) >= 1 /\ llist_count(nodes) \in Nat
        /\ concurrent' = Clamped(concurrent, llist_count(nodes))
        /\ pc' \in {"visit", "enomem"}
    BY <1>4, CellsOfNodes DEF Setup, ExecuteInv
  <2>2. concurrent' \in 1..llist_count(nodes)
    BY <1>2, <2>1 DEF Clamped
  <2>3. Cardinality(Todo) = llist_count(nodes)
    BY <1>2, AllToDo
  <2>4. Todo # {}
    BY <2>1, <2>3, FS_EmptySet
  <2>5. CASE pc' = "visit"
    <3>1. Phase' = "active"
      BY <2>5, PhasesAfter
    <3>. QED
      BY <1>1, <1>2, <2>2, <2>3, <2>4, <3>1, SameOperators DEF Abstract!Next, Abstract!Begin
  <2>6. CASE pc' = "enomem"
    <3>1. Phase' = "returned" /\ concurrent' \in Int
      BY <2>1, <2>2, <2>6, PhasesAfter
    <3>. QED
      BY <1>1, <1>2, <3>1 DEF Abstract!Next, Abstract!Refuse
  <2>. QED
    BY <2>1, <2>5, <2>6
<1>. QED
  BY <1>3, <1>4

\* The node of the current cell is taken: it runs, or it is lost.
LEMMA TakeRefines ==
    ASSUME Platform = "posix", ExecuteInv, ExecuteInv', Dispatch \/ SpawnFails
    PROVE  Abstract!Next
<1>. DEFINE n == nodes[current_node]
<1>1. /\ TakeNode /\ pc = "visit" /\ pc' = "visit" /\ n # NULL
      /\ mutex[i] = "free" /\ i <= concurrent
      /\ UNCHANGED <<concurrent, nodes>>
  BY DEF Dispatch, SpawnFails, TakeNode, FreeSlot, Acquires
<1>2. Phase = "active" /\ Phase' = "active"
  BY <1>1, Phases, PhasesAfter
<1>3. i \in 1..concurrent
  BY <1>1, CellsOfNodes DEF ExecuteInv, TypeInv, CallerInv
<1>4. View /\ View'
  BY ViewHolds, ViewHoldsAfter
<1>5. Cardinality(Running) + Cardinality(Lost) < concurrent
  BY <1>1, <1>3, <1>4, Room
<1>6. /\ current_node \in Cells /\ current_node \in Threads
      /\ tpc[current_node] = "none"
  <2>1. /\ current_node < Len(nodes) /\ current_node \in Threads
        /\ Len(nodes) = llist_count(nodes) + 1 /\ llist_count(nodes) \in Nat
    BY <1>1, NodeCell, CellsOfNodes DEF ExecuteInv
  <2>2. tpc[current_node] = "none"
    BY <1>1, <2>1 DEF ExecuteInv, DoneInv, Threads
  <2>. QED
    BY <2>1, <2>2 DEF Cells, Threads
<1>7. PICK state \in {"fetch", "failed"} :
          /\ tpc' = [tpc EXCEPT ![current_node] = state]
          /\ state = "fetch" <=> Dispatch
  <2>1. CASE Dispatch
    BY <2>1 DEF Dispatch
  <2>2. CASE SpawnFails /\ ~Dispatch
    BY <2>2 DEF SpawnFails
  <2>. QED
    BY <2>1, <2>2
<1>8. /\ tpc'[current_node] = state
      /\ \A t \in Threads : t # current_node => tpc'[t] = tpc[t]
      /\ Cells' = Cells
  BY <1>1, <1>6, <1>7 DEF ExecuteInv, TypeInv, TypeOK, Cells
<1>9. /\ "none" \notin Busy /\ "none" \notin Ended
      /\ "failed" \notin Busy /\ "failed" \notin Ended
      /\ "fetch" \in Busy /\ "fetch" \notin Ended
  BY DEF Busy, Walking, Ended
<1>10. /\ Those(Ended)' = Those(Ended)
       /\ Those(Busy)' = IF state = "fetch" THEN Those(Busy) \union {current_node}
                         ELSE Those(Busy)
       /\ Those({"failed"})' = IF state = "failed"
                               THEN Those({"failed"}) \union {current_node}
                               ELSE Those({"failed"})
  BY <1>6, <1>7, <1>8, <1>9 DEF Those
<1>11. /\ Done' = Done
       /\ Running' = IF state = "fetch" THEN Running \union {n} ELSE Running
       /\ Lost' = IF state = "failed" THEN Lost \union {n} ELSE Lost
  BY <1>1, <1>4, <1>7, <1>10 DEF View, NodesOf
<1>12. {c \in Cells : tpc[c] = "none"}' = {c \in Cells : tpc[c] = "none"} \ {current_node}
  BY <1>6, <1>7, <1>8, CellsOfNodes DEF ExecuteInv
<1>13. n \in Todo /\ Todo' = Todo \ {n}
  <2>1. \A c, d \in Cells : nodes[c] = nodes[d] => c = d
    BY CellsOfNodes DEF ExecuteInv
  <2>2. Todo = {nodes[c] : c \in {d \in Cells : tpc[d] = "none"}}
    BY <1>4 DEF View, NodesOf
  <2>3. Todo' = {nodes[c] : c \in {d \in Cells : tpc[d] = "none"} \ {current_node}}
    BY <1>1, <1>4, <1>12 DEF View, NodesOf
  <2>. QED
    BY <1>6, <2>1, <2>2, <2>3
<1>14. Abstract!Take(n)
  BY <1>1, <1>2, <1>5, <1>7, <1>11, <1>13, SameOperators DEF Abstract!Take, Abstract!HasRoom
<1>. QED
  BY <1>13, <1>14 DEF Abstract!Next

\* The steps of the caller that are not steps of BoundedExecution, and those
\* by which the process dies.
LEMMA CallerStutters ==
    ASSUME ExecuteInv,
           SkipSlot \/ DispatchNull \/ EndPass \/ Join \/ JoinInvalid
    PROVE  [Abstract!Next]_(Abstract!vars)
<1>1. UNCHANGED <<Todo, Running, Done, Lost, concurrent>>
  BY SameSets DEF SkipSlot, DispatchNull, EndPass, Join, JoinInvalid, slotVars, threadVars
<1>2. pc \in {"visit", "join"} /\ pc' \in {"visit", "join"} \union Crashes
  BY DEF SkipSlot, DispatchNull, EndPass, Join, JoinInvalid, FreeSlot, Crashes
<1>3. Phase = "active"
  BY <1>2, Phases
<1>4. CASE pc' \in {"visit", "join"}
  <2>1. Phase' = "active"
    BY <1>4, PhasesAfter
  <2>. QED
    BY <1>1, <1>3, <2>1 DEF Abstract!vars
<1>5. CASE pc' \in Crashes
  <2>1. Phase' = "aborted"
    BY <1>5, PhasesAfter
  <2>. QED
    BY <1>1, <1>3, <2>1 DEF Abstract!Next, Abstract!Abort
<1>. QED
  BY <1>2, <1>4, <1>5

\* At the return nothing is left to do and nothing runs.
LEMMA FinishRefines ==
    ASSUME Platform = "posix", ExecuteInv, ExecuteInv', Finish
    PROVE  Abstract!Next
<1>1. /\ pc = "join" /\ pc' = "returned"
      /\ UNCHANGED <<nodes, current_node, concurrent, slotVars, threadVars>>
  BY DEF Finish
<1>2. UNCHANGED <<Todo, Running, Done, Lost>>
  BY <1>1, SameSets DEF slotVars, threadVars
<1>3. Phase = "active" /\ Phase' = "returned"
  BY <1>1, Phases, PhasesAfter
<1>4. /\ current_node = Len(nodes)
      /\ \A t \in Threads : tpc[t] \notin Busy
      /\ \A t \in Threads : (tpc[t] # "none") <=> (t < current_node)
  BY <1>1 DEF ExecuteInv, DoneInv, threadVars
<1>5. Running = {}
  BY <1>4 DEF Running
<1>6. Todo = {}
  <2>1. \A c \in Cells : c \in Threads /\ c < Len(nodes)
    BY CellsOfNodes DEF ExecuteInv, Cells
  <2>2. \A c \in Cells : tpc[c] # "none"
    BY <1>4, <2>1
  <2>. QED
    BY <2>2 DEF Todo, Cells
<1>. QED
  BY <1>1, <1>2, <1>3, <1>5, <1>6 DEF Abstract!Next, Abstract!Return

\* A thread completes its node when it unlocks its slot; its other steps are
\* none of BoundedExecution, except for the process's death.
LEMMA ThreadRefines ==
    ASSUME Platform = "posix", ExecuteInv, ExecuteInv', NEW t \in Threads, Thread(t)
    PROVE  [Abstract!Next]_(Abstract!vars)
<1>1. UNCHANGED <<nodes, concurrent, container, tslot>>
  BY ThreadFrame
<1>2. View /\ View'
  BY ViewHolds, ViewHoldsAfter
<1>3. /\ tpc \in [Threads -> {"none", "failed"} \union Busy \union Ended]
      /\ Cells \subseteq Threads
  BY CellsOfNodes DEF ExecuteInv, TypeInv, TypeOK
<1>4. ASSUME NEW to, tpc' = [tpc EXCEPT ![t] = to], UNCHANGED pc,
             \/ tpc[t] \in Busy /\ to \in Busy
             \/ tpc[t] \in Ended /\ to \in Ended
      PROVE  UNCHANGED Abstract!vars
  <2>1. /\ Those(Busy)' = Those(Busy) /\ Those(Ended)' = Those(Ended)
        /\ Those({"failed"})' = Those({"failed"})
        /\ {c \in Cells : tpc[c] = "none"}' = {c \in Cells : tpc[c] = "none"}
    BY <1>1, <1>3, <1>4, BusyStates DEF Those, Cells, Ended
  <2>2. UNCHANGED <<Todo, Running, Done, Lost>>
    BY <1>1, <1>2, <2>1 DEF View, NodesOf
  <2>3. UNCHANGED Phase
    BY <1>4 DEF Phase
  <2>. QED
    BY <1>1, <2>2, <2>3 DEF Abstract!vars
<1>5. ASSUME tpc[t] \in Busy, pc \notin Crashes
      PROVE  pc \in {"visit", "join"}
  BY <1>5 DEF ExecuteInv, SlotInv, TypeInv, TypeOK, Stopped
<1>6. CASE /\ pc \notin Crashes /\ tpc[t] \in Busy /\ UNCHANGED pc
           /\ tpc' = [tpc EXCEPT ![t] = "exiting"]
  <2>. DEFINE n == nodes[t]
  <2>1. pc \in {"visit", "join"} /\ Phase = "active" /\ UNCHANGED Phase
    BY <1>5, <1>6, Phases DEF Phase
  <2>2. \A u \in Those(Busy) : u \in Cells
    BY <2>1, StartedCells, BusyStates DEF Those
  <2>3. /\ t \in Those(Busy)
        /\ Those(Busy)' = Those(Busy) \ {t}
        /\ Those(Ended)' = Those(Ended) \union {t}
        /\ Those({"failed"})' = Those({"failed"})
        /\ {c \in Cells : tpc[c] = "none"}' = {c \in Cells : tpc[c] = "none"}
    BY <1>1, <1>3, <1>6, BusyStates DEF Those, Cells, Ended
  <2>4. Done' = Done \union {n} /\ Lost' = Lost /\ Todo' = Todo
    BY <1>1, <1>2, <2>3 DEF View, NodesOf
  <2>5. n \in Running /\ Running' = Running \ {n}
    <3>1. \A c, d \in Cells : nodes[c] = nodes[d] => c = d
      BY CellsOfNodes DEF ExecuteInv
    <3>2. Running = {nodes[u] : u \in Those(Busy)}
      BY <1>2 DEF View, NodesOf
    <3>3. Running' = {nodes[u] : u \in Those(Busy) \ {t}}
      BY <1>1, <1>2, <2>3 DEF View, NodesOf
    <3>. QED
      BY <2>2, <2>3, <3>1, <3>2, <3>3
  <2>6. Abstract!Complete(n)
    BY <1>1, <2>1, <2>4, <2>5 DEF Abstract!Complete
  <2>. QED
    BY <2>5, <2>6 DEF Abstract!Next
<1>7. CASE /\ pc \notin Crashes /\ tpc[t] \in Busy /\ pc' = "crash_cursor"
           /\ UNCHANGED <<mutex, threadVars>>
  <2>1. Phase = "active"
    BY <1>5, <1>7, Phases
  <2>2. Phase' = "aborted"
    BY <1>7, PhasesAfter DEF Crashes
  <2>3. UNCHANGED <<Todo, Running, Done, Lost>>
    BY <1>1, <1>7, SameSets DEF threadVars
  <2>. QED
    BY <1>1, <2>1, <2>2, <2>3 DEF Abstract!Next, Abstract!Abort
<1>8. CASE /\ tpc[t] = "exiting" /\ UNCHANGED <<pc, mutex>>
           /\ tpc' = [tpc EXCEPT ![t] = "exited"]
  BY <1>4, <1>8 DEF Ended
<1>9. CASE \E to \in Busy : /\ pc \notin Crashes /\ tpc[t] \in Busy
                            /\ UNCHANGED <<pc, mutex>>
                            /\ tpc' = [tpc EXCEPT ![t] = to]
  <2>1. PICK to \in Busy : tpc' = [tpc EXCEPT ![t] = to]
    BY <1>9
  <2>2. tpc[t] \in Busy /\ UNCHANGED pc
    BY <1>9
  <2>3. UNCHANGED Abstract!vars
    BY <1>4, <2>1, <2>2
  <2>. QED
    BY <2>3
<1>. QED
  BY <1>6, <1>7, <1>8, <1>9, ThreadWays DEF ExecuteInv

LEMMA NextRefines ==
    Platform = "posix" /\ ExecuteInv /\ [Next]_vars
        => [Abstract!Next]_(Abstract!vars)
<1>. SUFFICES ASSUME Platform = "posix", ExecuteInv, [Next]_vars
              PROVE  [Abstract!Next]_(Abstract!vars)
  OBVIOUS
<1>1. ExecuteInv'
  BY NextExecuteInv
<1>2. CASE UNCHANGED vars
  <2>1. UNCHANGED <<Todo, Running, Done, Lost>> /\ UNCHANGED <<pc, concurrent>>
    BY <1>2, SameSets DEF vars, callerVars, slotVars, threadVars
  <2>. QED
    BY <2>1 DEF Abstract!vars, Phase
<1>3. CASE Caller
  BY <1>1, <1>3, SetupRefines, TakeRefines, CallerStutters, FinishRefines DEF Caller
<1>. QED
  BY <1>1, <1>2, <1>3, ThreadRefines DEF Next, Terminated

\* With pthreads the slots, mutexes, containers and handles amount to this: each
\* node is taken once, at most `concurrent` are running or lost at a time, and
\* the call returns when all that were taken have ended.
THEOREM Refinement == ASSUME Platform = "posix" PROVE Spec => Implements
<1>1. Init => ExecuteInv /\ Abstract!Init
  BY InitTyped, InitSlots, InitDone, InitLocks, InitRefines DEF ExecuteInv
<1>2. ExecuteInv /\ [Next]_vars => ExecuteInv' /\ [Abstract!Next]_(Abstract!vars)
  BY NextExecuteInv, NextRefines
<1>. QED
  BY <1>1, <1>2, PTL DEF Spec, Implements, Abstract!Spec

===============================================================================
