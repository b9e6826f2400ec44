------------------------------- MODULE Execute -------------------------------
(***************************************************************************)
(* libdistexec_execute (src/src/distexec.c) and the threads it starts.     *)
(*                                                                         *)
(* The caller's thread walks over `concurrent` slots.  A slot is a mutex,  *)
(* a container and a thread handle.  The caller locks a free slot's mutex, *)
(* puts the next node into its container and starts thread_exec, which     *)
(* reads the container, calls every execute callback for the node and      *)
(* unlocks the mutex.  When all nodes are dispatched the caller joins the  *)
(* threads and frees the command.                                          *)
(*                                                                         *)
(* The threads call the callbacks through LIBDISTEXEC_LL_EACH, whose loop  *)
(* cursor (execute_current) is a static variable all of them share: each   *)
(* read and each write of it is a step of its own.                         *)
(*                                                                         *)
(* Nodes and callbacks are numbered in the order they were registered; a   *)
(* thread is named after the cell of the nodes list it was started for.    *)
(***************************************************************************)
EXTENDS Integers, Sequences, FiniteSets, LinkedLists

CONSTANTS
    MaxNodes,      \* bound on the registered nodes
    Requests,      \* the values cfg->concurrent may have on entry
    NumCallbacks,  \* registered execute callbacks
    Platform,      \* whose threads and mutexes thread.c wraps
    ResourcesFail  \* may calloc and pthread_create fail?

ASSUME ExecuteAssumption ==
    /\ MaxNodes \in Nat \ {0}
    /\ Requests \subseteq Int
    /\ NumCallbacks \in Nat
    /\ Platform \in {"posix", "windows"}
    /\ ResourcesFail \in BOOLEAN

Slots == 1..MaxNodes
Threads == 1..MaxNodes

\* A pthread_t that pthread_create left unspecified when it failed.
Indeterminate == MaxNodes + 1

\* The list of execute callbacks: it is created by the first registration.
execute == IF NumCallbacks = 0 THEN << >> ELSE Registered(NumCallbacks)
executeHead == IF execute = << >> THEN NULL ELSE 1

VARIABLES
    \* the caller of libdistexec_execute
    pc,           \* where it is
    i,            \* the loop variable: a slot
    nodes,        \* the nodes list
    current_node, \* a cell of it
    count,        \* nodes not dispatched yet
    concurrent,   \* cfg->concurrent
    command,      \* "unset", "set" or "freed"
    \* the slots
    mutex,        \* "free" or "locked"
    container,    \* the node in the slot's container
    handle,       \* threads[slot]
    \* the threads
    tpc,          \* where each thread is
    tslot,        \* the slot whose container it was given
    tnode,        \* the node it read from there
    elem,         \* the loop's elem
    next,         \* the loaded next pointer, before it is stored
    trace,        \* the callbacks it has called
    \* shared by the threads
    execute_current

callerVars == <<pc, i, nodes, current_node, count, concurrent, command>>
slotVars == <<mutex, container, handle>>
threadVars == <<tpc, tslot, tnode, elem, next, trace>>
vars == <<callerVars, slotVars, threadVars, execute_current>>

Crashes == {"crash_node", "crash_join", "crash_cursor"}
Stopped == {"einval", "enomem", "returned"} \union Crashes

\* A thread between its start and the unlock of its slot's mutex.
Walking == {"each_start", "each_guard", "each_test", "each_value",
            "each_load", "each_store", "call"}
Busy == {"fetch", "release"} \union Walking
Ended == {"exiting", "exited"}

-----------------------------------------------------------------------------
(* The caller *)

Init ==
    /\ pc = "setup"
    /\ i = 1
    /\ nodes \in {Registered(k) : k \in 0..MaxNodes}
    /\ current_node = NULL
    /\ count = 0
    /\ concurrent \in Requests
    /\ command = "unset"
    /\ mutex = [s \in Slots |-> "free"]
    /\ container = [s \in Slots |-> NULL]
    /\ handle = [s \in Slots |-> NULL]
    /\ tpc = [t \in Threads |-> "none"]
    /\ tslot = [t \in Threads |-> 1]
    /\ tnode = [t \in Threads |-> NULL]
    /\ elem = [t \in Threads |-> NULL]
    /\ next = [t \in Threads |-> NULL]
    /\ trace = [t \in Threads |-> << >>]
    /\ execute_current = NULL

\* Mutant: the lower bound of cfg->concurrent is not enforced.
ClampedAboveOnly(request, n) == IF request > n THEN n ELSE request

Clamped(request, n) ==
    IF request < 1 THEN 1 ELSE IF request > n THEN n ELSE request

SetupEmpty ==
    /\ pc = "setup"
    /\ llist_count(nodes) < 1
    /\ pc' = "einval"
    /\ UNCHANGED <<i, nodes, current_node, count, concurrent, command>>
    /\ UNCHANGED <<slotVars, threadVars, execute_current>>

\* The command is duplicated before the slots' mutexes are allocated.
Setup ==
    /\ pc = "setup"
    /\ llist_count(nodes) >= 1
    /\ count' = llist_count(nodes)
    /\ concurrent' = Clamped(concurrent, llist_count(nodes))
    /\ command' = "set"
    /\ current_node' = 1
    /\ \/ pc' = "visit"
       \/ ResourcesFail /\ pc' = "enomem"
    /\ UNCHANGED <<i, nodes, slotVars, threadVars, execute_current>>

\* Mutant: the result of trylock is ignored.
AcquiresAlways(s) == TRUE

(***************************************************************************)
(* trylock.  A pthread mutex is a lock for every thread.  A Windows mutex  *)
(* belongs to the thread that took it, here always the caller, to whom     *)
(* WaitForSingleObject grants it again.                                    *)
(***************************************************************************)
Acquires(s) == Platform = "windows" \/ mutex[s] = "free"

\* The slot is taken, or there is no node left: the "shutdown" label.
SkipSlot ==
    /\ pc = "visit"
    /\ i <= concurrent
    /\ ~Acquires(i) \/ current_node = NULL
    /\ mutex' = [mutex EXCEPT ![i] = "locked"]
    /\ pc' = IF current_node = NULL THEN "join" ELSE "visit"
    /\ i' = IF current_node = NULL THEN 1 ELSE i + 1
    /\ UNCHANGED <<nodes, current_node, count, concurrent, command, container,
                   handle, threadVars, execute_current>>

\* A free slot and the cell whose node it is about to be given.
FreeSlot ==
    /\ pc = "visit"
    /\ i <= concurrent
    /\ Acquires(i)
    /\ current_node # NULL

\* n->hostname of the cell that holds no node.
DispatchNull ==
    /\ FreeSlot
    /\ nodes[current_node] = NULL
    /\ pc' = "crash_node"
    /\ mutex' = [mutex EXCEPT ![i] = "locked"]
    /\ current_node' = NextCell(nodes, current_node)
    /\ UNCHANGED <<i, nodes, count, concurrent, command, container, handle,
                   threadVars, execute_current>>

\* Mutant: the cell is dispatched whether or not it holds a node.
TakeAnyNode ==
    /\ FreeSlot
    /\ mutex' = [mutex EXCEPT ![i] = "locked"]
    /\ container' = [container EXCEPT ![i] = nodes[current_node]]
    /\ current_node' = NextCell(nodes, current_node)
    /\ count' = count - 1
    /\ i' = i + 1
    /\ UNCHANGED <<pc, nodes, concurrent, command, tnode, elem, next, trace,
                   execute_current>>

\* The bookkeeping of a dispatch, whatever thread_create does.
TakeNode ==
    /\ FreeSlot
    /\ nodes[current_node] # NULL
    /\ mutex' = [mutex EXCEPT ![i] = "locked"]
    /\ container' = [container EXCEPT ![i] = nodes[current_node]]
    /\ current_node' = NextCell(nodes, current_node)
    /\ count' = count - 1
    /\ i' = i + 1
    /\ UNCHANGED <<pc, nodes, concurrent, command, tnode, elem, next,
                   trace, execute_current>>

Dispatch ==
    /\ TakeNode
    /\ handle' = [handle EXCEPT ![i] = current_node]
    /\ tpc' = [tpc EXCEPT ![current_node] = "fetch"]
    /\ tslot' = [tslot EXCEPT ![current_node] = i]

\* The result of thread_create is ignored.
SpawnFails ==
    /\ ResourcesFail
    /\ TakeNode
    /\ tpc' = [tpc EXCEPT ![current_node] = "failed"]
    /\ tslot' = [tslot EXCEPT ![current_node] = i]
    /\ \E h \in IF Platform = "windows" THEN {NULL} ELSE {handle[i], Indeterminate} :
          handle' = [handle EXCEPT ![i] = h]

\* Mutant: do ... while (count > 1).
EndPassEarly ==
    /\ pc = "visit"
    /\ i > concurrent
    /\ pc' = IF count > 1 THEN "visit" ELSE "join"
    /\ i' = 1
    /\ UNCHANGED <<nodes, current_node, count, concurrent, command>>
    /\ UNCHANGED <<slotVars, threadVars, execute_current>>

\* Mutant: do ... while (count >= 0).
EndPassLate ==
    /\ pc = "visit"
    /\ i > concurrent
    /\ pc' = IF count >= 0 THEN "visit" ELSE "join"
    /\ i' = 1
    /\ UNCHANGED <<nodes, current_node, count, concurrent, command>>
    /\ UNCHANGED <<slotVars, threadVars, execute_current>>

\* The end of the for loop, the sleep and the test of the do loop.
EndPass ==
    /\ pc = "visit"
    /\ i > concurrent
    /\ pc' = IF count > 0 THEN "visit" ELSE "join"
    /\ i' = 1
    /\ UNCHANGED <<nodes, current_node, count, concurrent, command>>
    /\ UNCHANGED <<slotVars, threadVars, execute_current>>

\* Mutant: the threads are not waited for.
JoinWithoutWaiting ==
    /\ pc = "join"
    /\ i <= concurrent
    /\ handle[i] \in Threads
    /\ i' = i + 1
    /\ UNCHANGED <<pc, nodes, current_node, count, concurrent, command>>
    /\ UNCHANGED <<slotVars, threadVars, execute_current>>

Join ==
    /\ pc = "join"
    /\ i <= concurrent
    /\ handle[i] \in Threads
    /\ tpc[handle[i]] = "exited"
    /\ i' = i + 1
    /\ UNCHANGED <<pc, nodes, current_node, count, concurrent, command>>
    /\ UNCHANGED <<slotVars, threadVars, execute_current>>

(***************************************************************************)
(* Joining what is not a thread: pthread_join reads through the handle,    *)
(* which faults for 0 and may fault for an unspecified one;                *)
(* WaitForSingleObject(NULL) fails and returns.                            *)
(***************************************************************************)
JoinInvalid ==
    /\ pc = "join"
    /\ i <= concurrent
    /\ handle[i] \notin Threads
    /\ \/ /\ Platform = "posix"
          /\ pc' = "crash_join"
          /\ UNCHANGED i
       \/ /\ Platform = "windows" \/ handle[i] = Indeterminate
          /\ i' = i + 1
          /\ UNCHANGED pc
    /\ UNCHANGED <<nodes, current_node, count, concurrent, command>>
    /\ UNCHANGED <<slotVars, threadVars, execute_current>>

(***************************************************************************)
(* libdistexec_terminate_callback_execute and the release of the command.  *)
(* The terminate round leaves the cursor at the last cell.                 *)
(***************************************************************************)
Finish ==
    /\ pc = "join"
    /\ i > concurrent
    /\ execute_current' = Len(execute)
    /\ command' = "freed"
    /\ pc' = "returned"
    /\ UNCHANGED <<i, nodes, current_node, count, concurrent>>
    /\ UNCHANGED <<slotVars, threadVars>>

Caller ==
    \/ SetupEmpty \/ Setup
    \/ SkipSlot \/ DispatchNull \/ Dispatch \/ SpawnFails \/ EndPass
    \/ Join \/ JoinInvalid \/ Finish

-----------------------------------------------------------------------------
(* The threads *)

\* Thread t moves from one place to another while the process lives.
Goes(t, from, to) ==
    /\ pc \notin Crashes
    /\ tpc[t] = from
    /\ tpc' = [tpc EXCEPT ![t] = to]
    /\ UNCHANGED <<callerVars, container, handle, tslot>>

\* Mutant: the slot is given back as soon as the container was read.
FetchAndUnlock(t) ==
    /\ tnode' = [tnode EXCEPT ![t] = container[tslot[t]]]
    /\ Goes(t, "fetch",
            IF container[tslot[t]] = NULL THEN "release" ELSE "each_start")
    /\ mutex' = [mutex EXCEPT ![tslot[t]] = "free"]
    /\ UNCHANGED <<elem, next, trace, execute_current>>

\* thread_exec: the node is read from the container, not handed over.
Fetch(t) ==
    /\ tnode' = [tnode EXCEPT ![t] = container[tslot[t]]]
    /\ Goes(t, "fetch",
            IF container[tslot[t]] = NULL THEN "release" ELSE "each_start")
    /\ UNCHANGED <<mutex, elem, next, trace, execute_current>>

\* Mutant: the cursor goes on from where the last loop left it.
EachResume(t) ==
    /\ execute_current' = IF execute_current = NULL THEN executeHead
                          ELSE execute_current
    /\ Goes(t, "each_start", "each_guard")
    /\ UNCHANGED <<mutex, tnode, elem, next, trace>>

\* execute_current = execute
EachStart(t) ==
    /\ execute_current' = executeHead
    /\ Goes(t, "each_start", "each_guard")
    /\ UNCHANGED <<mutex, tnode, elem, next, trace>>

\* if (execute_current != NULL)
EachGuard(t) ==
    /\ Goes(t, "each_guard",
            IF execute_current = NULL THEN "release" ELSE "each_test")
    /\ UNCHANGED <<mutex, tnode, elem, next, trace, execute_current>>

\* while (execute_current->next != NULL)
EachTest(t) ==
    /\ execute_current # NULL
    /\ Goes(t, "each_test",
            IF NextCell(execute, execute_current) = NULL THEN "release"
            ELSE "each_value")
    /\ UNCHANGED <<mutex, tnode, elem, next, trace, execute_current>>

\* elem = execute_current->value
EachValue(t) ==
    /\ execute_current # NULL
    /\ elem' = [elem EXCEPT ![t] = execute[execute_current]]
    /\ Goes(t, "each_value", "each_load")
    /\ UNCHANGED <<mutex, tnode, next, trace, execute_current>>

\* The right-hand side of execute_current = execute_current->next ...
EachLoad(t) ==
    /\ execute_current # NULL
    /\ next' = [next EXCEPT ![t] = NextCell(execute, execute_current)]
    /\ Goes(t, "each_load", "each_store")
    /\ UNCHANGED <<mutex, tnode, elem, trace, execute_current>>

\* ... and its left-hand side; a NULL element is skipped.
EachStore(t) ==
    /\ execute_current' = next[t]
    /\ Goes(t, "each_store", IF elem[t] = NULL THEN "each_test" ELSE "call")
    /\ UNCHANGED <<mutex, tnode, elem, next, trace>>

\* cb->call(node, command), whose result is only logged.
Call(t) ==
    /\ trace' = [trace EXCEPT ![t] = Append(@, elem[t])]
    /\ Goes(t, "call", "each_test")
    /\ UNCHANGED <<mutex, tnode, elem, next, execute_current>>

\* execute_current is NULL where the loop reads through it.
CursorFault(t) ==
    /\ pc \notin Crashes
    /\ tpc[t] \in {"each_test", "each_value", "each_load"}
    /\ execute_current = NULL
    /\ pc' = "crash_cursor"
    /\ UNCHANGED <<i, nodes, current_node, count, concurrent, command>>
    /\ UNCHANGED <<slotVars, threadVars, execute_current>>

(***************************************************************************)
(* mutex_unlock of the slot, by a thread that never locked it: a pthread   *)
(* mutex is unlocked all the same, ReleaseMutex refuses.                   *)
(***************************************************************************)
Release(t) ==
    /\ Goes(t, "release", "exiting")
    /\ mutex' = IF Platform = "windows" THEN mutex
                ELSE [mutex EXCEPT ![tslot[t]] = "free"]
    /\ UNCHANGED <<tnode, elem, next, trace, execute_current>>

Exit(t) ==
    /\ Goes(t, "exiting", "exited")
    /\ UNCHANGED <<mutex, tnode, elem, next, trace, execute_current>>

Thread(t) ==
    \/ Fetch(t)
    \/ EachStart(t) \/ EachGuard(t) \/ EachTest(t) \/ EachValue(t)
    \/ EachLoad(t) \/ EachStore(t) \/ Call(t) \/ CursorFault(t)
    \/ Release(t) \/ Exit(t)

-----------------------------------------------------------------------------

\* The call has returned or the process has died: nothing has to happen.
Terminated == pc \in Stopped /\ UNCHANGED vars

Next ==
    \/ Caller
    \/ \E t \in Threads : Thread(t)
    \/ Terminated

(***************************************************************************)
(* The scheduler of the operating system runs the caller and every thread  *)
(* again and again, and a callback returns.                                *)
(***************************************************************************)
Fairness ==
    /\ WF_vars(Caller)
    /\ \A t \in Threads : WF_vars(Thread(t))

Spec == Init /\ [][Next]_vars

FairSpec == Spec /\ Fairness

-----------------------------------------------------------------------------
(* Properties *)

\* Every variable keeps its type: the caller, slots and threads of
\* distexec.c:86-165 and :43-67.
TypeOK ==
    /\ pc \in {"setup", "visit", "join"} \union Stopped
    /\ i \in 1..(MaxNodes + 1)
    /\ nodes \in {Registered(k) : k \in 0..MaxNodes}
    /\ current_node \in 0..(MaxNodes + 1)
    /\ count \in 0..MaxNodes
    /\ concurrent \in Int
    /\ command \in {"unset", "set", "freed"}
    /\ mutex \in [Slots -> {"free", "locked"}]
    /\ container \in [Slots -> 0..MaxNodes]
    /\ handle \in [Slots -> 0..(MaxNodes + 1)]
    /\ tpc \in [Threads -> {"none", "failed"} \union Busy \union Ended]
    /\ tslot \in [Threads -> Slots]
    /\ tnode \in [Threads -> 0..MaxNodes]
    /\ elem \in [Threads -> 0..NumCallbacks]
    /\ next \in [Threads -> 0..Len(execute)]
    /\ trace \in [Threads -> Seq(0..NumCallbacks)]
    /\ execute_current \in 0..Len(execute)

\* A slot belongs to its thread until the thread unlocks it: its container
\* and its handle are not overwritten while thread_exec may still read the
\* container or has to be joined (distexec.c:131-150).
SlotOwned ==
    \A t \in Threads : tpc[t] \in Busy =>
        /\ mutex[tslot[t]] = "locked"
        /\ container[tslot[t]] = nodes[t]
        /\ handle[tslot[t]] = t

\* No thread can still pass the command to a callback once it was freed,
\* although only the last thread of each slot is joined (distexec.c:157-163).
CommandOutlivesCalls ==
    \A t \in Threads : tpc[t] \in Busy => command = "set"

\* If execute returns 0, each node has had exactly one thread, which has
\* unlocked its slot, or could not be started: no node was passed over or
\* dispatched twice.  That its thread has called a callback is not said, and
\* need not be so (DoneMeansExecuted).
CompleteOnReturn ==
    pc = "returned" =>
        \A n \in 1..llist_count(nodes) :
            Cardinality({t \in Threads : \/ tpc[t] \in Ended /\ tnode[t] = n
                                         \/ tpc[t] = "failed" /\ nodes[t] = n}) = 1

\* With the list the workaround builds, the caller reads the cell without a
\* node only if more than one but not all nodes may run at once: it happens
\* in the middle of a pass, where count is not looked at (distexec.c:130).
NullNodeOnlyMidPass ==
    Discipline = "push" /\ pc = "crash_node" =>
        1 < concurrent /\ concurrent < llist_count(nodes) /\ 1 < i /\ count = 0

\* With one slot the shared cursor is harmless: a thread that has finished
\* has called what an undisturbed loop calls, in that order, and no thread
\* reads through a NULL cursor.
SerialWalkIsComplete ==
    concurrent = 1 =>
        /\ pc # "crash_cursor"
        /\ \A t \in Threads : tpc[t] \in Ended => trace[t] = LL_EACH(execute)

\* Slots whose mutex will never be unlocked: their thread was not started.
Leaked(s) == \E t \in Threads : tpc[t] = "failed" /\ tslot[t] = s

\* When every slot was lost to a failed thread_create and nodes are left,
\* no node is ever dispatched again and the call does not return.
LeakedSlotsHang ==
    [][ (pc = "visit" /\ count > 0 /\ \A s \in 1..concurrent : Leaked(s))
        => pc' = "visit" /\ count' = count ]_vars

\* Unless a thread cannot be started the call comes to an end.
Terminates == [](\A s \in Slots : ~Leaked(s)) => <>(pc \in Stopped)

\* The assertion message of thread_exec: "wtf, node can not be NULL!".
NodeNotNull == pc # "crash_node"

\* "done!": a thread that reports its node done has called every callback
\* for it, once.
DoneMeansExecuted ==
    \A t \in Threads : tpc[t] \in Ended => trace[t] = LL_EACH(execute)

\* "number of concurrent executions": no more nodes than cfg->concurrent
\* are executed at the same time.
ConcurrencyBound ==
    LET executing == {t \in Threads : tpc[t] \in Busy}
    IN  executing # {} => Cardinality(executing) <= concurrent

-----------------------------------------------------------------------------
(* Refinement of BoundedExecution *)

\* The node a thread works on: it is in the container until it was read.
NodeOf(t) == IF tpc[t] = "fetch" THEN container[tslot[t]] ELSE tnode[t]

\* The state of BoundedExecution.
Phase ==
    CASE pc = "setup" -> "idle"
      [] pc \in {"visit", "join"} -> "active"
      [] pc \in {"einval", "enomem", "returned"} -> "returned"
      [] pc \in Crashes -> "aborted"
Todo == {nodes[t] : t \in {u \in 1..llist_count(nodes) : tpc[u] = "none"}}
Running == {NodeOf(t) : t \in {u \in Threads : tpc[u] \in Busy}}
Done == {tnode[t] : t \in {u \in Threads : tpc[u] \in Ended}}
Lost == {nodes[t] : t \in {u \in Threads : tpc[u] = "failed"}}

Abstract == INSTANCE BoundedExecution WITH
    phase <- Phase, limit <- concurrent, todo <- Todo,
    running <- Running, done <- Done, lost <- Lost

\* The slots, mutexes, containers and handles implement the bounded
\* execution of each node once.
Implements == Abstract!Spec
===============================================================================
