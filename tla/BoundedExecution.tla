--------------------------- MODULE BoundedExecution ---------------------------
(***************************************************************************)
(* What libdistexec_execute promises its caller, without slots, mutexes,   *)
(* containers or thread handles: every node is taken once, at most `limit` *)
(* nodes run at a time, and the call returns only when every node it took  *)
(* has finished.  Two things that the code does are part of the promise: a *)
(* node whose thread cannot be started is silently lost and keeps its      *)
(* place among the running ones for ever, and the process may die.         *)
(***************************************************************************)
EXTENDS Integers, FiniteSets

VARIABLES
    phase,    \* "idle", "active", "returned" or "aborted"
    limit,    \* how many nodes may be running or lost at a time
    todo,     \* nodes not taken yet
    running,  \* nodes whose command is being executed
    done,     \* nodes whose execution has ended
    lost      \* nodes whose thread could not be started

vars == <<phase, limit, todo, running, done, lost>>

Init ==
    /\ phase = "idle"
    /\ limit \in Int
    /\ IsFiniteSet(todo)
    /\ running = {}
    /\ done = {}
    /\ lost = {}

Begin ==
    /\ phase = "idle"
    /\ todo # {}
    /\ limit' \in 1..Cardinality(todo)
    /\ phase' = "active"
    /\ UNCHANGED <<todo, running, done, lost>>

\* The call ends before any node is taken (no nodes, no memory).
Refuse ==
    /\ phase = "idle"
    /\ phase' = "returned"
    /\ limit' \in Int
    /\ UNCHANGED <<todo, running, done, lost>>

HasRoom == Cardinality(running) + Cardinality(lost) < limit

Take(n) ==
    /\ phase = "active"
    /\ n \in todo
    /\ HasRoom
    /\ todo' = todo \ {n}
    /\ \/ running' = running \union {n} /\ UNCHANGED lost
       \/ lost' = lost \union {n} /\ UNCHANGED running
    /\ UNCHANGED <<phase, limit, done>>

Complete(n) ==
    /\ phase = "active"
    /\ n \in running
    /\ running' = running \ {n}
    /\ done' = done \union {n}
    /\ UNCHANGED <<phase, limit, todo, lost>>

Return ==
    /\ phase = "active"
    /\ todo = {}
    /\ running = {}
    /\ phase' = "returned"
    /\ UNCHANGED <<limit, todo, running, done, lost>>

Abort ==
    /\ phase = "active"
    /\ phase' = "aborted"
    /\ UNCHANGED <<limit, todo, running, done, lost>>

Next ==
    \/ Begin
    \/ Refuse
    \/ \E n \in todo : Take(n)
    \/ \E n \in running : Complete(n)
    \/ Return
    \/ Abort

Spec == Init /\ [][Next]_vars
===============================================================================
