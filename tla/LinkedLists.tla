----------------------------- MODULE LinkedLists -----------------------------
(***************************************************************************)
(* The LIBDISTEXEC_LL lists of src/include/distexec/util.h, seen by the    *)
(* code that only reads them.  A list is the sequence of the values of its *)
(* cells from the head to the end; a position in it is a cell pointer, and *)
(* NULL (0) both the null pointer and the null value.                      *)
(*                                                                         *)
(* A list starts as one cell whose value is NULL (LL_INIT), so it always   *)
(* holds one NULL besides the registered values.  Where that cell ends up  *)
(* depends on the definition of LIBDISTEXEC_LL_APPEND, of which util.h has *)
(* two: the one that is compiled, preceded by the comment "segfaults",     *)
(* walks to the end and appends there ("append"); the one kept in a        *)
(* comment, called a "dirty workaround", pushes at the front ("push").     *)
(***************************************************************************)
EXTENDS Naturals, Sequences

CONSTANT Discipline

ASSUME DisciplineAssumption == Discipline \in {"append", "push"}

NULL == 0

\* A fresh list: one cell with no value.
llist == <<NULL>>

llist_push(l, val) == <<val>> \o l

llist_append(l, val) == Append(l, val)

\* The macro every registry is filled with.
LL_APPEND(l, val) ==
    IF Discipline = "push" THEN llist_push(l, val) ELSE llist_append(l, val)

\* The number of next pointers that are followed, one less than the cells.
llist_count(l) == Len(l) - 1

\* The list after LL_APPEND of 1, 2, ..., k to a fresh list.
Registered(k) ==
    [c \in 1..(k + 1) |-> IF Discipline = "push" THEN k + 1 - c ELSE c - 1]

\* l->next
NextCell(l, cell) == IF cell < Len(l) THEN cell + 1 ELSE NULL

\* The list after LL_APPEND of each of the values in turn.
LL_APPEND_ALL(l, values) ==
    LET filled[k \in 0..Len(values)] ==
            IF k = 0 THEN l ELSE LL_APPEND(filled[k - 1], values[k])
    IN  filled[Len(values)]

\* What a LIBDISTEXEC_LL_EACH loop has passed to its body when its cursor has
\* left c cells, for each c: NULL values are skipped.
Passed(l) ==
    LET passed[c \in 0..Len(l)] ==
            IF c = 0 THEN << >>
            ELSE IF l[c] = NULL THEN passed[c - 1]
            ELSE Append(passed[c - 1], l[c])
    IN  passed

\* One undisturbed loop: it stops at the last cell without entering it.
LL_EACH(l) == IF l = << >> THEN << >> ELSE Passed(l)[Len(l) - 1]
===============================================================================
