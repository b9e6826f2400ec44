--------------------------- MODULE LinkedListsProofs ---------------------------
(***************************************************************************)
(* What the LIBDISTEXEC_LL macros do to lists of every length.             *)
(***************************************************************************)
EXTENDS LinkedLists, Induction

-----------------------------------------------------------------------------
(* LL_APPEND_ALL *)

Fills(f, l, values) ==
    f = [k \in 0..Len(values) |->
            IF k = 0 THEN l ELSE LL_APPEND(f[k - 1], values[k])]

LEMMA FillsEqn ==
    ASSUME NEW l, NEW values
    PROVE  LL_APPEND_ALL(l, values) = (CHOOSE f : Fills(f, l, values))[Len(values)]
  BY Zenon DEF LL_APPEND_ALL, Fills

LEMMA FillsExists ==
    ASSUME NEW V, NEW l \in Seq(V), NEW values \in Seq(V)
    PROVE  \E f : Fills(f, l, values)
<1>. DEFINE n == Len(values)
            step == [k \in 1..n |-> [s \in Seq(V) |-> LL_APPEND(s, values[k])]]
<1>1. n \in Nat
  OBVIOUS
<1>2. \A s \in Seq(V), v \in V : LL_APPEND(s, v) \in Seq(V)
  BY DEF LL_APPEND, llist_append, llist_push
<1>3. step \in [1..n -> [Seq(V) -> Seq(V)]]
  <2>1. ASSUME NEW k \in 1..n
        PROVE  [s \in Seq(V) |-> LL_APPEND(s, values[k])] \in [Seq(V) -> Seq(V)]
    <3>1. values[k] \in V
      OBVIOUS
    <3>. QED
      BY <1>2, <3>1
  <2>. QED
    BY <2>1
<1>4. PICK f \in [0..n -> Seq(V)] :
        f[0] = l /\ \A k \in 1..n : f[k] = step[k][f[k - 1]]
  <2>1. PICK X : X = Seq(V)
    OBVIOUS
  <2>. HIDE DEF n, step
  <2>2. l \in X /\ n \in Nat /\ step \in [1..n -> [X -> X]]
    BY <1>1, <1>3, <2>1
  <2>3. \E f : Recurses(f, X, l, n, step)
    BY <2>2, RecursiveFunction
  <2>. QED
    BY <2>1, <2>3 DEF Recurses
<1>5. ASSUME NEW k \in 0..n
      PROVE  f[k] = IF k = 0 THEN l ELSE LL_APPEND(f[k - 1], values[k])
  <2>1. CASE k = 0
    BY <1>4, <2>1
  <2>2. CASE k # 0
    <3>1. k \in 1..n /\ k - 1 \in 0..n
      BY <2>2
    <3>2. f[k] = step[k][f[k - 1]] /\ f[k - 1] \in Seq(V)
      BY <1>4, <3>1
    <3>. QED
      BY <2>2, <3>1, <3>2
  <2>. QED
    BY <2>1, <2>2
<1>6. f = [k \in 0..n |-> IF k = 0 THEN l ELSE LL_APPEND(f[k - 1], values[k])]
  BY <1>4, <1>5
<1>. QED
  BY <1>6 DEF Fills

\* A chosen function that fills, and what it does with each value.
LEMMA Filling ==
    ASSUME NEW V, NEW l \in Seq(V), NEW values \in Seq(V)
    PROVE  \E f : /\ LL_APPEND_ALL(l, values) = f[Len(values)]
                  /\ f[0] = l
                  /\ \A k \in 1..Len(values) : f[k] = LL_APPEND(f[k - 1], values[k])
<1>. DEFINE f == CHOOSE g : Fills(g, l, values)
<1>1. Fills(f, l, values)
  BY FillsExists, Zenon
<1>2. LL_APPEND_ALL(l, values) = f[Len(values)]
  BY FillsEqn
<1>. HIDE DEF f
<1>3. \A k \in 0..Len(values) :
        f[k] = IF k = 0 THEN l ELSE LL_APPEND(f[k - 1], values[k])
  BY <1>1, Zenon DEF Fills
<1>4. Len(values) \in Nat
  OBVIOUS
<1>5. f[0] = l
  BY <1>3, <1>4
<1>6. \A k \in 1..Len(values) : f[k] = LL_APPEND(f[k - 1], values[k])
  BY <1>3, <1>4
<1>. QED
  BY <1>2, <1>5, <1>6

LEMMA AppendAllType ==
    ASSUME NEW V, NEW l \in Seq(V), NEW values \in Seq(V)
    PROVE  /\ LL_APPEND_ALL(l, values) \in Seq(V)
           /\ Len(LL_APPEND_ALL(l, values)) = Len(l) + Len(values)
<1>1. PICK f : /\ LL_APPEND_ALL(l, values) = f[Len(values)]
               /\ f[0] = l
               /\ \A k \in 1..Len(values) : f[k] = LL_APPEND(f[k - 1], values[k])
  BY Filling
<1>. DEFINE S == {k \in Nat : k <= Len(values) => f[k] \in Seq(V) /\ Len(f[k]) = Len(l) + k}
<1>2. 0 \in S
  BY <1>1
<1>3. ASSUME NEW k \in Nat, k \in S
      PROVE  k + 1 \in S
  <2>. SUFFICES ASSUME k + 1 <= Len(values)
                PROVE  f[k + 1] \in Seq(V) /\ Len(f[k + 1]) = Len(l) + (k + 1)
    OBVIOUS
  <2>1. /\ f[k + 1] = LL_APPEND(f[k], values[k + 1])
        /\ f[k] \in Seq(V) /\ Len(f[k]) = Len(l) + k /\ values[k + 1] \in V
    BY <1>1, <1>3
  <2>. QED
    BY <2>1 DEF LL_APPEND, llist_append, llist_push
<1>4. \A k \in Nat : k \in S
  <2>. HIDE DEF S
  <2>. QED
    BY <1>2, <1>3, InductiveSet
<1>5. Len(values) \in Nat
  OBVIOUS
<1>6. Len(values) \in S
  BY <1>4, <1>5
<1>. QED
  BY <1>1, <1>5, <1>6

-----------------------------------------------------------------------------
(* LL_EACH *)

Passes(f, l) ==
    f = [c \in 0..Len(l) |->
            IF c = 0 THEN << >>
            ELSE IF l[c] = NULL THEN f[c - 1] ELSE Append(f[c - 1], l[c])]

LEMMA PassedEqn ==
    ASSUME NEW l
    PROVE  Passed(l) = CHOOSE f : Passes(f, l)
  BY Zenon DEF Passed, Passes

LEMMA PassesExists ==
    ASSUME NEW V, NEW l \in Seq(V)
    PROVE  \E f : Passes(f, l) /\ f \in [0..Len(l) -> Seq(V)]
<1>. DEFINE n == Len(l)
            step == [c \in 1..n |-> [s \in Seq(V) |->
                        IF l[c] = NULL THEN s ELSE Append(s, l[c])]]
<1>1. n \in Nat /\ << >> \in Seq(V)
  OBVIOUS
<1>2. step \in [1..n -> [Seq(V) -> Seq(V)]]
  <2>1. ASSUME NEW c \in 1..n
        PROVE  [s \in Seq(V) |-> IF l[c] = NULL THEN s ELSE Append(s, l[c])]
                  \in [Seq(V) -> Seq(V)]
    <3>1. l[c] \in V
      OBVIOUS
    <3>. QED
      BY <3>1
  <2>. QED
    BY <2>1
<1>3. \E f : Recurses(f, Seq(V), << >>, n, step)
  <2>1. PICK X : X = Seq(V)
    OBVIOUS
  <2>. HIDE DEF n, step
  <2>2. << >> \in X /\ n \in Nat /\ step \in [1..n -> [X -> X]]
    BY <1>1, <1>2, <2>1
  <2>3. \E f : Recurses(f, X, << >>, n, step)
    BY <2>2, RecursiveFunction
  <2>. QED
    BY <2>1, <2>3
<1>4. PICK f : Recurses(f, Seq(V), << >>, n, step)
  BY <1>3
<1>5. f \in [0..n -> Seq(V)] /\ f[0] = << >> /\ \A c \in 1..n : f[c] = step[c][f[c - 1]]
  BY <1>4 DEF Recurses
<1>6. ASSUME NEW c \in 0..n
      PROVE  f[c] = IF c = 0 THEN << >>
                    ELSE IF l[c] = NULL THEN f[c - 1] ELSE Append(f[c - 1], l[c])
  <2>1. CASE c = 0
    BY <1>5, <2>1
  <2>2. CASE c # 0
    <3>1. c \in 1..n /\ c - 1 \in 0..n
      BY <2>2
    <3>2. f[c] = step[c][f[c - 1]] /\ f[c - 1] \in Seq(V)
      BY <1>5, <3>1
    <3>. QED
      BY <2>2, <3>1, <3>2
  <2>. QED
    BY <2>1, <2>2
<1>7. f = [c \in 0..n |-> IF c = 0 THEN << >>
                          ELSE IF l[c] = NULL THEN f[c - 1] ELSE Append(f[c - 1], l[c])]
  BY <1>5, <1>6
<1>. QED
  BY <1>5, <1>7 DEF Passes

\* A loop passes each cell's value on its way, unless it is NULL.
LEMMA PassedCells ==
    ASSUME NEW V, NEW l \in Seq(V)
    PROVE  /\ Passed(l)[0] = << >>
           /\ \A c \in 1..Len(l) :
                Passed(l)[c] = IF l[c] = NULL THEN Passed(l)[c - 1]
                               ELSE Append(Passed(l)[c - 1], l[c])
<1>. DEFINE f == CHOOSE g : Passes(g, l)
<1>1. Passes(f, l)
  BY PassesExists, Zenon
<1>2. Passed(l) = f
  BY PassedEqn
<1>. HIDE DEF f
<1>3. \A c \in 0..Len(l) :
        f[c] = IF c = 0 THEN << >>
               ELSE IF l[c] = NULL THEN f[c - 1] ELSE Append(f[c - 1], l[c])
  BY <1>1, Zenon DEF Passes
<1>4. Len(l) \in Nat
  OBVIOUS
<1>5. f[0] = << >>
  BY <1>3, <1>4
<1>6. \A c \in 1..Len(l) : f[c] = IF l[c] = NULL THEN f[c - 1] ELSE Append(f[c - 1], l[c])
  BY <1>3, <1>4
<1>. QED
  BY <1>2, <1>5, <1>6

LEMMA PassedType ==
    ASSUME NEW V, NEW l \in Seq(V), NEW c \in 0..Len(l)
    PROVE  Passed(l)[c] \in Seq(V \ {NULL})
<1>. DEFINE S == {k \in Nat : k <= Len(l) => Passed(l)[k] \in Seq(V \ {NULL})}
<1>1. 0 \in S
  <2>1. Passed(l)[0] = << >> /\ << >> \in Seq(V \ {NULL})
    BY PassedCells
  <2>. QED
    BY <2>1
<1>2. ASSUME NEW k \in Nat, k \in S
      PROVE  k + 1 \in S
  <2>. SUFFICES ASSUME k + 1 <= Len(l) PROVE Passed(l)[k + 1] \in Seq(V \ {NULL})
    OBVIOUS
  <2>1. k + 1 \in 1..Len(l) /\ (k + 1) - 1 = k /\ l[k + 1] \in V
    OBVIOUS
  <2>2. Passed(l)[k + 1] = IF l[k + 1] = NULL THEN Passed(l)[k]
                           ELSE Append(Passed(l)[k], l[k + 1])
    BY <2>1, PassedCells
  <2>3. Passed(l)[k] \in Seq(V \ {NULL})
    BY <1>2
  <2>. QED
    BY <2>1, <2>2, <2>3, AppendProperties
<1>3. \A k \in Nat : k \in S
  <2>. HIDE DEF S
  <2>. QED
    BY <1>1, <1>2, InductiveSet
<1>. QED
  BY <1>3

\* The values of the first c cells.
Before(l, c) == {l[k] : k \in 1..c}

\* It passes all of them, ...
LEMMA PassedSet ==
    ASSUME NEW V, NEW l \in Seq(V), NEW c \in 0..Len(l)
    PROVE  ToSet(Passed(l)[c]) = Before(l, c) \ {NULL}
<1>. DEFINE S == {m \in Nat : m <= Len(l) =>
                    ToSet(Passed(l)[m]) = Before(l, m) \ {NULL}}
<1>1. 0 \in S
  <2>1. Passed(l)[0] = << >>
    BY PassedCells
  <2>2. ToSet(<< >>) = {} /\ Before(l, 0) = {}
    BY DEF ToSet, Before
  <2>. QED
    BY <2>1, <2>2
<1>2. ASSUME NEW m \in Nat, m \in S
      PROVE  m + 1 \in S
  <2>. SUFFICES ASSUME m + 1 <= Len(l)
                PROVE  ToSet(Passed(l)[m + 1]) = Before(l, m + 1) \ {NULL}
    OBVIOUS
  <2>1. m + 1 \in 1..Len(l) /\ (m + 1) - 1 = m /\ l[m + 1] \in V /\ m \in 0..Len(l)
    OBVIOUS
  <2>2. Passed(l)[m + 1] = IF l[m + 1] = NULL THEN Passed(l)[m]
                           ELSE Append(Passed(l)[m], l[m + 1])
    BY <2>1, PassedCells
  <2>3. Passed(l)[m] \in Seq(V \ {NULL})
    BY <2>1, PassedType
  <2>4. ToSet(Passed(l)[m]) = Before(l, m) \ {NULL}
    BY <1>2
  <2>5. Before(l, m + 1) = Before(l, m) \union {l[m + 1]}
    <3>1. 1..(m + 1) = 1..m \union {m + 1}
      OBVIOUS
    <3>. QED
      BY <3>1 DEF Before
  <2>6. CASE l[m + 1] = NULL
    BY <2>2, <2>4, <2>5, <2>6
  <2>7. CASE l[m + 1] # NULL
    <3>1. ToSet(Append(Passed(l)[m], l[m + 1])) = ToSet(Passed(l)[m]) \union {l[m + 1]}
      BY <2>1, <2>3, <2>7, ToSetAppend
    <3>. QED
      BY <2>2, <2>4, <2>5, <2>7, <3>1
  <2>. QED
    BY <2>6, <2>7
<1>3. \A m \in Nat : m \in S
  <2>. HIDE DEF S
  <2>. QED
    BY <1>1, <1>2, InductiveSet
<1>. QED
  BY <1>3

\* ... in their order.
LEMMA PassedIncreases ==
    ASSUME NEW l \in Seq(Nat), Increasing(l), NEW c \in 0..Len(l)
    PROVE  Increasing(Passed(l)[c])
<1>. DEFINE S == {m \in Nat : m <= Len(l) => Increasing(Passed(l)[m])}
<1>1. 0 \in S
  <2>1. Passed(l)[0] = << >>
    BY PassedCells
  <2>2. Increasing(<< >>)
    BY DEF Increasing
  <2>. QED
    BY <2>1, <2>2
<1>2. ASSUME NEW m \in Nat, m \in S
      PROVE  m + 1 \in S
  <2>. SUFFICES ASSUME m + 1 <= Len(l) PROVE Increasing(Passed(l)[m + 1])
    OBVIOUS
  <2>. DEFINE p == Passed(l)[m]
  <2>1. /\ m + 1 \in 1..Len(l) /\ (m + 1) - 1 = m /\ l[m + 1] \in Nat /\ m \in 0..Len(l)
    OBVIOUS
  <2>2. Passed(l)[m + 1] = IF l[m + 1] = NULL THEN p ELSE Append(p, l[m + 1])
    BY <2>1, PassedCells
  <2>3. p \in Seq(Nat \ {NULL}) /\ Increasing(p)
    <3>1. Passed(l)[m] \in Seq(Nat \ {NULL})
      BY <2>1, PassedType
    <3>. QED
      BY <1>2, <3>1
  <2>4. \A k \in 1..Len(p) : p[k] < l[m + 1]
    <3>1. ToSet(p) = Before(l, m) \ {NULL}
      BY <2>1, PassedSet
    <3>2. \A k \in 1..m : l[k] < l[m + 1]
      BY <2>1 DEF Increasing
    <3>3. \A k \in 1..Len(p) : p[k] \in ToSet(p)
      BY <2>3 DEF ToSet
    <3>. HIDE DEF p
    <3>. QED
      BY <3>1, <3>2, <3>3 DEF Before
  <2>. HIDE DEF p
  <2>5. Increasing(Append(p, l[m + 1]))
    <3>1. p \in Seq(Nat)
      BY <2>3
    <3>. QED
      BY <2>1, <2>3, <2>4, <3>1, IncreasingAppend
  <2>. QED
    BY <2>2, <2>3, <2>5
<1>3. \A m \in Nat : m \in S
  <2>. HIDE DEF S
  <2>. QED
    BY <1>1, <1>2, InductiveSet
<1>. QED
  BY <1>3

\* A loop over a whole list leaves out the last cell and the NULL values.
LEMMA EachPasses ==
    ASSUME NEW V, NEW l \in Seq(V)
    PROVE  /\ LL_EACH(l) \in Seq(V \ {NULL})
           /\ ToSet(LL_EACH(l)) = Before(l, Len(l) - 1) \ {NULL}
<1>1. Len(l) \in Nat
  OBVIOUS
<1>2. CASE l = << >>
  <2>1. LL_EACH(l) = << >> /\ << >> \in Seq(V \ {NULL}) /\ Before(l, Len(l) - 1) = {}
    BY <1>2 DEF LL_EACH, Before
  <2>2. ToSet(<< >>) = {}
    BY DEF ToSet
  <2>. QED
    BY <2>1, <2>2
<1>3. CASE l # << >>
  <2>1. LL_EACH(l) = Passed(l)[Len(l) - 1] /\ Len(l) - 1 \in 0..Len(l)
    <3>1. Len(l) # 0
      BY <1>3, EmptySeq
    <3>. QED
      BY <1>1, <1>3, <3>1 DEF LL_EACH
  <2>. QED
    BY <2>1, PassedType, PassedSet
<1>. QED
  BY <1>2, <1>3

LEMMA EachIncreases ==
    ASSUME NEW l \in Seq(Nat), Increasing(l)
    PROVE  Increasing(LL_EACH(l))
<1>1. CASE l = << >>
  BY <1>1 DEF LL_EACH
<1>2. CASE l # << >>
  <2>1. LL_EACH(l) = Passed(l)[Len(l) - 1] /\ Len(l) - 1 \in 0..Len(l)
    <3>1. Len(l) # 0 /\ Len(l) \in Nat
      BY <1>2, EmptySeq
    <3>. QED
      BY <1>2, <3>1 DEF LL_EACH
  <2>. QED
    BY <2>1, PassedIncreases
<1>. QED
  BY <1>1, <1>2
===============================================================================
