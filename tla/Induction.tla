------------------------------- MODULE Induction -------------------------------
(***************************************************************************)
(* Induction over the natural numbers with the property as a set, the form *)
(* that every prover can instantiate, and what it gives for functions that *)
(* are defined by recursion.                                               *)
(***************************************************************************)
EXTENDS Naturals, Sequences, SequencesExt, SequenceTheorems, FiniteSetTheorems,
        WellFoundedInduction, TLAPS

\* A non-empty set of numbers up to n has a largest one.
LEMMA Largest ==
    ASSUME NEW n \in Nat, NEW T \in SUBSET (0..n), T # {}
    PROVE  \E m \in T : \A k \in T : k <= m
<1>. DEFINE above == {(m + 1)..n : m \in T}
<1>1. above \subseteq FiniteSubsetsOf(Nat)
  <2>1. ASSUME NEW m \in T
        PROVE  (m + 1)..n \in SUBSET Nat /\ IsFiniteSet((m + 1)..n)
    <3>1. m + 1 \in Int /\ n \in Int /\ m \in Nat
      OBVIOUS
    <3>. QED
      BY <3>1, FS_Interval
  <2>. QED
    BY <2>1 DEF FiniteSubsetsOf
<1>2. above # {}
  OBVIOUS
<1>3. PICK U \in above : \A V \in above : ~(<<V, U>> \in StrictSubsetOrdering(Nat))
  BY <1>1, <1>2, WFMin, FS_StrictSubsetOrderingWellFounded
<1>4. PICK m \in T : U = (m + 1)..n
  OBVIOUS
<1>5. ASSUME NEW k \in T
      PROVE  k <= m
  <2>1. k \in 0..n /\ m \in 0..n
    OBVIOUS
  <2>2. SUFFICES ASSUME m < k PROVE FALSE
    BY <2>1
  <2>3. (k + 1)..n \subseteq (m + 1)..n /\ (k + 1)..n # (m + 1)..n
    <3>1. k \in (m + 1)..n /\ k \notin (k + 1)..n
      BY <2>1, <2>2
    <3>. QED
      BY <2>1, <2>2, <3>1
  <2>4. (k + 1)..n \in above /\ (k + 1)..n \in SUBSET Nat /\ U \in SUBSET Nat
    BY <2>1, <1>4
  <2>5. <<(k + 1)..n, U>> \in StrictSubsetOrdering(Nat)
    BY <1>4, <2>3, <2>4 DEF StrictSubsetOrdering
  <2>. QED
    BY <1>3, <2>4, <2>5
<1>. QED
  BY <1>5

\* A non-empty set of numbers from 1 to m has a smallest one.
LEMMA Smallest ==
    ASSUME NEW m \in Nat, NEW T \in SUBSET (1..m), T # {}
    PROVE  \E a \in T : \A b \in T : a <= b
<1>. DEFINE U == {m - a : a \in T}
<1>1. U \in SUBSET (0..m) /\ U # {}
  <2>1. \A a \in T : m - a \in 0..m
    OBVIOUS
  <2>2. PICK a \in T : TRUE
    OBVIOUS
  <2>3. m - a \in U
    OBVIOUS
  <2>. QED
    BY <2>1, <2>3
<1>2. PICK c \in U : \A d \in U : d <= c
  <2>. HIDE DEF U
  <2>. QED
    BY <1>1, Largest
<1>3. PICK a \in T : c = m - a
  BY <1>2
<1>4. ASSUME NEW b \in T PROVE a <= b
  <2>1. m - b <= m - a
    BY <1>2, <1>3
  <2>. QED
    BY <2>1
<1>. QED
  BY <1>4

\* A set that holds 0 and with each number the next one holds all of them.
LEMMA InductiveSet ==
    ASSUME NEW S, 0 \in S, \A n \in Nat : n \in S => n + 1 \in S
    PROVE  \A n \in Nat : n \in S
<1>. SUFFICES ASSUME NEW n \in Nat PROVE n \in S
  OBVIOUS
<1>. DEFINE T == {k \in 0..n : k \in S}
<1>1. T # {} /\ T \in SUBSET (0..n)
  OBVIOUS
<1>2. PICK m \in T : \A k \in T : k <= m
  BY <1>1, Largest
<1>3. m \in 0..n /\ m + 1 \in S
  OBVIOUS
<1>4. ~(m < n)
  <2>. SUFFICES ASSUME m < n PROVE FALSE
    OBVIOUS
  <2>1. m + 1 \in T
    BY <1>3
  <2>. QED
    BY <1>2, <1>3, <2>1
<1>. QED
  BY <1>2, <1>3, <1>4

Recurses(f, X, first, n, step) ==
    /\ f \in [0..n -> X]
    /\ f[0] = first
    /\ \A c \in 1..n : f[c] = step[c][f[c - 1]]

\* There is a function for every recursion from one number to the next.
LEMMA RecursiveFunction ==
    ASSUME NEW X, NEW first \in X, NEW n \in Nat, NEW step \in [1..n -> [X -> X]]
    PROVE  \E f : Recurses(f, X, first, n, step)
<1>. DEFINE S == {k \in Nat : k <= n => \E f : Recurses(f, X, first, k, step)}
<1>1. 0 \in S
  <2>. DEFINE f == [c \in 0..0 |-> first]
  <2>1. f \in [0..0 -> X] /\ f[0] = first
    OBVIOUS
  <2>2. \A c \in 1..0 : f[c] = step[c][f[c - 1]]
    OBVIOUS
  <2>3. Recurses(f, X, first, 0, step)
    <3>. HIDE DEF f
    <3>. QED
      BY <2>1, <2>2 DEF Recurses
  <2>. QED
    BY <2>3
<1>2. ASSUME NEW k \in Nat, k \in S
      PROVE  k + 1 \in S
  <2>. SUFFICES ASSUME k + 1 <= n PROVE \E g : Recurses(g, X, first, k + 1, step)
    OBVIOUS
  <2>1. PICK f : Recurses(f, X, first, k, step)
    BY <1>2
  <2>. DEFINE g == [c \in 0..(k + 1) |-> IF c = k + 1 THEN step[c][f[k]] ELSE f[c]]
  <2>2. step[k + 1] \in [X -> X] /\ f[k] \in X
    BY <2>1 DEF Recurses
  <2>3. g \in [0..(k + 1) -> X]
    BY <2>1, <2>2 DEF Recurses
  <2>4. g[0] = first
    BY <2>1 DEF Recurses
  <2>5. ASSUME NEW c \in 1..(k + 1)
        PROVE  g[c] = step[c][g[c - 1]]
    <3>1. CASE c = k + 1
      BY <3>1
    <3>2. CASE c # k + 1
      <4>1. c \in 1..k /\ c - 1 \in 0..k
        BY <3>2
      <4>. QED
        BY <2>1, <3>2, <4>1 DEF Recurses
    <3>. QED
      BY <3>1, <3>2
  <2>6. Recurses(g, X, first, k + 1, step)
    <3>. HIDE DEF g
    <3>. QED
      BY <2>3, <2>4, <2>5 DEF Recurses
  <2>. QED
    BY <2>6
<1>3. \A k \in Nat : k \in S
  <2>. HIDE DEF S
  <2>. QED
    BY <1>1, <1>2, InductiveSet
<1>. QED
  BY <1>3

-----------------------------------------------------------------------------
(* FlattenSeq *)

\* The function by which FlattenSeq is defined, as an equation.
Flattens(f, seqs) ==
    f = [i \in 1..Len(seqs) |-> IF i = 1 THEN seqs[i] ELSE f[i - 1] \o seqs[i]]

LEMMA FlattenEqn ==
    ASSUME NEW seqs, Len(seqs) # 0
    PROVE  FlattenSeq(seqs) = (CHOOSE f : Flattens(f, seqs))[Len(seqs)]
  BY Zenon DEF FlattenSeq, Flattens

FlatAt(f, s, i) == IF i = 1 THEN s[i] ELSE f[i - 1] \o s[i]

LEMMA FlattensAt ==
    ASSUME NEW f, NEW s, NEW i \in 1..Len(s), Flattens(f, s)
    PROVE  f[i] = FlatAt(f, s, i)
  BY Zenon DEF Flattens, FlatAt

\* There is one for a sequence of any length: the last place is added to the
\* function for the others.
LEMMA FlattensExists ==
    ASSUME NEW A, NEW seqs \in Seq(Seq(A))
    PROVE  \E f : Flattens(f, seqs)
<1>. DEFINE S == {n \in Nat : \A s \in [1..n -> Seq(A)] : \E f : Flattens(f, s)}
<1>1. 0 \in S
  <2>1. ASSUME NEW s \in [1..0 -> Seq(A)]
        PROVE  \E f : Flattens(f, s)
    <3>. DEFINE f == [i \in 1..Len(s) |-> IF i = 1 THEN s[i] ELSE s[i]]
    <3>1. Len(s) = 0
      OBVIOUS
    <3>2. 1..Len(s) = {}
      BY <3>1
    <3>3. f = [i \in 1..Len(s) |-> IF i = 1 THEN s[i] ELSE f[i - 1] \o s[i]]
      BY <3>2
    <3>. HIDE DEF f
    <3>. QED
      BY <3>3, Zenon DEF Flattens
  <2>. QED
    BY <2>1
<1>2. ASSUME NEW n \in Nat, n \in S
      PROVE  n + 1 \in S
  <2>1. ASSUME NEW s \in [1..(n + 1) -> Seq(A)]
        PROVE  \E f : Flattens(f, s)
    <3>. DEFINE r == [i \in 1..n |-> s[i]]
    <3>1. r \in [1..n -> Seq(A)]
      OBVIOUS
    <3>2. PICK f : Flattens(f, r)
      BY <1>2, <3>1
    <3>. DEFINE g == [i \in 1..(n + 1) |->
                        IF i = n + 1 THEN IF n = 0 THEN s[i] ELSE f[n] \o s[i]
                        ELSE f[i]]
    <3>3. Len(r) = n /\ Len(s) = n + 1
      BY <3>1
    <3>4. f = [i \in 1..n |-> IF i = 1 THEN r[i] ELSE f[i - 1] \o r[i]]
      BY <3>2, <3>3 DEF Flattens
    <3>5. ASSUME NEW i \in 1..(n + 1)
          PROVE  g[i] = IF i = 1 THEN s[i] ELSE g[i - 1] \o s[i]
      <4>1. CASE i = n + 1 /\ n = 0
        BY <4>1
      <4>2. CASE i = n + 1 /\ n # 0
        <5>1. /\ i # 1 /\ i - 1 = n /\ n \in 1..(n + 1) /\ n # n + 1
              /\ i \in 1..(n + 1)
          BY <4>2
        <5>3. g[i] = f[n] \o s[i]
          BY <4>2, Zenon
        <5>2. g[n] = f[n]
          BY <5>1
        <5>. QED
          BY <5>1, <5>2, <5>3
      <4>3. CASE i # n + 1
        <5>1. i \in 1..n /\ g[i] = f[i] /\ r[i] = s[i]
          BY <4>3
        <5>2. f[i] = IF i = 1 THEN r[i] ELSE f[i - 1] \o r[i]
          BY <3>4, <5>1
        <5>3. i # 1 => i - 1 \in 1..(n + 1) /\ i - 1 # n + 1
          BY <5>1
        <5>4. i # 1 => g[i - 1] = f[i - 1]
          BY <5>3
        <5>. QED
          BY <5>1, <5>2, <5>4
      <4>. QED
        BY <4>1, <4>2, <4>3
    <3>6. g = [i \in 1..(n + 1) |-> IF i = 1 THEN s[i] ELSE g[i - 1] \o s[i]]
      BY <3>5
    <3>7. Flattens(g, s)
      BY <3>3, <3>6 DEF Flattens
    <3>. QED
      BY <3>7
  <2>. QED
    BY <2>1
<1>3. Len(seqs) \in Nat /\ seqs \in [1..Len(seqs) -> Seq(A)]
  OBVIOUS
<1>4. Len(seqs) \in S
  BY <1>1, <1>2, <1>3, InductiveSet
<1>. QED
  BY <1>3, <1>4

Agree(f, g, n) == \A i \in 1..n : f[i] = g[i]

\* The function of a sequence and that of a beginning of it agree.
LEMMA FlattensAgree ==
    ASSUME NEW f, NEW g, NEW s, NEW r,
           Flattens(f, r), Flattens(g, s),
           Len(r) \in Nat, Len(s) \in Nat, Len(r) <= Len(s),
           Agree(r, s, Len(r))
    PROVE  Agree(f, g, Len(r))
<1>. DEFINE S == {k \in Nat : k \in 1..Len(r) => f[k] = g[k]}
<1>1. 0 \in S
  OBVIOUS
<1>2. ASSUME NEW k \in Nat, k \in S
      PROVE  k + 1 \in S
  <2>. SUFFICES ASSUME k + 1 \in 1..Len(r) PROVE f[k + 1] = g[k + 1]
    OBVIOUS
  <2>1. /\ k + 1 \in 1..Len(s)
        /\ (k + 1) - 1 = k /\ r[k + 1] = s[k + 1] /\ (k + 1 # 1 => k \in 1..Len(r))
    BY DEF Agree
  <2>2. f[k + 1] = FlatAt(f, r, k + 1)
    BY FlattensAt, Zenon
  <2>3. g[k + 1] = FlatAt(g, s, k + 1)
    BY <2>1, FlattensAt, Zenon
  <2>4. k + 1 # 1 => f[k] = g[k]
    BY <1>2, <2>1
  <2>. QED
    BY <2>1, <2>2, <2>3, <2>4 DEF FlatAt
<1>3. \A k \in Nat : k \in S
  <2>. HIDE DEF S
  <2>. QED
    BY <1>1, <1>2, InductiveSet
<1>. QED
  BY <1>3 DEF Agree

LEMMA FlattenEmpty == FlattenSeq(<< >>) = << >>
  BY DEF FlattenSeq

LEMMA FlattenAppend ==
    ASSUME NEW A, NEW seqs \in Seq(Seq(A)), NEW e \in Seq(A)
    PROVE  FlattenSeq(Append(seqs, e)) = FlattenSeq(seqs) \o e
<1>. DEFINE s == Append(seqs, e)
            n == Len(seqs)
            f == CHOOSE h : Flattens(h, seqs)
            g == CHOOSE h : Flattens(h, s)
<1>1. /\ n \in Nat /\ s \in Seq(Seq(A)) /\ Len(s) = n + 1
      /\ s[n + 1] = e /\ \A i \in 1..n : seqs[i] = s[i]
  OBVIOUS
<1>2. Flattens(f, seqs) /\ Flattens(g, s)
  <2>1. (\E h : Flattens(h, seqs)) /\ (\E h : Flattens(h, s))
    BY <1>1, FlattensExists
  <2>. HIDE DEF s
  <2>. QED
    BY <2>1, Zenon
<1>. HIDE DEF f, g, s
<1>3. FlattenSeq(s) = g[n + 1]
  BY <1>1, FlattenEqn DEF g
<1>4. g[n + 1] = IF n = 0 THEN s[1] ELSE g[n] \o e
  <2>1. g[n + 1] = IF n + 1 = 1 THEN s[n + 1] ELSE g[(n + 1) - 1] \o s[n + 1]
    <3>1. n + 1 \in 1..Len(s) /\ Flattens(g, s)
      BY <1>1, <1>2
    <3>2. g[n + 1] = FlatAt(g, s, n + 1)
      BY <3>1, FlattensAt, Zenon
    <3>. QED
      BY <3>2 DEF FlatAt
  <2>. QED
    BY <1>1, <2>1
<1>5. CASE n = 0
  <2>1. FlattenSeq(seqs) = << >> /\ s[1] = e
    BY <1>1, <1>5, FlattenEmpty
  <2>2. << >> \o e = e
    OBVIOUS
  <2>. QED
    BY <1>3, <1>4, <1>5, <2>1, <2>2 DEF s
<1>6. CASE n # 0
  <2>1. FlattenSeq(seqs) = f[n]
    BY <1>6, FlattenEqn DEF f
  <2>2. \A i \in 1..n : f[i] = g[i]
    <3>1. /\ Len(seqs) \in Nat /\ Len(s) \in Nat /\ Len(seqs) <= Len(s)
          /\ Agree(seqs, s, Len(seqs))
      BY <1>1 DEF Agree
    <3>2. Flattens(f, seqs) /\ Flattens(g, s)
      BY <1>2
    <3>3. Agree(f, g, Len(seqs))
      BY <3>1, <3>2, FlattensAgree
    <3>. QED
      BY <3>3 DEF Agree
  <2>3. f[n] = g[n]
    BY <1>1, <1>6, <2>2
  <2>. QED
    BY <1>3, <1>4, <1>6, <2>1, <2>3 DEF s
<1>. QED
  BY <1>5, <1>6

LEMMA FlattenType ==
    ASSUME NEW A, NEW seqs \in Seq(Seq(A))
    PROVE  FlattenSeq(seqs) \in Seq(A)
<1>. DEFINE S == {n \in Nat : \A s \in [1..n -> Seq(A)] : FlattenSeq(s) \in Seq(A)}
<1>1. 0 \in S
  <2>1. \A s \in [1..0 -> Seq(A)] : s = << >>
    OBVIOUS
  <2>2. << >> \in Seq(A)
    OBVIOUS
  <2>. QED
    BY <2>1, <2>2, FlattenEmpty
<1>2. ASSUME NEW n \in Nat, n \in S
      PROVE  n + 1 \in S
  <2>1. ASSUME NEW s \in [1..(n + 1) -> Seq(A)]
        PROVE  FlattenSeq(s) \in Seq(A)
    <3>. DEFINE r == [i \in 1..n |-> s[i]]
                e == s[n + 1]
    <3>1. r \in [1..n -> Seq(A)] /\ r \in Seq(Seq(A)) /\ e \in Seq(A)
      OBVIOUS
    <3>2. s = Append(r, e)
      OBVIOUS
    <3>3. FlattenSeq(r) \in Seq(A)
      BY <1>2, <3>1
    <3>4. FlattenSeq(Append(r, e)) = FlattenSeq(r) \o e
      BY <3>1, FlattenAppend
    <3>5. FlattenSeq(r) \o e \in Seq(A)
      BY <3>1, <3>3, ConcatProperties
    <3>. QED
      BY <3>2, <3>4, <3>5
  <2>. QED
    BY <2>1
<1>3. Len(seqs) \in Nat /\ seqs \in [1..Len(seqs) -> Seq(A)]
  OBVIOUS
<1>4. Len(seqs) \in S
  <2>. HIDE DEF S
  <2>. QED
    BY <1>1, <1>2, <1>3, InductiveSet
<1>. QED
  BY <1>3, <1>4

-----------------------------------------------------------------------------
(* What was taken so far of a sequence *)

\* The end of a concatenation is the end of its second part.
LEMMA AppendToConcat ==
    ASSUME NEW V, NEW s \in Seq(V), NEW t \in Seq(V), NEW v \in V
    PROVE  s \o Append(t, v) = Append(s \o t, v)
<1>1. /\ s \o t \in Seq(V) /\ Len(s \o t) = Len(s) + Len(t)
      /\ Append(t, v) \in Seq(V) /\ Len(Append(t, v)) = Len(t) + 1
  BY AppendProperties, ConcatProperties
<1>2. /\ Append(s \o t, v) \in Seq(V) /\ s \o Append(t, v) \in Seq(V)
      /\ Len(Append(s \o t, v)) = Len(s) + Len(t) + 1
      /\ Len(s \o Append(t, v)) = Len(s) + Len(t) + 1
  BY <1>1, AppendProperties, ConcatProperties
<1>3. ASSUME NEW k \in 1..(Len(s) + Len(t) + 1)
      PROVE  Append(s \o t, v)[k] = (s \o Append(t, v))[k]
  <2>1. CASE k <= Len(s)
    BY <1>1, <2>1, AppendProperties, ConcatProperties
  <2>2. CASE k > Len(s) /\ k <= Len(s) + Len(t)
    BY <1>1, <2>2, AppendProperties, ConcatProperties
  <2>3. CASE k = Len(s) + Len(t) + 1
    BY <1>1, <2>3, AppendProperties, ConcatProperties
  <2>. QED
    BY <1>1, <2>1, <2>2, <2>3
<1>. QED
  BY <1>2, <1>3, SeqEqual

LEMMA TakeNone ==
    ASSUME NEW V, NEW s \in Seq(V), NEW k \in Int, k <= 0
    PROVE  SubSeq(s, 1, k) = << >>
  BY SubSeqEmpty

LEMMA TakeOneMore ==
    ASSUME NEW V, NEW s \in Seq(V), NEW k \in 0..(Len(s) - 1)
    PROVE  SubSeq(s, 1, k + 1) = Append(SubSeq(s, 1, k), s[k + 1])
<1>1. Len(s) \in Nat /\ \A i \in 1..Len(s) : s[i] \in V
  OBVIOUS
<1>. DEFINE some == SubSeq(s, 1, k)
            more == SubSeq(s, 1, k + 1)
<1>2. /\ some \in Seq(V) /\ Len(some) = k
      /\ \A i \in 1..k : some[i] = s[i]
  <2>1. \A i \in 1..k : s[i] \in V
    BY <1>1
  <2>. QED
    BY <1>1, <2>1, SubSeqProperties
<1>3. /\ more \in Seq(V) /\ Len(more) = k + 1
      /\ \A i \in 1..(k + 1) : more[i] = s[i]
  <2>1. \A i \in 1..(k + 1) : s[i] \in V
    BY <1>1
  <2>. QED
    BY <1>1, <2>1, SubSeqProperties
<1>4. s[k + 1] \in V
  BY <1>1
<1>. HIDE DEF some, more
<1>5. /\ Append(some, s[k + 1]) \in Seq(V) /\ Len(Append(some, s[k + 1])) = k + 1
      /\ \A i \in 1..k : Append(some, s[k + 1])[i] = some[i]
      /\ Append(some, s[k + 1])[k + 1] = s[k + 1]
  BY <1>2, <1>4, AppendProperties
<1>6. \A i \in 1..(k + 1) : more[i] = Append(some, s[k + 1])[i]
  <2>1. \A i \in 1..(k + 1) : i \in 1..k \/ i = k + 1
    OBVIOUS
  <2>. QED
    BY <1>2, <1>3, <1>5, <2>1
<1>7. more = Append(some, s[k + 1])
  BY <1>3, <1>5, <1>6, SeqEqual
<1>. QED
  BY <1>7 DEF some, more

\* What is added does not change what was taken before.
LEMMA TakenStays ==
    ASSUME NEW V, NEW s \in Seq(V), NEW k \in 0..Len(s), NEW v \in V
    PROVE  SubSeq(Append(s, v), 1, k) = SubSeq(s, 1, k)
<1>1. /\ Append(s, v) \in Seq(V) /\ Len(s) \in Nat
      /\ \A i \in 1..Len(s) : s[i] \in V /\ Append(s, v)[i] = s[i]
  BY AppendProperties
<1>. DEFINE a == Append(s, v)
<1>. HIDE DEF a
<1>2. \A i \in 1..k : s[i] \in V /\ a[i] = s[i] /\ a[i] \in V
  BY <1>1 DEF a
<1>3. /\ SubSeq(s, 1, k) \in Seq(V) /\ Len(SubSeq(s, 1, k)) = k
      /\ \A i \in 1..k : SubSeq(s, 1, k)[i] = s[i]
  BY <1>2, SubSeqProperties
<1>4. /\ SubSeq(a, 1, k) \in Seq(V) /\ Len(SubSeq(a, 1, k)) = k
      /\ \A i \in 1..k : SubSeq(a, 1, k)[i] = a[i]
  BY <1>2, SubSeqProperties
<1>5. SubSeq(a, 1, k) = SubSeq(s, 1, k)
  BY <1>2, <1>3, <1>4, SeqEqual
<1>. QED
  BY <1>5 DEF a

LEMMA TakenIsPrefix ==
    ASSUME NEW V, NEW s \in Seq(V), NEW k \in 0..Len(s)
    PROVE  /\ SubSeq(s, 1, k) \in Seq(V)
           /\ Len(SubSeq(s, 1, k)) = k
           /\ IsPrefix(SubSeq(s, 1, k), s)
<1>. DEFINE some == SubSeq(s, 1, k)
<1>1. \A i \in 1..k : s[i] \in V
  OBVIOUS
<1>2. some \in Seq(V) /\ Len(some) = k
  BY <1>1, SubSeqProperties
<1>3. SubSeq(some, 1, Len(some)) = some
  <2>. HIDE DEF some
  <2>. QED
    BY <1>2, SubSeqFull
<1>. QED
  BY <1>2, <1>3 DEF IsPrefix

\* A part of a prefix is a prefix.
LEMMA PrefixOfTaken ==
    ASSUME NEW V, NEW s \in Seq(V), NEW k \in 0..Len(s),
           NEW a \in Seq(V), NEW b \in Seq(V), a \o b = SubSeq(s, 1, k)
    PROVE  a = SubSeq(s, 1, Len(a)) /\ Len(a) \in 0..k
<1>1. \A i \in 1..k : s[i] \in V
  OBVIOUS
<1>2. /\ Len(a \o b) = Len(a) + Len(b) /\ Len(a) \in Nat /\ Len(b) \in Nat
      /\ \A i \in 1..Len(a) : (a \o b)[i] = a[i]
  BY ConcatProperties
<1>3. Len(SubSeq(s, 1, k)) = k /\ \A i \in 1..k : SubSeq(s, 1, k)[i] = s[i]
  BY <1>1, SubSeqProperties
<1>4. Len(a) \in 0..k
  BY <1>2, <1>3
<1>5. \A i \in 1..Len(a) : a[i] = s[i]
  BY <1>2, <1>3, <1>4
<1>6. /\ SubSeq(s, 1, Len(a)) \in Seq(V) /\ Len(SubSeq(s, 1, Len(a))) = Len(a)
      /\ \A i \in 1..Len(a) : SubSeq(s, 1, Len(a))[i] = s[i]
  <2>1. \A i \in 1..Len(a) : s[i] \in V
    BY <1>1, <1>4
  <2>. QED
    BY <1>2, <2>1, SubSeqProperties
<1>7. a = SubSeq(s, 1, Len(a))
  BY <1>5, <1>6, SeqEqual
<1>. QED
  BY <1>4, <1>7

LEMMA SecondPart ==
    ASSUME NEW A, NEW s \in Seq(A), NEW t \in Seq(A), NEW j \in 1..Len(t)
    PROVE  (s \o t)[Len(s) + j] = t[j]
<1>1. Len(s) \in Nat /\ Len(t) \in Nat /\ Len(s \o t) = Len(s) + Len(t)
      /\ \A i \in 1..Len(t) : t[i] \in A
  BY ConcatProperties
<1>2. Len(s) + j \in 1..(Len(s) + Len(t)) /\ Len(s) + j > Len(s)
      /\ (Len(s) + j) - Len(s) = j
  BY <1>1
<1>. QED
  BY <1>1, <1>2

LEMMA InFront ==
    ASSUME NEW V, NEW v \in V, NEW r \in Seq(V)
    PROVE  /\ <<v>> \o r \in Seq(V) /\ Len(<<v>> \o r) = Len(r) + 1
           /\ (<<v>> \o r)[1] = v
           /\ \A j \in 1..Len(r) : (<<v>> \o r)[1 + j] = r[j]
<1>. DEFINE one == <<v>>
<1>1. one \in Seq(V) /\ Len(one) = 1 /\ one[1] = v /\ Len(r) \in Nat
  OBVIOUS
<1>. HIDE DEF one
<1>2. one \o r \in Seq(V) /\ Len(one \o r) = Len(one) + Len(r)
  BY <1>1, ConcatProperties
<1>3. (one \o r)[1] = one[1]
  <2>1. 1 \in 1..(Len(one) + Len(r)) /\ 1 <= Len(one)
    BY <1>1
  <2>. QED
    BY <1>1, <2>1, ConcatProperties
<1>4. \A j \in 1..Len(r) : (one \o r)[Len(one) + j] = r[j]
  BY <1>1, SecondPart
<1>5. /\ one \o r \in Seq(V) /\ Len(one \o r) = Len(r) + 1 /\ (one \o r)[1] = v
      /\ \A j \in 1..Len(r) : (one \o r)[1 + j] = r[j]
  BY <1>1, <1>2, <1>3, <1>4
<1>. QED
  BY <1>5 DEF one

LEMMA FirstAndRest ==
    ASSUME NEW V, NEW s \in Seq(V), NEW k \in 1..Len(s)
    PROVE  <<s[k]>> \o SubSeq(s, k + 1, Len(s)) = SubSeq(s, k, Len(s))
<1>. DEFINE n == Len(s)
            rest == SubSeq(s, k + 1, n)
            all == SubSeq(s, k, n)
<1>1. n \in Nat /\ \A j \in 1..n : s[j] \in V
  OBVIOUS
<1>2. /\ rest \in Seq(V) /\ Len(rest) = n - k
      /\ \A j \in 1..(n - k) : rest[j] = s[k + j]
  <2>1. \A j \in (k + 1)..n : s[j] \in V
    BY <1>1
  <2>2. /\ rest \in Seq(V) /\ Len(rest) = IF k + 1 <= n THEN n - (k + 1) + 1 ELSE 0
        /\ \A j \in 1..(n - (k + 1) + 1) : rest[j] = s[(k + 1) + j - 1]
    BY <1>1, <2>1, SubSeqProperties
  <2>. QED
    BY <1>1, <2>2
<1>3. /\ all \in Seq(V) /\ Len(all) = n - k + 1
      /\ \A j \in 1..(n - k + 1) : all[j] = s[k + j - 1]
  <2>1. \A j \in k..n : s[j] \in V
    BY <1>1
  <2>. QED
    BY <1>1, <2>1, SubSeqProperties
<1>. HIDE DEF rest, all, n
<1>4. <<s[k]>> \in Seq(V) /\ Len(<<s[k]>>) = 1 /\ <<s[k]>>[1] = s[k]
  BY <1>1 DEF n
<1>. DEFINE joined == <<s[k]>> \o rest
<1>5. /\ joined \in Seq(V) /\ Len(joined) = n - k + 1
      /\ joined[1] = s[k]
      /\ \A j \in 1..(n - k) : joined[1 + j] = rest[j]
  <2>1. s[k] \in V /\ rest \in Seq(V) /\ n - k \in Nat /\ Len(rest) = n - k
    BY <1>1, <1>2 DEF n
  <2>2. /\ joined \in Seq(V) /\ Len(joined) = Len(rest) + 1 /\ joined[1] = s[k]
        /\ \A j \in 1..Len(rest) : joined[1 + j] = rest[j]
    <3>. HIDE DEF joined
    <3>1. joined = <<s[k]>> \o rest
      BY DEF joined
    <3>. QED
      BY <2>1, <3>1, InFront
  <2>. QED
    BY <2>1, <2>2
<1>. HIDE DEF joined
<1>6. ASSUME NEW j \in 1..(n - k + 1)
      PROVE  joined[j] = all[j]
  <2>1. CASE j = 1
    BY <1>1, <1>3, <1>5, <2>1 DEF n
  <2>2. CASE j # 1
    <3>1. j - 1 \in 1..(n - k) /\ 1 + (j - 1) = j /\ k + (j - 1) = k + j - 1
      BY <1>1, <2>2 DEF n
    <3>. QED
      BY <1>2, <1>3, <1>5, <3>1
  <2>. QED
    BY <2>1, <2>2
<1>7. joined = all
  BY <1>3, <1>5, <1>6, SeqEqual
<1>. QED
  BY <1>7 DEF joined, all, rest, n

-----------------------------------------------------------------------------
(* Where the parts of a concatenation lie *)

\* The length of the first k parts.
FlatLen(seqs, k) == Len(FlattenSeq(SubSeq(seqs, 1, k)))

LEMMA FlattenOneMore ==
    ASSUME NEW A, NEW seqs \in Seq(Seq(A)), NEW k \in 0..(Len(seqs) - 1)
    PROVE  /\ FlattenSeq(SubSeq(seqs, 1, k)) \in Seq(A)
           /\ seqs[k + 1] \in Seq(A)
           /\ FlattenSeq(SubSeq(seqs, 1, k + 1))
                = FlattenSeq(SubSeq(seqs, 1, k)) \o seqs[k + 1]
           /\ FlatLen(seqs, k) \in Nat
           /\ FlatLen(seqs, k + 1) = FlatLen(seqs, k) + Len(seqs[k + 1])
<1>1. Len(seqs) \in Nat /\ \A j \in 1..Len(seqs) : seqs[j] \in Seq(A)
  OBVIOUS
<1>2. PICK X : X = Seq(A)
  OBVIOUS
<1>3. seqs \in Seq(X) /\ k \in 0..Len(seqs) /\ k + 1 \in 1..Len(seqs)
  BY <1>1, <1>2
<1>4. SubSeq(seqs, 1, k + 1) = Append(SubSeq(seqs, 1, k), seqs[k + 1])
  BY <1>3, TakeOneMore
<1>. DEFINE some == SubSeq(seqs, 1, k)
            e == seqs[k + 1]
<1>5. some \in Seq(X)
  BY <1>3, TakenIsPrefix
<1>6. some \in Seq(Seq(A)) /\ e \in Seq(A)
  BY <1>1, <1>2, <1>3, <1>5
<1>. HIDE DEF some, e
<1>7. FlattenSeq(Append(some, e)) = FlattenSeq(some) \o e
  BY <1>6, FlattenAppend
<1>8. FlattenSeq(some) \in Seq(A)
  BY <1>6, FlattenType
<1>9. Len(FlattenSeq(some) \o e) = Len(FlattenSeq(some)) + Len(e)
      /\ Len(FlattenSeq(some)) \in Nat
  BY <1>6, <1>8, ConcatProperties
<1>. QED
  BY <1>4, <1>6, <1>7, <1>8, <1>9 DEF some, e, FlatLen

\* What the first parts are joined to is the beginning of the whole.
LEMMA FlattenBegins ==
    ASSUME NEW A, NEW seqs \in Seq(Seq(A)), NEW k \in 0..Len(seqs)
    PROVE  /\ FlatLen(seqs, k) \in 0..Len(FlattenSeq(seqs))
           /\ \A j \in 1..FlatLen(seqs, k) :
                FlattenSeq(SubSeq(seqs, 1, k))[j] = FlattenSeq(seqs)[j]
<1>. DEFINE n == Len(seqs)
            F(a) == FlattenSeq(SubSeq(seqs, 1, a))
            S == {m \in Nat : m <= n =>
                    /\ FlatLen(seqs, n - m) \in 0..Len(F(n))
                    /\ \A j \in 1..FlatLen(seqs, n - m) : F(n - m)[j] = F(n)[j]}
<1>1. n \in Nat
  OBVIOUS
<1>2. F(n) = FlattenSeq(seqs)
  BY SubSeqFull
<1>3. F(n) \in Seq(A) /\ Len(F(n)) \in Nat
  BY <1>2, FlattenType
<1>. HIDE DEF F
<1>4. 0 \in S
  <2>1. FlatLen(seqs, n) = Len(F(n)) /\ n - 0 = n
    BY <1>1 DEF FlatLen, F
  <2>. QED
    BY <1>3, <2>1
<1>5. ASSUME NEW m \in Nat, m \in S
      PROVE  m + 1 \in S
  <2>. SUFFICES ASSUME m + 1 <= n
                PROVE  /\ FlatLen(seqs, n - (m + 1)) \in 0..Len(F(n))
                       /\ \A j \in 1..FlatLen(seqs, n - (m + 1)) :
                            F(n - (m + 1))[j] = F(n)[j]
    OBVIOUS
  <2>. DEFINE a == n - (m + 1)
  <2>1. a \in 0..(n - 1) /\ a + 1 = n - m /\ m <= n
    BY <1>1
  <2>2. /\ FlatLen(seqs, n - m) \in 0..Len(F(n))
        /\ \A j \in 1..FlatLen(seqs, n - m) : F(n - m)[j] = F(n)[j]
    BY <1>5, <2>1
  <2>. HIDE DEF a
  <2>3. /\ F(a) \in Seq(A) /\ seqs[a + 1] \in Seq(A)
        /\ F(a + 1) = F(a) \o seqs[a + 1]
        /\ FlatLen(seqs, a) \in Nat /\ Len(F(a)) = FlatLen(seqs, a)
        /\ FlatLen(seqs, a + 1) = FlatLen(seqs, a) + Len(seqs[a + 1])
    BY <2>1, FlattenOneMore DEF F, FlatLen
  <2>. HIDE DEF n
  <2>4. /\ Len(seqs[a + 1]) \in Nat
        /\ \A j \in 1..FlatLen(seqs, a) : F(a + 1)[j] = F(a)[j]
    BY <2>3, ConcatProperties
  <2>5. /\ FlatLen(seqs, a) \in 0..Len(F(n))
        /\ \A j \in 1..FlatLen(seqs, a) : F(a)[j] = F(n)[j]
    <3>1. /\ FlatLen(seqs, a + 1) \in 0..Len(F(n))
          /\ \A j \in 1..FlatLen(seqs, a + 1) : F(a + 1)[j] = F(n)[j]
      BY <2>1, <2>2
    <3>. DEFINE some == FlatLen(seqs, a)
                more == FlatLen(seqs, a + 1)
    <3>2. /\ some \in Nat /\ Len(seqs[a + 1]) \in Nat
          /\ more = some + Len(seqs[a + 1]) /\ more \in 0..Len(F(n))
      BY <2>3, <2>4, <3>1
    <3>3. /\ \A j \in 1..some : F(a + 1)[j] = F(a)[j]
          /\ \A j \in 1..more : F(a + 1)[j] = F(n)[j]
      BY <2>4, <3>1
    <3>. HIDE DEF some, more
    <3>4. some \in 0..Len(F(n)) /\ \A j \in 1..some : j \in 1..more
      BY <1>3, <3>2
    <3>5. \A j \in 1..some : F(a)[j] = F(n)[j]
      BY <3>3, <3>4
    <3>. QED
      BY <3>4, <3>5 DEF some
  <2>. QED
    BY <2>5 DEF a
<1>6. \A m \in Nat : m \in S
  <2>. HIDE DEF S
  <2>. QED
    BY <1>4, <1>5, InductiveSet
<1>7. n - k \in S /\ n - k \in Nat /\ n - (n - k) = k /\ n - k <= n
  BY <1>1, <1>6
<1>. HIDE DEF n
<1>. QED
  BY <1>2, <1>7 DEF F

\* Each part lies behind those before it.
LEMMA FlattenPlace ==
    ASSUME NEW A, NEW seqs \in Seq(Seq(A)), NEW k \in 0..(Len(seqs) - 1)
    PROVE  /\ FlatLen(seqs, k) \in Nat
           /\ FlatLen(seqs, k + 1) = FlatLen(seqs, k) + Len(seqs[k + 1])
           /\ FlatLen(seqs, k + 1) <= Len(FlattenSeq(seqs))
           /\ \A j \in 1..Len(seqs[k + 1]) :
                FlattenSeq(seqs)[FlatLen(seqs, k) + j] = seqs[k + 1][j]
<1>. DEFINE F(a) == FlattenSeq(SubSeq(seqs, 1, a))
<1>1. /\ F(k) \in Seq(A) /\ seqs[k + 1] \in Seq(A)
      /\ F(k + 1) = F(k) \o seqs[k + 1]
      /\ FlatLen(seqs, k) \in Nat /\ Len(F(k)) = FlatLen(seqs, k)
      /\ FlatLen(seqs, k + 1) = FlatLen(seqs, k) + Len(seqs[k + 1])
  BY FlattenOneMore DEF FlatLen
<1>2. /\ FlatLen(seqs, k + 1) \in 0..Len(FlattenSeq(seqs))
      /\ \A j \in 1..FlatLen(seqs, k + 1) : F(k + 1)[j] = FlattenSeq(seqs)[j]
  <2>1. Len(seqs) \in Nat
    OBVIOUS
  <2>2. k + 1 \in 0..Len(seqs)
    BY <2>1
  <2>. QED
    BY <2>2, FlattenBegins
<1>. HIDE DEF F
<1>3. Len(seqs[k + 1]) \in Nat
  BY <1>1
<1>4. ASSUME NEW j \in 1..Len(seqs[k + 1])
      PROVE  FlattenSeq(seqs)[FlatLen(seqs, k) + j] = seqs[k + 1][j]
  <2>. DEFINE at == FlatLen(seqs, k)
              next == FlatLen(seqs, k + 1)
              part == seqs[k + 1]
  <2>1. /\ F(k) \in Seq(A) /\ part \in Seq(A) /\ F(k + 1) = F(k) \o part
        /\ at \in Nat /\ Len(F(k)) = at /\ next = at + Len(part)
        /\ Len(part) \in Nat /\ j \in 1..Len(part)
    BY <1>1, <1>3
  <2>2. \A i \in 1..next : F(k + 1)[i] = FlattenSeq(seqs)[i]
    BY <1>2
  <2>. HIDE DEF at, next, part
  <2>3. at + j \in 1..next
    BY <2>1
  <2>4. (F(k) \o part)[at + j] = part[j]
    BY <2>1, SecondPart
  <2>5. FlattenSeq(seqs)[at + j] = part[j]
    BY <2>1, <2>2, <2>3, <2>4
  <2>. QED
    BY <2>5 DEF at, part
<1>. QED
  BY <1>1, <1>2, <1>4

-----------------------------------------------------------------------------
(* Pieces joined, and where they lie *)

\* It does not matter which two of three are joined first.
LEMMA Associative ==
    ASSUME NEW A, NEW a \in Seq(A), NEW b \in Seq(A), NEW c \in Seq(A)
    PROVE  (a \o b) \o c = a \o (b \o c)
BY ConcatAssociative

LEMMA FlattenedBehind ==
    ASSUME NEW A, NEW s, NEW t, NEW c,
           FlattenSeq(s) \in Seq(A), FlattenSeq(t) \in Seq(A), c \in Seq(A)
    PROVE  (FlattenSeq(s) \o FlattenSeq(t)) \o c = FlattenSeq(s) \o (FlattenSeq(t) \o c)
BY Associative

\* One more sequence in the second group.
LEMMA FlattenConcatNext ==
    ASSUME NEW A, NEW s \in Seq(Seq(A)), NEW t \in Seq(Seq(A)), NEW c \in Seq(A),
           FlattenSeq(s \o t) = FlattenSeq(s) \o FlattenSeq(t)
    PROVE  FlattenSeq(s \o Append(t, c)) = FlattenSeq(s) \o FlattenSeq(Append(t, c))
<1>1. PICK X : X = Seq(A)
  OBVIOUS
<1>2. s \in Seq(X) /\ t \in Seq(X) /\ c \in X
  BY <1>1
<1>3. s \o Append(t, c) = Append(s \o t, c) /\ s \o t \in Seq(X)
  BY <1>2, AppendToConcat, ConcatProperties
<1>4. FlattenSeq(Append(s \o t, c)) = FlattenSeq(s \o t) \o c
  BY <1>1, <1>2, <1>3, FlattenAppend
<1>5. FlattenSeq(Append(t, c)) = FlattenSeq(t) \o c
  BY FlattenAppend
<1>6. FlattenSeq(s) \in Seq(A) /\ FlattenSeq(t) \in Seq(A)
  BY FlattenType
<1>7. (FlattenSeq(s) \o FlattenSeq(t)) \o c = FlattenSeq(s) \o (FlattenSeq(t) \o c)
  BY <1>6, FlattenedBehind
<1>. QED
  BY <1>3, <1>4, <1>5, <1>7, Zenon

\* Joining sequences in two groups.
LEMMA FlattenConcat ==
    ASSUME NEW A, NEW s \in Seq(Seq(A)), NEW t \in Seq(Seq(A))
    PROVE  FlattenSeq(s \o t) = FlattenSeq(s) \o FlattenSeq(t)
<1>1. PICK X : X = Seq(A)
  OBVIOUS
<1>. DEFINE S == {n \in Nat : \A w \in [1..n -> X] :
                    FlattenSeq(s \o w) = FlattenSeq(s) \o FlattenSeq(w)}
<1>2. s \in Seq(X) /\ t \in Seq(X)
  BY <1>1
<1>3. FlattenSeq(s) \in X
  BY <1>1, FlattenType
<1>4. 0 \in S
  <2>1. \A w \in [1..0 -> X] : w = << >>
    OBVIOUS
  <2>2. s \o << >> = s
    BY <1>2, ConcatEmptySeq
  <2>3. FlattenSeq(s) \o << >> = FlattenSeq(s)
    BY <1>1, <1>3, ConcatEmptySeq
  <2>. QED
    BY <2>1, <2>2, <2>3, FlattenEmpty
<1>5. ASSUME NEW n \in Nat, n \in S
      PROVE  n + 1 \in S
  <2>1. ASSUME NEW w \in [1..(n + 1) -> X]
        PROVE  FlattenSeq(s \o w) = FlattenSeq(s) \o FlattenSeq(w)
    <3>. DEFINE r == [i \in 1..n |-> w[i]]
                e == w[n + 1]
    <3>1. r \in [1..n -> X] /\ r \in Seq(X) /\ e \in X
      OBVIOUS
    <3>2. w = Append(r, e)
      OBVIOUS
    <3>3. FlattenSeq(s \o r) = FlattenSeq(s) \o FlattenSeq(r)
      BY <1>5, <3>1
    <3>. HIDE DEF r, e
    <3>. QED
      BY <1>1, <3>1, <3>2, <3>3, FlattenConcatNext
  <2>. QED
    BY <2>1
<1>6. Len(t) \in Nat /\ t \in [1..Len(t) -> X]
  BY <1>2
<1>7. Len(t) \in S
  <2>. HIDE DEF S
  <2>. QED
    BY <1>4, <1>5, <1>6, InductiveSet
<1>. QED
  BY <1>6, <1>7

\* Joining a single sequence.
LEMMA FlattenOne ==
    ASSUME NEW A, NEW e \in Seq(A)
    PROVE  FlattenSeq(<<e>>) = e
<1>1. PICK X : X = Seq(A)
  OBVIOUS
<1>2. << >> \in Seq(X) /\ <<e>> = Append(<< >>, e)
  OBVIOUS
<1>3. FlattenSeq(Append(<< >>, e)) = FlattenSeq(<< >>) \o e
  BY <1>1, <1>2, FlattenAppend
<1>4. << >> \o e = e
  BY ConcatEmptySeq
<1>. QED
  BY <1>2, <1>3, <1>4, FlattenEmpty

\* Two elements joined.
LEMMA Pair ==
    ASSUME NEW V, NEW a \in V, NEW b \in V
    PROVE  <<a>> \o <<b>> = <<a, b>>
<1>. DEFINE s == <<a>>
            t == <<b>>
            w == s \o t
            both == <<a, b>>
<1>1. /\ s \in Seq(V) /\ t \in Seq(V) /\ Len(s) = 1 /\ Len(t) = 1 /\ s[1] = a /\ t[1] = b
      /\ both \in Seq(V) /\ Len(both) = 2 /\ both[1] = a /\ both[2] = b
  OBVIOUS
<1>. HIDE DEF s, t, both
<1>2. /\ w \in Seq(V) /\ Len(w) = Len(s) + Len(t)
      /\ \A j \in 1..(Len(s) + Len(t)) : w[j] = IF j <= Len(s) THEN s[j] ELSE t[j - Len(s)]
  BY <1>1, ConcatProperties
<1>. HIDE DEF w
<1>3. Len(w) = 2 /\ w[1] = a /\ w[2] = b
  <2>1. 1 \in 1..(1 + 1) /\ 2 \in 1..(1 + 1) /\ 1 <= 1 /\ ~(2 <= 1) /\ 2 - 1 = 1 /\ 1 + 1 = 2
    OBVIOUS
  <2>. QED
    BY <1>1, <1>2, <2>1
<1>4. \A j \in 1..Len(w) : w[j] = both[j]
  <2>1. \A j \in 1..2 : j = 1 \/ j = 2
    OBVIOUS
  <2>. QED
    BY <1>1, <1>3, <2>1
<1>5. w = both
  BY <1>1, <1>2, <1>3, <1>4, SeqEqual
<1>. QED
  BY <1>5 DEF w, s, t, both

\* An element behind two others.
LEMMA Triple ==
    ASSUME NEW V, NEW a \in V, NEW b \in V, NEW c \in V
    PROVE  <<a, b>> \o <<c>> = <<a, b, c>>
<1>. DEFINE s == <<a, b>>
            t == <<c>>
            w == s \o t
            all == <<a, b, c>>
<1>1. /\ s \in Seq(V) /\ t \in Seq(V) /\ Len(s) = 2 /\ Len(t) = 1
      /\ s[1] = a /\ s[2] = b /\ t[1] = c
      /\ all \in Seq(V) /\ Len(all) = 3 /\ all[1] = a /\ all[2] = b /\ all[3] = c
  OBVIOUS
<1>. HIDE DEF s, t, all
<1>2. /\ w \in Seq(V) /\ Len(w) = Len(s) + Len(t)
      /\ \A j \in 1..(Len(s) + Len(t)) : w[j] = IF j <= Len(s) THEN s[j] ELSE t[j - Len(s)]
  BY <1>1, ConcatProperties
<1>. HIDE DEF w
<1>3. Len(w) = 3 /\ w[1] = a /\ w[2] = b /\ w[3] = c
  <2>1. /\ 1 \in 1..(2 + 1) /\ 2 \in 1..(2 + 1) /\ 3 \in 1..(2 + 1)
        /\ 1 <= 2 /\ 2 <= 2 /\ ~(3 <= 2) /\ 3 - 2 = 1 /\ 2 + 1 = 3
    OBVIOUS
  <2>. QED
    BY <1>1, <1>2, <2>1
<1>4. \A j \in 1..Len(w) : w[j] = all[j]
  <2>1. \A j \in 1..3 : j = 1 \/ j = 2 \/ j = 3
    OBVIOUS
  <2>. QED
    BY <1>1, <1>3, <2>1
<1>5. w = all
  BY <1>1, <1>2, <1>3, <1>4, SeqEqual
<1>. QED
  BY <1>5 DEF w, s, t, all

\* The last element replaced by another.
LEMMA ReplaceLast ==
    ASSUME NEW X, NEW done \in Seq(X), NEW a \in X, NEW b \in X
    PROVE  [Append(done, a) EXCEPT ![Len(Append(done, a))] = b] = Append(done, b)
<1>. DEFINE n == Len(done)
            With(x) == [c \in 1..(n + 1) |-> IF c = n + 1 THEN x ELSE done[c]]
<1>1. n \in Nat /\ Append(done, a) = With(a) /\ Append(done, b) = With(b)
  <2>1. \A x \in X : Append(done, x) = With(x)
    <3>. TAKE x \in X
    <3>. DEFINE more == Append(done, x)
    <3>1. n \in Nat /\ more \in Seq(X) /\ Len(more) = n + 1
      BY AppendProperties
    <3>2. \A c \in 1..(n + 1) : more[c] = IF c = n + 1 THEN x ELSE done[c]
      BY AppendProperties
    <3>. HIDE DEF more, n
    <3>3. more = [c \in 1..(n + 1) |-> more[c]]
      BY <3>1
    <3>. QED
      BY <3>1, <3>2, <3>3 DEF more
  <2>2. n \in Nat
    OBVIOUS
  <2>. QED
    BY <2>1, <2>2
<1>2. Len(With(a)) = n + 1
  BY <1>1
<1>. HIDE DEF n
<1>3. [With(a) EXCEPT ![n + 1] = b] = With(b)
  BY <1>1
<1>. QED
  BY <1>1, <1>2, <1>3

\* text has part behind its first at symbols.
Lies(text, at, part) ==
    /\ at \in Nat /\ Len(part) \in Nat /\ Len(text) \in Nat
    /\ at + Len(part) <= Len(text)
    /\ \A j \in 1..Len(part) : text[at + j] = part[j]

\* Two texts joined lie one behind the other.
LEMMA LiesJoined ==
    ASSUME NEW A, NEW s \in Seq(A), NEW t \in Seq(A)
    PROVE  /\ s \o t \in Seq(A) /\ Len(s \o t) = Len(s) + Len(t)
           /\ Lies(s \o t, 0, s) /\ Lies(s \o t, Len(s), t)
<1>1. /\ s \o t \in Seq(A) /\ Len(s \o t) = Len(s) + Len(t)
      /\ Len(s) \in Nat /\ Len(t) \in Nat
      /\ \A j \in 1..Len(s) : (s \o t)[j] = s[j]
  BY ConcatProperties
<1>2. \A j \in 1..Len(t) : (s \o t)[Len(s) + j] = t[j]
  BY SecondPart
<1>. DEFINE w == s \o t
            m == Len(s)
<1>. HIDE DEF w
<1>3. Lies(w, 0, s)
  <2>1. \A j \in 1..Len(s) : 0 + j = j
    OBVIOUS
  <2>. QED
    BY <1>1, <2>1 DEF Lies, w
<1>4. Lies(w, m, t)
  <2>. HIDE DEF m
  <2>. QED
    BY <1>1, <1>2 DEF Lies, w, m
<1>. QED
  BY <1>1, <1>3, <1>4 DEF w

\* A part of a part.
LEMMA LiesWithin ==
    ASSUME NEW text, NEW at, NEW part, Lies(text, at, part), NEW in, NEW some,
           Lies(part, in, some), NEW sum, sum = at + in
    PROVE  Lies(text, sum, some)
<1>1. /\ at \in Nat /\ in \in Nat /\ Len(part) \in Nat /\ Len(some) \in Nat
      /\ Len(text) \in Nat /\ at + Len(part) <= Len(text) /\ in + Len(some) <= Len(part)
  BY DEF Lies
<1>2. sum \in Nat /\ sum + Len(some) <= Len(text)
  BY <1>1
<1>3. ASSUME NEW j \in 1..Len(some)
      PROVE  text[sum + j] = some[j]
  <2>1. in + j \in 1..Len(part) /\ at + (in + j) = sum + j
    BY <1>1
  <2>. DEFINE k == in + j
  <2>2. some[j] = part[k]
    BY DEF Lies
  <2>. HIDE DEF k
  <2>3. part[k] = text[at + k]
    BY <2>1 DEF Lies, k
  <2>4. at + k = sum + j
    BY <2>1 DEF k
  <2>. QED
    BY <2>2, <2>3, <2>4
<1>. QED
  BY <1>1, <1>2, <1>3 DEF Lies

\* What is copied from where a part lies is that part.
LEMMA LiesTaken ==
    ASSUME NEW text, NEW at, NEW A, NEW part \in Seq(A), Lies(text, at, part),
           NEW first, first = at + 1, NEW last, last = at + Len(part)
    PROVE  SubSeq(text, first, last) = part
<1>. DEFINE n == Len(part)
<1>1. /\ at \in Nat /\ n \in Nat /\ \A j \in 1..n : text[at + j] = part[j] /\ part[j] \in A
  BY DEF Lies
<1>2. first \in Nat /\ last \in Nat
  BY <1>1
<1>. DEFINE taken == SubSeq(text, first, last)
<1>3. \A i \in first..last : text[i] \in A
  <2>. TAKE i \in first..last
  <2>1. i - at \in 1..n /\ at + (i - at) = i
    BY <1>1
  <2>. QED
    BY <1>1, <2>1
<1>4. /\ taken \in Seq(A)
      /\ Len(taken) = IF first <= last THEN last - first + 1 ELSE 0
      /\ \A j \in 1..(last - first + 1) : taken[j] = text[first + j - 1]
  <2>1. first \in Int /\ last \in Int
    BY <1>2
  <2>. QED
    BY <1>3, <2>1, SubSeqProperties
<1>5. Len(taken) = n /\ last - first + 1 = n
  <2>1. last - first + 1 = n /\ (first <= last <=> n > 0)
    BY <1>1
  <2>. QED
    BY <1>1, <1>4, <2>1
<1>6. \A j \in 1..n : taken[j] = part[j]
  <2>. TAKE j \in 1..n
  <2>1. first + j - 1 = at + j
    BY <1>1
  <2>. QED
    BY <1>1, <1>4, <1>5, <2>1
<1>. HIDE DEF taken
<1>7. taken = part
  BY <1>4, <1>5, <1>6, SeqEqual
<1>. QED
  BY <1>7 DEF taken

\* What is behind the text so far lies there in every longer text too.
LEMMA LiesNext ==
    ASSUME NEW w, NEW A, NEW s \in Seq(A), NEW t \in Seq(A), Lies(w, 0, s \o t)
    PROVE  Lies(w, 0, s) /\ Lies(w, Len(s), t)
<1>. DEFINE both == s \o t
<1>1. Lies(both, 0, s) /\ Lies(both, Len(s), t) /\ Len(s) \in Nat
  BY LiesJoined
<1>. HIDE DEF both
<1>2. Lies(w, 0, both) /\ 0 = 0 + 0 /\ Len(s) = 0 + Len(s)
  BY <1>1 DEF both
<1>. QED
  BY <1>1, <1>2, LiesWithin

\* A part of one symbol is that symbol.
LEMMA SignLies ==
    ASSUME NEW w, NEW at, NEW c, Lies(w, at, <<c>>), NEW next, next = at + 1
    PROVE  w[next] = c /\ next \in 1..Len(w)
<1>. DEFINE part == <<c>>
<1>1. Len(part) = 1 /\ part[1] = c
  OBVIOUS
<1>. HIDE DEF part
<1>2. /\ at \in Nat /\ Len(w) \in Nat /\ at + Len(part) <= Len(w)
      /\ \A j \in 1..Len(part) : w[at + j] = part[j]
  BY DEF Lies, part
<1>. QED
  BY <1>1, <1>2

\* Each part of what FlattenSeq joins lies behind those before it.
LEMMA FlattenLies ==
    ASSUME NEW A, NEW seqs \in Seq(Seq(A))
    PROVE  /\ FlattenSeq(seqs) \in Seq(A) /\ Len(FlattenSeq(seqs)) \in Nat
           /\ FlatLen(seqs, 0) = 0
           /\ FlatLen(seqs, Len(seqs)) = Len(FlattenSeq(seqs))
           /\ \A k \in 0..(Len(seqs) - 1) :
                /\ FlatLen(seqs, k) \in Nat
                /\ Lies(FlattenSeq(seqs), FlatLen(seqs, k), seqs[k + 1])
                /\ FlatLen(seqs, k + 1) = FlatLen(seqs, k) + Len(seqs[k + 1])
                /\ FlatLen(seqs, k + 1) <= Len(FlattenSeq(seqs))
<1>. DEFINE s == FlattenSeq(seqs)
            at(k) == FlatLen(seqs, k)
<1>1. PICK X : X = Seq(A)
  OBVIOUS
<1>2. seqs \in Seq(X)
  BY <1>1
<1>3. s \in Seq(A) /\ Len(s) \in Nat
  <2>1. s \in Seq(A)
    BY FlattenType
  <2>. HIDE DEF s
  <2>. QED
    BY <2>1
<1>4. at(0) = 0
  <2>1. SubSeq(seqs, 1, 0) = << >>
    BY SubSeqEmpty
  <2>2. FlattenSeq(SubSeq(seqs, 1, 0)) = << >>
    BY <2>1, FlattenEmpty, Zenon
  <2>. QED
    BY <2>2 DEF FlatLen
<1>5. at(Len(seqs)) = Len(s)
  <2>1. SubSeq(seqs, 1, Len(seqs)) = seqs
    BY <1>2, SubSeqFull
  <2>. QED
    BY <2>1 DEF FlatLen
<1>6. ASSUME NEW k \in 0..(Len(seqs) - 1)
      PROVE  /\ at(k) \in Nat /\ Lies(s, at(k), seqs[k + 1])
             /\ at(k + 1) = at(k) + Len(seqs[k + 1]) /\ at(k + 1) <= Len(s)
  <2>. DEFINE part == seqs[k + 1]
  <2>1. /\ at(k) \in Nat /\ at(k + 1) = at(k) + Len(part) /\ at(k + 1) <= Len(s)
        /\ \A j \in 1..Len(part) : s[at(k) + j] = part[j]
    BY FlattenPlace
  <2>2. part \in Seq(A)
    <3>1. k + 1 \in 1..Len(seqs)
      BY <1>2
    <3>2. seqs[k + 1] \in X
      BY <1>2, <3>1
    <3>. QED
      BY <1>1, <3>2
  <2>. HIDE DEF at, s, part
  <2>3. Len(part) \in Nat
    BY <2>2
  <2>. QED
    BY <1>3, <2>1, <2>3 DEF Lies, part
<1>. QED
  BY <1>3, <1>4, <1>5, <1>6

-----------------------------------------------------------------------------
(* Elements and increasing sequences *)

LEMMA ToSetAppend ==
    ASSUME NEW V, NEW s \in Seq(V), NEW v \in V
    PROVE  ToSet(Append(s, v)) = ToSet(s) \union {v}
<1>1. /\ Append(s, v) \in Seq(V) /\ Len(Append(s, v)) = Len(s) + 1
      /\ \A k \in 1..Len(s) : Append(s, v)[k] = s[k]
      /\ Append(s, v)[Len(s) + 1] = v
      /\ Len(s) \in Nat /\ DOMAIN s = 1..Len(s)
      /\ DOMAIN Append(s, v) = 1..(Len(s) + 1)
  BY AppendProperties
<1>2. 1..(Len(s) + 1) = 1..Len(s) \union {Len(s) + 1}
  BY <1>1
<1>. DEFINE a == Append(s, v)
<1>. HIDE DEF a
<1>3. ToSet(a) = {a[k] : k \in 1..(Len(s) + 1)} /\ ToSet(s) = {s[k] : k \in 1..Len(s)}
  BY <1>1 DEF ToSet, a
<1>4. {a[k] : k \in 1..(Len(s) + 1)} = {a[k] : k \in 1..Len(s)} \union {a[Len(s) + 1]}
  BY <1>2
<1>5. {a[k] : k \in 1..Len(s)} = {s[k] : k \in 1..Len(s)}
  BY <1>1 DEF a
<1>. QED
  BY <1>1, <1>3, <1>4, <1>5 DEF a

Increasing(s) == \A j, k \in 1..Len(s) : j < k => s[j] < s[k]

LEMMA IncreasingAppend ==
    ASSUME NEW s \in Seq(Nat), Increasing(s), NEW v \in Nat,
           \A k \in 1..Len(s) : s[k] < v
    PROVE  Increasing(Append(s, v))
<1>1. /\ Len(Append(s, v)) = Len(s) + 1 /\ Len(s) \in Nat
      /\ \A k \in 1..Len(s) : Append(s, v)[k] = s[k]
      /\ Append(s, v)[Len(s) + 1] = v
  BY AppendProperties
<1>. DEFINE a == Append(s, v)
<1>. HIDE DEF a
<1>2. ASSUME NEW j \in 1..(Len(s) + 1), NEW k \in 1..(Len(s) + 1), j < k
      PROVE  a[j] < a[k]
  <2>1. j \in 1..Len(s) /\ (k \in 1..Len(s) \/ k = Len(s) + 1)
    BY <1>1, <1>2
  <2>. QED
    BY <1>1, <1>2, <2>1 DEF a, Increasing
<1>. QED
  BY <1>1, <1>2 DEF a, Increasing
===============================================================================
