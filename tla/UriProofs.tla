------------------------------- MODULE UriProofs -------------------------------
(***************************************************************************)
(* The uri functions for every uri: what they take and return, and how far *)
(* libdistexec_uri_build writes.                                           *)
(***************************************************************************)
EXTENDS Uri, Induction

-----------------------------------------------------------------------------
(* Uris, and what build makes of them *)

\* Texts over C, or NULL.
Maybe(C) == Seq(C) \union {NoText}

Params(C) == [key : Maybe(C), value : Maybe(C)]

Uris(C) ==
    [scheme : Maybe(C), hostname : Maybe(C), port : Maybe(C), path : Maybe(C),
     get_params : Seq(Params(C))]

\* The symbols of an encoded text, and what a uri has between its parts.
Coded(C) ==
    C \union {"%", ":", "/", "=", "&", "?"}
      \union {e[2] : e \in ToSet(char_map)} \union {e[3] : e \in ToSet(char_map)}

CodeOf(c) ==
    LET found == {e \in ToSet(char_map) : e[1] = c}
    IN  IF found = {} THEN <<c>>
        ELSE LET e == CHOOSE e \in found : TRUE IN <<"%", e[2], e[3]>>

LEMMA EncodeEqn ==
    ASSUME NEW v
    PROVE  encode(v) = FlattenSeq([j \in DOMAIN v |-> CodeOf(v[j])])
  BY Zenon DEF encode, CodeOf

LEMMA CodeType ==
    ASSUME NEW C, NEW c \in C
    PROVE  CodeOf(c) \in Seq(Coded(C))
<1>. DEFINE found == {e \in ToSet(char_map) : e[1] = c}
            code == CHOOSE e \in found : TRUE
<1>1. CASE found = {}
  <2>1. CodeOf(c) = <<c>> /\ c \in Coded(C)
    BY <1>1 DEF CodeOf, Coded
  <2>. QED
    BY <2>1
<1>2. CASE found # {}
  <2>1. CodeOf(c) = <<"%", code[2], code[3]>>
    BY <1>2, Zenon DEF CodeOf
  <2>2. code \in ToSet(char_map)
    <3>1. code \in found
      BY <1>2
    <3>. QED
      BY <3>1
  <2>. HIDE DEF code
  <2>3. "%" \in Coded(C) /\ code[2] \in Coded(C) /\ code[3] \in Coded(C)
    BY <2>2 DEF Coded
  <2>. QED
    BY <2>1, <2>3
<1>. QED
  BY <1>1, <1>2

LEMMA EncodeType ==
    ASSUME NEW C, NEW v \in Seq(C)
    PROVE  encode(v) \in Seq(Coded(C))
<1>. DEFINE codes == [j \in DOMAIN v |-> CodeOf(v[j])]
<1>1. Len(v) \in Nat /\ DOMAIN v = 1..Len(v) /\ \A j \in 1..Len(v) : v[j] \in C
  OBVIOUS
<1>2. \A j \in 1..Len(v) : CodeOf(v[j]) \in Seq(Coded(C))
  BY <1>1, CodeType
<1>3. codes \in Seq(Seq(Coded(C)))
  <2>1. PICK X : X = Seq(Coded(C))
    OBVIOUS
  <2>2. codes \in [1..Len(v) -> X]
    BY <1>1, <1>2, <2>1
  <2>3. codes \in Seq(X)
    <3>. HIDE DEF codes
    <3>. QED
      BY <1>1, <2>2
  <2>. QED
    BY <2>1, <2>3
<1>. HIDE DEF codes
<1>4. FlattenSeq(codes) \in Seq(Coded(C))
  BY <1>3, FlattenType
<1>. QED
  BY <1>4, EncodeEqn DEF codes

\* What is added to the buffer are texts.
LEMMA ParamPiecesType ==
    ASSUME NEW C, NEW p \in Params(C), NEW last \in BOOLEAN
    PROVE  ParamPieces(p, last) \in Seq(Maybe(Coded(C)))
<1>. DEFINE A == Coded(C)
            X == Maybe(A)
            val == IF p.value = NoText THEN << >> ELSE << <<"=">>, encode(p.value) >>
            sep == IF last THEN << >> ELSE << <<"&">> >>
<1>1. C \subseteq A /\ "=" \in A /\ "&" \in A
  BY DEF Coded
<1>2. p.key \in X
  <2>1. p.key = NoText \/ p.key \in Seq(C)
    BY DEF Params, Maybe
  <2>. HIDE DEF A
  <2>2. p.key \in Seq(C) => p.key \in Seq(A)
    BY <1>1, SeqMonotonic
  <2>. QED
    BY <2>1, <2>2 DEF Maybe
<1>3. p.value # NoText => encode(p.value) \in Seq(A)
  BY EncodeType DEF Params, Maybe
<1>4. <<"=">> \in X /\ <<"&">> \in X /\ (p.value # NoText => encode(p.value) \in X)
  <2>. HIDE DEF A
  <2>1. <<"=">> \in Seq(A) /\ <<"&">> \in Seq(A)
    BY <1>1
  <2>. QED
    BY <1>3, <2>1 DEF Maybe
<1>. HIDE DEF X, A
<1>5. <<p.key>> \in Seq(X) /\ val \in Seq(X) /\ sep \in Seq(X)
  BY <1>2, <1>4
<1>6. ParamPieces(p, last) = <<p.key>> \o val \o sep
  BY Zenon DEF ParamPieces
<1>. HIDE DEF val, sep
<1>7. <<p.key>> \o val \o sep \in Seq(X)
  BY <1>5, ConcatProperties
<1>. QED
  BY <1>6, <1>7 DEF X, A

LEMMA PiecesType ==
    ASSUME NEW C, NEW u \in Uris(C)
    PROVE  Pieces(u) \in Seq(Maybe(Coded(C)))
<1>. DEFINE A == Coded(C)
            X == Maybe(A)
            params == u.get_params
            pieces == [j \in DOMAIN params |-> ParamPieces(params[j], j = Len(params))]
            start == <<u.scheme, <<":", "/", "/">>, u.hostname>>
            port == IF u.port = NoText THEN << >> ELSE << <<":">>, u.port >>
            path == << <<"/">>, u.path >>
            mark == IF params = << >> THEN << >> ELSE << <<"?">> >>
<1>1. C \subseteq A /\ {":", "/", "?"} \subseteq A
  BY DEF Coded
<1>2. \A text \in Maybe(C) : text \in X
  <2>. HIDE DEF A
  <2>1. \A text \in Seq(C) : text \in Seq(A)
    BY <1>1, SeqMonotonic
  <2>. QED
    BY <2>1 DEF Maybe
<1>3. /\ u.scheme \in X /\ u.hostname \in X /\ u.port \in X /\ u.path \in X
      /\ params \in Seq(Params(C))
  <2>. HIDE DEF X
  <2>. QED
    BY <1>2 DEF Uris
<1>4. <<":", "/", "/">> \in X /\ <<":">> \in X /\ <<"/">> \in X /\ <<"?">> \in X
  <2>. HIDE DEF A
  <2>1. /\ <<":", "/", "/">> \in Seq(A) /\ <<":">> \in Seq(A)
        /\ <<"/">> \in Seq(A) /\ <<"?">> \in Seq(A)
    BY <1>1
  <2>. QED
    BY <2>1 DEF Maybe
<1>5. pieces \in Seq(Seq(X))
  <2>1. /\ Len(params) \in Nat /\ DOMAIN params = 1..Len(params)
        /\ \A j \in 1..Len(params) : params[j] \in Params(C)
    <3>1. PICK P : P = Params(C)
      OBVIOUS
    <3>2. params \in Seq(P)
      BY <1>3, <3>1
    <3>. HIDE DEF params
    <3>3. /\ Len(params) \in Nat /\ DOMAIN params = 1..Len(params)
          /\ \A j \in 1..Len(params) : params[j] \in P
      BY <3>2
    <3>. QED
      BY <3>1, <3>3, Zenon
  <2>2. \A j \in 1..Len(params) : ParamPieces(params[j], j = Len(params)) \in Seq(X)
    <3>. TAKE j \in 1..Len(params)
    <3>1. (j = Len(params)) \in BOOLEAN
      OBVIOUS
    <3>. QED
      BY <2>1, <3>1, ParamPiecesType
  <2>. HIDE DEF X, params
  <2>3. PICK Y : Y = Seq(X)
    OBVIOUS
  <2>4. pieces \in [1..Len(params) -> Y]
    BY <2>1, <2>2, <2>3
  <2>5. pieces \in Seq(Y)
    <3>. HIDE DEF pieces
    <3>. QED
      BY <2>1, <2>4
  <2>. QED
    BY <2>3, <2>5
<1>6. Pieces(u) = start \o port \o path \o mark \o FlattenSeq(pieces)
  BY Zenon DEF Pieces
<1>. HIDE DEF X, params, pieces
<1>7. start \in Seq(X) /\ port \in Seq(X) /\ path \in Seq(X) /\ mark \in Seq(X)
  BY <1>3, <1>4
<1>8. FlattenSeq(pieces) \in Seq(X)
  BY <1>5, FlattenType
<1>. HIDE DEF start, port, path, mark
<1>9. start \o port \in Seq(X)
  BY <1>7, ConcatProperties
<1>10. start \o port \o path \in Seq(X)
  BY <1>7, <1>9, ConcatProperties
<1>11. start \o port \o path \o mark \in Seq(X)
  BY <1>7, <1>10, ConcatProperties
<1>12. start \o port \o path \o mark \o FlattenSeq(pieces) \in Seq(X)
  BY <1>8, <1>11, ConcatProperties
<1>. QED
  BY <1>6, <1>12 DEF X

LEMMA GivenType ==
    ASSUME NEW A, NEW pieces \in Seq(Maybe(A))
    PROVE  Given(pieces) \in Seq(Seq(A)) /\ Len(Given(pieces)) \in Nat
<1>1. /\ Len(pieces) \in Nat /\ DOMAIN pieces = 1..Len(pieces)
      /\ \A j \in 1..Len(pieces) : pieces[j] \in Maybe(A)
  OBVIOUS
<1>2. \A j \in 1..Len(pieces) :
        (IF pieces[j] = NoText THEN << >> ELSE pieces[j]) \in Seq(A)
  BY <1>1 DEF Maybe
<1>3. PICK X : X = Seq(A)
  OBVIOUS
<1>4. Given(pieces) \in [1..Len(pieces) -> X]
  BY <1>1, <1>2, <1>3 DEF Given
<1>5. Given(pieces) \in Seq(X) /\ Len(Given(pieces)) \in Nat
  BY <1>1, <1>4
<1>. QED
  BY <1>3, <1>5

Buffers == [len : Nat, bufsize : Nat, size : Nat, over : Int]

\* The function by which BuiltInto is defined, as an equation.
Gathers(f, texts) ==
    f = [j \in 0..Len(texts) |->
            IF j = 0 THEN EmptyBuffer ELSE ADD_TO_URI(f[j - 1], texts[j])]

LEMMA BuiltIntoEqn ==
    ASSUME NEW u
    PROVE  BuiltInto(u) = (CHOOSE f : Gathers(f, Given(Pieces(u))))[Len(Given(Pieces(u)))]
  BY Zenon DEF BuiltInto, Gathers

LEMMA AddType ==
    ASSUME NEW b \in Buffers, NEW text, Len(text) \in Nat
    PROVE  ADD_TO_URI(b, text) \in Buffers
<1>1. b.len \in Nat /\ b.bufsize \in Nat /\ b.size \in Nat /\ b.over \in Int
  BY DEF Buffers
<1>. DEFINE need == b.len + Len(text)
            held == IF b.bufsize < need THEN need + 2 ELSE b.bufsize
            size == IF b.bufsize < need THEN need + 2 ELSE b.size
            over == IF need + 1 > size + b.over THEN need + 1 - size ELSE b.over
<1>2. ADD_TO_URI(b, text) =
        [len |-> need, bufsize |-> held, size |-> size, over |-> over]
  BY Zenon DEF ADD_TO_URI
<1>3. need \in Nat /\ held \in Nat /\ size \in Nat
  BY <1>1
<1>. HIDE DEF need, held, size
<1>4. over \in Int
  BY <1>1, <1>3
<1>. HIDE DEF over
<1>. QED
  BY <1>2, <1>3, <1>4 DEF Buffers

LEMMA GathersExists ==
    ASSUME NEW A, NEW texts \in Seq(Seq(A))
    PROVE  \E f : Gathers(f, texts)
<1>. DEFINE last == Len(texts)
            step == [j \in 1..last |-> [b \in Buffers |-> ADD_TO_URI(b, texts[j])]]
<1>1. last \in Nat /\ \A j \in 1..last : Len(texts[j]) \in Nat
  <2>1. \A j \in 1..last : texts[j] \in Seq(A)
    OBVIOUS
  <2>. QED
    BY <2>1
<1>2. step \in [1..last -> [Buffers -> Buffers]]
  BY <1>1, AddType
<1>3. EmptyBuffer \in Buffers
  BY UriAssumption DEF EmptyBuffer, Buffers
<1>4. PICK f : Recurses(f, Buffers, EmptyBuffer, last, step)
  <2>. HIDE DEF last, step
  <2>. QED
    BY <1>1, <1>2, <1>3, RecursiveFunction
<1>5. /\ f \in [0..last -> Buffers] /\ f[0] = EmptyBuffer
      /\ \A j \in 1..last : f[j] = step[j][f[j - 1]]
  BY <1>4 DEF Recurses
<1>6. ASSUME NEW j \in 0..last
      PROVE  f[j] = IF j = 0 THEN EmptyBuffer ELSE ADD_TO_URI(f[j - 1], texts[j])
  <2>1. CASE j = 0
    BY <1>5, <2>1
  <2>2. CASE j # 0
    <3>1. j \in 1..last /\ j - 1 \in 0..last
      BY <1>1, <2>2
    <3>2. f[j] = step[j][f[j - 1]] /\ f[j - 1] \in Buffers
      BY <1>5, <3>1
    <3>. QED
      BY <2>2, <3>1, <3>2
  <2>. QED
    BY <2>1, <2>2
<1>7. f = [j \in 0..last |-> IF j = 0 THEN EmptyBuffer ELSE ADD_TO_URI(f[j - 1], texts[j])]
  BY <1>5, <1>6
<1>. QED
  BY <1>7 DEF Gathers

(***************************************************************************)
(* What the code takes for the buffer's size is never more than it is, and *)
(* a text may come to that size without making it grow: its 0 is then the  *)
(* one byte behind.                                                        *)
(***************************************************************************)
Fitting(b) ==
    /\ b \in Buffers
    /\ b.len <= b.bufsize /\ b.bufsize <= b.size
    /\ b.over \in {0, 1}

LEMMA AddFits ==
    ASSUME NEW b, Fitting(b), NEW text, Len(text) \in Nat
    PROVE  /\ Fitting(ADD_TO_URI(b, text))
           /\ ADD_TO_URI(b, text).len = b.len + Len(text)
<1>1. /\ b.len \in Nat /\ b.bufsize \in Nat /\ b.size \in Nat /\ b.over \in {0, 1}
      /\ b.len <= b.bufsize /\ b.bufsize <= b.size
  BY DEF Fitting, Buffers
<1>2. ADD_TO_URI(b, text) \in Buffers
  BY AddType DEF Fitting
<1>. DEFINE need == b.len + Len(text)
<1>3. CASE b.bufsize < need
  <2>1. ADD_TO_URI(b, text) =
            [len |-> need, bufsize |-> need + 2, size |-> need + 2, over |-> b.over]
    <3>1. ~(need + 1 > need + 2 + b.over)
      BY <1>1
    <3>. QED
      BY <1>3, <3>1 DEF ADD_TO_URI
  <2>. QED
    BY <1>1, <1>2, <2>1 DEF Fitting
<1>4. CASE ~(b.bufsize < need)
  <2>. DEFINE over == IF need + 1 > b.size + b.over THEN need + 1 - b.size ELSE b.over
  <2>1. ADD_TO_URI(b, text) =
            [len |-> need, bufsize |-> b.bufsize, size |-> b.size, over |-> over]
    BY <1>4, Zenon DEF ADD_TO_URI
  <2>2. over \in {0, 1}
    <3>1. need \in Nat /\ need <= b.size
      BY <1>1, <1>4
    <3>. HIDE DEF need
    <3>2. CASE b.over = 1
      <4>1. ~(need + 1 > b.size + b.over)
        BY <1>1, <3>1, <3>2
      <4>. QED
        BY <3>2, <4>1
    <3>3. CASE b.over = 0
      <4>1. need + 1 > b.size + b.over => need + 1 - b.size = 1
        BY <1>1, <3>1, <3>3
      <4>. QED
        BY <3>3, <4>1
    <3>. QED
      BY <1>1, <3>2, <3>3
  <2>. HIDE DEF need, over
  <2>3. /\ ADD_TO_URI(b, text).len = need /\ ADD_TO_URI(b, text).bufsize = b.bufsize
        /\ ADD_TO_URI(b, text).size = b.size /\ ADD_TO_URI(b, text).over = over
    BY <2>1
  <2>4. need <= b.bufsize
    BY <1>1, <1>4 DEF need
  <2>. QED
    BY <1>1, <1>2, <2>2, <2>3, <2>4 DEF Fitting, need
<1>. QED
  BY <1>3, <1>4

\* Whatever uri libdistexec_uri_build is given and whatever its buffer's first
\* size, it writes at most one byte behind the buffer, the 0 of a text that ends
\* where the code takes the buffer to end (uri.c:174-186); and the length it goes
\* by is that of the text it returns.
THEOREM BuildOverrun ==
    ASSUME NEW C, NEW u \in Uris(C)
    PROVE  BuiltInto(u).over \in {0, 1} /\ BuiltInto(u).len = Len(build(u))
<1>. DEFINE A == Coded(C)
            texts == Given(Pieces(u))
            f == CHOOSE g : Gathers(g, texts)
            Joined(j) == FlattenSeq(SubSeq(texts, 1, j))
            S == {j \in Nat : j <= Len(texts) =>
                    Fitting(f[j]) /\ f[j].len = Len(Joined(j))}
<1>1. texts \in Seq(Seq(A)) /\ Len(texts) \in Nat
  <2>. HIDE DEF A
  <2>1. Pieces(u) \in Seq(Maybe(A))
    BY PiecesType DEF A
  <2>. QED
    BY <2>1, GivenType
<1>. HIDE DEF A
<1>2. BuiltInto(u) = f[Len(texts)]
  BY BuiltIntoEqn
<1>3. build(u) = FlattenSeq(texts)
  BY DEF build
<1>. HIDE DEF texts
<1>4. Gathers(f, texts)
  BY <1>1, GathersExists, Zenon
<1>. HIDE DEF f
<1>5. \A j \in 0..Len(texts) :
        f[j] = IF j = 0 THEN EmptyBuffer ELSE ADD_TO_URI(f[j - 1], texts[j])
  BY <1>4, Zenon DEF Gathers
<1>6. 0 \in S
  <2>1. f[0] = EmptyBuffer
    BY <1>1, <1>5
  <2>2. Fitting(EmptyBuffer) /\ EmptyBuffer.len = 0
    BY UriAssumption DEF EmptyBuffer, Fitting, Buffers
  <2>3. SubSeq(texts, 1, 0) = << >>
    BY SubSeqEmpty
  <2>4. Len(Joined(0)) = 0
    <3>1. Joined(0) = << >>
      BY <2>3, FlattenEmpty, Zenon
    <3>. QED
      BY <3>1
  <2>. QED
    BY <2>1, <2>2, <2>4
<1>7. ASSUME NEW j \in Nat, j \in S
      PROVE  j + 1 \in S
  <2>. SUFFICES ASSUME j + 1 <= Len(texts)
                PROVE  Fitting(f[j + 1]) /\ f[j + 1].len = Len(Joined(j + 1))
    OBVIOUS
  <2>. DEFINE some == SubSeq(texts, 1, j)
  <2>1. /\ j + 1 \in 0..Len(texts) /\ j + 1 # 0 /\ (j + 1) - 1 = j
        /\ j \in 0..(Len(texts) - 1) /\ j \in 0..Len(texts) /\ j + 1 \in 1..Len(texts)
    BY <1>1
  <2>2. f[j + 1] = ADD_TO_URI(f[j], texts[j + 1])
    BY <1>5, <2>1
  <2>3. Fitting(f[j]) /\ f[j].len = Len(FlattenSeq(some))
    BY <1>7, <2>1
  <2>4. texts[j + 1] \in Seq(A) /\ Len(texts[j + 1]) \in Nat
    BY <1>1, <2>1
  <2>5. SubSeq(texts, 1, j + 1) = Append(some, texts[j + 1])
    <3>1. PICK X : X = Seq(A)
      OBVIOUS
    <3>2. texts \in Seq(X)
      BY <1>1, <3>1
    <3>. QED
      BY <2>1, <3>2, TakeOneMore
  <2>6. some \in Seq(Seq(A))
    <3>1. PICK X : X = Seq(A)
      OBVIOUS
    <3>2. texts \in Seq(X)
      BY <1>1, <3>1
    <3>3. some \in Seq(X)
      BY <2>1, <3>2, TakenIsPrefix
    <3>. QED
      BY <3>1, <3>3
  <2>. HIDE DEF some
  <2>7. Joined(j + 1) = FlattenSeq(some) \o texts[j + 1]
    BY <2>4, <2>5, <2>6, FlattenAppend
  <2>8. FlattenSeq(some) \in Seq(A)
    BY <2>6, FlattenType
  <2>9. Len(Joined(j + 1)) = Len(FlattenSeq(some)) + Len(texts[j + 1])
    BY <2>4, <2>7, <2>8, ConcatProperties
  <2>10. /\ Fitting(ADD_TO_URI(f[j], texts[j + 1]))
         /\ ADD_TO_URI(f[j], texts[j + 1]).len = f[j].len + Len(texts[j + 1])
    BY <2>3, <2>4, AddFits
  <2>. QED
    BY <2>2, <2>3, <2>9, <2>10
<1>8. \A j \in Nat : j \in S
  <2>. HIDE DEF S
  <2>. QED
    BY <1>6, <1>7, InductiveSet
<1>9. Fitting(f[Len(texts)]) /\ f[Len(texts)].len = Len(Joined(Len(texts)))
  BY <1>1, <1>8
<1>10. Joined(Len(texts)) = FlattenSeq(texts)
  <2>1. PICK X : X = Seq(A)
    OBVIOUS
  <2>2. SubSeq(texts, 1, Len(texts)) = texts
    BY <1>1, <2>1, SubSeqFull
  <2>. QED
    BY <2>2
<1>. QED
  BY <1>2, <1>3, <1>9, <1>10 DEF Fitting

-----------------------------------------------------------------------------
(* Parameters are added and set *)

LEMMA AddsParam ==
    ASSUME NEW C, NEW u \in Uris(C), NEW key \in Maybe(C), NEW value \in Maybe(C)
    PROVE  add_get_param(u, key, value) \in Uris(C)
<1>. DEFINE p == [key |-> key, value |-> value]
            params == Append(u.get_params, p)
<1>1. params \in Seq(Params(C))
  <2>1. PICK P : P = Params(C)
    OBVIOUS
  <2>2. u.get_params \in Seq(P) /\ p \in P
    BY <2>1 DEF Uris, Params
  <2>. HIDE DEF p
  <2>3. Append(u.get_params, p) \in Seq(P)
    BY <2>2
  <2>. QED
    BY <2>1, <2>3
<1>2. add_get_param(u, key, value) = u \/
      add_get_param(u, key, value) = [u EXCEPT !.get_params = params]
  BY DEF add_get_param
<1>. HIDE DEF params
<1>3. [u EXCEPT !.get_params = params] \in Uris(C)
  BY <1>1 DEF Uris
<1>. QED
  BY <1>2, <1>3

\* A uri over some symbols is one over more of them.
LEMMA MoreSymbols ==
    ASSUME NEW C, NEW D, C \subseteq D
    PROVE  Maybe(C) \subseteq Maybe(D) /\ Uris(C) \subseteq Uris(D)
<1>1. Maybe(C) \subseteq Maybe(D)
  BY SeqMonotonic DEF Maybe
<1>2. Params(C) \subseteq Params(D)
  BY <1>1 DEF Params
<1>3. Seq(Params(C)) \subseteq Seq(Params(D))
  <2>1. PICK P, Q : P = Params(C) /\ Q = Params(D)
    OBVIOUS
  <2>. QED
    BY <1>2, <2>1, SeqMonotonic
<1>. QED
  BY <1>1, <1>3 DEF Uris
-----------------------------------------------------------------------------
(* From a text to a uri *)

LEMMA FindType ==
    ASSUME NEW url, Len(url) \in Nat, NEW k \in Nat \ {0}, NEW chars
    PROVE  /\ Find(url, k, chars) \in Nat \ {0}
           /\ k <= Len(url) + 1 => Find(url, k, chars) \in k..(Len(url) + 1)
<1>. DEFINE at == {c \in k..Len(url) : url[c] \in chars}
<1>1. CASE at = {}
  <2>1. Find(url, k, chars) = Len(url) + 1
    BY <1>1, Zenon DEF Find
  <2>. QED
    BY <2>1
<1>2. CASE at # {}
  <2>1. at \in SUBSET (1..Len(url)) /\ \A c \in at : c \in k..Len(url)
    OBVIOUS
  <2>. HIDE DEF at
  <2>2. \E c \in at : \A d \in at : c <= d
    BY <1>2, <2>1, Smallest
  <2>3. Find(url, k, chars) = CHOOSE c \in at : \A d \in at : c <= d
    BY <1>2, Zenon DEF Find, at
  <2>4. Find(url, k, chars) \in at
    BY <2>2, <2>3
  <2>5. Find(url, k, chars) \in k..Len(url)
    BY <2>1, <2>4
  <2>. QED
    BY <2>5
<1>. QED
  BY <1>1, <1>2

\* What a copy between any two positions holds.
At(url) == {url[c] : c \in Int}

LEMMA CopyType ==
    ASSUME NEW url, NEW from \in Int, NEW to \in Int
    PROVE  SubSeq(url, from, to) \in Seq(At(url))
<1>1. \A c \in Int : url[c] \in At(url)
  BY DEF At
<1>. QED
  BY <1>1

\* The symbols decode may put in the place of others.
Decoded(C) == C \union {e[1] : e \in ToSet(char_map)}

\* The function by which decode is defined: what follows from a position on.
Meant(v, k) ==
    {e \in ToSet(char_map) :
        k + 2 <= Len(v) /\ SubSeq(v, k, k + 2) = <<"%", e[2], e[3]>>}

DecodedFrom(f, v, k) ==
    IF k > Len(v) THEN << >>
    ELSE IF Meant(v, k) = {} THEN <<v[k]>> \o f[k + 1]
    ELSE <<(CHOOSE e \in Meant(v, k) : TRUE)[1]>> \o f[k + 3]

Decodes(f, v) == f = [k \in 1..(Len(v) + 1) |-> DecodedFrom(f, v, k)]

LEMMA DecodeEqn ==
    ASSUME NEW v
    PROVE  decode(v) = (CHOOSE f : Decodes(f, v))[1]
  BY Zenon DEF decode, Decodes, DecodedFrom, Meant

LEMMA DecodedFromType ==
    ASSUME NEW C, NEW v \in Seq(C), NEW f, NEW k \in 1..(Len(v) + 1),
           \A c \in (k + 1)..(Len(v) + 1) : f[c] \in Seq(Decoded(C))
    PROVE  DecodedFrom(f, v, k) \in Seq(Decoded(C))
<1>. DEFINE D == Decoded(C)
            e == CHOOSE e \in Meant(v, k) : TRUE
<1>1. Len(v) \in Nat
  OBVIOUS
<1>2. CASE k > Len(v)
  BY <1>2 DEF DecodedFrom
<1>3. CASE k <= Len(v) /\ Meant(v, k) = {}
  <2>1. v[k] \in D
    BY <1>3 DEF Decoded
  <2>2. f[k + 1] \in Seq(D)
    BY <1>1, <1>3
  <2>3. DecodedFrom(f, v, k) = <<v[k]>> \o f[k + 1]
    BY <1>1, <1>3 DEF DecodedFrom
  <2>. HIDE DEF D
  <2>. QED
    BY <2>1, <2>2, <2>3 DEF D
<1>4. CASE k <= Len(v) /\ Meant(v, k) # {}
  <2>1. e \in Meant(v, k)
    BY <1>4
  <2>. HIDE DEF e
  <2>2. e \in ToSet(char_map) /\ k + 2 <= Len(v)
    BY <2>1, Zenon DEF Meant
  <2>3. e[1] \in D
    BY <2>2 DEF Decoded
  <2>4. f[k + 3] \in Seq(D)
    BY <1>1, <2>2
  <2>5. DecodedFrom(f, v, k) = <<e[1]>> \o f[k + 3]
    BY <1>1, <1>4 DEF DecodedFrom, e
  <2>. HIDE DEF D
  <2>. QED
    BY <2>3, <2>4, <2>5 DEF D
<1>. QED
  BY <1>1, <1>2, <1>3, <1>4

\* It does not matter what f is at k or before.
LEMMA DecodedFromSame ==
    ASSUME NEW v, Len(v) \in Nat, NEW f, NEW g, NEW k \in 1..(Len(v) + 1),
           \A c \in (k + 1)..(Len(v) + 1) : f[c] = g[c]
    PROVE  DecodedFrom(f, v, k) = DecodedFrom(g, v, k)
<1>1. CASE k > Len(v)
  BY <1>1 DEF DecodedFrom
<1>2. CASE k <= Len(v) /\ Meant(v, k) = {}
  <2>1. f[k + 1] = g[k + 1]
    BY <1>2
  <2>. QED
    BY <1>2, <2>1 DEF DecodedFrom
<1>3. CASE k <= Len(v) /\ Meant(v, k) # {}
  <2>1. k + 2 <= Len(v)
    BY <1>3 DEF Meant
  <2>2. f[k + 3] = g[k + 3]
    BY <2>1
  <2>. QED
    BY <1>3, <2>2 DEF DecodedFrom
<1>. QED
  BY <1>1, <1>2, <1>3

\* f is what is decoded from each of the last m positions and the end on.
DecodesLast(f, v, m) ==
    \A k \in (Len(v) + 1 - m)..(Len(v) + 1) : f[k] = DecodedFrom(f, v, k)

LEMMA DecodesExists ==
    ASSUME NEW v, Len(v) \in Nat
    PROVE  \E f : Decodes(f, v)
<1>. DEFINE last == Len(v) + 1
            S == {m \in Nat : m <= Len(v) => \E f : DecodesLast(f, v, m)}
<1>1. 0 \in S
  <2>. DEFINE f == [k \in 1..last |-> << >>]
  <2>1. ASSUME NEW k \in (last - 0)..last
        PROVE  f[k] = DecodedFrom(f, v, k)
    <3>1. k = last /\ k > Len(v) /\ k \in 1..last
      OBVIOUS
    <3>. QED
      BY <3>1 DEF DecodedFrom
  <2>2. DecodesLast(f, v, 0)
    BY <2>1 DEF DecodesLast
  <2>. QED
    BY <2>2
<1>2. ASSUME NEW m \in Nat, m \in S
      PROVE  m + 1 \in S
  <2>. SUFFICES ASSUME m + 1 <= Len(v)
                PROVE  \E f : DecodesLast(f, v, m + 1)
    OBVIOUS
  <2>1. PICK f : DecodesLast(f, v, m)
    <3>1. m <= Len(v)
      OBVIOUS
    <3>. QED
      BY <1>2, <3>1
  <2>. DEFINE at == last - (m + 1)
              g == [k \in 1..last |-> IF k = at THEN DecodedFrom(f, v, at) ELSE f[k]]
  <2>2. at \in 1..Len(v) /\ last \in Nat
    OBVIOUS
  <2>3. ASSUME NEW k \in at..last
        PROVE  g[k] = DecodedFrom(g, v, k)
    <3>1. k \in 1..last /\ \A c \in (k + 1)..last : c \in 1..last /\ c # at
      BY <2>2
    <3>2. \A c \in (k + 1)..last : f[c] = g[c]
      BY <3>1
    <3>3. g[k] = IF k = at THEN DecodedFrom(f, v, at) ELSE f[k]
      BY <3>1
    <3>. HIDE DEF g
    <3>4. DecodedFrom(f, v, k) = DecodedFrom(g, v, k)
      BY <3>1, <3>2, DecodedFromSame
    <3>5. k # at => k \in (last - m)..last
      BY <2>2
    <3>6. k # at => f[k] = DecodedFrom(f, v, k)
      BY <2>1, <3>5 DEF DecodesLast
    <3>. QED
      BY <3>3, <3>4, <3>6
  <2>. HIDE DEF g
  <2>4. DecodesLast(g, v, m + 1)
    BY <2>3 DEF DecodesLast
  <2>. QED
    BY <2>4
<1>3. \A m \in Nat : m \in S
  <2>. HIDE DEF S
  <2>. QED
    BY <1>1, <1>2, InductiveSet
<1>4. PICK f : DecodesLast(f, v, Len(v))
  BY <1>3
<1>. DEFINE g == [k \in 1..last |-> f[k]]
<1>5. ASSUME NEW k \in 1..last
      PROVE  g[k] = DecodedFrom(g, v, k)
  <2>1. g[k] = DecodedFrom(f, v, k)
    BY <1>4 DEF DecodesLast
  <2>2. \A c \in (k + 1)..last : f[c] = g[c]
    OBVIOUS
  <2>. HIDE DEF g
  <2>. QED
    BY <2>1, <2>2, DecodedFromSame
<1>6. Decodes(g, v)
  <2>1. g = [k \in 1..last |-> DecodedFrom(g, v, k)]
    <3>1. g = [k \in 1..last |-> g[k]]
      OBVIOUS
    <3>. HIDE DEF g
    <3>. QED
      BY <1>5, <3>1
  <2>. QED
    BY <2>1 DEF Decodes
<1>. QED
  BY <1>6

LEMMA DecodeType ==
    ASSUME NEW C, NEW v \in Seq(C)
    PROVE  decode(v) \in Seq(Decoded(C))
<1>. DEFINE f == CHOOSE f : Decodes(f, v)
            last == Len(v) + 1
            D == Seq(Decoded(C))
            S == {m \in Nat : m <= Len(v) => \A k \in (last - m)..last : f[k] \in D}
<1>1. Len(v) \in Nat /\ last \in Nat
  OBVIOUS
<1>2. Decodes(f, v)
  BY <1>1, DecodesExists
<1>. HIDE DEF f
<1>3. \A k \in 1..last : f[k] = DecodedFrom(f, v, k)
  BY <1>2, Zenon DEF Decodes
<1>4. 0 \in S
  <2>1. DecodedFrom(f, v, last) = << >>
    BY <1>1 DEF DecodedFrom
  <2>2. f[last] = << >> /\ << >> \in D
    BY <1>1, <1>3, <2>1
  <2>3. (last - 0)..last = {last}
    BY <1>1
  <2>. HIDE DEF D, last
  <2>. QED
    BY <2>2, <2>3
<1>5. ASSUME NEW m \in Nat, m \in S
      PROVE  m + 1 \in S
  <2>. SUFFICES ASSUME m + 1 <= Len(v), NEW k \in (last - (m + 1))..last
                PROVE  f[k] \in D
    OBVIOUS
  <2>1. \A c \in (last - m)..last : f[c] \in D
    <3>1. m <= Len(v)
      BY <1>1
    <3>. QED
      BY <1>5, <3>1
  <2>2. k \in 1..last /\ \A c \in (k + 1)..last : c \in (last - m)..last
    BY <1>1
  <2>3. \A c \in (k + 1)..last : f[c] \in Seq(Decoded(C))
    BY <2>1, <2>2
  <2>4. DecodedFrom(f, v, k) \in D
    BY <2>2, <2>3, DecodedFromType
  <2>. QED
    BY <1>3, <2>2, <2>4
<1>6. \A m \in Nat : m \in S
  <2>. HIDE DEF S
  <2>. QED
    BY <1>4, <1>5, InductiveSet
<1>7. f[1] \in D
  BY <1>1, <1>6
<1>. QED
  BY <1>7, DecodeEqn DEF f

\* What decode compares a code with.
LEMMA ThreeSymbols ==
    ASSUME NEW w, NEW k \in Nat
    PROVE  SubSeq(w, k, k + 2) = <<w[k], w[k + 1], w[k + 2]>>
<1>. DEFINE s == SubSeq(w, k, k + 2)
            t == <<w[k], w[k + 1], w[k + 2]>>
            A == {w[j] : j \in k..(k + 2)}
<1>1. \A j \in k..(k + 2) : w[j] \in A
  OBVIOUS
<1>. HIDE DEF A
<1>2. s \in Seq(A) /\ Len(s) = 3 /\ \A j \in 1..3 : s[j] = w[k + j - 1]
  <2>1. k \in Int /\ k + 2 \in Int /\ k <= (k + 2) + 1
    OBVIOUS
  <2>2. /\ s \in Seq(A) /\ Len(s) = (k + 2) - k + 1
        /\ \A j \in 1..((k + 2) - k + 1) : s[j] = w[k + j - 1]
    BY <1>1, <2>1, SubSeqProperties
  <2>. QED
    BY <2>2
<1>3. t \in Seq(A) /\ Len(t) = 3 /\ t[1] = w[k] /\ t[2] = w[k + 1] /\ t[3] = w[k + 2]
  BY <1>1
<1>. HIDE DEF s, t
<1>4. s[1] = w[k] /\ s[2] = w[k + 1] /\ s[3] = w[k + 2]
  <2>1. 1 \in 1..3 /\ 2 \in 1..3 /\ 3 \in 1..3
        /\ k + 1 - 1 = k /\ k + 2 - 1 = k + 1 /\ k + 3 - 1 = k + 2
    OBVIOUS
  <2>. QED
    BY <1>2, <2>1
<1>5. \A j \in 1..3 : s[j] = t[j]
  BY <1>3, <1>4
<1>6. s = t
  BY <1>2, <1>3, <1>5, SeqEqual
<1>. QED
  BY <1>6 DEF s, t

\* The table has no code twice, and one for the sign that begins a code.
LEMMA CodesDiffer ==
    \A e, d \in ToSet(char_map) : e[2] = d[2] /\ e[3] = d[3] => e[1] = d[1]
  BY DEF char_map, ToSet

LEMMA PercentIsCoded == \E e \in ToSet(char_map) : e[1] = "%"
<1>1. 22 \in DOMAIN char_map /\ char_map[22][1] = "%"
  BY DEF char_map
<1>. QED
  BY <1>1 DEF ToSet

\* The code of c is what w has behind the position at.
CodeLies(c, w, at) ==
    /\ at + Len(CodeOf(c)) <= Len(w)
    /\ \A j \in 1..Len(CodeOf(c)) : w[at + j] = CodeOf(c)[j]

\* f is the function that decode defines for w.
Follows(f, w) == \A k \in 1..(Len(w) + 1) : f[k] = DecodedFrom(f, w, k)

\* What it gives before a code is the symbol and what it gives behind the code.
StepsOver(f, c, at) == f[at + 1] = <<c>> \o f[at + Len(CodeOf(c)) + 1]

LEMMA DecodesCode ==
    ASSUME NEW w, Len(w) \in Nat, NEW f, NEW c, NEW at \in Nat,
           CodeLies(c, w, at), Follows(f, w)
    PROVE  StepsOver(f, c, at)
<1>. DEFINE found == {e \in ToSet(char_map) : e[1] = c}
            code == CHOOSE e \in found : TRUE
<1>2. CASE found = {}
  <2>1. CodeOf(c) = <<c>>
    BY <1>2 DEF CodeOf
  <2>2. w[at + 1] = c /\ at + 1 <= Len(w) /\ Len(CodeOf(c)) = 1
    BY <2>1 DEF CodeLies
  <2>3. c # "%"
    BY <1>2, PercentIsCoded
  <2>4. Meant(w, at + 1) = {}
    <3>1. SUFFICES ASSUME NEW e \in Meant(w, at + 1) PROVE FALSE
      OBVIOUS
    <3>2. (at + 1) + 2 <= Len(w) /\ SubSeq(w, at + 1, (at + 1) + 2) = <<"%", e[2], e[3]>>
      BY <3>1, Zenon DEF Meant
    <3>3. SubSeq(w, at + 1, (at + 1) + 2)
            = <<w[at + 1], w[(at + 1) + 1], w[(at + 1) + 2]>>
      <4>1. at + 1 \in Nat
        OBVIOUS
      <4>. QED
        BY <4>1, ThreeSymbols
    <3>4. w[at + 1] = "%"
      BY <3>2, <3>3
    <3>. QED
      BY <2>2, <2>3, <3>4
  <2>5. f[at + 1] = DecodedFrom(f, w, at + 1)
    BY <2>2 DEF Follows
  <2>6. DecodedFrom(f, w, at + 1) = <<w[at + 1]>> \o f[(at + 1) + 1]
    BY <2>2, <2>4 DEF DecodedFrom
  <2>. QED
    BY <2>2, <2>5, <2>6 DEF StepsOver
<1>3. CASE found # {}
  <2>1. CodeOf(c) = <<"%", code[2], code[3]>>
    BY <1>3, Zenon DEF CodeOf
  <2>2. code \in ToSet(char_map) /\ code[1] = c
    <3>1. code \in found
      BY <1>3
    <3>. QED
      BY <3>1
  <2>. HIDE DEF code, found
  <2>3. /\ Len(CodeOf(c)) = 3 /\ (at + 1) + 2 <= Len(w)
        /\ w[at + 1] = "%" /\ w[at + 2] = code[2] /\ w[at + 3] = code[3]
    BY <2>1 DEF CodeLies
  <2>4. SubSeq(w, at + 1, (at + 1) + 2) = <<"%", code[2], code[3]>>
    <3>1. at + 1 > 0 /\ at + 1 \in Nat /\ (at + 1) + 1 = at + 2 /\ (at + 1) + 2 = at + 3
      OBVIOUS
    <3>2. SubSeq(w, at + 1, (at + 1) + 2)
            = <<w[at + 1], w[(at + 1) + 1], w[(at + 1) + 2]>>
      BY <2>3, <3>1, ThreeSymbols
    <3>. QED
      BY <2>3, <3>1, <3>2
  <2>5. code \in Meant(w, at + 1)
    BY <2>2, <2>3, <2>4 DEF Meant
  <2>6. ASSUME NEW e \in Meant(w, at + 1) PROVE e[1] = c
    <3>1. e \in ToSet(char_map) /\ <<"%", e[2], e[3]>> = <<"%", code[2], code[3]>>
      BY <2>4, <2>6, Zenon DEF Meant
    <3>2. e[2] = code[2] /\ e[3] = code[3]
      BY <3>1
    <3>. QED
      BY <2>2, <3>1, <3>2, CodesDiffer
  <2>7. (CHOOSE e \in Meant(w, at + 1) : TRUE)[1] = c
    BY <2>5, <2>6
  <2>8. DecodedFrom(f, w, at + 1)
          = <<(CHOOSE e \in Meant(w, at + 1) : TRUE)[1]>> \o f[(at + 1) + 3]
    BY <2>3, <2>5 DEF DecodedFrom
  <2>9. at + Len(CodeOf(c)) + 1 = (at + 1) + 3
    BY <2>3
  <2>10. f[at + 1] = DecodedFrom(f, w, at + 1)
    BY <2>3 DEF Follows
  <2>. QED
    BY <2>7, <2>8, <2>9, <2>10 DEF StepsOver
<1>. QED
  BY <1>2, <1>3

(***************************************************************************)
(* Whatever signs a value has, libdistexec_uri_decode gives back what      *)
(* libdistexec_uri_encode was given (uri.c:353-421).  Behind the codes of   *)
(* the first symbols decode stands before the next one, and from there it  *)
(* gives the rest of the value: that is the induction, from the end.       *)
(***************************************************************************)
THEOREM DecodeUndoesEncode ==
    ASSUME NEW C, NEW v \in Seq(C)
    PROVE  decode(encode(v)) = v
<1>. DEFINE A == Coded(C)
            n == Len(v)
            codes == [j \in DOMAIN v |-> CodeOf(v[j])]
            w == encode(v)
            f == CHOOSE f : Decodes(f, w)
            After(k) == FlatLen(codes, k) + 1
            S == {m \in Nat : m <= n => f[After(n - m)] = SubSeq(v, n - m + 1, n)}
<1>1. n \in Nat /\ DOMAIN v = 1..n /\ \A j \in 1..n : v[j] \in C
  OBVIOUS
<1>2. codes \in Seq(Seq(A)) /\ Len(codes) = n /\ \A j \in 1..n : codes[j] = CodeOf(v[j])
  <2>1. \A j \in 1..n : CodeOf(v[j]) \in Seq(A)
    BY <1>1, CodeType
  <2>2. PICK X : X = Seq(A)
    OBVIOUS
  <2>3. codes \in [1..n -> X]
    BY <1>1, <2>1, <2>2
  <2>4. codes \in Seq(X) /\ Len(codes) = n
    <3>. HIDE DEF codes, n
    <3>. QED
      BY <1>1, <2>3
  <2>. QED
    BY <1>1, <2>2, <2>4
<1>3. w = FlattenSeq(codes)
  BY EncodeEqn
<1>4. w \in Seq(A) /\ Len(w) \in Nat
  <2>1. w \in Seq(A)
    BY EncodeType
  <2>. QED
    BY <2>1
<1>. HIDE DEF codes, w, A
<1>5. Decodes(f, w)
  BY <1>4, DecodesExists
<1>. HIDE DEF f
<1>6. Follows(f, w)
  BY <1>5, Zenon DEF Decodes, Follows
<1>. HIDE DEF n
<1>7. 0 \in S
  <2>1. FlatLen(codes, n) = Len(w)
    <3>1. SubSeq(codes, 1, n) = codes
      BY <1>2, SubSeqFull
    <3>. QED
      BY <1>3, <3>1 DEF FlatLen
  <2>2. f[Len(w) + 1] = << >>
    <3>1. Len(w) + 1 \in 1..(Len(w) + 1) /\ Len(w) + 1 > Len(w)
      BY <1>4
    <3>. QED
      BY <1>6, <3>1 DEF DecodedFrom, Follows
  <2>3. SubSeq(v, n + 1, n) = << >>
    BY <1>1, SubSeqEmpty
  <2>4. n - 0 = n
    BY <1>1
  <2>. QED
    BY <2>1, <2>2, <2>3, <2>4
<1>8. ASSUME NEW m \in Nat, m \in S
      PROVE  m + 1 \in S
  <2>. SUFFICES ASSUME m + 1 <= n
                PROVE  f[After(n - (m + 1))] = SubSeq(v, n - (m + 1) + 1, n)
    OBVIOUS
  <2>. DEFINE k == n - (m + 1)
              at == FlatLen(codes, k)
              c == v[k + 1]
  <2>1. k \in 0..(n - 1) /\ k + 1 = n - m /\ k + 1 \in 1..n /\ m <= n
    BY <1>1
  <2>2. f[After(k + 1)] = SubSeq(v, (k + 1) + 1, n)
    BY <1>8, <2>1
  <2>. HIDE DEF k
  <2>3. codes[k + 1] = CodeOf(c)
    BY <1>2, <2>1
  <2>4. /\ at \in Nat /\ FlatLen(codes, k + 1) = at + Len(CodeOf(c))
        /\ at + Len(CodeOf(c)) <= Len(w)
        /\ \A j \in 1..Len(CodeOf(c)) : w[at + j] = CodeOf(c)[j]
    <3>1. k \in 0..(Len(codes) - 1)
      BY <1>2, <2>1
    <3>. QED
      <4>1. /\ FlatLen(codes, k) \in Nat
            /\ FlatLen(codes, k + 1) = FlatLen(codes, k) + Len(codes[k + 1])
            /\ FlatLen(codes, k + 1) <= Len(FlattenSeq(codes))
            /\ \A j \in 1..Len(codes[k + 1]) :
                 FlattenSeq(codes)[FlatLen(codes, k) + j] = codes[k + 1][j]
        BY <1>2, <3>1, FlattenPlace
      <4>. QED
        BY <1>3, <2>3, <4>1
  <2>5. CodeLies(c, w, at)
    BY <2>4 DEF CodeLies
  <2>. HIDE DEF at, c
  <2>6. f[at + 1] = <<c>> \o f[at + Len(CodeOf(c)) + 1]
    <3>1. Len(w) \in Nat /\ at \in Nat
      BY <1>4, <2>4
    <3>2. StepsOver(f, c, at)
      BY <1>6, <2>5, <3>1, DecodesCode
    <3>. QED
      BY <3>2 DEF StepsOver
  <2>7. f[at + 1] = <<c>> \o SubSeq(v, (k + 1) + 1, n)
    <3>1. After(k + 1) = at + Len(CodeOf(c)) + 1
      BY <2>4
    <3>. HIDE DEF After
    <3>. QED
      BY <2>2, <2>6, <3>1
  <2>8. <<v[k + 1]>> \o SubSeq(v, (k + 1) + 1, n) = SubSeq(v, k + 1, n)
    BY <1>1, <2>1, FirstAndRest DEF n
  <2>. QED
    BY <2>7, <2>8 DEF at, c, k
<1>9. \A m \in Nat : m \in S
  <2>. HIDE DEF S
  <2>. QED
    BY <1>7, <1>8, InductiveSet
<1>10. f[1] = v
  <2>1. FlatLen(codes, 0) = 0
    <3>1. SubSeq(codes, 1, 0) = << >>
      BY SubSeqEmpty
    <3>. QED
      <4>1. FlattenSeq(SubSeq(codes, 1, 0)) = << >>
        BY <3>1, FlattenEmpty, Zenon
      <4>. QED
        BY <4>1 DEF FlatLen
  <2>2. f[After(n - n)] = SubSeq(v, n - n + 1, n)
    BY <1>1, <1>9
  <2>3. n - n = 0 /\ n - n + 1 = 1
    BY <1>1
  <2>4. SubSeq(v, 1, n) = v
    BY SubSeqFull DEF n
  <2>. QED
    BY <2>1, <2>2, <2>3, <2>4
<1>. QED
  BY <1>10, DecodeEqn DEF f, w

LEMMA ParamType ==
    ASSUME NEW C, NEW token \in Seq(C)
    PROVE  /\ Param(token) \in Params(Decoded(C))
           /\ Param(token).key \in Maybe(Decoded(C)) /\ Param(token).value \in Maybe(Decoded(C))
<1>. DEFINE D == Decoded(C)
            key == Find(token, 1, ToSet(token) \ {"="})
            eq == Find(token, key, {"="})
            val == SubSeq(token, eq + 1, Len(token))
            k == IF key > Len(token) THEN NoText ELSE SubSeq(token, key, eq - 1)
            v == IF val = << >> THEN NoText ELSE decode(val)
<1>1. Len(token) \in Nat
  OBVIOUS
<1>2. key \in 1..(Len(token) + 1)
  BY <1>1, FindType
<1>. HIDE DEF key
<1>3. eq \in key..(Len(token) + 1)
  BY <1>1, <1>2, FindType
<1>. HIDE DEF eq
<1>4. C \subseteq D
  BY DEF Decoded
<1>5. val \in Seq(C)
  <2>1. CASE eq = Len(token) + 1
    <3>1. val = << >>
      BY <1>1, <2>1, SubSeqEmpty
    <3>2. << >> \in Seq(C)
      OBVIOUS
    <3>. HIDE DEF val
    <3>. QED
      BY <3>1, <3>2
  <2>2. CASE eq <= Len(token)
    <3>1. eq + 1 \in 1..(Len(token) + 1) /\ Len(token) \in (eq + 1 - 1)..Len(token)
      BY <1>1, <1>2, <1>3, <2>2
    <3>. QED
      BY <3>1, SubSeqProperties
  <2>. QED
    BY <1>1, <1>2, <1>3, <2>1, <2>2
<1>. HIDE DEF val
<1>6. v \in Maybe(D)
  BY <1>5, DecodeType DEF Maybe
<1>7. k \in Maybe(D)
  <2>1. CASE key > Len(token)
    BY <2>1 DEF Maybe
  <2>2. CASE ~(key > Len(token))
    <3>1. key \in 1..(Len(token) + 1) /\ eq - 1 \in (key - 1)..Len(token)
      BY <1>1, <1>2, <1>3
    <3>2. SubSeq(token, key, eq - 1) \in Seq(C)
      BY <3>1, SubSeqProperties
    <3>. HIDE DEF D
    <3>3. SubSeq(token, key, eq - 1) \in Seq(D)
      BY <1>4, <3>2, SeqMonotonic
    <3>. QED
      BY <2>2, <3>3 DEF Maybe
  <2>. QED
    BY <2>1, <2>2
<1>8. Param(token) = [key |-> k, value |-> v]
  BY Zenon DEF Param, k, v, val, eq, key
<1>. HIDE DEF k, v
<1>. QED
  BY <1>6, <1>7, <1>8 DEF Params

-----------------------------------------------------------------------------
(* The parts of a text *)

\* The parts, after one more symbol.
Extended(parts, s, sep, k) ==
    IF s[k] = sep THEN parts
    ELSE IF k = 1 \/ s[k - 1] = sep THEN Append(parts, <<s[k]>>)
    ELSE [parts EXCEPT ![Len(parts)] = Append(@, s[k])]

Splits(f, s, sep) ==
    f = [k \in 0..Len(s) |-> IF k = 0 THEN << >> ELSE Extended(f[k - 1], s, sep, k)]

LEMMA TokensEqn ==
    ASSUME NEW s, NEW sep
    PROVE  Tokens(s, sep) = (CHOOSE f : Splits(f, s, sep))[Len(s)]
  BY Zenon DEF Tokens, Splits, Extended

LEMMA ExtendedType ==
    ASSUME NEW C, NEW s \in Seq(C), NEW sep, NEW k \in 1..Len(s), NEW parts \in Seq(Seq(C))
    PROVE  Extended(parts, s, sep, k) \in Seq(Seq(C))
<1>. DEFINE grown == [parts EXCEPT ![Len(parts)] = Append(@, s[k])]
<1>1. PICK X : X = Seq(C)
  OBVIOUS
<1>2. s[k] \in C
  OBVIOUS
<1>3. \A text \in X : Append(text, s[k]) \in X
  BY <1>1, <1>2
<1>4. <<s[k]>> \in X /\ parts \in Seq(X)
  BY <1>1, <1>2
<1>5. Append(parts, <<s[k]>>) \in Seq(X)
  BY <1>4
<1>6. grown \in Seq(X)
  <2>1. /\ Len(parts) \in Nat /\ DOMAIN parts = 1..Len(parts)
        /\ \A c \in 1..Len(parts) : parts[c] \in X
    BY <1>4
  <2>2. grown = [c \in 1..Len(parts) |->
                    IF c = Len(parts) THEN Append(parts[c], s[k]) ELSE parts[c]]
    BY <2>1
  <2>3. grown \in [1..Len(parts) -> X]
    <3>. HIDE DEF grown
    <3>. QED
      BY <1>3, <2>1, <2>2
  <2>. HIDE DEF grown
  <2>4. \A m \in Nat : \A h \in [1..m -> X] : h \in Seq(X)
    OBVIOUS
  <2>. QED
    BY <2>1, <2>3, <2>4, Zenon
<1>7. Extended(parts, s, sep, k) \in {parts, Append(parts, <<s[k]>>), grown}
  BY Zenon DEF Extended
<1>. HIDE DEF grown
<1>. QED
  BY <1>1, <1>4, <1>5, <1>6, <1>7

LEMMA SplitsExists ==
    ASSUME NEW C, NEW s \in Seq(C), NEW sep
    PROVE  \E f : Splits(f, s, sep)
<1>. DEFINE last == Len(s)
            B == Seq(Seq(C))
            step == [k \in 1..last |-> [b \in B |-> Extended(b, s, sep, k)]]
<1>1. last \in Nat
  OBVIOUS
<1>2. step \in [1..last -> [B -> B]]
  BY ExtendedType
<1>3. << >> \in B
  OBVIOUS
<1>4. PICK f : Recurses(f, B, << >>, last, step)
  <2>. HIDE DEF last, step, B
  <2>. QED
    BY <1>1, <1>2, <1>3, RecursiveFunction
<1>. HIDE DEF B
<1>5. /\ f \in [0..last -> B] /\ f[0] = << >>
      /\ \A k \in 1..last : f[k] = step[k][f[k - 1]]
  BY <1>4 DEF Recurses
<1>6. ASSUME NEW k \in 0..last
      PROVE  f[k] = IF k = 0 THEN << >> ELSE Extended(f[k - 1], s, sep, k)
  <2>1. CASE k = 0
    BY <1>5, <2>1
  <2>2. CASE k # 0
    <3>1. k \in 1..last /\ k - 1 \in 0..last
      BY <1>1, <2>2
    <3>2. f[k] = step[k][f[k - 1]] /\ f[k - 1] \in B
      BY <1>5, <3>1
    <3>3. step[k][f[k - 1]] = Extended(f[k - 1], s, sep, k)
      BY <3>1, <3>2
    <3>. QED
      BY <2>2, <3>2, <3>3
  <2>. QED
    BY <2>1, <2>2
<1>7. f = [k \in 0..last |-> IF k = 0 THEN << >> ELSE Extended(f[k - 1], s, sep, k)]
  BY <1>5, <1>6
<1>. QED
  BY <1>7 DEF Splits

-----------------------------------------------------------------------------
(* The uri that parse returns *)

\* The function by which parse adds the parameters of the query.
Adds(f, query, u) ==
    f = [k \in 0..Len(query) |->
            IF k = 0 THEN u
            ELSE add_get_param(f[k - 1], Param(query[k]).key, Param(query[k]).value)]

\* A token of the query becomes a parameter.
LEMMA AddsToken ==
    ASSUME NEW C, NEW token \in Seq(C), NEW D, Decoded(C) \subseteq D, NEW u \in Uris(D)
    PROVE  add_get_param(u, Param(token).key, Param(token).value) \in Uris(D)
<1>1. Maybe(Decoded(C)) \subseteq Maybe(D)
  BY MoreSymbols
<1>2. Param(token).key \in Maybe(D) /\ Param(token).value \in Maybe(D)
  BY <1>1, ParamType
<1>. QED
  BY <1>2, AddsParam

LEMMA AddsExists ==
    ASSUME NEW C, NEW query \in Seq(Seq(C)), NEW D, Decoded(C) \subseteq D, NEW u \in Uris(D)
    PROVE  \E f : Adds(f, query, u)
<1>. DEFINE last == Len(query)
            B == Uris(D)
            Add(b, k) == add_get_param(b, Param(query[k]).key, Param(query[k]).value)
            step == [k \in 1..last |-> [b \in B |-> Add(b, k)]]
<1>1. last \in Nat /\ \A k \in 1..last : query[k] \in Seq(C)
  <2>1. PICK X : X = Seq(C)
    OBVIOUS
  <2>2. query \in Seq(X)
    BY <2>1
  <2>. QED
    BY <2>1, <2>2
<1>2. ASSUME NEW k \in 1..last, NEW b \in B
      PROVE  Add(b, k) \in B
  BY <1>1, AddsToken
<1>3. step \in [1..last -> [B -> B]]
  <2>. HIDE DEF B, Add, last
  <2>. QED
    BY <1>2
<1>4. PICK f : Recurses(f, B, u, last, step)
  <2>. HIDE DEF last, step, B
  <2>1. u \in B
    BY DEF B
  <2>. QED
    BY <1>1, <1>3, <2>1, RecursiveFunction
<1>. HIDE DEF B, Add
<1>5. /\ f \in [0..last -> B] /\ f[0] = u
      /\ \A k \in 1..last : f[k] = step[k][f[k - 1]]
  BY <1>4 DEF Recurses
<1>6. ASSUME NEW k \in 0..last
      PROVE  f[k] = IF k = 0 THEN u ELSE Add(f[k - 1], k)
  <2>1. CASE k = 0
    BY <1>5, <2>1
  <2>2. CASE k # 0
    <3>1. k \in 1..last /\ k - 1 \in 0..last
      BY <1>1, <2>2
    <3>2. f[k] = step[k][f[k - 1]] /\ f[k - 1] \in B
      BY <1>5, <3>1
    <3>3. step[k][f[k - 1]] = Add(f[k - 1], k)
      BY <3>1, <3>2
    <3>. QED
      BY <2>2, <3>2, <3>3
  <2>. QED
    BY <2>1, <2>2
<1>7. f = [k \in 0..last |-> IF k = 0 THEN u ELSE Add(f[k - 1], k)]
  BY <1>5, <1>6
<1>. QED
  BY <1>7 DEF Adds, Add

LEMMA SchemePartType ==
    ASSUME NEW C, NEW url \in Seq(C), SchemePart(url).rc = 0
    PROVE  /\ SchemePart(url).scheme \in Maybe(At(url))
           /\ SchemePart(url).uindex \in Nat \ {0}
           /\ SchemePart(url).p \in Nat \ {0}
<1>. DEFINE colon == Find(url, 1, {":"})
            text == SubSeq(url, 1, colon - 1)
            Is(k) == k <= Len(url) /\ url[k] = "/"
            p == IF Is(colon + 1) THEN colon + 3 ELSE colon + 4
            part == SchemePart(url)
<1>1. Len(url) \in Nat
  OBVIOUS
<1>2. colon \in Nat \ {0}
  BY <1>1, FindType
<1>3. text \in Seq(At(url))
  <2>1. colon - 1 \in Int /\ 1 \in Int
    BY <1>2
  <2>. HIDE DEF colon
  <2>. QED
    BY <2>1, CopyType
<1>4. part = CASE colon > Len(url) ->
                    [rc |-> 0, scheme |-> NoText, uindex |-> 1, p |-> Len(url) + 1]
               [] colon = Len(url) -> [rc |-> 1]
               [] colon < Len(url) /\ ~Is(colon + 1) /\ ~Is(colon + 2) -> [rc |-> 2]
               [] colon < Len(url) /\ (Is(colon + 1) \/ Is(colon + 2)) ->
                    [rc |-> 0, scheme |-> text, uindex |-> colon + 3, p |-> p]
  BY Zenon DEF SchemePart
<1>. HIDE DEF colon, text, Is
<1>5. p \in Nat \ {0}
  BY <1>2
<1>. HIDE DEF p
<1>6. \/ part = [rc |-> 0, scheme |-> NoText, uindex |-> 1, p |-> Len(url) + 1]
      \/ part = [rc |-> 1]
      \/ part = [rc |-> 2]
      \/ part = [rc |-> 0, scheme |-> text, uindex |-> colon + 3, p |-> p]
  <2>1. CASE colon > Len(url)
    BY <1>1, <1>2, <1>4, <2>1
  <2>2. CASE colon = Len(url)
    BY <1>1, <1>2, <1>4, <2>2
  <2>3. CASE colon < Len(url) /\ ~Is(colon + 1) /\ ~Is(colon + 2)
    BY <1>1, <1>2, <1>4, <2>3
  <2>4. CASE colon < Len(url) /\ (Is(colon + 1) \/ Is(colon + 2))
    BY <1>1, <1>2, <1>4, <2>4
  <2>. QED
    BY <1>1, <1>2, <2>1, <2>2, <2>3, <2>4
<1>7. CASE part = [rc |-> 0, scheme |-> NoText, uindex |-> 1, p |-> Len(url) + 1]
  BY <1>1, <1>7 DEF Maybe
<1>8. CASE part = [rc |-> 0, scheme |-> text, uindex |-> colon + 3, p |-> p]
  BY <1>2, <1>3, <1>5, <1>8 DEF Maybe
<1>. QED
  BY <1>6, <1>7, <1>8

-----------------------------------------------------------------------------
(* What encode leaves out *)

\* The sign that Find stops at is the first one it meets.
LEMMA FindsAt ==
    ASSUME NEW url, Len(url) \in Nat, NEW chars, NEW k \in Nat \ {0}, NEW m \in k..Len(url),
           url[m] \in chars, \A j \in k..(m - 1) : url[j] \notin chars
    PROVE  Find(url, k, chars) = m
<1>. DEFINE at == {c \in k..Len(url) : url[c] \in chars}
<1>1. m \in at /\ \A c \in at : m <= c
  <2>1. \A c \in at : c \in k..Len(url) /\ c \notin k..(m - 1)
    OBVIOUS
  <2>. QED
    BY <2>1
<1>2. \A c \in at : (\A d \in at : c <= d) => c = m
  <2>1. \A c \in at : c \in Nat
    OBVIOUS
  <2>. HIDE DEF at
  <2>. QED
    BY <1>1, <2>1
<1>3. Find(url, k, chars) = CHOOSE c \in at : \A d \in at : c <= d
  <2>1. at # {}
    BY <1>1
  <2>. QED
    BY <2>1, Zenon DEF Find, at
<1>. HIDE DEF at
<1>. QED
  BY <1>1, <1>2, <1>3

\* Where none of the signs is, Find goes to the end.
LEMMA FindsNone ==
    ASSUME NEW url, NEW chars, NEW k, \A j \in k..Len(url) : url[j] \notin chars
    PROVE  Find(url, k, chars) = Len(url) + 1
<1>. DEFINE at == {c \in k..Len(url) : url[c] \in chars}
<1>1. at = {}
  OBVIOUS
<1>. QED
  BY <1>1, Zenon DEF Find

\* The separator of parameters has a code, and no code holds it.
LEMMA SignsCoded ==
    /\ \E e \in ToSet(char_map) : e[1] = "&"
    /\ \A e \in ToSet(char_map) : e[2] # "&" /\ e[3] # "&"
<1>1. 4 \in DOMAIN char_map /\ char_map[4][1] = "&"
  BY DEF char_map
<1>2. \A e \in ToSet(char_map) : e[2] # "&" /\ e[3] # "&"
  BY DEF char_map, ToSet
<1>. QED
  BY <1>1, <1>2 DEF ToSet

\* A code holds no separator.
LEMMA CodeHides ==
    ASSUME NEW c \in Symbols
    PROVE  CodeOf(c) \in Without({"&"})
<1>. DEFINE found == {e \in ToSet(char_map) : e[1] = c}
            code == CHOOSE e \in found : TRUE
            A == Symbols \ {"&"}
<1>1. CASE found = {}
  <2>1. CodeOf(c) = <<c>> /\ c # "&"
    BY <1>1, SignsCoded DEF CodeOf
  <2>2. c \in A
    BY <2>1
  <2>. HIDE DEF A
  <2>3. <<c>> \in Seq(A)
    BY <2>2
  <2>. QED
    BY <2>1, <2>3 DEF A, Without
<1>2. CASE found # {}
  <2>1. CodeOf(c) = <<"%", code[2], code[3]>>
    BY <1>2, Zenon DEF CodeOf
  <2>2. code \in ToSet(char_map)
    <3>1. code \in found
      BY <1>2
    <3>. QED
      BY <3>1
  <2>. HIDE DEF code
  <2>3. "%" \in A /\ code[2] \in A /\ code[3] \in A
    BY <2>2, SignsCoded, UriAssumption
  <2>. HIDE DEF A
  <2>4. <<"%", code[2], code[3]>> \in Seq(A)
    BY <2>3
  <2>. QED
    BY <2>1, <2>4 DEF A, Without
<1>. QED
  BY <1>1, <1>2

\* An encoded value holds no separator.
LEMMA EncodeHides ==
    ASSUME NEW v \in Text
    PROVE  encode(v) \in Without({"&"})
<1>. DEFINE codes == [j \in DOMAIN v |-> CodeOf(v[j])]
            A == Symbols \ {"&"}
<1>1. Len(v) \in Nat /\ DOMAIN v = 1..Len(v) /\ \A j \in 1..Len(v) : v[j] \in Symbols
  BY DEF Text
<1>2. PICK X : X = Seq(A)
  OBVIOUS
<1>3. \A j \in 1..Len(v) : CodeOf(v[j]) \in X
  BY <1>1, <1>2, CodeHides DEF Without
<1>4. codes \in [1..Len(v) -> X]
  BY <1>1, <1>3
<1>. HIDE DEF codes, A
<1>5. codes \in Seq(X)
  BY <1>1, <1>4
<1>6. FlattenSeq(codes) \in Seq(A)
  BY <1>2, <1>5, FlattenType
<1>. QED
  BY <1>6, EncodeEqn DEF codes, A, Without

\* Nothing is encoded to nothing but nothing.
LEMMA EncodeNonempty ==
    ASSUME NEW v \in Text, v # << >>
    PROVE  encode(v) # << >>
<1>1. << >> \in Seq(Symbols) /\ v \in Seq(Symbols)
  BY DEF Text
<1>2. encode(<< >>) = << >>
  <2>1. [j \in DOMAIN << >> |-> CodeOf(<< >>[j])] = << >>
    OBVIOUS
  <2>. QED
    BY <2>1, EncodeEqn, FlattenEmpty
<1>3. decode(encode(<< >>)) = << >> /\ decode(encode(v)) = v
  BY <1>1, DecodeUndoesEncode
<1>. QED
  BY <1>2, <1>3

-----------------------------------------------------------------------------
(* A part found again *)

\* part holds none of chars.
Lacks(part, chars) == \A j \in 1..Len(part) : part[j] \notin chars

\* Find goes on to what is behind a part without the signs.
LEMMA FindBehind ==
    ASSUME NEW text, NEW at, NEW part, Lies(text, at, part), NEW chars, Lacks(part, chars),
           NEW first, first = at + 1, NEW next, next = at + Len(part) + 1,
           next > Len(text) \/ text[next] \in chars
    PROVE  Find(text, first, chars) = next
<1>. DEFINE n == Len(part)
<1>1. /\ at \in Nat /\ n \in Nat /\ Len(text) \in Nat /\ at + n <= Len(text)
      /\ \A j \in 1..n : text[at + j] = part[j] /\ part[j] \notin chars
  BY DEF Lies, Lacks
<1>2. /\ first \in Nat \ {0} /\ next \in Nat /\ next - 1 = at + n
      /\ first <= next /\ next <= Len(text) + 1
  BY <1>1
<1>3. \A i \in first..(next - 1) : text[i] \notin chars
  <2>. TAKE i \in first..(next - 1)
  <2>1. i - at \in 1..n /\ at + (i - at) = i
    BY <1>1, <1>2
  <2>. QED
    BY <1>1, <2>1
<1>4. CASE next > Len(text)
  <2>1. next = Len(text) + 1 /\ next - 1 = Len(text)
    BY <1>1, <1>2, <1>4
  <2>2. \A i \in first..Len(text) : text[i] \notin chars
    BY <1>3, <2>1
  <2>. QED
    BY <2>1, <2>2, FindsNone
<1>5. CASE next <= Len(text) /\ text[next] \in chars
  <2>1. next \in first..Len(text)
    BY <1>1, <1>2, <1>5
  <2>. QED
    BY <1>1, <1>2, <1>3, <1>5, <2>1, FindsAt
<1>. QED
  BY <1>1, <1>2, <1>4, <1>5

-----------------------------------------------------------------------------
(* The parameters that can be read back *)

\* Every text is one that may be a part of a uri.
LEMMA TextsAre ==
    ASSUME NEW signs
    PROVE  /\ Without(signs) \subseteq Seq(Symbols)
           /\ Seq(Symbols) \subseteq Maybe(Symbols) /\ NoText \in Maybe(Symbols)
           /\ NoText \notin Seq(Symbols) /\ << >> \in Seq(Symbols)
           /\ Text = Seq(Symbols)
<1>1. Symbols \ signs \subseteq Symbols
  OBVIOUS
<1>2. Without(signs) \subseteq Seq(Symbols)
  BY <1>1, SeqMonotonic DEF Without
<1>3. NoText \notin Seq(Symbols)
  BY TextsAssumption
<1>. QED
  BY <1>2, <1>3 DEF Maybe, Text

\* The parameters that build writes and Param reads back.
PlainParams == [key : Without({"=", "&"}) \ {<< >>}, value : MaybeText]

\* As what a parameter is read back: an empty value as none.
Kept(p) == [key |-> p.key, value |-> IF p.value = << >> THEN NoText ELSE p.value]

\* What build makes of a parameter.
ParamText(p) == IF p.value = NoText THEN p.key ELSE p.key \o <<"=">> \o encode(p.value)

\* A key holds neither sign and is not empty.
LEMMA PlainKey ==
    ASSUME NEW p \in PlainParams
    PROVE  /\ p.key \in Without({"&"}) /\ p.key # << >> /\ Len(p.key) \in Nat \ {0}
           /\ \A j \in 1..Len(p.key) : p.key[j] # "="
<1>. DEFINE A == Symbols \ {"&"}
            key == p.key
<1>1. key \in Seq(Symbols \ {"=", "&"}) /\ key # << >>
  BY DEF PlainParams, Without
<1>2. \A j \in 1..Len(key) : key[j] # "=" /\ key[j] \in A
  BY <1>1
<1>. HIDE DEF A
<1>3. Len(key) \in Nat \ {0} /\ key \in [1..Len(key) -> A]
  BY <1>1, <1>2
<1>4. key \in Seq(A)
  BY <1>3
<1>. QED
  BY <1>1, <1>2, <1>3, <1>4 DEF Without, A

\* A value is coded without the separator and decoded again.
LEMMA PlainCode ==
    ASSUME NEW p \in PlainParams, p.value # NoText
    PROVE  /\ encode(p.value) \in Without({"&"})
           /\ encode(p.value) = << >> <=> p.value = << >>
           /\ decode(encode(p.value)) = p.value
<1>1. p.value \in Seq(Symbols)
  BY DEF PlainParams, MaybeText, Text
<1>2. encode(<< >>) = << >>
  <2>1. [k \in DOMAIN << >> |-> CodeOf(<< >>[k])] = << >>
    OBVIOUS
  <2>. QED
    BY <2>1, EncodeEqn, FlattenEmpty
<1>3. p.value # << >> => encode(p.value) # << >>
  BY <1>1, EncodeNonempty DEF Text
<1>4. encode(p.value) \in Without({"&"}) /\ decode(encode(p.value)) = p.value
  BY <1>1, EncodeHides, DecodeUndoesEncode DEF Text
<1>. QED
  BY <1>2, <1>3, <1>4

\* Where its key and what is behind the key lie.
LEMMA ParamTextLies ==
    ASSUME NEW p \in PlainParams
    PROVE  /\ ParamText(p) \in Without({"&"}) /\ ParamText(p) # << >>
           /\ Lies(ParamText(p), 0, p.key)
           /\ p.value = NoText => Len(ParamText(p)) = Len(p.key)
           /\ p.value # NoText =>
                /\ Lies(ParamText(p), Len(p.key), <<"=">>)
                /\ Lies(ParamText(p), Len(p.key) + 1, encode(p.value))
                /\ Len(ParamText(p)) = Len(p.key) + 1 + Len(encode(p.value))
<1>. DEFINE A == Symbols \ {"&"}
            key == p.key
            text == ParamText(p)
            eq == <<"=">>
            code == encode(p.value)
            head == key \o eq
<1>1. key \in Seq(A) /\ key # << >> /\ Len(key) \in Nat \ {0}
  BY PlainKey DEF Without
<1>2. CASE p.value = NoText
  <2>1. text = key
    BY <1>2 DEF ParamText
  <2>2. Lies(key, 0, key)
    <3>. HIDE DEF key
    <3>. QED
      BY <1>1 DEF Lies
  <2>. QED
    BY <1>1, <1>2, <2>1, <2>2 DEF Without
<1>3. CASE p.value # NoText
  <2>1. code \in Seq(A)
    BY <1>3, PlainCode DEF Without
  <2>2. text = head \o code
    BY <1>3 DEF ParamText
  <2>3. eq \in Seq(A) /\ Len(eq) = 1
    <3>1. "=" \in A
      BY UriAssumption
    <3>. HIDE DEF A
    <3>. QED
      BY <3>1
  <2>. HIDE DEF A, key, text, code, eq
  <2>4. /\ head \in Seq(A) /\ Len(head) = Len(key) + Len(eq)
        /\ Lies(head, 0, key) /\ Lies(head, Len(key), eq)
    BY <1>1, <2>3, LiesJoined
  <2>. HIDE DEF head
  <2>5. /\ text \in Seq(A) /\ Len(text) = Len(head) + Len(code)
        /\ Lies(text, 0, head) /\ Lies(text, Len(head), code)
    BY <2>1, <2>2, <2>4, LiesJoined
  <2>6. Lies(text, 0, key) /\ Lies(text, Len(key), eq)
    <3>1. 0 + 0 = 0 /\ 0 + Len(key) = Len(key)
      BY <1>1
    <3>. QED
      BY <2>4, <2>5, <3>1, LiesWithin
  <2>7. Len(head) = Len(key) + 1 /\ Len(text) = Len(key) + 1 + Len(code)
    BY <1>1, <2>3, <2>4, <2>5
  <2>8. text # << >>
    <3>1. Len(text) > 0
      BY <1>1, <2>1, <2>7
    <3>. QED
      BY <3>1
  <2>. QED
    BY <1>3, <2>5, <2>6, <2>7, <2>8 DEF Without, A, key, text, code, eq
<1>. QED
  BY <1>2, <1>3

\* Param takes apart what ParamText put together.
LEMMA ParamRead ==
    ASSUME NEW p \in PlainParams
    PROVE  Param(ParamText(p)) = Kept(p)
<1>. DEFINE token == ParamText(p)
            code == encode(p.value)
            key == Find(token, 1, ToSet(token) \ {"="})
            eq == Find(token, key, {"="})
            val == SubSeq(token, eq + 1, Len(token))
            name == IF key > Len(token) THEN NoText ELSE SubSeq(token, key, eq - 1)
            value == IF val = << >> THEN NoText ELSE decode(val)
            n == Len(p.key)
            A == Symbols \ {"&"}
<1>1. /\ token \in Seq(A) /\ Lies(token, 0, p.key)
      /\ p.value = NoText => Len(token) = n
      /\ p.value # NoText => /\ Lies(token, n, <<"=">>) /\ Lies(token, n + 1, code)
                             /\ Len(token) = n + 1 + Len(code)
  BY ParamTextLies DEF Without
<1>2. /\ p.key \in Seq(A) /\ n \in Nat \ {0}
      /\ \A j \in 1..n : p.key[j] # "="
  BY PlainKey DEF Without
<1>3. p.value # NoText =>
        /\ code \in Seq(A) /\ decode(code) = p.value
        /\ code = << >> <=> p.value = << >>
  BY PlainCode DEF Without
<1>4. Len(token) \in Nat /\ n <= Len(token) /\ token[1] = p.key[1]
  <2>1. Len(token) \in Nat /\ 0 + n <= Len(token) /\ \A j \in 1..n : token[0 + j] = p.key[j]
    BY <1>1 DEF Lies
  <2>2. 1 \in 1..n /\ 0 + 1 = 1 /\ 0 + n = n
    BY <1>2
  <2>. QED
    BY <2>1, <2>2
<1>. HIDE DEF token, code, n
<1>5. key = 1
  <2>1. token[1] \in ToSet(token) \ {"="}
    <3>1. DOMAIN token = 1..Len(token) /\ 1 \in 1..Len(token) /\ 1 \in 1..n
      BY <1>1, <1>2, <1>4
    <3>. QED
      BY <1>2, <1>4, <3>1 DEF ToSet
  <2>2. 1 \in Nat \ {0} /\ 1 \in 1..Len(token) /\ 1..(1 - 1) = {}
    BY <1>2, <1>4
  <2>. QED
    BY <1>4, <2>1, <2>2, FindsAt
<1>6. eq = n + 1
  <2>1. 1 = 0 + 1 /\ n + 1 = 0 + n + 1
    BY <1>2
  <2>2. n + 1 > Len(token) \/ token[n + 1] \in {"="}
    <3>1. CASE p.value = NoText
      BY <1>1, <1>2, <3>1
    <3>2. CASE p.value # NoText
      <4>1. \A j \in 1..Len(<<"=">>) : token[n + j] = <<"=">>[j]
        BY <1>1, <3>2 DEF Lies
      <4>2. 1 \in 1..Len(<<"=">>) /\ <<"=">>[1] = "="
        OBVIOUS
      <4>. QED
        BY <4>1, <4>2
    <3>. QED
      BY <3>1, <3>2
  <2>3. \A j \in 1..n : p.key[j] \notin {"="}
    BY <1>2
  <2>4. Find(token, 1, {"="}) = n + 1
    <3>. DEFINE next == n + 1
    <3>1. next = 0 + Len(p.key) + 1 /\ Lacks(p.key, {"="})
      BY <2>1, <2>3 DEF n, Lacks
    <3>2. next > Len(token) \/ token[next] \in {"="}
      BY <2>2
    <3>. HIDE DEF next
    <3>3. Find(token, 1, {"="}) = next
      BY <1>1, <2>1, <3>1, <3>2, FindBehind
    <3>. QED
      BY <3>3 DEF next
  <2>. QED
    BY <1>5, <2>4
<1>. HIDE DEF key
<1>. HIDE DEF eq
<1>7. name = p.key
  <2>1. name = SubSeq(token, 1, n)
    <3>1. ~(1 > Len(token)) /\ (n + 1) - 1 = n
      BY <1>2, <1>4
    <3>. QED
      BY <1>5, <1>6, <3>1
  <2>2. 1 = 0 + 1 /\ n = 0 + Len(p.key)
    BY <1>2 DEF n
  <2>3. SubSeq(token, 1, n) = p.key
    BY <1>1, <1>2, <2>2, LiesTaken
  <2>. QED
    BY <2>1, <2>3
<1>8. value = IF p.value = << >> THEN NoText ELSE p.value
  <2>1. CASE p.value = NoText
    <3>1. eq + 1 > Len(token) /\ eq + 1 \in Int /\ Len(token) \in Int
      BY <1>1, <1>2, <1>4, <1>6, <2>1
    <3>2. val = << >>
      BY <3>1, SubSeqEmpty
    <3>3. p.value # << >>
      BY <2>1, TextsAre
    <3>. QED
      BY <2>1, <3>2, <3>3
  <2>2. CASE p.value # NoText
    <3>1. eq + 1 = (n + 1) + 1 /\ Len(token) = (n + 1) + Len(code)
      BY <1>1, <1>2, <1>6, <2>2
    <3>2. val = code
      BY <1>1, <1>3, <2>2, <3>1, LiesTaken
    <3>. HIDE DEF val
    <3>. QED
      BY <1>3, <2>2, <3>2
  <2>. QED
    BY <2>1, <2>2
<1>9. Param(token) = [key |-> name, value |-> value]
  BY Zenon DEF Param, name, value, val, eq, key
<1>. HIDE DEF name, value
<1>. QED
  BY <1>7, <1>8, <1>9, Zenon DEF token, Kept

-----------------------------------------------------------------------------
(* What the pieces of build are joined to *)

\* What the pieces are joined to.
Added(pieces) == FlattenSeq(Given(pieces))

LEMMA AddedType ==
    ASSUME NEW A, NEW s \in Seq(Maybe(A))
    PROVE  Added(s) \in Seq(A)
  BY GivenType, FlattenType DEF Added

\* Pieces that are added in two groups.
LEMMA AddedConcat ==
    ASSUME NEW A, NEW s \in Seq(Maybe(A)), NEW t \in Seq(Maybe(A))
    PROVE  Added(s \o t) = Added(s) \o Added(t)
<1>1. PICK M, X : M = Maybe(A) /\ X = Seq(A)
  OBVIOUS
<1>. DEFINE w == s \o t
<1>2. /\ s \in Seq(M) /\ t \in Seq(M) /\ w \in Seq(M) /\ Len(w) = Len(s) + Len(t)
      /\ Len(s) \in Nat /\ Len(t) \in Nat
      /\ \A j \in 1..(Len(s) + Len(t)) :
            w[j] = IF j <= Len(s) THEN s[j] ELSE t[j - Len(s)]
  BY <1>1, ConcatProperties
<1>3. Given(s) \in Seq(X) /\ Given(t) \in Seq(X) /\ Given(w) \in Seq(X)
  BY <1>1, <1>2, GivenType
<1>. HIDE DEF w
<1>4. \A p \in {s, t, w} :
        /\ DOMAIN p = 1..Len(p) /\ Len(Given(p)) = Len(p)
        /\ \A j \in 1..Len(p) : Given(p)[j] = IF p[j] = NoText THEN << >> ELSE p[j]
  BY <1>2 DEF Given
<1>. DEFINE gs == Given(s)
            gt == Given(t)
            gw == Given(w)
<1>5. /\ gs \o gt \in Seq(X) /\ Len(gs \o gt) = Len(s) + Len(t)
      /\ \A j \in 1..(Len(s) + Len(t)) :
            (gs \o gt)[j] = IF j <= Len(s) THEN gs[j] ELSE gt[j - Len(s)]
  <2>1. /\ gs \o gt \in Seq(X) /\ Len(gs \o gt) = Len(gs) + Len(gt)
        /\ \A j \in 1..(Len(gs) + Len(gt)) :
            (gs \o gt)[j] = IF j <= Len(gs) THEN gs[j] ELSE gt[j - Len(gs)]
    BY <1>3, ConcatProperties
  <2>. QED
    BY <1>4, <2>1
<1>6. \A j \in 1..(Len(s) + Len(t)) : gw[j] = (gs \o gt)[j]
  <2>. TAKE j \in 1..(Len(s) + Len(t))
  <2>1. CASE j <= Len(s)
    <3>1. j \in 1..Len(s) /\ j \in 1..Len(w)
      BY <1>2, <2>1
    <3>. QED
      BY <1>2, <1>4, <1>5, <2>1, <3>1
  <2>2. CASE ~(j <= Len(s))
    <3>1. j - Len(s) \in 1..Len(t) /\ j \in 1..Len(w)
      BY <1>2, <2>2
    <3>. QED
      BY <1>2, <1>4, <1>5, <2>2, <3>1
  <2>. QED
    BY <2>1, <2>2
<1>7. gw = gs \o gt
  <2>. HIDE DEF gs, gt, gw
  <2>1. Len(gw) = Len(s) + Len(t) /\ gw \in Seq(X)
    BY <1>2, <1>3, <1>4 DEF gw
  <2>. QED
    BY <1>5, <1>6, <2>1, SeqEqual
<1>8. FlattenSeq(gs \o gt) = FlattenSeq(gs) \o FlattenSeq(gt)
  BY <1>1, <1>3, FlattenConcat
<1>. QED
  BY <1>7, <1>8 DEF Added, w

LEMMA AddedNone == Added(<< >>) = << >>
<1>1. Given(<< >>) = << >>
  BY DEF Given
<1>. QED
  BY <1>1, FlattenEmpty DEF Added

LEMMA AddedOne ==
    ASSUME NEW A, NEW e \in Seq(A), e # NoText
    PROVE  Added(<<e>>) = e
<1>1. Given(<<e>>) = <<e>>
  BY DEF Given
<1>. QED
  BY <1>1, FlattenOne DEF Added

\* Each part joined, and then all of them.
LEMMA AddedFlatten ==
    ASSUME NEW A, NEW parts \in Seq(Seq(Maybe(A)))
    PROVE  Added(FlattenSeq(parts)) = FlattenSeq([k \in DOMAIN parts |-> Added(parts[k])])
<1>1. PICK M, X, Y : M = Maybe(A) /\ X = Seq(A) /\ Y = Seq(M)
  OBVIOUS
<1>. DEFINE Each(w) == [k \in DOMAIN w |-> Added(w[k])]
            S == {n \in Nat : \A w \in [1..n -> Y] :
                    Added(FlattenSeq(w)) = FlattenSeq(Each(w))}
<1>2. \A w \in Y : Added(w) \in X
  BY <1>1, AddedType
<1>3. 0 \in S
  <2>1. \A w \in [1..0 -> Y] : w = << >>
    OBVIOUS
  <2>2. Each(<< >>) = << >>
    OBVIOUS
  <2>. HIDE DEF Each
  <2>. QED
    BY <2>1, <2>2, FlattenEmpty, AddedNone
<1>4. ASSUME NEW n \in Nat, n \in S
      PROVE  n + 1 \in S
  <2>1. ASSUME NEW w \in [1..(n + 1) -> Y]
        PROVE  Added(FlattenSeq(w)) = FlattenSeq(Each(w))
    <3>. DEFINE r == [i \in 1..n |-> w[i]]
                e == w[n + 1]
    <3>1. r \in [1..n -> Y] /\ r \in Seq(Y) /\ e \in Y
      OBVIOUS
    <3>2. w = Append(r, e)
      OBVIOUS
    <3>3. Added(FlattenSeq(r)) = FlattenSeq(Each(r))
      BY <1>4, <3>1
    <3>4. Each(r) \in Seq(X) /\ Each(w) = Append(Each(r), Added(e))
      <4>1. Each(r) = [i \in 1..n |-> Added(w[i])]
        OBVIOUS
      <4>2. Each(w) = [i \in 1..(n + 1) |-> Added(w[i])]
        OBVIOUS
      <4>3. \A i \in 1..(n + 1) : Added(w[i]) \in X
        BY <1>2
      <4>. HIDE DEF Each, r
      <4>. QED
        BY <4>1, <4>2, <4>3
    <3>. HIDE DEF r, e, Each
    <3>5. FlattenSeq(w) = FlattenSeq(r) \o e /\ FlattenSeq(r) \in Seq(M)
      BY <1>1, <3>1, <3>2, FlattenAppend, FlattenType
    <3>6. Added(FlattenSeq(r) \o e) = Added(FlattenSeq(r)) \o Added(e)
      BY <1>1, <3>1, <3>5, AddedConcat
    <3>7. FlattenSeq(Append(Each(r), Added(e))) = FlattenSeq(Each(r)) \o Added(e)
      BY <1>1, <1>2, <3>1, <3>4, FlattenAppend
    <3>. QED
      BY <3>3, <3>4, <3>5, <3>6, <3>7
  <2>. QED
    BY <2>1
<1>5. Len(parts) \in Nat /\ parts \in [1..Len(parts) -> Y]
  BY <1>1
<1>6. Len(parts) \in S
  <2>. HIDE DEF S
  <2>. QED
    BY <1>3, <1>4, <1>5, InductiveSet
<1>. QED
  BY <1>5, <1>6

-----------------------------------------------------------------------------
(* What Tokens takes apart *)

\* What Tokens has found before the position k + 1.
LEMMA SplitsEqn ==
    ASSUME NEW f, NEW s, Len(s) \in Nat, NEW sep, Splits(f, s, sep)
    PROVE  f[0] = << >> /\ \A k \in 1..Len(s) : f[k] = Extended(f[k - 1], s, sep, k)
<1>1. \A k \in 0..Len(s) : f[k] = IF k = 0 THEN << >> ELSE Extended(f[k - 1], s, sep, k)
  BY Zenon DEF Splits
<1>2. 0 \in 0..Len(s) /\ \A k \in 1..Len(s) : k \in 0..Len(s) /\ k # 0
  OBVIOUS
<1>. QED
  BY <1>1, <1>2, Zenon

\* From at to end lies a nonempty text without the separator, at the beginning or
\* behind a separator.
Between(s, sep, at, t, end) ==
    /\ Lies(s, at, t) /\ end = at + Len(t)
    /\ t # << >> /\ Lacks(t, {sep})
    /\ at = 0 \/ s[at] = sep

\* A text behind a separator becomes the next part.
LEMMA SplitsPart ==
    ASSUME NEW A, NEW s \in Seq(A), NEW sep, NEW f, Splits(f, s, sep),
           NEW at, f[at] \in Seq(Seq(A)), NEW t \in Seq(A), NEW end,
           Between(s, sep, at, t, end)
    PROVE  f[end] = Append(f[at], t)
<1>1. PICK X, done : X = Seq(A) /\ done = f[at]
  OBVIOUS
<1>. DEFINE n == Len(t)
            Some(j) == SubSeq(t, 1, j)
            S == {j \in Nat : j + 1 <= n => f[at + (j + 1)] = Append(done, Some(j + 1))}
<1>2. /\ at \in Nat /\ n \in Nat \ {0} /\ Len(s) \in Nat /\ at + n <= Len(s)
      /\ \A j \in 1..n : s[at + j] = t[j] /\ t[j] # sep /\ t[j] \in A
  BY DEF Between, Lies, Lacks
<1>3. ASSUME NEW j \in 0..(n - 1)
      PROVE  /\ at + (j + 1) \in 1..Len(s) /\ (at + (j + 1)) - 1 = at + j
             /\ f[at + (j + 1)] = Extended(f[at + j], s, sep, at + (j + 1))
             /\ s[at + (j + 1)] = t[j + 1] /\ t[j + 1] # sep /\ t[j + 1] \in A
  <2>1. at + (j + 1) \in 1..Len(s) /\ (at + (j + 1)) - 1 = at + j /\ j + 1 \in 1..n
    BY <1>2
  <2>. DEFINE k == at + (j + 1)
  <2>2. k \in 1..Len(s) /\ k - 1 = at + j
    BY <2>1
  <2>. HIDE DEF k
  <2>3. f[k] = Extended(f[k - 1], s, sep, k)
    BY <1>2, <2>2, SplitsEqn
  <2>. QED
    BY <1>2, <2>1, <2>2, <2>3 DEF k
<1>4. 0 \in S
  <2>1. /\ at + 1 \in 1..Len(s) /\ (at + 1) - 1 = at
        /\ f[at + 1] = Extended(f[at], s, sep, at + 1)
        /\ s[at + 1] = t[1] /\ t[1] # sep /\ t[1] \in A
    <3>1. 0 \in 0..(n - 1) /\ 0 + 1 = 1 /\ at + 0 = at
      BY <1>2
    <3>. QED
      BY <1>3, <3>1
  <2>2. at + 1 = 1 \/ s[(at + 1) - 1] = sep
    BY <1>2, <2>1 DEF Between
  <2>. DEFINE k == at + 1
  <2>3. /\ f[k] = Extended(done, s, sep, k) /\ s[k] = t[1] /\ s[k] # sep
        /\ (k = 1 \/ s[k - 1] = sep)
    BY <1>1, <2>1, <2>2
  <2>. HIDE DEF k
  <2>4. f[k] = Append(done, <<t[1]>>)
    BY <2>3, Zenon DEF Extended
  <2>5. Some(1) = <<t[1]>>
    <3>1. SubSeq(t, 1, 0 + 1) = Append(SubSeq(t, 1, 0), t[0 + 1])
      BY <1>2, TakeOneMore
    <3>2. SubSeq(t, 1, 0) = << >>
      BY SubSeqEmpty
    <3>3. 0 + 1 = 1 /\ Append(<< >>, t[1]) = <<t[1]>>
      OBVIOUS
    <3>. QED
      BY <3>1, <3>2, <3>3
  <2>6. at + (0 + 1) = k /\ 0 + 1 = 1
    BY DEF k
  <2>. QED
    BY <2>4, <2>5, <2>6
<1>5. ASSUME NEW j \in Nat, j \in S
      PROVE  j + 1 \in S
  <2>. SUFFICES ASSUME (j + 1) + 1 <= n
                PROVE  f[at + ((j + 1) + 1)] = Append(done, Some((j + 1) + 1))
    OBVIOUS
  <2>. DEFINE i == j + 1
              k == at + (i + 1)
              some == Some(i)
              next == t[i + 1]
  <2>1. i \in 0..(n - 1) /\ i \in 0..n /\ j \in 0..(n - 1) /\ i + 1 <= n /\ i <= n
    BY <1>2
  <2>2. f[at + i] = Append(done, some)
    BY <1>5, <2>1
  <2>3. /\ k \in 1..Len(s) /\ k - 1 = at + i /\ f[k] = Extended(f[at + i], s, sep, k)
        /\ s[k] = next /\ next # sep /\ next \in A
    BY <1>3, <2>1
  <2>4. s[at + i] # sep
    BY <1>3, <2>1
  <2>5. k # 1
    BY <1>2
  <2>6. some \in X /\ Some(i + 1) = Append(some, next)
    <3>1. SubSeq(t, 1, i) \in Seq(A)
      <4>. HIDE DEF i
      <4>. QED
        BY <2>1, TakenIsPrefix
    <3>2. SubSeq(t, 1, i + 1) = Append(SubSeq(t, 1, i), t[i + 1])
      <4>1. Len(t) = n
        OBVIOUS
      <4>. HIDE DEF i, n
      <4>. QED
        BY <2>1, <4>1, TakeOneMore
    <3>. QED
      BY <1>1, <3>1, <3>2
  <2>. HIDE DEF k, some, next, i
  <2>7. /\ f[k] = Extended(Append(done, some), s, sep, k) /\ s[k] # sep
        /\ ~(k = 1 \/ s[k - 1] = sep)
    BY <2>2, <2>3, <2>4, <2>5
  <2>8. f[k] = [Append(done, some) EXCEPT ![Len(Append(done, some))] = Append(@, next)]
    BY <2>3, <2>7, Zenon DEF Extended
  <2>9. Append(done, some)[Len(Append(done, some))] = some
    BY <1>1, <2>6
  <2>10. f[k] = [Append(done, some) EXCEPT ![Len(Append(done, some))] = Append(some, next)]
    BY <2>8, <2>9
  <2>11. Append(some, next) \in X
    BY <1>1, <2>3, <2>6
  <2>12. f[k] = Append(done, Append(some, next))
    <3>1. done \in Seq(X)
      BY <1>1
    <3>. QED
      <4>. DEFINE last == Append(some, next)
      <4>1. last \in X /\ f[k] = [Append(done, some) EXCEPT ![Len(Append(done, some))] = last]
        BY <2>10, <2>11
      <4>. HIDE DEF last
      <4>2. f[k] = Append(done, last)
        BY <2>6, <3>1, <4>1, ReplaceLast
      <4>. QED
        BY <4>2 DEF last
  <2>. QED
    BY <2>6, <2>12 DEF k, i
<1>6. \A j \in Nat : j \in S
  <2>. HIDE DEF S
  <2>. QED
    BY <1>4, <1>5, InductiveSet
<1>7. n - 1 \in Nat /\ (n - 1) + 1 = n /\ at + n = end
  BY <1>2 DEF Between
<1>8. f[at + n] = Append(done, Some(n))
  <2>. DEFINE j == n - 1
  <2>1. j \in Nat /\ j + 1 = n
    BY <1>7
  <2>. HIDE DEF j
  <2>2. j + 1 <= n => f[at + (j + 1)] = Append(done, Some(j + 1))
    BY <1>6, <2>1
  <2>3. j + 1 <= n
    BY <1>2, <2>1
  <2>4. f[at + (j + 1)] = Append(done, Some(j + 1))
    BY <2>2, <2>3
  <2>. HIDE DEF n, Some
  <2>. QED
    BY <2>1, <2>4
<1>9. SubSeq(t, 1, n) = t
  BY SubSeqFull
<1>. QED
  BY <1>1, <1>7, <1>8, <1>9

\* A separator adds nothing.
LEMMA SplitsSeparator ==
    ASSUME NEW s, Len(s) \in Nat, NEW sep, NEW f, Splits(f, s, sep),
           NEW k \in 1..Len(s), s[k] = sep
    PROVE  f[k] = f[k - 1]
<1>1. f[k] = Extended(f[k - 1], s, sep, k)
  BY SplitsEqn
<1>. QED
  BY <1>1, Zenon DEF Extended

\* The parts with a separator between them.
Separated(parts) ==
    FlattenSeq([k \in DOMAIN parts |->
                    parts[k] \o (IF k = Len(parts) THEN << >> ELSE <<"&">>)])

\* What was joined with separators is taken apart at them.
LEMMA TokensRead ==
    ASSUME NEW parts \in Seq(Without({"&"}) \ {<< >>})
    PROVE  /\ Separated(parts) \in Text
           /\ Tokens(Separated(parts), "&") = parts
<1>. DEFINE A == Symbols
            n == Len(parts)
            sep == <<"&">>
            Part(k) == parts[k] \o (IF k = n THEN << >> ELSE sep)
            seqs == [k \in DOMAIN parts |-> Part(k)]
            s == Separated(parts)
            f == CHOOSE g : Splits(g, s, "&")
            at(k) == FlatLen(seqs, k)
            Reached(k) ==
                /\ f[at(k)] = SubSeq(parts, 1, k)
                /\ k = 0 => at(k) = 0
                /\ k # 0 /\ k # n => s[at(k)] = "&"
            S == {k \in Nat : k <= n => Reached(k)}
<1>1. /\ n \in Nat /\ DOMAIN parts = 1..n
      /\ \A k \in 1..n : parts[k] \in Seq(A) /\ parts[k] # << >> /\ Lacks(parts[k], {"&"})
  <2>1. PICK X : X = Without({"&"}) \ {<< >>}
    OBVIOUS
  <2>2. n \in Nat /\ DOMAIN parts = 1..n /\ \A k \in 1..n : parts[k] \in X
    BY <2>1
  <2>3. \A t \in X : t \in Seq(A) /\ t # << >> /\ Lacks(t, {"&"})
    <3>. TAKE t \in X
    <3>1. t \in Seq(Symbols \ {"&"}) /\ t # << >>
      BY <2>1 DEF Without
    <3>2. \A j \in 1..Len(t) : t[j] \notin {"&"}
      BY <3>1
    <3>3. Symbols \ {"&"} \subseteq A
      OBVIOUS
    <3>. QED
      BY <3>1, <3>2, <3>3, SeqMonotonic DEF Lacks
  <2>. QED
    BY <2>2, <2>3
<1>2. sep \in Seq(A) /\ << >> \in Seq(A) /\ Len(sep) = 1 /\ sep[1] = "&"
  BY UriAssumption
<1>. HIDE DEF sep, A, n
<1>3. ASSUME NEW k \in 1..n
      PROVE  /\ Part(k) \in Seq(A) /\ Lies(Part(k), 0, parts[k])
             /\ k = n => Len(Part(k)) = Len(parts[k])
             /\ k # n => Lies(Part(k), Len(parts[k]), sep) /\ Len(Part(k)) = Len(parts[k]) + 1
             /\ Len(parts[k]) \in Nat \ {0}
  <2>. DEFINE t == parts[k]
              e == IF k = n THEN << >> ELSE sep
  <2>1. t \in Seq(A) /\ e \in Seq(A) /\ t # << >>
    BY <1>1, <1>2
  <2>. HIDE DEF t, e
  <2>2. Len(t) \in Nat \ {0}
    BY <2>1
  <2>3. /\ t \o e \in Seq(A) /\ Len(t \o e) = Len(t) + Len(e)
        /\ Lies(t \o e, 0, t) /\ Lies(t \o e, Len(t), e)
    BY <2>1, LiesJoined
  <2>4. Part(k) = t \o e
    BY DEF t, e
  <2>5. CASE k = n
    <3>1. e = << >> /\ Len(e) = 0
      BY <2>5 DEF e
    <3>2. Len(t \o e) = Len(t)
      BY <2>2, <2>3, <3>1
    <3>. HIDE DEF Part
    <3>. QED
      BY <2>2, <2>3, <2>4, <2>5, <3>2 DEF t
  <2>6. CASE k # n
    <3>1. e = sep
      BY <2>6 DEF e
    <3>. HIDE DEF Part
    <3>. QED
      BY <1>2, <2>2, <2>3, <2>4, <2>6, <3>1 DEF t
  <2>. QED
    BY <2>5, <2>6
<1>. HIDE DEF Part
<1>4. seqs \in Seq(Seq(A)) /\ Len(seqs) = n /\ \A k \in 1..n : seqs[k] = Part(k)
  <2>1. PICK X : X = Seq(A)
    OBVIOUS
  <2>2. seqs \in [1..n -> X]
    BY <1>1, <1>3, <2>1
  <2>3. \A k \in 1..n : seqs[k] = Part(k)
    BY <1>1
  <2>. HIDE DEF seqs
  <2>4. seqs \in Seq(X) /\ Len(seqs) = n
    BY <1>1, <2>2
  <2>. QED
    BY <2>1, <2>3, <2>4
<1>5. s = FlattenSeq(seqs)
  BY Zenon DEF Separated, seqs, Part, n, sep
<1>. HIDE DEF seqs, s
<1>6. s \in Seq(A) /\ Len(s) \in Nat
  BY <1>4, <1>5, FlattenLies
<1>7. Splits(f, s, "&")
  BY <1>6, SplitsExists
<1>. HIDE DEF f
<1>8. ASSUME NEW k \in 0..(n - 1)
      PROVE  /\ Lies(s, at(k), Part(k + 1))
             /\ at(k) \in Nat
             /\ at(k + 1) = at(k) + Len(Part(k + 1)) /\ at(k + 1) <= Len(s)
  <2>1. k \in 0..(Len(seqs) - 1) /\ k + 1 \in 1..n
    BY <1>1, <1>4
  <2>2. /\ at(k) \in Nat /\ Lies(FlattenSeq(seqs), at(k), seqs[k + 1])
        /\ at(k + 1) = at(k) + Len(seqs[k + 1]) /\ at(k + 1) <= Len(FlattenSeq(seqs))
    BY <1>4, <2>1, FlattenLies
  <2>. HIDE DEF at
  <2>. QED
    BY <1>4, <1>5, <2>1, <2>2
<1>9. 0 \in S
  <2>1. SubSeq(parts, 1, 0) = << >>
    BY SubSeqEmpty
  <2>2. at(0) = 0
    BY <1>4, FlattenLies
  <2>3. f[0] = << >>
    BY <1>6, <1>7, SplitsEqn
  <2>. HIDE DEF at
  <2>. QED
    BY <2>1, <2>2, <2>3
<1>10. ASSUME NEW k \in Nat, k \in S
       PROVE  k + 1 \in S
  <2>. SUFFICES ASSUME k + 1 <= n
                PROVE  Reached(k + 1)
    OBVIOUS
  <2>. DEFINE i == k + 1
              from == at(k)
              to == at(i)
              t == parts[i]
              done == SubSeq(parts, 1, k)
              end == from + Len(t)
  <2>1. k \in 0..(n - 1) /\ i \in 1..n /\ i # 0 /\ k # n /\ k <= n
    BY <1>1
  <2>2. /\ f[from] = done /\ (k = 0 => from = 0) /\ (k # 0 => s[from] = "&")
    BY <1>10, <2>1
  <2>3. /\ Lies(s, from, Part(i)) /\ from \in Nat
        /\ to = from + Len(Part(i)) /\ to <= Len(s)
    BY <1>8, <2>1
  <2>4. /\ t \in Seq(A) /\ Lacks(t, {"&"}) /\ Len(t) \in Nat \ {0} /\ t # << >>
        /\ Lies(Part(i), 0, t)
        /\ i = n => Len(Part(i)) = Len(t)
        /\ i # n => Lies(Part(i), Len(t), sep) /\ Len(Part(i)) = Len(t) + 1
    BY <1>1, <1>3, <2>1
  <2>5. done \in Seq(Seq(A)) /\ SubSeq(parts, 1, i) = Append(done, t)
    <3>1. PICK X : X = Without({"&"}) \ {<< >>}
      OBVIOUS
    <3>2. parts \in Seq(X) /\ k \in 0..(Len(parts) - 1) /\ k \in 0..Len(parts)
      BY <2>1, <3>1 DEF n
    <3>3. SubSeq(parts, 1, k + 1) = Append(SubSeq(parts, 1, k), parts[k + 1])
      BY <3>2, TakeOneMore
    <3>4. done \in Seq(X)
      BY <3>2, TakenIsPrefix
    <3>5. PICK Y : Y = Seq(A)
      OBVIOUS
    <3>6. X \subseteq Y
      <4>1. Symbols \ {"&"} \subseteq A
        BY DEF A
      <4>2. Seq(Symbols \ {"&"}) \subseteq Seq(A)
        BY <4>1, SeqMonotonic
      <4>. QED
        BY <3>1, <3>5, <4>2 DEF Without
    <3>. HIDE DEF done
    <3>7. done \in Seq(Y)
      BY <3>4, <3>6, SeqMonotonic
    <3>. QED
      BY <3>3, <3>5, <3>7 DEF done
  <2>. HIDE DEF at, i, from, to, t, done
  <2>6. Lies(s, from, t)
    <3>1. from = from + 0
      BY <2>3
    <3>. QED
      BY <2>3, <2>4, <3>1, LiesWithin
  <2>7. f[end] = Append(done, t)
    <3>1. from = 0 \/ s[from] = "&"
      BY <2>2
    <3>2. Between(s, "&", from, t, end)
      BY <2>4, <2>6, <3>1 DEF Between
    <3>3. t \in Seq(A) /\ f[from] \in Seq(Seq(A)) /\ s \in Seq(A) /\ Splits(f, s, "&")
      BY <1>6, <1>7, <2>2, <2>4, <2>5
    <3>. HIDE DEF end
    <3>4. f[end] = Append(f[from], t)
      BY <3>2, <3>3, SplitsPart
    <3>. QED
      BY <2>2, <3>4
  <2>8. CASE i = n
    <3>1. to = end
      BY <2>3, <2>4, <2>8
    <3>. QED
      BY <2>1, <2>5, <2>7, <2>8, <3>1 DEF i, to, at
  <2>9. CASE i # n
    <3>1. Lies(s, end, sep)
      <4>1. end = from + Len(t) /\ Lies(Part(i), Len(t), sep) /\ Lies(s, from, Part(i))
        BY <2>3, <2>4, <2>9
      <4>. HIDE DEF end
      <4>. QED
        BY <4>1, LiesWithin
    <3>2. to = end + 1 /\ to \in 1..Len(s) /\ to - 1 = end
      <4>1. Len(Part(i)) = Len(t) + 1 /\ Len(t) \in Nat /\ end = from + Len(t)
        BY <2>4, <2>9
      <4>. HIDE DEF end
      <4>. QED
        BY <1>6, <2>3, <4>1
    <3>3. s[to] = "&"
      BY <1>2, <3>1, <3>2 DEF Lies
    <3>4. f[to] = f[to - 1]
      BY <1>6, <1>7, <3>2, <3>3, SplitsSeparator
    <3>. HIDE DEF end
    <3>5. f[to] = Append(done, t)
      BY <2>7, <3>2, <3>4
    <3>. QED
      BY <2>1, <2>5, <2>9, <3>3, <3>5 DEF i, to, at
  <2>. QED
    BY <2>8, <2>9
<1>11. Reached(n)
  <2>1. \A k \in Nat : k \in S
    <3>. HIDE DEF S
    <3>. QED
      BY <1>9, <1>10, InductiveSet
  <2>. QED
    BY <1>1, <2>1
<1>12. at(n) = Len(s)
  BY <1>4, <1>5, FlattenLies
<1>13. SubSeq(parts, 1, n) = parts
  <2>1. PICK X : X = Without({"&"}) \ {<< >>}
    OBVIOUS
  <2>2. parts \in Seq(X)
    BY <2>1
  <2>3. SubSeq(parts, 1, Len(parts)) = parts
    BY <2>2, SubSeqFull
  <2>. QED
    BY <2>3 DEF n
<1>14. Tokens(s, "&") = f[Len(s)]
  BY TokensEqn DEF f
<1>. QED
  BY <1>6, <1>11, <1>12, <1>13, <1>14 DEF s, A, Text

-----------------------------------------------------------------------------
(* The text of a uri that can be read back *)

\* No part holds a sign by which parse finds its end.
PlainUris ==
    [scheme : Without({":"}), hostname : Without({":", "/"}),
     port : Without({"/"}) \union {NoText}, path : Without({"?"}),
     get_params : Seq(PlainParams)]

\* The texts of the parameters.
ParamTexts(params) == [k \in DOMAIN params |-> ParamText(params[k])]

\* As what they are read back.
KeptParams(params) == [k \in DOMAIN params |-> Kept(params[k])]

\* What build writes behind the question mark.
Query(params) == Separated(ParamTexts(params))

\* Without parameters it is empty.
LEMMA EmptyQuery == Query(<< >>) = << >>
<1>1. ParamTexts(<< >>) = << >>
  BY DEF ParamTexts
<1>2. [k \in DOMAIN << >> |-> << >>[k] \o (IF k = Len(<< >>) THEN << >> ELSE <<"&">>)]
        = << >>
  OBVIOUS
<1>. QED
  BY <1>1, <1>2, FlattenEmpty, Zenon DEF Query, Separated

\* What build writes between the parts is a text.
LEMMA SignsAre ==
    /\ <<":", "/", "/">> \in Seq(Symbols) /\ <<":">> \in Seq(Symbols) /\ <<"/">> \in Seq(Symbols)
    /\ <<"?">> \in Seq(Symbols) /\ <<"&">> \in Seq(Symbols) /\ <<"=">> \in Seq(Symbols)
  BY UriAssumption

\* Two pieces are added one behind the other.
LEMMA AddedTwo ==
    ASSUME NEW a \in Seq(Symbols), NEW b \in Seq(Symbols)
    PROVE  Added(<<a, b>>) = a \o b
<1>1. PICK M : M = Maybe(Symbols)
  OBVIOUS
<1>2. a \in M /\ b \in M /\ a # NoText /\ b # NoText
  BY <1>1, TextsAre
<1>3. <<a>> \in Seq(M) /\ <<b>> \in Seq(M) /\ <<a>> \o <<b>> = <<a, b>>
  <2>1. <<a>> \in Seq(M) /\ <<b>> \in Seq(M)
    BY <1>2
  <2>2. <<a>> \o <<b>> = <<a, b>>
    BY <1>2, Pair
  <2>. QED
    BY <2>1, <2>2
<1>4. Added(<<a>> \o <<b>>) = Added(<<a>>) \o Added(<<b>>)
  BY <1>1, <1>3, AddedConcat
<1>5. Added(<<a>>) = a /\ Added(<<b>>) = b
  BY <1>2, AddedOne
<1>. QED
  BY <1>3, <1>4, <1>5

\* What build adds for one parameter.
LEMMA ParamAdded ==
    ASSUME NEW p \in PlainParams, NEW last \in BOOLEAN
    PROVE  /\ ParamPieces(p, last) \in Seq(Maybe(Symbols))
           /\ Added(ParamPieces(p, last))
                = ParamText(p) \o (IF last THEN << >> ELSE <<"&">>)
<1>. DEFINE code == encode(p.value)
            key == p.key
            val == IF p.value = NoText THEN << >> ELSE << <<"=">>, code >>
            sep == IF last THEN << >> ELSE << <<"&">> >>
            valText == IF p.value = NoText THEN << >> ELSE <<"=">> \o code
            sepText == IF last THEN << >> ELSE <<"&">>
<1>1. PICK M, X : M = Maybe(Symbols) /\ X = Seq(Symbols)
  OBVIOUS
<1>2. X \subseteq M /\ NoText \notin X /\ << >> \in X
  BY <1>1, TextsAre
<1>3. key \in X
  BY <1>1, PlainKey, TextsAre
<1>4. p.value # NoText => code \in X
  BY <1>1, PlainCode, TextsAre
<1>5. <<"=">> \in X /\ <<"&">> \in X
  BY <1>1, SignsAre
<1>6. <<key>> \in Seq(M) /\ Added(<<key>>) = key
  <2>. HIDE DEF key
  <2>1. key \in M /\ key # NoText
    BY <1>2, <1>3
  <2>2. Added(<<key>>) = key
    BY <1>1, <1>3, <2>1, AddedOne
  <2>. QED
    BY <2>1, <2>2
<1>7. val \in Seq(M) /\ Added(val) = valText
  <2>. HIDE DEF code
  <2>1. CASE p.value = NoText
    BY <2>1, AddedNone
  <2>2. CASE p.value # NoText
    <3>1. val = << <<"=">>, code >> /\ valText = <<"=">> \o code
      BY <2>2
    <3>2. code \in X /\ code \in M /\ <<"=">> \in M
      BY <1>2, <1>4, <1>5, <2>2
    <3>. HIDE DEF val, valText
    <3>3. Added(<< <<"=">>, code >>) = <<"=">> \o code
      BY <1>1, <1>5, <3>2, AddedTwo
    <3>4. << <<"=">>, code >> \in Seq(M)
      <4>. DEFINE eq == <<"=">>
      <4>1. eq \in M /\ code \in M
        BY <3>2
      <4>. HIDE DEF eq
      <4>2. <<eq, code>> \in Seq(M)
        BY <4>1
      <4>. QED
        BY <4>2 DEF eq
    <3>. QED
      BY <3>1, <3>3, <3>4, Zenon
  <2>. QED
    BY <2>1, <2>2
<1>8. sep \in Seq(M) /\ Added(sep) = sepText
  <2>1. CASE last
    BY <2>1, AddedNone
  <2>2. CASE ~last
    <3>1. sep = << <<"&">> >> /\ sepText = <<"&">>
      BY <2>2
    <3>2. <<"&">> \in M /\ <<"&">> # NoText
      BY <1>2, <1>5
    <3>3. Added(<< <<"&">> >>) = <<"&">>
      BY <1>1, <1>5, <3>2, AddedOne
    <3>. HIDE DEF sep, sepText
    <3>. QED
      BY <3>1, <3>2, <3>3
  <2>. QED
    BY <2>1, <2>2
<1>9. ParamPieces(p, last) = <<key>> \o val \o sep
  BY Zenon DEF ParamPieces
<1>10. ParamText(p) = key \o valText
  <2>1. CASE p.value = NoText
    <3>1. key \o << >> = key
      BY <1>1, <1>3, ConcatEmptySeq
    <3>. QED
      BY <2>1, <3>1 DEF ParamText
  <2>2. CASE p.value # NoText
    <3>1. (key \o <<"=">>) \o code = key \o (<<"=">> \o code)
      <4>. DEFINE eq == <<"=">>
      <4>1. key \in Seq(Symbols) /\ eq \in Seq(Symbols) /\ code \in Seq(Symbols)
        BY <1>1, <1>3, <1>4, <1>5, <2>2
      <4>. HIDE DEF key, eq, code
      <4>2. (key \o eq) \o code = key \o (eq \o code)
        BY <4>1, ConcatAssociative
      <4>. QED
        BY <4>2 DEF eq
    <3>. QED
      BY <2>2, <3>1, Zenon DEF ParamText
  <2>. QED
    BY <2>1, <2>2
<1>. HIDE DEF key, val, sep, valText, sepText
<1>11. <<key>> \o val \in Seq(M) /\ <<key>> \o val \o sep \in Seq(M)
  <2>1. <<key>> \o val \in Seq(M)
    BY <1>6, <1>7, ConcatProperties
  <2>. QED
    BY <1>8, <2>1, ConcatProperties
<1>12. Added(<<key>> \o val) = key \o valText
  BY <1>1, <1>6, <1>7, AddedConcat
<1>13. Added(<<key>> \o val \o sep) = (key \o valText) \o sepText
  BY <1>1, <1>8, <1>11, <1>12, AddedConcat
<1>. QED
  BY <1>1, <1>9, <1>10, <1>11, <1>13, Zenon DEF sepText

\* What build adds for all parameters.
LEMMA QueryAdded ==
    ASSUME NEW params \in Seq(PlainParams)
    PROVE  LET pieces == FlattenSeq([k \in DOMAIN params |->
                                        ParamPieces(params[k], k = Len(params))])
           IN  pieces \in Seq(Maybe(Symbols)) /\ Added(pieces) = Query(params)
<1>. DEFINE n == Len(params)
            each == [k \in DOMAIN params |-> ParamPieces(params[k], k = n)]
            texts == [k \in DOMAIN params |-> ParamText(params[k])]
<1>1. n \in Nat /\ DOMAIN params = 1..n /\ \A k \in 1..n : params[k] \in PlainParams
  <2>1. PICK P : P = PlainParams
    OBVIOUS
  <2>2. n \in Nat /\ DOMAIN params = 1..n /\ \A k \in 1..n : params[k] \in P
    BY <2>1
  <2>. QED
    BY <2>1, <2>2
<1>. HIDE DEF n
<1>2. \A k \in 1..n :
        /\ ParamPieces(params[k], k = n) \in Seq(Maybe(Symbols))
        /\ Added(ParamPieces(params[k], k = n))
             = ParamText(params[k]) \o (IF k = n THEN << >> ELSE <<"&">>)
  <2>. TAKE k \in 1..n
  <2>1. (k = n) \in BOOLEAN
    OBVIOUS
  <2>. QED
    BY <1>1, <2>1, ParamAdded
<1>3. each \in Seq(Seq(Maybe(Symbols)))
  <2>1. PICK Y : Y = Seq(Maybe(Symbols))
    OBVIOUS
  <2>2. each \in [1..n -> Y]
    BY <1>1, <1>2, <2>1
  <2>. HIDE DEF each
  <2>3. each \in Seq(Y)
    BY <1>1, <2>2
  <2>. QED
    BY <2>1, <2>3
<1>4. FlattenSeq(each) \in Seq(Maybe(Symbols))
  <2>. HIDE DEF each
  <2>. QED
    BY <1>3, FlattenType
<1>5. Added(FlattenSeq(each)) = FlattenSeq([k \in DOMAIN each |-> Added(each[k])])
  <2>. HIDE DEF each
  <2>. QED
    BY <1>3, AddedFlatten
<1>6. [k \in DOMAIN each |-> Added(each[k])]
        = [k \in DOMAIN texts |-> texts[k] \o (IF k = Len(texts) THEN << >> ELSE <<"&">>)]
  <2>1. DOMAIN each = 1..n /\ DOMAIN texts = 1..n /\ Len(texts) = n
    BY <1>1
  <2>2. \A k \in 1..n : Added(each[k])
            = texts[k] \o (IF k = Len(texts) THEN << >> ELSE <<"&">>)
    BY <1>1, <1>2, <2>1
  <2>. HIDE DEF each, texts
  <2>. QED
    BY <2>1, <2>2
<1>7. Query(params) = Separated(texts)
  BY DEF Query, ParamTexts
<1>. QED
  BY <1>4, <1>5, <1>6, <1>7, Zenon DEF Separated, n

\* What build writes for the port, and in front of the parameters.
PortText(u) == IF u.port = NoText THEN << >> ELSE <<":">> \o u.port

MarkText(u) == IF u.get_params = << >> THEN << >> ELSE <<"?">>

\* The parts of such a uri are texts.
LEMMA PlainUriTexts ==
    ASSUME NEW u \in PlainUris
    PROVE  /\ u.scheme \in Seq(Symbols) /\ u.hostname \in Seq(Symbols)
           /\ u.port # NoText => u.port \in Seq(Symbols)
           /\ u.path \in Seq(Symbols) /\ u.get_params \in Seq(PlainParams)
           /\ PortText(u) \in Seq(Symbols) /\ MarkText(u) \in Seq(Symbols)
<1>1. /\ u.scheme \in Without({":"}) /\ u.hostname \in Without({":", "/"})
      /\ u.port # NoText => u.port \in Without({"/"})
      /\ u.path \in Without({"?"}) /\ u.get_params \in Seq(PlainParams)
  <2>1. PICK Ps : Ps = Seq(PlainParams)
    OBVIOUS
  <2>2. u.get_params \in Ps
    BY <2>1 DEF PlainUris
  <2>. QED
    BY <2>1, <2>2 DEF PlainUris
<1>2. /\ u.scheme \in Seq(Symbols) /\ u.hostname \in Seq(Symbols)
      /\ u.port # NoText => u.port \in Seq(Symbols)
      /\ u.path \in Seq(Symbols)
  BY <1>1, TextsAre
<1>3. PortText(u) \in Seq(Symbols)
  <2>1. CASE u.port = NoText
    BY <2>1 DEF PortText
  <2>2. CASE u.port # NoText
    <3>1. <<":">> \in Seq(Symbols) /\ u.port \in Seq(Symbols)
      BY <1>2, <2>2, SignsAre
    <3>2. <<":">> \o u.port \in Seq(Symbols)
      <4>. DEFINE sign == <<":">>
                  port == u.port
      <4>1. sign \in Seq(Symbols) /\ port \in Seq(Symbols)
        BY <3>1
      <4>. HIDE DEF sign, port
      <4>2. sign \o port \in Seq(Symbols)
        BY <4>1, ConcatProperties
      <4>. QED
        BY <4>2 DEF sign, port
    <3>. QED
      BY <2>2, <3>2, Zenon DEF PortText
  <2>. QED
    BY <2>1, <2>2
<1>4. MarkText(u) \in Seq(Symbols)
  <2>1. << >> \in Seq(Symbols) /\ <<"?">> \in Seq(Symbols)
    BY SignsAre
  <2>. QED
    BY <2>1, Zenon DEF MarkText
<1>. QED
  BY <1>1, <1>2, <1>3, <1>4

\* What build makes of a uri, part by part.
LEMMA BuildIs ==
    ASSUME NEW u \in PlainUris
    PROVE  /\ Query(u.get_params) \in Seq(Symbols)
           /\ build(u) =
                ((((u.scheme \o <<":", "/", "/">>) \o u.hostname) \o PortText(u))
                    \o (<<"/">> \o u.path)) \o MarkText(u) \o Query(u.get_params)
<1>. DEFINE sch == u.scheme
            css == <<":", "/", "/">>
            hst == u.hostname
            prt == u.port
            sls == <<"/">>
            pth == u.path
            params == u.get_params
            start == <<sch, css, hst>>
            port == IF prt = NoText THEN << >> ELSE << <<":">>, prt >>
            path == <<sls, pth>>
            mark == IF params = << >> THEN << >> ELSE << <<"?">> >>
            query == FlattenSeq([k \in DOMAIN params |->
                                    ParamPieces(params[k], k = Len(params))])
            portText == PortText(u)
            markText == MarkText(u)
            q == Query(params)
<1>1. PICK M, X : M = Maybe(Symbols) /\ X = Seq(Symbols)
  OBVIOUS
<1>2. X \subseteq M /\ NoText \notin X /\ << >> \in X
  BY <1>1, TextsAre
<1>3. sch \in X /\ hst \in X /\ (prt # NoText => prt \in X) /\ pth \in X
  BY <1>1, PlainUriTexts
<1>4. css \in X /\ sls \in X /\ <<":">> \in X /\ <<"?">> \in X
  BY <1>1, SignsAre
<1>5. query \in Seq(M) /\ Added(query) = q /\ q \in X
  <2>1. params \in Seq(PlainParams)
    BY PlainUriTexts
  <2>. HIDE DEF params
  <2>2. query \in Seq(M) /\ Added(query) = q
    BY <1>1, <2>1, QueryAdded
  <2>3. Added(query) \in X
    <3>. HIDE DEF query
    <3>. QED
      BY <1>1, <2>2, AddedType
  <2>. QED
    BY <2>2, <2>3
<1>6. port \in Seq(M) /\ Added(port) = portText
  <2>. HIDE DEF prt
  <2>1. CASE prt = NoText
    BY <2>1, AddedNone DEF PortText, prt
  <2>2. CASE prt # NoText
    <3>. DEFINE sign == <<":">>
    <3>1. sign \in X /\ prt \in X /\ sign \in M /\ prt \in M
      BY <1>2, <1>3, <1>4, <2>2
    <3>. HIDE DEF sign
    <3>2. <<sign, prt>> \in Seq(M)
      BY <3>1
    <3>3. Added(<<sign, prt>>) = sign \o prt
      BY <1>1, <3>1, AddedTwo
    <3>. QED
      BY <2>2, <3>2, <3>3, Zenon DEF PortText, prt, sign
  <2>. QED
    BY <2>1, <2>2
<1>7. mark \in Seq(M) /\ Added(mark) = markText
  <2>1. CASE params = << >>
    BY <2>1, AddedNone DEF MarkText
  <2>2. CASE params # << >>
    <3>. DEFINE sign == <<"?">>
    <3>1. sign \in X /\ sign \in M /\ sign # NoText
      BY <1>2, <1>4
    <3>. HIDE DEF sign
    <3>2. <<sign>> \in Seq(M) /\ Added(<<sign>>) = sign
      BY <1>1, <3>1, AddedOne
    <3>. QED
      BY <2>2, <3>2, Zenon DEF MarkText, sign
  <2>. QED
    BY <2>1, <2>2
<1>8. Pieces(u) = start \o port \o path \o mark \o query
  BY Zenon DEF Pieces
<1>. HIDE DEF sch, css, hst, sls, pth, query, port, mark, portText, markText, q
<1>9. start \in Seq(M) /\ Added(start) = (sch \o css) \o hst
  <2>1. sch \in M /\ css \in M /\ hst \in M /\ hst # NoText
    BY <1>2, <1>3, <1>4
  <2>2. start = <<sch, css>> \o <<hst>>
    BY <2>1, Triple
  <2>3. <<sch, css>> \in Seq(M) /\ <<hst>> \in Seq(M) /\ start \in Seq(M)
    BY <2>1
  <2>4. Added(<<sch, css>>) = sch \o css /\ Added(<<hst>>) = hst
    BY <1>1, <1>3, <1>4, <2>1, AddedTwo, AddedOne
  <2>. HIDE DEF start
  <2>5. Added(<<sch, css>> \o <<hst>>) = Added(<<sch, css>>) \o Added(<<hst>>)
    BY <1>1, <2>3, AddedConcat
  <2>. QED
    BY <2>2, <2>3, <2>4, <2>5
<1>10. path \in Seq(M) /\ Added(path) = sls \o pth
  <2>1. sls \in M /\ pth \in M
    BY <1>2, <1>3, <1>4
  <2>2. <<sls, pth>> \in Seq(M)
    BY <2>1
  <2>3. Added(<<sls, pth>>) = sls \o pth
    BY <1>1, <1>3, <1>4, AddedTwo
  <2>. QED
    BY <2>2, <2>3, Zenon
<1>. HIDE DEF start, path
<1>11. start \o port \in Seq(M) /\ Added(start \o port) = Added(start) \o Added(port)
  BY <1>1, <1>6, <1>9, AddedConcat, ConcatProperties
<1>12. /\ start \o port \o path \in Seq(M)
       /\ Added(start \o port \o path) = Added(start \o port) \o Added(path)
  BY <1>1, <1>10, <1>11, AddedConcat, ConcatProperties
<1>13. /\ start \o port \o path \o mark \in Seq(M)
       /\ Added(start \o port \o path \o mark) = Added(start \o port \o path) \o Added(mark)
  BY <1>1, <1>7, <1>12, AddedConcat, ConcatProperties
<1>14. Added(start \o port \o path \o mark \o query)
         = Added(start \o port \o path \o mark) \o Added(query)
  BY <1>1, <1>5, <1>13, AddedConcat
<1>15. build(u) = Added(Pieces(u))
  BY Zenon DEF build, Added
<1>16. build(u) = ((((sch \o css) \o hst) \o portText) \o (sls \o pth)) \o markText \o q
  BY <1>5, <1>6, <1>7, <1>8, <1>9, <1>10, <1>11, <1>12, <1>13, <1>14, <1>15, Zenon
<1>. QED
  BY <1>1, <1>5, <1>16, Zenon DEF sch, css, hst, sls, pth, portText, markText, q

\* The last position before the port, the path and the parameters.
PortAt(u) == Len(u.scheme) + 3 + Len(u.hostname)

PathAt(u) == PortAt(u) + Len(PortText(u)) + 1

MarkAt(u) == PathAt(u) + Len(u.path)

\* Where build puts the parts.
LEMMA BuildLies ==
    ASSUME NEW u \in PlainUris
    PROVE  /\ build(u) \in Seq(Symbols) /\ Query(u.get_params) \in Seq(Symbols)
           /\ Lies(build(u), 0, u.scheme)
           /\ Lies(build(u), Len(u.scheme), <<":", "/", "/">>)
           /\ Lies(build(u), Len(u.scheme) + 3, u.hostname)
           /\ Lies(build(u), PortAt(u), PortText(u))
           /\ Lies(build(u), PathAt(u) - 1, <<"/">>)
           /\ Lies(build(u), PathAt(u), u.path)
           /\ Lies(build(u), MarkAt(u), MarkText(u))
           /\ Lies(build(u), MarkAt(u) + Len(MarkText(u)), Query(u.get_params))
           /\ Len(build(u)) = MarkAt(u) + Len(MarkText(u)) + Len(Query(u.get_params))
<1>. DEFINE sch == u.scheme
            css == <<":", "/", "/">>
            hst == u.hostname
            port == PortText(u)
            sls == <<"/">>
            pth == u.path
            mark == MarkText(u)
            q == Query(u.get_params)
            sp == sls \o pth
            w == build(u)
<1>1. /\ sch \in Seq(Symbols) /\ css \in Seq(Symbols) /\ hst \in Seq(Symbols)
      /\ port \in Seq(Symbols) /\ sls \in Seq(Symbols) /\ pth \in Seq(Symbols)
      /\ mark \in Seq(Symbols)
  BY PlainUriTexts, SignsAre
<1>2. q \in Seq(Symbols) /\ w = ((((sch \o css) \o hst) \o port) \o sp) \o mark \o q
  BY BuildIs
<1>3. Len(css) = 3 /\ Len(sls) = 1
  OBVIOUS
<1>. HIDE DEF sch, css, hst, port, sls, pth, mark, q, w
<1>4. /\ Len(sch) \in Nat /\ Len(hst) \in Nat /\ Len(port) \in Nat /\ Len(pth) \in Nat
      /\ Len(mark) \in Nat /\ Len(q) \in Nat
  BY <1>1, <1>2
<1>. DEFINE w1 == sch \o css
            w2 == w1 \o hst
            w3 == w2 \o port
            w4 == w3 \o sp
            w5 == w4 \o mark
<1>5. /\ sp \in Seq(Symbols) /\ Len(sp) = Len(sls) + Len(pth)
      /\ Lies(sp, 0, sls) /\ Lies(sp, Len(sls), pth)
  BY <1>1, LiesJoined
<1>. HIDE DEF sp
<1>6. w1 \in Seq(Symbols) /\ Len(w1) = Len(sch) + Len(css)
  BY <1>1, LiesJoined
<1>. HIDE DEF w1
<1>7. w2 \in Seq(Symbols) /\ Len(w2) = Len(w1) + Len(hst)
  BY <1>1, <1>6, LiesJoined
<1>. HIDE DEF w2
<1>8. w3 \in Seq(Symbols) /\ Len(w3) = Len(w2) + Len(port)
  BY <1>1, <1>7, LiesJoined
<1>. HIDE DEF w3
<1>9. w4 \in Seq(Symbols) /\ Len(w4) = Len(w3) + Len(sp)
  BY <1>5, <1>8, LiesJoined
<1>. HIDE DEF w4
<1>10. w5 \in Seq(Symbols) /\ Len(w5) = Len(w4) + Len(mark)
  BY <1>1, <1>9, LiesJoined
<1>. HIDE DEF w5
<1>11. /\ w = w5 \o q /\ w5 = w4 \o mark /\ w4 = w3 \o sp /\ w3 = w2 \o port
       /\ w2 = w1 \o hst /\ w1 = sch \o css
  BY <1>2, Zenon DEF w5, w4, w3, w2, w1
<1>12. /\ w \in Seq(Symbols) /\ Len(w) = Len(w5) + Len(q)
       /\ Lies(w, 0, w5) /\ Lies(w, Len(w5), q)
  <2>1. /\ w5 \o q \in Seq(Symbols) /\ Len(w5 \o q) = Len(w5) + Len(q)
        /\ Lies(w5 \o q, 0, w5) /\ Lies(w5 \o q, Len(w5), q)
    BY <1>2, <1>10, LiesJoined
  <2>. QED
    BY <1>11, <2>1
<1>13. Lies(w, 0, w4) /\ Lies(w, Len(w4), mark)
  BY <1>1, <1>9, <1>11, <1>12, LiesNext
<1>14. Lies(w, 0, w3) /\ Lies(w, Len(w3), sp)
  BY <1>5, <1>8, <1>11, <1>13, LiesNext
<1>15. Lies(w, 0, w2) /\ Lies(w, Len(w2), port)
  BY <1>1, <1>7, <1>11, <1>14, LiesNext
<1>16. Lies(w, 0, w1) /\ Lies(w, Len(w1), hst)
  BY <1>1, <1>6, <1>11, <1>15, LiesNext
<1>17. Lies(w, 0, sch) /\ Lies(w, Len(sch), css)
  BY <1>1, <1>11, <1>16, LiesNext
<1>18. Lies(w, Len(w3), sls) /\ Lies(w, Len(w3) + 1, pth)
  <2>. DEFINE at == Len(w3) + 1
  <2>1. Len(w3) \in Nat /\ Len(w3) = Len(w3) + 0 /\ at = Len(w3) + Len(sls)
    BY <1>3, <1>8
  <2>. HIDE DEF at
  <2>2. Lies(w, Len(w3), sls) /\ Lies(w, at, pth)
    BY <1>5, <1>14, <2>1, LiesWithin
  <2>. QED
    BY <2>2 DEF at
<1>19. /\ Len(w1) = Len(sch) + 3 /\ Len(w2) = PortAt(u) /\ Len(w3) = PathAt(u) - 1
       /\ Len(w3) + 1 = PathAt(u) /\ Len(w4) = MarkAt(u) /\ Len(w5) = MarkAt(u) + Len(mark)
       /\ Len(w) = MarkAt(u) + Len(mark) + Len(q)
  <2>1. PortAt(u) = Len(sch) + 3 + Len(hst)
    BY DEF PortAt, sch, hst
  <2>2. PathAt(u) = PortAt(u) + Len(port) + 1
    BY DEF PathAt, port
  <2>3. MarkAt(u) = PathAt(u) + Len(pth)
    BY DEF MarkAt, pth
  <2>. QED
    BY <1>3, <1>4, <1>5, <1>6, <1>7, <1>8, <1>9, <1>10, <1>12, <2>1, <2>2, <2>3
<1>. QED
  BY <1>2, <1>12, <1>13, <1>15, <1>16, <1>17, <1>18, <1>19
     DEF sch, css, hst, port, sls, pth, mark, q, w

-----------------------------------------------------------------------------
(* What parse finds in that text *)

LEMMA LacksAre ==
    ASSUME NEW signs, NEW text \in Without(signs)
    PROVE  Lacks(text, signs)
  BY DEF Without, Lacks

\* parse finds the scheme that build wrote.
LEMMA SchemeRead ==
    ASSUME NEW u \in PlainUris
    PROVE  SchemePart(build(u)) =
             [rc |-> 0, scheme |-> u.scheme, uindex |-> Len(u.scheme) + 4,
              p |-> Len(u.scheme) + 4]
<1>. DEFINE w == build(u)
            n == Len(u.scheme)
            colon == Find(w, 1, {":"})
            text == SubSeq(w, 1, colon - 1)
            Is(k) == k <= Len(w) /\ w[k] = "/"
            css == <<":", "/", "/">>
<1>1. Lies(w, 0, u.scheme) /\ Lies(w, n, css) /\ u.scheme \in Seq(Symbols)
  BY BuildLies, PlainUriTexts
<1>2. Lacks(u.scheme, {":"})
  BY LacksAre DEF PlainUris
<1>. HIDE DEF w
<1>3. /\ n \in Nat /\ Len(w) \in Nat /\ n + 3 <= Len(w)
      /\ w[n + 1] = ":" /\ w[n + 2] = "/"
  <2>1. Len(css) = 3 /\ css[1] = ":" /\ css[2] = "/"
    OBVIOUS
  <2>. HIDE DEF css, n
  <2>2. /\ n \in Nat /\ Len(w) \in Nat /\ n + Len(css) <= Len(w)
        /\ \A j \in 1..Len(css) : w[n + j] = css[j]
    BY <1>1 DEF Lies
  <2>3. 1 \in 1..3 /\ 2 \in 1..3
    OBVIOUS
  <2>. QED
    BY <2>1, <2>2, <2>3
<1>4. colon = n + 1
  <2>. DEFINE next == n + 1
  <2>1. 1 = 0 + 1 /\ next = 0 + Len(u.scheme) + 1 /\ w[next] \in {":"}
    BY <1>3
  <2>. HIDE DEF next, n
  <2>2. Find(w, 1, {":"}) = next
    BY <1>1, <1>2, <2>1, FindBehind
  <2>. QED
    BY <2>2 DEF next
<1>. HIDE DEF colon
<1>5. /\ ~(colon > Len(w)) /\ colon # Len(w) /\ colon < Len(w) /\ Is(colon + 1)
      /\ colon + 3 = n + 4
  BY <1>3, <1>4
<1>6. text = u.scheme
  <2>. DEFINE last == colon - 1
  <2>1. 1 = 0 + 1 /\ last = 0 + Len(u.scheme)
    BY <1>3, <1>4
  <2>. HIDE DEF last
  <2>2. SubSeq(w, 1, last) = u.scheme
    BY <1>1, <2>1, LiesTaken
  <2>. QED
    BY <2>2 DEF last
<1>7. SchemePart(w) =
        CASE colon > Len(w) -> [rc |-> 0, scheme |-> NoText, uindex |-> 1, p |-> Len(w) + 1]
          [] colon = Len(w) -> [rc |-> 1]
          [] colon < Len(w) /\ ~Is(colon + 1) /\ ~Is(colon + 2) -> [rc |-> 2]
          [] colon < Len(w) /\ (Is(colon + 1) \/ Is(colon + 2)) ->
               [rc |-> 0, scheme |-> text, uindex |-> colon + 3,
                p |-> IF Is(colon + 1) THEN colon + 3 ELSE colon + 4]
  BY Zenon DEF SchemePart, colon
<1>. HIDE DEF text, Is, n
<1>8. SchemePart(w) = [rc |-> 0, scheme |-> text, uindex |-> colon + 3, p |-> colon + 3]
  BY <1>5, <1>7
<1>. QED
  BY <1>5, <1>6, <1>8 DEF w, n

\* Where parse looks for the port, the slash before the path, and the query.
LEMMA PlacesFound ==
    ASSUME NEW u \in PlainUris, NEW w, w = build(u)
    PROVE  /\ Len(u.scheme) \in Nat /\ Len(u.hostname) \in Nat /\ Len(u.path) \in Nat
           /\ Len(PortText(u)) \in Nat /\ Len(w) \in Nat
           /\ PortAt(u) \in Nat /\ PathAt(u) \in Nat /\ MarkAt(u) \in Nat
           /\ Len(u.scheme) + 3 <= PortAt(u) /\ PortAt(u) + 1 <= PathAt(u)
           /\ PathAt(u) <= Len(w) /\ MarkAt(u) <= Len(w)
           /\ Find(w, Len(u.scheme) + 4, {":", "/"}) = PortAt(u) + 1
           /\ u.port # NoText => w[PortAt(u) + 1] = ":"
           /\ u.port = NoText => PathAt(u) = PortAt(u) + 1 /\ w[PortAt(u) + 1] = "/"
           /\ u.port # NoText => Find(w, PortAt(u) + 1, {"/"}) = PathAt(u)
           /\ Find(w, PathAt(u) + 1, {"?"}) = MarkAt(u) + 1
<1>. DEFINE n == Len(u.scheme)
            port == PortText(u)
            mark == MarkText(u)
            q == Query(u.get_params)
            pa == PortAt(u)
            la == PathAt(u)
            ma == MarkAt(u)
<1>1. /\ Lies(w, n + 3, u.hostname) /\ Lies(w, pa, port)
      /\ Lies(w, la - 1, <<"/">>) /\ Lies(w, la, u.path)
      /\ Lies(w, ma, mark) /\ Len(w) = ma + Len(mark) + Len(q)
      /\ q \in Seq(Symbols)
  BY BuildLies
<1>2. /\ Lacks(u.hostname, {":", "/"}) /\ Lacks(u.path, {"?"})
      /\ u.port # NoText => Lacks(u.port, {"/"})
  BY LacksAre DEF PlainUris
<1>3. /\ u.scheme \in Seq(Symbols) /\ u.hostname \in Seq(Symbols) /\ u.path \in Seq(Symbols)
      /\ (u.port # NoText => u.port \in Seq(Symbols)) /\ port \in Seq(Symbols)
  BY PlainUriTexts
<1>4. /\ n \in Nat /\ Len(u.hostname) \in Nat /\ Len(u.path) \in Nat /\ Len(port) \in Nat
      /\ Len(w) \in Nat /\ Len(mark) \in Nat /\ Len(q) \in Nat
  <2>1. n \in Nat /\ Len(u.hostname) \in Nat /\ Len(u.path) \in Nat
    BY <1>3
  <2>2. Len(port) \in Nat /\ Len(w) \in Nat /\ Len(mark) \in Nat
    BY <1>1 DEF Lies
  <2>. HIDE DEF q
  <2>3. Len(q) \in Nat
    BY <1>1
  <2>. QED
    BY <2>1, <2>2, <2>3
<1>5. pa = n + 3 + Len(u.hostname) /\ la = pa + Len(port) + 1 /\ ma = la + Len(u.path)
  BY DEF PortAt, PathAt, MarkAt
<1>. HIDE DEF n, port, mark, q, pa, la, ma
<1>6. /\ pa \in Nat /\ la \in Nat /\ ma \in Nat
      /\ pa = n + 3 + Len(u.hostname) /\ la = pa + Len(port) + 1 /\ ma = la + Len(u.path)
      /\ n + 3 <= pa /\ pa + 1 <= la
      /\ la <= Len(w) /\ ma <= Len(w) /\ Len(w) = ma + Len(mark) + Len(q)
  <2>. DEFINE h == Len(u.hostname)
              p == Len(u.path)
              pl == Len(port)
              ml == Len(mark)
              ql == Len(q)
              wl == Len(w)
  <2>1. /\ n \in Nat /\ h \in Nat /\ p \in Nat /\ pl \in Nat /\ ml \in Nat /\ ql \in Nat
        /\ wl = ma + ml + ql
    BY <1>1, <1>4
  <2>2. pa = n + 3 + h /\ la = pa + pl + 1 /\ ma = la + p
    BY <1>5
  <2>. HIDE DEF h, p, pl, ml, ql, wl
  <2>3. /\ pa \in Nat /\ la \in Nat /\ ma \in Nat
        /\ n + 3 <= pa /\ pa + 1 <= la /\ la <= wl /\ ma <= wl
    BY <2>1, <2>2
  <2>. QED
    BY <2>1, <2>2, <2>3 DEF h, p, pl, ml, ql, wl
<1>7. w[la] = "/"
  <2>. DEFINE at == la - 1
  <2>1. la = at + 1 /\ Lies(w, at, <<"/">>)
    BY <1>1, <1>6
  <2>. HIDE DEF at
  <2>. QED
    BY <2>1, SignLies
<1>8. u.port # NoText =>
        /\ w[pa + 1] = ":"
        /\ Lacks(port, {"/"})
  <2>. SUFFICES ASSUME u.port # NoText
                PROVE  w[pa + 1] = ":" /\ Lacks(port, {"/"})
    OBVIOUS
  <2>. DEFINE sign == <<":">>
              rest == u.port
  <2>1. port = sign \o rest /\ sign \in Seq(Symbols) /\ rest \in Seq(Symbols)
    BY <1>3, SignsAre DEF PortText, port
  <2>2. Len(sign) = 1 /\ sign[1] = ":"
    OBVIOUS
  <2>3. \A j \in 1..Len(rest) : rest[j] \notin {"/"}
    BY <1>2 DEF Lacks
  <2>. HIDE DEF sign, rest
  <2>4. /\ Len(port) = Len(sign) + Len(rest) /\ Len(rest) \in Nat
        /\ \A j \in 1..(Len(sign) + Len(rest)) :
              port[j] = IF j <= Len(sign) THEN sign[j] ELSE rest[j - Len(sign)]
    BY <2>1, ConcatProperties
  <2>5. \A j \in 1..(1 + Len(rest)) : j = 1 \/ (~(j <= 1) /\ j - 1 \in 1..Len(rest))
    BY <2>4
  <2>6. 1 \in 1..(1 + Len(rest)) /\ 1 <= 1
    BY <2>4
  <2>7. port[1] = ":" /\ \A j \in 1..(1 + Len(rest)) : j = 1 \/ port[j] = rest[j - 1]
    BY <2>2, <2>4, <2>5, <2>6
  <2>8. Lacks(port, {"/"})
    <3>1. \A j \in 1..(1 + Len(rest)) : port[j] \notin {"/"}
      BY <2>3, <2>5, <2>7
    <3>. QED
      BY <2>2, <2>4, <3>1 DEF Lacks
  <2>9. w[pa + 1] = port[1]
    <3>1. \A j \in 1..Len(port) : w[pa + j] = port[j]
      BY <1>1 DEF Lies
    <3>. QED
      BY <2>2, <2>4, <2>6, <3>1
  <2>. QED
    BY <2>7, <2>8, <2>9
<1>9. u.port = NoText => la = pa + 1
  <2>. SUFFICES ASSUME u.port = NoText PROVE la = pa + 1
    OBVIOUS
  <2>1. port = << >>
    BY DEF PortText, port
  <2>2. Len(port) = 0
    BY <2>1
  <2>. QED
    BY <1>6, <2>2
<1>10. Find(w, n + 4, {":", "/"}) = pa + 1
  <2>. DEFINE at == n + 3
              first == n + 4
              next == pa + 1
  <2>1. Lies(w, at, u.hostname) /\ first = at + 1 /\ next = at + Len(u.hostname) + 1
    BY <1>1, <1>4, <1>6
  <2>2. w[next] \in {":", "/"}
    BY <1>7, <1>8, <1>9
  <2>. HIDE DEF at, first, next
  <2>3. Find(w, first, {":", "/"}) = next
    BY <1>2, <2>1, <2>2, FindBehind
  <2>. QED
    BY <2>3 DEF first, next
<1>11. u.port # NoText => Find(w, pa + 1, {"/"}) = la
  <2>. DEFINE first == pa + 1
  <2>1. Lies(w, pa, port) /\ la = pa + Len(port) + 1 /\ w[la] \in {"/"} /\ first = pa + 1
    BY <1>1, <1>6, <1>7
  <2>. HIDE DEF first
  <2>2. u.port # NoText => Find(w, first, {"/"}) = la
    BY <1>8, <2>1, FindBehind
  <2>. QED
    BY <2>2 DEF first
<1>12. Find(w, la + 1, {"?"}) = ma + 1
  <2>. DEFINE first == la + 1
              next == ma + 1
  <2>1. next > Len(w) \/ w[next] \in {"?"}
    <3>1. CASE u.get_params = << >>
      <4>1. mark = << >> /\ q = << >>
        BY <3>1, EmptyQuery DEF MarkText, mark, q
      <4>2. Len(mark) = 0 /\ Len(q) = 0
        BY <4>1
      <4>3. Len(w) = ma + 0 + 0
        BY <1>6, <4>2
      <4>4. ma \in Nat
        BY <1>6
      <4>. QED
        BY <4>3, <4>4
    <3>2. CASE u.get_params # << >>
      <4>1. Lies(w, ma, <<"?">>)
        BY <1>1, <3>2 DEF MarkText, mark
      <4>. QED
        BY <4>1, SignLies
    <3>. QED
      BY <3>1, <3>2
  <2>2. Lies(w, la, u.path) /\ first = la + 1 /\ next = la + Len(u.path) + 1
    BY <1>1, <1>4, <1>6
  <2>. HIDE DEF first, next
  <2>3. Find(w, first, {"?"}) = next
    BY <1>2, <2>1, <2>2, FindBehind
  <2>. QED
    BY <2>3 DEF first, next
<1>. QED
  BY <1>4, <1>6, <1>7, <1>8, <1>9, <1>10, <1>11, <1>12 DEF n, port, pa, la, ma

\* The texts that lie at the places found.
LEMMA PartsRead ==
    ASSUME NEW u \in PlainUris, NEW w, w = build(u)
    PROVE  /\ SubSeq(w, Len(u.scheme) + 4, PortAt(u)) = u.hostname
           /\ u.port # NoText => SubSeq(w, PortAt(u) + 2, PathAt(u) - 1) = u.port
           /\ SubSeq(w, PathAt(u) + 1, MarkAt(u)) = u.path
           /\ SubSeq(w, MarkAt(u) + 2, Len(w)) = Query(u.get_params)
           /\ u.get_params # << >> => MarkAt(u) + 1 <= Len(w)
           /\ u.get_params = << >> => MarkAt(u) = Len(w)
<1>. DEFINE n == Len(u.scheme)
            port == PortText(u)
            mark == MarkText(u)
            q == Query(u.get_params)
            pa == PortAt(u)
            la == PathAt(u)
            ma == MarkAt(u)
<1>1. /\ Lies(w, n + 3, u.hostname) /\ Lies(w, pa, port) /\ Lies(w, la, u.path)
      /\ Lies(w, ma, mark) /\ Lies(w, ma + Len(mark), q)
      /\ Len(w) = ma + Len(mark) + Len(q) /\ q \in Seq(Symbols)
  BY BuildLies
<1>2. /\ u.scheme \in Seq(Symbols) /\ u.hostname \in Seq(Symbols) /\ u.path \in Seq(Symbols)
      /\ (u.port # NoText => u.port \in Seq(Symbols)) /\ port \in Seq(Symbols)
  BY PlainUriTexts
<1>3. /\ n \in Nat /\ Len(u.hostname) \in Nat /\ Len(u.path) \in Nat /\ Len(port) \in Nat
      /\ Len(w) \in Nat /\ pa \in Nat /\ la \in Nat /\ ma \in Nat
  BY PlacesFound
<1>4. pa = n + 3 + Len(u.hostname) /\ la = pa + Len(port) + 1 /\ ma = la + Len(u.path)
  BY DEF PortAt, PathAt, MarkAt
<1>. HIDE DEF n, port, mark, q, pa, la, ma
<1>5. pa \in Nat /\ la \in Nat /\ ma \in Nat
  BY <1>3
<1>6. SubSeq(w, n + 4, pa) = u.hostname
  <2>. DEFINE at == n + 3
              first == n + 4
  <2>1. Lies(w, at, u.hostname) /\ first = at + 1 /\ pa = at + Len(u.hostname)
    BY <1>1, <1>3, <1>4
  <2>. HIDE DEF at, first
  <2>2. SubSeq(w, first, pa) = u.hostname
    BY <1>2, <2>1, LiesTaken
  <2>. QED
    BY <2>2 DEF first
<1>7. u.port # NoText => SubSeq(w, pa + 2, la - 1) = u.port
  <2>. SUFFICES ASSUME u.port # NoText
                PROVE  SubSeq(w, pa + 2, la - 1) = u.port
    OBVIOUS
  <2>. DEFINE sign == <<":">>
              rest == u.port
              at == pa + 1
              first == pa + 2
              last == la - 1
  <2>1. port = sign \o rest /\ sign \in Seq(Symbols) /\ rest \in Seq(Symbols)
    BY <1>2, SignsAre DEF PortText, port
  <2>2. Len(sign) = 1
    OBVIOUS
  <2>. HIDE DEF sign, rest
  <2>3. Len(sign \o rest) = Len(sign) + Len(rest) /\ Lies(sign \o rest, Len(sign), rest)
    BY <2>1, LiesJoined
  <2>4. Len(port) = 1 + Len(rest) /\ Lies(port, 1, rest) /\ Len(rest) \in Nat
    BY <2>1, <2>2, <2>3
  <2>5. first = at + 1 /\ last = at + Len(rest) /\ at = pa + 1
    <3>1. pa \in Nat /\ la = pa + Len(port) + 1
      BY <1>4, <1>5
    <3>2. PICK len : len = Len(rest)
      OBVIOUS
    <3>3. len \in Nat /\ la = pa + (1 + len) + 1
      BY <2>4, <3>1, <3>2
    <3>4. first = at + 1 /\ at = pa + 1
      BY <3>1
    <3>5. last = at + len
      BY <3>1, <3>3
    <3>. QED
      BY <3>2, <3>4, <3>5
  <2>. HIDE DEF at, first, last
  <2>6. Lies(w, at, rest)
    <3>1. Lies(w, pa, port) /\ Lies(port, 1, rest) /\ at = pa + 1
      BY <1>1, <2>4, <2>5
    <3>. QED
      BY <3>1, LiesWithin
  <2>7. SubSeq(w, first, last) = rest
    <3>1. rest \in Seq(Symbols) /\ first = at + 1 /\ last = at + Len(rest)
      BY <2>1, <2>5
    <3>. QED
      BY <2>6, <3>1, LiesTaken
  <2>. QED
    BY <2>7 DEF first, last, rest
<1>8. SubSeq(w, la + 1, ma) = u.path
  <2>. DEFINE first == la + 1
  <2>1. /\ first = la + 1 /\ ma = la + Len(u.path)
        /\ Lies(w, la, u.path) /\ u.path \in Seq(Symbols)
    BY <1>1, <1>2, <1>4
  <2>. HIDE DEF first
  <2>2. SubSeq(w, first, ma) = u.path
    BY <2>1, LiesTaken
  <2>. QED
    BY <2>2 DEF first
<1>9. Len(q) \in Nat
  BY <1>1
<1>10. CASE u.get_params = << >>
  <2>1. mark = << >> /\ q = << >>
    BY <1>10, EmptyQuery DEF MarkText, mark, q
  <2>2. Len(mark) = 0 /\ Len(q) = 0
    BY <2>1
  <2>3. Len(w) = ma + 0 + 0
    BY <1>1, <2>2
  <2>4. Len(w) = ma
    BY <1>5, <2>3
  <2>5. SubSeq(w, ma + 2, Len(w)) = << >>
    <3>. DEFINE first == ma + 2
    <3>1. first \in Int /\ ma \in Int /\ ma < first
      BY <1>5
    <3>. HIDE DEF first
    <3>2. SubSeq(w, first, ma) = << >>
      BY <3>1, SubSeqEmpty
    <3>. QED
      BY <2>4, <3>2 DEF first
  <2>. QED
    BY <1>6, <1>7, <1>8, <1>10, <2>1, <2>4, <2>5 DEF n, pa, la, ma, q
<1>11. CASE u.get_params # << >>
  <2>1. mark = <<"?">>
    BY <1>11 DEF MarkText, mark
  <2>2. Len(mark) = 1
    BY <2>1
  <2>. DEFINE at == ma + 1
              first == ma + 2
              last == Len(w)
  <2>3. Lies(w, at, q) /\ first = at + 1 /\ last = at + Len(q)
    <3>1. Lies(w, ma + 1, q) /\ Len(w) = ma + 1 + Len(q)
      BY <1>1, <2>2
    <3>2. ma + 2 = ma + 1 + 1
      BY <1>5
    <3>. QED
      BY <3>1, <3>2
  <2>4. ma + 1 <= Len(w)
    BY <1>5, <1>9, <2>3
  <2>. HIDE DEF at, first, last
  <2>5. SubSeq(w, first, last) = q
    BY <1>1, <2>3, LiesTaken
  <2>. QED
    BY <1>6, <1>7, <1>8, <1>11, <2>4, <2>5 DEF n, pa, la, ma, q, first, last
<1>. QED
  BY <1>10, <1>11

\* parse adds to a new uri what the texts of the parameters stand for.
LEMMA AddsRead ==
    ASSUME NEW params \in Seq(PlainParams), Len(params) <= URI_MAX_PARAMS
    PROVE  (CHOOSE f : Adds(f, ParamTexts(params), uri_new))[Len(ParamTexts(params))]
             = [uri_new EXCEPT !.get_params = KeptParams(params)]
<1>. DEFINE n == Len(params)
            kept == KeptParams(params)
            texts == ParamTexts(params)
            f == CHOOSE g : Adds(g, texts, uri_new)
            With(ps) == [uri_new EXCEPT !.get_params = ps]
            Some(k) == SubSeq(kept, 1, k)
            S == {k \in Nat : k <= n => f[k] = With(Some(k))}
<1>1. PICK P : P = PlainParams
  OBVIOUS
<1>2. /\ params \in Seq(P) /\ n \in Nat /\ DOMAIN params = 1..n
      /\ \A k \in 1..n : params[k] \in P
  BY <1>1
<1>13. /\ kept \in Seq(P) /\ Len(kept) = n
       /\ \A k \in 1..n : kept[k] = Kept(params[k]) /\ kept[k] \in P
  <2>. HIDE DEF n
  <2>1. kept = [k \in 1..n |-> Kept(params[k])]
    BY <1>2 DEF KeptParams
  <2>2. \A k \in 1..n : Kept(params[k]) \in P
    BY <1>1, <1>2 DEF Kept, PlainParams, MaybeText
  <2>. QED
    BY <1>2, <2>1, <2>2
<1>3. /\ texts \in Seq(Seq(Symbols)) /\ Len(texts) = n
      /\ \A k \in 1..n : texts[k] = ParamText(params[k])
  <2>1. PICK X : X = Seq(Symbols)
    OBVIOUS
  <2>2. \A k \in 1..n : ParamText(params[k]) \in X
    BY <1>1, <1>2, <2>1, ParamTextLies, TextsAre
  <2>3. texts = [k \in 1..n |-> ParamText(params[k])]
    BY <1>2 DEF ParamTexts
  <2>. HIDE DEF texts, n
  <2>4. texts \in Seq(X) /\ Len(texts) = n
    BY <1>2, <2>2, <2>3
  <2>. QED
    BY <2>1, <2>3, <2>4
<1>. HIDE DEF texts, kept
<1>4. Adds(f, texts, uri_new)
  <2>. DEFINE D == Decoded(Symbols)
  <2>1. uri_new \in Uris(D)
    <3>1. << >> \in Seq(Params(D))
      OBVIOUS
    <3>. HIDE DEF D
    <3>. QED
      BY <3>1 DEF uri_new, Uris, Maybe
  <2>2. D \subseteq D
    OBVIOUS
  <2>. QED
    BY <1>3, <2>1, <2>2, AddsExists
<1>. HIDE DEF f
<1>5. \A k \in 0..n :
        f[k] = IF k = 0 THEN uri_new
               ELSE add_get_param(f[k - 1], Param(texts[k]).key, Param(texts[k]).value)
  BY <1>3, <1>4, Zenon DEF Adds
<1>6. 0 \in S
  <2>1. f[0] = uri_new
    BY <1>2, <1>5
  <2>2. Some(0) = << >>
    BY SubSeqEmpty
  <2>3. With(<< >>) = uri_new
    BY DEF uri_new
  <2>. HIDE DEF With
  <2>. QED
    BY <2>1, <2>2, <2>3
<1>7. ASSUME NEW k \in Nat, k \in S
      PROVE  k + 1 \in S
  <2>. SUFFICES ASSUME k + 1 <= n
                PROVE  f[k + 1] = With(Some(k + 1))
    OBVIOUS
  <2>. DEFINE p == kept[k + 1]
              some == Some(k)
  <2>1. /\ k + 1 \in 0..n /\ k + 1 \in 1..n /\ k + 1 # 0 /\ (k + 1) - 1 = k
        /\ k \in 0..(n - 1) /\ k \in 0..n /\ k < n
    BY <1>2
  <2>2. f[k + 1] = add_get_param(f[k], Param(texts[k + 1]).key, Param(texts[k + 1]).value)
    BY <1>5, <2>1
  <2>3. Param(texts[k + 1]) = p /\ p \in P
    BY <1>1, <1>2, <1>3, <1>13, <2>1, ParamRead
  <2>4. f[k] = With(some)
    BY <1>7, <2>1
  <2>5. Some(k + 1) = Append(some, p)
    BY <1>2, <1>13, <2>1, TakeOneMore
  <2>6. Len(some) = k
    BY <1>2, <1>13, <2>1, TakenIsPrefix
  <2>7. p.key # NoText /\ p = [key |-> p.key, value |-> p.value]
    <3>1. p.key \in Seq(Symbols)
      BY <1>1, <2>3, PlainKey, TextsAre
    <3>. HIDE DEF p
    <3>2. p = [key |-> p.key, value |-> p.value]
      BY <1>1, <2>3 DEF PlainParams
    <3>. QED
      BY <3>1, <3>2, TextsAre
  <2>. HIDE DEF p, some
  <2>8. HasRoom(With(some))
    <3>1. With(some).get_params = some
      BY DEF uri_new
    <3>2. k < URI_MAX_PARAMS
      BY <1>2, <2>1, UriAssumption
    <3>. HIDE DEF With
    <3>. QED
      BY <2>6, <3>1, <3>2 DEF HasRoom
  <2>9. add_get_param(With(some), p.key, p.value)
          = [With(some) EXCEPT !.get_params = Append(@, [key |-> p.key, value |-> p.value])]
    BY <2>7, <2>8, Zenon DEF add_get_param
  <2>10. [With(some) EXCEPT !.get_params = Append(@, p)] = With(Append(some, p))
    BY DEF uri_new
  <2>. HIDE DEF With
  <2>. QED
    BY <2>2, <2>3, <2>4, <2>5, <2>7, <2>9, <2>10
<1>8. \A k \in Nat : k \in S
  <2>. HIDE DEF S
  <2>. QED
    BY <1>6, <1>7, InductiveSet
<1>9. Some(n) = kept
  BY <1>2, <1>13, SubSeqFull
<1>10. f[n] = With(kept)
  <2>1. n \in S
    <3>. HIDE DEF S, n
    <3>. QED
      BY <1>2, <1>8
  <2>2. f[n] = With(Some(n))
    <3>. HIDE DEF With, Some
    <3>. QED
      BY <1>2, <2>1
  <2>. HIDE DEF With, Some, n
  <2>. QED
    BY <1>9, <2>2
<1>. QED
  BY <1>3, <1>10 DEF f, texts, kept

\* What a uri is once parse has set four of its parts.
LEMMA PartsFit ==
    ASSUME NEW a, NEW b, NEW c, NEW d, NEW g, NEW none, NEW base, NEW f,
           base = [scheme |-> none, hostname |-> none, port |-> none,
                   path |-> none, get_params |-> g],
           f = [base EXCEPT !.scheme = a, !.hostname = b, !.port = c, !.path = d]
    PROVE  f \in [scheme : {a}, hostname : {b}, port : {c}, path : {d}, get_params : {g}]
OBVIOUS

LEMMA PartsSet ==
    ASSUME NEW a, NEW b, NEW c, NEW d, NEW g, NEW none, NEW base, NEW f,
           base = [scheme |-> none, hostname |-> none, port |-> none,
                   path |-> none, get_params |-> g],
           f = [base EXCEPT !.scheme = a, !.hostname = b, !.port = c, !.path = d]
    PROVE  f = [scheme |-> a, hostname |-> b, port |-> c, path |-> d, get_params |-> g]
<1>1. f \in [scheme : {a}, hostname : {b}, port : {c}, path : {d}, get_params : {g}]
  BY PartsFit
<1>. QED
  BY <1>1

\* What is parsed from the text that build makes of a uri is that uri, whatever its
\* parts and however many parameters it has, as long as the table has room for them
\* (uri.c:94-216, 218-351): no part holds a sign by which parse finds that part's end
\* and no key is empty; a value that is an empty text is read back as no value.
THEOREM ParseUndoesBuild ==
    ASSUME NEW u \in PlainUris, Len(u.get_params) <= URI_MAX_PARAMS
    PROVE  parse(build(u), uri_new)
             = [rc |-> 0, uri |-> [u EXCEPT !.get_params = KeptParams(u.get_params)]]
<1>. DEFINE w == build(u)
            params == u.get_params
            kept == KeptParams(params)
            texts == ParamTexts(params)
            n == Len(u.scheme)
            pa == PortAt(u)
            la == PathAt(u)
            ma == MarkAt(u)
            part == SchemePart(w)
            host == Find(w, part.p, {":", "/"})
            Copy(from, m) == SubSeq(w, from, from + m - 1)
            slash == Find(w, host, {"/"})
            hasHost == host <= Len(w)
            hasPort == hasHost /\ w[host] = ":"
            port == part.uindex + host - part.p + 1
            p == CASE ~hasHost -> host
                   [] hasPort -> IF slash > Len(w) THEN slash ELSE slash + 1
                   [] hasHost /\ ~hasPort -> host + 1
            uindex == CASE ~hasHost -> part.uindex
                        [] hasPort -> port + slash - host
                        [] hasHost /\ ~hasPort -> port
            mark == Find(w, p, {"?"})
            rest == SubSeq(w, mark + 1, Len(w))
            query == Tokens(rest, "&")
            Filled(tokens) == (CHOOSE f : Adds(f, tokens, uri_new))[Len(tokens)]
            filled == Filled(query)
            hostname == IF hasHost THEN Copy(part.uindex, host - part.p) ELSE NoText
            portText == IF hasPort THEN Copy(port, slash - host - 1) ELSE NoText
            path == Copy(uindex, mark - p)
            result == [filled EXCEPT !.scheme = part.scheme, !.hostname = hostname,
                                     !.port = portText, !.path = path]
<1>1. parse(w, uri_new) =
        IF part.rc # 0 THEN [rc |-> part.rc, uri |-> uri_new]
        ELSE IF part.p > Len(w) + 1 \/ (mark < Len(w) /\ query = << >>)
        THEN [rc |-> 3, uri |-> uri_new]
        ELSE [rc |-> 0, uri |-> result]
  BY Zenon DEF parse, Adds
<1>2. /\ n \in Nat /\ Len(u.hostname) \in Nat /\ Len(u.path) \in Nat /\ Len(PortText(u)) \in Nat
      /\ Len(w) \in Nat /\ pa \in Nat /\ la \in Nat /\ ma \in Nat
      /\ n + 3 <= pa /\ pa + 1 <= la /\ la <= Len(w) /\ ma <= Len(w)
      /\ Find(w, n + 4, {":", "/"}) = pa + 1
      /\ u.port # NoText => w[pa + 1] = ":"
      /\ u.port = NoText => la = pa + 1 /\ w[pa + 1] = "/"
      /\ u.port # NoText => Find(w, pa + 1, {"/"}) = la
      /\ Find(w, la + 1, {"?"}) = ma + 1
  BY PlacesFound
<1>3. pa \in Nat /\ la \in Nat /\ ma \in Nat /\ pa + 1 <= Len(w)
  BY <1>2
<1>4. /\ SubSeq(w, n + 4, pa) = u.hostname
      /\ u.port # NoText => SubSeq(w, pa + 2, la - 1) = u.port
      /\ SubSeq(w, la + 1, ma) = u.path
      /\ SubSeq(w, ma + 2, Len(w)) = Query(params)
      /\ params # << >> => ma + 1 <= Len(w)
      /\ params = << >> => ma = Len(w)
  BY PartsRead
<1>5. /\ part.rc = 0 /\ part.scheme = u.scheme
      /\ part.uindex = n + 4 /\ part.p = n + 4
  BY SchemeRead
<1>6. params \in Seq(PlainParams)
  BY PlainUriTexts
<1>7. Tokens(Query(params), "&") = texts /\ Len(texts) = Len(params)
  <2>1. PICK X, P : X = Without({"&"}) \ {<< >>} /\ P = PlainParams
    OBVIOUS
  <2>2. /\ Len(params) \in Nat /\ DOMAIN params = 1..Len(params)
        /\ \A k \in 1..Len(params) : params[k] \in P
    BY <1>6, <2>1
  <2>3. \A k \in 1..Len(params) : ParamText(params[k]) \in X
    BY <2>1, <2>2, ParamTextLies
  <2>4. texts = [k \in 1..Len(params) |-> ParamText(params[k])]
    BY <2>2 DEF ParamTexts
  <2>5. Query(params) = Separated(texts)
    BY DEF Query, ParamTexts
  <2>. HIDE DEF params, texts
  <2>6. texts \in Seq(X) /\ Len(texts) = Len(params)
    BY <2>2, <2>3, <2>4
  <2>. QED
    BY <2>1, <2>5, <2>6, TokensRead
<1>. HIDE DEF w, params, texts, n, pa, la, ma, part
<1>8. host = pa + 1
  BY <1>2, <1>5
<1>. HIDE DEF host
<1>9. hasHost
  BY <1>2, <1>3, <1>8
<1>10. u.port # NoText <=> hasPort
  BY <1>2, <1>8, <1>9
<1>11. u.port # NoText => slash = la
  BY <1>2, <1>8
<1>12. port = pa + 2
  BY <1>2, <1>5, <1>8
<1>. HIDE DEF hasHost, hasPort, slash, port
<1>13. p = la + 1 /\ uindex = la + 1
  <2>1. CASE u.port = NoText
    <3>1. p = host + 1 /\ uindex = port
      BY <1>9, <1>10, <2>1
    <3>. HIDE DEF p, uindex
    <3>. QED
      BY <1>2, <1>8, <1>12, <2>1, <3>1
  <2>2. CASE u.port # NoText
    <3>1. la <= Len(w)
      BY <1>2
    <3>2. ~(slash > Len(w))
      BY <1>2, <1>11, <2>2, <3>1
    <3>3. p = slash + 1 /\ uindex = port + slash - host
      BY <1>9, <1>10, <2>2, <3>2
    <3>. HIDE DEF p, uindex
    <3>. QED
      BY <1>2, <1>8, <1>11, <1>12, <2>2, <3>3
  <2>. QED
    BY <2>1, <2>2
<1>. HIDE DEF p, uindex
<1>14. mark = ma + 1
  BY <1>2, <1>13
<1>. HIDE DEF mark
<1>15. query = texts
  <2>1. mark + 1 = ma + 2
    BY <1>2, <1>14
  <2>2. rest = Query(params)
    BY <1>4, <2>1
  <2>. QED
    BY <1>7, <2>2
<1>16. filled = [uri_new EXCEPT !.get_params = kept]
  <2>1. Filled(texts) = [uri_new EXCEPT !.get_params = kept]
    BY <1>6, AddsRead DEF texts, params
  <2>. HIDE DEF Filled, query
  <2>. QED
    BY <1>15, <2>1
<1>17. hostname = u.hostname
  <2>1. part.uindex + (host - part.p) - 1 = pa
    BY <1>2, <1>5, <1>8
  <2>. QED
    BY <1>4, <1>5, <1>9, <2>1
<1>18. portText = u.port
  <2>1. CASE u.port = NoText
    BY <1>10, <2>1
  <2>2. CASE u.port # NoText
    <3>1. port + (slash - host - 1) - 1 = la - 1
      BY <1>2, <1>8, <1>11, <1>12, <2>2
    <3>. QED
      BY <1>4, <1>10, <1>12, <2>2, <3>1
  <2>. QED
    BY <2>1, <2>2
<1>19. path = u.path
  <2>1. uindex + (mark - p) - 1 = ma
    BY <1>3, <1>13, <1>14
  <2>. QED
    BY <1>4, <1>13, <2>1
<1>. HIDE DEF filled, hostname, portText, path
<1>. HIDE DEF kept
<1>20. result = [u EXCEPT !.get_params = kept]
  <2>1. result = [scheme |-> u.scheme, hostname |-> u.hostname, port |-> u.port,
                  path |-> u.path, get_params |-> kept]
    <3>1. PICK base : base = [uri_new EXCEPT !.get_params = kept]
      OBVIOUS
    <3>2. base = [scheme |-> NoText, hostname |-> NoText, port |-> NoText,
                  path |-> NoText, get_params |-> kept]
      BY <3>1 DEF uri_new
    <3>3. result = [base EXCEPT !.scheme = part.scheme, !.hostname = hostname,
                                !.port = portText, !.path = path]
      BY <1>16, <3>1, Zenon
    <3>. HIDE DEF result
    <3>4. result = [scheme |-> part.scheme, hostname |-> hostname, port |-> portText,
                    path |-> path, get_params |-> kept]
      BY <3>2, <3>3, PartsSet
    <3>. QED
      BY <1>5, <1>17, <1>18, <1>19, <3>4
  <2>2. [u EXCEPT !.get_params = kept]
          = [scheme |-> u.scheme, hostname |-> u.hostname, port |-> u.port,
             path |-> u.path, get_params |-> kept]
    BY DEF PlainUris
  <2>. QED
    BY <2>1, <2>2
<1>. HIDE DEF result
<1>21. ~(part.p > Len(w) + 1)
  BY <1>2, <1>3, <1>5
<1>22. ~(mark < Len(w) /\ query = << >>)
  <2>. SUFFICES ASSUME query = << >> PROVE ~(mark < Len(w))
    OBVIOUS
  <2>1. Len(texts) = 0
    BY <1>15
  <2>2. params = << >>
    <3>1. PICK P : P = PlainParams
      OBVIOUS
    <3>2. params \in Seq(P) /\ Len(params) = 0
      BY <1>6, <1>7, <2>1, <3>1
    <3>. QED
      BY <3>2
  <2>. QED
    BY <1>2, <1>4, <1>14, <2>2
<1>. QED
  BY <1>1, <1>5, <1>20, <1>21, <1>22 DEF w, kept, params

-----------------------------------------------------------------------------
(* Parameters added and set *)

\* Uris whose parts and parameters are of these sets.
UriSet(S, H, R, T, K, V) ==
    [scheme : S, hostname : H, port : R, path : T, get_params : Seq([key : K, value : V])]

\* The parameter at that place has another value.
WithValue(params, at, value) == [params EXCEPT ![at].value = value]

\* The parameters behind an added one.
LEMMA ParamAppended ==
    ASSUME NEW K, NEW V, NEW params \in Seq([key : K, value : V]),
           NEW key \in K, NEW value \in V
    PROVE  /\ Len(params) \in Nat /\ DOMAIN params = 1..Len(params)
           /\ Append(params, [key |-> key, value |-> value]) \in Seq([key : K, value : V])
           /\ Len(Append(params, [key |-> key, value |-> value])) = Len(params) + 1
<1>1. PICK P : P = [key : K, value : V]
  OBVIOUS
<1>. DEFINE p == [key |-> key, value |-> value]
<1>2. params \in Seq(P) /\ p \in P /\ Len(params) \in Nat /\ DOMAIN params = 1..Len(params)
  BY <1>1
<1>3. Append(params, p) \in Seq(P) /\ Len(Append(params, p)) = Len(params) + 1
  <2>. HIDE DEF p
  <2>. QED
    BY <1>2, AppendProperties
<1>. HIDE DEF p
<1>4. Append(params, p) \in Seq([key : K, value : V])
  BY <1>1, <1>3
<1>. QED
  BY <1>2, <1>3, <1>4 DEF p

\* Those of which one got another value.
LEMMA ParamChanged ==
    ASSUME NEW P, NEW params \in Seq(P), NEW value, NEW at,
           \A q \in P : [q EXCEPT !.value = value] \in P
    PROVE  /\ WithValue(params, at, value) \in Seq(P)
           /\ Len(WithValue(params, at, value)) = Len(params)
<1>. DEFINE changed == WithValue(params, at, value)
<1>1. Len(params) \in Nat /\ DOMAIN params = 1..Len(params)
  OBVIOUS
<1>2. changed = [c \in 1..Len(params) |->
                    IF c = at THEN [params[c] EXCEPT !.value = value] ELSE params[c]]
  BY <1>1 DEF WithValue
<1>. HIDE DEF changed
<1>3. changed \in [1..Len(params) -> P]
  BY <1>1, <1>2
<1>4. changed \in Seq(P) /\ Len(changed) = Len(params)
  BY <1>1, <1>3
<1>. QED
  BY <1>4 DEF changed

LEMMA AsManyParams ==
    ASSUME NEW P, NEW params \in Seq(P), NEW value, NEW at
    PROVE  Len(WithValue(params, at, value)) = Len(params)
<1>1. Len(params) \in Nat /\ DOMAIN params = 1..Len(params)
  OBVIOUS
<1>2. DOMAIN WithValue(params, at, value) = 1..Len(params)
  BY <1>1 DEF WithValue
<1>. QED
  BY <1>1, <1>2, LenProperties

\* Only its parameters are others.
LEMMA ParamsReplaced ==
    ASSUME NEW S, NEW H, NEW R, NEW T, NEW K, NEW V, NEW u \in UriSet(S, H, R, T, K, V),
           NEW params \in Seq([key : K, value : V])
    PROVE  /\ [u EXCEPT !.get_params = params] \in UriSet(S, H, R, T, K, V)
           /\ [u EXCEPT !.get_params = params].get_params = params
<1>1. PICK Q : Q = Seq([key : K, value : V])
  OBVIOUS
<1>2. u \in [scheme : S, hostname : H, port : R, path : T, get_params : Q] /\ params \in Q
  BY <1>1 DEF UriSet
<1>3. [u EXCEPT !.get_params = params]
        \in [scheme : S, hostname : H, port : R, path : T, get_params : Q]
  BY <1>2
<1>. QED
  BY <1>1, <1>2, <1>3 DEF UriSet

\* get_uri_param finds the first parameter with that key.
LEMMA FirstWithKey ==
    ASSUME NEW u, NEW key, NEW n \in Nat, DOMAIN u.get_params = 1..n, Len(u.get_params) = n
    PROVE  \/ /\ get_uri_param(u, key) = 0
              /\ \A j \in 1..n : u.get_params[j].key # key
           \/ /\ get_uri_param(u, key) \in 1..n
              /\ u.get_params[get_uri_param(u, key)].key = key
              /\ \A j \in 1..n :
                    u.get_params[j].key = key => get_uri_param(u, key) <= j
<1>. DEFINE params == u.get_params
            I == {j \in 1..n : params[j].key = key}
            least == CHOOSE a \in I : \A b \in I : a <= b
<1>1. get_uri_param(u, key) = IF I # {} THEN least ELSE 0
  BY DEF get_uri_param, SelectInSeq, Min
<1>2. CASE I = {}
  BY <1>1, <1>2
<1>3. CASE I # {}
  <2>1. \E a \in I : \A b \in I : a <= b
    <3>1. I \in SUBSET (1..n)
      OBVIOUS
    <3>. HIDE DEF I
    <3>. QED
      BY <1>3, <3>1, Smallest
  <2>2. least \in I /\ \A b \in I : least <= b
    <3>. HIDE DEF I
    <3>. QED
      BY <2>1, Zenon
  <2>. HIDE DEF least
  <2>. QED
    BY <1>1, <1>3, <2>2
<1>. QED
  BY <1>2, <1>3

LEMMA AddsFitting ==
    ASSUME NEW S, NEW H, NEW R, NEW T, NEW K, NEW V, NEW u \in UriSet(S, H, R, T, K, V),
           NEW key \in K, NEW value \in V, Len(u.get_params) <= URI_MAX_PARAMS
    PROVE  /\ add_get_param(u, key, value) \in UriSet(S, H, R, T, K, V)
           /\ Len(add_get_param(u, key, value).get_params) <= URI_MAX_PARAMS
<1>. DEFINE params == Append(u.get_params, [key |-> key, value |-> value])
<1>1. u.get_params \in Seq([key : K, value : V])
  BY DEF UriSet
<1>2. /\ params \in Seq([key : K, value : V]) /\ Len(u.get_params) \in Nat
      /\ Len(params) = Len(u.get_params) + 1
  BY <1>1, ParamAppended
<1>3. \/ add_get_param(u, key, value) = u
      \/ /\ HasRoom(u)
         /\ add_get_param(u, key, value) = [u EXCEPT !.get_params = params]
  BY DEF add_get_param
<1>. HIDE DEF params
<1>4. /\ [u EXCEPT !.get_params = params] \in UriSet(S, H, R, T, K, V)
      /\ [u EXCEPT !.get_params = params].get_params = params
  BY <1>2, ParamsReplaced
<1>5. HasRoom(u) => Len(params) <= URI_MAX_PARAMS
  BY <1>2, UriAssumption DEF HasRoom
<1>. QED
  BY <1>3, <1>4, <1>5

LEMMA SetsFitting ==
    ASSUME NEW S, NEW H, NEW R, NEW T, NEW K, NEW V, NEW u \in UriSet(S, H, R, T, K, V),
           NEW key \in K, NEW value \in V, Len(u.get_params) <= URI_MAX_PARAMS
    PROVE  /\ set_get_param(u, key, value) \in UriSet(S, H, R, T, K, V)
           /\ Len(set_get_param(u, key, value).get_params) <= URI_MAX_PARAMS
<1>. DEFINE at == get_uri_param(u, key)
            changed == WithValue(u.get_params, at, value)
<1>1. u.get_params \in Seq([key : K, value : V])
  BY DEF UriSet
<1>2. Len(u.get_params) \in Nat /\ DOMAIN u.get_params = 1..Len(u.get_params)
  BY <1>1, ParamAppended
<1>3. \/ set_get_param(u, key, value) = u
      \/ set_get_param(u, key, value) = add_get_param(u, key, value)
      \/ /\ at # 0
         /\ set_get_param(u, key, value) = [u EXCEPT !.get_params = changed]
  BY DEF set_get_param, WithValue
<1>4. at # 0 => at \in 1..Len(u.get_params)
  BY <1>2, FirstWithKey
<1>. HIDE DEF at
<1>5. at # 0 => changed \in Seq([key : K, value : V]) /\ Len(changed) = Len(u.get_params)
  <2>. SUFFICES ASSUME at # 0
                PROVE  changed \in Seq([key : K, value : V]) /\ Len(changed) = Len(u.get_params)
    OBVIOUS
  <2>1. PICK P : P = [key : K, value : V]
    OBVIOUS
  <2>2. u.get_params \in Seq(P) /\ \A q \in P : [q EXCEPT !.value = value] \in P
    BY <1>1, <2>1
  <2>3. changed \in Seq(P) /\ Len(changed) = Len(u.get_params)
    <3>1. changed \in Seq(P)
      BY <2>2, ParamChanged
    <3>2. Len(changed) = Len(u.get_params)
      BY <2>2, AsManyParams
    <3>. QED
      BY <3>1, <3>2
  <2>. QED
    BY <2>1, <2>3
<1>. HIDE DEF changed
<1>6. at # 0 => /\ [u EXCEPT !.get_params = changed] \in UriSet(S, H, R, T, K, V)
                /\ [u EXCEPT !.get_params = changed].get_params = changed
  BY <1>5, ParamsReplaced
<1>7. /\ add_get_param(u, key, value) \in UriSet(S, H, R, T, K, V)
      /\ Len(add_get_param(u, key, value).get_params) <= URI_MAX_PARAMS
  BY AddsFitting
<1>. QED
  BY <1>3, <1>5, <1>6, <1>7

-----------------------------------------------------------------------------
(* What a text leaves in a uri *)

PlainKeys == Without({"=", "&"}) \ {<< >>}

\* Uris that come from texts: no part holds the sign behind it, but a hostname may.
StoredUris ==
    UriSet(Without({":"}) \union {NoText}, MaybeText, Without({"/"}) \union {NoText},
           Without({"?"}) \union {NoText}, PlainKeys, MaybeText)

\* One that can be copied and whose host ends where parse ends it can be read back.
LEMMA StoredAndPlain ==
    /\ uri_new \in StoredUris /\ Len(uri_new.get_params) <= URI_MAX_PARAMS
    /\ \A u \in StoredUris :
        CanCopy(u) /\ u.hostname \in Without({":", "/"}) => u \in PlainUris
    /\ PlainUris \subseteq StoredUris
<1>1. PICK P : P = Seq([key : PlainKeys, value : MaybeText])
  OBVIOUS
<1>2. PlainParams = [key : PlainKeys, value : MaybeText]
  BY DEF PlainParams, PlainKeys
<1>3. StoredUris = [scheme : Without({":"}) \union {NoText}, hostname : MaybeText,
                    port : Without({"/"}) \union {NoText},
                    path : Without({"?"}) \union {NoText}, get_params : P]
  BY <1>1 DEF StoredUris, UriSet
<1>4. PlainUris = [scheme : Without({":"}), hostname : Without({":", "/"}),
                   port : Without({"/"}) \union {NoText}, path : Without({"?"}),
                   get_params : P]
  BY <1>1, <1>2 DEF PlainUris
<1>5. << >> \in P
  <2>1. PICK Q : Q = [key : PlainKeys, value : MaybeText]
    OBVIOUS
  <2>2. << >> \in Seq(Q)
    OBVIOUS
  <2>. QED
    BY <1>1, <2>1, <2>2
<1>6. uri_new \in StoredUris
  BY <1>3, <1>5 DEF uri_new, MaybeText
<1>7. Len(uri_new.get_params) <= URI_MAX_PARAMS
  <2>1. uri_new.get_params = << >> /\ Len(<< >>) = 0
    BY DEF uri_new
  <2>. QED
    BY <2>1, UriAssumption
<1>8. ASSUME NEW u \in StoredUris, CanCopy(u), u.hostname \in Without({":", "/"})
      PROVE  u \in PlainUris
  BY <1>3, <1>4, <1>8 DEF CanCopy
<1>9. PlainUris \subseteq StoredUris
  <2>1. Without({":", "/"}) \subseteq MaybeText
    BY TextsAre DEF MaybeText
  <2>. QED
    BY <1>3, <1>4, <2>1
<1>. QED
  BY <1>6, <1>7, <1>8, <1>9

\* Without the sets by which they are told apart.
LEMMA StoredAre == StoredUris \subseteq Uris(Symbols)
<1>1. [key : PlainKeys, value : MaybeText] \subseteq Params(Symbols)
  BY TextsAre DEF Params, PlainKeys, MaybeText, Maybe, Text
<1>2. Seq([key : PlainKeys, value : MaybeText]) \subseteq Seq(Params(Symbols))
  <2>1. PICK P, Q : P = [key : PlainKeys, value : MaybeText] /\ Q = Params(Symbols)
    OBVIOUS
  <2>. QED
    BY <1>1, <2>1, SeqMonotonic
<1>3. PICK P, Q : P = Seq([key : PlainKeys, value : MaybeText]) /\ Q = Seq(Params(Symbols))
  OBVIOUS
<1>4. Without({":"}) \union {NoText} \subseteq Maybe(Symbols)
  BY TextsAre
<1>5. Without({"/"}) \union {NoText} \subseteq Maybe(Symbols)
  BY TextsAre
<1>6. Without({"?"}) \union {NoText} \subseteq Maybe(Symbols)
  BY TextsAre
<1>7. MaybeText = Maybe(Symbols)
  BY DEF MaybeText, Maybe, Text
<1>. QED
  BY <1>2, <1>3, <1>4, <1>5, <1>6, <1>7 DEF StoredUris, UriSet, Uris

\* Between where it starts and where it stops, Find meets none of the signs.
LEMMA FindsFirst ==
    ASSUME NEW url, Len(url) \in Nat, NEW k \in Nat \ {0}, NEW chars, k <= Len(url) + 1
    PROVE  /\ Find(url, k, chars) \in k..(Len(url) + 1)
           /\ Find(url, k, chars) <= Len(url) => url[Find(url, k, chars)] \in chars
           /\ \A j \in k..(Find(url, k, chars) - 1) : url[j] \notin chars
<1>. DEFINE at == {c \in k..Len(url) : url[c] \in chars}
<1>1. CASE at = {}
  <2>1. Find(url, k, chars) = Len(url) + 1
    BY <1>1, Zenon DEF Find
  <2>2. \A j \in k..Len(url) : url[j] \notin chars
    BY <1>1
  <2>. QED
    BY <2>1, <2>2
<1>2. CASE at # {}
  <2>1. at \in SUBSET (1..Len(url)) /\ \A c \in at : c \in k..Len(url) /\ url[c] \in chars
    OBVIOUS
  <2>2. \A c \in k..Len(url) : c \notin at => url[c] \notin chars
    OBVIOUS
  <2>3. Find(url, k, chars) = CHOOSE c \in at : \A d \in at : c <= d
    BY <1>2, Zenon DEF Find, at
  <2>. HIDE DEF at
  <2>4. \E c \in at : \A d \in at : c <= d
    BY <1>2, <2>1, Smallest
  <2>5. Find(url, k, chars) \in at /\ \A d \in at : Find(url, k, chars) <= d
    BY <2>3, <2>4
  <2>6. PICK m : m = Find(url, k, chars)
    OBVIOUS
  <2>7. m \in k..Len(url) /\ url[m] \in chars /\ \A d \in at : m <= d
    BY <2>1, <2>5, <2>6
  <2>8. \A j \in k..(m - 1) : j \in k..Len(url) /\ ~(m <= j)
    BY <2>7
  <2>9. \A j \in k..(m - 1) : url[j] \notin chars
    BY <2>2, <2>7, <2>8
  <2>. QED
    BY <2>6, <2>7, <2>9
<1>. QED
  BY <1>1, <1>2

\* A copy from within a text, of places that hold none of the signs.
LEMMA CopyWithout ==
    ASSUME NEW signs, NEW url \in Text, NEW from \in Nat \ {0}, NEW to \in Nat,
           from <= to + 1, to <= Len(url),
           \A j \in from..to : url[j] \notin signs
    PROVE  /\ SubSeq(url, from, to) \in Without(signs)
           /\ Len(SubSeq(url, from, to)) = to - from + 1
<1>. DEFINE A == Symbols \ signs
            n == to - from + 1
            copy == SubSeq(url, from, to)
<1>1. Len(url) \in Nat /\ \A j \in 1..Len(url) : url[j] \in Symbols
  BY DEF Text
<1>2. \A j \in from..to : url[j] \in A
  BY <1>1
<1>. HIDE DEF A
<1>3. n \in Nat /\ \A j \in 1..n : from + j - 1 \in from..to
  OBVIOUS
<1>4. copy = [j \in 1..n |-> url[from + j - 1]]
  OBVIOUS
<1>5. copy \in [1..n -> A]
  BY <1>2, <1>3, <1>4
<1>. HIDE DEF copy, n
<1>6. copy \in Seq(A) /\ Len(copy) = n
  BY <1>3, <1>5
<1>. QED
  BY <1>6 DEF copy, n, A, Without

\* What is decoded from a text is one.
LEMMA DecodesText ==
    ASSUME NEW v \in Text
    PROVE  decode(v) \in Text
<1>1. Decoded(Symbols) = Symbols
  BY UriAssumption DEF Decoded
<1>2. decode(v) \in Seq(Decoded(Symbols))
  BY DecodeType DEF Text
<1>. QED
  BY <1>1, <1>2 DEF Text

\* A parameter in the query: its key is not empty, and no key holds a sign behind it.
LEMMA TokenParam ==
    ASSUME NEW token \in Without({"&"}) \ {<< >>}
    PROVE  Param(token).key \in PlainKeys \union {NoText} /\ Param(token).value \in MaybeText
<1>. DEFINE key == Find(token, 1, ToSet(token) \ {"="})
            eq == Find(token, key, {"="})
            val == SubSeq(token, eq + 1, Len(token))
            k == IF key > Len(token) THEN NoText ELSE SubSeq(token, key, eq - 1)
            v == IF val = << >> THEN NoText ELSE decode(val)
<1>1. token \in Text /\ Len(token) \in Nat /\ \A j \in 1..Len(token) : token[j] # "&"
  <2>1. PICK A : A = Symbols \ {"&"}
    OBVIOUS
  <2>2. token \in Seq(A)
    BY <2>1 DEF Without
  <2>3. Len(token) \in Nat /\ \A j \in 1..Len(token) : token[j] \in A
    BY <2>2
  <2>. QED
    BY <2>1, <2>3, TextsAre
<1>2. key \in 1..(Len(token) + 1) /\ (key <= Len(token) => token[key] # "=")
  BY <1>1, FindsFirst
<1>. HIDE DEF key
<1>3. /\ eq \in key..(Len(token) + 1)
      /\ eq <= Len(token) => token[eq] = "="
      /\ \A j \in key..(eq - 1) : token[j] \notin {"="}
  BY <1>1, <1>2, FindsFirst
<1>. HIDE DEF eq
<1>4. val \in Text
  <2>1. CASE eq = Len(token) + 1
    <3>1. val = << >>
      BY <1>1, <2>1, SubSeqEmpty
    <3>. HIDE DEF val
    <3>. QED
      BY <3>1, TextsAre
  <2>2. CASE eq <= Len(token)
    <3>1. /\ eq + 1 \in Nat \ {0} /\ eq + 1 <= Len(token) + 1
          /\ \A j \in (eq + 1)..Len(token) : token[j] \notin {}
      BY <1>1, <1>2, <1>3, <2>2
    <3>2. val \in Without({})
      BY <1>1, <3>1, CopyWithout
    <3>. QED
      BY <3>2, TextsAre
  <2>. QED
    BY <1>1, <1>2, <1>3, <2>1, <2>2
<1>. HIDE DEF val
<1>5. v \in MaybeText
  BY <1>4, DecodesText DEF MaybeText
<1>6. k \in PlainKeys \union {NoText}
  <2>1. CASE key > Len(token)
    BY <2>1
  <2>2. CASE ~(key > Len(token))
    <3>1. eq # key
      BY <1>1, <1>2, <1>3, <2>2
    <3>2. /\ key \in Nat \ {0} /\ eq - 1 \in Nat /\ key <= (eq - 1) + 1
          /\ eq - 1 <= Len(token) /\ (eq - 1) - key + 1 > 0
      BY <1>1, <1>2, <1>3, <2>2, <3>1
    <3>3. \A j \in key..(eq - 1) : token[j] \notin {"=", "&"}
      BY <1>1, <1>2, <1>3
    <3>4. PICK to, signs, part :
            to = eq - 1 /\ signs = {"=", "&"} /\ part = SubSeq(token, key, to)
      OBVIOUS
    <3>5. part \in Without(signs) /\ Len(part) = to - key + 1
      <4>1. /\ to \in Nat /\ key <= to + 1 /\ to <= Len(token)
            /\ \A j \in key..to : token[j] \notin signs
        BY <3>2, <3>3, <3>4
      <4>2. /\ SubSeq(token, key, to) \in Without(signs)
            /\ Len(SubSeq(token, key, to)) = to - key + 1
        <5>1. token \in Text /\ key \in Nat \ {0}
          BY <1>1, <3>2
        <5>. QED
          BY <4>1, <5>1, CopyWithout
      <4>. QED
        BY <3>4, <4>2, Zenon
    <3>6. part # << >>
      BY <3>2, <3>4, <3>5
    <3>. QED
      BY <2>2, <3>4, <3>5, <3>6, Zenon DEF PlainKeys
  <2>. QED
    BY <2>1, <2>2
<1>7. Param(token) = [key |-> k, value |-> v]
  BY Zenon DEF Param, k, v, val, eq, key
<1>. HIDE DEF k, v
<1>. QED
  BY <1>5, <1>6, <1>7

\* strtok_r returns no empty part, and none with the separator.
LEMMA TokensHide ==
    ASSUME NEW s \in Text, NEW sep
    PROVE  Tokens(s, sep) \in Seq(Without({sep}) \ {<< >>})
<1>. DEFINE f == CHOOSE f : Splits(f, s, sep)
            A == Symbols \ {sep}
            X == Without({sep}) \ {<< >>}
            S == {k \in Nat : k <= Len(s) => f[k] \in Seq(X)}
<1>1. s \in Seq(Symbols) /\ Len(s) \in Nat /\ \A k \in 1..Len(s) : s[k] \in Symbols
  BY DEF Text
<1>2. Splits(f, s, sep)
  BY <1>1, SplitsExists
<1>. HIDE DEF f
<1>3. \A k \in 0..Len(s) : f[k] = IF k = 0 THEN << >> ELSE Extended(f[k - 1], s, sep, k)
  BY <1>2, Zenon DEF Splits
<1>4. \A c \in A : <<c>> \in X /\ \A t \in X : Append(t, c) \in X
  <2>. HIDE DEF A
  <2>1. ASSUME NEW c \in A
        PROVE  <<c>> \in Seq(A) /\ <<c>> # << >>
    OBVIOUS
  <2>2. ASSUME NEW c \in A, NEW t \in Seq(A)
        PROVE  Append(t, c) \in Seq(A) /\ Append(t, c) # << >>
    <3>1. Append(t, c) \in Seq(A) /\ Len(Append(t, c)) = Len(t) + 1 /\ Len(t) \in Nat
      BY AppendProperties
    <3>. QED
      BY <3>1
  <2>3. X = Seq(A) \ {<< >>}
    BY DEF Without, A
  <2>. HIDE DEF X
  <2>. QED
    BY <2>1, <2>2, <2>3
<1>. HIDE DEF X
<1>5. 0 \in S
  <2>1. f[0] = << >> /\ << >> \in Seq(X)
    BY <1>1, <1>3
  <2>. QED
    BY <2>1
<1>6. ASSUME NEW k \in Nat, k \in S
      PROVE  k + 1 \in S
  <2>. SUFFICES ASSUME k + 1 <= Len(s)
                PROVE  f[k + 1] \in Seq(X)
    OBVIOUS
  <2>1. /\ k <= Len(s) /\ k + 1 \in 0..Len(s) /\ k + 1 \in 1..Len(s)
        /\ k + 1 # 0 /\ (k + 1) - 1 = k
    BY <1>1
  <2>2. f[k] \in Seq(X)
    BY <1>6, <2>1
  <2>3. f[k + 1] = Extended(f[k], s, sep, k + 1)
    BY <1>3, <2>1
  <2>4. CASE s[k + 1] = sep
    BY <2>2, <2>3, <2>4 DEF Extended
  <2>5. CASE s[k + 1] # sep
    <3>. DEFINE parts == f[k]
                c == s[k + 1]
                grown == [parts EXCEPT ![Len(parts)] = Append(@, c)]
    <3>1. c \in A
      BY <1>1, <2>1, <2>5
    <3>2. <<c>> \in X /\ \A t \in X : Append(t, c) \in X
      BY <1>4, <3>1
    <3>3. Extended(parts, s, sep, k + 1) \in {Append(parts, <<c>>), grown}
      BY <2>5, Zenon DEF Extended
    <3>. HIDE DEF parts, c
    <3>4. parts \in Seq(X)
      BY <2>2 DEF parts
    <3>5. Append(parts, <<c>>) \in Seq(X)
      BY <3>2, <3>4, AppendProperties
    <3>6. grown \in Seq(X)
      <4>1. /\ Len(parts) \in Nat /\ DOMAIN parts = 1..Len(parts)
            /\ \A b \in 1..Len(parts) : parts[b] \in X
        BY <3>4
      <4>2. grown = [b \in 1..Len(parts) |->
                        IF b = Len(parts) THEN Append(parts[b], c) ELSE parts[b]]
        BY <4>1
      <4>. HIDE DEF grown
      <4>3. grown \in [1..Len(parts) -> X]
        BY <3>2, <4>1, <4>2
      <4>4. \A m \in Nat : \A h \in [1..m -> X] : h \in Seq(X)
        OBVIOUS
      <4>. QED
        BY <4>1, <4>3, <4>4, Zenon
    <3>. HIDE DEF grown
    <3>. QED
      BY <2>3, <3>3, <3>5, <3>6 DEF parts
  <2>. QED
    BY <2>4, <2>5
<1>7. \A k \in Nat : k \in S
  <2>. HIDE DEF S
  <2>. QED
    BY <1>5, <1>6, InductiveSet
<1>8. f[Len(s)] \in Seq(X)
  BY <1>1, <1>7
<1>. QED
  BY <1>8, TokensEqn DEF f, X

\* The parameters of the query are added to those there are.
LEMMA AddsStored ==
    ASSUME NEW query \in Seq(Without({"&"}) \ {<< >>}), NEW u \in StoredUris,
           Len(u.get_params) <= URI_MAX_PARAMS
    PROVE  /\ (CHOOSE f : Adds(f, query, u))[Len(query)] \in StoredUris
           /\ Len((CHOOSE f : Adds(f, query, u))[Len(query)].get_params) <= URI_MAX_PARAMS
<1>. DEFINE f == CHOOSE f : Adds(f, query, u)
            Fits(b) == b \in StoredUris /\ Len(b.get_params) <= URI_MAX_PARAMS
            S == {k \in Nat : k <= Len(query) => Fits(f[k])}
<1>1. Len(query) \in Nat /\ \A k \in 1..Len(query) : query[k] \in Without({"&"}) \ {<< >>}
  <2>1. PICK X : X = Without({"&"}) \ {<< >>}
    OBVIOUS
  <2>2. query \in Seq(X)
    BY <2>1
  <2>. QED
    BY <2>1, <2>2
<1>2. Adds(f, query, u)
  <2>1. query \in Seq(Seq(Symbols))
    <3>1. PICK X, Y : X = Without({"&"}) \ {<< >>} /\ Y = Seq(Symbols)
      OBVIOUS
    <3>2. X \subseteq Y
      BY <3>1, TextsAre
    <3>. QED
      BY <3>1, <3>2, SeqMonotonic
  <2>2. Decoded(Symbols) \subseteq Symbols
    BY UriAssumption DEF Decoded
  <2>3. u \in Uris(Symbols)
    BY StoredAre
  <2>. QED
    BY <2>1, <2>2, <2>3, AddsExists
<1>. HIDE DEF f
<1>3. \A k \in 0..Len(query) :
        f[k] = IF k = 0 THEN u
               ELSE add_get_param(f[k - 1], Param(query[k]).key, Param(query[k]).value)
  BY <1>2, Zenon DEF Adds
<1>4. ASSUME NEW b, Fits(b), NEW token \in Without({"&"}) \ {<< >>}
      PROVE  Fits(add_get_param(b, Param(token).key, Param(token).value))
  <2>1. Param(token).key \in PlainKeys \union {NoText} /\ Param(token).value \in MaybeText
    BY TokenParam
  <2>2. CASE Param(token).key = NoText
    BY <1>4, <2>2 DEF add_get_param
  <2>3. CASE Param(token).key # NoText
    BY <1>4, <2>1, <2>3, AddsFitting DEF StoredUris
  <2>. QED
    BY <2>2, <2>3
<1>. HIDE DEF Fits
<1>5. 0 \in S
  <2>1. f[0] = u
    BY <1>1, <1>3
  <2>. QED
    BY <2>1 DEF Fits
<1>6. ASSUME NEW k \in Nat, k \in S
      PROVE  k + 1 \in S
  <2>. SUFFICES ASSUME k + 1 <= Len(query)
                PROVE  Fits(f[k + 1])
    OBVIOUS
  <2>1. /\ k <= Len(query) /\ k + 1 \in 0..Len(query) /\ k + 1 \in 1..Len(query)
        /\ k + 1 # 0 /\ (k + 1) - 1 = k
    BY <1>1
  <2>2. Fits(f[k])
    BY <1>6, <2>1
  <2>3. f[k + 1] =
          add_get_param(f[k], Param(query[k + 1]).key, Param(query[k + 1]).value)
    BY <1>3, <2>1
  <2>4. query[k + 1] \in Without({"&"}) \ {<< >>}
    BY <1>1, <2>1
  <2>. QED
    BY <1>4, <2>2, <2>3, <2>4
<1>7. \A k \in Nat : k \in S
  <2>. HIDE DEF S
  <2>. QED
    BY <1>5, <1>6, InductiveSet
<1>8. Fits(f[Len(query)])
  BY <1>1, <1>7
<1>. QED
  BY <1>8 DEF f, Fits

\* Where the copies are taken from: the text, or one place before it.
LEMMA SchemeStored ==
    ASSUME NEW url \in Text, SchemePart(url).rc = 0, SchemePart(url).p <= Len(url) + 1
    PROVE  /\ SchemePart(url).scheme \in Without({":"}) \union {NoText}
           /\ SchemePart(url).p \in Nat \ {0} /\ SchemePart(url).uindex \in Nat \ {0}
           /\ \/ SchemePart(url).uindex = SchemePart(url).p - 1
              \/ SchemePart(url).uindex = SchemePart(url).p
              \/ SchemePart(url).uindex = 1 /\ SchemePart(url).p = Len(url) + 1
<1>. DEFINE colon == Find(url, 1, {":"})
            text == SubSeq(url, 1, colon - 1)
            Is(k) == k <= Len(url) /\ url[k] = "/"
            p == IF Is(colon + 1) THEN colon + 3 ELSE colon + 4
            part == SchemePart(url)
<1>1. Len(url) \in Nat
  BY DEF Text
<1>2. colon \in 1..(Len(url) + 1) /\ \A j \in 1..(colon - 1) : url[j] \notin {":"}
  BY <1>1, FindsFirst
<1>3. part = CASE colon > Len(url) ->
                    [rc |-> 0, scheme |-> NoText, uindex |-> 1, p |-> Len(url) + 1]
               [] colon = Len(url) -> [rc |-> 1]
               [] colon < Len(url) /\ ~Is(colon + 1) /\ ~Is(colon + 2) -> [rc |-> 2]
               [] colon < Len(url) /\ (Is(colon + 1) \/ Is(colon + 2)) ->
                    [rc |-> 0, scheme |-> text, uindex |-> colon + 3, p |-> p]
  BY Zenon DEF SchemePart
<1>4. text \in Without({":"})
  <2>. HIDE DEF colon
  <2>1. PICK to : to = colon - 1
    OBVIOUS
  <2>2. /\ to \in Nat /\ 1 \in Nat \ {0} /\ 1 <= to + 1 /\ to <= Len(url)
        /\ \A j \in 1..to : url[j] \notin {":"}
    BY <1>1, <1>2, <2>1
  <2>3. SubSeq(url, 1, to) \in Without({":"})
    BY <2>2, CopyWithout
  <2>. QED
    BY <2>1, <2>3, Zenon
<1>. HIDE DEF colon, text, Is
<1>5. p \in {colon + 3, colon + 4}
  OBVIOUS
<1>. HIDE DEF p
<1>6. \/ part = [rc |-> 0, scheme |-> NoText, uindex |-> 1, p |-> Len(url) + 1]
      \/ part = [rc |-> 1]
      \/ part = [rc |-> 2]
      \/ part = [rc |-> 0, scheme |-> text, uindex |-> colon + 3, p |-> p]
  <2>1. CASE colon > Len(url)
    BY <1>1, <1>2, <1>3, <2>1
  <2>2. CASE colon = Len(url)
    BY <1>1, <1>2, <1>3, <2>2
  <2>3. CASE colon < Len(url) /\ ~Is(colon + 1) /\ ~Is(colon + 2)
    BY <1>1, <1>2, <1>3, <2>3
  <2>4. CASE colon < Len(url) /\ (Is(colon + 1) \/ Is(colon + 2))
    BY <1>1, <1>2, <1>3, <2>4
  <2>. QED
    BY <1>1, <1>2, <2>1, <2>2, <2>3, <2>4
<1>7. CASE part = [rc |-> 0, scheme |-> NoText, uindex |-> 1, p |-> Len(url) + 1]
  BY <1>1, <1>7
<1>8. CASE part = [rc |-> 0, scheme |-> text, uindex |-> colon + 3, p |-> p]
  BY <1>2, <1>4, <1>5, <1>8
<1>. QED
  BY <1>6, <1>7, <1>8

\* A copy whose places follow each other without a sign.
LEMMA CopyStored ==
    ASSUME NEW signs, NEW url \in Text, NEW from \in Nat, NEW count \in Int, NEW last \in Int,
           last = from + count - 1,
           count = 0 \/ (from > 0 /\ count > 0 /\ last <= Len(url)),
           \A j \in from..last : url[j] \notin signs
    PROVE  SubSeq(url, from, last) \in Without(signs)
<1>1. Len(url) \in Nat
  BY DEF Text
<1>2. CASE count = 0
  <2>1. SubSeq(url, from, last) = << >>
    BY <1>2, SubSeqEmpty
  <2>. QED
    BY <2>1 DEF Without
<1>3. CASE from > 0 /\ count > 0 /\ last <= Len(url)
  <2>1. from \in Nat \ {0} /\ last \in Nat /\ from <= last + 1
    BY <1>3
  <2>. QED
    BY <1>3, <2>1, CopyWithout
<1>. QED
  BY <1>2, <1>3

\* Whatever text parse is given and whatever parameters there were, it leaves a uri
\* whose parts end where they are found to (uri.c:218-351): no part but the hostname
\* holds the sign behind it, and no key is empty.
THEOREM ParseStores ==
    ASSUME NEW url \in Text, NEW u \in StoredUris, Len(u.get_params) <= URI_MAX_PARAMS
    PROVE  /\ parse(url, u).uri \in StoredUris
           /\ Len(parse(url, u).uri.get_params) <= URI_MAX_PARAMS
<1>. DEFINE part == SchemePart(url)
            host == Find(url, part.p, {":", "/"})
            Copy(from, n) == SubSeq(url, from, from + n - 1)
            slash == Find(url, host, {"/"})
            hasHost == host <= Len(url)
            hasPort == hasHost /\ url[host] = ":"
            port == part.uindex + host - part.p + 1
            p == CASE ~hasHost -> host
                   [] hasPort -> IF slash > Len(url) THEN slash ELSE slash + 1
                   [] hasHost /\ ~hasPort -> host + 1
            uindex == CASE ~hasHost -> part.uindex
                        [] hasPort -> port + slash - host
                        [] hasHost /\ ~hasPort -> port
            mark == Find(url, p, {"?"})
            rest == SubSeq(url, mark + 1, Len(url))
            query == Tokens(rest, "&")
            filled == (CHOOSE f : Adds(f, query, u))[Len(query)]
            hostname == IF hasHost THEN Copy(part.uindex, host - part.p) ELSE NoText
            portText == IF hasPort THEN Copy(port, slash - host - 1) ELSE NoText
            path == Copy(uindex, mark - p)
            result == [filled EXCEPT !.scheme = part.scheme, !.hostname = hostname,
                                     !.port = portText, !.path = path]
<1>1. \/ parse(url, u).uri = u
      \/ part.rc = 0 /\ part.p <= Len(url) + 1 /\ parse(url, u).uri = result
  <2>1. parse(url, u) =
          IF part.rc # 0 THEN [rc |-> part.rc, uri |-> u]
          ELSE IF part.p > Len(url) + 1 \/ (mark < Len(url) /\ query = << >>)
          THEN [rc |-> 3, uri |-> u]
          ELSE [rc |-> 0, uri |-> result]
    BY Zenon DEF parse, Adds
  <2>2. part.rc = 0 => part.p \in Nat /\ Len(url) \in Nat
    <3>1. url \in Seq(Symbols)
      BY DEF Text
    <3>. QED
      BY <3>1, SchemePartType
  <2>. HIDE DEF part, mark, query, result
  <2>. QED
    BY <2>1, <2>2
<1>2. SUFFICES ASSUME part.rc = 0, part.p <= Len(url) + 1
               PROVE  result \in StoredUris /\ Len(result.get_params) <= URI_MAX_PARAMS
  BY <1>1
<1>3. Len(url) \in Nat
  BY DEF Text
<1>4. /\ part.scheme \in Without({":"}) \union {NoText}
      /\ part.p \in Nat \ {0} /\ part.uindex \in Nat \ {0}
      /\ \/ part.uindex = part.p - 1
         \/ part.uindex = part.p
         \/ part.uindex = 1 /\ part.p = Len(url) + 1
  BY <1>2, SchemeStored
<1>. HIDE DEF part
<1>5. /\ host \in part.p..(Len(url) + 1)
      /\ host <= Len(url) => url[host] \in {":", "/"}
      /\ \A j \in part.p..(host - 1) : url[j] \notin {":", "/"}
  BY <1>2, <1>3, <1>4, FindsFirst
<1>. HIDE DEF host
<1>6. /\ slash \in host..(Len(url) + 1)
      /\ slash <= Len(url) => url[slash] \in {"/"}
      /\ \A j \in host..(slash - 1) : url[j] \notin {"/"}
  BY <1>3, <1>4, <1>5, FindsFirst
<1>. HIDE DEF slash
<1>7. hasHost \in BOOLEAN /\ hasPort \in BOOLEAN /\ (hasPort => hasHost)
  OBVIOUS
<1>8. /\ hasPort => slash > host
      /\ hasHost /\ ~hasPort => url[host] = "/"
  BY <1>4, <1>5, <1>6
<1>9. hasHost => host \in Nat \ {0} /\ host <= Len(url)
  BY <1>4, <1>5
<1>10. ~hasHost => host = Len(url) + 1
  BY <1>3, <1>4, <1>5
<1>11. \/ port = host
       \/ port = host + 1
       \/ part.uindex = 1 /\ part.p = Len(url) + 1
  BY <1>4, <1>5
<1>12. hasHost => port \in {host, host + 1}
  BY <1>3, <1>4, <1>5, <1>9, <1>11
<1>13. port \in Int
  BY <1>4, <1>5
<1>. HIDE DEF hasHost, hasPort, port
<1>14. p \in 1..(Len(url) + 1)
  <2>1. CASE ~hasHost
    BY <1>3, <1>7, <1>10, <2>1
  <2>2. CASE hasPort
    BY <1>3, <1>4, <1>5, <1>6, <1>7, <2>2
  <2>3. CASE hasHost /\ ~hasPort
    BY <1>3, <1>9, <2>3
  <2>. QED
    BY <1>7, <2>1, <2>2, <2>3
<1>15. \/ ~hasHost /\ uindex = part.uindex /\ p = Len(url) + 1
       \/ p = Len(url) + 1 /\ uindex \in Nat
       \/ uindex = p
       \/ uindex = p - 1 /\ uindex > 0 /\ url[uindex] = "/"
  <2>1. CASE ~hasHost
    BY <1>7, <1>10, <2>1
  <2>2. CASE hasPort
    <3>1. uindex = port + slash - host /\ port \in {host, host + 1}
      BY <1>7, <1>12, <2>2
    <3>2. CASE slash > Len(url)
      BY <1>3, <1>4, <1>5, <1>6, <1>7, <2>2, <3>1, <3>2
    <3>3. CASE ~(slash > Len(url))
      <4>1. p = slash + 1 /\ url[slash] = "/" /\ slash \in Nat \ {0}
        BY <1>3, <1>4, <1>5, <1>6, <1>7, <2>2, <3>3
      <4>2. uindex \in {slash, slash + 1}
        BY <1>4, <1>5, <3>1, <4>1
      <4>. HIDE DEF uindex, p
      <4>. QED
        BY <4>1, <4>2
    <3>. QED
      BY <3>2, <3>3
  <2>3. CASE hasHost /\ ~hasPort
    BY <1>7, <1>8, <1>9, <1>12, <2>3
  <2>. QED
    BY <1>7, <2>1, <2>2, <2>3
<1>16. uindex \in Nat
  BY <1>4, <1>14, <1>15
<1>. HIDE DEF p, uindex
<1>17. /\ mark \in p..(Len(url) + 1)
       /\ \A j \in p..(mark - 1) : url[j] \notin {"?"}
  BY <1>3, <1>14, FindsFirst
<1>. HIDE DEF mark
<1>18. hostname \in MaybeText
  <2>1. CASE ~hasHost
    BY <2>1 DEF MaybeText
  <2>2. CASE hasHost
    <3>. DEFINE count == host - part.p
                last == part.uindex + count - 1
    <3>1. part.uindex \in Nat /\ count \in Int /\ last \in Int
      BY <1>4, <1>5
    <3>2. count = 0 \/ (part.uindex > 0 /\ count > 0 /\ last <= Len(url))
      BY <1>3, <1>4, <1>5, <1>9, <2>2
    <3>3. hostname = SubSeq(url, part.uindex, last)
      BY <2>2, Zenon
    <3>. HIDE DEF count, hostname
    <3>4. \A j \in (part.uindex)..last : url[j] \notin {}
      OBVIOUS
    <3>5. last = part.uindex + count - 1
      OBVIOUS
    <3>. HIDE DEF last
    <3>6. SubSeq(url, part.uindex, last) \in Without({})
      BY <3>1, <3>2, <3>4, <3>5, CopyStored
    <3>. QED
      BY <3>3, <3>6, TextsAre DEF MaybeText
  <2>. QED
    BY <2>1, <2>2
<1>19. portText \in Without({"/"}) \union {NoText}
  <2>1. CASE ~hasPort
    BY <2>1
  <2>2. CASE hasPort
    <3>. DEFINE count == slash - host - 1
                last == port + count - 1
    <3>1. port \in Nat \ {0} /\ count \in Nat /\ last \in Int
      BY <1>7, <1>4, <1>5, <1>6, <1>8, <1>9, <1>12, <2>2
    <3>2. last <= slash - 1
      BY <1>7, <1>4, <1>5, <1>6, <1>9, <1>12, <2>2
    <3>3. count = 0 \/ (port > 0 /\ count > 0 /\ last <= Len(url))
      BY <1>3, <1>4, <1>5, <1>6, <3>1, <3>2
    <3>4. \A j \in port..last : j \in host..(slash - 1)
      BY <1>7, <1>4, <1>5, <1>6, <1>9, <1>12, <2>2, <3>1, <3>2
    <3>5. \A j \in port..last : url[j] \notin {"/"}
      BY <1>6, <3>4
    <3>6. portText = SubSeq(url, port, last)
      BY <2>2, Zenon
    <3>7. port \in Nat /\ count \in Int /\ last = port + count - 1
      BY <3>1
    <3>. HIDE DEF count, last, portText
    <3>8. SubSeq(url, port, last) \in Without({"/"})
      BY <3>1, <3>3, <3>5, <3>7, CopyStored
    <3>. QED
      BY <3>6, <3>8
  <2>. QED
    BY <2>1, <2>2
<1>20. path \in Without({"?"}) \union {NoText}
  <2>. DEFINE count == mark - p
              last == uindex + count - 1
  <2>1. count \in Nat /\ last \in Int
    BY <1>14, <1>16, <1>17
  <2>2. CASE p = Len(url) + 1
    <3>1. count = 0 /\ \A j \in uindex..last : url[j] \notin {"?"}
      BY <1>3, <1>14, <1>16, <1>17, <2>2
    <3>2. last = uindex + count - 1 /\ count \in Int
      BY <3>1
    <3>. HIDE DEF count, last
    <3>3. SubSeq(url, uindex, last) \in Without({"?"})
      BY <1>16, <2>1, <3>1, <3>2, CopyStored
    <3>. QED
      BY <3>3 DEF last, count
  <2>3. CASE uindex = p \/ (uindex = p - 1 /\ uindex > 0 /\ url[uindex] = "/")
    <3>1. uindex > 0 /\ last <= mark - 1 /\ last <= Len(url)
      BY <1>3, <1>14, <1>16, <1>17, <2>3
    <3>2. \A j \in uindex..last : j \in p..(mark - 1) \/ (j = uindex /\ url[uindex] = "/")
      BY <1>14, <1>16, <1>17, <2>3, <3>1
    <3>3. \A j \in uindex..last : url[j] \notin {"?"}
      BY <1>17, <3>2
    <3>4. last = uindex + count - 1 /\ count \in Int
      BY <2>1
    <3>5. count = 0 \/ (uindex > 0 /\ count > 0 /\ last <= Len(url))
      BY <2>1, <3>1
    <3>. HIDE DEF count, last
    <3>6. SubSeq(url, uindex, last) \in Without({"?"})
      BY <1>16, <2>1, <3>3, <3>4, <3>5, CopyStored
    <3>. QED
      BY <3>6 DEF last, count
  <2>. QED
    BY <1>10, <1>15, <2>2, <2>3
<1>21. rest \in Text
  <2>1. CASE mark = Len(url) + 1
    <3>1. mark + 1 > Len(url)
      BY <1>3, <2>1
    <3>2. PICK from : from = mark + 1
      OBVIOUS
    <3>3. SubSeq(url, from, Len(url)) = << >>
      BY <1>3, <1>17, <2>1, <3>2, SubSeqEmpty
    <3>. QED
      BY <3>2, <3>3, TextsAre, Zenon
  <2>2. CASE mark # Len(url) + 1
    <3>1. mark + 1 \in Nat \ {0} /\ mark + 1 <= Len(url) + 1 /\ mark \in Nat
      BY <1>3, <1>14, <1>17, <2>2
    <3>2. \A j \in (mark + 1)..Len(url) : url[j] \notin {}
      OBVIOUS
    <3>3. rest \in Without({})
      BY <1>3, <3>1, <3>2, CopyWithout
    <3>. HIDE DEF rest
    <3>. QED
      BY <3>3, TextsAre
  <2>. QED
    BY <2>1, <2>2
<1>. HIDE DEF rest, hostname, portText, path
<1>22. query \in Seq(Without({"&"}) \ {<< >>})
  BY <1>21, TokensHide
<1>. HIDE DEF query
<1>23. filled \in StoredUris /\ Len(filled.get_params) <= URI_MAX_PARAMS
  BY <1>22, AddsStored
<1>. HIDE DEF filled
<1>24. result \in StoredUris /\ result.get_params = filled.get_params
  <2>1. PICK Q : Q = Seq([key : PlainKeys, value : MaybeText])
    OBVIOUS
  <2>2. StoredUris = [scheme : Without({":"}) \union {NoText}, hostname : MaybeText,
                      port : Without({"/"}) \union {NoText},
                      path : Without({"?"}) \union {NoText}, get_params : Q]
    BY <2>1 DEF StoredUris, UriSet
  <2>. QED
    BY <1>4, <1>18, <1>19, <1>20, <1>23, <2>2
<1>. QED
  BY <1>23, <1>24

\* build makes a text of texts.
LEMMA BuildType ==
    ASSUME NEW u \in StoredUris
    PROVE  build(u) \in Text
<1>1. Coded(Symbols) \subseteq Symbols
  BY UriAssumption DEF Coded
<1>2. Symbols \subseteq Coded(Symbols)
  BY DEF Coded
<1>3. Coded(Symbols) = Symbols
  BY <1>1, <1>2
<1>4. u \in Uris(Symbols)
  BY StoredAre
<1>5. Pieces(u) \in Seq(Maybe(Symbols))
  BY <1>3, <1>4, PiecesType
<1>6. Added(Pieces(u)) \in Seq(Symbols)
  BY <1>5, AddedType
<1>. QED
  BY <1>6 DEF Added, build, Text
===============================================================================
