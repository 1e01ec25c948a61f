----------------------------- MODULE PathProofs -----------------------------
(***************************************************************************)
(* What the operations on paths, which compare and split text, mean for    *)
(* the names inside: for paths of any length, names of any length.         *)
(*                                                                         *)
(* Induction goes over sets: a set of numbers that holds 0 and, with each  *)
(* number, the next one holds them all.                                    *)
(***************************************************************************)
EXTENDS ActorPath, SequenceTheorems, WellFoundedInduction, TLAPS

-----------------------------------------------------------------------------
(* Numbers, and functions defined by recursion over them.                  *)

LEMMA LeastElement ==
  ASSUME NEW S \in SUBSET Nat, S # {}
  PROVE  \E n \in S : \A m \in S : n <= m
<1> DEFINE R == OpToRel(<, Nat)
<1>1. IsWellFoundedOn(R, Nat)
  BY NatLessThanWellFounded
<1>2. \A x, y \in Nat : y < x => <<y, x>> \in R
  BY DEF OpToRel
<1> HIDE DEF R
<1>3. PICK x \in S : \A y \in S : ~ (<<y, x>> \in R)
  BY <1>1, WFMin
<1>4. ASSUME NEW y \in S PROVE x <= y
  <2>1. x \in Nat /\ y \in Nat /\ ~(y < x)
    BY <1>2, <1>3
  <2> QED
    BY <2>1
<1> QED
  BY <1>4

LEMMA SetInduction ==
  ASSUME NEW S, 0 \in S, \A n \in Nat : n \in S => n + 1 \in S
  PROVE  Nat \subseteq S
<1> SUFFICES ASSUME Nat \ S # {} PROVE FALSE
  OBVIOUS
<1>1. PICK n \in Nat \ S : \A m \in Nat \ S : n <= m
  BY LeastElement
<1>2. n # 0 /\ n - 1 \in Nat /\ (n - 1) + 1 = n
  BY <1>1
<1>3. n - 1 \in S
  BY <1>1, <1>2
<1> QED
  BY <1>1, <1>2, <1>3

\* F finds the value at a number from those at smaller ones.
Descends(F, D, S) ==
  \A f, g \in [D -> S], n \in D :
    (\A m \in D : m < n => f[m] = g[m]) => F[f][n] = F[g][n]

\* f solves the equation below n.
Solves(F, f, D, n) == \A m \in D : m < n => F[f][m] = f[m]

\* No two solutions below a number differ there.
Unique(F, D, S) ==
  \A n \in Nat : \A f, g \in [D -> S] :
    Solves(F, f, D, n) /\ Solves(F, g, D, n) => \A m \in D : m < n => f[m] = g[m]

LEMMA SolutionsAgree ==
  ASSUME NEW D \in SUBSET Nat, NEW S, NEW F \in [[D -> S] -> [D -> S]],
         Descends(F, D, S)
  PROVE  Unique(F, D, S)
<1> SUFFICES ASSUME NEW n \in Nat, NEW f \in [D -> S], NEW g \in [D -> S],
                    Solves(F, f, D, n), Solves(F, g, D, n)
             PROVE  \A m \in D : m < n => f[m] = g[m]
  BY DEF Unique
<1> DEFINE T == {m \in D : m < n /\ f[m] # g[m]}
<1> SUFFICES ASSUME T # {} PROVE FALSE
  OBVIOUS
<1>1. T \in SUBSET Nat
  OBVIOUS
<1>2. PICK m \in T : \A k \in T : m <= k
  BY <1>1, LeastElement
<1> HIDE DEF T
<1>3. m \in D /\ m \in Nat /\ m < n /\ f[m] # g[m]
  BY <1>2 DEF T
<1>4. ASSUME NEW k \in D, k < m PROVE f[k] = g[k]
  <2>1. k \in Nat /\ k < n /\ ~(m <= k)
    BY <1>3, <1>4
  <2> QED
    BY <2>1, <1>2 DEF T
<1>5. F[f][m] = F[g][m]
  BY <1>3, <1>4 DEF Descends
<1> QED
  BY <1>3, <1>5 DEF Solves

LEMMA SolutionBelow ==
  ASSUME NEW D \in SUBSET Nat, NEW S, S # {}, NEW F \in [[D -> S] -> [D -> S]],
         Descends(F, D, S)
  PROVE  \A n \in Nat : \E f \in [D -> S] : Solves(F, f, D, n)
<1> DEFINE T == {n \in Nat : \E f \in [D -> S] : Solves(F, f, D, n)}
<1>1. 0 \in T
  <2>1. PICK s \in S : TRUE
    OBVIOUS
  <2>2. [d \in D |-> s] \in [D -> S]
    OBVIOUS
  <2>3. Solves(F, [d \in D |-> s], D, 0)
    BY DEF Solves
  <2> QED
    BY <2>2, <2>3
<1>2. ASSUME NEW n \in Nat, n \in T PROVE n + 1 \in T
  <2>1. PICK f \in [D -> S] : Solves(F, f, D, n)
    BY <1>2
  <2>2. PICK g \in [D -> S] : g = F[f]
    OBVIOUS
  <2>3. ASSUME NEW m \in D, m < n + 1 PROVE F[g][m] = g[m]
    <3>1. \A k \in D : k < m => k < n
      BY <2>3
    <3>2. \A k \in D : k < m => f[k] = g[k]
      BY <3>1, <2>1, <2>2 DEF Solves
    <3> QED
      BY <3>2, <2>2 DEF Descends
  <2> QED
    BY <2>3 DEF Solves
<1> HIDE DEF T
<1>3. Nat \subseteq T
  BY <1>1, <1>2, SetInduction
<1> QED
  BY <1>3 DEF T

\* The equation has a solution everywhere.
Solvable(F, D, S) == \E f \in [D -> S] : F[f] = f

LEMMA Solution ==
  ASSUME NEW D \in SUBSET Nat, NEW S, S # {}, NEW F \in [[D -> S] -> [D -> S]],
         Descends(F, D, S)
  PROVE  Solvable(F, D, S)
<1>0. Unique(F, D, S)
  BY SolutionsAgree
<1> DEFINE sol == [n \in Nat |-> CHOOSE f \in [D -> S] : Solves(F, f, D, n)]
           h   == [n \in D |-> sol[n + 1][n]]
<1>1. \A n \in Nat : sol[n] \in [D -> S] /\ Solves(F, sol[n], D, n)
  BY SolutionBelow
<1> HIDE DEF sol
<1>2. h \in [D -> S]
  BY <1>1
<1>3. ASSUME NEW n \in D PROVE F[h][n] = h[n]
  <2>1. n \in Nat /\ n + 1 \in Nat
    OBVIOUS
  <2>2. PICK g \in [D -> S] : g = sol[n + 1] /\ Solves(F, g, D, n + 1)
    BY <2>1, <1>1
  <2>3. ASSUME NEW m \in D, m < n PROVE h[m] = g[m]
    <3>1. PICK l \in Nat : l = m + 1 /\ m < l
      OBVIOUS
    <3>2. PICK f \in [D -> S] : f = sol[l] /\ Solves(F, f, D, l)
      BY <1>1
    <3>3. Solves(F, g, D, l)
      BY <2>2, <2>3, <3>1 DEF Solves
    <3> HIDE DEF h
    <3>4. \A k \in D : k < l => f[k] = g[k]
      BY <3>2, <3>3, <1>0 DEF Unique
    <3> QED
      BY <3>1, <3>2, <3>4 DEF h
  <2> HIDE DEF h
  <2>4. F[h][n] = F[g][n]
    BY <1>2, <2>3 DEF Descends
  <2>5. F[g][n] = g[n]
    BY <2>1, <2>2 DEF Solves
  <2> QED
    BY <2>2, <2>4, <2>5 DEF h
<1> HIDE DEF h
<1>4. PICK r \in [D -> S] : r = h
  BY <1>2
<1>5. PICK q \in [D -> S] : q = F[r]
  OBVIOUS
<1>6. q = r
  <2>1. \A n \in D : q[n] = r[n]
    BY <1>3, <1>4, <1>5
  <2>2. q = [n \in D |-> q[n]] /\ r = [n \in D |-> r[n]]
    OBVIOUS
  <2> QED
    BY <2>1, <2>2, Zenon
<1> QED
  BY <1>5, <1>6 DEF Solvable

-----------------------------------------------------------------------------
(* Sequences, and functions that go through one from left to right.        *)

LEMMA SeqInduction ==
  ASSUME NEW S, NEW T, <<>> \in T,
         \A s \in Seq(S), e \in S : s \in T => Append(s, e) \in T
  PROVE  Seq(S) \subseteq T
<1> DEFINE L == {n \in Nat : \A s \in Seq(S) : Len(s) = n => s \in T}
<1>1. 0 \in L
  <2>1. ASSUME NEW s \in Seq(S), Len(s) = 0 PROVE s \in T
    <3>1. s = <<>>
      BY <2>1, EmptySeq
    <3> QED
      BY <3>1
  <2> QED
    BY <2>1
<1>2. ASSUME NEW n \in Nat, n \in L PROVE n + 1 \in L
  <2>1. ASSUME NEW s \in Seq(S), Len(s) = n + 1 PROVE s \in T
    <3>1. s # <<>>
      BY <2>1
    <3>2. PICK t \in Seq(S), e \in S : s = Append(t, e)
      BY <3>1, SequenceEmptyOrAppend
    <3>3. Len(t) = n
      BY <2>1, <3>2, AppendProperties
    <3>4. t \in T
      BY <1>2, <3>3
    <3> QED
      BY <3>2, <3>4
  <2> QED
    BY <2>1
<1> HIDE DEF L
<1>3. Nat \subseteq L
  BY <1>1, <1>2, SetInduction
<1> QED
  <2>1. ASSUME NEW s \in Seq(S) PROVE s \in T
    <3>1. Len(s) \in L
      BY <1>3, LenProperties
    <3> QED
      BY <3>1 DEF L
  <2> QED
    BY <2>1

\* g holds what G makes of the elements of s, one after the other.
Folded(g, G, b, s) ==
  g[0] = b /\ \A i \in 1..Len(s) : g[i] = G[<<g[i - 1], s[i]>>]

LEMMA FoldExists ==
  ASSUME NEW A, NEW E, NEW b \in A, NEW G \in [A \X E -> A]
  PROVE  \A s \in Seq(E) : \E g \in [0..Len(s) -> A] : Folded(g, G, b, s)
<1> DEFINE T == {s \in Seq(E) : \E g \in [0..Len(s) -> A] : Folded(g, G, b, s)}
<1>1. <<>> \in T
  <2>1. [i \in 0..0 |-> b] \in [0..Len(<<>>) -> A]
    OBVIOUS
  <2>2. Folded([i \in 0..0 |-> b], G, b, <<>>)
    BY DEF Folded
  <2> QED
    BY <2>1, <2>2
<1>2. ASSUME NEW s \in Seq(E), NEW e \in E, s \in T PROVE Append(s, e) \in T
  <2>1. PICK g \in [0..Len(s) -> A] : Folded(g, G, b, s)
    BY <1>2
  <2>2. PICK n \in Nat : n = Len(s)
    BY LenProperties
  <2>3. PICK t \in Seq(E) : t = Append(s, e)
    BY AppendProperties
  <2>4. Len(t) = n + 1 /\ t[n + 1] = e /\ \A i \in 1..n : t[i] = s[i]
    BY <2>2, <2>3, AppendProperties
  <2> DEFINE h == [i \in 0..(n + 1) |-> IF i <= n THEN g[i] ELSE G[<<g[n], e>>]]
  <2>5. g[n] \in A
    BY <2>2
  <2>6. h \in [0..Len(t) -> A]
    BY <2>2, <2>4, <2>5
  <2>7. h[0] = b
    BY <2>1 DEF Folded
  <2>8. ASSUME NEW i \in 1..(n + 1) PROVE h[i] = G[<<h[i - 1], t[i]>>]
    <3>1. CASE i <= n
      BY <3>1, <2>1, <2>2, <2>4 DEF Folded
    <3>2. CASE i = n + 1
      <4>1. i - 1 = n /\ h[n] = g[n] /\ h[n + 1] = G[<<g[n], e>>]
        BY <3>2
      <4> HIDE DEF h
      <4> QED
        BY <3>2, <4>1, <2>4
    <3> QED
      BY <3>1, <3>2
  <2> HIDE DEF h
  <2>9. Folded(h, G, b, t)
    BY <2>4, <2>7, <2>8 DEF Folded
  <2> QED
    BY <2>3, <2>6, <2>9
<1> HIDE DEF T
<1>3. Seq(E) \subseteq T
  BY <1>1, <1>2, SeqInduction
<1> QED
  BY <1>3 DEF T

\* An element more takes one more step.
OneMore(G, b, E) ==
  \A s \in Seq(E), e \in E : \A g, h :
    Folded(g, G, b, s) /\ Folded(h, G, b, Append(s, e)) =>
      h[Len(Append(s, e))] = G[<<g[Len(s)], e>>]

LEMMA FoldAppend ==
  ASSUME NEW A, NEW E, NEW b \in A, NEW G \in [A \X E -> A]
  PROVE  OneMore(G, b, E)
<1> SUFFICES ASSUME NEW s \in Seq(E), NEW e \in E, NEW g, NEW h,
                    Folded(g, G, b, s), Folded(h, G, b, Append(s, e))
             PROVE  h[Len(Append(s, e))] = G[<<g[Len(s)], e>>]
  BY DEF OneMore
<1>1. PICK n \in Nat : n = Len(s)
  BY LenProperties
<1>2. PICK t \in Seq(E) : t = Append(s, e)
  BY AppendProperties
<1>3. Len(t) = n + 1 /\ t[n + 1] = e /\ \A i \in 1..n : t[i] = s[i]
  BY <1>1, <1>2, AppendProperties
<1> DEFINE T == {i \in Nat : i <= n => h[i] = g[i]}
<1>4. 0 \in T
  BY DEF Folded
<1>5. ASSUME NEW i \in Nat, i \in T PROVE i + 1 \in T
  <2>1. CASE i + 1 <= n
    <3>1. PICK j \in 1..n : j = i + 1 /\ j - 1 = i
      BY <2>1
    <3>2. g[j] = G[<<g[i], s[j]>>]
      BY <3>1, <1>1 DEF Folded
    <3>3. j \in 1..Len(t)
      BY <3>1, <1>3
    <3>4. h[j] = G[<<h[i], t[j]>>]
      BY <3>1, <3>3, <1>2 DEF Folded
    <3>5. h[i] = g[i] /\ t[j] = s[j]
      BY <3>1, <1>3, <1>5
    <3> QED
      BY <3>1, <3>2, <3>4, <3>5
  <2> QED
    BY <2>1
<1> HIDE DEF T
<1>6. Nat \subseteq T
  BY <1>4, <1>5, SetInduction
<1>7. h[n] = g[n]
  BY <1>6 DEF T
<1> QED
  BY <1>1, <1>2, <1>3, <1>7 DEF Folded

-----------------------------------------------------------------------------
(* Splitting and filtering, one element at a time.                         *)

Tokens     == Seq(Text) \ {<<>>}
PlainNames == {name \in Text : Plain(name)}

\* Concatenation of texts, and of sequences of texts.
Groups(s, t, u) == (s \o t) \o u = s \o (t \o u)

LEMMA TextConcat ==
  /\ \A s, t \in Text : s \o t \in Text
  /\ \A s, t, u \in Text : Groups(s, t, u)
  /\ \A s, t, u \in Seq(Text) : Groups(s, t, u)
<1>1. ASSUME NEW s \in Seq(Alphabet), NEW t \in Seq(Alphabet) PROVE s \o t \in Seq(Alphabet)
  BY ConcatProperties
<1>2. ASSUME NEW s \in Seq(Alphabet), NEW t \in Seq(Alphabet), NEW u \in Seq(Alphabet)
      PROVE  Groups(s, t, u)
  BY ConcatAssociative DEF Groups
<1>3. ASSUME NEW s \in Seq(Text), NEW t \in Seq(Text), NEW u \in Seq(Text)
      PROVE  Groups(s, t, u)
  BY ConcatAssociative DEF Groups
<1> QED
  BY <1>1, <1>2, <1>3 DEF Text

Regroups(s, t, u, v) == s \o ((t \o u) \o v) = (s \o t) \o (u \o v)

LEMMA TextRegroup == \A s, t, u, v \in Text : Regroups(s, t, u, v)
<1> SUFFICES ASSUME NEW s \in Text, NEW t \in Text, NEW u \in Text, NEW v \in Text
             PROVE  Regroups(s, t, u, v)
  OBVIOUS
<1>1. PICK w \in Text : w = u \o v
  BY TextConcat
<1>2. Groups(t, u, v) /\ Groups(s, t, w)
  BY TextConcat
<1> QED
  BY <1>1, <1>2, Zenon DEF Groups, Regroups

LEMMA FrontLast ==
  ASSUME NEW S, NEW s \in Seq(S), s # <<>>
  PROVE  /\ Front(s) \in Seq(S) /\ Len(Front(s)) = Len(s) - 1
         /\ Last(s) \in S
         /\ s = Append(Front(s), Last(s))
<1>1. PICK t \in Seq(S), e \in S : s = Append(t, e)
  BY SequenceEmptyOrAppend
<1>2. PICK n \in Nat : n = Len(t)
  BY LenProperties
<1>3. Len(s) = n + 1 /\ s[n + 1] = e /\ SubSeq(s, 1, n) = t
  BY <1>1, <1>2, AppendProperties
<1>4. Front(s) = t
  BY <1>3 DEF Front
<1>5. Last(s) = e
  BY <1>3 DEF Last
<1> QED
  BY <1>1, <1>2, <1>3, <1>4, <1>5

LEMMA FrontAppend ==
  ASSUME NEW S, NEW s \in Seq(S), NEW e \in S
  PROVE  Front(Append(s, e)) = s /\ Last(Append(s, e)) = e
<1>1. PICK t \in Seq(S) : t = Append(s, e)
  BY AppendProperties
<1>2. t # <<>>
  BY <1>1, AppendProperties
<1>3. t = Append(Front(t), Last(t)) /\ Front(t) \in Seq(S) /\ Last(t) \in S
  BY <1>2, FrontLast
<1> QED
  BY <1>1, <1>3, AppendInjective

LEMMA AddCharTyped ==
  ASSUME NEW tokens \in Tokens, NEW ch \in Alphabet
  PROVE  AddChar(tokens, ch) \in Tokens
<1>1. tokens \in Seq(Text) /\ tokens # <<>>
  BY DEF Tokens
<1>2. CASE ch = "/"
  <2>1. <<>> \in Text
    BY DEF Text
  <2>2. Append(tokens, <<>>) \in Seq(Text) /\ Append(tokens, <<>>) # <<>>
    BY <1>1, <2>1, AppendProperties
  <2> QED
    BY <1>2, <2>2 DEF AddChar, Tokens
<1>3. CASE ch # "/"
  <2>2. PICK front \in Seq(Text) : front = Front(tokens)
    BY <1>1, FrontLast
  <2>3. PICK last \in Text : last = Last(tokens)
    BY <1>1, FrontLast
  <2>4. PICK name \in Text : name = Append(last, ch)
    BY <2>3, AppendProperties DEF Text
  <2>5. Append(front, name) \in Seq(Text) /\ Append(front, name) # <<>>
    BY AppendProperties
  <2> QED
    BY <1>3, <2>2, <2>3, <2>4, <2>5 DEF AddChar, Tokens
<1> QED
  BY <1>2, <1>3

CharStep == [x \in Tokens \X Alphabet |-> AddChar(x[1], x[2])]

LEMMA CharStepTyped == CharStep \in [Tokens \X Alphabet -> Tokens]
BY AddCharTyped DEF CharStep

LEMMA NoToken == << <<>> >> \in Tokens
BY DEF Tokens, Text

LEMMA SplitFold ==
  ASSUME NEW text \in Text
  PROVE  \E g \in [0..Len(text) -> Tokens] :
           Folded(g, CharStep, << <<>> >>, text) /\ Split(text) = g[Len(text)]
<1>1. PICK n \in Nat : n = Len(text)
  BY LenProperties DEF Text
<1>2. PICK g \in [0..n -> Tokens] : Folded(g, CharStep, << <<>> >>, text)
  BY <1>1, NoToken, CharStepTyped, FoldExists DEF Text
<1>3. ASSUME NEW i \in 1..n PROVE g[i] = AddChar(g[i - 1], text[i])
  <2>1. g[i] = CharStep[<<g[i - 1], text[i]>>]
    BY <1>1, <1>2 DEF Folded
  <2>2. g[i - 1] \in Tokens /\ text[i] \in Alphabet
    BY <1>1 DEF Text
  <2> QED
    BY <2>1, <2>2 DEF CharStep
<1> DEFINE f == CHOOSE f : f = [i \in 0..n |-> IF i = 0 THEN << <<>> >>
                                               ELSE AddChar(f[i - 1], text[i])]
<1>4. g = [i \in 0..n |-> IF i = 0 THEN << <<>> >> ELSE AddChar(g[i - 1], text[i])]
  <2>1. g = [i \in 0..n |-> g[i]]
    OBVIOUS
  <2>2. \A i \in 0..n : g[i] = IF i = 0 THEN << <<>> >> ELSE AddChar(g[i - 1], text[i])
    <3>1. g[0] = << <<>> >>
      BY <1>2 DEF Folded
    <3>2. \A i \in 0..n : i = 0 \/ i \in 1..n
      OBVIOUS
    <3> QED
      BY <3>1, <3>2, <1>3
  <2> QED
    BY <2>1, <2>2, Zenon
<1>5. f = [i \in 0..n |-> IF i = 0 THEN << <<>> >> ELSE AddChar(f[i - 1], text[i])]
  BY <1>4, Zenon
<1>6. Split(text) = f[n]
  BY <1>1 DEF Split
<1> HIDE DEF f
<1> DEFINE T == {i \in Nat : i <= n => f[i] = g[i]}
<1>7. 0 \in T
  BY <1>2, <1>5 DEF Folded
<1>8. ASSUME NEW i \in Nat, i \in T PROVE i + 1 \in T
  <2>1. ASSUME i + 1 <= n PROVE f[i + 1] = g[i + 1]
    <3>1. PICK j \in 1..n : j = i + 1 /\ j - 1 = i /\ j # 0
      BY <2>1
    <3>2. f[j] = AddChar(f[i], text[j])
      BY <1>5, <3>1
    <3>3. g[j] = AddChar(g[i], text[j])
      BY <1>3, <3>1
    <3>4. f[i] = g[i]
      BY <1>8, <2>1
    <3> QED
      BY <3>1, <3>2, <3>3, <3>4
  <2> QED
    BY <2>1
<1> HIDE DEF T
<1>9. Nat \subseteq T
  BY <1>7, <1>8, SetInduction
<1>10. f[n] = g[n]
  BY <1>9 DEF T
<1> QED
  BY <1>1, <1>2, <1>6, <1>10

\* Splitting takes one character at a time.
LEMMA SplitAppend ==
  /\ Split(<<>>) = << <<>> >>
  /\ \A text \in Text : Split(text) \in Tokens
  /\ \A text \in Text, ch \in Alphabet : Split(Append(text, ch)) = AddChar(Split(text), ch)
<1>1. Split(<<>>) = << <<>> >>
  <2>1. <<>> \in Text /\ Len(<<>>) = 0
    BY DEF Text
  <2> QED
    BY <2>1, SplitFold DEF Folded
<1>2. ASSUME NEW text \in Text PROVE Split(text) \in Tokens
  <2>1. Len(text) \in 0..Len(text)
    BY LenProperties DEF Text
  <2> QED
    BY <2>1, SplitFold
<1>3. ASSUME NEW text \in Text, NEW ch \in Alphabet
      PROVE  Split(Append(text, ch)) = AddChar(Split(text), ch)
  <2>1. PICK t \in Text : t = Append(text, ch)
    BY AppendProperties DEF Text
  <2>2. PICK g : Folded(g, CharStep, << <<>> >>, text) /\ Split(text) = g[Len(text)]
    BY SplitFold
  <2>3. PICK h : Folded(h, CharStep, << <<>> >>, t) /\ Split(t) = h[Len(t)]
    BY SplitFold
  <2>4. h[Len(t)] = CharStep[<<g[Len(text)], ch>>]
    <3>1. Folded(h, CharStep, << <<>> >>, Append(text, ch))
      BY <2>1, <2>3
    <3>2. text \in Seq(Alphabet)
      BY DEF Text
    <3>3. OneMore(CharStep, << <<>> >>, Alphabet)
      BY FoldAppend, NoToken, CharStepTyped
    <3> QED
      BY <3>1, <3>2, <3>3, <2>1, <2>2 DEF OneMore
  <2>5. CharStep[<<Split(text), ch>>] = AddChar(Split(text), ch)
    BY <1>2 DEF CharStep
  <2> QED
    BY <2>1, <2>2, <2>3, <2>4, <2>5
<1> QED
  BY <1>1, <1>2, <1>3

NameStep == [x \in Seq(Text) \X Text |-> AddName(x[1], x[2])]

LEMMA NameStepTyped == NameStep \in [Seq(Text) \X Text -> Seq(Text)]
<1>1. \A names \in Seq(Text), token \in Text : AddName(names, token) \in Seq(Text)
  BY AppendProperties DEF AddName
<1> QED
  BY <1>1 DEF NameStep

LEMMA NotBlankFold ==
  ASSUME NEW tokens \in Seq(Text)
  PROVE  \E g \in [0..Len(tokens) -> Seq(Text)] :
           Folded(g, NameStep, <<>>, tokens) /\ NotBlank(tokens) = g[Len(tokens)]
<1>1. PICK n \in Nat : n = Len(tokens)
  BY LenProperties
<1>2. PICK g \in [0..n -> Seq(Text)] : Folded(g, NameStep, <<>>, tokens)
  <2>1. <<>> \in Seq(Text)
    OBVIOUS
  <2> QED
    BY <1>1, <2>1, NameStepTyped, FoldExists
<1>3. ASSUME NEW i \in 1..n PROVE g[i] = AddName(g[i - 1], tokens[i])
  <2>1. g[i] = NameStep[<<g[i - 1], tokens[i]>>]
    BY <1>1, <1>2 DEF Folded
  <2>2. g[i - 1] \in Seq(Text) /\ tokens[i] \in Text
    BY <1>1
  <2> QED
    BY <2>1, <2>2 DEF NameStep
<1> DEFINE f == CHOOSE f : f = [i \in 0..n |-> IF i = 0 THEN <<>>
                                               ELSE AddName(f[i - 1], tokens[i])]
<1>4. g = [i \in 0..n |-> IF i = 0 THEN <<>> ELSE AddName(g[i - 1], tokens[i])]
  <2>1. g = [i \in 0..n |-> g[i]]
    OBVIOUS
  <2>2. \A i \in 0..n : g[i] = IF i = 0 THEN <<>> ELSE AddName(g[i - 1], tokens[i])
    <3>1. g[0] = <<>>
      BY <1>2 DEF Folded
    <3>2. \A i \in 0..n : i = 0 \/ i \in 1..n
      OBVIOUS
    <3> QED
      BY <3>1, <3>2, <1>3
  <2> QED
    BY <2>1, <2>2, Zenon
<1>5. f = [i \in 0..n |-> IF i = 0 THEN <<>> ELSE AddName(f[i - 1], tokens[i])]
  BY <1>4, Zenon
<1>6. NotBlank(tokens) = f[n]
  BY <1>1 DEF NotBlank
<1> HIDE DEF f
<1> DEFINE T == {i \in Nat : i <= n => f[i] = g[i]}
<1>7. 0 \in T
  BY <1>2, <1>5 DEF Folded
<1>8. ASSUME NEW i \in Nat, i \in T PROVE i + 1 \in T
  <2>1. ASSUME i + 1 <= n PROVE f[i + 1] = g[i + 1]
    <3>1. PICK j \in 1..n : j = i + 1 /\ j - 1 = i /\ j # 0
      BY <2>1
    <3>2. f[j] = AddName(f[i], tokens[j])
      BY <1>5, <3>1
    <3>3. g[j] = AddName(g[i], tokens[j])
      BY <1>3, <3>1
    <3>4. f[i] = g[i]
      BY <1>8, <2>1
    <3> QED
      BY <3>1, <3>2, <3>3, <3>4
  <2> QED
    BY <2>1
<1> HIDE DEF T
<1>9. Nat \subseteq T
  BY <1>7, <1>8, SetInduction
<1>10. f[n] = g[n]
  BY <1>9 DEF T
<1> QED
  BY <1>1, <1>2, <1>6, <1>10

\* Filtering takes one name at a time.
LEMMA NotBlankAppend ==
  /\ NotBlank(<<>>) = <<>>
  /\ \A tokens \in Seq(Text), t \in Text :
       NotBlank(Append(tokens, t)) = AddName(NotBlank(tokens), t)
<1>0. <<>> \in Seq(Text) /\ Len(<<>>) = 0
  OBVIOUS
<1>1. NotBlank(<<>>) = <<>>
  BY <1>0, NotBlankFold DEF Folded
<1>2. ASSUME NEW tokens \in Seq(Text), NEW t \in Text
      PROVE  NotBlank(Append(tokens, t)) = AddName(NotBlank(tokens), t)
  <2>1. PICK all \in Seq(Text) : all = Append(tokens, t)
    BY AppendProperties
  <2>2. PICK g \in [0..Len(tokens) -> Seq(Text)] :
          Folded(g, NameStep, <<>>, tokens) /\ NotBlank(tokens) = g[Len(tokens)]
    BY NotBlankFold
  <2>3. PICK h : Folded(h, NameStep, <<>>, all) /\ NotBlank(all) = h[Len(all)]
    BY NotBlankFold
  <2>4. h[Len(all)] = NameStep[<<g[Len(tokens)], t>>]
    <3>1. Folded(h, NameStep, <<>>, Append(tokens, t))
      BY <2>1, <2>3
    <3>2. OneMore(NameStep, <<>>, Text)
      BY <1>0, FoldAppend, NameStepTyped
    <3> QED
      BY <3>1, <3>2, <2>1, <2>2 DEF OneMore
  <2>5. NotBlank(tokens) \in Seq(Text)
    BY <2>2, LenProperties
  <2>6. NameStep[<<NotBlank(tokens), t>>] = AddName(NotBlank(tokens), t)
    BY <2>5 DEF NameStep
  <2> QED
    BY <2>1, <2>2, <2>3, <2>4, <2>6
<1> QED
  BY <1>1, <1>2

-----------------------------------------------------------------------------
(* Writing, one name at a time.                                            *)

JoinStep == [x \in Text \X Text |-> x[1] \o x[2]]

LEMMA JoinStepTyped == <<>> \in Text /\ JoinStep \in [Text \X Text -> Text]
<1>1. \A s, t \in Text : s \o t \in Text
  BY ConcatProperties DEF Text
<1>2. <<>> \in Text
  BY DEF Text
<1> QED
  BY <1>1, <1>2 DEF JoinStep

LEMMA FlattenFold ==
  ASSUME NEW seqs \in Seq(Text), seqs # <<>>
  PROVE  \E g \in [0..Len(seqs) -> Text] :
           Folded(g, JoinStep, <<>>, seqs) /\ FlattenSeq(seqs) = g[Len(seqs)]
<1>1. PICK n \in Nat : n = Len(seqs) /\ n # 0
  BY LenProperties, EmptySeq
<1>2. PICK g \in [0..n -> Text] : Folded(g, JoinStep, <<>>, seqs)
  BY <1>1, JoinStepTyped, FoldExists
<1>3. ASSUME NEW i \in 1..n PROVE g[i] = g[i - 1] \o seqs[i]
  <2>1. g[i] = JoinStep[<<g[i - 1], seqs[i]>>]
    BY <1>1, <1>2 DEF Folded
  <2>2. g[i - 1] \in Text /\ seqs[i] \in Text
    BY <1>1
  <2> QED
    BY <2>1, <2>2 DEF JoinStep
<1>4. g[1] = seqs[1]
  <2>1. g[0] = <<>>
    BY <1>2 DEF Folded
  <2>2. PICK one \in 1..n : one = 1 /\ one - 1 = 0
    BY <1>1
  <2>3. g[1] = g[0] \o seqs[1] /\ seqs[1] \in Text
    <3>1. g[one] = g[one - 1] \o seqs[one]
      BY <1>3
    <3> QED
      BY <1>1, <2>2, <3>1
  <2> QED
    BY <2>1, <2>3, ConcatEmptySeq DEF Text
<1> DEFINE f == CHOOSE f : f = [i \in 1..n |-> IF i = 1 THEN seqs[i]
                                               ELSE f[i - 1] \o seqs[i]]
           r == [i \in 1..n |-> g[i]]
<1>5. r = [i \in 1..n |-> IF i = 1 THEN seqs[i] ELSE r[i - 1] \o seqs[i]]
  <2>1. \A i \in 1..n : g[i] = IF i = 1 THEN seqs[i] ELSE r[i - 1] \o seqs[i]
    <3>1. \A i \in 1..n : i # 1 => i - 1 \in 1..n
      OBVIOUS
    <3> QED
      BY <3>1, <1>3, <1>4
  <2> HIDE DEF r
  <2> QED
    BY <2>1, Zenon DEF r
<1> HIDE DEF r
<1>6. f = [i \in 1..n |-> IF i = 1 THEN seqs[i] ELSE f[i - 1] \o seqs[i]]
  BY <1>5, Zenon
<1>7. FlattenSeq(seqs) = f[n]
  BY <1>1 DEF FlattenSeq
<1> HIDE DEF f
<1> DEFINE T == {i \in Nat : i + 1 <= n => f[i + 1] = g[i + 1]}
<1>8. 0 \in T
  BY <1>1, <1>4, <1>6
<1>9. ASSUME NEW i \in Nat, i \in T PROVE i + 1 \in T
  <2>1. ASSUME (i + 1) + 1 <= n PROVE f[(i + 1) + 1] = g[(i + 1) + 1]
    <3>1. PICK j \in 1..n : j = (i + 1) + 1 /\ j - 1 = i + 1 /\ j # 1
      BY <2>1
    <3>2. f[j] = f[i + 1] \o seqs[j]
      BY <1>6, <3>1
    <3>3. g[j] = g[i + 1] \o seqs[j]
      BY <1>3, <3>1
    <3>4. f[i + 1] = g[i + 1]
      BY <1>9, <2>1
    <3> QED
      BY <3>1, <3>2, <3>3, <3>4
  <2> QED
    BY <2>1
<1> HIDE DEF T
<1>10. Nat \subseteq T
  BY <1>8, <1>9, SetInduction
<1>11. f[n] = g[n]
  <2>1. n - 1 \in T /\ (n - 1) + 1 = n
    BY <1>1, <1>10
  <2> QED
    BY <2>1 DEF T
<1> QED
  BY <1>1, <1>2, <1>7, <1>11

LEMMA FlattenAppend ==
  /\ \A seqs \in Seq(Text) : seqs # <<>> => FlattenSeq(seqs) \in Text
  /\ \A s \in Text : FlattenSeq(<<s>>) = s
  /\ \A seqs \in Seq(Text), s \in Text :
       seqs # <<>> => FlattenSeq(Append(seqs, s)) = FlattenSeq(seqs) \o s
<1>0. OneMore(JoinStep, <<>>, Text)
  BY FoldAppend, JoinStepTyped
<1>1. ASSUME NEW seqs \in Seq(Text), seqs # <<>> PROVE FlattenSeq(seqs) \in Text
  BY <1>1, FlattenFold, LenProperties
<1>2. ASSUME NEW s \in Text PROVE FlattenSeq(<<s>>) = s
  BY DEF FlattenSeq
<1>3. ASSUME NEW seqs \in Seq(Text), NEW s \in Text, seqs # <<>>
      PROVE  FlattenSeq(Append(seqs, s)) = FlattenSeq(seqs) \o s
  <2>1. PICK all \in Seq(Text) : all = Append(seqs, s) /\ all # <<>>
    BY AppendProperties
  <2>2. PICK g : Folded(g, JoinStep, <<>>, seqs) /\ FlattenSeq(seqs) = g[Len(seqs)]
    BY <1>3, FlattenFold
  <2>3. PICK h : Folded(h, JoinStep, <<>>, all) /\ FlattenSeq(all) = h[Len(all)]
    BY <2>1, FlattenFold
  <2>4. Folded(h, JoinStep, <<>>, Append(seqs, s))
    BY <2>1, <2>3
  <2>5. h[Len(Append(seqs, s))] = JoinStep[<<g[Len(seqs)], s>>]
    BY <1>0, <2>2, <2>4 DEF OneMore
  <2>6. FlattenSeq(seqs) \in Text
    BY <1>1, <1>3
  <2>7. JoinStep[<<FlattenSeq(seqs), s>>] = FlattenSeq(seqs) \o s
    BY <2>6 DEF JoinStep
  <2> QED
    BY <2>1, <2>2, <2>3, <2>5, <2>7
<1> QED
  BY <1>1, <1>2, <1>3

\* to_string(), but nothing for the empty path.
Written(path) == IF path = <<>> THEN <<>> ELSE to_string(path)
Segment(name) == <<"/">> \o name

LEMMA SegmentTyped == \A name \in Text : Segment(name) \in Text
<1>1. "/" \in Alphabet
  BY AlphabetAssumption
<1>2. \A ch \in Alphabet : <<ch>> \in Text
  BY DEF Text
<1>3. <<"/">> \in Text
  BY <1>1, <1>2
<1> QED
  BY <1>3, ConcatProperties DEF Segment, Text

LEMMA WrittenAppend ==
  /\ Written(<<>>) = <<>>
  /\ \A path \in Seq(Text) : Written(path) \in Text
  /\ \A path \in Seq(Text), name \in Text :
       Written(Append(path, name)) = Written(path) \o Segment(name)
<1> DEFINE segs(path) == [i \in DOMAIN path |-> <<"/">> \o path[i]]
<1>1. Written(<<>>) = <<>>
  BY DEF Written
<1>2. ASSUME NEW path \in Seq(Text) PROVE segs(path) \in Seq(Text) /\ Len(segs(path)) = Len(path)
  <2>1. PICK n \in Nat : n = Len(path)
    BY LenProperties
  <2>2. \A i \in 1..n : <<"/">> \o path[i] \in Text
    BY <2>1, SegmentTyped DEF Segment
  <2>3. DOMAIN path = 1..n
    BY <2>1
  <2> QED
    BY <2>1, <2>2, <2>3
<1>3. ASSUME NEW path \in Seq(Text) PROVE Written(path) \in Text
  <2>1. CASE path = <<>>
    BY <1>1, <2>1, JoinStepTyped
  <2>2. CASE path # <<>>
    <3>1. segs(path) # <<>>
      BY <1>2, <2>2
    <3>2. FlattenSeq(segs(path)) \in Text
      BY <1>2, <3>1, FlattenAppend
    <3> QED
      BY <2>2, <3>2 DEF Written, to_string
  <2> QED
    BY <2>1, <2>2
<1>4. ASSUME NEW path \in Seq(Text), NEW name \in Text
      PROVE  Written(Append(path, name)) = Written(path) \o Segment(name)
  <2>1. PICK n \in Nat : n = Len(path)
    BY LenProperties
  <2>2. PICK all \in Seq(Text) : all = Append(path, name) /\ all # <<>>
    BY AppendProperties
  <2>3. Len(all) = n + 1 /\ all[n + 1] = name /\ \A i \in 1..n : all[i] = path[i]
    BY <2>1, <2>2, AppendProperties
  <2>4. Written(all) = FlattenSeq(segs(all))
    BY <2>2 DEF Written, to_string
  <2>5. PICK old \in Seq(Text) : old = segs(path) /\ Len(old) = n
    BY <1>2, <2>1
  <2>6. PICK new \in Seq(Text) : new = segs(all) /\ Len(new) = n + 1
    BY <1>2, <2>3
  <2>7. PICK s \in Text : s = Segment(name)
    BY SegmentTyped
  <2>8. PICK more \in Seq(Text) : more = Append(old, s)
    BY AppendProperties
  <2>9. Len(more) = n + 1 /\ more[n + 1] = s /\ \A i \in 1..n : more[i] = old[i]
    BY <2>5, <2>8, AppendProperties
  <2>10. \A i \in 1..n : new[i] = old[i]
    <3>1. \A i \in 1..n : i \in DOMAIN path /\ i \in DOMAIN all
      BY <2>1, <2>3
    <3> QED
      BY <3>1, <2>3, <2>5, <2>6
  <2>11. new[n + 1] = s
    BY <2>3, <2>6, <2>7 DEF Segment
  <2> HIDE DEF segs
  <2>12. new = more
    BY <2>6, <2>9, <2>10, <2>11
  <2>13. CASE path = <<>>
    <3>1. old = <<>> /\ Written(path) = <<>>
      BY <2>1, <2>5, <2>13, <1>1
    <3>2. more = <<s>>
      BY <2>8, <3>1
    <3>3. <<>> \o s = s
      BY ConcatEmptySeq DEF Text
    <3> QED
      BY <2>2, <2>4, <2>6, <2>7, <2>12, <3>1, <3>2, <3>3, FlattenAppend
  <2>14. CASE path # <<>>
    <3>1. old # <<>>
      BY <2>1, <2>5, <2>14
    <3>2. FlattenSeq(more) = FlattenSeq(old) \o s
      BY <3>1, <2>8, FlattenAppend
    <3>3. Written(path) = FlattenSeq(old)
      BY <2>5, <2>14 DEF Written, to_string, segs
    <3> QED
      BY <2>2, <2>4, <2>6, <2>7, <2>12, <3>2, <3>3
  <2> QED
    BY <2>13, <2>14
<1> QED
  BY <1>1, <1>3, <1>4

-----------------------------------------------------------------------------
(* Reading what was written.                                               *)

NoSlash(name) == \A i \in DOMAIN name : name[i] # "/"

LEMMA ConcatAppend ==
  ASSUME NEW S, NEW s \in Seq(S), NEW t \in Seq(S), NEW e \in S
  PROVE  s \o Append(t, e) = Append(s \o t, e)
<1>1. <<e>> \in Seq(S)
  OBVIOUS
<1>2. s \o (t \o <<e>>) = (s \o t) \o <<e>>
  BY <1>1, ConcatAssociative
<1>3. s \o t \in Seq(S)
  BY ConcatProperties
<1>4. Append(t, e) = t \o <<e>>
  BY AppendIsConcat
<1>5. Append(s \o t, e) = (s \o t) \o <<e>>
  BY <1>3, AppendIsConcat
<1> QED
  BY <1>2, <1>4, <1>5

LEMMA SegmentAppend ==
  ASSUME NEW w \in Text, NEW name \in Text, NEW ch \in Alphabet
  PROVE  /\ w \o Segment(name) \in Text
         /\ w \o Segment(<<>>) = Append(w, "/")
         /\ w \o Segment(Append(name, ch)) = Append(w \o Segment(name), ch)
<1>0. w \in Seq(Alphabet) /\ name \in Seq(Alphabet) /\ <<>> \in Seq(Alphabet)
  BY DEF Text
<1>1. <<"/">> \in Seq(Alphabet)
  BY AlphabetAssumption
<1>2. Segment(name) \in Seq(Alphabet)
  BY SegmentTyped DEF Text
<1>3. Segment(Append(name, ch)) = Append(Segment(name), ch)
  BY <1>0, <1>1, ConcatAppend DEF Segment
<1>4. Segment(<<>>) = <<"/">>
  BY <1>1, ConcatEmptySeq DEF Segment
<1>5. w \o Append(Segment(name), ch) = Append(w \o Segment(name), ch)
  BY <1>0, <1>2, ConcatAppend
<1>6. w \o <<"/">> = Append(w, "/")
  BY <1>0, AppendIsConcat, AlphabetAssumption
<1>7. w \o Segment(name) \in Seq(Alphabet)
  BY <1>0, <1>2, ConcatProperties
<1> QED
  BY <1>3, <1>4, <1>5, <1>6, <1>7 DEF Text

\* A name without "/" is read back whole.
LEMMA SplitSegment ==
  ASSUME NEW w \in Text
  PROVE  \A name \in Text :
           NoSlash(name) => Split(w \o Segment(name)) = Append(Split(w), name)
<1> DEFINE T == {name \in Text :
                   NoSlash(name) => Split(w \o Segment(name)) = Append(Split(w), name)}
<1>0. Split(w) \in Seq(Text) /\ Split(w) \in Tokens
  BY SplitAppend DEF Tokens
<1>1. <<>> \in T
  <2>1. <<>> \in Text
    BY DEF Text
  <2>2. w \o Segment(<<>>) = Append(w, "/")
    BY <2>1, SegmentAppend, AlphabetAssumption
  <2>3. Split(Append(w, "/")) = AddChar(Split(w), "/")
    BY SplitAppend, AlphabetAssumption
  <2>4. AddChar(Split(w), "/") = Append(Split(w), <<>>)
    BY DEF AddChar
  <2> QED
    BY <2>1, <2>2, <2>3, <2>4
<1>2. ASSUME NEW name \in Seq(Alphabet), NEW ch \in Alphabet, name \in T
      PROVE  Append(name, ch) \in T
  <2>1. PICK longer \in Text : longer = Append(name, ch)
    BY AppendProperties DEF Text
  <2>2. name \in Text
    BY <1>2
  <2>3. ASSUME NoSlash(longer) PROVE Split(w \o Segment(longer)) = Append(Split(w), longer)
    <3>1. NoSlash(name) /\ ch # "/"
      <4>1. PICK n \in Nat : n = Len(name) /\ DOMAIN name = 1..n
        BY LenProperties
      <4>2. DOMAIN longer = 1..(n + 1) /\ longer[n + 1] = ch
            /\ \A i \in 1..n : longer[i] = name[i]
        <5>1. Len(longer) = n + 1
          BY <2>1, <4>1, AppendProperties
        <5>2. DOMAIN longer = 1..(n + 1)
          BY <5>1, LenProperties DEF Text
        <5> QED
          BY <2>1, <4>1, <5>2, AppendProperties
      <4> QED
        BY <2>3, <4>1, <4>2 DEF NoSlash
    <3>2. Split(w \o Segment(name)) = Append(Split(w), name)
      BY <1>2, <3>1
    <3>3. w \o Segment(longer) = Append(w \o Segment(name), ch) /\ w \o Segment(name) \in Text
      BY <2>1, <2>2, SegmentAppend
    <3>4. Split(w \o Segment(longer)) = AddChar(Append(Split(w), name), ch)
      BY <3>2, <3>3, SplitAppend
    <3>5. Front(Append(Split(w), name)) = Split(w) /\ Last(Append(Split(w), name)) = name
      BY <1>0, <2>2, FrontAppend
    <3> QED
      BY <2>1, <3>1, <3>4, <3>5 DEF AddChar
  <2> QED
    BY <2>1, <2>3
<1> HIDE DEF T
<1>3. Seq(Alphabet) \subseteq T
  BY <1>1, <1>2, SeqInduction
<1> QED
  BY <1>3 DEF T, Text

LEMMA PlainTyped ==
  /\ \A path \in Seq(PlainNames) : path \in Seq(Text)
  /\ \A name \in PlainNames : name \in Text /\ NoSlash(name) /\ ~Blank(name)
<1>1. PlainNames \subseteq Text
  BY DEF PlainNames
<1>2. \A path \in Seq(PlainNames) : path \in Seq(Text)
  BY <1>1, SeqMonotonic
<1> QED
  BY <1>2 DEF PlainNames, Plain, NoSlash

LEMMA SplitWritten ==
  \A path \in Seq(PlainNames) : Split(Written(path)) = << <<>> >> \o path
<1> DEFINE T == {path \in Seq(PlainNames) : Split(Written(path)) = << <<>> >> \o path}
<1>0. << <<>> >> \in Seq(Text) /\ <<>> \in Seq(Text)
  BY NoToken DEF Tokens
<1>1. <<>> \in T
  <2>1. << <<>> >> \o <<>> = << <<>> >>
    BY <1>0, ConcatEmptySeq
  <2> QED
    BY <2>1, WrittenAppend, SplitAppend
<1>2. ASSUME NEW path \in Seq(PlainNames), NEW name \in PlainNames, path \in T
      PROVE  Append(path, name) \in T
  <2>1. path \in Seq(Text) /\ name \in Text /\ NoSlash(name)
    BY PlainTyped
  <2>2. PICK w \in Text : w = Written(path)
    BY <2>1, WrittenAppend
  <2>3. Split(w \o Segment(name)) = Append(Split(w), name)
    BY <2>1, SplitSegment
  <2>4. Written(Append(path, name)) = w \o Segment(name)
    BY <2>1, <2>2, WrittenAppend
  <2>5. << <<>> >> \o Append(path, name) = Append(<< <<>> >> \o path, name)
    BY <1>0, <2>1, ConcatAppend
  <2>6. Append(path, name) \in Seq(PlainNames)
    BY AppendProperties
  <2> QED
    BY <1>2, <2>2, <2>3, <2>4, <2>5, <2>6
<1> HIDE DEF T
<1>3. Seq(PlainNames) \subseteq T
  BY <1>1, <1>2, SeqInduction
<1> QED
  BY <1>3 DEF T

LEMMA NotBlankPath ==
  \A path \in Seq(PlainNames) : NotBlank(<< <<>> >> \o path) = path
<1> DEFINE T == {path \in Seq(PlainNames) : NotBlank(<< <<>> >> \o path) = path}
<1>0. << <<>> >> \in Seq(Text) /\ <<>> \in Seq(Text) /\ <<>> \in Text
  BY NoToken DEF Tokens, Text
<1>1. <<>> \in T
  <2>1. << <<>> >> \o <<>> = << <<>> >> /\ Append(<<>>, <<>>) = << <<>> >>
    BY <1>0, ConcatEmptySeq
  <2>2. NotBlank(Append(<<>>, <<>>)) = AddName(<<>>, <<>>)
    BY <1>0, NotBlankAppend
  <2>3. AddName(<<>>, <<>>) = <<>>
    BY DEF AddName, Blank
  <2> QED
    BY <2>1, <2>2, <2>3
<1>2. ASSUME NEW path \in Seq(PlainNames), NEW name \in PlainNames, path \in T
      PROVE  Append(path, name) \in T
  <2>1. path \in Seq(Text) /\ name \in Text /\ ~Blank(name)
    BY PlainTyped
  <2>2. << <<>> >> \o Append(path, name) = Append(<< <<>> >> \o path, name)
    BY <1>0, <2>1, ConcatAppend
  <2>3. << <<>> >> \o path \in Seq(Text)
    BY <1>0, <2>1, ConcatProperties
  <2>4. NotBlank(Append(<< <<>> >> \o path, name)) = AddName(path, name)
    BY <1>2, <2>1, <2>3, NotBlankAppend
  <2>5. Append(path, name) \in Seq(PlainNames)
    BY AppendProperties
  <2> QED
    BY <2>1, <2>2, <2>4, <2>5 DEF AddName
<1> HIDE DEF T
<1>3. Seq(PlainNames) \subseteq T
  BY <1>1, <1>2, SeqInduction
<1> QED
  BY <1>3 DEF T

\* From() reads back what Display wrote.
LEMMA RoundTrip ==
  \A path \in Seq(PlainNames) : From(to_string(path)) = path
<1>1. ASSUME NEW path \in Seq(PlainNames), path # <<>> PROVE From(to_string(path)) = path
  <2>1. to_string(path) = Written(path)
    BY <1>1 DEF Written
  <2> QED
    BY <2>1, SplitWritten, NotBlankPath DEF From
<1>2. From(to_string(<<>>)) = <<>>
  <2>1. <<>> \in Text /\ <<>> \in Seq(Text) /\ << <<>> >> \in Seq(Text)
    BY NoToken DEF Text, Tokens
  <2>2. to_string(<<>>) = Append(<<>>, "/")
    BY DEF to_string
  <2>3. Split(Append(<<>>, "/")) = AddChar(<< <<>> >>, "/")
    BY <2>1, SplitAppend, AlphabetAssumption
  <2>4. AddChar(<< <<>> >>, "/") = Append(<< <<>> >>, <<>>)
    BY DEF AddChar
  <2>5. NotBlank(Append(<< <<>> >>, <<>>)) = AddName(NotBlank(<< <<>> >>), <<>>)
    BY <2>1, NotBlankAppend
  <2>6. NotBlank(Append(<<>>, <<>>)) = AddName(NotBlank(<<>>), <<>>) /\ NotBlank(<<>>) = <<>>
    BY <2>1, NotBlankAppend
  <2>7. AddName(<<>>, <<>>) = <<>> /\ Append(<<>>, <<>>) = << <<>> >>
    BY DEF AddName, Blank
  <2> QED
    BY <2>2, <2>3, <2>4, <2>5, <2>6, <2>7 DEF From
<1> QED
  BY <1>1, <1>2

\* A name of one character.
LEMMA LetterPath ==
  ASSUME NEW ch \in Alphabet, ch # "/", ch \notin Whitespace
  PROVE  From(<<"/", ch>>) = << <<ch>> >> /\ <<ch>> \in PlainNames
<1>1. PICK name \in Text : name = <<ch>>
  <2>1. <<ch>> \in Seq(Alphabet)
    OBVIOUS
  <2> QED
    BY <2>1 DEF Text
<1>2. Len(name) = 1 /\ DOMAIN name = 1..1 /\ name[1] = ch
  BY <1>1
<1>3. name \in PlainNames
  <2>1. 1 \in DOMAIN name /\ \A i \in DOMAIN name : i = 1
    BY <1>2
  <2>2. ~Blank(name)
    BY <1>2, <2>1 DEF Blank
  <2>3. \A i \in DOMAIN name : name[i] # "/"
    BY <1>2, <2>1
  <2> QED
    BY <2>2, <2>3 DEF PlainNames, Plain
<1>4. to_string(<<name>>) = <<"/", ch>>
  <2>1. <<>> \in Seq(Text) /\ Append(<<>>, name) = <<name>>
    OBVIOUS
  <2>2. Written(<<name>>) = <<>> \o Segment(name)
    BY <2>1, WrittenAppend
  <2>3. <<>> \o Segment(name) = Segment(name)
    BY SegmentTyped, ConcatEmptySeq DEF Text
  <2>4. PICK slash \in Seq(Alphabet) : slash = <<"/">>
    <3>1. <<"/">> \in Seq(Alphabet)
      BY AlphabetAssumption
    <3> QED
      BY <3>1
  <2>5. Len(slash) = 1 /\ slash[1] = "/"
    BY <2>4
  <2>6. PICK t \in Seq(Alphabet) : t = slash \o name
    BY ConcatProperties DEF Text
  <2>0. name \in Seq(Alphabet)
    BY DEF Text
  <2>7. Len(t) = 2
    <3>1. Len(t) = Len(slash) + Len(name)
      BY <2>0, <2>6, ConcatProperties
    <3> QED
      BY <1>2, <2>5, <3>1
  <2>8. t[1] = "/" /\ t[2] = ch
    <3>1. \A i \in 1..(Len(slash) + Len(name)) :
            (slash \o name)[i] = IF i <= Len(slash) THEN slash[i] ELSE name[i - Len(slash)]
      BY <2>0, ConcatProperties
    <3>2. t[1] = slash[1]
      BY <1>2, <2>5, <2>6, <3>1
    <3>3. t[2] = name[1]
      BY <1>2, <2>5, <2>6, <3>1
    <3> QED
      BY <1>2, <2>5, <3>2, <3>3
  <2>9. t = <<t[1], t[2]>>
    BY <2>7
  <2> QED
    BY <2>2, <2>3, <2>4, <2>6, <2>8, <2>9 DEF Written, Segment
<1>5. <<name>> \in Seq(PlainNames)
  BY <1>3
<1> QED
  BY <1>1, <1>3, <1>4, <1>5, RoundTrip

-----------------------------------------------------------------------------
(* Who is above whom.                                                      *)

LEMMA PrefixConcat ==
  ASSUME NEW S, NEW s \in Seq(S), NEW t \in Seq(S)
  PROVE  IsPrefix(s, t) <=> \E u \in Seq(S) : t = s \o u
<1>1. PICK m \in Nat : m = Len(s)
  BY LenProperties
<1>2. PICK n \in Nat : n = Len(t)
  BY LenProperties
<1>3. SubSeq(s, 1, m) = s
  BY <1>1, SubSeqFull
<1>4. ASSUME IsPrefix(s, t) PROVE \E u \in Seq(S) : t = s \o u
  <2>1. m <= n /\ SubSeq(t, 1, m) = s
    BY <1>1, <1>2, <1>3, <1>4 DEF IsPrefix
  <2>2. PICK u \in Seq(S) : u = SubSeq(t, m + 1, n)
    <3>1. PICK k \in 1..(Len(t) + 1) : k = m + 1 /\ n \in (k - 1)..Len(t)
      BY <1>2, <2>1
    <3>2. SubSeq(t, k, n) \in Seq(S)
      BY <3>1, SubSeqProperties
    <3> QED
      BY <3>1, <3>2
  <2>3. SubSeq(t, 1, m) \o SubSeq(t, m + 1, n) = SubSeq(t, 1, n)
    <3>1. 1 \in 1..(Len(t) + 1) /\ m \in (1 - 1)..Len(t) /\ n \in m..Len(t)
      BY <1>2, <2>1
    <3> QED
      BY <3>1, ConcatAdjacentSubSeq
  <2>4. SubSeq(t, 1, n) = t
    BY <1>2, SubSeqFull
  <2> QED
    BY <2>1, <2>2, <2>3, <2>4
<1>5. ASSUME NEW u \in Seq(S), t = s \o u PROVE IsPrefix(s, t)
  <2>1. Len(t) = Len(s) + Len(u) /\ Len(u) \in Nat
    BY <1>5, ConcatProperties, LenProperties
  <2>2. SubSeq(t, 1, m) = SubSeq(s, 1, m)
    <3>1. 1 \in 1..(Len(s) + 1) /\ m \in (1 - 1)..Len(s)
      BY <1>1
    <3> QED
      BY <3>1, <1>5, SubSeqOfConcat1
  <2> QED
    BY <1>1, <1>2, <2>1, <2>2 DEF IsPrefix
<1> QED
  BY <1>4, <1>5

LEMMA PrefixAppend ==
  ASSUME NEW S, NEW s \in Seq(S), NEW t \in Seq(S), NEW e \in S
  PROVE  /\ IsStrictPrefix(s, Append(t, e)) <=> IsPrefix(s, t)
         /\ IsPrefix(s, t) <=> s = t \/ IsStrictPrefix(s, t)
<1>1. PICK m \in Nat : m = Len(s) /\ SubSeq(s, 1, m) = s
  BY LenProperties, SubSeqFull
<1>2. PICK n \in Nat : n = Len(t) /\ SubSeq(t, 1, n) = t
  BY LenProperties, SubSeqFull
<1>3. PICK v \in Seq(S) : v = Append(t, e)
  BY AppendProperties
<1>4. Len(v) = n + 1 /\ SubSeq(v, 1, n + 1) = v
  BY <1>2, <1>3, AppendProperties, SubSeqFull
<1>5. \A k \in 0..n : SubSeq(v, 1, k) = SubSeq(t, 1, k)
  <2>1. <<e>> \in Seq(S) /\ v = t \o <<e>>
    BY <1>3, AppendIsConcat
  <2>2. ASSUME NEW k \in 0..n PROVE SubSeq(v, 1, k) = SubSeq(t, 1, k)
    <3>1. 1 \in 1..(Len(t) + 1) /\ k \in (1 - 1)..Len(t)
      BY <1>2
    <3> QED
      BY <2>1, <3>1, SubSeqOfConcat1
  <2> QED
    BY <2>2
<1>6. IsPrefix(s, t) => IsPrefix(s, v) /\ s # v
  BY <1>1, <1>2, <1>4, <1>5 DEF IsPrefix
<1>7. IsPrefix(s, v) /\ s # v => IsPrefix(s, t)
  <2>1. ASSUME IsPrefix(s, v), s # v PROVE IsPrefix(s, t)
    <3>1. m <= n + 1 /\ s = SubSeq(v, 1, m)
      BY <1>1, <1>4, <2>1 DEF IsPrefix
    <3>2. m # n + 1
      BY <2>1, <3>1, <1>4
    <3>3. m \in 0..n
      BY <3>1, <3>2
    <3>4. s = SubSeq(t, 1, m)
      BY <3>1, <3>3, <1>5
    <3> QED
      BY <1>1, <1>2, <3>3, <3>4 DEF IsPrefix
  <2> QED
    BY <2>1
<1>8. s = t => IsPrefix(s, t)
  BY <1>1, <1>2 DEF IsPrefix
<1> QED
  BY <1>3, <1>6, <1>7, <1>8 DEF IsStrictPrefix

LEMMA WrittenConcat ==
  ASSUME NEW p \in Seq(Text)
  PROVE  \A q \in Seq(Text) : Written(p \o q) = Written(p) \o Written(q)
<1> DEFINE T == {q \in Seq(Text) : Written(p \o q) = Written(p) \o Written(q)}
<1>0. Written(p) \in Seq(Alphabet)
  BY WrittenAppend DEF Text
<1>1. <<>> \in T
  <2>1. p \o <<>> = p /\ Written(p) \o <<>> = Written(p) /\ <<>> \in Seq(Text)
    BY <1>0, ConcatEmptySeq
  <2> QED
    BY <2>1, WrittenAppend
<1>2. ASSUME NEW q \in Seq(Text), NEW name \in Text, q \in T PROVE Append(q, name) \in T
  <2>1. p \o Append(q, name) = Append(p \o q, name) /\ p \o q \in Seq(Text)
    BY ConcatAppend, ConcatProperties
  <2>2. Written(Append(p \o q, name)) = Written(p \o q) \o Segment(name)
    BY <2>1, WrittenAppend
  <2>3. Written(q) \in Seq(Alphabet) /\ Segment(name) \in Seq(Alphabet)
    BY WrittenAppend, SegmentTyped DEF Text
  <2>4. (Written(p) \o Written(q)) \o Segment(name) = Written(p) \o (Written(q) \o Segment(name))
    <3>1. Written(p) \in Text /\ Written(q) \in Text /\ Segment(name) \in Text
      BY <1>0, <2>3 DEF Text
    <3>2. Groups(Written(p), Written(q), Segment(name))
      BY <3>1, TextConcat
    <3> QED
      BY <3>2 DEF Groups
  <2>5. Written(Append(q, name)) = Written(q) \o Segment(name)
    BY WrittenAppend
  <2>6. Append(q, name) \in Seq(Text)
    BY AppendProperties
  <2> QED
    BY <1>2, <2>1, <2>2, <2>4, <2>5, <2>6
<1> HIDE DEF T
<1>3. Seq(Text) \subseteq T
  BY <1>1, <1>2, SeqInduction
<1> QED
  BY <1>3 DEF T

\* What is written of a path that is not empty starts with its first name.
LEMMA WrittenHead ==
  ASSUME NEW q \in Seq(Text), q # <<>>
  PROVE  \E name \in Text, rest \in Seq(Text), w \in Text :
           /\ q = <<name>> \o rest
           /\ w = Written(rest)
           /\ Written(q) = Segment(name) \o w
<1>1. PICK name \in Text : name = Head(q)
  BY HeadTailProperties
<1>2. PICK rest \in Seq(Text) : rest = Tail(q)
  BY HeadTailProperties
<1>3. <<name>> \in Seq(Text)
  OBVIOUS
<1>4. q = <<name>> \o rest
  BY <1>1, <1>2
<1>5. Written(<<name>>) = Segment(name)
  <2>1. <<>> \in Seq(Text) /\ Append(<<>>, name) = <<name>>
    OBVIOUS
  <2>2. Written(Append(<<>>, name)) = Written(<<>>) \o Segment(name)
    BY <2>1, WrittenAppend
  <2>3. <<>> \o Segment(name) = Segment(name)
    BY SegmentTyped, ConcatEmptySeq DEF Text
  <2> QED
    BY <2>1, <2>2, <2>3, WrittenAppend
<1>6. Written(<<name>> \o rest) = Written(<<name>>) \o Written(rest)
  BY <1>3, WrittenConcat
<1>7. Written(rest) \in Text
  BY WrittenAppend
<1> QED
  BY <1>4, <1>5, <1>6, <1>7

\* The tokens before the last one stay as they are.
LEMMA TokensStay ==
  ASSUME NEW s \in Text
  PROVE  \A u \in Text : IsPrefix(Front(Split(s)), Front(Split(s \o u)))
<1> DEFINE T == {u \in Text : IsPrefix(Front(Split(s)), Front(Split(s \o u)))}
<1>0. s \in Seq(Alphabet) /\ \A text \in Text : Split(text) \in Seq(Text) /\ Split(text) # <<>>
  BY SplitAppend DEF Text, Tokens
<1>1. <<>> \in T
  <2>1. s \o <<>> = s /\ <<>> \in Text
    BY <1>0, ConcatEmptySeq DEF Text
  <2>2. PICK f \in Seq(Text) : f = Front(Split(s))
    BY <1>0, FrontLast
  <2>3. IsPrefix(f, f)
    BY PrefixAppend
  <2> QED
    BY <2>1, <2>2, <2>3
<1>2. ASSUME NEW u \in Seq(Alphabet), NEW ch \in Alphabet, u \in T PROVE Append(u, ch) \in T
  <2>1. s \o Append(u, ch) = Append(s \o u, ch) /\ Append(u, ch) \in Text /\ s \o u \in Text
    <3>0. s \in Seq(Alphabet)
      BY <1>0
    <3>1. s \o Append(u, ch) = Append(s \o u, ch)
      BY <3>0, ConcatAppend
    <3>2. Append(u, ch) \in Seq(Alphabet)
      BY AppendProperties
    <3>3. s \o u \in Seq(Alphabet)
      BY <1>0, ConcatProperties
    <3> QED
      BY <3>1, <3>2, <3>3 DEF Text
  <2>2. PICK tokens \in Seq(Text) : tokens = Split(s \o u) /\ tokens # <<>>
    BY <1>0, <2>1
  <2>3. Split(s \o Append(u, ch)) = AddChar(tokens, ch)
    BY <2>1, <2>2, SplitAppend
  <2>4. PICK f \in Seq(Text) : f = Front(Split(s))
    BY <1>0, FrontLast
  <2>5. PICK g \in Seq(Text), name \in Text : g = Front(tokens) /\ tokens = Append(g, name)
    BY <2>2, FrontLast
  <2>6. IsPrefix(f, g)
    BY <1>2, <2>2, <2>4, <2>5
  <2>7. IsPrefix(f, Front(AddChar(tokens, ch)))
    <3>1. CASE ch = "/"
      <4>1. Front(Append(tokens, <<>>)) = tokens
        <5>1. <<>> \in Text
          BY DEF Text
        <5> QED
          BY <5>1, FrontAppend
      <4>2. IsPrefix(f, Append(g, name))
        BY <2>6, PrefixAppend DEF IsStrictPrefix
      <4> QED
        BY <3>1, <4>1, <4>2, <2>5 DEF AddChar
    <3>2. CASE ch # "/"
      <4>1. Last(tokens) = name
        BY <2>5, FrontAppend
      <4>2. Append(name, ch) \in Text
        BY AppendProperties DEF Text
      <4>3. Front(Append(g, Append(name, ch))) = g
        BY <4>2, FrontAppend
      <4> QED
        BY <3>2, <4>1, <4>3, <2>5, <2>6 DEF AddChar
    <3> QED
      BY <3>1, <3>2
  <2> QED
    BY <2>1, <2>3, <2>4, <2>7
<1> HIDE DEF T
<1>3. Seq(Alphabet) \subseteq T
  BY <1>1, <1>2, SeqInduction
<1> QED
  BY <1>3 DEF T, Text

\* Names below each other are above each other as text.
LEMMA PrefixIsAncestor ==
  ASSUME NEW a \in Seq(Text), NEW b \in Seq(Text), a # <<>>, IsStrictPrefix(a, b)
  PROVE  is_ancestor_of(a, b)
<1>1. PICK v \in Seq(Text) : b = a \o v
  BY PrefixConcat DEF IsStrictPrefix
<1>2. v # <<>>
  <2>1. a \o <<>> = a
    BY ConcatEmptySeq
  <2> QED
    BY <1>1, <2>1 DEF IsStrictPrefix
<1>3. PICK name \in Text, w \in Text : Written(v) = Segment(name) \o w
  BY <1>2, WrittenHead
<1>4. PICK wa \in Seq(Alphabet) : wa = Written(a)
  BY WrittenAppend DEF Text
<1>5. name \in Seq(Alphabet) /\ w \in Seq(Alphabet) /\ <<"/">> \in Seq(Alphabet)
  BY AlphabetAssumption DEF Text
<1>6. Written(b) = wa \o ((<<"/">> \o name) \o w)
  BY <1>1, <1>3, <1>4, WrittenConcat DEF Segment
<1>7. wa \o ((<<"/">> \o name) \o w) = (wa \o <<"/">>) \o (name \o w)
  <2>1. PICK slash \in Text : slash = <<"/">>
    BY <1>5 DEF Text
  <2>2. wa \in Text
    BY DEF Text
  <2>3. Regroups(wa, slash, name, w)
    BY <2>2, TextRegroup
  <2> QED
    BY <2>1, <2>3, Zenon DEF Regroups
<1>8. b # <<>>
  BY <1>1, <1>2, ConcatProperties, LenProperties, EmptySeq
<1>9. to_string(a) = wa /\ to_string(b) = Written(b)
  BY <1>4, <1>8 DEF Written
<1>10. wa \o <<"/">> \in Seq(Alphabet) /\ name \o w \in Seq(Alphabet)
  BY <1>5, ConcatProperties
<1>11. Written(b) \in Seq(Alphabet)
  BY WrittenAppend DEF Text
<1>12. IsPrefix(wa \o <<"/">>, Written(b))
  BY <1>6, <1>7, <1>10, <1>11, PrefixConcat
<1> QED
  BY <1>9, <1>12 DEF is_ancestor_of

\* A text that starts with "//" is of no path, and "/" of the empty one.
LEMMA EmptyIsNoAncestor ==
  ASSUME NEW b \in Seq(PlainNames)
  PROVE  ~is_ancestor_of(<<>>, b)
<1> SUFFICES ASSUME is_ancestor_of(<<>>, b) PROVE FALSE
  OBVIOUS
<1>1. b \in Seq(Text)
  BY PlainTyped
<1>2. PICK x \in Seq(Alphabet) : x = <<"/">> \o <<"/">> /\ Len(x) = 2 /\ x[2] = "/"
  <2>1. <<"/">> \in Seq(Alphabet)
    BY AlphabetAssumption
  <2>2. PICK slash \in Seq(Alphabet) : slash = <<"/">> /\ Len(slash) = 1 /\ slash[1] = "/"
    BY <2>1
  <2>3. PICK x \in Seq(Alphabet) : x = slash \o slash
    BY ConcatProperties
  <2>4. Len(x) = 2
    BY <2>2, <2>3
  <2>5. x[2] = "/"
    BY <2>2, <2>3
  <2> QED
    BY <2>2, <2>3, <2>4, <2>5
<1>3. IsPrefix(x, to_string(b))
  BY <1>2 DEF is_ancestor_of, to_string
<1>4. CASE b = <<>>
  <2>1. PICK slash \in Seq(Alphabet) : slash = <<"/">> /\ Len(slash) = 1
    <3>1. <<"/">> \in Seq(Alphabet)
      BY AlphabetAssumption
    <3> QED
      BY <3>1
  <2>2. to_string(b) = slash
    BY <1>4, <2>1 DEF to_string
  <2>3. IsPrefix(x, slash)
    BY <1>3, <2>2
  <2>4. Len(x) = 2
    BY <1>2
  <2>5. Len(slash) = 1
    BY <2>1
  <2>6. Len(x) <= Len(slash)
    BY <2>3 DEF IsPrefix
  <2> QED
    BY <2>4, <2>5, <2>6
<1>5. CASE b # <<>>
  <2>1. PICK name \in Text, rest \in Seq(Text), w \in Text :
          /\ b = <<name>> \o rest
          /\ w = Written(rest)
          /\ Written(b) = Segment(name) \o w
    BY <1>1, <1>5, WrittenHead
  <2>2. name = b[1]
    BY <2>1
  <2>3. name \in PlainNames
    <3>1. 1 \in 1..Len(b)
      BY <1>5, LenProperties, EmptySeq
    <3> QED
      BY <2>2, <3>1, ElementOfSeq
  <2>4. name # <<>> /\ NoSlash(name)
    <3>1. NoSlash(name) /\ ~Blank(name)
      BY <2>3, PlainTyped
    <3>2. Blank(<<>>)
      <4>1. DOMAIN <<>> = {}
        OBVIOUS
      <4> QED
        BY <4>1 DEF Blank
    <3> QED
      BY <3>1, <3>2
  <2>5. PICK n \in Nat : n = Len(name) /\ n >= 1 /\ DOMAIN name = 1..n
    BY <2>4, LenProperties, EmptySeq DEF Text
  <2>6. PICK t \in Seq(Alphabet) : t = Written(b)
    BY <1>1, WrittenAppend DEF Text
  <2>7. t[2] = name[1]
    <3>1. PICK seg \in Seq(Alphabet) : seg = Segment(name)
      BY SegmentTyped DEF Text
    <3>2. Len(seg) = n + 1 /\ seg[2] = name[1]
      BY <3>1, <2>5 DEF Segment, Text
    <3>3. t = seg \o w /\ w \in Seq(Alphabet)
      BY <3>1, <2>1, <2>6 DEF Text
    <3> QED
      BY <3>2, <3>3, <2>5, ConcatProperties
  <2>8. name[1] # "/"
    BY <2>4, <2>5 DEF NoSlash
  <2>9. t = to_string(b)
    BY <1>5, <2>6 DEF Written
  <2>10. SubSeq(x, 1, 2) = SubSeq(t, 1, 2) /\ 2 <= Len(t)
    BY <1>2, <1>3, <2>9 DEF IsPrefix
  <2>11. SubSeq(t, 1, 2)[2] = t[2] /\ SubSeq(x, 1, 2)[2] = "/"
    BY <1>2, <2>10
  <2> QED
    BY <2>7, <2>8, <2>10, <2>11
<1> QED
  BY <1>4, <1>5

LEMMA AncestorIsPrefix ==
  ASSUME NEW a \in Seq(PlainNames), NEW b \in Seq(PlainNames), is_ancestor_of(a, b)
  PROVE  a # <<>> /\ IsStrictPrefix(a, b)
<1>1. a # <<>>
  BY EmptyIsNoAncestor
<1>2. a \in Seq(Text) /\ b \in Seq(Text)
  BY PlainTyped
<1>3. PICK s \in Text : s = Written(a) /\ s = to_string(a)
  BY <1>1, <1>2, WrittenAppend DEF Written
<1>4. b # <<>>
  <2> SUFFICES ASSUME b = <<>> PROVE FALSE
    OBVIOUS
  <2>1. to_string(b) = <<"/">>
    BY DEF to_string
  <2>2. PICK name \in Text, w \in Text : s = Segment(name) \o w
    <3>1. PICK name \in Text, rest \in Seq(Text), w \in Text :
            Written(a) = Segment(name) \o w
      BY <1>1, <1>2, WrittenHead
    <3> QED
      BY <3>1, <1>3
  <2>3. Len(s) >= 1
    <3>1. Segment(name) \in Seq(Alphabet) /\ w \in Seq(Alphabet)
      BY SegmentTyped DEF Text
    <3>2. Len(Segment(name)) >= 1
      BY DEF Segment, Text
    <3> QED
      BY <2>2, <3>1, <3>2, ConcatProperties, LenProperties
  <2>4. Len(s \o <<"/">>) = Len(s) + 1
    BY DEF Text
  <2>5. Len(s) \in Nat
    BY LenProperties DEF Text
  <2>6. Len(s \o <<"/">>) <= 1
    BY <1>3, <2>1 DEF is_ancestor_of, IsPrefix
  <2> QED
    BY <2>3, <2>4, <2>5, <2>6
<1>5. PICK t \in Text : t = Written(b) /\ t = to_string(b)
  BY <1>2, <1>4, WrittenAppend DEF Written
<1>6. s \o <<"/">> = Append(s, "/") /\ Append(s, "/") \in Text
  BY AlphabetAssumption, AppendIsConcat, AppendProperties DEF Text
<1>7. PICK u \in Text : t = Append(s, "/") \o u
  <2>1. PICK q \in Seq(Alphabet) : q = Append(s, "/")
    BY <1>6 DEF Text
  <2>2. IsPrefix(q, t) /\ t \in Seq(Alphabet)
    BY <1>3, <1>5, <1>6, <2>1 DEF is_ancestor_of, Text
  <2>3. \E u \in Seq(Alphabet) : t = q \o u
    BY <2>2, PrefixConcat
  <2> QED
    BY <2>1, <2>3 DEF Text
<1>8. IsPrefix(Front(Split(Append(s, "/"))), Front(Split(t)))
  BY <1>6, <1>7, TokensStay
<1> DEFINE none == << <<>> >>
<1>9. none \in Seq(Text) /\ <<>> \in Text
  BY NoToken DEF Tokens, Text
<1>10. Front(Split(Append(s, "/"))) = none \o a
  <2>1. Split(Append(s, "/")) = AddChar(none \o a, "/")
    BY <1>3, SplitAppend, SplitWritten, AlphabetAssumption
  <2>2. AddChar(none \o a, "/") = Append(none \o a, <<>>)
    BY DEF AddChar
  <2>3. none \o a \in Seq(Text)
    BY <1>2, <1>9, ConcatProperties
  <2> QED
    BY <1>9, <2>1, <2>2, <2>3, FrontAppend
<1>11. Split(t) = none \o b
  BY <1>5, SplitWritten
<1>12. PICK c \in Seq(Text), name \in Text : b = Append(c, name)
  BY <1>2, <1>4, SequenceEmptyOrAppend
<1>13. Front(none \o b) = none \o c
  <2>1. none \o b = Append(none \o c, name) /\ none \o c \in Seq(Text)
    BY <1>9, <1>12, ConcatAppend, ConcatProperties
  <2> QED
    BY <2>1, FrontAppend
<1> HIDE DEF none
<1>14. PICK v \in Seq(Text) : none \o c = (none \o a) \o v
  <2>1. IsPrefix(none \o a, none \o c)
    BY <1>8, <1>10, <1>11, <1>13
  <2>2. PICK p \in Seq(Text) : p = none \o a
    BY <1>2, <1>9, ConcatProperties
  <2>3. PICK q \in Seq(Text) : q = none \o c
    BY <1>9, ConcatProperties
  <2>4. IsPrefix(p, q)
    BY <2>1, <2>2, <2>3
  <2>5. \E v \in Seq(Text) : q = p \o v
    BY <2>4, PrefixConcat
  <2> QED
    BY <2>2, <2>3, <2>5
<1>15. c = a \o v
  <2>1. (none \o a) \o v = none \o (a \o v)
    <3>1. Groups(none, a, v)
      BY <1>2, <1>9, TextConcat
    <3> QED
      BY <3>1 DEF Groups
  <2>2. PICK q \in Seq(Text) : q = a \o v
    BY <1>2, ConcatProperties
  <2>3. none \o c = none \o q
    BY <1>14, <2>1, <2>2
  <2> QED
    BY <2>2, <2>3, <1>9, ConcatSimplifications
<1>16. IsPrefix(a, c)
  BY <1>2, <1>15, PrefixConcat
<1>17. IsStrictPrefix(a, b)
  BY <1>2, <1>12, <1>16, PrefixAppend
<1> QED
  BY <1>1, <1>17

\* is_ancestor_of() compares text and means names.
LEMMA AncestorText ==
  ASSUME NEW a \in Seq(PlainNames), NEW b \in Seq(PlainNames)
  PROVE  is_ancestor_of(a, b) <=> ~is_empty(a) /\ IsStrictPrefix(a, b)
<1>1. a \in Seq(Text) /\ b \in Seq(Text)
  BY PlainTyped
<1> QED
  BY <1>1, AncestorIsPrefix, PrefixIsAncestor DEF is_empty

LEMMA AncestorLevels ==
  ASSUME NEW a \in Seq(Text), NEW b \in Seq(Text), a # <<>>, IsStrictPrefix(a, b)
  PROVE  at_level(b, level(a)) = a /\ root(b) = root(a)
<1>1. PICK m \in Nat : m = Len(a) /\ m >= 1 /\ SubSeq(a, 1, m) = a
  BY LenProperties, EmptySeq, SubSeqFull
<1>2. PICK v \in Seq(Text) : b = a \o v
  BY PrefixConcat DEF IsStrictPrefix
<1>3. v # <<>>
  <2>1. a \o <<>> = a
    BY ConcatEmptySeq
  <2> QED
    BY <1>2, <2>1 DEF IsStrictPrefix
<1>4. Len(b) = m + Len(v) /\ Len(v) \in Nat /\ Len(v) # 0
  BY <1>1, <1>2, <1>3, ConcatProperties, LenProperties, EmptySeq
<1>5. b # <<>>
  BY <1>1, <1>4
<1>6. \A k \in 1..m : SubSeq(b, 1, k) = SubSeq(a, 1, k)
  BY <1>1, <1>2, SubSeqOfConcat1
<1>7. SubSeq(b, 1, m) = a /\ SubSeq(b, 1, 1) = SubSeq(a, 1, 1)
  BY <1>1, <1>6
<1>8. at_level(b, m) = a
  BY <1>1, <1>4, <1>7 DEF at_level, level
<1>9. root(b) = root(a)
  BY <1>5, <1>7 DEF root
<1> QED
  BY <1>1, <1>8, <1>9 DEF level

LEMMA ParentIsPrefix ==
  ASSUME NEW a \in Seq(Text), NEW b \in Seq(Text), a # <<>>
  PROVE  is_parent_of(a, b) <=> IsStrictPrefix(a, b) /\ level(a) + 1 = level(b)
<1>1. PICK m \in Nat : m = Len(a) /\ m >= 1 /\ SubSeq(a, 1, m) = a
  BY LenProperties, EmptySeq, SubSeqFull
<1>2. PICK n \in Nat : n = Len(b)
  BY LenProperties
<1>3. ASSUME is_parent_of(a, b) PROVE IsStrictPrefix(a, b) /\ m + 1 = n
  <2>1. n > 1 /\ a = Front(b)
    BY <1>2, <1>3 DEF is_parent_of, parent
  <2>2. PICK name \in Text : b = Append(a, name)
    <3>1. b # <<>>
      BY <1>2, <2>1
    <3> QED
      BY <2>1, <3>1, FrontLast
  <2>3. IsStrictPrefix(a, b)
    BY <2>2, PrefixAppend
  <2>4. n = m + 1
    BY <1>1, <1>2, <2>2, AppendProperties
  <2> QED
    BY <2>3, <2>4
<1>4. ASSUME IsStrictPrefix(a, b), m + 1 = n PROVE is_parent_of(a, b)
  <2>1. a = SubSeq(b, 1, m) /\ n > 1 /\ m = n - 1
    BY <1>1, <1>4 DEF IsStrictPrefix, IsPrefix
  <2>2. Front(b) = SubSeq(b, 1, m)
    BY <1>2, <2>1 DEF Front
  <2> QED
    BY <1>2, <2>1, <2>2 DEF is_parent_of, parent
<1> QED
  BY <1>1, <1>2, <1>3, <1>4 DEF level

\* The operations on paths, which compare and split text (path.rs:41-67, 78-140), mean
\* what they say about names, for every alphabet with a "/" in it, every number of
\* names and every length of them, as long as names are not blank and hold no "/".
THEOREM TextCorrect == \A path, other \in Seq(PlainNames) : TextMeansNames(path, other)
<1> SUFFICES ASSUME NEW path \in Seq(PlainNames), NEW other \in Seq(PlainNames)
             PROVE  TextMeansNames(path, other)
  OBVIOUS
<1>1. path \in Seq(Text) /\ other \in Seq(Text)
  BY PlainTyped
<1>2. From(to_string(path)) = path
  BY RoundTrip
<1>3. is_ancestor_of(other, path) <=> ~is_empty(other) /\ IsStrictPrefix(other, path)
  BY AncestorText
<1>4. is_descendant_of(path, other) <=> is_ancestor_of(other, path)
  BY DEF is_descendant_of, is_ancestor_of
<1>5. is_ancestor_of(other, path) =>
        at_level(path, level(other)) = other /\ root(path) = root(other)
  BY <1>1, <1>3, AncestorLevels DEF is_empty
<1>6. is_parent_of(other, path) /\ ~is_empty(other) <=>
        is_ancestor_of(other, path) /\ level(other) + 1 = level(path)
  BY <1>1, <1>3, ParentIsPrefix DEF is_empty
<1> QED
  BY <1>2, <1>3, <1>4, <1>5, <1>6 DEF TextMeansNames
=============================================================================
