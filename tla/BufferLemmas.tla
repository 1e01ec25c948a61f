---------------------------- MODULE BufferLemmas ----------------------------
(* What Append, Tail and concatenation do to the elements of a queue.      *)
EXTENDS Buffers, TLAPS

-----------------------------------------------------------------------------
(* Elements.                                                               *)

\* What the elements of a sequence become when one is added or taken.
LEMMA ElementsAppend ==
  ASSUME NEW S, NEW s \in Seq(S), NEW e \in S
  PROVE  Elements(Append(s, e)) = Elements(s) \cup {e}
<1>1. ASSUME NEW x \in Elements(Append(s, e)) PROVE x \in Elements(s) \cup {e}
  BY <1>1 DEF Elements
<1>2. ASSUME NEW x \in Elements(s) PROVE x \in Elements(Append(s, e))
  <2>1. PICK i \in DOMAIN s : x = s[i]
    BY <1>2 DEF Elements
  <2>2. i \in DOMAIN Append(s, e) /\ Append(s, e)[i] = x
    BY <2>1
  <2> QED
    BY <2>2 DEF Elements
<1>3. e \in Elements(Append(s, e))
  <2>1. Len(s) + 1 \in DOMAIN Append(s, e) /\ Append(s, e)[Len(s) + 1] = e
    OBVIOUS
  <2> QED
    BY <2>1 DEF Elements
<1> QED
  BY <1>1, <1>2, <1>3

LEMMA ElementsTail ==
  ASSUME NEW S, NEW s \in Seq(S), s # <<>>
  PROVE  Elements(s) = {Head(s)} \cup Elements(Tail(s))
<1>1. ASSUME NEW x \in Elements(s) PROVE x \in {Head(s)} \cup Elements(Tail(s))
  <2>1. PICK i \in 1..Len(s) : x = s[i]
    BY <1>1 DEF Elements
  <2>2. CASE i = 1
    BY <2>1, <2>2
  <2>3. CASE i # 1
    <3>1. Tail(s) \in Seq(S) /\ Len(Tail(s)) = Len(s) - 1
      OBVIOUS
    <3>2. i - 1 \in 1..Len(Tail(s))
      BY <2>1, <2>3, <3>1
    <3>3. Tail(s)[i - 1] = s[(i - 1) + 1]
      BY <3>1, <3>2
    <3>4. Tail(s)[i - 1] = x /\ i - 1 \in DOMAIN Tail(s)
      BY <2>1, <3>1, <3>2, <3>3
    <3> QED
      BY <3>4 DEF Elements
  <2> QED
    BY <2>2, <2>3
<1>2. ASSUME NEW x \in Elements(Tail(s)) PROVE x \in Elements(s)
  <2>1. PICK i \in 1..Len(Tail(s)) : x = Tail(s)[i]
    BY <1>2 DEF Elements
  <2>2. i + 1 \in 1..Len(s) /\ s[i + 1] = x
    BY <2>1
  <2> QED
    BY <2>2 DEF Elements
<1>3. Head(s) \in Elements(s)
  <2>1. 1 \in DOMAIN s /\ Head(s) = s[1]
    OBVIOUS
  <2> QED
    BY <2>1 DEF Elements
<1> QED
  BY <1>1, <1>2, <1>3

LEMMA ElementsConcat ==
  ASSUME NEW S, NEW s \in Seq(S), NEW r \in Seq(S)
  PROVE  Elements(s \o r) = Elements(s) \cup Elements(r)
<1>1. ASSUME NEW x \in Elements(s \o r) PROVE x \in Elements(s) \cup Elements(r)
  <2>1. PICK i \in 1..(Len(s) + Len(r)) : x = (s \o r)[i]
    BY <1>1 DEF Elements
  <2>2. CASE i <= Len(s)
    BY <2>1, <2>2 DEF Elements
  <2>3. CASE i > Len(s)
    <3>1. i - Len(s) \in DOMAIN r /\ x = r[i - Len(s)]
      BY <2>1, <2>3
    <3> QED
      BY <3>1 DEF Elements
  <2> QED
    BY <2>2, <2>3
<1>2. ASSUME NEW x \in Elements(s) PROVE x \in Elements(s \o r)
  <2>1. PICK i \in 1..Len(s) : x = s[i]
    BY <1>2 DEF Elements
  <2>2. i \in DOMAIN (s \o r) /\ (s \o r)[i] = x
    BY <2>1
  <2> QED
    BY <2>2 DEF Elements
<1>3. ASSUME NEW x \in Elements(r) PROVE x \in Elements(s \o r)
  <2>1. PICK i \in 1..Len(r) : x = r[i]
    BY <1>3 DEF Elements
  <2>2. Len(s) + i \in DOMAIN (s \o r) /\ (s \o r)[Len(s) + i] = x
    BY <2>1
  <2> QED
    BY <2>2 DEF Elements
<1> QED
  BY <1>1, <1>2, <1>3

-----------------------------------------------------------------------------
(* Sequences without duplicates.                                           *)

LEMMA DistinctTail ==
  ASSUME NEW S, NEW s \in Seq(S), s # <<>>, Distinct(s)
  PROVE  Distinct(Tail(s)) /\ Head(s) \notin Elements(Tail(s))
<1>1. /\ Tail(s) \in Seq(S) /\ Len(Tail(s)) = Len(s) - 1
      /\ \A i \in 1..Len(Tail(s)) : Tail(s)[i] = s[i + 1]
  OBVIOUS
<1>2. Distinct(Tail(s))
  BY <1>1 DEF Distinct
<1>3. \A i \in 1..Len(Tail(s)) : Tail(s)[i] # s[1]
  BY <1>1 DEF Distinct
<1>4. Head(s) \notin Elements(Tail(s))
  BY <1>1, <1>3 DEF Elements
<1> QED
  BY <1>2, <1>4

LEMMA DistinctAppend ==
  ASSUME NEW S, NEW s \in Seq(S), NEW e \in S, Distinct(s), e \notin Elements(s)
  PROVE  Distinct(Append(s, e))
BY DEF Distinct, Elements

LEMMA DistinctConcat ==
  ASSUME NEW S, NEW s \in Seq(S), NEW r \in Seq(S),
         Distinct(s), Distinct(r), Elements(s) \cap Elements(r) = {}
  PROVE  Distinct(s \o r)
<1> SUFFICES ASSUME NEW i \in 1..(Len(s) + Len(r)), NEW j \in 1..(Len(s) + Len(r)),
                    (s \o r)[i] = (s \o r)[j]
             PROVE  i = j
  BY DEF Distinct
<1>1. \A k \in 1..(Len(s) + Len(r)) :
        /\ k <= Len(s) => (s \o r)[k] = s[k] /\ s[k] \in Elements(s)
        /\ k > Len(s) => /\ k - Len(s) \in DOMAIN r
                         /\ (s \o r)[k] = r[k - Len(s)]
                         /\ r[k - Len(s)] \in Elements(r)
  BY DEF Elements
<1>2. CASE i <= Len(s) /\ j <= Len(s)
  BY <1>1, <1>2 DEF Distinct
<1>3. CASE i > Len(s) /\ j > Len(s)
  <2>1. i - Len(s) = j - Len(s)
    BY <1>1, <1>3 DEF Distinct
  <2> QED
    BY <2>1
<1>4. CASE (i <= Len(s) /\ j > Len(s)) \/ (i > Len(s) /\ j <= Len(s))
  BY <1>1, <1>4
<1>5. Len(s) \in Nat /\ i \in Nat /\ j \in Nat
  OBVIOUS
<1> QED
  BY <1>2, <1>3, <1>4, <1>5
=============================================================================
