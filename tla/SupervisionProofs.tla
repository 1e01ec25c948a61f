-------------------------- MODULE SupervisionProofs --------------------------
(***************************************************************************)
(* The tree of actors for every number of actors and stops, any message    *)
(* types and any names.                                                    *)
(***************************************************************************)
EXTENDS Supervision, PathProofs

USE SupervisionAssumption DEF SupervisionAssumption, Actors, Nobody, Born

-----------------------------------------------------------------------------
(* Names.                                                                  *)

\* "/user" is a path of one name.
LEMMA UserPathIs == UserPath = << <<"u">> >> /\ <<"u">> \in PlainNames
<1>1. "u" \in Alphabet /\ "u" # "/" /\ "u" \notin Whitespace
  OBVIOUS
<1> QED
  BY <1>1, LetterPath DEF UserPath

Base == Len(Chars)

LEMMA Quotient ==
  ASSUME NEW l \in Nat, NEW n \in Nat, n >= 2
  PROVE  /\ l \div n \in Nat /\ l % n \in 0..(n - 1) /\ l = n * (l \div n) + (l % n)
         /\ l >= n => l \div n < l
<1>1. l \div n \in Nat
  OBVIOUS
<1>2. l % n \in 0..(n - 1)
  OBVIOUS
<1>3. l = n * (l \div n) + (l % n)
  OBVIOUS
<1>4. l >= n => l \div n < l
  OBVIOUS
<1> QED
  BY <1>1, <1>2, <1>3, <1>4

LEMMA DigitTyped ==
  \A l \in Nat : /\ Digit(l) \in Text /\ Len(Digit(l)) = 1
                /\ Digit(l)[1] = Chars[(l % Base) + 1] /\ (l % Base) + 1 \in 1..Base
<1>1. Base \in Nat /\ Base >= 2 /\ DOMAIN Chars = 1..Base /\ \A i \in 1..Base : Chars[i] \in Alphabet
  BY DEF Base, Text
<1>2. ASSUME NEW l \in Nat
      PROVE  /\ Digit(l) \in Text /\ Len(Digit(l)) = 1
             /\ Digit(l)[1] = Chars[(l % Base) + 1] /\ (l % Base) + 1 \in 1..Base
  <2>1. l % Base \in 0..(Base - 1)
    BY <1>1, Quotient
  <2>2. PICK i \in 1..Base : i = (l % Base) + 1
    BY <1>1, <2>1
  <2>3. Digit(l) = <<Chars[i]>> /\ Chars[i] \in Alphabet
    BY <1>1, <2>2 DEF Digit, Base
  <2> QED
    BY <2>2, <2>3 DEF Text
<1> QED
  BY <1>2

\* What base64() computes.
LEMMA Base64Is ==
  /\ base64 \in [Nat -> Text]
  /\ \A l \in Nat :
       base64[l] = IF l < Base THEN Digit(l) ELSE Digit(l) \o base64[l \div Base]
<1>1. Base \in Nat /\ Base >= 2
  BY DEF Base, Text
<1>2. \A l \in Nat : Digit(l) \in Text
  BY DigitTyped
<1>3. \A s, t \in Text : s \o t \in Text
  BY ConcatProperties DEF Text
<1>4. \A l \in Nat : l \div Base \in Nat /\ (l >= Base => l \div Base < l)
  BY <1>1, Quotient
<1> DEFINE Step(f) == [l \in Nat |-> IF l < Base THEN Digit(l)
                                                 ELSE Digit(l) \o f[l \div Base]]
           F == [f \in [Nat -> Text] |-> Step(f)]
<1>5. \A f \in [Nat -> Text] : Step(f) \in [Nat -> Text]
  <2>1. ASSUME NEW f \in [Nat -> Text], NEW l \in Nat PROVE Digit(l) \o f[l \div Base] \in Text
    BY <1>2, <1>3, <1>4
  <2> QED
    BY <1>2, <2>1
<1>6. F \in [[Nat -> Text] -> [Nat -> Text]]
  BY <1>5
<1>7. Descends(F, Nat, Text)
  <2>1. ASSUME NEW f \in [Nat -> Text], NEW g \in [Nat -> Text], NEW n \in Nat,
               \A m \in Nat : m < n => f[m] = g[m]
        PROVE  F[f][n] = F[g][n]
    <3>1. ~(n < Base) => f[n \div Base] = g[n \div Base]
      BY <1>1, <1>4, <2>1
    <3> QED
      BY <3>1
  <2> HIDE DEF F
  <2> QED
    BY <2>1 DEF Descends
<1>8. PICK g \in [Nat -> Text] : F[g] = g
  <2>1. Text # {}
    BY <1>2
  <2>2. Nat \in SUBSET Nat
    OBVIOUS
  <2> HIDE DEF F
  <2>3. Solvable(F, Nat, Text)
    BY <2>1, <2>2, <1>6, <1>7, Solution
  <2> QED
    BY <2>3 DEF Solvable
<1>9. g = [l \in Nat |-> IF l < Base THEN Digit(l) ELSE Digit(l) \o g[l \div Base]]
  BY <1>8
<1>10. base64 = [l \in Nat |-> IF l < Base THEN Digit(l) ELSE Digit(l) \o base64[l \div Base]]
  BY <1>9, Zenon DEF base64, Base
<1>11. \A l \in Nat :
         base64[l] = IF l < Base THEN Digit(l) ELSE Digit(l) \o base64[l \div Base]
  BY <1>10
<1> DEFINE bad == {l \in Nat : base64[l] \notin Text}
<1>12. ASSUME bad # {} PROVE FALSE
  <2>1. PICK l \in bad : \A m \in bad : l <= m
    <3>1. bad \in SUBSET Nat
      OBVIOUS
    <3> HIDE DEF bad
    <3> QED
      BY <3>1, <1>12, LeastElement
  <2>2. l \in Nat /\ base64[l] \notin Text
    BY <2>1
  <2>3. PICK m \in Nat : m = l \div Base /\ (l >= Base => m < l)
    BY <1>4, <2>2
  <2>4. ~(l < Base)
    BY <1>2, <1>11, <2>2
  <2>5. m < l
    BY <1>1, <2>2, <2>3, <2>4
  <2>6. base64[m] \in Text
    BY <2>1, <2>2, <2>5
  <2>7. base64[l] = Digit(l) \o base64[m]
    BY <1>11, <2>2, <2>3, <2>4
  <2> QED
    BY <1>2, <1>3, <2>2, <2>6, <2>7
<1> QED
  <2>1. \A l \in Nat : base64[l] \in Text
    BY <1>12
  <2>2. base64 \in [Nat -> Text]
    BY <2>1, <1>10, Zenon
  <2> QED
    BY <1>11, <2>2

\* The lowest digit comes first.
LEMMA Base64Head ==
  ASSUME NEW l \in Nat
  PROVE  /\ base64[l] \in Text /\ Len(base64[l]) >= 1
         /\ base64[l][1] = Chars[(l % Base) + 1]
         /\ l < Base => Len(base64[l]) = 1
<1>1. Base \in Nat /\ Base >= 2
  BY DEF Base, Text
<1>2. PICK d \in Text : d = Digit(l) /\ Len(d) = 1 /\ d[1] = Chars[(l % Base) + 1]
  BY DigitTyped
<1>3. CASE l < Base
  <2>1. base64[l] = d
    BY <1>2, <1>3, Base64Is
  <2>2. Len(d) >= 1
    BY <1>2
  <2> QED
    BY <1>2, <2>1, <2>2
<1>4. CASE ~(l < Base)
  <2>1. PICK r \in Text : r = base64[l \div Base]
    BY <1>1, Quotient, Base64Is
  <2>2. base64[l] = d \o r
    BY <1>2, <1>4, <2>1, Base64Is
  <2>3. PICK k \in Nat : k = Len(r)
    BY LenProperties DEF Text
  <2>4. /\ d \o r \in Seq(Alphabet) /\ Len(d \o r) = Len(d) + Len(r)
        /\ \A i \in 1..(Len(d) + Len(r)) :
             (d \o r)[i] = IF i <= Len(d) THEN d[i] ELSE r[i - Len(d)]
    BY ConcatProperties DEF Text
  <2>5. (d \o r)[1] = d[1]
    BY <1>2, <2>3, <2>4
  <2>6. Len(d \o r) >= 1
    BY <1>2, <2>3, <2>4
  <2> QED
    BY <1>2, <1>4, <2>2, <2>4, <2>5, <2>6 DEF Text
<1> QED
  BY <1>3, <1>4

\* From one digit on, the rest is the text of the quotient.
LEMMA Base64Rest ==
  ASSUME NEW l \in Nat, l >= Base
  PROVE  /\ l \div Base \in Nat /\ l \div Base < l
         /\ base64[l] = Digit(l) \o base64[l \div Base]
         /\ Len(base64[l]) >= 2
<1>1. Base \in Nat /\ Base >= 2
  BY DEF Base, Text
<1>2. PICK m \in Nat : m = l \div Base /\ m < l
  BY <1>1, Quotient
<1>3. base64[l] = Digit(l) \o base64[m]
  <2>1. ~(l < Base)
    BY <1>1
  <2> QED
    BY <1>2, <2>1, Base64Is
<1>4. PICK d \in Text : d = Digit(l) /\ Len(d) = 1
  BY DigitTyped
<1>5. PICK r \in Text : r = base64[m] /\ Len(r) >= 1
  BY Base64Head
<1>6. Len(d \o r) = Len(d) + Len(r) /\ Len(r) \in Nat
  BY ConcatProperties, LenProperties DEF Text
<1>7. Len(d \o r) >= 2
  BY <1>4, <1>5, <1>6
<1> QED
  BY <1>2, <1>3, <1>4, <1>5, <1>7

\* No text stands for two numbers.
LEMMA Base64Injective ==
  \A l, m \in Nat : base64[l] = base64[m] => l = m
<1>1. Base \in Nat /\ Base >= 2 /\ DOMAIN Chars = 1..Base
  BY DEF Base, Text
<1> DEFINE shared == {l \in Nat : \E m \in Nat : base64[l] = base64[m] /\ l # m}
<1>2. ASSUME shared # {} PROVE FALSE
  <2>1. PICK l \in shared : \A k \in shared : l <= k
    <3>1. shared \in SUBSET Nat
      OBVIOUS
    <3> HIDE DEF shared
    <3> QED
      BY <3>1, <1>2, LeastElement
  <2>2. PICK m \in Nat : l \in Nat /\ base64[l] = base64[m] /\ l # m
    BY <2>1
  <2>3. l % Base = m % Base
    <3>1. PICK i \in 1..Base : i = (l % Base) + 1
      BY DigitTyped, <2>2
    <3>2. PICK j \in 1..Base : j = (m % Base) + 1
      BY DigitTyped
    <3>3. Chars[i] = Chars[j]
      BY <2>2, <3>1, <3>2, Base64Head
    <3>4. i = j
      BY <1>1, <3>3 DEF Digits
    <3>5. l % Base \in Nat /\ m % Base \in Nat
      BY <1>1, <2>2, Quotient
    <3> QED
      BY <3>1, <3>2, <3>4, <3>5
  <2>4. CASE l < Base /\ m < Base
    <3>1. ASSUME NEW n \in Nat, n < Base PROVE n % Base = n
      BY <1>1, <3>1
    <3> QED
      BY <2>2, <2>3, <2>4, <3>1
  <2>5. ASSUME NEW a \in Nat, NEW b \in Nat, a < Base, b >= Base, base64[a] = base64[b]
        PROVE  FALSE
    <3>1. Len(base64[a]) = 1
      BY <2>5, Base64Head
    <3>2. Len(base64[b]) >= 2
      BY <2>5, Base64Rest
    <3> QED
      BY <2>5, <3>1, <3>2
  <2>6. CASE l >= Base /\ m >= Base
    <3>1. PICK k \in Nat : k = l \div Base /\ k < l /\ base64[l] = Digit(l) \o base64[k]
      BY <2>2, <2>6, Base64Rest
    <3>2. PICK n \in Nat : n = m \div Base /\ base64[m] = Digit(m) \o base64[n]
      BY <2>6, Base64Rest
    <3>3. PICK d \in Text : d = Digit(l) /\ d = Digit(m)
      BY <2>2, <2>3, DigitTyped DEF Digit, Base
    <3>4. base64[k] \in Seq(Alphabet) /\ base64[n] \in Seq(Alphabet) /\ d \in Seq(Alphabet)
      BY Base64Is DEF Text
    <3>5. d \o base64[k] = d \o base64[n]
      BY <2>2, <3>1, <3>2, <3>3
    <3>6. base64[k] = base64[n]
      BY <3>4, <3>5, ConcatSimplifications
    <3>7. k = n
      BY <2>1, <2>2, <3>1, <3>6
    <3>8. l = Base * k + (l % Base)
      BY <1>1, <2>2, <3>1, Quotient
    <3>9. m = Base * n + (m % Base)
      BY <1>1, <3>2, Quotient
    <3> QED
      BY <2>2, <2>3, <3>7, <3>8, <3>9
  <2> QED
    BY <1>1, <2>2, <2>4, <2>5, <2>6
<1> QED
  BY <1>2

\* No digit is a slash.
LEMMA Base64NoSlash ==
  \A l \in Nat : \A i \in DOMAIN base64[l] : base64[l][i] # "/"
<1>1. Base \in Nat /\ Base >= 2 /\ DOMAIN Chars = 1..Base
  BY DEF Base, Text
<1> DEFINE Clean(s) == \A i \in DOMAIN s : s[i] # "/"
           bad == {l \in Nat : ~Clean(base64[l])}
<1>2. ASSUME NEW l \in Nat PROVE Clean(Digit(l))
  <2>1. PICK d \in Text : d = Digit(l) /\ Len(d) = 1 /\ d[1] = Chars[(l % Base) + 1]
    BY DigitTyped
  <2>2. PICK i \in 1..Base : i = (l % Base) + 1
    BY DigitTyped
  <2>3. Chars[i] # "/"
    BY <1>1 DEF Digits
  <2>4. \A x \in DOMAIN d : x = 1
    BY <2>1 DEF Text
  <2> QED
    BY <2>1, <2>2, <2>3, <2>4
<1>3. ASSUME NEW s \in Text, NEW t \in Text, Clean(s), Clean(t) PROVE Clean(s \o t)
  <2>1. PICK m \in Nat : m = Len(s) /\ DOMAIN s = 1..m
    BY LenProperties DEF Text
  <2>2. PICK n \in Nat : n = Len(t) /\ DOMAIN t = 1..n
    BY LenProperties DEF Text
  <2>3. /\ s \o t \in Seq(Alphabet) /\ Len(s \o t) = m + n
        /\ \A i \in 1..(m + n) : (s \o t)[i] = IF i <= m THEN s[i] ELSE t[i - m]
    BY <2>1, <2>2, ConcatProperties DEF Text
  <2>4. DOMAIN (s \o t) = 1..(m + n)
    BY <2>3
  <2>5. ASSUME NEW i \in 1..(m + n) PROVE (s \o t)[i] # "/"
    <3>1. CASE i <= m
      BY <3>1, <1>3, <2>1, <2>3
    <3>2. CASE ~(i <= m)
      <4>1. i - m \in 1..n
        BY <3>2
      <4> QED
        BY <3>2, <4>1, <1>3, <2>2, <2>3
    <3> QED
      BY <3>1, <3>2
  <2> QED
    BY <2>4, <2>5
<1> HIDE DEF Clean
<1>4. ASSUME bad # {} PROVE FALSE
  <2>1. PICK l \in bad : \A k \in bad : l <= k
    <3>1. bad \in SUBSET Nat
      OBVIOUS
    <3> HIDE DEF bad
    <3> QED
      BY <3>1, <1>4, LeastElement
  <2>2. l \in Nat /\ ~Clean(base64[l])
    BY <2>1
  <2>3. ~(l < Base)
    BY <1>2, <2>2, Base64Is
  <2>4. PICK k \in Nat : k = l \div Base /\ k < l /\ base64[l] = Digit(l) \o base64[k]
    <3>1. l >= Base
      BY <1>1, <2>2, <2>3
    <3> QED
      BY <2>2, <3>1, Base64Rest
  <2>5. Clean(base64[k])
    BY <2>1, <2>2, <2>4
  <2> QED
    BY <1>2, <1>3, <2>2, <2>4, <2>5, Base64Is, DigitTyped
<1> QED
  BY <1>4 DEF Clean

\* The name that create_child() makes of a number.
Anonymous(l) == <<"$">> \o base64[l]

LEMMA AnonymousPlain ==
  /\ \A l \in Nat : Anonymous(l) \in PlainNames
  /\ \A l, m \in Nat : Anonymous(l) = Anonymous(m) => l = m
<1>1. "$" \in Alphabet /\ "$" \notin Whitespace
  OBVIOUS
<1>2. <<"$">> \in Seq(Alphabet)
  BY <1>1
<1>3. PICK d \in Seq(Alphabet) : d = <<"$">> /\ Len(d) = 1 /\ d[1] = "$"
  BY <1>2
<1>4. ASSUME NEW l \in Nat PROVE Anonymous(l) \in PlainNames
  <2>1. PICK b \in Seq(Alphabet) : b = base64[l]
    BY Base64Is DEF Text
  <2>2. PICK n \in Nat : n = Len(b) /\ DOMAIN b = 1..n
    BY LenProperties
  <2>3. PICK t \in Seq(Alphabet) : t = d \o b
    BY ConcatProperties
  <2>4. /\ Len(t) = 1 + n
        /\ \A i \in 1..(1 + n) : t[i] = IF i <= 1 THEN d[i] ELSE b[i - 1]
    BY <1>3, <2>2, <2>3, ConcatProperties
  <2>5. DOMAIN t = 1..(1 + n)
    BY <2>4
  <2>6. t[1] = "$" /\ 1 \in DOMAIN t
    BY <1>3, <2>4, <2>5
  <2>7. ASSUME NEW i \in DOMAIN t PROVE t[i] # "/"
    <3>1. CASE i = 1
      BY <3>1, <2>6
    <3>2. CASE i # 1
      <4>1. i - 1 \in 1..n /\ ~(i <= 1) /\ i \in 1..(1 + n)
        BY <3>2, <2>5
      <4>2. b[i - 1] # "/"
        BY <4>1, <2>1, <2>2, Base64NoSlash
      <4> QED
        BY <4>1, <4>2, <2>4
    <3> QED
      BY <3>1, <3>2
  <2>8. ~Blank(t)
    BY <1>1, <2>6 DEF Blank
  <2>9. t \in PlainNames
    BY <2>7, <2>8 DEF PlainNames, Plain, Text
  <2> QED
    BY <1>3, <2>1, <2>3, <2>9 DEF Anonymous
<1>5. ASSUME NEW l \in Nat, NEW m \in Nat, Anonymous(l) = Anonymous(m) PROVE l = m
  <2>1. base64[l] \in Seq(Alphabet) /\ base64[m] \in Seq(Alphabet)
    BY Base64Is DEF Text
  <2>2. d \o base64[l] = d \o base64[m]
    BY <1>3, <1>5 DEF Anonymous
  <2>3. base64[l] = base64[m]
    BY <2>1, <2>2, ConcatSimplifications
  <2> QED
    BY <2>3, Base64Injective
<1> QED
  BY <1>4, <1>5

-----------------------------------------------------------------------------
(* The invariant.                                                          *)

\* Any name an actor may have.
NameSet == Names \cup {RootName, <<"u">>}
Tables  == UNION {[D -> Actors] : D \in SUBSET NameSet}
States  == {"unborn", "live", "closed", "gone"}

Records ==
  [parent : 0..MaxActors, path : Seq(NameSet), type : Types, state : States,
   childrens : Tables, offset : 0..MaxOffset, suspended : BOOLEAN]

Shape ==
  /\ actor \in [Actors -> Records]
  /\ DOMAIN queue = Actors
  /\ \A a \in Actors : actor[a].state \in {"gone", "unborn"} => queue[a] = <<>>

\* The reports in a queue, and whether c's is among them.
Reports(q) == {i \in DOMAIN q : q[i].kind = "ChildTerminate"}
Told(q, c) == \E i \in Reports(q) : q[i].by = c
Once(q)    == \A i, j \in Reports(q) : q[i].by = q[j].by => i = j

\* A report is from a child that has ended, and a child reports once.
ReportOf(m, p) ==
  m.by \in ChildrenOf(p) /\ m.path = actor[m.by].path /\ actor[m.by].state = "gone"

ReportsOk(q, p) == Once(q) /\ \A i \in Reports(q) : ReportOf(q[i], p)

ReportInv == \A p \in Actors : ReportsOk(queue[p], p)

\* An entry is a child of that name.
EntriesOk(p) ==
  \A name \in DOMAIN actor[p].childrens :
    /\ Entry(p, name) \in ChildrenOf(p)
    /\ key(actor[Entry(p, name)].path) = name

EntryInv == \A p \in Actors : EntriesOk(p)

IInv == TypeOK /\ Shape /\ ReportInv /\ EntryInv /\ ChildTable /\ NoOtherOrphans

-----------------------------------------------------------------------------
(* Queues, tables and paths.                                               *)

LEMMA ReportsAppend ==
  ASSUME NEW S, NEW q \in Seq(S), NEW m \in S
  PROVE  /\ m.kind # "ChildTerminate" =>
              /\ \A c : Told(Append(q, m), c) <=> Told(q, c)
              /\ Once(q) => Once(Append(q, m))
         /\ m.kind = "ChildTerminate" =>
              /\ \A c : Told(Append(q, m), c) <=> Told(q, c) \/ c = m.by
              /\ Once(q) /\ ~Told(q, m.by) => Once(Append(q, m))
<1>1. /\ DOMAIN q = 1..Len(q) /\ Len(q) \in Nat
      /\ DOMAIN Append(q, m) = 1..(Len(q) + 1)
      /\ \A i \in 1..Len(q) : Append(q, m)[i] = q[i]
      /\ Append(q, m)[Len(q) + 1] = m
  OBVIOUS
<1>2. \A i \in Reports(q) : i \in Reports(Append(q, m)) /\ Append(q, m)[i] = q[i]
  BY <1>1 DEF Reports
<1>3. \A i \in Reports(Append(q, m)) :
        \/ i \in Reports(q) /\ Append(q, m)[i] = q[i]
        \/ i = Len(q) + 1 /\ m.kind = "ChildTerminate" /\ Append(q, m)[i] = m
  BY <1>1 DEF Reports
<1>4. m.kind = "ChildTerminate" => Len(q) + 1 \in Reports(Append(q, m))
  BY <1>1 DEF Reports
<1>5. ASSUME m.kind # "ChildTerminate"
      PROVE  /\ \A c : Told(Append(q, m), c) <=> Told(q, c)
             /\ Once(q) => Once(Append(q, m))
  BY <1>2, <1>3, <1>5 DEF Told, Once
<1>6. ASSUME m.kind = "ChildTerminate"
      PROVE  \A c : Told(Append(q, m), c) <=> Told(q, c) \/ c = m.by
  BY <1>1, <1>2, <1>3, <1>4, <1>6 DEF Told
<1>7. ASSUME m.kind = "ChildTerminate", Once(q), ~Told(q, m.by)
      PROVE  Once(Append(q, m))
  BY <1>3, <1>7 DEF Told, Once
<1> QED
  BY <1>5, <1>6, <1>7

LEMMA ReportsTail ==
  ASSUME NEW S, NEW q \in Seq(S), q # <<>>, Once(q)
  PROVE  /\ Once(Tail(q))
         /\ \A c : Told(Tail(q), c) <=>
              Told(q, c) /\ ~(Head(q).kind = "ChildTerminate" /\ Head(q).by = c)
         /\ \A i \in Reports(Tail(q)) : i + 1 \in Reports(q) /\ Tail(q)[i] = q[i + 1]
<1>1. /\ DOMAIN q = 1..Len(q) /\ Len(q) \in Nat /\ Len(q) >= 1 /\ Head(q) = q[1]
      /\ DOMAIN Tail(q) = 1..(Len(q) - 1)
      /\ \A i \in 1..(Len(q) - 1) : Tail(q)[i] = q[i + 1]
  OBVIOUS
<1>2. \A i \in Reports(Tail(q)) : i \in Nat /\ i + 1 \in Reports(q) /\ i + 1 # 1 /\ Tail(q)[i] = q[i + 1]
  BY <1>1 DEF Reports
<1>3. \A i \in Reports(q) : i # 1 => i - 1 \in Reports(Tail(q)) /\ Tail(q)[i - 1] = q[i]
  <2>1. ASSUME NEW i \in Reports(q), i # 1
        PROVE  i - 1 \in Reports(Tail(q)) /\ Tail(q)[i - 1] = q[i]
    <3>1. i - 1 \in 1..(Len(q) - 1) /\ (i - 1) + 1 = i
      BY <1>1, <2>1 DEF Reports
    <3>2. Tail(q)[i - 1] = q[i]
      BY <1>1, <3>1
    <3> QED
      BY <1>1, <2>1, <3>1, <3>2 DEF Reports
  <2> QED
    BY <2>1
<1>4. Once(Tail(q))
  <2> SUFFICES ASSUME NEW i \in Reports(Tail(q)), NEW j \in Reports(Tail(q)),
                      Tail(q)[i].by = Tail(q)[j].by
               PROVE  i = j
    BY DEF Once
  <2>1. i + 1 = j + 1 /\ i \in Nat /\ j \in Nat
    BY <1>2 DEF Once
  <2> QED
    BY <2>1
<1>5. ASSUME NEW c, Told(Tail(q), c)
      PROVE  Told(q, c) /\ ~(Head(q).kind = "ChildTerminate" /\ Head(q).by = c)
  <2>1. PICK i \in Reports(Tail(q)) : Tail(q)[i].by = c
    BY <1>5 DEF Told
  <2>2. i + 1 \in Reports(q) /\ i + 1 # 1 /\ q[i + 1].by = c
    BY <1>2, <2>1
  <2>3. Head(q).kind = "ChildTerminate" => 1 \in Reports(q)
    BY <1>1 DEF Reports
  <2> QED
    BY <1>1, <2>2, <2>3 DEF Told, Once
<1>6. ASSUME NEW c, Told(q, c), ~(Head(q).kind = "ChildTerminate" /\ Head(q).by = c)
      PROVE  Told(Tail(q), c)
  <2>1. PICK i \in Reports(q) : q[i].by = c
    BY <1>6 DEF Told
  <2>2. i # 1
    BY <1>1, <1>6, <2>1 DEF Reports
  <2> QED
    BY <1>3, <2>1, <2>2 DEF Told
<1> QED
  BY <1>2, <1>4, <1>5, <1>6

LEMMA KeyDiv ==
  ASSUME NEW S, NEW p \in Seq(S), NEW n \in S
  PROVE  Div(p, n) \in Seq(S) /\ key(Div(p, n)) = n
BY DEF key, Div, Last

LEMMA EmptyTable == <<>> \in Tables
<1>1. <<>> \in [{} -> Actors]
  OBVIOUS
<1> QED
  BY <1>1 DEF Tables

\* with is the table and one entry more, or a new one under that name.
Enters(with, table, name, c) ==
  /\ DOMAIN with = {name} \cup DOMAIN table
  /\ with[name] = c
  /\ \A n \in DOMAIN table : n # name => with[n] = table[n]

LEMMA TableWith ==
  ASSUME NEW table \in Tables, NEW name \in NameSet, NEW c \in Actors
  PROVE  /\ WithEntry(table, name, c) \in Tables
         /\ Enters(WithEntry(table, name, c), table, name, c)
<1>1. PICK D \in SUBSET NameSet : table \in [D -> Actors]
  BY DEF Tables
<1>2. WithEntry(table, name, c) \in [{name} \cup D -> Actors] /\ {name} \cup D \in SUBSET NameSet
  BY <1>1 DEF WithEntry
<1>3. Enters(WithEntry(table, name, c), table, name, c)
  BY DEF Enters, WithEntry
<1> QED
  BY <1>2, <1>3 DEF Tables

Without(table, name) == RestrictDomain(table, LAMBDA n : n # name)

LEMMA TableWithout ==
  ASSUME NEW table \in Tables, NEW name
  PROVE  /\ Without(table, name) \in Tables
         /\ DOMAIN Without(table, name) = DOMAIN table \ {name}
         /\ \A n \in DOMAIN table \ {name} : Without(table, name)[n] = table[n]
<1>1. PICK D \in SUBSET NameSet : table \in [D -> Actors]
  BY DEF Tables
<1>2. Without(table, name) = [n \in D \ {name} |-> table[n]]
  BY <1>1 DEF Without, RestrictDomain, Restrict
<1>3. Without(table, name) \in [D \ {name} -> Actors] /\ D \ {name} \in SUBSET NameSet
  BY <1>1, <1>2
<1> QED
  BY <1>1, <1>2, <1>3 DEF Tables

-----------------------------------------------------------------------------
(* What the steps do.                                                      *)

\* An actor that exists keeps its place in the tree, and one that ended stays so.
Grows ==
  /\ born' \in Actors /\ born <= born'
  /\ \A c \in Born : /\ actor'[c].parent = actor[c].parent
                     /\ actor'[c].path = actor[c].path
                     /\ actor[c].state = "gone" => actor'[c].state = "gone"

LEMMA Typed ==
  ASSUME TypeOK, Shape
  PROVE  /\ born \in Nat /\ born >= 1 /\ born \in Actors
         /\ \A a \in Actors : /\ actor[a] \in Records /\ queue[a] \in Seq(Internal)
                              /\ a \in Born <=> actor[a].state # "unborn"
                              /\ queue[a] # <<>> => a \in Born /\ actor[a].state \in {"live", "closed"}
                              /\ actor[a].parent \in Nat /\ actor[a].parent < a
<1>1. born \in Nat /\ born >= 1 /\ born \in Actors
  BY DEF TypeOK
<1>2. ASSUME NEW a \in Actors
      PROVE  /\ actor[a] \in Records /\ queue[a] \in Seq(Internal)
             /\ actor[a].state \in IF a \in Born THEN {"live", "closed", "gone"} ELSE {"unborn"}
             /\ actor[a].state \in {"gone", "unborn"} => queue[a] = <<>>
             /\ actor[a].parent \in 0..(a - 1)
  BY DEF TypeOK, Shape
<1>3. ASSUME NEW a \in Actors
      PROVE  /\ a \in Born <=> actor[a].state # "unborn"
             /\ queue[a] # <<>> => a \in Born /\ actor[a].state \in {"live", "closed"}
             /\ actor[a].parent \in Nat /\ actor[a].parent < a
  <2>1. CASE a \in Born
    BY <1>2, <2>1
  <2>2. CASE a \notin Born
    BY <1>2, <2>2
  <2> QED
    BY <2>1, <2>2
<1> QED
  BY <1>1, <1>2, <1>3

LEMMA SomeTypeTyped == SomeType \in Types
BY DEF SomeType

LEMMA NewTyped ==
  ASSUME NEW p \in 0..MaxActors, NEW path \in Seq(NameSet), NEW type \in Types
  PROVE  /\ New(p, path, type) \in Records
         /\ New(p, path, type).parent = p /\ New(p, path, type).path = path
         /\ New(p, path, type).type = type /\ New(p, path, type).state = "live"
         /\ New(p, path, type).childrens = <<>> /\ New(p, path, type).offset = 0
         /\ New(p, path, type).suspended = FALSE
<1>1. 0 \in 0..MaxOffset /\ "live" \in States /\ FALSE \in BOOLEAN
  BY DEF States
<1> QED
  BY <1>1, EmptyTable DEF New, Records

\* The actors of the initial state.
LEMMA FreshTyped ==
  ASSUME NEW path \in Seq(NameSet)
  PROVE  /\ New(Nobody, path, SomeType) \in Records
         /\ New(Nobody, path, SomeType).parent = 0
         /\ New(Nobody, path, SomeType).state = "live"
         /\ New(Nobody, path, SomeType).childrens = <<>>
         /\ New(Nobody, path, SomeType).suspended = FALSE
<1>1. 0 \in 0..MaxActors
  OBVIOUS
<1>2. New(0, path, SomeType) \in Records
  BY <1>1, NewTyped, SomeTypeTyped
<1> QED
  BY <1>2 DEF New

\* p with c under that name and the next offset.
WithChild(p, name, c, offset) ==
  [actor[p] EXCEPT !.childrens = WithEntry(@, name, c), !.offset = offset]

LEMMA InsertEffect ==
  ASSUME TypeOK, Shape, NEW p \in Actors, NEW name \in NameSet, NEW type \in Types,
         NEW offset \in 0..MaxOffset, Handling(p), Insert(p, name, type, offset)
  PROVE  /\ p \in Born /\ born' = born + 1 /\ born' \in Actors /\ p # born'
         /\ actor' \in [Actors -> Records]
         /\ actor'[p] = WithChild(p, name, born', offset)
         /\ actor'[born'] = New(p, Div(actor[p].path, name), type)
         /\ \A a \in Actors \ {p, born'} : actor'[a] = actor[a]
<1>1. p \in Born /\ born' = born + 1 /\ born' \in Actors /\ p # born'
  BY Typed DEF Handling, Insert
<1>2. actor[p] \in Records /\ actor[p].childrens \in Tables /\ actor[p].path \in Seq(NameSet)
  BY Typed DEF Records
<1>3. WithEntry(actor[p].childrens, name, born') \in Tables
  BY <1>1, <1>2, TableWith
<1>4. New(p, Div(actor[p].path, name), type) \in Records
  <2>1. p \in 0..MaxActors
    OBVIOUS
  <2> QED
    BY <1>2, <2>1, KeyDiv, NewTyped
<1> DEFINE P == WithChild(p, name, born', offset)
           N == New(p, Div(actor[p].path, name), type)
<1>5. P \in Records
  BY <1>2, <1>3 DEF Records, WithChild
<1>6. actor \in [Actors -> Records]
  BY DEF Shape
<1>7. actor' = [actor EXCEPT ![p] = P, ![born'] = N]
  BY <1>1, <1>6 DEF Insert, WithChild
<1> QED
  BY <1>1, <1>4, <1>5, <1>6, <1>7

LEMMA ChildEntered ==
  ASSUME TypeOK, Shape, NEW p \in Actors, NEW name \in NameSet, NEW b \in Actors,
         NEW offset, actor'[p] = WithChild(p, name, b, offset)
  PROVE  /\ actor'[p].state = actor[p].state
         /\ DOMAIN actor'[p].childrens = {name} \cup DOMAIN actor[p].childrens
         /\ actor'[p].childrens[name] = b
         /\ \A n \in DOMAIN actor[p].childrens :
              n # name => actor'[p].childrens[n] = actor[p].childrens[n]
<1>1. actor[p] \in Records
  BY Typed
<1>2. PICK table \in Tables : table = actor[p].childrens
  BY <1>1 DEF Records
<1>3. actor'[p].childrens = WithEntry(table, name, b) /\ actor'[p].state = actor[p].state
  BY <1>1, <1>2 DEF WithChild, Records
<1>4. Enters(WithEntry(table, name, b), table, name, b)
  BY <1>2, TableWith
<1> QED
  BY <1>2, <1>3, <1>4 DEF Enters

LEMMA OffsetEffect ==
  ASSUME TypeOK, Shape, NEW p \in Actors, NEW offset \in 0..MaxOffset,
         actor' = [actor EXCEPT ![p].offset = offset]
  PROVE  /\ actor' \in [Actors -> Records]
         /\ actor'[p] = [actor[p] EXCEPT !.offset = offset]
         /\ \A a \in Actors \ {p} : actor'[a] = actor[a]
<1>1. actor[p] \in Records /\ actor \in [Actors -> Records]
  BY Typed DEF Shape
<1>2. [actor[p] EXCEPT !.offset = offset] \in Records
  BY <1>1 DEF Records
<1> QED
  BY <1>1, <1>2

LEMMA EndedEffect ==
  ASSUME TypeOK, Shape, NEW a \in Actors
  PROVE  /\ Ended(a) \in [Actors -> Records]
         /\ Ended(a)[a] = [actor[a] EXCEPT !.state = "gone", !.childrens = <<>>, !.suspended = FALSE]
         /\ \A x \in Actors \ {a} : Ended(a)[x] = actor[x]
<1> DEFINE E == [actor[a] EXCEPT !.state = "gone", !.childrens = <<>>, !.suspended = FALSE]
<1>1. actor[a] \in Records /\ actor \in [Actors -> Records]
  BY Typed DEF Shape
<1>2. E \in Records
  BY <1>1, EmptyTable DEF Records, States
<1>3. Ended(a) = [actor EXCEPT ![a] = E]
  BY <1>1 DEF Ended
<1> QED
  BY <1>1, <1>2, <1>3

\* What on_exit() adds to the tree while a ends.
LEMMA TerminateNews ==
  ASSUME TypeOK, Shape, NEW a \in Actors, a \in Born, NEW lost, terminate(a, lost)
  PROVE  /\ born' \in Actors /\ born <= born'
         /\ DOMAIN actor' = Actors
         /\ \A x \in Actors : x \in Born \/ x > born' => actor'[x] = Ended(a)[x]
         /\ \A x \in Actors : x > born /\ x <= born' =>
              \E name \in NameSet : actor'[x] = New(a, Div(actor[a].path, name), SomeType)
<1>1. born \in Nat /\ born >= 1 /\ born \in Actors /\ MaxActors \in Nat
  BY Typed
<1>2. born' \in Actors /\ born <= born'
  BY <1>1 DEF terminate
<1>3. PICK names \in [(born + 1)..born' -> Names] :
        actor' = [c \in Actors |->
                    IF c \in DOMAIN names
                    THEN New(a, Div(actor[a].path, names[c]), SomeType)
                    ELSE Ended(a)[c]]
  BY DEF terminate
<1>4. DOMAIN names = (born + 1)..born' /\ \A x \in DOMAIN names : names[x] \in NameSet
  BY <1>3 DEF NameSet
<1>5. ASSUME NEW x \in Actors
      PROVE  /\ x \in Born \/ x > born' => x \notin DOMAIN names
             /\ x > born /\ x <= born' => x \in DOMAIN names
  BY <1>1, <1>2, <1>4
<1>6. \A x \in Actors : x \notin DOMAIN names => actor'[x] = Ended(a)[x]
  BY <1>3
<1>7. \A x \in Actors :
        x \in DOMAIN names => actor'[x] = New(a, Div(actor[a].path, names[x]), SomeType)
  BY <1>3
<1> QED
  BY <1>2, <1>3, <1>4, <1>5, <1>6, <1>7

LEMMA TerminateEffect ==
  ASSUME TypeOK, Shape, NEW a \in Actors, queue[a] # <<>>, NEW lost, terminate(a, lost)
  PROVE  /\ a \in Born /\ born' \in Actors /\ born <= born'
         /\ actor' \in [Actors -> Records]
         /\ actor'[a] = [actor[a] EXCEPT !.state = "gone", !.childrens = <<>>, !.suspended = FALSE]
         /\ \A x \in Actors \ {a} : x \in Born \/ x > born' => actor'[x] = actor[x]
         /\ \A x \in Actors : x > born /\ x <= born' =>
              \E name \in NameSet : actor'[x] = New(a, Div(actor[a].path, name), SomeType)
         /\ disowned' = disowned \cup lost \cup (born + 1)..born'
         /\ DOMAIN queue' = Actors /\ queue'[a] = <<>>
         /\ \A x \in Actors \ {a} :
              queue'[x] = IF x = actor[a].parent /\ actor[x].state # "gone"
                          THEN Append(queue[x], ChildTerminate(a)) ELSE queue[x]
<1>1. a \in Born /\ born \in Nat /\ actor[a].parent < a /\ actor[a].parent \in Nat
  BY Typed
<1>2. DOMAIN queue = Actors
  BY DEF Shape
<1>3. /\ DOMAIN queue' = Actors /\ queue'[a] = <<>>
      /\ \A x \in Actors \ {a} :
              queue'[x] = IF x = actor[a].parent /\ actor[x].state # "gone"
                          THEN Append(queue[x], ChildTerminate(a)) ELSE queue[x]
  BY <1>1, <1>2 DEF terminate, Send
<1>4. disowned' = disowned \cup lost \cup (born + 1)..born'
  BY DEF terminate
<1>5. /\ born' \in Actors /\ born <= born'
      /\ DOMAIN actor' = Actors
      /\ \A x \in Actors : x \in Born \/ x > born' => actor'[x] = Ended(a)[x]
      /\ \A x \in Actors : x > born /\ x <= born' =>
           \E name \in NameSet : actor'[x] = New(a, Div(actor[a].path, name), SomeType)
  BY <1>1, TerminateNews
<1>6. /\ Ended(a) \in [Actors -> Records]
      /\ Ended(a)[a] = [actor[a] EXCEPT !.state = "gone", !.childrens = <<>>, !.suspended = FALSE]
      /\ \A x \in Actors \ {a} : Ended(a)[x] = actor[x]
  BY EndedEffect
<1>7. ASSUME NEW x \in Actors PROVE actor'[x] \in Records
  <2>1. CASE x \in Born \/ x > born'
    BY <1>5, <1>6, <2>1
  <2>2. CASE x > born /\ x <= born'
    <3>1. PICK name \in NameSet : actor'[x] = New(a, Div(actor[a].path, name), SomeType)
      BY <1>5, <2>2
    <3>2. actor[a].path \in Seq(NameSet) /\ a \in 0..MaxActors
      BY Typed DEF Records
    <3>3. PICK path \in Seq(NameSet) : path = Div(actor[a].path, name)
      BY <3>2, KeyDiv
    <3>4. New(a, path, SomeType) \in Records
      BY <3>2, NewTyped, SomeTypeTyped
    <3> QED
      BY <3>1, <3>3, <3>4
  <2> QED
    BY <1>1, <1>5, <2>1, <2>2
<1>8. actor' \in [Actors -> Records]
  <2>1. actor' = [x \in Actors |-> actor'[x]]
    BY DEF terminate
  <2> QED
    BY <1>5, <1>7, <2>1
<1> QED
  BY <1>1, <1>3, <1>4, <1>5, <1>6, <1>8

\* The six things a step can do to the tree: create a child, count a name, be asked
\* to stop, begin to wait for children, end, take a report.
Inserts(p, name, type, offset) ==
  /\ Handling(p) /\ Insert(p, name, type, offset)
  /\ UNCHANGED <<queue, asked>> /\ wrapped' \subseteq wrapped \cup {p}

Counts(p, offset) ==
  /\ Handling(p) /\ actor' = [actor EXCEPT ![p].offset = offset]
  /\ UNCHANGED <<born, disowned, queue, asked>> /\ wrapped' \subseteq wrapped \cup {p}

Closes(a) ==
  /\ queue[a] # <<>> /\ Head(queue[a]).kind = "Terminate"
  /\ actor' = [actor EXCEPT ![a].state = "closed", ![a].suspended = TRUE]
  /\ queue' = Send(Popped(a), Range(actor[a].childrens), Terminate)
  /\ UNCHANGED <<born, disowned, asked, wrapped>>

\* Whoever was in the table when an actor ends has ended too or is lost.
Ends(a, lost) ==
  /\ queue[a] # <<>> /\ terminate(a, lost)
  /\ lost \subseteq ChildrenOf(a)
  /\ \A name \in DOMAIN actor[a].childrens :
       Entry(a, name) \in lost \/ actor[Entry(a, name)].state = "gone"
  /\ UNCHANGED <<asked, wrapped>>

Left(a, m) == Without(actor[a].childrens, key(m.path))
Lost(a, m) == (Range(actor[a].childrens) \ Range(Left(a, m))) \ {m.by}

Forgets(a, m) ==
  /\ queue[a] # <<>> /\ m = Head(queue[a]) /\ m.kind = "ChildTerminate"
  /\ actor' = [actor EXCEPT ![a].childrens = Left(a, m)]
  /\ queue' = Popped(a)
  /\ disowned' = disowned \cup Lost(a, m)
  /\ UNCHANGED <<born, asked, wrapped>>

LEMMA NamesTyped ==
  ASSUME TypeOK, Shape, NEW p \in Actors
  PROVE  /\ random_name(p) \in NameSet /\ UserNames \subseteq NameSet
         /\ NextOffset(actor[p].offset) \in 0..MaxOffset
         /\ actor[p].offset \in 0..MaxOffset
<1>1. actor[p].offset \in 0..MaxOffset
  BY Typed DEF Records
<1> QED
  <2>1. random_name(p) \in Names
    BY <1>1 DEF random_name, Names
  <2>2. NextOffset(actor[p].offset) \in 0..MaxOffset
    BY <1>1 DEF NextOffset
  <2>3. UserNames \subseteq NameSet /\ Names \subseteq NameSet
    BY DEF NameSet, Names
  <2> QED
    BY <1>1, <2>1, <2>2, <2>3

\* A report that is taken is from a child of that name, which has ended.
LEMMA HeadReport ==
  ASSUME TypeOK, Shape, ReportInv, NEW a \in Actors, queue[a] # <<>>,
         Head(queue[a]).kind = "ChildTerminate"
  PROVE  ReportOf(Head(queue[a]), a)
<1>1. queue[a] \in Seq(Internal)
  BY Typed
<1>2. 1 \in Reports(queue[a]) /\ Head(queue[a]) = queue[a][1]
  BY <1>1 DEF Reports
<1> QED
  BY <1>2 DEF ReportInv, ReportsOk

LEMMA LostChildren ==
  ASSUME TypeOK, Shape, EntryInv, NEW a \in Actors, NEW m
  PROVE  /\ Lost(a, m) \subseteq ChildrenOf(a)
         /\ \A c \in Lost(a, m) : key(actor[c].path) = key(m.path) /\ c # m.by
         /\ \A name \in DOMAIN actor[a].childrens :
              name = key(m.path) => Entry(a, name) \in Lost(a, m) \/ Entry(a, name) = m.by
<1>1. actor[a].childrens \in Tables
  BY Typed DEF Records
<1>2. /\ DOMAIN Left(a, m) = DOMAIN actor[a].childrens \ {key(m.path)}
      /\ \A n \in DOMAIN actor[a].childrens \ {key(m.path)} : Left(a, m)[n] = actor[a].childrens[n]
  BY <1>1, TableWithout DEF Left
<1>3. ASSUME NEW c \in Lost(a, m)
      PROVE  c \in ChildrenOf(a) /\ key(actor[c].path) = key(m.path) /\ c # m.by
  <2>1. PICK n \in DOMAIN actor[a].childrens : c = actor[a].childrens[n]
    BY <1>3 DEF Lost, Range
  <2>2. n = key(m.path)
    BY <1>2, <1>3, <2>1 DEF Lost, Range
  <2> QED
    BY <1>3, <2>1, <2>2 DEF EntryInv, EntriesOk, Entry, Lost
<1>4. ASSUME NEW name \in DOMAIN actor[a].childrens, name = key(m.path)
      PROVE  Entry(a, name) \in Lost(a, m) \/ Entry(a, name) = m.by
  <2>1. Entry(a, name) \in Range(actor[a].childrens)
    BY DEF Range, Entry
  <2>2. ASSUME Entry(a, name) \in Range(Left(a, m)) PROVE FALSE
    <3>1. PICK n \in DOMAIN Left(a, m) : Entry(a, name) = Left(a, m)[n]
      BY <2>2 DEF Range
    <3>2. n \in DOMAIN actor[a].childrens /\ n # name /\ Entry(a, n) = Entry(a, name)
      BY <1>2, <1>4, <3>1 DEF Entry
    <3> QED
      BY <3>2 DEF EntryInv, EntriesOk
  <2> QED
    BY <2>1, <2>2 DEF Lost
<1> QED
  BY <1>3, <1>4

LEMMA ProcessCases ==
  ASSUME TypeOK, Shape, ReportInv, EntryInv, NEW a \in Actors, Process(a)
  PROVE  \/ Closes(a)
         \/ \E lost \in SUBSET Born : Ends(a, lost)
         \/ \E m \in Internal : Forgets(a, m)
<1> DEFINE m == Head(queue[a])
<1>1. queue[a] # <<>> /\ UNCHANGED <<asked, wrapped>> /\ m \in Internal /\ queue[a] \in Seq(Internal)
  BY Typed DEF Process
<1>2. CASE m.kind = "Terminate" /\ OnTerminate(a)
  <2>1. CASE actor[a].childrens = <<>> /\ terminate(a, {})
    <3>1. Ends(a, {})
      BY <1>1, <2>1 DEF Ends
    <3> QED
      BY <3>1
  <2>2. CASE Closes(a)
    BY <2>2
  <2> QED
    BY <1>1, <1>2, <2>1, <2>2 DEF OnTerminate, Closes
<1>3. CASE m.kind = "ChildTerminate" /\ OnChildTerminate(a, m)
  <2>1. ReportOf(m, a)
    BY <1>1, <1>3, HeadReport
  <2>2. \/ Left(a, m) = <<>> /\ terminate(a, Lost(a, m))
        \/ Forgets(a, m)
    BY <1>1, <1>3 DEF OnChildTerminate, Left, Without, Lost, Forgets
  <2>3. CASE Left(a, m) = <<>> /\ terminate(a, Lost(a, m))
    <3>1. actor[a].childrens \in Tables
      BY Typed DEF Records
    <3>2. \A name \in DOMAIN actor[a].childrens : name = key(m.path)
      <4>1. DOMAIN Left(a, m) = {}
        BY <2>3
      <4>2. DOMAIN Left(a, m) = DOMAIN actor[a].childrens \ {key(m.path)}
        BY <3>1, TableWithout DEF Left
      <4> QED
        BY <4>1, <4>2
    <3>3. \A name \in DOMAIN actor[a].childrens :
            Entry(a, name) \in Lost(a, m) \/ actor[Entry(a, name)].state = "gone"
      BY <2>1, <3>2, LostChildren DEF ReportOf
    <3>4. Ends(a, Lost(a, m))
      BY <1>1, <2>3, <3>3, LostChildren DEF Ends
    <3>5. Lost(a, m) \in SUBSET Born
      BY LostChildren DEF ChildrenOf
    <3> QED
      BY <3>4, <3>5
  <2> QED
    BY <1>1, <2>2, <2>3
<1> QED
  BY <1>2, <1>3 DEF Process

LEMMA StepCases ==
  ASSUME TypeOK, Shape, ReportInv, EntryInv, Next
  PROVE  \/ \E p \in Actors, name \in NameSet, type \in Types, offset \in 0..MaxOffset :
              Inserts(p, name, type, offset)
         \/ \E p \in Actors, offset \in 0..MaxOffset : Counts(p, offset)
         \/ \E a \in Actors : Stop(a)
         \/ \E a \in Actors : Closes(a)
         \/ \E a \in Actors : \E lost \in SUBSET Born : Ends(a, lost)
         \/ \E a \in Actors : \E m \in Internal : Forgets(a, m)
<1> PICK a \in Actors : get_or_create_child(a) \/ create_child(a) \/ Stop(a) \/ Process(a)
  BY DEF Next
<1>1. CASE get_or_create_child(a)
  <2>1. PICK name \in UserNames, type \in Types : Insert(a, name, type, actor[a].offset)
    BY <1>1 DEF get_or_create_child
  <2>2. Inserts(a, name, type, actor[a].offset)
    BY <1>1, <2>1 DEF get_or_create_child, Inserts
  <2> QED
    BY <2>2, NamesTyped
<1>2. CASE create_child(a)
  <2> DEFINE name == random_name(a)
             next == NextOffset(actor[a].offset)
  <2>1. Handling(a) /\ UNCHANGED <<queue, asked>> /\ wrapped' \subseteq wrapped \cup {a}
    BY <1>2 DEF create_child
  <2>2. \/ \E type \in Types : Insert(a, name, type, next)
        \/ actor' = [actor EXCEPT ![a].offset = next] /\ UNCHANGED <<born, disowned>>
    BY <1>2 DEF create_child
  <2>3. name \in NameSet /\ next \in 0..MaxOffset
    BY NamesTyped
  <2>4. CASE \E type \in Types : Insert(a, name, type, next)
    BY <2>1, <2>3, <2>4 DEF Inserts
  <2>5. CASE actor' = [actor EXCEPT ![a].offset = next] /\ UNCHANGED <<born, disowned>>
    BY <2>1, <2>3, <2>5 DEF Counts
  <2> QED
    BY <2>2, <2>4, <2>5
<1>3. CASE Process(a)
  BY <1>3, ProcessCases
<1> QED
  BY <1>1, <1>2, <1>3

LEMMA TerminateTyped ==
  Terminate \in Internal /\ Terminate.kind = "Terminate"
BY DEF Terminate, Internal

LEMMA StopEffect ==
  ASSUME TypeOK, Shape, NEW a \in Actors, Stop(a)
  PROVE  /\ DOMAIN queue' = Actors
         /\ \A x \in Actors :
              /\ queue'[x] \in {queue[x], Append(queue[x], Terminate)}
              /\ actor[x].state \in {"gone", "unborn"} => queue'[x] = queue[x]
<1>1. queue' = Send(queue, {a}, Terminate) /\ a \in Born
  BY DEF Stop
<1>2. actor[a].state # "unborn"
  BY <1>1, Typed
<1> QED
  BY <1>1, <1>2 DEF Send

\* What a step that closes, or one that takes a report, leaves behind.
Closed(a) ==
  /\ a \in Born /\ actor[a].state \in {"live", "closed"}
  /\ actor' \in [Actors -> Records]
  /\ actor'[a] = [actor[a] EXCEPT !.state = "closed", !.suspended = TRUE]
  /\ \A x \in Actors \ {a} : actor'[x] = actor[x]
  /\ DOMAIN queue' = Actors
  /\ \A x \in Actors :
       /\ queue'[x] \in {Popped(a)[x], Append(Popped(a)[x], Terminate)}
       /\ actor[x].state \in {"gone", "unborn"} => queue'[x] = queue[x]
  /\ Popped(a)[a] = Tail(queue[a])
  /\ \A x \in Actors \ {a} : Popped(a)[x] = queue[x]

LEMMA ClosesEffect ==
  ASSUME TypeOK, Shape, NEW a \in Actors, Closes(a)
  PROVE  Closed(a)
<1>1. a \in Born /\ actor[a].state \in {"live", "closed"}
  BY Typed DEF Closes
<1>2. actor[a] \in Records /\ actor \in [Actors -> Records] /\ DOMAIN queue = Actors
  BY Typed DEF Shape
<1> DEFINE C == [actor[a] EXCEPT !.state = "closed", !.suspended = TRUE]
<1>3. C \in Records
  BY <1>2 DEF Records, States
<1>4. actor' = [actor EXCEPT ![a] = C]
  BY <1>2 DEF Closes
<1>5. DOMAIN Popped(a) = Actors /\ Popped(a)[a] = Tail(queue[a])
  BY <1>2 DEF Popped
<1>6. \A x \in Actors \ {a} : Popped(a)[x] = queue[x]
  BY <1>2 DEF Popped
<1>7. \A x \in Range(actor[a].childrens) : x \in Actors /\ actor[x].state # "unborn"
  <2>1. Range(actor[a].childrens) \subseteq Born /\ Born \subseteq Actors
    BY DEF TypeOK
  <2> QED
    BY <2>1, Typed
<1>8. queue' = [x \in Actors |-> IF x \in Range(actor[a].childrens) /\ actor[x].state # "gone"
                                 THEN Append(Popped(a)[x], Terminate) ELSE Popped(a)[x]]
  BY DEF Closes, Send
<1> QED
  BY <1>1, <1>2, <1>3, <1>4, <1>5, <1>6, <1>7, <1>8 DEF Closed

Forgot(a, m) ==
  /\ a \in Born /\ actor[a].state \in {"live", "closed"}
  /\ actor' \in [Actors -> Records]
  /\ actor'[a] = [actor[a] EXCEPT !.childrens = Left(a, m)]
  /\ \A x \in Actors \ {a} : actor'[x] = actor[x]
  /\ DOMAIN queue' = Actors /\ queue'[a] = Tail(queue[a])
  /\ \A x \in Actors \ {a} : queue'[x] = queue[x]
  /\ DOMAIN Left(a, m) = DOMAIN actor[a].childrens \ {key(m.path)}
  /\ \A n \in DOMAIN actor[a].childrens \ {key(m.path)} : Left(a, m)[n] = actor[a].childrens[n]

LEMMA ForgetsEffect ==
  ASSUME TypeOK, Shape, NEW a \in Actors, NEW m, Forgets(a, m)
  PROVE  Forgot(a, m)
<1>1. a \in Born /\ actor[a].state \in {"live", "closed"}
  BY Typed DEF Forgets
<1>2. actor[a] \in Records /\ actor \in [Actors -> Records] /\ DOMAIN queue = Actors
  BY Typed DEF Shape
<1>3. actor[a].childrens \in Tables
  BY <1>2 DEF Records
<1>4. /\ Left(a, m) \in Tables
      /\ DOMAIN Left(a, m) = DOMAIN actor[a].childrens \ {key(m.path)}
      /\ \A n \in DOMAIN actor[a].childrens \ {key(m.path)} : Left(a, m)[n] = actor[a].childrens[n]
  BY <1>3, TableWithout DEF Left
<1> DEFINE F == [actor[a] EXCEPT !.childrens = Left(a, m)]
<1>5. F \in Records
  BY <1>2, <1>4 DEF Records
<1>6. actor' = [actor EXCEPT ![a] = F]
  BY <1>2 DEF Forgets
<1>7. /\ DOMAIN queue' = Actors /\ queue'[a] = Tail(queue[a])
      /\ \A x \in Actors \ {a} : queue'[x] = queue[x]
  BY <1>2 DEF Forgets, Popped
<1> QED
  BY <1>1, <1>2, <1>4, <1>5, <1>6, <1>7 DEF Forgot

LEMMA GrowsFrom ==
  ASSUME TypeOK, Shape, born' \in Actors, born <= born', NEW a \in Actors,
         actor'[a].parent = actor[a].parent, actor'[a].path = actor[a].path,
         actor[a].state = "gone" => actor'[a].state = "gone",
         \A c \in Actors \ {a} : c \in Born => actor'[c] = actor[c]
  PROVE  Grows
<1>1. \A c \in Born : c \in Actors
  BY Typed
<1> QED
  BY <1>1 DEF Grows

\* What each step leaves of the actors that exist.
LEMMA GrowsInserts ==
  ASSUME TypeOK, Shape, NEW p \in Actors, NEW name \in NameSet, NEW type \in Types,
         NEW offset \in 0..MaxOffset, Inserts(p, name, type, offset)
  PROVE  Grows
<1>0. Handling(p) /\ Insert(p, name, type, offset)
  BY DEF Inserts
<1>1. /\ born' = born + 1 /\ born' \in Actors
      /\ actor'[p] = WithChild(p, name, born', offset)
      /\ \A a \in Actors \ {p, born'} : actor'[a] = actor[a]
  BY <1>0, InsertEffect
<1>2. born \in Nat /\ born <= born' /\ actor[p] \in Records
  BY <1>1, Typed
<1>3. \A c \in Actors \ {p} : c \in Born => c \in Actors \ {p, born'}
  BY <1>1, <1>2
<1>4. /\ actor'[p].parent = actor[p].parent /\ actor'[p].path = actor[p].path
      /\ actor'[p].state = actor[p].state
  BY <1>1, <1>2 DEF Records, WithChild
<1> QED
  BY <1>1, <1>2, <1>3, <1>4, GrowsFrom

LEMMA GrowsCounts ==
  ASSUME TypeOK, Shape, NEW p \in Actors, NEW offset \in 0..MaxOffset, Counts(p, offset)
  PROVE  Grows
<1>1. /\ actor'[p] = [actor[p] EXCEPT !.offset = offset]
      /\ \A a \in Actors \ {p} : actor'[a] = actor[a]
  BY OffsetEffect DEF Counts
<1>2. born' = born /\ born \in Actors /\ actor[p] \in Records /\ born <= born'
  BY Typed DEF Counts
<1>3. /\ actor'[p].parent = actor[p].parent /\ actor'[p].path = actor[p].path
      /\ actor'[p].state = actor[p].state
  BY <1>1, <1>2 DEF Records
<1> QED
  BY <1>1, <1>2, <1>3, GrowsFrom

LEMMA GrowsStop ==
  ASSUME TypeOK, Shape, NEW a \in Actors, Stop(a)
  PROVE  Grows
BY Typed DEF Stop, Grows

LEMMA GrowsCloses ==
  ASSUME TypeOK, Shape, NEW a \in Actors, Closes(a)
  PROVE  Grows
<1>1. /\ actor[a].state \in {"live", "closed"}
      /\ actor'[a] = [actor[a] EXCEPT !.state = "closed", !.suspended = TRUE]
      /\ \A x \in Actors \ {a} : actor'[x] = actor[x]
  BY ClosesEffect DEF Closed
<1>2. born' = born /\ born \in Actors /\ actor[a] \in Records /\ born <= born'
  BY Typed DEF Closes
<1>3. actor'[a].parent = actor[a].parent /\ actor'[a].path = actor[a].path
  BY <1>1, <1>2 DEF Records
<1> QED
  BY <1>1, <1>2, <1>3, GrowsFrom

LEMMA GrowsEnds ==
  ASSUME TypeOK, Shape, NEW a \in Actors, NEW lost, Ends(a, lost)
  PROVE  Grows
<1>1. /\ born' \in Actors /\ born <= born'
      /\ actor'[a] = [actor[a] EXCEPT !.state = "gone", !.childrens = <<>>, !.suspended = FALSE]
      /\ \A x \in Actors \ {a} : x \in Born \/ x > born' => actor'[x] = actor[x]
  BY TerminateEffect DEF Ends
<1>2. born \in Nat /\ born <= born' /\ actor[a] \in Records
  BY <1>1, Typed
<1>3. /\ actor'[a].parent = actor[a].parent /\ actor'[a].path = actor[a].path
      /\ actor'[a].state = "gone"
  BY <1>1, <1>2 DEF Records
<1> QED
  BY <1>1, <1>2, <1>3, GrowsFrom

LEMMA GrowsForgets ==
  ASSUME TypeOK, Shape, NEW a \in Actors, NEW m, Forgets(a, m)
  PROVE  Grows
<1>1. /\ actor'[a] = [actor[a] EXCEPT !.childrens = Left(a, m)]
      /\ \A x \in Actors \ {a} : actor'[x] = actor[x]
  BY ForgetsEffect DEF Forgot
<1>2. born' = born /\ born \in Actors /\ actor[a] \in Records /\ born <= born'
  BY Typed DEF Forgets
<1>3. /\ actor'[a].parent = actor[a].parent /\ actor'[a].path = actor[a].path
      /\ actor'[a].state = actor[a].state
  BY <1>1, <1>2 DEF Records
<1> QED
  BY <1>1, <1>2, <1>3, GrowsFrom

-----------------------------------------------------------------------------
(* Type correctness.                                                       *)

ActorTyped(x) ==
  /\ actor[x].state \in IF x \in Born THEN {"live", "closed", "gone"} ELSE {"unborn"}
  /\ actor[x].type \in Types
  /\ actor[x].parent \in 0..(x - 1)
  /\ Range(actor[x].childrens) \subseteq Born
  /\ actor[x].offset \in 0..MaxOffset
  /\ actor[x].suspended <=> actor[x].state = "closed"

\* Messages stay messages when the tree grows.
LEMMA InternalGrows ==
  ASSUME TypeOK, Shape, Grows
  PROVE  /\ Internal \subseteq Internal'
         /\ \A q \in Seq(Internal) : q \in Seq(Internal')
<1>1. Born \subseteq Born'
  BY Typed DEF Grows
<1>2. {actor[a].path : a \in Born} \subseteq {actor'[a].path : a \in Born'}
  BY <1>1 DEF Grows
<1>3. Internal \subseteq Internal'
  BY <1>1, <1>2 DEF Internal
<1> QED
  BY <1>3

LEMMA TypeFrom ==
  ASSUME TypeOK, Shape, Grows,
         actor' \in [Actors -> Records], DOMAIN queue' = Actors,
         \A x \in Actors : ActorTyped(x)' /\ queue'[x] \in Seq(Internal'),
         \A x \in Actors : actor'[x].state \in {"gone", "unborn"} => queue'[x] = <<>>,
         asked' \subseteq Born, wrapped' \subseteq Born, disowned' \subseteq Born'
  PROVE  TypeOK' /\ Shape'
<1>1. born' \in Actors /\ Born \subseteq Born'
  BY Typed DEF Grows
<1>2. asked' \subseteq Born' /\ wrapped' \subseteq Born'
  BY <1>1
<1>3. TypeOK'
  BY <1>1, <1>2 DEF TypeOK, ActorTyped
<1> QED
  BY <1>3 DEF Shape

\* An actor that a step leaves alone.
LEMMA TypedSame ==
  ASSUME TypeOK, Shape, Grows, NEW x \in Actors, actor'[x] = actor[x],
         x \in Born' => x \in Born
  PROVE  ActorTyped(x)'
<1>1. Born \subseteq Born'
  BY Typed DEF Grows
<1>2. ActorTyped(x)
  BY DEF TypeOK, ActorTyped
<1>3. CASE x \in Born
  BY <1>1, <1>2, <1>3 DEF ActorTyped
<1>4. CASE x \notin Born
  BY <1>1, <1>2, <1>4 DEF ActorTyped
<1> QED
  BY <1>3, <1>4

\* A queue that a step leaves alone, pops or sends a Terminate to.
LEMMA QueueTyped ==
  ASSUME TypeOK, Shape, Grows, NEW x \in Actors, NEW q, q \in Seq(Internal)
  PROVE  q \in Seq(Internal') /\ Append(q, Terminate) \in Seq(Internal')
<1>1. q \in Seq(Internal')
  BY InternalGrows
<1>2. Terminate \in Internal'
  BY DEF Terminate, Internal
<1> QED
  BY <1>1, <1>2

LEMMA TypeInserts ==
  ASSUME TypeOK, Shape, NEW p \in Actors, NEW name \in NameSet, NEW type \in Types,
         NEW offset \in 0..MaxOffset, Inserts(p, name, type, offset)
  PROVE  TypeOK' /\ Shape'
<1> PICK b \in Actors : b = born'
  <2>1. Handling(p) /\ Insert(p, name, type, offset)
    BY DEF Inserts
  <2> QED
    BY <2>1, InsertEffect
<1>1. Handling(p) /\ Insert(p, name, type, offset)
  BY DEF Inserts
<1>2. /\ p \in Born /\ b = born + 1 /\ p # b
      /\ actor' \in [Actors -> Records]
      /\ actor'[p] = WithChild(p, name, b, offset)
      /\ actor'[b] = New(p, Div(actor[p].path, name), type)
      /\ \A a \in Actors \ {p, b} : actor'[a] = actor[a]
  BY <1>1, InsertEffect
<1>3. Grows
  BY GrowsInserts
<1>4. born \in Nat /\ actor[p] \in Records
  BY Typed
<1>5. Born' = Born \cup {b}
  BY <1>2, <1>4
<1>6. ActorTyped(p)
  BY DEF TypeOK, ActorTyped
<1>7. /\ actor'[p].childrens = WithEntry(actor[p].childrens, name, b)
      /\ actor'[p].offset = offset /\ actor'[p].state = actor[p].state
      /\ actor'[p].type = actor[p].type /\ actor'[p].parent = actor[p].parent
      /\ actor'[p].suspended = actor[p].suspended
  BY <1>2, <1>4 DEF WithChild, Records
<1>8. ActorTyped(p)'
  <2>1. actor[p].childrens \in Tables
    BY <1>4 DEF Records
  <2> DEFINE table == actor[p].childrens
             with  == WithEntry(actor[p].childrens, name, b)
  <2>2. Enters(with, table, name, b)
    BY <1>2, <2>1, TableWith
  <2>3. Range(with) \subseteq Range(table) \cup {b}
    BY <2>2 DEF Enters, Range
  <2>4. Range(with) \subseteq Born'
    BY <1>5, <1>6, <2>3 DEF ActorTyped
  <2> QED
    BY <1>2, <1>5, <1>6, <1>7, <2>4 DEF ActorTyped
<1>9. /\ actor'[b].parent = p /\ actor'[b].type = type
      /\ actor'[b].state = "live" /\ actor'[b].childrens = <<>>
      /\ actor'[b].offset = 0 /\ actor'[b].suspended = FALSE
  <2>1. actor[p].path \in Seq(NameSet) /\ p \in 0..MaxActors
    BY <1>4 DEF Records
  <2>2. PICK path \in Seq(NameSet) : path = Div(actor[p].path, name)
    BY <2>1, KeyDiv
  <2>3. actor'[b] = New(p, path, type)
    BY <1>2, <2>2
  <2> QED
    BY <2>3 DEF New
<1>10. ActorTyped(b)'
  <2>1. Range(actor'[b].childrens) = {}
    BY <1>9 DEF Range
  <2>2. p \in 0..(b - 1) /\ 0 \in 0..MaxOffset /\ b \in Born'
    BY <1>2, <1>4, <1>5
  <2> QED
    BY <1>9, <2>1, <2>2 DEF ActorTyped
<1>11. \A x \in Actors : ActorTyped(x)'
  <2>1. ASSUME NEW x \in Actors, x # p, x # b PROVE ActorTyped(x)'
    BY <1>2, <1>3, <1>5, <2>1, TypedSame
  <2> QED
    BY <1>8, <1>10, <2>1
<1>12. DOMAIN queue' = Actors /\ \A x \in Actors : queue'[x] = queue[x] /\ queue'[x] \in Seq(Internal')
  BY <1>3, Typed, InternalGrows DEF Inserts, Shape
<1>13. \A x \in Actors : actor'[x].state \in {"gone", "unborn"} => queue'[x] = <<>>
  <2>1. ASSUME NEW x \in Actors, actor'[x].state \in {"gone", "unborn"} PROVE queue[x] = <<>>
    <3>1. x # b
      BY <1>9, <2>1
    <3>2. actor'[x].state = actor[x].state
      BY <1>2, <1>7, <3>1
    <3> QED
      BY <2>1, <3>2 DEF Shape
  <2> QED
    BY <1>12, <2>1
<1>14. asked' \subseteq Born /\ wrapped' \subseteq Born
  BY <1>2 DEF Inserts, TypeOK
<1>15. disowned' \subseteq Born'
  <2>1. disowned' \subseteq disowned \cup Born /\ disowned \subseteq Born
    BY <1>1 DEF Insert, TypeOK
  <2> QED
    BY <1>5, <2>1
<1> QED
  BY <1>2, <1>3, <1>11, <1>12, <1>13, <1>14, <1>15, TypeFrom

LEMMA TypeCounts ==
  ASSUME TypeOK, Shape, NEW p \in Actors, NEW offset \in 0..MaxOffset, Counts(p, offset)
  PROVE  TypeOK' /\ Shape'
<1>1. /\ actor' \in [Actors -> Records]
      /\ actor'[p] = [actor[p] EXCEPT !.offset = offset]
      /\ \A a \in Actors \ {p} : actor'[a] = actor[a]
  BY OffsetEffect DEF Counts
<1>2. Grows /\ born' = born /\ Born' = Born /\ actor[p] \in Records /\ p \in Born
  BY GrowsCounts, Typed DEF Counts, Handling
<1>3. /\ actor'[p].childrens = actor[p].childrens
      /\ actor'[p].offset = offset /\ actor'[p].state = actor[p].state
      /\ actor'[p].type = actor[p].type /\ actor'[p].parent = actor[p].parent
      /\ actor'[p].suspended = actor[p].suspended
  BY <1>1, <1>2 DEF Records
<1>4. ActorTyped(p)'
  BY <1>2, <1>3 DEF TypeOK, ActorTyped
<1>5. \A x \in Actors : ActorTyped(x)'
  <2>1. ASSUME NEW x \in Actors, x # p PROVE ActorTyped(x)'
    BY <1>1, <1>2, <2>1, TypedSame
  <2> QED
    BY <1>4, <2>1
<1>6. DOMAIN queue' = Actors /\ \A x \in Actors : queue'[x] = queue[x] /\ queue'[x] \in Seq(Internal')
  BY <1>2, Typed, InternalGrows DEF Counts, Shape
<1>7. \A x \in Actors : actor'[x].state \in {"gone", "unborn"} => queue'[x] = <<>>
  BY <1>1, <1>3, <1>6 DEF Shape
<1>8. asked' \subseteq Born /\ wrapped' \subseteq Born /\ disowned' \subseteq Born'
  BY <1>2 DEF Counts, TypeOK
<1> QED
  BY <1>1, <1>2, <1>5, <1>6, <1>7, <1>8, TypeFrom

LEMMA TypeStop ==
  ASSUME TypeOK, Shape, NEW a \in Actors, Stop(a)
  PROVE  TypeOK' /\ Shape'
<1>1. UNCHANGED <<born, actor, wrapped, disowned>> /\ asked' = asked \cup {a} /\ a \in Born
  BY DEF Stop
<1>2. Grows
  BY GrowsStop
<1>3. \A x \in Actors : ActorTyped(x)'
  BY <1>1, <1>2, TypedSame
<1>4. DOMAIN queue' = Actors /\ \A x \in Actors : queue'[x] \in Seq(Internal')
  <2>1. ASSUME NEW x \in Actors PROVE queue'[x] \in Seq(Internal')
    <3>1. queue[x] \in Seq(Internal)
      BY Typed
    <3> QED
      BY <1>2, <3>1, QueueTyped, StopEffect
  <2> QED
    BY <2>1, StopEffect
<1>5. \A x \in Actors : actor'[x].state \in {"gone", "unborn"} => queue'[x] = <<>>
  BY <1>1, StopEffect DEF Shape
<1>6. asked' \subseteq Born /\ wrapped' \subseteq Born /\ disowned' \subseteq Born'
  BY <1>1 DEF TypeOK
<1>7. actor' \in [Actors -> Records]
  BY <1>1 DEF Shape
<1> QED
  BY <1>2, <1>3, <1>4, <1>5, <1>6, <1>7, TypeFrom

LEMMA TypeCloses ==
  ASSUME TypeOK, Shape, NEW a \in Actors, Closes(a)
  PROVE  TypeOK' /\ Shape'
<1>1. /\ a \in Born /\ actor' \in [Actors -> Records]
      /\ actor'[a] = [actor[a] EXCEPT !.state = "closed", !.suspended = TRUE]
      /\ \A x \in Actors \ {a} : actor'[x] = actor[x]
  BY ClosesEffect DEF Closed
<1>2. Grows /\ born' = born /\ Born' = Born /\ actor[a] \in Records
  BY GrowsCloses, Typed DEF Closes
<1>3. /\ actor'[a].childrens = actor[a].childrens /\ actor'[a].offset = actor[a].offset
      /\ actor'[a].type = actor[a].type /\ actor'[a].parent = actor[a].parent
      /\ actor'[a].state = "closed" /\ actor'[a].suspended = TRUE
  BY <1>1, <1>2 DEF Records
<1>4. ActorTyped(a)'
  BY <1>1, <1>2, <1>3 DEF TypeOK, ActorTyped
<1>5. \A x \in Actors : ActorTyped(x)'
  <2>1. ASSUME NEW x \in Actors, x # a PROVE ActorTyped(x)'
    BY <1>1, <1>2, <2>1, TypedSame
  <2> QED
    BY <1>4, <2>1
<1>6. DOMAIN queue' = Actors /\ \A x \in Actors : queue'[x] \in Seq(Internal')
  <2>1. ASSUME NEW x \in Actors PROVE queue'[x] \in Seq(Internal')
    <3>1. queue[x] \in Seq(Internal) /\ queue[a] \in Seq(Internal) /\ queue[a] # <<>>
      BY Typed DEF Closes
    <3>2. Tail(queue[a]) \in Seq(Internal)
      BY <3>1
    <3>3. Popped(a)[x] \in Seq(Internal)
      BY <3>1, <3>2, ClosesEffect DEF Closed
    <3>4. Popped(a)[x] \in Seq(Internal') /\ Append(Popped(a)[x], Terminate) \in Seq(Internal')
      BY <1>2, <3>3, QueueTyped
    <3>5. queue'[x] \in {Popped(a)[x], Append(Popped(a)[x], Terminate)}
      BY ClosesEffect DEF Closed
    <3> QED
      BY <3>4, <3>5
  <2> QED
    BY <2>1, ClosesEffect DEF Closed
<1>7. \A x \in Actors : actor'[x].state \in {"gone", "unborn"} => queue'[x] = <<>>
  <2>1. ASSUME NEW x \in Actors, actor'[x].state \in {"gone", "unborn"} PROVE queue'[x] = <<>>
    <3>1. x # a /\ actor'[x] = actor[x]
      BY <1>1, <1>3, <2>1
    <3> QED
      BY <2>1, <3>1, ClosesEffect DEF Shape, Closed
  <2> QED
    BY <2>1
<1>8. asked' \subseteq Born /\ wrapped' \subseteq Born /\ disowned' \subseteq Born'
  BY <1>2 DEF Closes, TypeOK
<1> QED
  BY <1>1, <1>2, <1>5, <1>6, <1>7, <1>8, TypeFrom

LEMMA TypeForgets ==
  ASSUME TypeOK, Shape, EntryInv, NEW a \in Actors, NEW m, Forgets(a, m)
  PROVE  TypeOK' /\ Shape'
<1>1. /\ a \in Born /\ actor[a].state \in {"live", "closed"}
      /\ actor' \in [Actors -> Records]
      /\ actor'[a] = [actor[a] EXCEPT !.childrens = Left(a, m)]
      /\ \A x \in Actors \ {a} : actor'[x] = actor[x]
      /\ DOMAIN queue' = Actors /\ queue'[a] = Tail(queue[a])
      /\ \A x \in Actors \ {a} : queue'[x] = queue[x]
      /\ DOMAIN Left(a, m) = DOMAIN actor[a].childrens \ {key(m.path)}
      /\ \A n \in DOMAIN actor[a].childrens \ {key(m.path)} : Left(a, m)[n] = actor[a].childrens[n]
  <2>1. Forgot(a, m)
    BY ForgetsEffect
  <2> QED
    BY <2>1 DEF Forgot
<1>2. Grows /\ born' = born /\ Born' = Born /\ actor[a] \in Records
  BY GrowsForgets, Typed DEF Forgets
<1>3. /\ actor'[a].childrens = Left(a, m) /\ actor'[a].offset = actor[a].offset
      /\ actor'[a].type = actor[a].type /\ actor'[a].parent = actor[a].parent
      /\ actor'[a].state = actor[a].state /\ actor'[a].suspended = actor[a].suspended
  BY <1>1, <1>2 DEF Records
<1>4. ActorTyped(a)'
  <2>1. ActorTyped(a)
    BY DEF TypeOK, ActorTyped
  <2>2. Range(Left(a, m)) \subseteq Range(actor[a].childrens)
    BY <1>1 DEF Range
  <2> QED
    BY <1>2, <1>3, <2>1, <2>2 DEF ActorTyped
<1>5. \A x \in Actors : ActorTyped(x)'
  <2>1. ASSUME NEW x \in Actors, x # a PROVE ActorTyped(x)'
    BY <1>1, <1>2, <2>1, TypedSame
  <2> QED
    BY <1>4, <2>1
<1>6. \A x \in Actors : queue'[x] \in Seq(Internal')
  <2>1. queue[a] \in Seq(Internal) /\ queue[a] # <<>>
    BY Typed DEF Forgets
  <2>2. Tail(queue[a]) \in Seq(Internal)
    BY <2>1
  <2>3. \A x \in Actors : queue'[x] \in Seq(Internal)
    BY <1>1, <2>2, Typed
  <2> QED
    BY <1>2, <2>3, InternalGrows
<1>7. \A x \in Actors : actor'[x].state \in {"gone", "unborn"} => queue'[x] = <<>>
  BY <1>1, <1>3 DEF Shape
<1>8. asked' \subseteq Born /\ wrapped' \subseteq Born
  BY DEF Forgets, TypeOK
<1>9. disowned' \subseteq Born'
  <2>1. Lost(a, m) \subseteq Born
    BY LostChildren DEF ChildrenOf
  <2> QED
    BY <1>2, <2>1 DEF Forgets, TypeOK
<1> QED
  BY <1>1, <1>2, <1>5, <1>6, <1>7, <1>8, <1>9, TypeFrom

\* What a step that ends an actor does, with the new actors, if any, at hand.
LEMMA EndsEffect ==
  ASSUME TypeOK, Shape, NEW a \in Actors, NEW lost, Ends(a, lost)
  PROVE  /\ a \in Born /\ Born \subseteq Born' /\ Born' \subseteq Actors
         /\ actor' \in [Actors -> Records]
         /\ /\ actor'[a].state = "gone" /\ actor'[a].childrens = <<>>
            /\ actor'[a].suspended = FALSE /\ actor'[a].offset = actor[a].offset
            /\ actor'[a].type = actor[a].type /\ actor'[a].parent = actor[a].parent
            /\ actor'[a].path = actor[a].path
         /\ \A x \in Actors \ {a} : x \in Born \/ x \notin Born' => actor'[x] = actor[x]
         /\ \A x \in Born' \ Born :
              /\ actor'[x].parent = a /\ actor'[x].type \in Types /\ actor'[x].state = "live"
              /\ actor'[x].childrens = <<>> /\ actor'[x].offset = 0 /\ actor'[x].suspended = FALSE
              /\ x > a
         /\ disowned' = disowned \cup lost \cup (Born' \ Born)
<1>1. /\ a \in Born /\ born' \in Actors /\ born <= born'
      /\ actor' \in [Actors -> Records]
      /\ actor'[a] = [actor[a] EXCEPT !.state = "gone", !.childrens = <<>>, !.suspended = FALSE]
      /\ \A x \in Actors \ {a} : x \in Born \/ x > born' => actor'[x] = actor[x]
      /\ \A x \in Actors : x > born /\ x <= born' =>
           \E name \in NameSet : actor'[x] = New(a, Div(actor[a].path, name), SomeType)
      /\ disowned' = disowned \cup lost \cup (born + 1)..born'
  BY TerminateEffect DEF Ends
<1>2. born \in Nat /\ actor[a] \in Records /\ born' \in Nat
  BY <1>1, Typed
<1>3. /\ actor'[a].state = "gone" /\ actor'[a].childrens = <<>>
      /\ actor'[a].suspended = FALSE /\ actor'[a].offset = actor[a].offset
      /\ actor'[a].type = actor[a].type /\ actor'[a].parent = actor[a].parent
      /\ actor'[a].path = actor[a].path
  BY <1>1, <1>2 DEF Records
<1>4. Born \subseteq Born' /\ Born' \subseteq Actors /\ Born' \ Born = (born + 1)..born'
  BY <1>1, <1>2
<1>5. \A x \in Actors : x \notin Born' => x > born'
  BY <1>2
<1>6. ASSUME NEW x \in Born' \ Born
      PROVE  /\ actor'[x].parent = a /\ actor'[x].type \in Types /\ actor'[x].state = "live"
             /\ actor'[x].childrens = <<>> /\ actor'[x].offset = 0 /\ actor'[x].suspended = FALSE
             /\ x > a
  <2>1. x \in Actors /\ x > born /\ x <= born' /\ x > a
    BY <1>1, <1>2, <1>4
  <2>2. PICK path : actor'[x] = New(a, path, SomeType)
    BY <1>1, <2>1
  <2> QED
    BY <2>1, <2>2, SomeTypeTyped DEF New
<1> QED
  BY <1>1, <1>3, <1>4, <1>5, <1>6

LEMMA NewsOfEnds ==
  ASSUME TypeOK, Shape, NEW a \in Actors, NEW lost, Ends(a, lost)
  PROVE  \A x \in Born' \ Born : actor'[x].parent = a
<1>1. ASSUME NEW x \in Born' \ Born
      PROVE  /\ actor'[x].parent = a /\ actor'[x].type \in Types /\ actor'[x].state = "live"
             /\ actor'[x].childrens = <<>> /\ actor'[x].offset = 0 /\ actor'[x].suspended = FALSE
             /\ x > a
  BY EndsEffect
<1> QED
  BY <1>1

LEMMA EndsQueues ==
  ASSUME TypeOK, Shape, NEW a \in Actors, NEW lost, Ends(a, lost)
  PROVE  /\ DOMAIN queue' = Actors /\ queue'[a] = <<>>
         /\ \A x \in Actors \ {a} :
              queue'[x] = IF x = actor[a].parent /\ actor[x].state # "gone"
                          THEN Append(queue[x], ChildTerminate(a)) ELSE queue[x]
         /\ ChildTerminate(a) \in Internal
         /\ ChildTerminate(a).kind = "ChildTerminate" /\ ChildTerminate(a).by = a
         /\ ChildTerminate(a).path = actor[a].path
<1>1. a \in Born
  BY EndsEffect
<1> QED
  BY <1>1, TerminateEffect DEF Ends, ChildTerminate, Internal

LEMMA TypeEnds ==
  ASSUME TypeOK, Shape, NEW a \in Actors, NEW lost, Ends(a, lost)
  PROVE  TypeOK' /\ Shape'
<1>1. Grows
  BY GrowsEnds
<1>2. ActorTyped(a)'
  <2>1. ActorTyped(a)
    BY DEF TypeOK, ActorTyped
  <2>2. a \in Born' /\ actor'[a].state = "gone" /\ actor'[a].childrens = <<>>
        /\ actor'[a].suspended = FALSE /\ actor'[a].offset = actor[a].offset
        /\ actor'[a].type = actor[a].type /\ actor'[a].parent = actor[a].parent
    BY EndsEffect
  <2>3. Range(actor'[a].childrens) = {}
    BY <2>2 DEF Range
  <2> QED
    BY <2>1, <2>2, <2>3 DEF ActorTyped
<1>3. ASSUME NEW x \in Born' \ Born PROVE ActorTyped(x)'
  <2>1. /\ actor'[x].parent = a /\ actor'[x].type \in Types /\ actor'[x].state = "live"
        /\ actor'[x].childrens = <<>> /\ actor'[x].offset = 0 /\ actor'[x].suspended = FALSE
        /\ x > a
    BY EndsEffect
  <2>2. Range(actor'[x].childrens) = {}
    BY <2>1 DEF Range
  <2>3. x \in Int /\ a \in 0..(x - 1) /\ 0 \in 0..MaxOffset
    BY <2>1
  <2> QED
    BY <2>1, <2>2, <2>3 DEF ActorTyped
<1>4. \A x \in Actors : ActorTyped(x)'
  <2>1. ASSUME NEW x \in Actors, x # a, x \notin Born' \ Born PROVE ActorTyped(x)'
    <3>1. x \in Actors \ {a} /\ (x \in Born \/ x \notin Born')
      BY <2>1
    <3>2. actor'[x] = actor[x]
      BY <3>1, EndsEffect
    <3> QED
      BY <1>1, <2>1, <3>2, TypedSame
  <2> QED
    BY <1>2, <1>3, <2>1
<1>5. \A x \in Actors : queue'[x] \in Seq(Internal')
  <2>1. /\ queue'[a] = <<>> /\ ChildTerminate(a) \in Internal
        /\ \A x \in Actors \ {a} :
             queue'[x] = queue[x] \/ queue'[x] = Append(queue[x], ChildTerminate(a))
    BY EndsQueues
  <2>2. <<>> \in Seq(Internal)
    OBVIOUS
  <2>3. ASSUME NEW x \in Actors, x # a PROVE queue'[x] \in Seq(Internal)
    <3>1. queue[x] \in Seq(Internal)
      BY Typed
    <3>2. Append(queue[x], ChildTerminate(a)) \in Seq(Internal)
      BY <2>1, <3>1
    <3> QED
      BY <2>1, <2>3, <3>1, <3>2
  <2>4. \A x \in Actors : queue'[x] \in Seq(Internal)
    BY <2>1, <2>2, <2>3
  <2> QED
    BY <1>1, <2>4, InternalGrows
<1>6. \A x \in Actors : actor'[x].state \in {"gone", "unborn"} => queue'[x] = <<>>
  <2>1. ASSUME NEW x \in Actors, actor'[x].state \in {"gone", "unborn"}, x # a
        PROVE  queue'[x] = <<>>
    <3>1. x \notin Born' \ Born
      BY <2>1, EndsEffect
    <3>2. actor'[x] = actor[x]
      BY <2>1, <3>1, EndsEffect
    <3>3. queue[x] = <<>>
      BY <2>1, <3>2 DEF Shape
    <3>4. x = actor[a].parent => actor[x].state # "unborn"
      <4>1. a \in Born /\ actor[a].parent < a /\ actor[a].parent \in Nat /\ born \in Nat
        BY Typed, EndsEffect
      <4>2. x = actor[a].parent => x \in Born
        BY <4>1
      <4> QED
        BY <4>2, Typed
    <3> QED
      BY <2>1, <3>2, <3>3, <3>4, EndsQueues
  <2> QED
    BY <2>1, EndsQueues
<1>7. asked' \subseteq Born /\ wrapped' \subseteq Born
  BY DEF Ends, TypeOK
<1>8. disowned' \subseteq Born'
  <2>1. disowned \subseteq Born /\ lost \subseteq Born
    BY DEF TypeOK, Ends, ChildrenOf
  <2>2. disowned' = disowned \cup lost \cup (Born' \ Born) /\ Born \subseteq Born'
    BY EndsEffect
  <2> QED
    BY <2>1, <2>2
<1>9. actor' \in [Actors -> Records] /\ DOMAIN queue' = Actors
  BY EndsEffect, EndsQueues
<1> QED
  BY <1>1, <1>4, <1>5, <1>6, <1>7, <1>8, <1>9, TypeFrom

-----------------------------------------------------------------------------
(* Reports and entries.                                                    *)

LEMMA ChildrenGrow ==
  ASSUME TypeOK, Shape, Grows, NEW p
  PROVE  \A c \in ChildrenOf(p) : /\ c \in ChildrenOf(p)' /\ actor'[c].path = actor[c].path
                                  /\ actor[c].state = "gone" => actor'[c].state = "gone"
<1>1. Born \subseteq Born'
  BY Typed DEF Grows
<1> QED
  BY <1>1 DEF Grows, ChildrenOf

\* What is right about a queue stays right, with a Terminate behind and without its
\* head.
LEMMA ReportsKept ==
  ASSUME TypeOK, Shape, Grows, NEW p \in Actors, NEW q \in Seq(Internal), ReportsOk(q, p)
  PROVE  /\ ReportsOk(q, p)' /\ ReportsOk(Append(q, Terminate), p)'
         /\ q # <<>> => ReportsOk(Tail(q), p)
<1>1. \A i \in Reports(q) : ReportOf(q[i], p)'
  BY ChildrenGrow DEF ReportOf, ReportsOk
<1>2. Terminate \in Internal /\ Terminate.kind # "ChildTerminate"
  BY DEF Internal, Terminate
<1>3. Once(Append(q, Terminate))
  BY <1>2, ReportsAppend DEF ReportsOk
<1>4. \A i \in Reports(Append(q, Terminate)) : i \in Reports(q) /\ Append(q, Terminate)[i] = q[i]
  BY <1>2 DEF Reports
<1>5. ASSUME q # <<>> PROVE ReportsOk(Tail(q), p)
  BY <1>5, ReportsTail DEF ReportsOk
<1> QED
  BY <1>1, <1>3, <1>4, <1>5 DEF ReportsOk

QueueOk(p) == \A q : q = queue'[p] => ReportsOk(q, p)'

\* A queue after a step that pops from it or not and sends it a Terminate or not.
LEMMA ReportsStep ==
  ASSUME TypeOK, Shape, ReportInv, Grows, NEW p \in Actors,
         \/ queue'[p] \in {queue[p], Append(queue[p], Terminate)}
         \/ queue[p] # <<>> /\ queue'[p] \in {Tail(queue[p]), Append(Tail(queue[p]), Terminate)}
  PROVE  QueueOk(p)
<1>1. PICK q \in Seq(Internal) : q = queue[p]
  BY Typed
<1>2. ReportsOk(q, p)
  BY <1>1 DEF ReportInv
<1>3. CASE queue'[p] \in {q, Append(q, Terminate)}
  BY <1>2, <1>3, ReportsKept DEF QueueOk
<1>4. CASE q # <<>> /\ queue'[p] \in {Tail(q), Append(Tail(q), Terminate)}
  <2>1. Tail(q) \in Seq(Internal)
    BY <1>4
  <2>2. PICK r \in Seq(Internal) : r = Tail(q)
    BY <2>1
  <2>3. ReportsOk(r, p)
    BY <1>2, <1>4, <2>2, ReportsKept
  <2>4. queue'[p] \in {r, Append(r, Terminate)}
    BY <1>4, <2>2
  <2> QED
    BY <2>3, <2>4, ReportsKept DEF QueueOk
<1> QED
  BY <1>1, <1>3, <1>4

LEMMA ReportStep ==
  ASSUME TypeOK, Shape, ReportInv, EntryInv, [Next]_vars
  PROVE  ReportInv'
<1>0. ASSUME NEW p, QueueOk(p) PROVE ReportsOk(queue[p], p)'
  <2>1. PICK q : q = queue'[p]
    OBVIOUS
  <2>2. ReportsOk(q, p)'
    BY <1>0, <2>1 DEF QueueOk
  <2> QED
    BY <2>1, <2>2 DEF ReportsOk, ReportOf, Once, Reports, ChildrenOf
<1> SUFFICES ASSUME NEW p \in Actors PROVE QueueOk(p)
  BY <1>0 DEF ReportInv
<1>1. ASSUME NEW q \in Actors, NEW name \in NameSet, NEW type \in Types,
             NEW offset \in 0..MaxOffset, Inserts(q, name, type, offset)
      PROVE  QueueOk(p)
  <2>1. Grows /\ queue'[p] = queue[p]
    BY <1>1, GrowsInserts DEF Inserts
  <2> QED
    BY <2>1, ReportsStep
<1>2. ASSUME NEW q \in Actors, NEW offset \in 0..MaxOffset, Counts(q, offset)
      PROVE  QueueOk(p)
  <2>1. Grows /\ queue'[p] = queue[p]
    BY <1>2, GrowsCounts DEF Counts
  <2> QED
    BY <2>1, ReportsStep
<1>3. ASSUME NEW a \in Actors, Stop(a) PROVE QueueOk(p)
  <2>1. Grows /\ queue'[p] \in {queue[p], Append(queue[p], Terminate)}
    BY <1>3, GrowsStop, StopEffect
  <2> QED
    BY <2>1, ReportsStep
<1>4. ASSUME NEW a \in Actors, Closes(a) PROVE QueueOk(p)
  <2>1. Grows /\ queue'[p] \in {Popped(a)[p], Append(Popped(a)[p], Terminate)}
    BY <1>4, GrowsCloses, ClosesEffect DEF Closed
  <2>2. Popped(a)[p] = queue[p] \/ (queue[p] # <<>> /\ Popped(a)[p] = Tail(queue[p]))
    <3>1. Popped(a)[a] = Tail(queue[a]) /\ (p # a => Popped(a)[p] = queue[p])
      BY <1>4, ClosesEffect DEF Closed
    <3> QED
      BY <1>4, <3>1 DEF Closes
  <2> QED
    BY <2>1, <2>2, ReportsStep
<1>5. ASSUME NEW a \in Actors, NEW m \in Internal, Forgets(a, m) PROVE QueueOk(p)
  <2>1. Grows
    BY <1>5, GrowsForgets
  <2>2. queue'[p] = queue[p] \/ (queue[p] # <<>> /\ queue'[p] = Tail(queue[p]))
    BY <1>5, ForgetsEffect DEF Forgets, Forgot
  <2> QED
    BY <2>1, <2>2, ReportsStep
<1>6. ASSUME NEW a \in Actors, NEW lost \in SUBSET Born, Ends(a, lost) PROVE QueueOk(p)
  <2>1. Grows
    BY <1>6, GrowsEnds
  <2>2. CASE p = a
    <3>1. queue'[p] = <<>>
      BY <1>6, <2>2, EndsQueues
    <3>2. ReportsOk(<<>>, p)'
      BY DEF ReportsOk, Once, Reports
    <3> QED
      BY <3>1, <3>2 DEF QueueOk
  <2>3. CASE queue'[p] = queue[p]
    BY <2>1, <2>3, ReportsStep
  <2>4. CASE p # a /\ p = actor[a].parent /\ queue'[p] = Append(queue[p], ChildTerminate(a))
    <3>1. PICK q \in Seq(Internal), m \in Internal :
            /\ q = queue[p] /\ m = ChildTerminate(a)
            /\ m.kind = "ChildTerminate" /\ m.by = a /\ m.path = actor[a].path
      BY <1>6, Typed, EndsQueues
    <3>2. ReportsOk(q, p)
      BY <3>1 DEF ReportInv
    <3>3. actor[a].state # "gone"
      BY <1>6, Typed DEF Ends
    <3>4. ~Told(q, m.by)
      BY <3>1, <3>2, <3>3 DEF Told, ReportOf, ReportsOk
    <3>5. Once(Append(q, m))
      BY <3>1, <3>2, <3>4, ReportsAppend DEF ReportsOk
    <3>6. a \in ChildrenOf(p)' /\ actor'[a].path = actor[a].path /\ actor'[a].state = "gone"
      <4>1. a \in ChildrenOf(p)
        BY <1>6, <2>4, EndsEffect DEF ChildrenOf
      <4> QED
        BY <1>6, <2>1, <4>1, ChildrenGrow, EndsEffect
    <3>7. ReportOf(m, p)'
      BY <3>1, <3>6 DEF ReportOf
    <3>8. \A i \in Reports(q) : ReportOf(q[i], p)'
      <4>1. ReportsOk(q, p)'
        BY <2>1, <3>2, ReportsKept
      <4> QED
        BY <4>1 DEF ReportsOk
    <3>9. \A i \in Reports(Append(q, m)) :
            \/ i \in Reports(q) /\ Append(q, m)[i] = q[i]
            \/ Append(q, m)[i] = m
      BY DEF Reports
    <3>10. ReportsOk(Append(q, m), p)'
      BY <3>5, <3>7, <3>8, <3>9 DEF ReportsOk
    <3> QED
      BY <2>4, <3>1, <3>10 DEF QueueOk
  <2>5. /\ queue'[a] = <<>>
        /\ p # a => \/ queue'[p] = queue[p]
                    \/ p = actor[a].parent /\ queue'[p] = Append(queue[p], ChildTerminate(a))
    <3>1. p # a => queue'[p] = IF p = actor[a].parent /\ actor[p].state # "gone"
                               THEN Append(queue[p], ChildTerminate(a)) ELSE queue[p]
      BY <1>6, EndsQueues
    <3>2. queue'[a] = <<>>
      BY <1>6, EndsQueues
    <3> QED
      BY <3>1, <3>2
  <2> QED
    BY <2>2, <2>3, <2>4, <2>5
<1>7. CASE UNCHANGED vars
  <2>1. Grows /\ queue'[p] = queue[p]
    BY <1>7, Typed DEF vars, Grows
  <2> QED
    BY <2>1, ReportsStep
<1>8. CASE Next
  BY <1>1, <1>2, <1>3, <1>4, <1>5, <1>6, <1>8, StepCases
<1> QED
  BY <1>7, <1>8

LEMMA EntriesKept ==
  ASSUME TypeOK, Shape, EntryInv, Grows, NEW p \in Actors,
         DOMAIN actor'[p].childrens \subseteq DOMAIN actor[p].childrens,
         \A name \in DOMAIN actor'[p].childrens :
           actor'[p].childrens[name] = actor[p].childrens[name]
  PROVE  EntriesOk(p)'
<1> SUFFICES ASSUME NEW name \in DOMAIN actor'[p].childrens
             PROVE  /\ actor'[p].childrens[name] \in ChildrenOf(p)'
                    /\ key(actor'[actor'[p].childrens[name]].path) = name
  BY DEF EntriesOk, Entry
<1>1. PICK c : c = actor[p].childrens[name] /\ c = actor'[p].childrens[name]
  OBVIOUS
<1>2. c \in ChildrenOf(p) /\ key(actor[c].path) = name
  BY <1>1 DEF EntryInv, EntriesOk, Entry
<1>3. c \in ChildrenOf(p)' /\ key(actor'[c].path) = name
  BY <1>2, ChildrenGrow
<1> QED
  BY <1>1, <1>3

\* A step of one actor that keeps or shrinks its table.
LEMMA EntriesFrom ==
  ASSUME TypeOK, Shape, EntryInv, Grows, NEW a \in Actors,
         \A x \in Actors \ {a} : actor'[x] = actor[x],
         EntriesOk(a)'
  PROVE  EntryInv'
<1>1. ASSUME NEW x \in Actors, x # a PROVE EntriesOk(x)'
  <2>1. actor'[x].childrens = actor[x].childrens
    BY <1>1
  <2> QED
    BY <2>1, EntriesKept
<1> QED
  BY <1>1 DEF EntryInv

LEMMA EntryStep ==
  ASSUME TypeOK, Shape, ReportInv, EntryInv, [Next]_vars
  PROVE  EntryInv'
<1>1. ASSUME NEW p \in Actors, NEW name \in NameSet, NEW type \in Types,
             NEW offset \in 0..MaxOffset, Inserts(p, name, type, offset)
      PROVE  EntryInv'
  <2>1. Handling(p) /\ Insert(p, name, type, offset)
    BY <1>1 DEF Inserts
  <2>2. PICK b \in Actors : b = born'
    BY <2>1, InsertEffect
  <2>3. /\ p \in Born /\ b = born + 1 /\ p # b
        /\ actor'[p] = WithChild(p, name, b, offset)
        /\ actor'[b] = New(p, Div(actor[p].path, name), type)
        /\ \A a \in Actors \ {p, b} : actor'[a] = actor[a]
    BY <2>1, <2>2, InsertEffect
  <2>4. Grows
    BY <1>1, GrowsInserts
  <2>5. actor[p] \in Records /\ born \in Nat
    BY Typed
  <2>6. actor[p].childrens \in Tables /\ actor[p].path \in Seq(NameSet)
    BY <2>5 DEF Records
  <2>8. /\ DOMAIN actor'[p].childrens = {name} \cup DOMAIN actor[p].childrens
        /\ actor'[p].childrens[name] = b
        /\ \A n \in DOMAIN actor[p].childrens :
             n # name => actor'[p].childrens[n] = actor[p].childrens[n]
    BY <2>3, ChildEntered
  <2>9. b \in ChildrenOf(p)' /\ key(actor'[b].path) = name
    <3>1. actor'[b].parent = p /\ actor'[b].path = Div(actor[p].path, name)
      BY <2>3 DEF New
    <3>2. b \in 1..born'
      BY <2>2, <2>3, <2>5
    <3>3. key(Div(actor[p].path, name)) = name
      BY <2>6, KeyDiv
    <3> QED
      BY <3>1, <3>2, <3>3 DEF ChildrenOf
  <2>10. ASSUME NEW n \in DOMAIN actor[p].childrens, n # name
         PROVE  /\ actor'[p].childrens[n] \in ChildrenOf(p)'
                /\ key(actor'[actor'[p].childrens[n]].path) = n
    <3>1. PICK c : c = actor[p].childrens[n] /\ c = actor'[p].childrens[n]
      BY <2>8, <2>10
    <3>2. c \in ChildrenOf(p) /\ key(actor[c].path) = n
      BY <3>1 DEF EntryInv, EntriesOk, Entry
    <3>3. c \in ChildrenOf(p)' /\ key(actor'[c].path) = n
      BY <2>4, <3>2, ChildrenGrow
    <3> QED
      BY <3>1, <3>3
  <2>11. EntriesOk(p)'
    <3>1. ASSUME NEW n \in DOMAIN actor'[p].childrens
          PROVE  /\ actor'[p].childrens[n] \in ChildrenOf(p)'
                 /\ key(actor'[actor'[p].childrens[n]].path) = n
      <4>1. CASE n = name
        BY <2>8, <2>9, <4>1
      <4>2. CASE n # name
        BY <2>8, <2>10, <4>2
      <4> QED
        BY <4>1, <4>2
    <3> QED
      BY <3>1 DEF EntriesOk, Entry
  <2>12. EntriesOk(b)'
    <3>1. actor'[b].childrens = <<>>
      BY <2>3 DEF New
    <3>2. DOMAIN actor'[b].childrens = {}
      BY <3>1
    <3> QED
      BY <3>2 DEF EntriesOk
  <2>13. ASSUME NEW x \in Actors, x # p, x # b PROVE EntriesOk(x)'
    <3>1. actor'[x].childrens = actor[x].childrens
      BY <2>3, <2>13
    <3> QED
      BY <2>4, <3>1, EntriesKept
  <2> QED
    BY <2>11, <2>12, <2>13 DEF EntryInv
<1>2. ASSUME NEW p \in Actors, NEW offset \in 0..MaxOffset, Counts(p, offset)
      PROVE  EntryInv'
  <2>1. /\ actor'[p] = [actor[p] EXCEPT !.offset = offset]
        /\ \A a \in Actors \ {p} : actor'[a] = actor[a]
    BY <1>2, OffsetEffect DEF Counts
  <2>2. actor'[p].childrens = actor[p].childrens
    BY <2>1, Typed DEF Records
  <2>3. Grows
    BY <1>2, GrowsCounts
  <2> QED
    BY <2>1, <2>2, <2>3, EntriesKept, EntriesFrom
<1>3. ASSUME NEW a \in Actors, Stop(a) PROVE EntryInv'
  <2>1. Grows /\ actor' = actor
    BY <1>3, GrowsStop DEF Stop
  <2> QED
    BY <2>1, EntriesKept, EntriesFrom
<1>4. ASSUME NEW a \in Actors, Closes(a) PROVE EntryInv'
  <2>1. /\ actor'[a] = [actor[a] EXCEPT !.state = "closed", !.suspended = TRUE]
        /\ \A x \in Actors \ {a} : actor'[x] = actor[x]
    BY <1>4, ClosesEffect DEF Closed
  <2>2. actor'[a].childrens = actor[a].childrens
    BY <2>1, Typed DEF Records
  <2>3. Grows
    BY <1>4, GrowsCloses
  <2> QED
    BY <2>1, <2>2, <2>3, EntriesKept, EntriesFrom
<1>5. ASSUME NEW a \in Actors, NEW m \in Internal, Forgets(a, m) PROVE EntryInv'
  <2>1. /\ actor'[a] = [actor[a] EXCEPT !.childrens = Left(a, m)]
        /\ \A x \in Actors \ {a} : actor'[x] = actor[x]
        /\ DOMAIN Left(a, m) = DOMAIN actor[a].childrens \ {key(m.path)}
        /\ \A n \in DOMAIN actor[a].childrens \ {key(m.path)} : Left(a, m)[n] = actor[a].childrens[n]
    <3>1. Forgot(a, m)
      BY <1>5, ForgetsEffect
    <3> QED
      BY <3>1 DEF Forgot
  <2>2. actor'[a].childrens = Left(a, m)
    BY <2>1, Typed DEF Records
  <2>3. Grows
    BY <1>5, GrowsForgets
  <2>4. EntriesOk(a)'
    BY <2>1, <2>2, <2>3, EntriesKept
  <2> QED
    BY <2>1, <2>3, <2>4, EntriesFrom
<1>6. ASSUME NEW a \in Actors, NEW lost \in SUBSET Born, Ends(a, lost) PROVE EntryInv'
  <2>1. Grows
    BY <1>6, GrowsEnds
  <2>2. ASSUME NEW x \in Actors, actor'[x].childrens = <<>> PROVE EntriesOk(x)'
    <3>1. DOMAIN actor'[x].childrens = {}
      BY <2>2
    <3> QED
      BY <3>1 DEF EntriesOk
  <2>3. ASSUME NEW x \in Actors, actor'[x] = actor[x] PROVE EntriesOk(x)'
    BY <2>1, <2>3, EntriesKept
  <2>4. \A x \in Actors : actor'[x].childrens = <<>> \/ actor'[x] = actor[x]
    BY <1>6, EndsEffect
  <2> QED
    BY <2>2, <2>3, <2>4 DEF EntryInv
<1>7. CASE UNCHANGED vars
  <2>1. Grows /\ actor' = actor
    BY <1>7, Typed DEF vars, Grows
  <2> QED
    BY <2>1, EntriesKept DEF EntryInv
<1>8. CASE Next
  BY <1>1, <1>2, <1>3, <1>4, <1>5, <1>6, <1>8, StepCases
<1> QED
  BY <1>7, <1>8

-----------------------------------------------------------------------------
(* The table of children.                                                  *)

Listed(p, c) ==
  key(actor[c].path) \in DOMAIN actor[p].childrens /\ Entry(p, key(actor[c].path)) = c

TableOk(p, c) == Listed(p, c) <=> c \notin disowned /\ ~Reported(c)

LEMMA TableForm ==
  ChildTable <=> \A p \in Born : actor[p].state # "gone" =>
                   \A c \in ChildrenOf(p) : TableOk(p, c)
BY DEF ChildTable, TableOk, Listed

LEMMA ReportedForm ==
  ASSUME NEW p, NEW c
  PROVE  /\ actor[c].parent = p =>
              (Reported(c) <=> actor[c].state = "gone" /\ ~Told(queue[p], c))
         /\ actor'[c].parent = p =>
              (Reported(c)' <=> actor'[c].state = "gone" /\ ~Told(queue'[p], c))
BY DEF Reported, Told, Reports

\* A child that a step finds was a child of the same actor before.
LEMMA OldChild ==
  ASSUME TypeOK, Shape, ChildTable, Grows, NEW p \in Actors, actor'[p].state # "gone",
         NEW c \in Born, c \in ChildrenOf(p)'
  PROVE  /\ p \in Born /\ actor[p].state # "gone" /\ c \in Actors
         /\ c \in ChildrenOf(p) /\ actor[c].parent = p /\ actor'[c].parent = p
         /\ actor'[c].path = actor[c].path /\ TableOk(p, c) /\ p # c
<1>1. actor'[c].parent = p
  BY DEF ChildrenOf
<1>2. actor[c].parent = p /\ actor'[c].path = actor[c].path
  BY <1>1 DEF Grows
<1>3. c \in Actors /\ p \in Nat /\ p < c /\ c <= born /\ born \in Nat
  BY <1>2, Typed
<1>4. p \in Born
  BY <1>3
<1>5. actor[p].state # "gone"
  BY <1>4 DEF Grows
<1>6. c \in ChildrenOf(p)
  BY <1>2 DEF ChildrenOf
<1>7. TableOk(p, c)
  BY <1>4, <1>5, <1>6, TableForm
<1> QED
  BY <1>1, <1>2, <1>3, <1>4, <1>5, <1>6, <1>7

\* A child for which a step changes nothing of what the table is about.
LEMMA TableSame ==
  ASSUME NEW p, NEW c, actor[c].parent = p, actor'[c].parent = p,
         actor'[c].path = actor[c].path, TableOk(p, c),
         Listed(p, c)' <=> Listed(p, c),
         c \in disowned' <=> c \in disowned,
         \/ actor[c].state # "gone" /\ actor'[c].state # "gone"
         \/ actor[c].state = "gone" /\ actor'[c].state = "gone"
              /\ (Told(queue'[p], c) <=> Told(queue[p], c))
  PROVE  TableOk(p, c)'
<1>1. Reported(c)' <=> Reported(c)
  BY ReportedForm
<1> QED
  BY <1>1 DEF TableOk

LEMMA ListedSame ==
  ASSUME NEW p, NEW c, actor'[c].path = actor[c].path,
         actor'[p].childrens = actor[p].childrens
  PROVE  Listed(p, c)' <=> Listed(p, c)
BY DEF Listed, Entry

\* A Terminate is no report.
LEMMA ToldTerminate ==
  ASSUME NEW q \in Seq(Internal), NEW c
  PROVE  Told(Append(q, Terminate), c) <=> Told(q, c)
<1>1. Terminate \in Internal /\ Terminate.kind # "ChildTerminate"
  BY DEF Internal, Terminate
<1> QED
  BY <1>1, ReportsAppend

LEMMA TableInserts ==
  ASSUME TypeOK, Shape, EntryInv, ChildTable, NEW p \in Actors, NEW name \in NameSet,
         NEW type \in Types, NEW offset \in 0..MaxOffset, Inserts(p, name, type, offset),
         NEW r \in Actors, actor'[r].state # "gone", NEW c \in Actors, c \in ChildrenOf(r)'
  PROVE  TableOk(r, c)'
<1>1. Handling(p) /\ Insert(p, name, type, offset)
  BY DEF Inserts
<1>2. PICK b \in Actors : b = born'
  BY <1>1, InsertEffect
<1>3. /\ p \in Born /\ b = born + 1 /\ p # b
      /\ actor'[p] = WithChild(p, name, b, offset)
      /\ actor'[b] = New(p, Div(actor[p].path, name), type)
      /\ \A a \in Actors \ {p, b} : actor'[a] = actor[a]
  BY <1>1, <1>2, InsertEffect
<1>4. Grows /\ queue' = queue
  BY GrowsInserts DEF Inserts
<1>5. actor[p] \in Records /\ born \in Nat
  BY Typed
<1>6. actor[p].childrens \in Tables /\ actor[p].path \in Seq(NameSet)
  BY <1>5 DEF Records
<1>7. actor'[p].state = actor[p].state
  BY <1>3, ChildEntered
<1>8. /\ DOMAIN actor'[p].childrens = {name} \cup DOMAIN actor[p].childrens
      /\ actor'[p].childrens[name] = b
      /\ \A n \in DOMAIN actor[p].childrens :
           n # name => actor'[p].childrens[n] = actor[p].childrens[n]
  BY <1>3, ChildEntered
<1>9. /\ actor'[b].parent = p /\ actor'[b].state = "live"
      /\ actor'[b].path = Div(actor[p].path, name) /\ key(actor'[b].path) = name
  BY <1>3, <1>6, KeyDiv DEF New
<1>10. /\ \A x : x \in disowned' <=>
            \/ x \in disowned
            \/ x \in Born /\ name \in DOMAIN actor[p].childrens /\ x = Entry(p, name)
       /\ disowned \subseteq Born /\ b \notin Born
  <2>1. disowned \subseteq Born
    BY DEF TypeOK
  <2>2. disowned' = disowned \cup
          {x \in Born : name \in DOMAIN actor[p].childrens /\ x = Entry(p, name)}
    BY <1>1 DEF Insert
  <2>3. b \notin Born
    BY <1>3, <1>5
  <2> QED
    BY <2>1, <2>2, <2>3
<1>11. name \in DOMAIN actor[p].childrens =>
         Entry(p, name) \in ChildrenOf(p) /\ key(actor[Entry(p, name)].path) = name
  BY DEF EntryInv, EntriesOk
<1>12. CASE c = b
  <2>1. r = p
    BY <1>9, <1>12 DEF ChildrenOf
  <2>2. Listed(p, b)'
    BY <1>8, <1>9 DEF Listed, Entry
  <2>3. ~Reported(b)'
    BY <1>9 DEF Reported
  <2>4. b \notin disowned'
    BY <1>10
  <2> QED
    BY <1>12, <2>1, <2>2, <2>3, <2>4 DEF TableOk
<1>13. CASE c # b
  <2>1. c \in Born
    <3>1. c \in 1..born'
      BY DEF ChildrenOf
    <3> QED
      BY <1>2, <1>3, <1>5, <1>13, <3>1
  <2>2. /\ r \in Born /\ c \in ChildrenOf(r) /\ actor[c].parent = r /\ actor'[c].parent = r
        /\ actor'[c].path = actor[c].path /\ TableOk(r, c)
    BY <1>4, <2>1, OldChild
  <2>3. actor'[c].state = actor[c].state
    BY <1>3, <1>7, <1>13
  <2>4. Reported(c)' <=> Reported(c)
    BY <1>4, <2>2, <2>3, ReportedForm
  <2>5. CASE r # p
    <3>1. actor'[r].childrens = actor[r].childrens
      BY <1>3, <1>10, <2>2, <2>5
    <3>2. c \in disowned' <=> c \in disowned
      BY <1>10, <1>11, <2>2, <2>5 DEF ChildrenOf
    <3> QED
      BY <1>4, <2>2, <2>3, <3>1, <3>2, ListedSame, TableSame
  <2>6. CASE r = p /\ key(actor[c].path) # name
    <3>1. Listed(p, c)' <=> Listed(p, c)
      BY <1>8, <2>2, <2>6 DEF Listed, Entry
    <3>2. c \in disowned' <=> c \in disowned
      BY <1>10, <1>11, <2>6
    <3> QED
      BY <1>4, <2>2, <2>3, <2>6, <3>1, <3>2, TableSame
  <2>7. CASE r = p /\ key(actor[c].path) = name
    <3>1. ~Listed(p, c)'
      BY <1>8, <1>13, <2>2, <2>7 DEF Listed, Entry
    <3>2. Listed(p, c) => c \in disowned'
      BY <1>10, <2>1, <2>7 DEF Listed
    <3>3. c \in disowned => c \in disowned'
      BY <1>10
    <3>4. Listed(p, c) <=> c \notin disowned /\ ~Reported(c)
      BY <2>2, <2>7 DEF TableOk
    <3>5. ~(c \notin disowned' /\ ~Reported(c)')
      BY <2>4, <3>2, <3>3, <3>4
    <3> QED
      BY <2>7, <3>1, <3>5 DEF TableOk
  <2> QED
    BY <2>5, <2>6, <2>7
<1> QED
  BY <1>12, <1>13

LEMMA TableEnds ==
  ASSUME TypeOK, Shape, ChildTable, NEW a \in Actors, NEW lost \in SUBSET Born, Ends(a, lost),
         NEW p \in Actors, actor'[p].state # "gone", NEW c \in Actors, c \in ChildrenOf(p)'
  PROVE  TableOk(p, c)'
<1>1. Grows
  BY GrowsEnds
<1>2. /\ a \in Born /\ Born \subseteq Born' /\ actor'[a].state = "gone"
      /\ \A x \in Actors \ {a} : x \in Born \/ x \notin Born' => actor'[x] = actor[x]
      /\ disowned' = disowned \cup lost \cup (Born' \ Born)
  BY EndsEffect
<1>0. \A x \in Born' \ Born : actor'[x].parent = a
  BY NewsOfEnds
<1>3. p # a
  BY <1>2
<1>4. c \in Born
  BY <1>0, <1>3 DEF ChildrenOf
<1>5. /\ p \in Born /\ c \in ChildrenOf(p) /\ actor[c].parent = p /\ actor'[c].parent = p
      /\ actor'[c].path = actor[c].path /\ TableOk(p, c) /\ actor[p].state # "gone"
  BY <1>1, <1>4, OldChild
<1>6. actor'[p] = actor[p]
  BY <1>2, <1>3, <1>5
<1>7. Listed(p, c)' <=> Listed(p, c)
  BY <1>5, <1>6, ListedSame
<1>8. lost \subseteq ChildrenOf(a)
  BY DEF Ends
<1>9. c \in disowned' <=> c \in disowned
  BY <1>2, <1>3, <1>4, <1>5, <1>8 DEF ChildrenOf
<1>10. PICK q \in Seq(Internal), m \in Internal :
         /\ q = queue[p] /\ m = ChildTerminate(a) /\ m.kind = "ChildTerminate" /\ m.by = a
  BY Typed, EndsQueues
<1>11. queue'[p] = IF p = actor[a].parent /\ actor[p].state # "gone"
                   THEN Append(q, m) ELSE q
  BY <1>3, <1>10, EndsQueues
<1>12. \A x : Told(Append(q, m), x) <=> Told(q, x) \/ x = a
  BY <1>10, ReportsAppend
<1>13. CASE c = a
  <2>1. Told(queue'[p], c)
    BY <1>5, <1>11, <1>12, <1>13
  <2>2. ~Reported(c)'
    BY <1>5, <2>1, ReportedForm
  <2>3. actor[a].state # "gone"
    BY Typed DEF Ends
  <2>4. ~Reported(c)
    BY <1>13, <2>3 DEF Reported
  <2> QED
    BY <1>5, <1>7, <1>9, <2>2, <2>4 DEF TableOk
<1>14. CASE c # a
  <2>1. Told(queue'[p], c) <=> Told(queue[p], c)
    BY <1>10, <1>11, <1>12, <1>14
  <2>2. actor'[c] = actor[c]
    BY <1>2, <1>4, <1>14
  <2> QED
    BY <1>5, <1>7, <1>9, <2>1, <2>2, TableSame
<1> QED
  BY <1>13, <1>14

LEMMA TableForgets ==
  ASSUME TypeOK, Shape, ReportInv, EntryInv, ChildTable,
         NEW a \in Actors, NEW m \in Internal, Forgets(a, m),
         NEW p \in Actors, actor'[p].state # "gone", NEW c \in Actors, c \in ChildrenOf(p)'
  PROVE  TableOk(p, c)'
<1>1. /\ actor[a].state \in {"live", "closed"}
      /\ actor'[a] = [actor[a] EXCEPT !.childrens = Left(a, m)]
      /\ \A x \in Actors \ {a} : actor'[x] = actor[x]
      /\ queue'[a] = Tail(queue[a])
      /\ \A x \in Actors \ {a} : queue'[x] = queue[x]
      /\ DOMAIN Left(a, m) = DOMAIN actor[a].childrens \ {key(m.path)}
      /\ \A n \in DOMAIN actor[a].childrens \ {key(m.path)} : Left(a, m)[n] = actor[a].childrens[n]
  <2>1. Forgot(a, m)
    BY ForgetsEffect
  <2> QED
    BY <2>1 DEF Forgot
<1>2. Grows /\ born' = born /\ actor[a] \in Records
  BY GrowsForgets, Typed DEF Forgets
<1>3. actor'[a].childrens = Left(a, m) /\ actor'[a].state = actor[a].state
  BY <1>1, <1>2 DEF Records
<1>4. c \in Born
  BY <1>2 DEF ChildrenOf
<1>5. /\ p \in Born /\ c \in ChildrenOf(p) /\ actor[c].parent = p /\ actor'[c].parent = p
      /\ actor'[c].path = actor[c].path /\ TableOk(p, c) /\ p # c
  BY <1>2, <1>4, OldChild
<1>6. actor'[c].state = actor[c].state
  BY <1>1, <1>3
<1>7. /\ Lost(a, m) \subseteq ChildrenOf(a)
      /\ \A x \in Lost(a, m) : key(actor[x].path) = key(m.path) /\ x # m.by
      /\ \A n \in DOMAIN actor[a].childrens :
           n = key(m.path) => Entry(a, n) \in Lost(a, m) \/ Entry(a, n) = m.by
  BY LostChildren
<1>8. disowned' = disowned \cup Lost(a, m)
  BY DEF Forgets
<1>9. CASE p # a
  <2>1. Listed(p, c)' <=> Listed(p, c)
    BY <1>1, <1>5, <1>9, ListedSame
  <2>2. c \in disowned' <=> c \in disowned
    BY <1>5, <1>7, <1>8, <1>9 DEF ChildrenOf
  <2>3. queue'[p] = queue[p]
    BY <1>1, <1>9
  <2> QED
    BY <1>5, <1>6, <2>1, <2>2, <2>3, TableSame
<1>10. CASE p = a
  <2>1. PICK q \in Seq(Internal) : q = queue[a]
    BY Typed
  <2>2. /\ q # <<>> /\ m = Head(q) /\ m.kind = "ChildTerminate"
        /\ ReportsOk(q, a)
    BY <2>1 DEF Forgets, ReportInv
  <2>3. ReportOf(m, a)
    BY <2>1, <2>2, HeadReport
  <2>4. \A x : Told(Tail(q), x) <=> Told(q, x) /\ x # m.by
    BY <2>2, ReportsTail DEF ReportsOk
  <2>5. Told(queue'[a], c) <=> Told(queue[a], c) /\ c # m.by
    BY <1>1, <2>1, <2>4
  <2>6. CASE key(actor[c].path) # key(m.path)
    <3>1. c # m.by
      BY <2>3, <2>6 DEF ReportOf
    <3>2. Listed(a, c)' <=> Listed(a, c)
      BY <1>1, <1>3, <1>5, <2>6 DEF Listed, Entry
    <3>3. c \in disowned' <=> c \in disowned
      BY <1>7, <1>8, <2>6
    <3> QED
      BY <1>5, <1>6, <1>10, <2>5, <3>1, <3>2, <3>3, TableSame
  <2>7. CASE key(actor[c].path) = key(m.path)
    <3>1. ~Listed(a, c)'
      BY <1>1, <1>3, <1>5, <2>7 DEF Listed
    <3>2. Reported(c) => Reported(c)'
      BY <1>5, <1>6, <1>10, <2>5, ReportedForm
    <3>3. CASE c = m.by
      <4>1. actor[c].state = "gone" /\ ~Told(queue'[a], c)
        BY <2>3, <2>5, <3>3 DEF ReportOf
      <4>2. Reported(c)'
        BY <1>5, <1>6, <1>10, <4>1, ReportedForm
      <4> QED
        BY <1>10, <3>1, <4>2 DEF TableOk
    <3>4. CASE c # m.by
      <4>1. Listed(a, c) => c \in disowned'
        BY <1>7, <1>8, <2>7, <3>4 DEF Listed
      <4>2. c \in disowned \/ Reported(c) \/ Listed(a, c)
        BY <1>5, <1>10 DEF TableOk
      <4>3. c \in disowned' \/ Reported(c)'
        BY <1>8, <3>2, <4>1, <4>2
      <4> QED
        BY <1>10, <3>1, <4>3 DEF TableOk
    <3> QED
      BY <3>3, <3>4
  <2> QED
    BY <2>6, <2>7
<1> QED
  BY <1>9, <1>10

\* A child of an actor whose table a step leaves as it is.
TableKept(p, c) ==
  /\ actor'[p].childrens = actor[p].childrens /\ actor'[c].parent = actor[c].parent
  /\ actor'[c].path = actor[c].path
  /\ \/ actor'[c].state = actor[c].state
     \/ actor[c].state # "gone" /\ actor'[c].state # "gone"
  /\ Told(queue'[p], c) <=> Told(queue[p], c)

LEMMA TableFrom ==
  ASSUME TypeOK, Shape, ChildTable, Grows, born' = born, disowned' = disowned,
         NEW p \in Actors, actor'[p].state # "gone", NEW c \in Actors, c \in ChildrenOf(p)',
         TableKept(p, c)
  PROVE  TableOk(p, c)'
<1>1. c \in Born
  BY DEF ChildrenOf
<1>2. /\ p \in Born /\ c \in ChildrenOf(p) /\ actor[c].parent = p /\ actor'[c].parent = p
      /\ actor'[c].path = actor[c].path /\ TableOk(p, c)
  BY <1>1, OldChild
<1>3. Listed(p, c)' <=> Listed(p, c)
  BY <1>2, ListedSame DEF TableKept
<1> QED
  BY <1>2, <1>3, TableSame DEF TableKept

LEMMA TableCounts ==
  ASSUME TypeOK, Shape, ChildTable, NEW a \in Actors, NEW offset \in 0..MaxOffset,
         Counts(a, offset),
         NEW p \in Actors, actor'[p].state # "gone", NEW c \in Actors, c \in ChildrenOf(p)'
  PROVE  TableOk(p, c)'
<1>1. Grows /\ born' = born /\ disowned' = disowned /\ queue' = queue
  BY GrowsCounts DEF Counts
<1>2. /\ actor'[a] = [actor[a] EXCEPT !.offset = offset]
      /\ \A x \in Actors \ {a} : actor'[x] = actor[x]
  BY OffsetEffect DEF Counts
<1>3. actor[a] \in Records
  BY Typed
<1>4. /\ actor'[a].childrens = actor[a].childrens /\ actor'[a].parent = actor[a].parent
      /\ actor'[a].path = actor[a].path /\ actor'[a].state = actor[a].state
  BY <1>2, <1>3 DEF Records
<1>5. TableKept(p, c)
  BY <1>1, <1>2, <1>4 DEF TableKept
<1> QED
  BY <1>1, <1>5, TableFrom

LEMMA TableStop ==
  ASSUME TypeOK, Shape, ChildTable, NEW a \in Actors, Stop(a),
         NEW p \in Actors, actor'[p].state # "gone", NEW c \in Actors, c \in ChildrenOf(p)'
  PROVE  TableOk(p, c)'
<1>1. Grows /\ born' = born /\ disowned' = disowned /\ actor' = actor
  BY GrowsStop DEF Stop
<1>2. queue'[p] \in {queue[p], Append(queue[p], Terminate)} /\ queue[p] \in Seq(Internal)
  BY StopEffect, Typed
<1>3. Told(queue'[p], c) <=> Told(queue[p], c)
  <2>1. Told(Append(queue[p], Terminate), c) <=> Told(queue[p], c)
    BY <1>2, ToldTerminate
  <2> QED
    BY <1>2, <2>1
<1>4. TableKept(p, c)
  BY <1>1, <1>3 DEF TableKept
<1> QED
  BY <1>1, <1>4, TableFrom

LEMMA TableCloses ==
  ASSUME TypeOK, Shape, ReportInv, ChildTable, NEW a \in Actors, Closes(a),
         NEW p \in Actors, actor'[p].state # "gone", NEW c \in Actors, c \in ChildrenOf(p)'
  PROVE  TableOk(p, c)'
<1>1. Grows /\ born' = born /\ disowned' = disowned
  BY GrowsCloses DEF Closes
<1>2. /\ actor[a].state \in {"live", "closed"}
      /\ actor'[a] = [actor[a] EXCEPT !.state = "closed", !.suspended = TRUE]
      /\ \A x \in Actors \ {a} : actor'[x] = actor[x]
      /\ queue'[p] \in {Popped(a)[p], Append(Popped(a)[p], Terminate)}
      /\ Popped(a)[a] = Tail(queue[a])
      /\ \A x \in Actors \ {a} : Popped(a)[x] = queue[x]
  BY ClosesEffect DEF Closed
<1>3. actor[a] \in Records
  BY Typed
<1>4. /\ actor'[a].childrens = actor[a].childrens /\ actor'[a].parent = actor[a].parent
      /\ actor'[a].path = actor[a].path /\ actor'[a].state = "closed"
  BY <1>2, <1>3 DEF Records
<1>5. PICK q \in Seq(Internal) : q = queue[p]
  BY Typed
<1>6. PICK r \in Seq(Internal) : r = Popped(a)[p] /\ (Told(r, c) <=> Told(q, c))
  <2>1. CASE p = a
    <3>1. q # <<>> /\ Head(q).kind # "ChildTerminate" /\ Once(q)
      BY <1>5, <2>1 DEF Closes, ReportInv, ReportsOk
    <3>2. Told(Tail(q), c) <=> Told(q, c)
      BY <3>1, ReportsTail
    <3>3. Tail(q) \in Seq(Internal)
      BY <3>1
    <3> QED
      BY <1>2, <1>5, <2>1, <3>2, <3>3
  <2>2. CASE p # a
    BY <1>2, <1>5, <2>2
  <2> QED
    BY <2>1, <2>2
<1>7. Told(queue'[p], c) <=> Told(queue[p], c)
  <2>1. Told(Append(r, Terminate), c) <=> Told(r, c)
    BY ToldTerminate
  <2>2. queue'[p] \in {r, Append(r, Terminate)}
    BY <1>2, <1>6
  <2> QED
    BY <1>5, <1>6, <2>1, <2>2
<1>8. TableKept(p, c)
  BY <1>2, <1>4, <1>7 DEF TableKept
<1> QED
  BY <1>1, <1>8, TableFrom

LEMMA TableStep ==
  ASSUME TypeOK, Shape, ReportInv, EntryInv, ChildTable, TypeOK', [Next]_vars
  PROVE  ChildTable'
<1> SUFFICES ASSUME NEW p \in Actors, actor'[p].state # "gone",
                    NEW c \in Actors, c \in ChildrenOf(p)'
             PROVE  TableOk(p, c)'
  <2>1. ASSUME NEW p \in Born', actor'[p].state # "gone", NEW c \in ChildrenOf(p)',
               \A r, x \in Actors : actor'[r].state # "gone" /\ x \in ChildrenOf(r)' =>
                 TableOk(r, x)'
        PROVE  TableOk(p, c)'
    <3>1. p \in Actors /\ c \in Actors
      BY DEF TypeOK, ChildrenOf
    <3> QED
      BY <2>1, <3>1
  <2> QED
    BY <2>1 DEF ChildTable, TableOk, Listed
<1>1. CASE UNCHANGED vars
  <2>1. Grows /\ born' = born /\ disowned' = disowned /\ TableKept(p, c)
    BY <1>1, Typed DEF vars, Grows, TableKept
  <2> QED
    BY <2>1, TableFrom
<1>2. CASE Next
  BY <1>2, StepCases, TableInserts, TableCounts, TableStop, TableCloses, TableEnds,
     TableForgets
<1> QED
  BY <1>1, <1>2

-----------------------------------------------------------------------------
(* The end of a tree.                                                      *)

Outlives(p, c) == actor[c].state = "gone" \/ c \in disowned

\* When an actor ends, whoever it leaves behind is gone or lost its entry: a child
\* in the table is accounted for, and one that is not in it has lost its entry or
\* reported.
LEMMA OrphansEnds ==
  ASSUME TypeOK, Shape, ChildTable, NEW a \in Actors, NEW lost \in SUBSET Born,
         Ends(a, lost), NEW c \in ChildrenOf(a)
  PROVE  actor[c].state = "gone" \/ c \in disowned \/ c \in lost
<1>1. a \in Born /\ actor[a].state # "gone"
  BY Typed DEF Ends
<1>2. TableOk(a, c)
  BY <1>1, TableForm
<1>3. CASE Listed(a, c)
  BY <1>3 DEF Listed, Ends
<1>4. CASE ~Listed(a, c)
  BY <1>2, <1>4 DEF TableOk, Reported
<1> QED
  BY <1>3, <1>4

\* What every step but the end of an actor does to those that are left behind.
Keeps ==
  /\ Grows /\ disowned \subseteq disowned'
  /\ \A p \in Born' : actor'[p].state = "gone" => p \in Born /\ actor[p].state = "gone"
  /\ \A c \in Born' : c \notin Born => actor[actor'[c].parent].state # "gone"

LEMMA KeepsOrphans ==
  ASSUME TypeOK, Shape, NoOtherOrphans, Keeps
  PROVE  NoOtherOrphans'
<1> SUFFICES ASSUME NEW p \in Born', actor'[p].state = "gone", NEW c \in ChildrenOf(p)'
             PROVE  actor'[c].state = "gone" \/ c \in disowned'
  BY DEF NoOtherOrphans
<1>1. p \in Born /\ actor[p].state = "gone"
  BY DEF Keeps
<1>2. c \in Born' /\ actor'[c].parent = p
  BY DEF ChildrenOf
<1>3. c \in Born
  BY <1>1, <1>2 DEF Keeps
<1>4. c \in ChildrenOf(p)
  BY <1>2, <1>3 DEF Keeps, Grows, ChildrenOf
<1>5. actor[c].state = "gone" \/ c \in disowned
  BY <1>1, <1>4 DEF NoOtherOrphans
<1> QED
  BY <1>3, <1>5 DEF Keeps, Grows

LEMMA KeepsFrom ==
  ASSUME TypeOK, Shape, Grows, born' = born, disowned \subseteq disowned', NEW a \in Actors,
         actor'[a].state # "gone", \A x \in Actors \ {a} : actor'[x] = actor[x]
  PROVE  Keeps
<1>1. \A p \in Born' : p \in Actors /\ p \in Born
  BY Typed
<1> QED
  BY <1>1 DEF Keeps

LEMMA KeepsInserts ==
  ASSUME TypeOK, Shape, NEW p \in Actors, NEW name \in NameSet, NEW type \in Types,
         NEW offset \in 0..MaxOffset, Inserts(p, name, type, offset)
  PROVE  Keeps
<1>1. Handling(p) /\ Insert(p, name, type, offset)
  BY DEF Inserts
<1>2. PICK b \in Actors : b = born'
  BY <1>1, InsertEffect
<1>3. /\ p \in Born /\ b = born + 1 /\ p # b
      /\ actor'[p] = WithChild(p, name, b, offset)
      /\ actor'[b] = New(p, Div(actor[p].path, name), type)
      /\ \A x \in Actors \ {p, b} : actor'[x] = actor[x]
  BY <1>1, <1>2, InsertEffect
<1>4. Grows /\ actor[p].state = "live" /\ born \in Nat /\ disowned \subseteq disowned'
  BY <1>1, GrowsInserts, Typed DEF Handling, Insert
<1>5. actor'[p].state = actor[p].state
  BY <1>3, ChildEntered
<1>6. actor'[b].parent = p /\ actor'[b].state = "live"
  BY <1>3 DEF New
<1>7. \A x \in 1..b : x \in Actors /\ (x = b \/ x \in Born)
  BY <1>3, <1>4
<1>8. ASSUME NEW x \in 1..b, actor'[x].state = "gone"
      PROVE  x \in Born /\ actor[x].state = "gone"
  BY <1>3, <1>4, <1>5, <1>6, <1>7, <1>8
<1>9. ASSUME NEW x \in 1..b, x \notin Born PROVE actor[actor'[x].parent].state # "gone"
  BY <1>4, <1>6, <1>7, <1>9
<1> QED
  BY <1>2, <1>4, <1>8, <1>9 DEF Keeps

LEMMA KeepsOthers ==
  ASSUME TypeOK, Shape
  PROVE  /\ \A a \in Actors, offset \in 0..MaxOffset : Counts(a, offset) => Keeps
         /\ \A a \in Actors : Stop(a) \/ Closes(a) => Keeps
         /\ \A a \in Actors : \A m \in Internal : Forgets(a, m) => Keeps
<1>1. ASSUME NEW a \in Actors, NEW offset \in 0..MaxOffset, Counts(a, offset) PROVE Keeps
  <2>1. /\ actor'[a] = [actor[a] EXCEPT !.offset = offset]
        /\ \A x \in Actors \ {a} : actor'[x] = actor[x]
    BY <1>1, OffsetEffect DEF Counts
  <2>2. actor[a] \in Records /\ actor[a].state # "gone"
    BY <1>1, Typed DEF Counts, Handling
  <2>3. actor'[a].state # "gone"
    BY <2>1, <2>2 DEF Records
  <2>4. Grows /\ born' = born /\ disowned \subseteq disowned'
    BY <1>1, GrowsCounts DEF Counts
  <2> QED
    BY <2>1, <2>3, <2>4, KeepsFrom
<1>2. ASSUME NEW a \in Actors, Stop(a) PROVE Keeps
  <2>1. Grows /\ born' = born /\ disowned' = disowned /\ actor' = actor
    BY <1>2, GrowsStop DEF Stop
  <2> QED
    BY <2>1, Typed DEF Keeps
<1>3. ASSUME NEW a \in Actors, Closes(a) PROVE Keeps
  <2>1. /\ actor'[a] = [actor[a] EXCEPT !.state = "closed", !.suspended = TRUE]
        /\ \A x \in Actors \ {a} : actor'[x] = actor[x]
    BY <1>3, ClosesEffect DEF Closed
  <2>2. actor'[a].state # "gone"
    BY <2>1, Typed DEF Records
  <2>3. Grows /\ born' = born /\ disowned \subseteq disowned'
    BY <1>3, GrowsCloses DEF Closes
  <2> QED
    BY <2>1, <2>2, <2>3, KeepsFrom
<1>4. ASSUME NEW a \in Actors, NEW m \in Internal, Forgets(a, m) PROVE Keeps
  <2>1. /\ actor[a].state \in {"live", "closed"}
        /\ actor'[a] = [actor[a] EXCEPT !.childrens = Left(a, m)]
        /\ \A x \in Actors \ {a} : actor'[x] = actor[x]
    BY <1>4, ForgetsEffect DEF Forgot
  <2>2. actor'[a].state # "gone"
    BY <2>1, Typed DEF Records
  <2>3. Grows /\ born' = born /\ disowned \subseteq disowned'
    BY <1>4, GrowsForgets DEF Forgets
  <2> QED
    BY <2>1, <2>2, <2>3, KeepsFrom
<1> QED
  BY <1>1, <1>2, <1>3, <1>4

LEMMA EndsOrphans ==
  ASSUME TypeOK, Shape, ChildTable, NoOtherOrphans, NEW a \in Actors,
         NEW lost \in SUBSET Born, Ends(a, lost)
  PROVE  NoOtherOrphans'
<1> SUFFICES ASSUME NEW p \in Born', actor'[p].state = "gone", NEW c \in ChildrenOf(p)'
             PROVE  actor'[c].state = "gone" \/ c \in disowned'
  BY DEF NoOtherOrphans
<1>1. Grows
  BY GrowsEnds
<1>2. /\ a \in Born /\ Born \subseteq Born' /\ Born' \subseteq Actors
      /\ \A x \in Actors \ {a} : x \in Born \/ x \notin Born' => actor'[x] = actor[x]
      /\ disowned' = disowned \cup lost \cup (Born' \ Born)
  BY EndsEffect
<1>3. c \in Born' /\ actor'[c].parent = p
  BY DEF ChildrenOf
<1>4. CASE c \notin Born
  BY <1>2, <1>3, <1>4
<1>5. CASE c \in Born
  <2>1. c \in ChildrenOf(p) /\ actor[c].state = "gone" => actor'[c].state = "gone"
    BY <1>1, <1>3, <1>5 DEF Grows, ChildrenOf
  <2>2. CASE p = a
    <3>1. actor[c].state = "gone" \/ c \in disowned \/ c \in lost
      BY <1>1, <1>3, <1>5, <2>2, OrphansEnds DEF Grows, ChildrenOf
    <3> QED
      BY <1>1, <1>2, <1>5, <3>1 DEF Grows
  <2>3. CASE p # a
    <3>1. p \in Born
      <4>1. c \in Actors /\ p < c /\ p \in Nat /\ born \in Nat
        BY <1>1, <1>3, <1>5, Typed DEF Grows
      <4> QED
        BY <1>5, <4>1
    <3>2. actor[p].state = "gone"
      BY <1>2, <2>3, <3>1
    <3>3. c \in ChildrenOf(p)
      BY <1>1, <1>3, <1>5 DEF Grows, ChildrenOf
    <3>4. actor[c].state = "gone" \/ c \in disowned
      BY <3>1, <3>2, <3>3 DEF NoOtherOrphans
    <3> QED
      BY <1>1, <1>2, <1>5, <3>4 DEF Grows
  <2> QED
    BY <2>2, <2>3
<1> QED
  BY <1>4, <1>5

LEMMA OrphanStep ==
  ASSUME TypeOK, Shape, ReportInv, EntryInv, ChildTable, NoOtherOrphans, [Next]_vars
  PROVE  NoOtherOrphans'
<1>1. CASE UNCHANGED vars
  BY <1>1 DEF vars, NoOtherOrphans, ChildrenOf
<1>2. Keeps => NoOtherOrphans'
  BY KeepsOrphans
<1>3. ASSUME NEW p \in Actors, NEW name \in NameSet, NEW type \in Types,
             NEW offset \in 0..MaxOffset, Inserts(p, name, type, offset)
      PROVE  NoOtherOrphans'
  BY <1>2, <1>3, KeepsInserts
<1>4. CASE Next
  BY <1>2, <1>3, <1>4, StepCases, KeepsOthers, EndsOrphans
<1> QED
  BY <1>1, <1>4

-----------------------------------------------------------------------------
(* The theorems.                                                           *)

LEMMA TypeStep ==
  ASSUME TypeOK, Shape, ReportInv, EntryInv, [Next]_vars
  PROVE  TypeOK' /\ Shape'
<1>1. CASE UNCHANGED vars
  <2>1. TypeOK'
    BY <1>1 DEF vars, TypeOK, Internal
  <2>2. Shape'
    BY <1>1 DEF vars, Shape
  <2> QED
    BY <2>1, <2>2
<1>2. CASE Next
  BY <1>2, StepCases, TypeInserts, TypeCounts, TypeStop, TypeCloses, TypeEnds, TypeForgets
<1> QED
  BY <1>1, <1>2

LEMMA InitIInv ==
  ASSUME Init
  PROVE  IInv
<1>1. UserPath \in Seq(NameSet) /\ RootName \in NameSet
  <2>1. <<"u">> \in NameSet /\ RootName \in NameSet
    BY DEF NameSet
  <2>2. << <<"u">> >> \in Seq(NameSet)
    BY <2>1
  <2> QED
    BY <2>1, <2>2, UserPathIs
<1>2. Div(UserPath, RootName) \in Seq(NameSet)
  BY <1>1, KeyDiv
<1>3. <<>> \in Seq(NameSet) /\ Nobody \in 0..MaxActors
  OBVIOUS
<1> DEFINE top == New(Nobody, Div(UserPath, RootName), SomeType)
           none == New(Nobody, <<>>, SomeType)
           unborn == [none EXCEPT !.state = "unborn"]
<1>4. /\ top \in Records /\ top.parent = 0 /\ top.state = "live"
      /\ top.childrens = <<>> /\ top.suspended = FALSE
  BY <1>2, FreshTyped
<1>5. /\ none \in Records /\ none.parent = 0
      /\ none.childrens = <<>> /\ none.suspended = FALSE
  BY <1>3, FreshTyped
<1> HIDE DEF top, none
<1>6. /\ unborn \in Records /\ unborn.parent = 0 /\ unborn.state = "unborn"
      /\ unborn.childrens = <<>> /\ unborn.suspended = FALSE
  BY <1>5 DEF Records, States
<1> HIDE DEF unborn
<1>7. /\ born = 1 /\ 1 \in Actors
      /\ actor = [a \in Actors |-> IF a = 1 THEN top ELSE unborn]
      /\ queue = [a \in Actors |-> <<>>]
      /\ asked = {} /\ wrapped = {} /\ disowned = {}
  BY DEF Init, top, none, unborn
<1>8. ASSUME NEW a \in Actors
      PROVE  /\ actor[a] \in Records /\ actor[a].parent = 0 /\ actor[a].childrens = <<>>
             /\ actor[a].suspended = FALSE /\ queue[a] = <<>>
             /\ actor[a].state = IF a \in Born THEN "live" ELSE "unborn"
  <2>1. a \in Born <=> a = 1
    BY <1>7
  <2> QED
    BY <1>4, <1>6, <1>7, <2>1
<1>9. ASSUME NEW a \in Actors PROVE DOMAIN actor[a].childrens = {} /\ Range(actor[a].childrens) = {}
  <2>1. actor[a].childrens = <<>>
    BY <1>8
  <2>2. DOMAIN actor[a].childrens = {}
    BY <2>1
  <2> QED
    BY <2>2 DEF Range
<1>10. Shape
  BY <1>7, <1>8 DEF Shape
<1>11. TypeOK
  <2>1. ASSUME NEW a \in Actors PROVE ActorTyped(a) /\ queue[a] \in Seq(Internal)
    <3>0. actor[a] \in Records
      BY <1>8
    <3>1. actor[a].type \in Types /\ actor[a].offset \in 0..MaxOffset /\ 0 \in 0..(a - 1)
      BY <3>0 DEF Records
    <3>2. /\ actor[a].state \in IF a \in Born THEN {"live", "closed", "gone"} ELSE {"unborn"}
          /\ actor[a].suspended <=> actor[a].state = "closed"
      BY <1>8
    <3>3. queue[a] = <<>>
      BY <1>8
    <3>4. <<>> \in Seq(Internal)
      OBVIOUS
    <3>5. queue[a] \in Seq(Internal)
      BY <3>3, <3>4
    <3>6. actor[a].parent = 0 /\ Range(actor[a].childrens) = {}
      BY <1>8, <1>9
    <3> QED
      BY <3>1, <3>2, <3>5, <3>6 DEF ActorTyped
  <2> QED
    BY <1>7, <2>1 DEF TypeOK, ActorTyped
<1>12. ReportInv
  <2>1. Reports(<<>>) = {}
    BY DEF Reports
  <2>2. ASSUME NEW p \in Actors PROVE ReportsOk(queue[p], p)
    <3>1. queue[p] = <<>>
      BY <1>8
    <3> QED
      BY <2>1, <3>1 DEF ReportsOk, Once
  <2> QED
    BY <2>2 DEF ReportInv
<1>13. EntryInv
  BY <1>9 DEF EntryInv, EntriesOk
<1>14. \A p \in Born : ChildrenOf(p) = {}
  <2>1. \A p \in Born : p # 0 /\ p \in Actors
    BY <1>7
  <2>2. \A c \in Born : actor[c].parent = 0
    BY <1>8, <2>1
  <2> QED
    BY <2>1, <2>2 DEF ChildrenOf
<1>15. ChildTable /\ NoOtherOrphans
  BY <1>14 DEF ChildTable, NoOtherOrphans
<1> QED
  BY <1>10, <1>11, <1>12, <1>13, <1>15 DEF IInv

\* IInv is inductive.
THEOREM Invariance == Spec => []IInv
<1>1. Init => IInv
  BY InitIInv
<1>2. IInv /\ [Next]_vars => IInv'
  BY TypeStep, ReportStep, EntryStep, TableStep, OrphanStep DEF IInv
<1> QED
  BY <1>1, <1>2, PTL DEF Spec

\* Every variable of the tree keeps its type, and the counter of names its range.
THEOREM TypeCorrect == Spec => []TypeOK
BY Invariance, PTL DEF IInv

\* The table of an actor that has not ended holds exactly the children whose report
\* is still to come and that did not lose their entry (context.rs:182, :224;
\* dispatcher.rs:131-156).
THEOREM TableCorrect == Spec => []ChildTable
BY Invariance, PTL DEF IInv

\* An actor that has ended leaves behind only children that have ended too or that
\* lost their entry (dispatcher.rs:97-161).
THEOREM OrphansCorrect == Spec => []NoOtherOrphans
BY Invariance, PTL DEF IInv

-----------------------------------------------------------------------------
(* Names in the tables, and the counter.                                   *)

\* The name comes from a handler, or from the counter at a smaller number.
Known(p, name) ==
  name \in UserNames \/ \E l \in 0..(actor[p].offset - 1) : name = Anonymous(l)

\* Until its counter wraps, an actor has in its table names it knows.
NamesInv ==
  \A p \in Born : p \in wrapped \/ \A name \in DOMAIN actor[p].childrens : Known(p, name)


\* A new actor has a parent, the path of that and one name more, and no children.
Bears ==
  \A c \in Born' \ Born :
    /\ c # 1 /\ actor'[c].parent \in Born /\ actor'[c].childrens = <<>>
    /\ \E name \in NameSet : actor'[c].path = Div(actor[actor'[c].parent].path, name)

\* One new actor, below p.
LEMMA BornBelow ==
  ASSUME TypeOK, Shape, NEW p \in Born, NEW name \in NameSet, NEW type \in Types, NEW c,
         actor'[c] = New(p, Div(actor[p].path, name), type)
  PROVE  /\ actor'[c].parent = p /\ actor'[c].childrens = <<>>
         /\ actor'[c].path = Div(actor[p].path, name)
<1>1. PICK path \in Seq(NameSet) : path = Div(actor[p].path, name)
  BY Typed, KeyDiv DEF Records
<1>2. /\ New(p, path, type).parent = p /\ New(p, path, type).childrens = <<>>
      /\ New(p, path, type).path = path
  BY DEF New
<1> QED
  BY <1>1, <1>2

LEMMA BearsBelow ==
  ASSUME TypeOK, Shape, NEW p \in Born,
         \A c \in Born' \ Born : \E name \in NameSet, type \in Types :
           actor'[c] = New(p, Div(actor[p].path, name), type)
  PROVE  Bears
<1>1. ASSUME NEW c \in Born' \ Born
      PROVE  /\ c # 1 /\ actor'[c].parent = p /\ actor'[c].childrens = <<>>
             /\ \E name \in NameSet : actor'[c].path = Div(actor[p].path, name)
  <2>1. PICK name \in NameSet, type \in Types :
          actor'[c] = New(p, Div(actor[p].path, name), type)
    OBVIOUS
  <2>2. /\ actor'[c].parent = p /\ actor'[c].childrens = <<>>
        /\ actor'[c].path = Div(actor[p].path, name)
    BY <2>1, BornBelow
  <2>3. c # 1
    BY Typed
  <2> QED
    BY <2>2, <2>3
<1> QED
  BY <1>1 DEF Bears

LEMMA BearsNone ==
  ASSUME born' = born
  PROVE  Bears
BY DEF Bears

LEMMA BearsStep ==
  ASSUME IInv, [Next]_vars
  PROVE  Bears /\ Grows
<1>0. TypeOK /\ Shape /\ ReportInv /\ EntryInv
  BY DEF IInv
<1>1. ASSUME NEW p \in Actors, NEW name \in NameSet, NEW type \in Types,
             NEW offset \in 0..MaxOffset, Inserts(p, name, type, offset)
      PROVE  Bears /\ Grows
  <2>1. /\ p \in Born /\ born' = born + 1
        /\ actor'[born'] = New(p, Div(actor[p].path, name), type)
    BY <1>0, <1>1, InsertEffect DEF Inserts
  <2>2. \A c \in Born' \ Born : c = born'
    BY <1>0, <2>1, Typed
  <2>4. Bears
    BY <1>0, <2>1, <2>2, BearsBelow
  <2>3. Grows
    BY <1>0, <1>1, GrowsInserts
  <2> QED
    BY <2>3, <2>4
<1>2. ASSUME NEW p \in Actors, NEW offset \in 0..MaxOffset, Counts(p, offset)
      PROVE  Bears /\ Grows
  BY <1>0, <1>2, BearsNone, GrowsCounts DEF Counts
<1>3. ASSUME NEW a \in Actors, Stop(a) PROVE Bears /\ Grows
  BY <1>0, <1>3, BearsNone, GrowsStop DEF Stop
<1>4. ASSUME NEW a \in Actors, Closes(a) PROVE Bears /\ Grows
  BY <1>0, <1>4, BearsNone, GrowsCloses DEF Closes
<1>5. ASSUME NEW a \in Actors, NEW lost \in SUBSET Born, Ends(a, lost) PROVE Bears /\ Grows
  <2>1. /\ a \in Born /\ born' \in Actors
        /\ \A x \in Actors : x > born /\ x <= born' =>
             \E name \in NameSet : actor'[x] = New(a, Div(actor[a].path, name), SomeType)
    BY <1>0, <1>5, TerminateEffect DEF Ends
  <2>2. Grows
    BY <1>0, <1>5, GrowsEnds
  <2>3. \A c \in Born' \ Born : c \in Actors /\ c > born /\ c <= born'
    BY <1>0, <2>1, Typed
  <2>4. \A c \in Born' \ Born : \E name \in NameSet, type \in Types :
          actor'[c] = New(a, Div(actor[a].path, name), type)
    BY <2>1, <2>3, SomeTypeTyped
  <2>5. Bears
    BY <1>0, <2>1, <2>4, BearsBelow
  <2> QED
    BY <2>2, <2>5
<1>6. ASSUME NEW a \in Actors, NEW m \in Internal, Forgets(a, m) PROVE Bears /\ Grows
  BY <1>0, <1>6, BearsNone, GrowsForgets DEF Forgets
<1>7. ASSUME UNCHANGED vars PROVE Bears /\ Grows
  <2>1. Grows
    BY <1>0, <1>7, Typed DEF vars, Grows
  <2> QED
    BY <1>7, <2>1, BearsNone DEF vars
<1> QED
  BY <1>0, <1>1, <1>2, <1>3, <1>4, <1>5, <1>6, <1>7, StepCases

\* What a step does to the table and the counter of an actor.
Counted(p) ==
  /\ actor'[p].offset = NextOffset(actor[p].offset)
  /\ DOMAIN actor'[p].childrens \subseteq {random_name(p)} \cup DOMAIN actor[p].childrens
  /\ NextOffset(actor[p].offset) = 0 => p \in wrapped'
  /\ born' = born + 1 \/ random_name(p) \in DOMAIN actor[p].childrens

Uncounted(p) ==
  /\ actor'[p].offset = actor[p].offset
  /\ DOMAIN actor'[p].childrens \subseteq UserNames \cup DOMAIN actor[p].childrens

TablesChange == wrapped \subseteq wrapped' /\ \A p \in Born : Counted(p) \/ Uncounted(p)

LEMMA UncountedSame ==
  ASSUME NEW p, actor'[p] = actor[p]
  PROVE  Uncounted(p)
BY DEF Uncounted

LEMMA TablesInsert ==
  ASSUME TypeOK, Shape, NEW p \in Actors, NEW name \in NameSet, NEW type \in Types,
         NEW offset \in 0..MaxOffset, Handling(p), Insert(p, name, type, offset)
  PROVE  /\ actor'[p].offset = offset /\ born' = born + 1
         /\ DOMAIN actor'[p].childrens = {name} \cup DOMAIN actor[p].childrens
         /\ \A x \in Born : x # p => actor'[x] = actor[x]
<1>1. /\ p \in Born /\ born' = born + 1 /\ born' \in Actors
      /\ actor'[p] = WithChild(p, name, born', offset)
      /\ \A a \in Actors \ {p, born'} : actor'[a] = actor[a]
  BY InsertEffect
<1>2. actor[p] \in Records /\ born \in Nat /\ born \in Actors
  BY Typed
<1>3. actor'[p].offset = offset
  BY <1>1, <1>2 DEF WithChild, Records
<1>4. DOMAIN actor'[p].childrens = {name} \cup DOMAIN actor[p].childrens
  BY <1>1, ChildEntered
<1>5. \A x \in Born : x # p => x \in Actors \ {p, born'}
  BY <1>1, <1>2
<1> QED
  BY <1>1, <1>3, <1>4, <1>5

LEMMA TablesCreate ==
  ASSUME TypeOK, Shape, NEW p \in Actors, create_child(p)
  PROVE  TablesChange
<1> DEFINE name == random_name(p)
           next == NextOffset(actor[p].offset)
<1>1. Handling(p) /\ wrapped' = IF next = 0 THEN wrapped \cup {p} ELSE wrapped
  BY DEF create_child
<1>2. name \in NameSet /\ next \in 0..MaxOffset
  BY NamesTyped
<1>3. wrapped \subseteq wrapped' /\ (next = 0 => p \in wrapped')
  BY <1>1
<1>4. PICK type \in Types :
        \/ Insert(p, name, type, next)
        \/ get_child(p, name, type) /\ actor' = [actor EXCEPT ![p].offset = next]
  BY DEF create_child
<1> HIDE DEF name, next
<1>5. CASE Insert(p, name, type, next)
  <2>1. /\ actor'[p].offset = next /\ born' = born + 1
        /\ DOMAIN actor'[p].childrens = {name} \cup DOMAIN actor[p].childrens
        /\ \A x \in Born : x # p => actor'[x] = actor[x]
    BY <1>1, <1>2, <1>5, TablesInsert
  <2>2. Counted(p)
    BY <1>3, <2>1 DEF Counted, name, next
  <2> QED
    BY <1>3, <2>1, <2>2, UncountedSame DEF TablesChange
<1>6. CASE get_child(p, name, type) /\ actor' = [actor EXCEPT ![p].offset = next]
  <2>1. /\ actor'[p] = [actor[p] EXCEPT !.offset = next]
        /\ \A a \in Actors \ {p} : actor'[a] = actor[a]
    BY <1>2, <1>6, OffsetEffect
  <2>2. actor[p] \in Records /\ born \in Actors
    BY Typed
  <2>3. actor'[p].offset = next /\ actor'[p].childrens = actor[p].childrens
    BY <2>1, <2>2 DEF Records
  <2>4. Counted(p)
    BY <1>3, <1>6, <2>3 DEF Counted, name, next, get_child
  <2>5. \A x \in Born : x # p => x \in Actors \ {p}
    BY <2>2
  <2> QED
    BY <1>3, <2>1, <2>4, <2>5, UncountedSame DEF TablesChange
<1> QED
  BY <1>4, <1>5, <1>6

LEMMA TablesLess ==
  ASSUME TypeOK, Shape, NEW a \in Actors, UNCHANGED wrapped,
         actor'[a].offset = actor[a].offset,
         DOMAIN actor'[a].childrens \subseteq DOMAIN actor[a].childrens,
         \A x \in Actors \ {a} : x \in Born => actor'[x] = actor[x]
  PROVE  TablesChange
<1>1. born \in Actors /\ \A x \in Born : x \in Actors
  BY Typed
<1>2. Uncounted(a)
  BY DEF Uncounted
<1> QED
  BY <1>1, <1>2, UncountedSame DEF TablesChange

LEMMA TablesProcess ==
  ASSUME TypeOK, Shape, ReportInv, EntryInv, NEW a \in Actors, Process(a)
  PROVE  TablesChange
<1>0. actor[a] \in Records
  BY Typed
<1>1. CASE Closes(a)
  <2>1. /\ actor'[a] = [actor[a] EXCEPT !.state = "closed", !.suspended = TRUE]
        /\ \A x \in Actors \ {a} : actor'[x] = actor[x]
    BY <1>1, ClosesEffect DEF Closed
  <2>2. actor'[a].offset = actor[a].offset /\ actor'[a].childrens = actor[a].childrens
    BY <1>0, <2>1 DEF Records
  <2> QED
    BY <1>1, <2>1, <2>2, TablesLess DEF Closes
<1>2. ASSUME NEW lost, Ends(a, lost) PROVE TablesChange
  <2>1. /\ actor'[a] = [actor[a] EXCEPT !.state = "gone", !.childrens = <<>>, !.suspended = FALSE]
        /\ \A x \in Actors \ {a} : x \in Born => actor'[x] = actor[x]
    BY <1>2, TerminateEffect DEF Ends
  <2>2. actor'[a].offset = actor[a].offset /\ actor'[a].childrens = <<>>
    BY <1>0, <2>1 DEF Records
  <2>3. DOMAIN actor'[a].childrens = {}
    BY <2>2
  <2> QED
    BY <1>2, <2>1, <2>2, <2>3, TablesLess DEF Ends
<1>3. ASSUME NEW m, Forgets(a, m) PROVE TablesChange
  <2>1. /\ actor'[a] = [actor[a] EXCEPT !.childrens = Left(a, m)]
        /\ \A x \in Actors \ {a} : actor'[x] = actor[x]
        /\ DOMAIN Left(a, m) = DOMAIN actor[a].childrens \ {key(m.path)}
    BY <1>3, ForgetsEffect DEF Forgot
  <2>2. actor'[a].offset = actor[a].offset /\ actor'[a].childrens = Left(a, m)
    BY <1>0, <2>1 DEF Records
  <2>3. DOMAIN actor'[a].childrens \subseteq DOMAIN actor[a].childrens
    BY <2>1, <2>2
  <2> QED
    BY <1>3, <2>1, <2>2, <2>3, TablesLess DEF Forgets
<1> QED
  BY <1>1, <1>2, <1>3, ProcessCases

LEMMA TablesStep ==
  ASSUME TypeOK, Shape, ReportInv, EntryInv, [Next]_vars
  PROVE  TablesChange
<1>1. CASE UNCHANGED vars
  BY <1>1, UncountedSame DEF vars, TablesChange
<1>2. CASE Next
  <2> PICK a \in Actors : get_or_create_child(a) \/ create_child(a) \/ Stop(a) \/ Process(a)
    BY <1>2 DEF Next
  <2>1. CASE get_or_create_child(a)
    <3>1. PICK name \in UserNames, type \in Types : Insert(a, name, type, actor[a].offset)
      BY <2>1 DEF get_or_create_child
    <3>2. Handling(a) /\ wrapped' = wrapped
      BY <2>1 DEF get_or_create_child
    <3>3. /\ actor'[a].offset = actor[a].offset
          /\ DOMAIN actor'[a].childrens = {name} \cup DOMAIN actor[a].childrens
          /\ \A x \in Born : x # a => actor'[x] = actor[x]
      <4>1. name \in NameSet /\ actor[a].offset \in 0..MaxOffset
        BY NamesTyped
      <4> QED
        BY <3>1, <3>2, <4>1, TablesInsert
    <3>4. Uncounted(a)
      BY <3>3 DEF Uncounted
    <3> QED
      BY <3>2, <3>3, <3>4, UncountedSame DEF TablesChange
  <2>2. CASE create_child(a)
    BY <2>2, TablesCreate
  <2>3. CASE Stop(a)
    BY <2>3, UncountedSame DEF Stop, TablesChange
  <2>4. CASE Process(a)
    BY <2>4, TablesProcess
  <2> QED
    BY <2>1, <2>2, <2>3, <2>4
<1> QED
  BY <1>1, <1>2

LEMMA KnownStill ==
  ASSUME NEW p, NEW name, Known(p, name), actor[p].offset \in Nat, actor'[p].offset \in Nat,
         actor[p].offset <= actor'[p].offset
  PROVE  Known(p, name)'
<1>1. \A l \in 0..(actor[p].offset - 1) : l \in 0..(actor'[p].offset - 1)
  OBVIOUS
<1> QED
  BY <1>1 DEF Known

LEMMA NamesStep ==
  ASSUME IInv, NamesInv, [Next]_vars
  PROVE  NamesInv'
<1>0. TypeOK /\ Shape /\ ReportInv /\ EntryInv
  BY DEF IInv
<1>1. TablesChange /\ Bears /\ Grows
  BY <1>0, TablesStep, BearsStep
<1>2. ASSUME NEW p \in Born', p \notin Born PROVE DOMAIN actor'[p].childrens = {}
  <2>1. actor'[p].childrens = <<>>
    BY <1>1, <1>2 DEF Bears
  <2> QED
    BY <2>1
<1>3. ASSUME NEW p \in Born, p \notin wrapped'
      PROVE  \A name \in DOMAIN actor'[p].childrens : Known(p, name)'
  <2>1. p \in Actors /\ p \notin wrapped
    BY <1>0, <1>1, <1>3, Typed DEF TablesChange
  <2>2. PICK offset \in Nat : offset = actor[p].offset
    BY <1>0, <2>1, Typed DEF Records
  <2>3. \A name \in DOMAIN actor[p].childrens : Known(p, name)
    BY <2>1 DEF NamesInv
  <2>4. CASE Uncounted(p)
    <3>1. actor'[p].offset = offset
      BY <2>2, <2>4 DEF Uncounted
    <3>2. ASSUME NEW name \in DOMAIN actor'[p].childrens PROVE Known(p, name)'
      <4>1. CASE name \in UserNames
        BY <4>1 DEF Known
      <4>2. CASE name \in DOMAIN actor[p].childrens
        BY <2>2, <2>3, <3>1, <4>2, KnownStill
      <4> QED
        BY <2>4, <4>1, <4>2 DEF Uncounted
    <3> QED
      BY <3>2
  <2>5. CASE Counted(p)
    <3>1. actor'[p].offset = offset + 1
      BY <1>3, <2>2, <2>5 DEF Counted, NextOffset
    <3>2. random_name(p) = Anonymous(offset)
      BY <2>2 DEF random_name, Anonymous
    <3>3. ASSUME NEW name \in DOMAIN actor'[p].childrens PROVE Known(p, name)'
      <4>1. CASE name = random_name(p)
        <5>1. offset \in 0..(actor'[p].offset - 1)
          BY <3>1
        <5> QED
          BY <3>2, <4>1, <5>1 DEF Known
      <4>2. CASE name \in DOMAIN actor[p].childrens
        <5>1. actor[p].offset \in Nat /\ actor'[p].offset \in Nat
              /\ actor[p].offset <= actor'[p].offset
          BY <2>2, <3>1
        <5> QED
          BY <2>3, <4>2, <5>1, KnownStill
      <4> QED
        BY <2>5, <4>1, <4>2 DEF Counted
    <3> QED
      BY <3>3
  <2> QED
    BY <1>1, <2>4, <2>5 DEF TablesChange
<1> QED
  BY <1>2, <1>3 DEF NamesInv

LEMMA NamesInit ==
  ASSUME Init
  PROVE  NamesInv
<1>1. born = 1 /\ 1 \in Actors /\ actor[1].childrens = <<>>
  BY DEF Init, New
<1>2. DOMAIN actor[1].childrens = {}
  BY <1>1
<1> QED
  BY <1>1, <1>2 DEF NamesInv

\* The next name of an actor whose counter has not wrapped is in its table only if
\* handlers use it.
LEMMA NextNameFree ==
  ASSUME TypeOK, Shape, NamesInv, NEW p \in Born, p \notin wrapped, random_name(p) \notin UserNames
  PROVE  random_name(p) \notin DOMAIN actor[p].childrens
<1>1. p \in Actors
  BY Typed
<1>2. PICK offset \in Nat : offset = actor[p].offset
  BY <1>1, Typed DEF Records
<1>3. random_name(p) = Anonymous(offset)
  BY <1>2 DEF random_name, Anonymous
<1>4. ASSUME Known(p, random_name(p)) PROVE FALSE
  <2>1. PICK l \in 0..(offset - 1) : Anonymous(offset) = Anonymous(l)
    BY <1>2, <1>3, <1>4 DEF Known
  <2>2. l = offset
    BY <2>1, AnonymousPlain
  <2> QED
    BY <2>1, <2>2
<1> QED
  BY <1>4 DEF NamesInv

\* create_child() brings a new actor to life each time, unless its counter has wrapped
\* or handlers use the name themselves: base64() gives no two numbers one name, for
\* numbers of any size, and a name in the table comes from a smaller one
\* (context.rs:55, :191).
THEOREM AnonymousCorrect == Spec => AnonymousNew
<1>1. Init => IInv /\ NamesInv
  BY InitIInv, NamesInit
<1>2. IInv /\ NamesInv /\ [Next]_vars => (IInv /\ NamesInv)'
  <2>1. IInv /\ [Next]_vars => IInv'
    BY TypeStep, ReportStep, EntryStep, TableStep, OrphanStep DEF IInv
  <2> QED
    BY <2>1, NamesStep
<1>3. IInv /\ NamesInv /\ [Next]_vars =>
        [\A p \in Born : actor'[p].offset # actor[p].offset =>
           born' = born + 1 \/ p \in wrapped \/ random_name(p) \in UserNames]_vars
  <2>1. ASSUME IInv, NamesInv, [Next]_vars, NEW p \in Born, actor'[p].offset # actor[p].offset,
               p \notin wrapped, random_name(p) \notin UserNames
        PROVE  born' = born + 1
    <3>1. TypeOK /\ Shape /\ ReportInv /\ EntryInv
      BY <2>1 DEF IInv
    <3>2. Counted(p)
      BY <2>1, <3>1, TablesStep DEF TablesChange, Uncounted
    <3>3. random_name(p) \notin DOMAIN actor[p].childrens
      BY <2>1, <3>1, NextNameFree
    <3> QED
      BY <3>2, <3>3 DEF Counted
  <2> QED
    BY <2>1
<1> QED
  BY <1>1, <1>2, <1>3, PTL DEF Spec, AnonymousNew

-----------------------------------------------------------------------------
(* Paths.                                                                  *)

\* The tree stands in the paths: a path is that of the parent and one name more.
PathOk(c) ==
  IF c = 1
  THEN actor[c].parent = 0 /\ actor[c].path = Div(UserPath, RootName)
  ELSE /\ actor[c].parent \in Born
       /\ \E name \in NameSet : actor[c].path = Div(actor[actor[c].parent].path, name)

PathInv == \A c \in Born : PathOk(c)

LEMMA PathInit ==
  ASSUME Init
  PROVE  PathInv
<1>1. /\ born = 1 /\ 1 \in Actors
      /\ actor[1] = New(Nobody, Div(UserPath, RootName), SomeType)
  BY DEF Init
<1>2. actor[1].parent = 0 /\ actor[1].path = Div(UserPath, RootName)
  BY <1>1 DEF New
<1> QED
  BY <1>1, <1>2 DEF PathInv, PathOk

LEMMA PathStep ==
  ASSUME IInv, PathInv, [Next]_vars
  PROVE  PathInv'
<1>0. TypeOK /\ Shape
  BY DEF IInv
<1>1. Bears /\ Grows
  BY BearsStep
<1>2. born \in Nat /\ born' \in Nat /\ born <= born' /\ Born \subseteq Born'
  BY <1>0, <1>1, Typed DEF Grows
<1>3. ASSUME NEW c \in Born PROVE PathOk(c)'
  <2>1. PathOk(c)
    BY DEF PathInv
  <2>2. actor'[c].parent = actor[c].parent /\ actor'[c].path = actor[c].path
    BY <1>1 DEF Grows
  <2>3. CASE c = 1
    BY <2>1, <2>2, <2>3 DEF PathOk
  <2>4. CASE c # 1
    <3>1. PICK p \in Born : p = actor[c].parent
      BY <2>1, <2>4 DEF PathOk
    <3>2. PICK name \in NameSet : actor[c].path = Div(actor[p].path, name)
      BY <2>1, <2>4, <3>1 DEF PathOk
    <3>3. actor'[p].path = actor[p].path /\ p \in Born'
      BY <1>1, <1>2 DEF Grows
    <3> QED
      BY <2>2, <2>4, <3>1, <3>2, <3>3 DEF PathOk
  <2> QED
    BY <2>3, <2>4
<1>4. ASSUME NEW c \in Born', c \notin Born PROVE PathOk(c)'
  <2>1. PICK p \in Born : p = actor'[c].parent /\ c # 1
    BY <1>1, <1>4 DEF Bears
  <2>2. PICK name \in NameSet : actor'[c].path = Div(actor[p].path, name)
    BY <1>1, <1>4, <2>1 DEF Bears
  <2>3. actor'[p].path = actor[p].path /\ p \in Born'
    BY <1>1, <1>2 DEF Grows
  <2> QED
    BY <2>1, <2>2, <2>3 DEF PathOk
<1> QED
  BY <1>3, <1>4 DEF PathInv

LEMMA NamesText == NameSet \subseteq Text
<1>1. UserNames \subseteq Text /\ RootName \in Text
  BY SupervisionAssumption
<1>2. \A l \in 0..MaxOffset : <<"$">> \o base64[l] \in Text
  BY AnonymousPlain DEF Anonymous, PlainNames
<1>3. <<"u">> \in Text
  BY UserPathIs DEF PlainNames
<1> QED
  BY <1>1, <1>2, <1>3 DEF NameSet, Names

LEMMA PathsTyped ==
  ASSUME TypeOK, Shape, PathInv
  PROVE  \A c \in Born : /\ actor[c].path \in Seq(Text)
                         /\ actor[c].path # <<>> /\ Len(actor[c].path) >= 2
<1>1. born \in Nat /\ \A c \in Born : c \in Actors
  BY Typed
<1>2. ASSUME NEW c \in Born PROVE actor[c].path \in Seq(Text)
  <2>1. actor[c].path \in Seq(NameSet)
    BY <1>1, Typed DEF Records
  <2> QED
    BY <2>1, NamesText, SeqMonotonic
<1> DEFINE short == {c \in Born : ~(Len(actor[c].path) >= 2)}
<1>3. ASSUME short # {} PROVE FALSE
  <2>1. PICK c \in short : \A d \in short : c <= d
    <3>1. short \in SUBSET Nat
      BY <1>1
    <3> HIDE DEF short
    <3> QED
      BY <3>1, <1>3, LeastElement
  <2>2. c \in Born /\ c \in Actors /\ ~(Len(actor[c].path) >= 2) /\ PathOk(c)
    BY <1>1, <2>1 DEF PathInv
  <2>3. CASE c = 1
    <3>1. PICK u \in Seq(Text) : u = UserPath /\ Len(u) = 1
      <4>1. << <<"u">> >> \in Seq(Text)
        BY UserPathIs DEF PlainNames
      <4>2. Len(<< <<"u">> >>) = 1
        OBVIOUS
      <4> QED
        BY <4>1, <4>2, UserPathIs
    <3>2. Len(Append(u, RootName)) = Len(u) + 1
      BY NamesText, AppendProperties DEF NameSet
    <3> QED
      BY <2>2, <2>3, <3>1, <3>2 DEF PathOk, Div
  <2>4. CASE c # 1
    <3>1. PICK p \in Born : p = actor[c].parent /\ p < c
      BY <1>1, <2>2, <2>4, Typed DEF PathOk
    <3>2. PICK name \in NameSet : actor[c].path = Append(actor[p].path, name)
      BY <2>2, <2>4, <3>1 DEF PathOk, Div
    <3>3. Len(actor[p].path) >= 2
      BY <1>1, <2>1, <2>2, <3>1
    <3>4. PICK path \in Seq(Text) : path = actor[p].path
      BY <1>2
    <3>5. Len(Append(path, name)) = Len(path) + 1 /\ Len(path) \in Nat
      BY NamesText, AppendProperties, LenProperties
    <3> QED
      BY <2>2, <3>2, <3>3, <3>4, <3>5
  <2> QED
    BY <2>3, <2>4
<1>4. \A c \in Born : Len(actor[c].path) >= 2
  BY <1>3
<1>5. \A c \in Born : actor[c].path # <<>>
  BY <1>4
<1> QED
  BY <1>2, <1>4, <1>5

\* The set of the actors above one, step by step.
LEMMA AncestorsIs ==
  ASSUME TypeOK, Shape
  PROVE  \A c \in Actors :
           Ancestors[c] = IF actor[c].parent = 0 THEN {}
                          ELSE {actor[c].parent} \cup Ancestors[actor[c].parent]
<1> DEFINE D == 0..MaxActors
           S == SUBSET D
           Up(c, f) == IF c = 0 \/ actor[c].parent = 0 THEN {}
                       ELSE {actor[c].parent} \cup f[actor[c].parent]
           F == [f \in [D -> S] |-> [c \in D |-> Up(c, f)]]
<1>1. ASSUME NEW c \in D, c # 0 PROVE actor[c].parent \in D /\ actor[c].parent < c
  <2>1. c \in Actors
    BY <1>1
  <2> QED
    BY <2>1, Typed
<1>2. ASSUME NEW f \in [D -> S], NEW c \in D PROVE Up(c, f) \in S
  BY <1>1, <1>2
<1>3. F \in [[D -> S] -> [D -> S]]
  BY <1>2
<1>4. Descends(F, D, S)
  <2>1. ASSUME NEW f \in [D -> S], NEW g \in [D -> S], NEW n \in D,
               \A m \in D : m < n => f[m] = g[m]
        PROVE  F[f][n] = F[g][n]
    <3>1. n # 0 => f[actor[n].parent] = g[actor[n].parent]
      BY <1>1, <2>1
    <3> QED
      BY <3>1
  <2> HIDE DEF F
  <2> QED
    BY <2>1 DEF Descends
<1>5. PICK g \in [D -> S] : F[g] = g
  <2>1. S # {}
    OBVIOUS
  <2>2. D \in SUBSET Nat
    OBVIOUS
  <2> HIDE DEF F, D, S
  <2>3. Solvable(F, D, S)
    BY <2>1, <2>2, <1>3, <1>4, Solution
  <2> QED
    BY <2>3 DEF Solvable
<1>6. g = [c \in D |-> Up(c, g)]
  BY <1>5
<1>7. Ancestors = [c \in D |-> Up(c, Ancestors)]
  BY <1>6, Zenon DEF Ancestors
<1> QED
  <2>1. \A c \in Actors : c \in D /\ c # 0
    OBVIOUS
  <2> QED
    BY <1>7, <2>1

LEMMA RootPath ==
  ASSUME PathInv, 1 \in Born
  PROVE  \E u \in Seq(Text) : /\ actor[1].path = Append(u, RootName)
                                    /\ RootName \in Text /\ Len(u) = 1
<1>1. << <<"u">> >> \in Seq(Text)
  BY UserPathIs DEF PlainNames
<1>2. Len(<< <<"u">> >>) = 1
  OBVIOUS
<1>3. RootName \in Text
  BY NamesText DEF NameSet
<1>4. actor[1].path = Append(UserPath, RootName)
  BY DEF PathInv, PathOk, Div
<1> QED
  BY <1>1, <1>2, <1>3, <1>4, UserPathIs

LEMMA ChildPath ==
  ASSUME TypeOK, Shape, PathInv, NEW c \in Born, c # 1
  PROVE  \E p \in Born, name \in Text :
           /\ p = actor[c].parent /\ p # 0 /\ p < c
           /\ actor[p].path \in Seq(Text)
           /\ actor[c].path = Append(actor[p].path, name)
<1>1. born \in Nat /\ \A x \in Born : x \in Actors
  BY Typed
<1>2. PICK p \in Born : p = actor[c].parent /\ p < c
  BY <1>1, Typed DEF PathInv, PathOk
<1>3. PICK name \in NameSet : actor[c].path = Append(actor[p].path, name)
  BY <1>2 DEF PathInv, PathOk, Div
<1>4. actor[p].path \in Seq(Text)
  BY PathsTyped
<1>5. name \in Text /\ p # 0
  BY <1>1, NamesText
<1> QED
  BY <1>2, <1>3, <1>4, <1>5

\* The names of one path come first in another exactly if an actor above has that path.
Above(a, c) ==
  IsStrictPrefix(actor[a].path, actor[c].path)
    <=> \E x \in Ancestors[c] : actor[x].path = actor[a].path

LEMMA AboveAll ==
  ASSUME TypeOK, Shape, PathInv
  PROVE  \A a, c \in Born : Above(a, c)
<1>1. born \in Nat /\ \A x \in Born : x \in Actors
  BY Typed
<1>2. ASSUME NEW a \in Born
      PROVE  \A c \in Born : Above(a, c)
  <2>1. PICK path \in Seq(Text) : path = actor[a].path /\ Len(path) >= 2
    BY PathsTyped
  <2> DEFINE wrong == {c \in Born : ~Above(a, c)}
  <2>2. ASSUME wrong # {} PROVE FALSE
    <3>1. PICK c \in wrong : \A d \in wrong : c <= d
      <4>1. wrong \in SUBSET Nat
        BY <1>1
      <4> HIDE DEF wrong
      <4> QED
        BY <4>1, <2>2, LeastElement
    <3>2. c \in Born /\ c \in Actors /\ ~Above(a, c)
      BY <1>1, <3>1
    <3>3. CASE c = 1
      <4>1. PICK u \in Seq(Text) :
              actor[1].path = Append(u, RootName) /\ RootName \in Text /\ Len(u) = 1
        BY <3>2, <3>3, RootPath
      <4>2. Ancestors[1] = {}
        BY <3>2, <3>3, AncestorsIs DEF PathInv, PathOk
      <4>3. ASSUME IsPrefix(path, u) PROVE FALSE
        <5>1. Len(path) <= Len(u)
          BY <4>3 DEF IsPrefix
        <5> QED
          BY <2>1, <4>1, <5>1, LenProperties
      <4>4. ~IsStrictPrefix(path, Append(u, RootName))
        BY <4>1, <4>3, PrefixAppend
      <4> QED
        BY <2>1, <3>2, <3>3, <4>1, <4>2, <4>4 DEF Above
    <3>4. CASE c # 1
      <4>1. PICK p \in Born, name \in Text :
              /\ p = actor[c].parent /\ p # 0 /\ p < c
              /\ actor[p].path \in Seq(Text)
              /\ actor[c].path = Append(actor[p].path, name)
        BY <3>2, <3>4, ChildPath
      <4>2. PICK up \in Seq(Text) : up = actor[p].path
        BY <4>1
      <4>3. IsStrictPrefix(path, Append(up, name)) <=> path = up \/ IsStrictPrefix(path, up)
        BY <4>1, PrefixAppend
      <4>4. Ancestors[c] = {p} \cup Ancestors[p]
        BY <3>2, <4>1, AncestorsIs
      <4>5. Above(a, p)
        <5>1. ~(c <= p)
          BY <1>1, <3>2, <4>1
        <5> QED
          BY <3>1, <4>1, <5>1
      <4>6. IsStrictPrefix(path, up) <=> \E x \in Ancestors[p] : actor[x].path = path
        BY <2>1, <4>2, <4>5 DEF Above
      <4>7. IsStrictPrefix(path, Append(up, name))
              <=> \E x \in Ancestors[c] : actor[x].path = path
        BY <4>2, <4>3, <4>4, <4>6
      <4> QED
        BY <2>1, <3>2, <4>1, <4>2, <4>7 DEF Above
    <3> QED
      BY <3>3, <3>4
  <2> QED
    BY <2>2
<1> QED
  BY <1>2

LEMMA ChildAll ==
  ASSUME TypeOK, Shape, PathInv
  PROVE  \A a, c \in Born :
           is_child_of(actor[c].path, actor[a].path) <=>
             c # 1 /\ actor[actor[c].parent].path = actor[a].path
<1>1. ASSUME NEW a \in Born, NEW c \in Born
      PROVE  is_child_of(actor[c].path, actor[a].path) <=>
               c # 1 /\ actor[actor[c].parent].path = actor[a].path
  <2>1. Len(actor[c].path) >= 2 /\ Len(actor[a].path) >= 2
    BY PathsTyped
  <2>2. PICK path \in Seq(Text) : path = actor[c].path
    BY PathsTyped
  <2>3. Len(path) > 1
    BY <2>1, <2>2, LenProperties
  <2>4. parent(actor[c].path) = Front(path)
    BY <2>2, <2>3 DEF parent
  <2>5. CASE c = 1
    <3>1. PICK u \in Seq(Text) :
            actor[1].path = Append(u, RootName) /\ RootName \in Text /\ Len(u) = 1
      BY <2>5, RootPath
    <3>2. Front(path) = u
      BY <2>2, <2>5, <3>1, FrontAppend
    <3>3. u # actor[a].path
      <4>1. PICK other \in Seq(Text) : other = actor[a].path /\ Len(other) >= 2
        BY PathsTyped
      <4>2. ASSUME u = other PROVE FALSE
        <5>1. Len(u) = 1
          BY <3>1
        <5>2. Len(other) >= 2
          BY <4>1
        <5>3. Len(u) >= 2
          BY <4>2, <5>2, Zenon
        <5> QED
          BY <5>1, <5>3
      <4> QED
        BY <4>1, <4>2
    <3> QED
      BY <2>4, <2>5, <3>2, <3>3 DEF is_child_of
  <2>6. CASE c # 1
    <3>1. PICK p \in Born, name \in Text :
            /\ p = actor[c].parent /\ actor[p].path \in Seq(Text)
            /\ actor[c].path = Append(actor[p].path, name)
      BY <2>6, ChildPath
    <3>2. Front(path) = actor[p].path
      BY <2>2, <3>1, FrontAppend
    <3> QED
      BY <2>4, <2>6, <3>1, <3>2 DEF is_child_of
  <2> QED
    BY <2>5, <2>6
<1> QED
  BY <1>1

\* Two paths of names that are neither blank nor hold a "/" tell by their text which is
\* above which, whatever the names (path.rs:41, :55-71, :78-86).
LEMMA AllTextAgrees == TextAgrees
<1>1. ASSUME NEW path \in Paths PROVE path \in Seq(PlainNames)
  <2>1. PICK n \in 0..3 : path \in [1..n -> {name \in Names : Plain(name)}]
    BY DEF Paths
  <2>2. {name \in Names : Plain(name)} \subseteq PlainNames
    BY NamesText DEF NameSet, PlainNames
  <2>3. path \in [1..n -> PlainNames] /\ n \in Nat
    BY <2>1, <2>2
  <2> QED
    BY <2>3
<1> QED
  BY <1>1, TextCorrect DEF TextAgrees

LEMMA PlainPathIs ==
  ASSUME NEW path \in Seq(Text), PlainPath(path)
  PROVE  path \in Seq(PlainNames)
<1>1. PICK n \in Nat : n = Len(path) /\ path \in [1..n -> Text] /\ DOMAIN path = 1..n
  BY LenProperties
<1>2. \A i \in 1..n : path[i] \in PlainNames
  BY <1>1 DEF PlainPath, PlainNames
<1>3. path \in [1..n -> PlainNames]
  BY <1>1, <1>2
<1> QED
  BY <1>3

LEMMA PathsHold ==
  ASSUME IInv, PathInv
  PROVE  PathsTell
<1>0. TypeOK /\ Shape
  BY DEF IInv
<1>1. ASSUME NEW a \in Born, NEW c \in Born
      PROVE  LET above == \E x \in Ancestors[c] : actor[x].path = actor[a].path IN
             /\ above => is_ancestor_of(actor[a].path, actor[c].path)
             /\ PlainPath(actor[a].path) /\ PlainPath(actor[c].path) =>
                  (is_ancestor_of(actor[a].path, actor[c].path) => above)
  <2> DEFINE above == \E x \in Ancestors[c] : actor[x].path = actor[a].path
  <2>1. PICK low \in Seq(Text) : low = actor[c].path
    BY <1>0, PathsTyped
  <2>2. PICK high \in Seq(Text) : high = actor[a].path /\ high # <<>>
    BY <1>0, PathsTyped
  <2>3. IsStrictPrefix(high, low) <=> above
    BY <1>0, <2>1, <2>2, AboveAll DEF Above
  <2> HIDE DEF above
  <2>4. above => is_ancestor_of(high, low)
    BY <2>2, <2>3, PrefixIsAncestor
  <2>5. ASSUME PlainPath(high), PlainPath(low), is_ancestor_of(high, low) PROVE above
    <3>1. high \in Seq(PlainNames) /\ low \in Seq(PlainNames)
      BY <2>5, PlainPathIs
    <3> QED
      BY <2>3, <2>5, <3>1, AncestorIsPrefix
  <2> QED
    BY <2>1, <2>2, <2>4, <2>5 DEF above
<1>2. \A a, c \in Born :
        is_child_of(actor[c].path, actor[a].path) <=>
          c # 1 /\ actor[actor[c].parent].path = actor[a].path
  BY <1>0, ChildAll
<1>3. TextAgrees
  BY AllTextAgrees
<1> QED
  BY <1>1, <1>2, <1>3 DEF PathsTell

\* The path of an actor above another is above it as text, and it is its parent's path
\* exactly if the parent has it: for any names whatever, any depth, and however often a
\* path is used again.  If no name in two paths is blank or holds a "/", one being above
\* the other as text means that an actor above has it (path.rs:41, :55-71, :78-86;
\* context.rs:212).
THEOREM PathsCorrect == Spec => []PathsTell
<1>1. Init => IInv /\ PathInv
  BY InitIInv, PathInit
<1>2. IInv /\ PathInv /\ [Next]_vars => (IInv /\ PathInv)'
  <2>1. IInv /\ [Next]_vars => IInv'
    BY TypeStep, ReportStep, EntryStep, TableStep, OrphanStep DEF IInv
  <2> QED
    BY <2>1, PathStep
<1>3. IInv /\ PathInv => PathsTell
  BY PathsHold
<1> QED
  BY <1>1, <1>2, <1>3, PTL DEF Spec
=============================================================================
