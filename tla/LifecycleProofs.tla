--------------------------- MODULE LifecycleProofs ---------------------------
(***************************************************************************)
(* The behaviours of an actor and the reply channels in its reach, for all *)
(* requests, every capacity and every number of behaviours and panics.     *)
(***************************************************************************)
EXTENDS Lifecycle, BufferLemmas, FiniteSetTheorems, FunctionTheorems, SequenceTheorems, TLAPS

USE AskAssumption, LifecycleAssumption
    DEF AskAssumption, LifecycleAssumption, None, Behaviours

-----------------------------------------------------------------------------
(* The invariant.                                                          *)

CallSet == {Check, Enter, Create, Report}
             \cup {Exit(b) : b \in Behaviours} \cup {Drop(b) : b \in Behaviours}

\* Check and Exit are on top or nowhere, Create and Report at the bottom or
\* nowhere; what is exited or dropped is an old behaviour.
Shape ==
  /\ todo \in Seq(CallSet)
  /\ \A i \in DOMAIN todo :
       /\ i > 1 => todo[i][1] \notin {"check", "exit"}
       /\ todo[i][1] \in {"create", "report"} => i = Len(todo)
       /\ todo[i][1] \in {"exit", "drop"} =>
            todo[i][2] \in 1..born /\ todo[i][2] \notin {current, pending}
       /\ todo[i][1] = "enter" => current # None

\* A behaviour that is pending is about to be made the current one, and if there
\* is none, one is to be created or the actor reports its end.
Control ==
  /\ current <= born /\ pending <= born
  /\ pending # None =>
       pending # current /\ (todo = <<>> => wedged)
         /\ (todo # <<>> => todo[1][1] \in {"check", "exit"})
  /\ todo # <<>> => life = "live" /\ ~wedged
  /\ wedged => life = "live"
  /\ life = "fresh" => born = 0
  /\ life = "live" /\ current = None /\ ~wedged =>
       \E i \in DOMAIN todo : todo[i][1] \in {"create", "report"}

StackInv == Shape /\ Control

\* Every behaviour is one of transit() or has a Create of its own; but for the
\* first one that Create is there because of a panic.
BornInv ==
  /\ born <= MaxBehaviours + panics
  /\ \A c \in Elements(todo) : c[1] = "create" =>
       /\ born < MaxBehaviours + panics
       /\ panics = 0 => todo[1][1] = "create"

\* Nothing is exited twice, and what is current has been or will be entered.
EnterInv ==
  /\ entered \in [Behaviours -> Nat] /\ exited \in [Behaviours -> Nat]
  /\ \A b \in Behaviours : exited[b] <= 1
  /\ \A b \in Behaviours : b > born \/ b \in {current, pending} => exited[b] = 0
  /\ \A c \in Elements(todo) : c[1] = "exit" => exited[c[2]] = 0
  /\ current # None /\ ~wedged /\ entered[current] = 0 => Enter \in Elements(todo)

\* As long as nothing was crossed, a transition is made at the bottom of the stack:
\* what is pending waits for the one Check there is, what leaves `current` is to
\* exit, and a Create or Report finds nothing there.
Straight ==
  /\ pending # None /\ ~wedged => todo = <<Check>>
  /\ \A i \in DOMAIN todo : todo[i] = Enter => i = Len(todo)
  /\ \A c \in Elements(todo) : c[1] \in {"create", "report"} => current = None
  /\ life = "gone" => current = None

Counted ==
  /\ \A b \in Behaviours :
       /\ exited[b] <= entered[b] /\ entered[b] <= 1
       /\ b > born \/ b = pending => entered[b] = 0
       /\ Exit(b) \in Elements(todo) => entered[b] = 1
       /\ exited[b] = 0 => b > born \/ b \in {current, pending} \/ Exit(b) \in Elements(todo)
  /\ Enter \in Elements(todo) => entered[current] = 0

PairInv == ~crossed => Straight /\ Counted

IInv == TypeOK /\ StackInv /\ BornInv /\ EnterInv /\ PairInv

-----------------------------------------------------------------------------
(* The stack.                                                              *)

LEMMA CallCases ==
  ASSUME NEW c \in CallSet
  PROVE  \/ c[1] \in {"check", "enter", "create", "report"} /\ c[2] = None
         \/ c[1] \in {"exit", "drop"} /\ c[2] \in Behaviours
  BY DEF CallSet, Check, Enter, Create, Report, Exit, Drop

LEMMA CallKinds ==
  /\ Check \in CallSet /\ Check[1] = "check"
  /\ Enter \in CallSet /\ Enter[1] = "enter"
  /\ Create \in CallSet /\ Create[1] = "create"
  /\ Report \in CallSet /\ Report[1] = "report"
  /\ \A b \in Behaviours : /\ Exit(b) \in CallSet /\ Exit(b)[1] = "exit" /\ Exit(b)[2] = b
                           /\ Drop(b) \in CallSet /\ Drop(b)[1] = "drop" /\ Drop(b)[2] = b
  BY DEF CallSet, Check, Enter, Create, Report, Exit, Drop

\* What is below the top stays below what is put in its place.
LEMMA ReturnStack ==
  ASSUME StackInv, todo # <<>>, NEW calls \in Seq(CallSet), Return(calls)
  PROVE  /\ todo' \in Seq(CallSet)
         /\ Len(todo') = Len(calls) + Len(todo) - 1
         /\ \A i \in 1..Len(calls) : i \in DOMAIN todo' /\ todo'[i] = calls[i]
         /\ \A i \in DOMAIN todo' : i > Len(calls) =>
              /\ i - Len(calls) + 1 \in DOMAIN todo /\ i - Len(calls) + 1 > 1
              /\ todo'[i] = todo[i - Len(calls) + 1]
         /\ \A i \in DOMAIN todo : i > 1 =>
              i + Len(calls) - 1 \in DOMAIN todo' /\ todo'[i + Len(calls) - 1] = todo[i]
<1>1. todo \in Seq(CallSet) /\ Len(todo) \in Nat /\ Len(calls) \in Nat
  BY DEF StackInv, Shape, Control
<1>2. /\ Tail(todo) \in Seq(CallSet) /\ Len(Tail(todo)) = Len(todo) - 1
      /\ \A i \in 1..(Len(todo) - 1) : Tail(todo)[i] = todo[i + 1]
  BY <1>1, HeadTailProperties
<1>3. todo' = calls \o Tail(todo)
  BY DEF Return
<1>4. /\ todo' \in Seq(CallSet) /\ Len(todo') = Len(calls) + Len(Tail(todo))
      /\ \A i \in 1..Len(todo') :
           todo'[i] = IF i <= Len(calls) THEN calls[i] ELSE Tail(todo)[i - Len(calls)]
  BY <1>2, <1>3, ConcatProperties
<1>5. ASSUME NEW i \in DOMAIN todo', i > Len(calls)
      PROVE  /\ i - Len(calls) + 1 \in DOMAIN todo /\ i - Len(calls) + 1 > 1
             /\ todo'[i] = todo[i - Len(calls) + 1]
  <2>1. i - Len(calls) \in 1..(Len(todo) - 1)
    BY <1>1, <1>2, <1>4, <1>5
  <2>2. todo'[i] = Tail(todo)[i - Len(calls)]
    <3>1. i \in 1..Len(todo') /\ ~(i <= Len(calls))
      BY <1>1, <1>2, <1>4, <1>5
    <3> QED
      BY <1>4, <3>1
  <2> QED
    BY <1>1, <1>2, <2>1, <2>2
<1>6. ASSUME NEW i \in DOMAIN todo, i > 1
      PROVE  i + Len(calls) - 1 \in DOMAIN todo' /\ todo'[i + Len(calls) - 1] = todo[i]
  <2>1. i - 1 \in 1..(Len(todo) - 1) /\ i + Len(calls) - 1 \in 1..Len(todo')
        /\ ~(i + Len(calls) - 1 <= Len(calls))
    BY <1>1, <1>2, <1>4, <1>6
  <2>2. todo'[i + Len(calls) - 1] = Tail(todo)[(i + Len(calls) - 1) - Len(calls)]
    BY <1>4, <2>1
  <2>3. (i + Len(calls) - 1) - Len(calls) = i - 1 /\ (i - 1) + 1 = i
    BY <1>1, <2>1
  <2>4. Tail(todo)[i - 1] = todo[(i - 1) + 1]
    BY <1>2, <2>1
  <2> QED
    BY <1>4, <2>1, <2>2, <2>3, <2>4
<1>7. \A i \in 1..Len(calls) : i \in DOMAIN todo' /\ todo'[i] = calls[i]
  BY <1>1, <1>2, <1>4
<1>8. Len(todo') = Len(calls) + Len(todo) - 1
  BY <1>1, <1>2, <1>4
<1> QED
  BY <1>4, <1>5, <1>6, <1>7, <1>8

LEMMA Return0 ==
  ASSUME StackInv, todo # <<>>, Return(<<>>)
  PROVE  /\ todo' \in Seq(CallSet) /\ Len(todo') = Len(todo) - 1
         /\ \A i \in DOMAIN todo' :
              i + 1 \in DOMAIN todo /\ i + 1 > 1 /\ todo'[i] = todo[i + 1]
         /\ \A i \in DOMAIN todo : i > 1 => i - 1 \in DOMAIN todo' /\ todo'[i - 1] = todo[i]
<1>1. PICK calls \in Seq(CallSet) : Len(calls) = 0 /\ Return(calls)
  <2>1. <<>> \in Seq(CallSet) /\ Len(<<>>) = 0
    OBVIOUS
  <2> QED
    BY <2>1
<1>2. /\ todo' \in Seq(CallSet)
      /\ Len(todo') = 0 + Len(todo) - 1
      /\ \A i \in DOMAIN todo' : i > 0 =>
           i - 0 + 1 \in DOMAIN todo /\ i - 0 + 1 > 1 /\ todo'[i] = todo[i - 0 + 1]
      /\ \A i \in DOMAIN todo : i > 1 =>
           i + 0 - 1 \in DOMAIN todo' /\ todo'[i + 0 - 1] = todo[i]
  BY <1>1, ReturnStack
<1>3. /\ todo \in Seq(CallSet) /\ Len(todo) \in Nat /\ DOMAIN todo = 1..Len(todo)
      /\ DOMAIN todo' = 1..Len(todo') /\ Len(todo') \in Nat
  BY <1>2 DEF StackInv, Shape, Control
<1>4. \A i \in DOMAIN todo' : i > 0 /\ i - 0 + 1 = i + 1
  BY <1>3
<1>5. \A i \in DOMAIN todo : i + 0 - 1 = i - 1
  BY <1>3
<1> QED
  BY <1>2, <1>3, <1>4, <1>5

LEMMA Return1 ==
  ASSUME StackInv, todo # <<>>, NEW x \in CallSet, Return(<<x>>)
  PROVE  /\ todo' \in Seq(CallSet) /\ Len(todo') = Len(todo)
         /\ DOMAIN todo' = DOMAIN todo /\ 1 \in DOMAIN todo' /\ todo'[1] = x
         /\ \A i \in DOMAIN todo' : i # 1 => i > 1 /\ todo'[i] = todo[i]
<1>1. PICK calls \in Seq(CallSet) : Len(calls) = 1 /\ calls[1] = x /\ Return(calls)
  <2>1. <<x>> \in Seq(CallSet) /\ Len(<<x>>) = 1 /\ <<x>>[1] = x
    OBVIOUS
  <2> QED
    BY <2>1
<1>2. /\ todo' \in Seq(CallSet)
      /\ Len(todo') = 1 + Len(todo) - 1
      /\ \A i \in 1..1 : i \in DOMAIN todo' /\ todo'[i] = calls[i]
      /\ \A i \in DOMAIN todo' : i > 1 =>
           i - 1 + 1 \in DOMAIN todo /\ i - 1 + 1 > 1 /\ todo'[i] = todo[i - 1 + 1]
  BY <1>1, ReturnStack
<1>3. /\ todo \in Seq(CallSet) /\ Len(todo) \in Nat /\ DOMAIN todo = 1..Len(todo)
      /\ DOMAIN todo' = 1..Len(todo') /\ Len(todo') \in Nat
  BY <1>2 DEF StackInv, Shape, Control
<1>4. \A i \in DOMAIN todo' : i \in Nat /\ i >= 1 /\ i - 1 + 1 = i
  BY <1>3
<1>5. 1 \in DOMAIN todo' /\ todo'[1] = x /\ Len(todo') = Len(todo)
  BY <1>1, <1>2, <1>3
<1> QED
  BY <1>2, <1>3, <1>4, <1>5

LEMMA Return2 ==
  ASSUME StackInv, todo # <<>>, NEW x \in CallSet, NEW y \in CallSet, Return(<<x, y>>)
  PROVE  /\ todo' \in Seq(CallSet) /\ Len(todo') = Len(todo) + 1
         /\ 1 \in DOMAIN todo' /\ todo'[1] = x /\ 2 \in DOMAIN todo' /\ todo'[2] = y
         /\ \A i \in DOMAIN todo' : i \notin {1, 2} =>
              i > 2 /\ i - 1 \in DOMAIN todo /\ i - 1 > 1 /\ todo'[i] = todo[i - 1]
         /\ \A i \in DOMAIN todo : i > 1 => i + 1 \in DOMAIN todo' /\ todo'[i + 1] = todo[i]
<1>1. PICK calls \in Seq(CallSet) :
        Len(calls) = 2 /\ calls[1] = x /\ calls[2] = y /\ Return(calls)
  <2>1. <<x, y>> \in Seq(CallSet) /\ Len(<<x, y>>) = 2 /\ <<x, y>>[1] = x /\ <<x, y>>[2] = y
    OBVIOUS
  <2> QED
    BY <2>1
<1>2. /\ todo' \in Seq(CallSet)
      /\ Len(todo') = 2 + Len(todo) - 1
      /\ \A i \in 1..2 : i \in DOMAIN todo' /\ todo'[i] = calls[i]
      /\ \A i \in DOMAIN todo' : i > 2 =>
           i - 2 + 1 \in DOMAIN todo /\ i - 2 + 1 > 1 /\ todo'[i] = todo[i - 2 + 1]
      /\ \A i \in DOMAIN todo : i > 1 =>
           i + 2 - 1 \in DOMAIN todo' /\ todo'[i + 2 - 1] = todo[i]
  <2> DEFINE n == Len(calls)
  <2>1. /\ todo' \in Seq(CallSet)
        /\ Len(todo') = n + Len(todo) - 1
        /\ \A i \in 1..n : i \in DOMAIN todo' /\ todo'[i] = calls[i]
        /\ \A i \in DOMAIN todo' : i > n =>
             i - n + 1 \in DOMAIN todo /\ i - n + 1 > 1 /\ todo'[i] = todo[i - n + 1]
        /\ \A i \in DOMAIN todo : i > 1 =>
             i + n - 1 \in DOMAIN todo' /\ todo'[i + n - 1] = todo[i]
    BY <1>1, ReturnStack
  <2>2. n = 2
    BY <1>1
  <2> HIDE DEF n
  <2> QED
    BY <2>1, <2>2
<1>3. /\ todo \in Seq(CallSet) /\ Len(todo) \in Nat /\ DOMAIN todo = 1..Len(todo)
      /\ DOMAIN todo' = 1..Len(todo') /\ Len(todo') \in Nat
  BY <1>2 DEF StackInv, Shape, Control
<1>4. /\ \A i \in DOMAIN todo' : i - 2 + 1 = i - 1 /\ (i \notin {1, 2} => i > 2)
      /\ \A i \in DOMAIN todo : i + 2 - 1 = i + 1
  BY <1>3
<1>5. 1 \in DOMAIN todo' /\ todo'[1] = x /\ 2 \in DOMAIN todo' /\ todo'[2] = y
  BY <1>1, <1>2
<1>6. Len(todo') = Len(todo) + 1
  BY <1>2, <1>3
<1> QED
  BY <1>2, <1>4, <1>5, <1>6

\* The types of what the stack is about.
Counters ==
  /\ born \in Nat /\ current \in Nat /\ pending \in Nat
  /\ life \in {"fresh", "live", "gone"} /\ wedged \in BOOLEAN

LEMMA TypedCounters ==
  ASSUME TypeOK
  PROVE  Counters
  BY DEF TypeOK, Counters

\* What user code may do to the counters: transit() once, or not at all.
Transits ==
  \/ born' = born /\ pending' = pending
  \/ born < MaxBehaviours /\ born' = born + 1 /\ pending' = born + 1

LEMMA CallbackTransits ==
  ASSUME NEW b, NEW got, NEW released, Callback(b, got, released)
  PROVE  Transits
  BY DEF Callback, transit, Transits

\* The call on top.
LEMMA Top ==
  ASSUME StackInv, NEW op, Next1(op)
  PROVE  /\ todo # <<>> /\ 1 \in DOMAIN todo /\ Head(todo) = todo[1]
         /\ todo[1][1] = op /\ todo[1] \in CallSet
         /\ life = "live" /\ ~wedged
  BY DEF StackInv, Shape, Control, Next1

\* Nothing the stack is about changes.
LEMMA StackUnchanged ==
  ASSUME StackInv, UNCHANGED <<todo, current, pending, born, life, wedged>>
  PROVE  StackInv'
  BY DEF StackInv, Shape, Control

\* The task is lost.
LEMMA StackUnwind ==
  ASSUME TypeOK, StackInv, life = "live", Unwind, UNCHANGED <<current, pending, born, life>>
  PROVE  StackInv'
<1>1. todo' = <<>> /\ wedged' = TRUE
  BY DEF Unwind
<1>2. todo' \in Seq(CallSet) /\ \A i \in DOMAIN todo' : FALSE
  BY <1>1
<1> QED
  BY <1>1, <1>2 DEF StackInv, Shape, Control

LEMMA Pair ==
  ASSUME NEW x, NEW y
  PROVE  <<x>> \o <<y>> = <<x, y>>
<1>1. <<x>> \in Seq({x, y}) /\ <<y>> \in Seq({x, y}) /\ <<x, y>> \in Seq({x, y})
  OBVIOUS
<1>2. <<x, y>> = Append(<<x>>, y)
  OBVIOUS
<1> QED
  BY <1>1, <1>2, AppendIsConcat

LEMMA StackCheck ==
  ASSUME TypeOK, StackInv, check_become
  PROVE  StackInv'
<1>1. /\ todo # <<>> /\ 1 \in DOMAIN todo /\ todo[1][1] = "check"
      /\ life = "live" /\ ~wedged /\ UNCHANGED <<born, life, wedged>>
  BY Top DEF check_become
<1>2. CASE pending = None
  <2>1. Return(<<>>) /\ UNCHANGED <<current, pending>>
    BY <1>2 DEF check_become
  <2>2. /\ todo' \in Seq(CallSet) /\ Len(todo') = Len(todo) - 1
        /\ \A i \in DOMAIN todo' :
             i + 1 \in DOMAIN todo /\ i + 1 > 1 /\ todo'[i] = todo[i + 1]
        /\ \A i \in DOMAIN todo : i > 1 => i - 1 \in DOMAIN todo' /\ todo'[i - 1] = todo[i]
    BY <1>1, <2>1, Return0
  <2>3. \A i \in DOMAIN todo' :
          /\ i > 1 => todo'[i][1] \notin {"check", "exit"}
          /\ todo'[i][1] \in {"create", "report"} => i = Len(todo')
          /\ todo'[i][1] \in {"exit", "drop"} =>
               todo'[i][2] \in 1..born' /\ todo'[i][2] \notin {current', pending'}
          /\ todo'[i][1] = "enter" => current' # None
    BY <1>1, <2>1, <2>2 DEF StackInv, Shape, Control
  <2>4. current' = None => \E i \in DOMAIN todo' : todo'[i][1] \in {"create", "report"}
    <3> SUFFICES ASSUME current' = None
                 PROVE  \E i \in DOMAIN todo' : todo'[i][1] \in {"create", "report"}
      OBVIOUS
    <3>1. PICK i \in DOMAIN todo : todo[i][1] \in {"create", "report"}
      BY <1>1, <2>1 DEF StackInv, Shape, Control
    <3>2. i > 1
      BY <1>1, <3>1 DEF StackInv, Shape, Control
    <3> QED
      BY <2>2, <3>1, <3>2
  <2> QED
    BY <1>1, <1>2, <2>1, <2>2, <2>3, <2>4 DEF StackInv, Shape, Control
<1>3. CASE pending # None /\ current = None
  <2>1. /\ Return(<<Enter>>) /\ current' = pending /\ pending' = None
    BY <1>3 DEF check_become
  <2>2. /\ todo' \in Seq(CallSet) /\ Len(todo') = Len(todo)
        /\ 1 \in DOMAIN todo' /\ todo'[1] = Enter
        /\ \A i \in DOMAIN todo' : i > 1 => i \in DOMAIN todo /\ todo'[i] = todo[i]
    BY <1>1, <2>1, Return1, CallKinds DEF StackInv, Shape, Control
  <2>3. \A i \in DOMAIN todo' :
          /\ i > 1 => todo'[i][1] \notin {"check", "exit"}
          /\ todo'[i][1] \in {"create", "report"} => i = Len(todo')
          /\ todo'[i][1] \in {"exit", "drop"} =>
               todo'[i][2] \in 1..born' /\ todo'[i][2] \notin {current', pending'}
          /\ todo'[i][1] = "enter" => current' # None
    BY <1>1, <1>3, <2>1, <2>2, CallKinds DEF StackInv, Shape, Control
  <2> QED
    BY <1>1, <1>3, <2>1, <2>2, <2>3 DEF StackInv, Shape, Control
<1>4. CASE pending # None /\ current # None
  <2>1. current \in Behaviours /\ current \in 1..born
    BY <1>4 DEF StackInv, Shape, Control, TypeOK
  <2>2. /\ Return(<<Exit(current), Enter>>) /\ current' = pending /\ pending' = None
    <3>1. <<Exit(current)>> \o <<Enter>> = <<Exit(current), Enter>>
      BY Pair
    <3> QED
      BY <1>4, <3>1 DEF check_become
  <2>3. /\ todo' \in Seq(CallSet) /\ Len(todo') = Len(todo) + 1
        /\ 1 \in DOMAIN todo' /\ todo'[1] = Exit(current) /\ todo'[2] = Enter
        /\ \A i \in DOMAIN todo' : i \notin {1, 2} =>
             i > 2 /\ i - 1 \in DOMAIN todo /\ i - 1 > 1 /\ todo'[i] = todo[i - 1]
    BY <1>1, <2>1, <2>2, Return2, CallKinds
  <2>4. \A i \in DOMAIN todo' :
          /\ i > 1 => todo'[i][1] \notin {"check", "exit"}
          /\ todo'[i][1] \in {"create", "report"} => i = Len(todo')
          /\ todo'[i][1] \in {"exit", "drop"} =>
               todo'[i][2] \in 1..born' /\ todo'[i][2] \notin {current', pending'}
          /\ todo'[i][1] = "enter" => current' # None
    <3> SUFFICES ASSUME NEW i \in DOMAIN todo'
                 PROVE  /\ i > 1 => todo'[i][1] \notin {"check", "exit"}
                        /\ todo'[i][1] \in {"create", "report"} => i = Len(todo')
                        /\ todo'[i][1] \in {"exit", "drop"} =>
                             /\ todo'[i][2] \in 1..born'
                             /\ todo'[i][2] \notin {current', pending'}
                        /\ todo'[i][1] = "enter" => current' # None
      OBVIOUS
    <3>1. CASE i = 1
      BY <1>1, <1>4, <2>1, <2>2, <2>3, <3>1, CallKinds DEF StackInv, Shape, Control
    <3>2. CASE i = 2
      BY <1>4, <2>2, <2>3, <3>2, CallKinds
    <3>3. CASE i \notin {1, 2}
      BY <1>1, <1>4, <2>2, <2>3, <3>3 DEF StackInv, Shape, Control
    <3> QED
      BY <2>3, <3>1, <3>2, <3>3
  <2>5. Shape'
    BY <2>3, <2>4 DEF Shape
  <2>6. Control'
    BY <1>1, <1>4, <2>2, TypedCounters DEF StackInv, Control, Counters
  <2> QED
    BY <2>5, <2>6 DEF StackInv
<1> QED
  BY <1>2, <1>3, <1>4

\* After a callback of an old or of the current behaviour there is a Check on top.
LEMMA StackCallback ==
  ASSUME TypeOK, StackInv, todo # <<>>, todo[1][1] \in {"exit", "enter"},
         UNCHANGED <<current, life, wedged>>, Transits,
         \/ todo[1][1] = "exit" /\ Return(<<Check, Drop(todo[1][2])>>)
         \/ todo[1][1] = "enter" /\ Return(<<Check>>)
  PROVE  StackInv'
<1>1. /\ born \in Nat /\ current \in Nat /\ pending \in Nat /\ born <= born' /\ born' \in Nat
      /\ pending' = pending \/ (pending' = born + 1 /\ born' = born + 1)
      /\ life = "live" /\ ~wedged /\ current <= born /\ pending <= born
      /\ pending # None => pending # current
  BY TypedCounters DEF Counters, Transits, StackInv, Control
<1>2. /\ todo' # <<>> /\ 1 \in DOMAIN todo' /\ todo'[1] = Check /\ todo' \in Seq(CallSet)
      /\ \A i \in DOMAIN todo' :
           /\ i > 1 => todo'[i][1] \notin {"check", "exit"}
           /\ todo'[i][1] \in {"create", "report"} => i = Len(todo')
           /\ todo'[i][1] \in {"exit", "drop"} =>
                todo'[i][2] \in 1..born /\ todo'[i][2] \notin {current, pending}
           /\ todo'[i][1] = "enter" => current # None
      /\ \A i \in DOMAIN todo : i > 1 =>
           \E j \in DOMAIN todo' : todo'[j] = todo[i]
  <2>1. CASE todo[1][1] = "exit" /\ Return(<<Check, Drop(todo[1][2])>>)
    <3>1. PICK b : b = todo[1][2]
      OBVIOUS
    <3>2. b \in 1..born /\ b \notin {current, pending} /\ b \in Behaviours
      BY <2>1, <3>1, Top DEF StackInv, Shape, TypeOK
    <3>3. /\ todo' \in Seq(CallSet) /\ Len(todo') = Len(todo) + 1
          /\ 1 \in DOMAIN todo' /\ todo'[1] = Check
          /\ 2 \in DOMAIN todo' /\ todo'[2] = Drop(b)
          /\ \A i \in DOMAIN todo' : i \notin {1, 2} =>
               i > 2 /\ i - 1 \in DOMAIN todo /\ i - 1 > 1 /\ todo'[i] = todo[i - 1]
          /\ \A i \in DOMAIN todo : i > 1 => i + 1 \in DOMAIN todo' /\ todo'[i + 1] = todo[i]
      BY <2>1, <3>1, <3>2, Return2, CallKinds
    <3>4. ASSUME NEW i \in DOMAIN todo'
          PROVE  /\ i > 1 => todo'[i][1] \notin {"check", "exit"}
                 /\ todo'[i][1] \in {"create", "report"} => i = Len(todo')
                 /\ todo'[i][1] \in {"exit", "drop"} =>
                      todo'[i][2] \in 1..born /\ todo'[i][2] \notin {current, pending}
                 /\ todo'[i][1] = "enter" => current # None
      <4>1. CASE i = 1
        BY <3>3, <4>1, CallKinds
      <4>2. CASE i = 2
        BY <3>2, <3>3, <4>2, CallKinds
      <4>3. CASE i \notin {1, 2}
        BY <3>3, <4>3 DEF StackInv, Shape
      <4> QED
        BY <4>1, <4>2, <4>3
    <3> QED
      BY <3>3, <3>4
  <2>2. CASE todo[1][1] = "enter" /\ Return(<<Check>>)
    <3>1. /\ todo' \in Seq(CallSet) /\ Len(todo') = Len(todo)
          /\ DOMAIN todo' = DOMAIN todo /\ 1 \in DOMAIN todo' /\ todo'[1] = Check
          /\ \A i \in DOMAIN todo' : i # 1 => i > 1 /\ todo'[i] = todo[i]
      BY <2>2, Return1, CallKinds
    <3>2. ASSUME NEW i \in DOMAIN todo'
          PROVE  /\ i > 1 => todo'[i][1] \notin {"check", "exit"}
                 /\ todo'[i][1] \in {"create", "report"} => i = Len(todo')
                 /\ todo'[i][1] \in {"exit", "drop"} =>
                      todo'[i][2] \in 1..born /\ todo'[i][2] \notin {current, pending}
                 /\ todo'[i][1] = "enter" => current # None
      <4>1. CASE i = 1
        BY <3>1, <4>1, CallKinds
      <4>2. CASE i # 1
        BY <3>1, <4>2 DEF StackInv, Shape
      <4> QED
        BY <4>1, <4>2
    <3>3. \A i \in DOMAIN todo : i > 1 => i \in DOMAIN todo' /\ todo'[i] = todo[i]
      BY <3>1 DEF StackInv, Shape
    <3> QED
      BY <3>1, <3>2, <3>3
  <2> QED
    BY <2>1, <2>2
<1>3. Shape'
  BY <1>1, <1>2 DEF Shape
<1>4. current = None => \E i \in DOMAIN todo' : todo'[i][1] \in {"create", "report"}
  <2> SUFFICES ASSUME current = None
               PROVE  \E i \in DOMAIN todo' : todo'[i][1] \in {"create", "report"}
    OBVIOUS
  <2>1. PICK i \in DOMAIN todo : todo[i][1] \in {"create", "report"}
    BY <1>1 DEF StackInv, Control
  <2>2. i > 1
    BY <2>1 DEF StackInv, Shape
  <2> QED
    BY <1>2, <2>1, <2>2
<1>5. Control'
  BY <1>1, <1>2, <1>4, CallKinds DEF Control
<1> QED
  BY <1>3, <1>5 DEF StackInv

\* The end of a call that leaves the counters alone, and no Create or Report.
LEMMA StackDrop ==
  ASSUME TypeOK, StackInv, todo # <<>>, todo[1][1] = "drop", Return(<<>>),
         UNCHANGED <<current, pending, born, life, wedged>>
  PROVE  StackInv'
<1>1. /\ todo' \in Seq(CallSet) /\ Len(todo') = Len(todo) - 1
      /\ \A i \in DOMAIN todo' :
           i + 1 \in DOMAIN todo /\ i + 1 > 1 /\ todo'[i] = todo[i + 1]
      /\ \A i \in DOMAIN todo : i > 1 => i - 1 \in DOMAIN todo' /\ todo'[i - 1] = todo[i]
  BY Return0
<1>2. pending = None /\ life = "live" /\ ~wedged
  BY DEF StackInv, Control
<1>3. Shape'
  BY <1>1 DEF StackInv, Shape
<1>4. current = None => \E i \in DOMAIN todo' : todo'[i][1] \in {"create", "report"}
  <2> SUFFICES ASSUME current = None
               PROVE  \E i \in DOMAIN todo' : todo'[i][1] \in {"create", "report"}
    OBVIOUS
  <2>1. PICK i \in DOMAIN todo : todo[i][1] \in {"create", "report"}
    BY <1>2 DEF StackInv, Control
  <2>2. i > 1
    BY <2>1 DEF StackInv, Shape
  <2> QED
    BY <1>1, <2>1, <2>2
<1>5. Control'
  BY <1>2, <1>4 DEF StackInv, Control
<1> QED
  BY <1>3, <1>5 DEF StackInv

\* Create and Report are the last calls on the stack.
LEMMA LastCall ==
  ASSUME StackInv, todo # <<>>, todo[1][1] \in {"create", "report"}
  PROVE  Len(todo) = 1 /\ DOMAIN todo = {1} /\ pending = None
<1>1. 1 \in DOMAIN todo /\ DOMAIN todo = 1..Len(todo) /\ Len(todo) \in Nat
  BY DEF StackInv, Shape
<1>2. Len(todo) = 1
  BY <1>1 DEF StackInv, Shape
<1> QED
  BY <1>1, <1>2 DEF StackInv, Control

LEMMA StackRecreate ==
  ASSUME TypeOK, StackInv, Recreate
  PROVE  StackInv'
<1>1. /\ todo # <<>> /\ todo[1][1] = "create" /\ life = "live" /\ ~wedged
      /\ born' = born + 1 /\ current' = born + 1 /\ Return(<<Enter>>)
      /\ UNCHANGED <<life, pending, wedged>>
  BY Top DEF Recreate
<1>2. Len(todo) = 1 /\ DOMAIN todo = {1} /\ pending = None
  BY <1>1, LastCall
<1>3. /\ todo' \in Seq(CallSet) /\ DOMAIN todo' = {1} /\ todo'[1] = Enter
  BY <1>1, <1>2, Return1, CallKinds
<1>4. born \in Nat
  BY TypedCounters DEF Counters
<1>5. Shape'
  BY <1>1, <1>3, <1>4, CallKinds DEF Shape
<1>6. Control'
  BY <1>1, <1>2, <1>3, <1>4 DEF Control
<1> QED
  BY <1>5, <1>6 DEF StackInv

LEMMA StackReport ==
  ASSUME TypeOK, StackInv, ReportEnd
  PROVE  StackInv'
<1>1. /\ todo # <<>> /\ todo[1][1] = "report" /\ life' = "gone" /\ ~wedged
      /\ Return(<<>>) /\ UNCHANGED <<current, pending, born, wedged>>
  BY Top DEF ReportEnd
<1>2. Len(todo) = 1 /\ pending = None
  BY <1>1, LastCall
<1>3. todo' \in Seq(CallSet) /\ DOMAIN todo' = {}
  BY <1>1, <1>2, Return0
<1>4. todo' = <<>>
  BY <1>3
<1>5. Shape'
  BY <1>3 DEF Shape
<1>6. Control'
  BY <1>1, <1>2, <1>4 DEF StackInv, Control
<1> QED
  BY <1>5, <1>6 DEF StackInv

\* When the actor is idle and alive it has a behaviour, and none is pending.
LEMMA IdleCurrent ==
  ASSUME TypeOK, StackInv, Idle, life = "live"
  PROVE  current \in 1..born /\ current \in Behaviours /\ pending = None
<1>1. \A i \in DOMAIN todo : FALSE
  BY DEF Idle
<1>2. current # None /\ pending = None
  BY <1>1 DEF Idle, StackInv, Control
<1> QED
  BY <1>2, TypedCounters DEF StackInv, Control, Counters, TypeOK

\* The stack of an actor that is told to stop, or whose handler panicked.
LEMMA StackExit ==
  ASSUME TypeOK, StackInv, Idle, life = "live", NEW c \in {Create, Report},
         current' = None, todo' = <<Exit(current), c>>, Transits, UNCHANGED <<life, wedged>>
  PROVE  StackInv'
<1>1. current \in 1..born /\ current \in Behaviours /\ pending = None
  BY IdleCurrent
<1>2. c \in CallSet /\ c[1] \in {"create", "report"}
  BY CallKinds
<1>3. /\ todo' \in Seq(CallSet) /\ DOMAIN todo' = {1, 2} /\ Len(todo') = 2
      /\ todo'[1] = Exit(current) /\ todo'[2] = c
  BY <1>1, <1>2, CallKinds
<1>4. /\ born \in Nat /\ born <= born' /\ current # pending' /\ pending' <= born'
      /\ born' \in Nat
  BY <1>1, TypedCounters DEF Counters, Transits
<1>5. Exit(current)[1] = "exit" /\ Exit(current)[2] = current
  BY <1>1, CallKinds
<1>6. Shape'
  BY <1>1, <1>2, <1>3, <1>4, <1>5 DEF Shape
<1>7. ~wedged
  BY DEF Idle
<1>8. Control'
  BY <1>1, <1>2, <1>3, <1>4, <1>5, <1>7 DEF Control
<1> QED
  BY <1>6, <1>8 DEF StackInv

LEMMA StackHandle ==
  ASSUME TypeOK, StackInv, Handle
  PROVE  StackInv'
<1>1. PICK m, released : process_message(m, released)
  BY DEF Handle
<1>2. Idle /\ life = "live" /\ UNCHANGED <<life, wedged>>
  BY DEF Handle
<1>3. Transits
  BY <1>1, CallbackTransits DEF process_message
<1>4. CASE Replace
  BY <1>2, <1>3, <1>4, StackExit DEF Replace
<1>5. CASE todo' = <<Check>> /\ UNCHANGED current
  <2>1. current \in 1..born /\ pending = None
    BY <1>2, IdleCurrent
  <2>2. todo' \in Seq(CallSet) /\ DOMAIN todo' = {1} /\ todo'[1] = Check
    BY <1>5, CallKinds
  <2>3. /\ born \in Nat /\ born <= born' /\ pending' <= born' /\ pending' # current
        /\ born' \in Nat
    BY <2>1, <1>3, TypedCounters DEF Counters, Transits
  <2>4. Shape'
    BY <2>2, CallKinds DEF Shape
  <2>5. Control'
    BY <1>2, <1>5, <2>1, <2>2, <2>3, CallKinds DEF Control, Idle
  <2> QED
    BY <2>4, <2>5 DEF StackInv
<1> QED
  BY <1>1, <1>4, <1>5 DEF process_message

LEMMA StackBegin ==
  ASSUME TypeOK, StackInv, Begin
  PROVE  StackInv'
<1>1. /\ life = "fresh" /\ life' = "live" /\ todo' = <<Create>> /\ born = 0 /\ ~wedged
      /\ UNCHANGED <<current, pending, born, wedged>>
  BY DEF Begin, StackInv, Control, Idle
<1>2. current = None /\ pending = None
  BY <1>1, TypedCounters DEF StackInv, Control, Counters
<1>3. todo' \in Seq(CallSet) /\ DOMAIN todo' = {1} /\ todo'[1] = Create /\ Len(todo') = 1
  BY <1>1, CallKinds
<1>4. Shape'
  BY <1>3, CallKinds DEF Shape
<1>5. Control'
  BY <1>1, <1>2, <1>3, CallKinds DEF Control
<1> QED
  BY <1>4, <1>5 DEF StackInv

LEMMA StackStep ==
  ASSUME TypeOK, StackInv, [Next]_vars
  PROVE  StackInv'
<1>1. CASE Begin
  BY <1>1, StackBegin
<1>2. CASE check_become
  BY <1>2, StackCheck
<1>3. CASE on_exit
  <2>1. /\ todo # <<>> /\ todo[1][1] = "exit" /\ Who = todo[1][2] /\ life = "live"
        /\ UNCHANGED <<current, life>>
    BY <1>3, Top DEF on_exit, Who
  <2>2. CASE Callback(Who, {}, unstashed) /\ Return(<<Check, Drop(Who)>>) /\ UNCHANGED wedged
    BY <2>1, <2>2, CallbackTransits, StackCallback
  <2>3. CASE Unwind /\ UNCHANGED <<born, pending>>
    BY <2>1, <2>3, StackUnwind
  <2> QED
    BY <1>3, <2>2, <2>3 DEF on_exit
<1>4. CASE DropOld
  BY <1>4, Top, StackDrop DEF DropOld
<1>5. CASE on_enter
  <2>1. /\ todo # <<>> /\ todo[1][1] = "enter" /\ life = "live"
        /\ UNCHANGED <<current, life>>
    BY <1>5, Top DEF on_enter
  <2>2. CASE Callback(current, {}, unstashed) /\ Return(<<Check>>) /\ UNCHANGED wedged
    BY <2>1, <2>2, CallbackTransits, StackCallback
  <2>3. CASE Unwind /\ UNCHANGED <<born, pending>>
    BY <2>1, <2>3, StackUnwind
  <2> QED
    BY <1>5, <2>2, <2>3 DEF on_enter
<1>6. CASE Recreate
  BY <1>6, StackRecreate
<1>7. CASE ReportEnd
  BY <1>7, StackReport
<1>8. CASE Handle
  BY <1>8, StackHandle
<1>9. CASE terminate
  BY <1>9, StackExit DEF terminate, Transits, Idle
<1>10. CASE Close \/ Callers \/ Futures \/ UNCHANGED vars
  BY <1>10, StackUnchanged DEF Close, Callers, Futures, FutureEnds, vars, lifeVars
<1> QED
  BY <1>1, <1>2, <1>3, <1>4, <1>5, <1>6, <1>7, <1>8, <1>9, <1>10 DEF Next, Run

-----------------------------------------------------------------------------
(* The calls on the stack, whatever their order.                           *)

Below == Elements(Tail(todo))

LEMMA ElementsSmall ==
  /\ Elements(<<>>) = {}
  /\ \A x : Elements(<<x>>) = {x}
  /\ \A x, y : Elements(<<x, y>>) = {x, y}
<1>1. Elements(<<>>) = {}
  BY DEF Elements
<1>2. ASSUME NEW x PROVE Elements(<<x>>) = {x}
  <2>1. DOMAIN <<x>> = {1} /\ <<x>>[1] = x
    OBVIOUS
  <2> QED
    BY <2>1 DEF Elements
<1>3. ASSUME NEW x, NEW y PROVE Elements(<<x, y>>) = {x, y}
  <2>1. DOMAIN <<x, y>> = {1, 2} /\ <<x, y>>[1] = x /\ <<x, y>>[2] = y
    OBVIOUS
  <2> QED
    BY <2>1 DEF Elements
<1> QED
  BY <1>1, <1>2, <1>3

LEMMA ReturnElements ==
  ASSUME StackInv, todo # <<>>
  PROVE  /\ Elements(todo) = {todo[1]} \cup Below
         /\ \A c \in Elements(todo) : c \in CallSet
         /\ \A c \in Below : c[1] \notin {"check", "exit"}
         /\ Return(<<>>) => Elements(todo') = Below
         /\ \A x \in CallSet : Return(<<x>>) => Elements(todo') = {x} \cup Below
         /\ \A x, y \in CallSet : Return(<<x, y>>) => Elements(todo') = {x, y} \cup Below
<1>1. /\ todo \in Seq(CallSet) /\ 1 \in DOMAIN todo /\ Head(todo) = todo[1]
      /\ Tail(todo) \in Seq(CallSet)
      /\ \A i \in DOMAIN Tail(todo) : i + 1 \in DOMAIN todo /\ i + 1 > 1 /\ Tail(todo)[i] = todo[i + 1]
  BY DEF StackInv, Shape
<1>2. Elements(todo) = {todo[1]} \cup Below
  BY <1>1, ElementsTail DEF Below
<1>3. \A c \in Elements(todo) : c \in CallSet
  BY <1>1 DEF Elements
<1>4. \A c \in Below : c[1] \notin {"check", "exit"}
  BY <1>1 DEF Below, Elements, StackInv, Shape
<1>5. ASSUME NEW calls \in Seq(CallSet), Return(calls)
      PROVE  Elements(todo') = Elements(calls) \cup Below
  <2>1. todo' = calls \o Tail(todo)
    BY <1>5 DEF Return
  <2>2. Tail(todo) \in Seq(CallSet)
    BY <1>1
  <2>3. Elements(calls \o Tail(todo)) = Elements(calls) \cup Elements(Tail(todo))
    BY ONLY <2>2, calls \in Seq(CallSet), ElementsConcat
  <2> QED
    BY <2>1, <2>3 DEF Below
<1>6. <<>> \in Seq(CallSet)
  OBVIOUS
<1>7. \A x, y \in CallSet : <<x>> \in Seq(CallSet) /\ <<x, y>> \in Seq(CallSet)
  OBVIOUS
<1>8. Return(<<>>) => Elements(todo') = Below
  BY <1>5, <1>6, ElementsSmall
<1>9. ASSUME NEW x \in CallSet, Return(<<x>>)
      PROVE  Elements(todo') = {x} \cup Below
  <2>1. <<x>> \in Seq(CallSet) /\ Elements(<<x>>) = {x}
    BY <1>7, ElementsSmall
  <2> QED
    BY <1>5, <1>9, <2>1
<1>10. ASSUME NEW x \in CallSet, NEW y \in CallSet, Return(<<x, y>>)
       PROVE  Elements(todo') = {x, y} \cup Below
  <2>1. <<x, y>> \in Seq(CallSet) /\ Elements(<<x, y>>) = {x, y}
    BY <1>7, ElementsSmall
  <2> QED
    BY <1>5, <1>10, <2>1
<1> QED
  BY <1>2, <1>3, <1>4, <1>8, <1>9, <1>10

\* What check_become() puts in its place.
LEMMA CheckReturns ==
  ASSUME check_become
  PROVE  \/ pending = None /\ Return(<<>>) /\ UNCHANGED <<current, pending>>
         \/ /\ pending # None /\ current = None /\ Return(<<Enter>>)
            /\ current' = pending /\ pending' = None
         \/ /\ pending # None /\ current # None /\ Return(<<Exit(current), Enter>>)
            /\ current' = pending /\ pending' = None
<1>1. CASE pending = None
  BY <1>1 DEF check_become
<1>2. CASE pending # None /\ current = None
  <2>1. <<>> \o <<Enter>> = <<Enter>>
    OBVIOUS
  <2> QED
    BY <1>2, <2>1 DEF check_become
<1>3. CASE pending # None /\ current # None
  <2>1. <<Exit(current)>> \o <<Enter>> = <<Exit(current), Enter>>
    BY Pair
  <2> QED
    BY <1>3, <2>1 DEF check_become
<1> QED
  BY <1>1, <1>2, <1>3

\* Whatever is done to the stack, a Create comes from nowhere but Begin and a panic.
LEMMA BornStep ==
  ASSUME TypeOK, StackInv, BornInv, [Next]_vars
  PROVE  BornInv'
<1>1. born \in Nat /\ panics \in Nat
  BY DEF TypeOK
<1>2. ASSUME UNCHANGED <<born, panics>>,
             \A c \in Elements(todo') : c[1] = "create" => c \in Elements(todo) /\ panics # 0
      PROVE  BornInv'
  BY <1>1, <1>2 DEF BornInv
<1>3. ASSUME todo # <<>>, todo[1][1] # "create"
      PROVE  \A c \in Below : c[1] = "create" => c \in Elements(todo) /\ panics # 0
  BY <1>3, ReturnElements DEF BornInv
<1>4. CASE Begin
  <2>1. /\ todo' = <<Create>> /\ UNCHANGED <<born, panics>> /\ life = "fresh"
    BY <1>4 DEF Begin
  <2>2. Elements(todo') = {Create} /\ todo'[1] = Create /\ born = 0
    BY <2>1, ElementsSmall DEF StackInv, Control
  <2> QED
    BY <1>1, <2>1, <2>2, CallKinds DEF BornInv
<1>5. CASE check_become
  <2>1. /\ todo # <<>> /\ todo[1][1] = "check" /\ UNCHANGED <<born, panics>>
    BY <1>5, Top DEF check_become
  <2>2. current # None => current \in Behaviours
    BY DEF TypeOK
  <2>3. \/ Return(<<>>) \/ Return(<<Enter>>)
        \/ current # None /\ Return(<<Exit(current), Enter>>)
    BY <1>5, CheckReturns
  <2>4. \A c \in Elements(todo') : c[1] = "create" => c \in Below
    BY <2>1, <2>2, <2>3, ReturnElements, CallKinds
  <2> QED
    BY <1>2, <1>3, <2>1, <2>4
<1>6. CASE on_exit \/ on_enter
  <2>1. todo # <<>> /\ todo[1][1] \in {"exit", "enter"}
    BY <1>6, Top DEF on_exit, on_enter
  <2>2. CASE Unwind /\ UNCHANGED born
    <3>1. Elements(todo') = {} /\ panics' = panics + 1
      BY <2>2, ElementsSmall DEF Unwind, Panic
    <3> QED
      BY <1>1, <2>2, <3>1 DEF BornInv
  <2>3. CASE /\ Transits /\ UNCHANGED panics
             /\ \/ todo[1][1] = "exit" /\ Return(<<Check, Drop(todo[1][2])>>)
                \/ Return(<<Check>>)
    <3>1. todo[1][1] = "exit" => todo[1][2] \in Behaviours
      <4>1. todo[1] \in CallSet
        BY <2>1, ReturnElements
      <4> QED
        BY <4>1, CallCases
    <3>2. \A c \in Elements(todo') : c[1] = "create" => c \in Below
      BY <2>1, <2>3, <3>1, ReturnElements, CallKinds
    <3>3. \A c \in Below : c[1] = "create" => c \in Elements(todo) /\ panics # 0
      BY <1>3, <2>1
    <3>4. born' <= MaxBehaviours + panics /\ (panics # 0 /\ born < MaxBehaviours + panics => born' < MaxBehaviours + panics)
      BY <1>1, <2>3 DEF Transits, BornInv
    <3> QED
      BY <1>1, <2>3, <3>2, <3>3, <3>4 DEF BornInv
  <2> QED
    BY <1>6, <2>2, <2>3, CallbackTransits DEF on_exit, on_enter, Next1, Who
<1>7. CASE DropOld
  <2>1. todo # <<>> /\ todo[1][1] = "drop" /\ Return(<<>>) /\ UNCHANGED <<born, panics>>
    BY <1>7, Top DEF DropOld
  <2>2. Elements(todo') = Below
    BY <2>1, ReturnElements
  <2> QED
    BY <1>2, <1>3, <2>1, <2>2
<1>8. CASE Recreate
  <2>1. /\ todo # <<>> /\ todo[1][1] = "create" /\ born' = born + 1 /\ Return(<<Enter>>)
        /\ UNCHANGED panics
    BY <1>8, Top DEF Recreate
  <2>2. DOMAIN todo = {1} /\ todo[1] \in Elements(todo)
    BY <2>1, LastCall, ReturnElements
  <2>3. DOMAIN todo' = {1} /\ todo'[1] = Enter
    BY <2>1, <2>2, Return1, CallKinds
  <2>4. born < MaxBehaviours + panics
    BY <2>1, <2>2 DEF BornInv
  <2> QED
    BY <1>1, <2>1, <2>3, <2>4, CallKinds DEF BornInv, Elements
<1>9. CASE ReportEnd
  <2>1. todo # <<>> /\ todo[1][1] = "report" /\ Return(<<>>) /\ UNCHANGED <<born, panics>>
    BY <1>9, Top DEF ReportEnd
  <2>2. Elements(todo') = Below
    BY <2>1, ReturnElements
  <2> QED
    BY <1>2, <1>3, <2>1, <2>2
<1>10. CASE Handle
  <2>1. PICK m, released : process_message(m, released)
    BY <1>10 DEF Handle
  <2>2. Transits /\ ((todo' = <<Check>> /\ UNCHANGED panics) \/ Replace)
    BY <2>1, CallbackTransits DEF process_message
  <2>3. CASE todo' = <<Check>> /\ UNCHANGED panics
    <3>1. Elements(todo') = {Check}
      BY <2>3, ElementsSmall
    <3> QED
      BY <1>1, <2>2, <2>3, <3>1, CallKinds DEF BornInv, Transits
  <2>4. CASE Replace
    <3>1. panics' = panics + 1
      BY <2>4 DEF Replace, Panic
    <3>2. born' < MaxBehaviours + panics'
      BY <1>1, <2>2, <3>1 DEF BornInv, Transits
    <3> QED
      BY <1>1, <2>2, <3>1, <3>2 DEF BornInv, Transits
  <2> QED
    BY <2>2, <2>3, <2>4
<1>11. CASE terminate
  <2>1. /\ Idle /\ life = "live" /\ todo' = <<Exit(current), Report>>
        /\ UNCHANGED <<born, panics>>
    BY <1>11 DEF terminate
  <2>2. Elements(todo') = {Exit(current), Report} /\ current \in Behaviours
    BY <2>1, ElementsSmall, IdleCurrent
  <2> QED
    BY <1>1, <2>1, <2>2, CallKinds DEF BornInv
<1>12. CASE Close \/ Callers \/ Futures \/ UNCHANGED vars
  BY <1>12 DEF Close, Callers, Futures, FutureEnds, vars, lifeVars, BornInv
<1> QED
  BY <1>4, <1>5, <1>6, <1>7, <1>8, <1>9, <1>10, <1>11, <1>12 DEF Next, Run

\* The call on top when it is on_exit() or on_enter(), and what it leaves.
LEMMA ExitOnTop ==
  ASSUME TypeOK, StackInv, on_exit
  PROVE  /\ todo # <<>> /\ todo[1] = Exit(Who) /\ todo[1] \in Elements(todo) /\ Who \in Behaviours
         /\ Who \in 1..born /\ Who \notin {current, pending} /\ ~wedged /\ life = "live"
         /\ UNCHANGED <<current, life, entered>>
         /\ exited' = [exited EXCEPT ![Who] = @ + 1]
         /\ \/ /\ Callback(Who, {}, unstashed) /\ Transits /\ Return(<<Check, Drop(Who)>>)
               /\ UNCHANGED <<panics, wedged>> /\ Elements(todo') = {Check, Drop(Who)} \cup Below
            \/ /\ Unwind /\ UNCHANGED <<born, pending, lent, stash, unstashed>>
               /\ Elements(todo') = {}
<1>1. /\ todo # <<>> /\ 1 \in DOMAIN todo /\ Who = todo[1][2] /\ todo[1] \in CallSet
      /\ todo[1][1] = "exit" /\ ~wedged /\ life = "live"
  BY Top DEF on_exit, Who
<1>2. todo[1] = Exit(Who) /\ Who \in Behaviours
  BY <1>1 DEF CallSet, Check, Enter, Create, Report, Exit, Drop
<1>3. Who \in 1..born /\ Who \notin {current, pending}
  BY <1>1 DEF StackInv, Shape
<1>4. Return(<<Check, Drop(Who)>>) => Elements(todo') = {Check, Drop(Who)} \cup Below
  BY <1>1, <1>2, ReturnElements, CallKinds
<1>5. Unwind => Elements(todo') = {}
  BY ElementsSmall DEF Unwind
<1>6. todo[1] \in Elements(todo)
  BY <1>1, ReturnElements
<1> QED
  BY <1>1, <1>2, <1>3, <1>4, <1>5, <1>6, CallbackTransits DEF on_exit

LEMMA EnterOnTop ==
  ASSUME TypeOK, StackInv, on_enter
  PROVE  /\ todo # <<>> /\ todo[1] = Enter /\ todo[1] \in Elements(todo) /\ current \in Behaviours
         /\ current \in 1..born /\ pending = None /\ ~wedged /\ life = "live"
         /\ UNCHANGED <<current, life, exited, crossed>>
         /\ entered' = [entered EXCEPT ![current] = @ + 1]
         /\ \/ /\ Callback(current, {}, unstashed) /\ Transits /\ Return(<<Check>>)
               /\ UNCHANGED <<panics, wedged>> /\ Elements(todo') = {Check} \cup Below
            \/ /\ Unwind /\ UNCHANGED <<born, pending, lent, stash, unstashed>>
               /\ Elements(todo') = {}
<1>1. /\ todo # <<>> /\ 1 \in DOMAIN todo /\ todo[1] \in CallSet
      /\ todo[1][1] = "enter" /\ ~wedged /\ life = "live"
  BY Top DEF on_enter
<1>2. todo[1] = Enter
  BY <1>1 DEF CallSet, Check, Enter, Create, Report, Exit, Drop
<1>3. current # None /\ pending = None
  BY <1>1 DEF StackInv, Shape, Control
<1>4. current \in Behaviours /\ current \in 1..born
  BY <1>3, TypedCounters DEF TypeOK, Counters, StackInv, Control
<1>5. Return(<<Check>>) => Elements(todo') = {Check} \cup Below
  BY <1>1, ReturnElements, CallKinds
<1>6. Unwind => Elements(todo') = {}
  BY ElementsSmall DEF Unwind
<1>7. todo[1] \in Elements(todo)
  BY <1>1, ReturnElements
<1> QED
  BY <1>1, <1>2, <1>3, <1>4, <1>5, <1>6, <1>7, CallbackTransits DEF on_enter

\* The same of check_become().
LEMMA CheckOnTop ==
  ASSUME TypeOK, StackInv, check_become
  PROVE  /\ todo # <<>> /\ todo[1] = Check /\ Elements(todo) = {Check} \cup Below
         /\ ~wedged /\ life = "live"
         /\ \/ /\ pending = None /\ Return(<<>>) /\ Elements(todo') = Below
               /\ UNCHANGED <<current, pending>>
            \/ /\ pending # None /\ current = None /\ current' = pending /\ pending' = None
               /\ Return(<<Enter>>) /\ Elements(todo') = {Enter} \cup Below
            \/ /\ pending # None /\ current # None /\ current' = pending /\ pending' = None
               /\ current \in Behaviours
               /\ Return(<<Exit(current), Enter>>)
               /\ Elements(todo') = {Exit(current), Enter} \cup Below
<1>1. /\ todo # <<>> /\ todo[1] \in CallSet /\ todo[1][1] = "check" /\ ~wedged /\ life = "live"
  BY Top DEF check_become
<1>2. todo[1] = Check
  BY <1>1 DEF CallSet, Check, Enter, Create, Report, Exit, Drop
<1>3. current # None => current \in Behaviours
  BY DEF TypeOK
<1> QED
  BY <1>1, <1>2, <1>3, CheckReturns, ReturnElements, CallKinds

LEMMA EnterStep ==
  ASSUME TypeOK, StackInv, EnterInv, [Next]_vars
  PROVE  EnterInv'
<1>1. /\ born \in Nat /\ current \in Nat /\ current <= born /\ pending <= born /\ pending \in Nat
  BY TypedCounters DEF Counters, StackInv, Control
<1>2. ASSUME UNCHANGED <<born, pending>> PROVE Transits
  BY <1>2 DEF Transits
<1>4. CASE Begin
  <2>1. /\ todo' = <<Create>> /\ UNCHANGED <<born, current, pending, entered, exited, wedged>>
        /\ current = None
    BY <1>1, <1>4 DEF Begin, StackInv, Control
  <2>2. Elements(todo') = {Create}
    BY <2>1, ElementsSmall
  <2> QED
    BY <1>1, <2>1, <2>2, CallKinds DEF EnterInv
<1>5. CASE check_become
  <2>1. UNCHANGED <<born, entered, exited, wedged>>
    BY <1>5 DEF check_become
  <2>2. CASE pending = None /\ Elements(todo') = Below /\ UNCHANGED <<current, pending>>
    <3>1. Elements(todo) = {Check} \cup Below /\ Enter # Check
      BY <1>5, CheckOnTop, CallKinds
    <3> QED
      BY <2>1, <2>2, <3>1 DEF EnterInv
  <2>3. CASE /\ pending # None /\ current' = pending /\ pending' = None
             /\ \/ Elements(todo') = {Enter} \cup Below
                \/ current \in Behaviours /\ Elements(todo') = {Exit(current), Enter} \cup Below
    <3>1. Elements(todo) = {Check} \cup Below
      BY <1>5, CheckOnTop
    <3>2. \A c \in Elements(todo') : c[1] = "exit" => exited[c[2]] = 0
      BY <2>3, <3>1, CallKinds DEF EnterInv
    <3> QED
      BY <2>1, <2>3, <3>2 DEF EnterInv
  <2> QED
    BY <1>5, <2>2, <2>3, CheckOnTop
<1>6. CASE on_exit
  <2>1. /\ Who \in Behaviours /\ Who \in 1..born /\ Who \notin {current, pending} /\ ~wedged
        /\ UNCHANGED <<current, entered>> /\ exited' = [exited EXCEPT ![Who] = @ + 1]
        /\ todo[1] = Exit(Who) /\ todo[1] \in Elements(todo) /\ todo # <<>>
    BY <1>6, ExitOnTop
  <2>2. exited[Who] = 0
    BY SMTT(30), <2>1, CallKinds DEF EnterInv
  <2>3. exited' \in [Behaviours -> Nat] /\ \A b \in Behaviours : exited'[b] <= 1
    BY <2>1, <2>2 DEF EnterInv
  <2>4. CASE Unwind /\ UNCHANGED <<born, pending>> /\ Elements(todo') = {}
    <3>1. wedged'
      BY <2>4 DEF Unwind
    <3> QED
      BY <1>1, <2>1, <2>3, <2>4, <3>1 DEF EnterInv
  <2>5. CASE Transits /\ UNCHANGED wedged /\ Elements(todo') = {Check, Drop(Who)} \cup Below
    <3>1. \A c \in Elements(todo') : c[1] # "exit"
      BY <2>1, <2>5, ReturnElements, CallKinds
    <3>2. Enter \in Elements(todo) => Enter \in Elements(todo')
      <4>1. Elements(todo) = {Exit(Who)} \cup Below /\ Enter # Exit(Who)
        BY <2>1, ReturnElements, CallKinds
      <4> QED
        BY <2>5, <4>1
    <3>3. \A b \in Behaviours : b > born' \/ b \in {current', pending'} =>
             b # Who /\ (b > born \/ b \in {current, pending})
      BY <1>1, <2>1, <2>5 DEF Transits
    <3> QED
      BY <2>1, <2>3, <2>5, <3>1, <3>2, <3>3 DEF EnterInv
  <2> QED
    BY <1>6, <2>4, <2>5, ExitOnTop
<1>7. CASE on_enter
  <2>1. /\ current \in Behaviours /\ ~wedged
        /\ UNCHANGED <<current, exited>> /\ entered' = [entered EXCEPT ![current] = @ + 1]
        /\ todo[1] = Enter /\ todo # <<>>
    BY <1>7, EnterOnTop
  <2>2. entered' \in [Behaviours -> Nat] /\ entered'[current] # 0
    BY <2>1 DEF EnterInv
  <2>3. CASE Unwind /\ UNCHANGED <<born, pending>> /\ Elements(todo') = {}
    BY <1>1, <2>1, <2>2, <2>3 DEF EnterInv
  <2>4. CASE Transits /\ Elements(todo') = {Check} \cup Below
    <3>1. \A c \in Elements(todo') : c[1] # "exit"
      BY <2>1, <2>4, ReturnElements, CallKinds
    <3>2. \A b \in Behaviours : b > born' \/ b \in {current', pending'} =>
             b > born \/ b \in {current, pending}
      BY <1>1, <2>1, <2>4 DEF Transits
    <3> QED
      BY <2>1, <2>2, <3>1, <3>2 DEF EnterInv
  <2> QED
    BY <1>7, <2>3, <2>4, EnterOnTop
<1>8. CASE DropOld
  <2>1. /\ todo # <<>> /\ todo[1][1] = "drop" /\ Return(<<>>)
        /\ UNCHANGED <<born, current, pending, entered, exited, wedged>>
    BY <1>8, Top DEF DropOld
  <2>2. Elements(todo') = Below /\ Elements(todo) = {todo[1]} \cup Below
    BY <2>1, ReturnElements
  <2>3. todo[1] # Enter
    BY <2>1, CallKinds
  <2> QED
    BY <1>2, <2>1, <2>2, <2>3 DEF EnterInv
<1>9. CASE Recreate
  <2>1. /\ todo # <<>> /\ todo[1][1] = "create" /\ Return(<<Enter>>)
        /\ born' = born + 1 /\ current' = born + 1 /\ UNCHANGED <<pending, entered, exited, wedged>>
    BY <1>9, Top DEF Recreate
  <2>2. Elements(todo') = {Enter} \cup Below
    BY <2>1, ReturnElements, CallKinds
  <2>3. \A c \in Elements(todo') : c[1] # "exit"
    BY <2>1, <2>2, ReturnElements, CallKinds
  <2>4. \A b \in Behaviours : b > born' \/ b \in {current', pending'} => b > born \/ b = pending
    BY <1>1, <2>1
  <2> QED
    BY <2>1, <2>2, <2>3, <2>4 DEF EnterInv
<1>10. CASE ReportEnd
  <2>1. /\ todo # <<>> /\ todo[1][1] = "report" /\ Return(<<>>)
        /\ UNCHANGED <<born, current, pending, entered, exited, wedged>>
    BY <1>10, Top DEF ReportEnd
  <2>2. Elements(todo') = Below /\ Elements(todo) = {todo[1]} \cup Below
    BY <2>1, ReturnElements
  <2>3. todo[1] # Enter
    BY <2>1, CallKinds
  <2> QED
    BY <2>1, <2>2, <2>3 DEF EnterInv
<1>11. CASE Handle
  <2>1. PICK m, released : process_message(m, released)
    BY <1>11 DEF Handle
  <2>2. /\ Transits /\ UNCHANGED <<entered, exited, wedged>> /\ ~wedged
        /\ todo = <<>> /\ current \in Behaviours /\ current <= born
    BY <1>11, <2>1, CallbackTransits, IdleCurrent DEF process_message, Handle, Idle
  <2>3. Elements(todo) = {}
    BY <2>2, ElementsSmall
  <2>4. entered[current] # 0
    BY <2>2, <2>3 DEF EnterInv
  <2>5. CASE todo' = <<Check>> /\ UNCHANGED current
    <3>1. \A c \in Elements(todo') : c[1] # "exit"
      BY <2>5, ElementsSmall, CallKinds
    <3>2. \A b \in Behaviours : b > born' \/ b \in {current', pending'} =>
             b > born \/ b \in {current, pending}
      BY <1>1, <2>2, <2>5 DEF Transits
    <3> QED
      BY <2>2, <2>4, <2>5, <3>1, <3>2 DEF EnterInv
  <2>6. CASE todo' = <<Exit(current), Create>> /\ current' = None
    <3>1. Elements(todo') = {Exit(current), Create}
      BY <2>6, ElementsSmall
    <3>2. \A b \in Behaviours : b > born' \/ b \in {current', pending'} =>
             b > born \/ b \in {current, pending}
      BY <1>1, <2>2, <2>6 DEF Transits
    <3>3. \A c \in Elements(todo') : c[1] = "exit" => exited[c[2]] = 0
      BY <2>2, <3>1, CallKinds DEF EnterInv
    <3> QED
      BY <2>2, <2>6, <3>2, <3>3 DEF EnterInv
  <2> QED
    BY <2>1, <2>5, <2>6 DEF process_message, Replace
<1>12. CASE terminate
  <2>1. /\ Idle /\ life = "live" /\ todo' = <<Exit(current), Report>> /\ current' = None
        /\ UNCHANGED <<born, pending, entered, exited>>
    BY <1>12 DEF terminate
  <2>2. Elements(todo') = {Exit(current), Report} /\ current \in Behaviours
    BY <2>1, ElementsSmall, IdleCurrent
  <2>3. \A c \in Elements(todo') : c[1] = "exit" => exited[c[2]] = 0
    BY <2>2, CallKinds DEF EnterInv
  <2>4. \A b \in Behaviours : b > born' \/ b \in {current', pending'} =>
           b > born \/ b \in {current, pending}
    BY <1>1, <2>1
  <2> QED
    BY <2>1, <2>3, <2>4 DEF EnterInv
<1>13. CASE Close \/ Callers \/ Futures \/ UNCHANGED vars
  BY <1>13 DEF Close, Callers, Futures, FutureEnds, vars, lifeVars, EnterInv
<1> QED
  BY <1>4, <1>5, <1>6, <1>7, <1>8, <1>9, <1>10, <1>11, <1>12, <1>13 DEF Next, Run

-----------------------------------------------------------------------------
(* What user code does with the reply channels.                            *)

With(fate, f) == {a \in DOMAIN fate : fate[a] = f}

LEMMA SetToSeqElements ==
  ASSUME NEW S, IsFiniteSet(S)
  PROVE  SetToSeq(S) \in Seq(S) /\ Elements(SetToSeq(S)) = S /\ Distinct(SetToSeq(S))
<1>1. /\ Cardinality(S) \in Nat
      /\ ExistsBijection(1..Cardinality(S), S)
  BY FS_CardinalityType
<1>2. PICK f \in Bijection(1..Cardinality(S), S) : TRUE
  BY <1>1 DEF ExistsBijection
<1>3. f \in [1..Cardinality(S) -> S] /\ IsInjective(f)
  BY <1>2 DEF Bijection, Injection, IsInjective
<1>4. PICK g : g = SetToSeq(S)
  OBVIOUS
<1>5. g \in [1..Cardinality(S) -> S] /\ IsInjective(g)
  BY <1>3, <1>4 DEF SetToSeq
<1>6. g \in Seq(S)
  BY <1>1, <1>5
<1>7. Distinct(g)
  BY <1>5 DEF IsInjective, Distinct
<1>8. Elements(g) = S
  <2>1. IsFiniteSet(1..Cardinality(S)) /\ Cardinality(1..Cardinality(S)) = Cardinality(S)
    BY <1>1, FS_Interval
  <2>2. g \in Injection(1..Cardinality(S), S)
    BY <1>5 DEF IsInjective, Injection
  <2>3. g \in Surjection(1..Cardinality(S), S)
    BY <2>1, <2>2, FS_Injection
  <2> QED
    BY <1>5, <2>3 DEF Surjection, Elements
<1> QED
  BY <1>4, <1>6, <1>7, <1>8

\* A callback, with the fate of each channel.
Fated(fate, b, got, released) ==
  /\ With(fate, "stash") \subseteq got
  /\ \/ /\ born < MaxBehaviours /\ born' = born + 1 /\ pending' = born + 1
        /\ held' = [[held EXCEPT ![b] = With(fate, "keep")]
                      EXCEPT ![pending] = {}, ![born + 1] = With(fate, "move")]
        /\ Settle(With(fate, "reply"), With(fate, "drop") \cup held[pending])
     \/ /\ With(fate, "move") = {}
        /\ held' = [held EXCEPT ![b] = With(fate, "keep")]
        /\ Settle(With(fate, "reply"), With(fate, "drop"))
        /\ UNCHANGED <<born, pending>>
  /\ lent' = lent \cup With(fate, "lend")
  /\ \/ stash' = stash \o SetToSeq(With(fate, "stash")) /\ unstashed' = released
     \/ stash' = SetToSeq(With(fate, "stash")) /\ unstashed' = released \o stash

LEMMA CallbackFate ==
  ASSUME NEW b, NEW got, NEW released, Callback(b, got, released)
  PROVE  \E fate \in [held[b] \cup got -> Fates] : Fated(fate, b, got, released)
  BY DEF Callback, transit, With, Fated

LEMMA SettleTypes ==
  ASSUME TypeOK, NEW replied, NEW dropped, Settle(replied, dropped)
  PROVE  /\ channel' \in [Asks -> {"unused", "open", "sent", "dropped"}]
         /\ \A a \in Asks : channel'[a] = IF a \in replied THEN "sent"
                                          ELSE IF a \in dropped THEN "dropped" ELSE channel[a]
  BY DEF TypeOK, AskTypeOK, Settle

LEMMA CallbackTypes ==
  ASSUME TypeOK, NEW b \in Behaviours, NEW got \in SUBSET Asks, IsFiniteSet(got),
         NEW released \in Seq(Asks), Callback(b, got, released)
  PROVE  /\ held' \in [Behaviours \cup {None} -> SUBSET Asks] /\ held'[None] = {}
         /\ lent' \subseteq Asks /\ stash' \in Seq(Asks) /\ unstashed' \in Seq(Asks)
         /\ channel' \in [Asks -> {"unused", "open", "sent", "dropped"}]
         /\ born' \in 0..(MaxBehaviours + MaxPanics) /\ pending' \in Behaviours \cup {None}
<1>1. PICK fate \in [held[b] \cup got -> Fates] : Fated(fate, b, got, released)
  BY CallbackFate
<1>2. \A f : With(fate, f) \subseteq Asks
  BY <1>1 DEF With, TypeOK
<1>3. SetToSeq(With(fate, "stash")) \in Seq(Asks)
  <2>1. IsFiniteSet(With(fate, "stash"))
    BY <1>1, FS_Subset DEF Fated
  <2>2. SetToSeq(With(fate, "stash")) \in Seq(With(fate, "stash"))
    BY <2>1, SetToSeqElements
  <2> QED
    BY <1>2, <2>2
<1>4. lent' \subseteq Asks /\ channel' \in [Asks -> {"unused", "open", "sent", "dropped"}]
  BY <1>1, <1>2, SettleTypes DEF TypeOK, Fated
<1>5. stash' \in Seq(Asks) /\ unstashed' \in Seq(Asks)
  <2>1. PICK new \in Seq(Asks) : new = SetToSeq(With(fate, "stash"))
    BY <1>3
  <2>2. stash \in Seq(Asks) /\ stash \o new \in Seq(Asks) /\ released \o stash \in Seq(Asks)
    BY DEF TypeOK
  <2> QED
    BY <1>1, <2>1, <2>2 DEF Fated
<1>6. CASE held' = [held EXCEPT ![b] = With(fate, "keep")] /\ UNCHANGED <<born, pending>>
  BY <1>2, <1>4, <1>5, <1>6 DEF TypeOK
<1>7. CASE /\ born < MaxBehaviours /\ born' = born + 1 /\ pending' = born + 1
           /\ held' = [[held EXCEPT ![b] = With(fate, "keep")]
                         EXCEPT ![pending] = {}, ![born + 1] = With(fate, "move")]
  <2>1. born + 1 \in Behaviours /\ born + 1 \in 0..(MaxBehaviours + MaxPanics)
    BY <1>7 DEF TypeOK
  <2>2. /\ held \in [Behaviours \cup {None} -> SUBSET Asks] /\ held[None] = {}
        /\ With(fate, "keep") \in SUBSET Asks /\ With(fate, "move") \in SUBSET Asks
    BY <1>2 DEF TypeOK
  <2>3. held' \in [Behaviours \cup {None} -> SUBSET Asks]
    BY <1>7, <2>1, <2>2
  <2>4. held'[None] = {}
    BY <1>7, <2>1, <2>2
  <2> QED
    BY <1>4, <1>5, <1>7, <2>1, <2>3, <2>4
<1> QED
  BY <1>1, <1>6, <1>7 DEF Fated

LEMMA UnwindTypes ==
  ASSUME TypeOK, Unwind
  PROVE  /\ held' \in [Behaviours \cup {None} -> SUBSET Asks] /\ held'[None] = {}
         /\ channel' \in [Asks -> {"unused", "open", "sent", "dropped"}]
         /\ panics' \in 0..MaxPanics /\ wedged'
  BY SettleTypes DEF TypeOK, Unwind, Panic

\* The steps of the callers.
LEMMA AskTypes ==
  ASSUME TypeOK, NEW a \in Asks, AskStep(a)
  PROVE  AskTypeOK'
<1> USE DEF TypeOK, AskTypeOK
<1>1. CASE UNCHANGED <<channel, message_queue, terminated>> /\ AskReturns(a)
  BY <1>1 DEF AskReturns, Becomes
<1>2. CASE Refused(a) /\ UNCHANGED terminated
  <2>1. channel' \in [Asks -> {"unused", "open", "sent", "dropped"}]
    BY <1>2, SettleTypes DEF Refused
  <2> QED
    BY <1>2, <2>1 DEF Refused, Becomes
<1>3. CASE Becomes(a, "push") /\ UNCHANGED <<channel, message_queue, terminated>>
  BY <1>3 DEF Becomes
<1>4. CASE /\ ~Full /\ Becomes(a, "waiting") /\ channel' = [channel EXCEPT ![a] = "open"]
           /\ message_queue' = Append(message_queue, a) /\ UNCHANGED terminated
  <2>1. message_queue' \in Seq(Asks) /\ Len(message_queue') = Len(message_queue) + 1
    BY <1>4
  <2>2. Capacity # 0 => Len(message_queue') <= Capacity
    BY <1>4, <2>1 DEF Full
  <2> QED
    BY <1>4, <2>1, <2>2 DEF Becomes
<1> QED
  BY <1>1, <1>2, <1>3, <1>4 DEF AskStep, AskCall, AskPush, AskReturns

LEMMA TypeStep ==
  ASSUME TypeOK, StackInv, BornInv, EnterInv, EnterInv', [Next]_vars
  PROVE  TypeOK'
<1>1. \A b \in Behaviours : exited'[b] <= 1
  BY DEF EnterInv
<1>2. ASSUME UNCHANGED askVars PROVE AskTypeOK'
  BY <1>2 DEF TypeOK, AskTypeOK, askVars
<1>3. ASSUME channel' \in [Asks -> {"unused", "open", "sent", "dropped"}],
             UNCHANGED <<asker, message_queue, terminated>>
      PROVE  AskTypeOK'
  BY <1>3 DEF TypeOK, AskTypeOK
<1>4. CASE Begin
  BY <1>1, <1>2, <1>4 DEF Begin, TypeOK
<1>5. CASE check_become
  BY <1>1, <1>2, <1>5, CheckReturns DEF check_become, TypeOK
<1>6. CASE on_exit
  <2>1. UNCHANGED <<asker, message_queue, terminated, life, current>> /\ crossed' \in BOOLEAN
    BY <1>6 DEF on_exit, TypeOK
  <2>2. CASE Callback(Who, {}, unstashed) /\ UNCHANGED <<panics, wedged>>
    <3>1. Who \in Behaviours /\ IsFiniteSet({}) /\ {} \in SUBSET Asks /\ unstashed \in Seq(Asks)
      BY <1>6, ExitOnTop, FS_EmptySet DEF TypeOK
    <3> QED
      BY <1>1, <1>3, <2>1, <2>2, <3>1, CallbackTypes DEF TypeOK
  <2>3. CASE Unwind /\ UNCHANGED <<born, pending, lent, stash, unstashed>>
    BY <1>1, <1>3, <2>1, <2>3, UnwindTypes DEF TypeOK
  <2> QED
    BY <1>6, <2>2, <2>3 DEF on_exit
<1>7. CASE on_enter
  <2>1. UNCHANGED <<asker, message_queue, terminated, life, current, crossed>>
    BY <1>7 DEF on_enter
  <2>2. CASE Callback(current, {}, unstashed) /\ UNCHANGED <<panics, wedged>>
    <3>1. current \in Behaviours /\ IsFiniteSet({}) /\ {} \in SUBSET Asks /\ unstashed \in Seq(Asks)
      BY <1>7, EnterOnTop, FS_EmptySet DEF TypeOK
    <3> QED
      BY <1>1, <1>3, <2>1, <2>2, <3>1, CallbackTypes DEF TypeOK
  <2>3. CASE Unwind /\ UNCHANGED <<born, pending, lent, stash, unstashed>>
    BY <1>1, <1>3, <2>1, <2>3, UnwindTypes DEF TypeOK
  <2> QED
    BY <1>7, <2>2, <2>3 DEF on_enter
<1>8. CASE DropOld
  <2>1. channel' \in [Asks -> {"unused", "open", "sent", "dropped"}]
    BY <1>8, SettleTypes DEF DropOld
  <2> QED
    BY <1>1, <1>3, <1>8, <2>1 DEF DropOld, TypeOK
<1>9. CASE Recreate
  <2>1. channel' \in [Asks -> {"unused", "open", "sent", "dropped"}]
    BY <1>9, SettleTypes DEF Recreate
  <2>2. /\ todo # <<>> /\ todo[1] \in Elements(todo) /\ todo[1][1] = "create"
    BY <1>9, Top, ReturnElements DEF Recreate
  <2>3. born + 1 \in Behaviours /\ born + 1 \in 0..(MaxBehaviours + MaxPanics)
    BY <2>2 DEF BornInv, TypeOK
  <2> QED
    BY <1>1, <1>3, <1>9, <2>1, <2>3 DEF Recreate, TypeOK
<1>10. CASE ReportEnd
  <2>1. channel' \in [Asks -> {"unused", "open", "sent", "dropped"}]
    BY <1>10, SettleTypes DEF ReportEnd
  <2> QED
    BY <1>1, <1>3, <1>10, <2>1 DEF ReportEnd, TypeOK
<1>11. CASE Handle
  <2>1. PICK m \in Asks, released \in Seq(Asks) :
          /\ process_message(m, released)
          /\ message_queue' \in Seq(Asks) /\ Len(message_queue') <= Len(message_queue)
    <3>1. CASE /\ unstashed # <<>> /\ process_message(Head(unstashed), Tail(unstashed))
               /\ UNCHANGED message_queue
      <4>1. Head(unstashed) \in Asks /\ Tail(unstashed) \in Seq(Asks)
        BY <3>1 DEF TypeOK
      <4>2. message_queue' \in Seq(Asks) /\ Len(message_queue') <= Len(message_queue)
        BY <3>1 DEF TypeOK, AskTypeOK
      <4> QED
        BY <3>1, <4>1, <4>2
    <3>2. CASE /\ message_queue # <<>> /\ process_message(Head(message_queue), <<>>)
               /\ message_queue' = Tail(message_queue)
      <4>1. /\ Head(message_queue) \in Asks /\ Tail(message_queue) \in Seq(Asks)
            /\ Len(Tail(message_queue)) <= Len(message_queue) /\ <<>> \in Seq(Asks)
        BY <3>2 DEF TypeOK, AskTypeOK
      <4> QED
        BY <3>2, <4>1
    <3> QED
      BY <1>11, <3>1, <3>2 DEF Handle
  <2>2. /\ current \in Behaviours /\ {m} \in SUBSET Asks /\ IsFiniteSet({m})
        /\ UNCHANGED <<asker, terminated, life, wedged>>
    BY <1>11, IdleCurrent, FS_Singleton DEF Handle
  <2>3. /\ held' \in [Behaviours \cup {None} -> SUBSET Asks] /\ held'[None] = {}
        /\ lent' \subseteq Asks /\ stash' \in Seq(Asks) /\ unstashed' \in Seq(Asks)
        /\ channel' \in [Asks -> {"unused", "open", "sent", "dropped"}]
        /\ born' \in 0..(MaxBehaviours + MaxPanics) /\ pending' \in Behaviours \cup {None}
    BY <2>1, <2>2, CallbackTypes DEF process_message
  <2>4. /\ current' \in Behaviours \cup {None} /\ panics' \in 0..MaxPanics /\ crossed' \in BOOLEAN
    <3>1. CASE UNCHANGED <<current, panics, crossed>>
      BY <2>2, <3>1 DEF TypeOK
    <3>2. CASE Replace
      <4>1. current' = None /\ panics' \in 0..MaxPanics
        BY <3>2 DEF Replace, Panic, TypeOK
      <4>2. crossed' \in BOOLEAN
        BY <3>2 DEF Replace
      <4> QED
        BY <4>1, <4>2
    <3> QED
      BY <2>1, <3>1, <3>2 DEF process_message
  <2>5. AskTypeOK'
    BY <2>1, <2>2, <2>3 DEF TypeOK, AskTypeOK
  <2> QED
    BY <1>1, <2>2, <2>3, <2>4, <2>5 DEF TypeOK
<1>12. CASE terminate
  BY <1>1, <1>2, <1>12 DEF terminate, TypeOK
<1>13. CASE Close
  BY <1>13 DEF Close, lifeVars, TypeOK, AskTypeOK
<1>14. CASE Callers
  BY <1>14, AskTypes DEF Callers, lifeVars, TypeOK
<1>15. CASE Futures
  <2>1. PICK a \in Asks : FutureEnds(a)
    BY <1>15 DEF Futures
  <2>2. channel' \in [Asks -> {"unused", "open", "sent", "dropped"}]
    BY <2>1, SettleTypes DEF FutureEnds
  <2> QED
    BY <1>1, <1>3, <2>1, <2>2 DEF FutureEnds, TypeOK
<1>16. CASE UNCHANGED vars
  BY <1>2, <1>16 DEF vars, lifeVars, TypeOK
<1> QED
  BY <1>4, <1>5, <1>6, <1>7, <1>8, <1>9, <1>10, <1>11, <1>12, <1>13, <1>14, <1>15, <1>16
     DEF Next, Run

-----------------------------------------------------------------------------
(* on_enter() and on_exit() in pairs.                                      *)

\* What follows of an actor that has gone straight so far.
LEMMA StraightCalls ==
  ASSUME TypeOK, StackInv, EnterInv, Straight, Counted
  PROVE  /\ \A b, c \in Behaviours : Exit(b) = Exit(c) => b = c
         /\ \A b \in Behaviours : Exit(b) \notin {Check, Enter, Create, Report}
                                  /\ Exit(b) \notin {Drop(c) : c \in Behaviours}
         /\ \A b \in Behaviours : Drop(b) # Enter
         /\ Enter \notin {Check, Create, Report}
         /\ current # None /\ Enter \notin Elements(todo) /\ ~wedged => entered[current] = 1
         /\ todo # <<>> => \A b \in Behaviours : Exit(b) \notin Below
<1>1. \A b \in Behaviours : Exit(b)[1] = "exit" /\ Exit(b)[2] = b /\ Drop(b)[1] = "drop"
  BY CallKinds
<1>2. current # None => current \in Behaviours
  BY DEF TypeOK
<1>3. current # None /\ Enter \notin Elements(todo) /\ ~wedged => entered[current] = 1
  BY <1>2 DEF EnterInv, Counted
<1>4. todo # <<>> => \A b \in Behaviours : Exit(b) \notin Below
  BY <1>1, ReturnElements
<1> QED
  BY <1>1, <1>3, <1>4, CallKinds

\* A call returns that is none of on_exit(), on_enter().
LEMMA PairReturn ==
  ASSUME TypeOK, StackInv, EnterInv, Straight, Counted,
         todo # <<>>, todo[1][1] \in {"check", "drop"}, pending = None, Return(<<>>),
         UNCHANGED <<life, current, pending, born, wedged, entered, exited>>
  PROVE  Straight' /\ Counted'
<1>1. /\ todo' \in Seq(CallSet) /\ Len(todo') = Len(todo) - 1 /\ Len(todo) \in Nat
      /\ \A i \in DOMAIN todo' : i + 1 \in DOMAIN todo /\ todo'[i] = todo[i + 1]
  BY Return0 DEF StackInv, Shape
<1>2. Elements(todo') = Below /\ Elements(todo) = {todo[1]} \cup Below
  BY ReturnElements
<1>3. \A b \in Behaviours : Exit(b) \in Elements(todo) <=> Exit(b) \in Elements(todo')
  BY <1>2, CallKinds
<1>4. \A i \in DOMAIN todo' : todo'[i] = Enter => i = Len(todo')
  BY <1>1 DEF Straight
<1>5. Straight'
  BY <1>2, <1>4 DEF Straight
<1>6. Counted'
  BY <1>2, <1>3 DEF Counted
<1> QED
  BY <1>5, <1>6

LEMMA PairCheck ==
  ASSUME TypeOK, StackInv, EnterInv, Straight, Counted, check_become
  PROVE  Straight' /\ Counted'
<1>1. UNCHANGED <<life, born, wedged, entered, exited>> /\ ~wedged /\ todo # <<>> /\ life = "live"
  BY CheckOnTop DEF check_become
<1>2. CASE pending = None
  BY <1>1, <1>2, CheckOnTop, CallKinds, PairReturn
<1>3. CASE pending # None
  <2>1. todo = <<Check>> /\ Elements(todo) = {Check} /\ Len(todo) = 1
    BY <1>1, <1>3, ElementsSmall DEF Straight
  <2>2. Below = {}
    BY <2>1, ElementsSmall DEF Below
  <2>3. CASE current = None
    <3>1. /\ Return(<<Enter>>) /\ Elements(todo') = {Enter} /\ current' = pending
          /\ pending' = None
      BY <1>3, <2>2, <2>3, CheckOnTop
    <3>2. DOMAIN todo' = {1} /\ Len(todo') = 1
      BY <1>1, <2>1, <3>1, Return1, CallKinds
    <3>3. Straight'
      BY <1>1, <3>1, <3>2, CallKinds DEF Straight
    <3>4. Counted'
      BY <1>1, <1>3, <2>1, <2>3, <3>1, StraightCalls DEF Counted, TypeOK
    <3> QED
      BY <3>3, <3>4
  <2>4. CASE current # None
    <3>1. /\ Return(<<Exit(current), Enter>>) /\ Elements(todo') = {Exit(current), Enter}
          /\ current' = pending /\ pending' = None /\ current \in Behaviours
      BY <1>3, <2>2, <2>4, CheckOnTop
    <3>2. DOMAIN todo' = {1, 2} /\ Len(todo') = 2 /\ todo'[1] = Exit(current)
      BY <1>1, <2>1, <3>1, Return2, CallKinds
    <3>3. Straight'
      BY <1>1, <3>1, <3>2, CallKinds, StraightCalls DEF Straight
    <3>4. entered[current] = 1
      BY <1>1, <2>1, <2>4, StraightCalls
    <3>5. \A b \in Behaviours : Exit(b) \in {Exit(current), Enter} => b = current
      BY <3>1, StraightCalls
    <3>6. Enter \in Elements(todo') /\ Exit(current) \in Elements(todo')
      BY <3>1
    <3>7. \A b \in Behaviours : Exit(b) \notin Elements(todo)
      BY <2>1, StraightCalls
    <3>8. pending \in Behaviours
      BY <1>3 DEF TypeOK
    <3>9. /\ \A b \in Behaviours : exited'[b] <= entered'[b] /\ entered'[b] <= 1
          /\ \A b \in Behaviours : b > born' \/ b = pending' => entered'[b] = 0
          /\ Enter \in Elements(todo') => entered'[current'] = 0
      BY <1>1, <3>1, <3>8 DEF Counted
    <3>10. ASSUME NEW b \in Behaviours
           PROVE  /\ Exit(b) \in Elements(todo') => entered'[b] = 1
                  /\ exited'[b] = 0 => \/ b > born' \/ b \in {current', pending'}
                                       \/ Exit(b) \in Elements(todo')
      BY <1>1, <3>1, <3>4, <3>5, <3>6, <3>7 DEF Counted
    <3>11. Counted'
      BY <3>9, <3>10 DEF Counted
    <3> QED
      BY <3>3, <3>11
  <2> QED
    BY <2>3, <2>4
<1> QED
  BY <1>2, <1>3

LEMMA PairExit ==
  ASSUME TypeOK, StackInv, EnterInv, Straight, Counted, on_exit, born' = born
  PROVE  Straight' /\ Counted'
<1>1. /\ todo # <<>> /\ todo[1] = Exit(Who) /\ todo[1] \in Elements(todo) /\ Who \in Behaviours
      /\ ~wedged /\ life = "live" /\ Who \in 1..born
      /\ UNCHANGED <<current, life, entered>> /\ exited' = [exited EXCEPT ![Who] = @ + 1]
  BY ExitOnTop
<1>2. pending = None
  <2>1. Exit(Who) # Check
    BY <1>1, CallKinds
  <2> QED
    BY <1>1, <2>1 DEF Straight
<1>3. /\ entered[Who] = 1 /\ exited[Who] = 0 /\ exited \in [Behaviours -> Nat]
  <2>1. Exit(Who)[1] = "exit" /\ Exit(Who)[2] = Who /\ Exit(Who) \in Elements(todo)
    BY <1>1, CallKinds
  <2>2. exited[Exit(Who)[2]] = 0
    BY <2>1 DEF EnterInv
  <2> QED
    BY <1>1, <2>1, <2>2 DEF Counted, EnterInv
<1>4. pending' = pending
  BY TypedCounters, ExitOnTop DEF Transits, Counters
<1>5. Elements(todo) = {Exit(Who)} \cup Below
  BY <1>1, ReturnElements
<1>6. ASSUME \A b \in Behaviours : Exit(b) \notin Elements(todo'),
             Enter \in Elements(todo') => Enter \in Elements(todo)
      PROVE  Counted'
  <2>1. \A b \in Behaviours : exited'[b] = IF b = Who THEN 1 ELSE exited[b]
    BY <1>1, <1>3
  <2>2. ASSUME NEW b \in Behaviours, exited'[b] = 0
        PROVE  b > born' \/ b \in {current', pending'}
    <3>1. b # Who /\ exited[b] = 0
      BY <2>1, <2>2
    <3>2. Exit(b) \notin Elements(todo)
      BY <1>1, <1>5, <3>1, StraightCalls
    <3> QED
      BY <1>1, <1>4, <3>1, <3>2 DEF Counted
  <2>3. \A b \in Behaviours : exited'[b] <= entered'[b] /\ entered'[b] <= 1
    BY <1>1, <1>3, <2>1 DEF Counted
  <2> QED
    BY <1>1, <1>4, <1>6, <2>2, <2>3 DEF Counted
<1>7. CASE Return(<<Check, Drop(Who)>>) /\ Elements(todo') = {Check, Drop(Who)} \cup Below
  <2>1. /\ todo' \in Seq(CallSet) /\ Len(todo') = Len(todo) + 1
        /\ todo'[1] = Check /\ todo'[2] = Drop(Who)
        /\ \A i \in DOMAIN todo' : i \notin {1, 2} =>
             i > 2 /\ i - 1 \in DOMAIN todo /\ todo'[i] = todo[i - 1]
    BY <1>1, <1>7, Return2, CallKinds
  <2>2. \A i \in DOMAIN todo' : todo'[i] = Enter => i = Len(todo')
    <3> SUFFICES ASSUME NEW i \in DOMAIN todo', todo'[i] = Enter
                 PROVE  i = Len(todo')
      OBVIOUS
    <3>1. i \notin {1, 2}
      BY <1>1, <2>1, CallKinds
    <3>2. i - 1 = Len(todo) /\ i \in Nat /\ Len(todo) \in Nat
      BY <2>1, <3>1 DEF Straight, StackInv, Shape
    <3> QED
      BY <2>1, <3>2
  <2>3. \A c \in Elements(todo') : c[1] \in {"create", "report"} => current' = None
    BY <1>1, <1>5, <1>7, CallKinds DEF Straight
  <2>4. Straight'
    BY <1>1, <1>2, <1>4, <2>2, <2>3 DEF Straight
  <2>5. Counted'
    <3>1. \A b \in Behaviours : Exit(b) \notin Elements(todo')
      BY <1>1, <1>7, StraightCalls
    <3>2. Enter \in Elements(todo') => Enter \in Elements(todo)
      BY <1>1, <1>5, <1>7, StraightCalls
    <3> QED
      BY <1>6, <3>1, <3>2
  <2> QED
    BY <2>4, <2>5
<1>8. CASE Unwind /\ Elements(todo') = {}
  <2>1. todo' = <<>> /\ \A i \in DOMAIN todo' : FALSE
    BY <1>8 DEF Unwind
  <2>2. Straight'
    BY <1>1, <1>2, <1>4, <1>8, <2>1 DEF Straight
  <2>3. Counted'
    BY <1>6, <1>8
  <2> QED
    BY <2>2, <2>3
<1> QED
  BY <1>7, <1>8, ExitOnTop

LEMMA PairEnter ==
  ASSUME TypeOK, StackInv, EnterInv, Straight, Counted, on_enter
  PROVE  Straight' /\ Counted'
<1>1. /\ todo # <<>> /\ todo[1] = Enter /\ todo[1] \in Elements(todo) /\ current \in Behaviours
      /\ current \in 1..born /\ pending = None /\ ~wedged /\ life = "live"
      /\ UNCHANGED <<current, life, exited>> /\ entered' = [entered EXCEPT ![current] = @ + 1]
  BY EnterOnTop
<1>2. Len(todo) = 1 /\ 1 \in DOMAIN todo
  <2>1. 1 \in DOMAIN todo
    BY <1>1 DEF StackInv, Shape
  <2> QED
    BY <1>1, <2>1 DEF Straight
<1>3. Below = {} /\ Elements(todo) = {Enter}
  <2>1. Tail(todo) \in Seq(CallSet) /\ Len(Tail(todo)) = 0
    BY <1>1, <1>2, HeadTailProperties DEF StackInv, Shape
  <2>2. Tail(todo) = <<>>
    BY <2>1, EmptySeq
  <2> QED
    BY <1>1, <2>2, ReturnElements, ElementsSmall DEF Below
<1>4. \A b \in Behaviours : Exit(b) \notin Elements(todo)
  BY <1>3, StraightCalls
<1>5. entered[current] = 0 /\ exited[current] = 0 /\ entered \in [Behaviours -> Nat]
  BY <1>1 DEF Counted, EnterInv
<1>6. \A b \in Behaviours : entered'[b] = IF b = current THEN 1 ELSE entered[b]
  <2>1. entered' = [entered EXCEPT ![current] = entered[current] + 1]
    BY <1>1
  <2> QED
    BY <1>5, <2>1
<1>7. ASSUME Elements(todo') \subseteq {Check}, Transits
      PROVE  Counted'
  <2>1. \A b \in Behaviours : Exit(b) \notin Elements(todo') /\ Enter \notin Elements(todo')
    BY <1>7, StraightCalls
  <2>2. \A b \in Behaviours : exited'[b] <= entered'[b] /\ entered'[b] <= 1
    BY <1>1, <1>5, <1>6 DEF Counted
  <2>3. born \in Nat /\ born' \in Nat /\ born <= born' /\ pending' # current
    BY <1>1, <1>7, TypedCounters DEF Counters, Transits
  <2>4. ASSUME NEW b \in Behaviours, b > born' \/ b = pending'
        PROVE  entered'[b] = 0
    <3>1. b # current /\ (b > born \/ b = pending)
      BY <1>1, <1>7, <2>3, <2>4 DEF Transits
    <3> QED
      BY <1>6, <3>1 DEF Counted
  <2>5. ASSUME NEW b \in Behaviours, exited'[b] = 0
        PROVE  b > born' \/ b \in {current', pending'}
    <3>1. b > born \/ b \in {current, pending}
      BY <1>1, <1>4, <2>5 DEF Counted
    <3> QED
      BY <1>1, <1>7, <2>3, <3>1 DEF Transits
  <2> QED
    BY <2>1, <2>2, <2>4, <2>5 DEF Counted
<1>8. CASE Transits /\ Return(<<Check>>) /\ Elements(todo') = {Check} \cup Below
  <2>1. todo' \in Seq(CallSet) /\ Len(todo') = 1 /\ todo'[1] = Check
    BY <1>1, <1>2, <1>8, Return1, CallKinds
  <2>2. todo' = <<Check>>
    BY <2>1
  <2>3. Straight'
    <3>1. Elements(todo') = {Check} /\ DOMAIN todo' = {1}
      BY <1>3, <1>8, <2>1
    <3> QED
      BY <1>1, <2>1, <2>2, <3>1, CallKinds DEF Straight
  <2> QED
    BY <1>3, <1>7, <1>8, <2>3
<1>9. CASE Unwind /\ UNCHANGED <<born, pending>> /\ Elements(todo') = {}
  <2>1. todo' = <<>> /\ \A i \in DOMAIN todo' : FALSE
    BY <1>9 DEF Unwind
  <2>2. Straight'
    BY <1>1, <1>9, <2>1 DEF Straight
  <2> QED
    BY <1>7, <1>9, <2>2 DEF Transits
<1> QED
  BY <1>8, <1>9, EnterOnTop

\* Create and Report, at the bottom.
LEMMA PairLast ==
  ASSUME TypeOK, StackInv, BornInv, EnterInv, Straight, Counted, Recreate \/ ReportEnd
  PROVE  Straight' /\ Counted'
<1>1. /\ todo # <<>> /\ todo[1][1] \in {"create", "report"} /\ ~wedged /\ life = "live"
      /\ UNCHANGED <<pending, wedged, entered, exited>>
  BY Top DEF Recreate, ReportEnd
<1>2. /\ Len(todo) = 1 /\ pending = None /\ Elements(todo) = {todo[1]} \cup Below
      /\ Tail(todo) = <<>>
  BY <1>1, LastCall, ReturnElements DEF StackInv, Shape
<1>3. Below = {} /\ Elements(todo) = {todo[1]}
  BY <1>2, ElementsSmall DEF Below
<1>4. current = None /\ \A b \in Behaviours : Exit(b) \notin Elements(todo)
  BY <1>1, <1>3, CallKinds DEF Straight
<1>5. \A b \in Behaviours : exited[b] = 0 => b > born
  BY <1>2, <1>4 DEF Counted
<1>6. CASE Recreate
  <2>1. Return(<<Enter>>) /\ born' = born + 1 /\ current' = born + 1 /\ UNCHANGED life
    BY <1>6 DEF Recreate
  <2>2. Elements(todo') = {Enter} /\ DOMAIN todo' = {1} /\ Len(todo') = 1
    BY <1>1, <1>2, <1>3, <2>1, Return1, ReturnElements, CallKinds
  <2>3. Straight'
    BY <1>1, <1>2, <2>1, <2>2, CallKinds DEF Straight
  <2>4. born \in Nat /\ born + 1 \in Behaviours
    BY <1>1, <1>3, <1>6, Top DEF Recreate, BornInv, TypeOK
  <2>5. \A b \in Behaviours : Exit(b) \notin Elements(todo')
    BY <2>2, StraightCalls
  <2>6. \A b \in Behaviours : exited'[b] = 0 => b > born' \/ b = current'
    BY <1>1, <1>5, <2>1, <2>4
  <2>7. /\ \A b \in Behaviours : b > born' => b > born
        /\ entered[born + 1] = 0
    BY <2>1, <2>4 DEF Counted
  <2>8. Counted'
    BY <1>1, <1>2, <2>1, <2>5, <2>6, <2>7 DEF Counted
  <2> QED
    BY <2>3, <2>8
<1>7. CASE ReportEnd
  <2>1. Return(<<>>) /\ UNCHANGED <<born, current>> /\ life' = "gone"
    BY <1>7 DEF ReportEnd
  <2>2. Elements(todo') = {} /\ DOMAIN todo' = {}
    BY <1>1, <1>2, <1>3, <2>1, Return0, ReturnElements
  <2>3. Straight'
    BY <1>1, <1>2, <1>4, <2>1, <2>2 DEF Straight
  <2>4. Counted'
    BY <1>1, <1>2, <1>5, <2>1, <2>2 DEF Counted
  <2> QED
    BY <2>3, <2>4
<1> QED
  BY <1>6, <1>7

\* An idle actor gets its next calls.
LEMMA PairIdle ==
  ASSUME TypeOK, StackInv, EnterInv, Straight, Counted, Idle, life = "live",
         UNCHANGED <<life, wedged, entered, exited>>,
         \/ Transits /\ todo' = <<Check>> /\ UNCHANGED current
         \/ /\ UNCHANGED <<born, pending>> /\ current' = None
            /\ todo' \in {<<Exit(current), Create>>, <<Exit(current), Report>>}
  PROVE  Straight' /\ Counted'
<1>1. /\ current \in 1..born /\ current \in Behaviours /\ pending = None
      /\ Elements(todo) = {} /\ ~wedged
  BY IdleCurrent, ElementsSmall DEF Idle
<1>2. \A b \in Behaviours : exited[b] = 0 => b > born \/ b = current
  BY <1>1 DEF Counted
<1>3. entered[current] = 1
  BY <1>1, StraightCalls
<1>4. \A b \in Behaviours : exited'[b] <= entered'[b] /\ entered'[b] <= 1
  BY DEF Counted
<1>5. CASE Transits /\ todo' = <<Check>> /\ UNCHANGED current
  <2>1. Elements(todo') = {Check} /\ DOMAIN todo' = {1} /\ todo'[1] = Check
    BY <1>5, ElementsSmall
  <2>2. Straight'
    BY <1>5, <2>1, CallKinds DEF Straight
  <2>3. born \in Nat
    BY TypedCounters DEF Counters
  <2>4. \A b \in Behaviours : b > born' \/ b = pending' => b > born
    BY <1>1, <1>5, <2>3 DEF Transits
  <2>5. \A b \in Behaviours : exited'[b] = 0 => b > born' \/ b \in {current', pending'}
    BY <1>1, <1>2, <1>5, <2>3 DEF Transits
  <2>6. \A b \in Behaviours : Exit(b) \notin Elements(todo') /\ Enter \notin Elements(todo')
    BY <2>1, StraightCalls
  <2>7. Counted'
    BY <1>4, <2>4, <2>5, <2>6 DEF Counted
  <2> QED
    BY <2>2, <2>7
<1>6. ASSUME UNCHANGED <<born, pending>>, current' = None, NEW c \in {Create, Report},
             todo' = <<Exit(current), c>>
      PROVE  Straight' /\ Counted'
  <2>1. /\ Elements(todo') = {Exit(current), c} /\ DOMAIN todo' = {1, 2}
        /\ todo'[1] = Exit(current) /\ todo'[2] = c
    BY <1>6, ElementsSmall
  <2>2. Enter \notin Elements(todo') /\ Exit(current) \in Elements(todo')
    BY <1>1, <2>1, StraightCalls
  <2>3. Straight'
    BY <1>1, <1>6, <2>1, <2>2, StraightCalls DEF Straight
  <2>4. \A b \in Behaviours : Exit(b) \in Elements(todo') => b = current
    BY <1>1, <2>1, StraightCalls
  <2>5. ASSUME NEW b \in Behaviours
        PROVE  /\ b > born' \/ b = pending' => entered'[b] = 0
               /\ Exit(b) \in Elements(todo') => entered'[b] = 1
               /\ exited'[b] = 0 => b > born' \/ Exit(b) \in Elements(todo')
    BY <1>1, <1>2, <1>3, <1>6, <2>2, <2>4 DEF Counted
  <2>6. Counted'
    BY <1>4, <2>2, <2>5 DEF Counted
  <2> QED
    BY <2>3, <2>6
<1> QED
  BY <1>5, <1>6

LEMMA PairStep ==
  ASSUME TypeOK, StackInv, BornInv, EnterInv, PairInv, [Next]_vars
  PROVE  PairInv'
<1> SUFFICES ASSUME ~crossed' PROVE Straight' /\ Counted'
  BY DEF PairInv
<1>1. ASSUME ~crossed PROVE Straight /\ Counted
  BY <1>1 DEF PairInv
<1>2. CASE Begin
  <2>1. /\ todo' = <<Create>> /\ life' = "live" /\ ~crossed /\ todo = <<>>
        /\ UNCHANGED <<born, current, pending, wedged, entered, exited>>
    BY <1>2 DEF Begin, Idle
  <2>2. born = 0 /\ current = None /\ pending = None
    BY <1>2, TypedCounters DEF Begin, StackInv, Control, Counters
  <2>3. Elements(todo') = {Create} /\ DOMAIN todo' = {1} /\ todo'[1] = Create
    BY <2>1, ElementsSmall
  <2>4. Straight'
    BY <2>1, <2>2, <2>3, CallKinds DEF Straight
  <2>5. \A b \in Behaviours : Exit(b) # Create /\ b > born
    BY <2>2, CallKinds
  <2>6. Counted'
    BY <1>1, <2>1, <2>3, <2>5, CallKinds DEF Counted
  <2> QED
    BY <2>4, <2>6
<1>3. CASE check_become
  BY <1>1, <1>3, PairCheck DEF check_become
<1>4. CASE on_exit
  <2>1. ~crossed /\ born' = born
    BY <1>4 DEF on_exit
  <2> QED
    BY <1>1, <1>4, <2>1, PairExit
<1>5. CASE DropOld
  <2>1. /\ ~crossed /\ Return(<<>>) /\ todo # <<>> /\ todo[1][1] = "drop"
        /\ UNCHANGED <<life, current, pending, born, wedged, entered, exited>>
    BY <1>5, Top DEF DropOld
  <2>2. pending = None
    BY <2>1 DEF StackInv, Control
  <2> QED
    BY <1>1, <2>1, <2>2, PairReturn
<1>6. CASE on_enter
  BY <1>1, <1>6, PairEnter DEF on_enter
<1>7. CASE Recreate \/ ReportEnd
  BY <1>1, <1>7, PairLast DEF Recreate, ReportEnd
<1>8. CASE Handle
  <2>1. PICK m, released : process_message(m, released)
    BY <1>8 DEF Handle
  <2>2. Idle /\ life = "live" /\ UNCHANGED <<life, wedged, entered, exited>>
    BY <1>8 DEF Handle
  <2>3. Transits
    BY <2>1, CallbackTransits DEF process_message
  <2>4. CASE todo' = <<Check>> /\ UNCHANGED <<current, crossed>>
    BY <1>1, <2>2, <2>3, <2>4, PairIdle
  <2>5. CASE Replace
    <3>1. ~crossed /\ born' = born /\ current' = None /\ todo' = <<Exit(current), Create>>
      BY <2>5 DEF Replace
    <3>2. UNCHANGED <<born, pending>>
      BY <2>3, <3>1, TypedCounters DEF Transits, Counters
    <3> QED
      BY <1>1, <2>2, <3>1, <3>2, PairIdle
  <2> QED
    BY <2>1, <2>4, <2>5 DEF process_message
<1>9. CASE terminate
  <2>1. /\ Idle /\ life = "live" /\ UNCHANGED <<life, wedged, entered, exited>> /\ ~crossed
        /\ UNCHANGED <<born, pending>> /\ current' = None /\ todo' = <<Exit(current), Report>>
    BY <1>9 DEF terminate, Idle
  <2> QED
    BY <1>1, <2>1, PairIdle
<1>10. CASE Close \/ Callers \/ Futures \/ UNCHANGED vars
  <2>1. /\ UNCHANGED <<life, current, pending, todo, born, wedged, entered, exited, crossed>>
    BY <1>10 DEF Close, Callers, Futures, FutureEnds, vars, lifeVars
  <2>2. Straight /\ Counted
    BY <1>1, <2>1
  <2>3. Straight'
    BY <2>1, <2>2 DEF Straight
  <2>4. Counted'
    BY <2>1, <2>2 DEF Counted
  <2> QED
    BY <2>3, <2>4
<1> QED
  BY <1>2, <1>3, <1>4, <1>5, <1>6, <1>7, <1>8, <1>9, <1>10 DEF Next, Run

-----------------------------------------------------------------------------
(* The theorems.                                                           *)

LEMMA InitIInv ==
  ASSUME Init
  PROVE  IInv
<1> USE DEF Init, AskInit
<1>1. TypeOK
  <2>1. <<>> \in Seq(Asks) /\ Len(<<>>) = 0
    OBVIOUS
  <2>2. /\ asker \in [Asks -> {"start", "push", "waiting", "ok", "recv_error",
                               "timeout", "send_error"}]
        /\ channel \in [Asks -> {"unused", "open", "sent", "dropped"}]
    OBVIOUS
  <2>3. message_queue \in Seq(Asks) /\ (Capacity # 0 => Len(message_queue) <= Capacity)
    BY <2>1
  <2>4. terminated \in BOOLEAN /\ wedged \in BOOLEAN /\ crossed \in BOOLEAN
    OBVIOUS
  <2>5. held \in [Behaviours \cup {None} -> SUBSET Asks] /\ held[None] = {}
    OBVIOUS
  <2>6. stash \in Seq(Asks) /\ unstashed \in Seq(Asks)
    BY <2>1
  <2>7. AskTypeOK
    BY <2>2, <2>3, <2>4 DEF AskTypeOK
  <2> QED
    BY <2>4, <2>5, <2>6, <2>7 DEF TypeOK
<1>2. todo = <<>> /\ todo \in Seq(CallSet) /\ Elements(todo) = {} /\ \A i \in DOMAIN todo : FALSE
  BY ElementsSmall
<1>3. StackInv
  BY <1>2 DEF StackInv, Shape, Control
<1>4. BornInv /\ EnterInv
  BY <1>2 DEF BornInv, EnterInv
<1>5. PairInv
  BY <1>2 DEF PairInv, Straight, Counted
<1> QED
  BY <1>1, <1>3, <1>4, <1>5 DEF IInv

LEMMA StepIInv ==
  ASSUME IInv, [Next]_vars
  PROVE  IInv'
<1>1. StackInv' /\ BornInv' /\ EnterInv'
  BY StackStep, BornStep, EnterStep DEF IInv
<1>2. TypeOK'
  BY <1>1, TypeStep DEF IInv
<1>3. PairInv'
  BY PairStep DEF IInv
<1> QED
  BY <1>1, <1>2, <1>3 DEF IInv

LEMMA Invariant == Spec => []IInv
<1>1. IInv /\ [Next]_vars => IInv'
  BY StepIInv
<1> QED
  BY <1>1, InitIInv, PTL DEF Spec

\* Every variable keeps its type and no behaviour is exited twice, however
\* callbacks, transitions and panics follow one another (Dispatcher::on_exit(),
\* check_become(), dispatcher.rs).
THEOREM TypeCorrect == Spec => []TypeOK
<1>1. IInv => TypeOK
  BY DEF IInv
<1> QED
  BY <1>1, Invariant, PTL

\* A message is only ever handed to a behaviour that was entered, has not been
\* exited and has no successor waiting (process_message(), dispatcher.rs).
THEOREM ReadyCorrect == Spec => []ReadyActor
<1>1. ASSUME IInv, Idle, life = "live"
      PROVE  /\ current # None /\ pending = None
             /\ entered[current] > 0 /\ exited[current] = 0
  <2>1. current \in Behaviours /\ current # None /\ pending = None
    BY <1>1, IdleCurrent DEF IInv
  <2>2. Elements(todo) = {} /\ ~wedged
    BY <1>1, ElementsSmall DEF Idle
  <2>3. entered[current] \in Nat /\ entered[current] # 0 /\ exited[current] = 0
    BY <1>1, <2>1, <2>2 DEF IInv, EnterInv
  <2> QED
    BY <2>1, <2>3
<1>2. IInv => ReadyActor
  BY <1>1 DEF ReadyActor
<1> QED
  BY <1>2, Invariant, PTL

\* Unless an on_exit() or a handler that panicked called transit(), each behaviour
\* is entered once and exited once, in that order, and only the current one and
\* those on the stack are in between (on_enter(), on_exit(), dispatcher.rs).
THEOREM PairedCorrect == Spec => []Paired
<1>1. ASSUME IInv, ~crossed, NEW b \in Behaviours
      PROVE  /\ exited[b] <= entered[b] /\ entered[b] <= 1
             /\ entered[b] > exited[b] => b = current \/ b \in OnStack \/ wedged
  <2>1. Counted /\ entered[b] \in Nat /\ exited[b] \in Nat
    BY <1>1 DEF IInv, PairInv, EnterInv
  <2>2. ASSUME entered[b] > exited[b]
        PROVE  b = current \/ b \in OnStack
    <3>1. exited[b] = 0 /\ entered[b] # 0
      BY <2>1, <2>2 DEF Counted
    <3>2. b = current \/ Exit(b) \in Elements(todo)
      BY <2>1, <3>1 DEF Counted
    <3>3. Exit(b)[2] = b /\ b # None
      BY CallKinds
    <3> QED
      BY <3>2, <3>3 DEF Elements, OnStack
  <2> QED
    BY <2>1, <2>2 DEF Counted
<1>2. IInv => Paired
  BY <1>1 DEF Paired
<1> QED
  BY <1>2, Invariant, PTL
=============================================================================
