---------------------------- MODULE TimersProofs ----------------------------
(***************************************************************************)
(* The timers of an actor for all names and durations, any clock and any   *)
(* number of tasks and messages.                                           *)
(***************************************************************************)
EXTENDS Timers, FiniteSetTheorems, FunctionTheorems, SequenceTheorems, TLAPS

USE TimersAssumption DEF TimersAssumption, Ids

-----------------------------------------------------------------------------
(* The invariant.                                                          *)

\* What after_func() makes: a timer's message knows its task, the message of a
\* receive timeout knows when its task is due.
TimerTasks ==
  {Task(i, at, TimerMsg(n, g, i)) : i \in Ids, at \in 0..MaxTime,
                                    n \in Names, g \in 0..MaxGen}
TimeoutTasks == {Task(i, at, ReceiveTimeout(at)) : i \in Ids, at \in 0..MaxTime}
Tasks        == TimerTasks \cup TimeoutTasks

\* Each of the three places a message passes through holds what was made, and a
\* receive timeout is in the mailbox only once its time has come.
PlacesInv ==
  /\ mailbox \in Seq(Messages)
  /\ queue \in Seq(Tasks \cup {Close})
  /\ bheap \subseteq Tasks /\ IsFiniteSet(bheap)
  /\ assigning \in {None} \cup [to : Names \cup {None}, gen : 0..MaxGen, id : Ids]
  /\ \A k \in DOMAIN mailbox :
       mailbox[k].kind = "ReceiveTimeout" => mailbox[k].exp <= now

\* Each task is queued once, fires once and is reported at most once.
Pending(s) == {k \in DOMAIN s : s[k].kind \in {"Task", "Timer", "ReceiveTimeout"}}

CountInv ==
  /\ IsFiniteSet(Pending(queue)) /\ IsFiniteSet(Pending(mailbox))
  /\ Cardinality(Pending(queue)) + Cardinality(bheap)
       + Cardinality(Pending(mailbox)) + reports <= tasks

\* The last message was stamped if a receive timeout was set.
StampInv == stamped => last_message_timestamp = heard

IInv == TypeOK /\ PlacesInv /\ CountInv /\ SleepsWhenNoneDue /\ StampInv

-----------------------------------------------------------------------------
(* Messages and tasks.                                                     *)

\* The kind of a message says which fields it has.
LEMMA MessageCases ==
  ASSUME NEW m \in Messages
  PROVE  \/ m.kind = "User"
         \/ /\ m.kind = "Timer"
            /\ m.key \in Names /\ m.gen \in 0..MaxGen /\ m.id \in Ids
         \/ m.kind = "ReceiveTimeout" /\ m.exp \in 0..MaxTime
<1>1. CASE m = User
  BY <1>1 DEF User
<1>2. CASE m \in {TimerMsg(n, g, i) : n \in Names, g \in 0..MaxGen, i \in Ids}
  BY <1>2 DEF TimerMsg
<1>3. CASE m \in {ReceiveTimeout(e) : e \in 0..MaxTime}
  BY <1>3 DEF ReceiveTimeout
<1> QED
  BY <1>1, <1>2, <1>3 DEF Messages

\* A task is no Close, and its message is one of the two kinds a timer sends.
LEMMA TaskCases ==
  ASSUME NEW t \in Tasks
  PROVE  /\ t.kind = "Task" /\ t # Close
         /\ t.id \in Ids /\ t.event_time \in 0..MaxTime
         /\ t.action \in Messages
         /\ \/ t.action.kind = "Timer" /\ t.action.id = t.id
            \/ t.action.kind = "ReceiveTimeout" /\ t.action.exp = t.event_time
<1>1. CASE t \in TimerTasks
  <2>1. PICK i \in Ids, at \in 0..MaxTime, n \in Names, g \in 0..MaxGen :
          t = Task(i, at, TimerMsg(n, g, i))
    BY <1>1 DEF TimerTasks
  <2>2. TimerMsg(n, g, i) \in Messages
    BY DEF Messages
  <2>3. /\ t.kind = "Task" /\ t.id = i /\ t.event_time = at
        /\ t.action = TimerMsg(n, g, i)
    BY <2>1 DEF Task
  <2>4. TimerMsg(n, g, i).kind = "Timer" /\ TimerMsg(n, g, i).id = i
    BY DEF TimerMsg
  <2>5. t # Close
    BY <2>3 DEF Close
  <2> QED
    BY <2>2, <2>3, <2>4, <2>5
<1>2. CASE t \in TimeoutTasks
  <2>1. PICK i \in Ids, at \in 0..MaxTime : t = Task(i, at, ReceiveTimeout(at))
    BY <1>2 DEF TimeoutTasks
  <2>2. ReceiveTimeout(at) \in Messages
    BY DEF Messages
  <2>3. /\ t.kind = "Task" /\ t.id = i /\ t.event_time = at
        /\ t.action = ReceiveTimeout(at)
    BY <2>1 DEF Task
  <2>4. /\ ReceiveTimeout(at).kind = "ReceiveTimeout"
        /\ ReceiveTimeout(at).exp = at
    BY DEF ReceiveTimeout
  <2>5. t # Close
    BY <2>3 DEF Close
  <2> QED
    BY <2>2, <2>3, <2>4, <2>5
<1> QED
  BY <1>1, <1>2 DEF Tasks

\* after_func() with the message of a timer, or of a receive timeout.
LEMMA AfterFunc ==
  ASSUME TypeOK, NEW d \in Nat, NEW n \in Names, Room(d)
  PROVE  /\ Task(tasks, now + d, TimerMsg(n, timer_gen, tasks)) \in Tasks
         /\ Task(tasks, now + d, ReceiveTimeout(now + d)) \in Tasks
         /\ tasks \in Ids
  BY DEF TypeOK, Room, Tasks, TimerTasks, TimeoutTasks

LEMMA AfterFuncTimeout ==
  ASSUME TypeOK, NEW d \in Nat, Room(d)
  PROVE  /\ Task(tasks, now + d, ReceiveTimeout(now + d)) \in Tasks
         /\ tasks \in Ids
  BY DEF TypeOK, Room, Tasks, TimeoutTasks

-----------------------------------------------------------------------------
(* What a handler may do.                                                  *)

\* The context and the flags keep their types.
HandlerTypes ==
  /\ list' \in [Names -> {None} \cup [gen : 0..MaxGen, id : Ids]]
  /\ timer_gen' \in 0..MaxGen
  /\ receive_timeout' \in {None} \cup Durations
  /\ scheduled_receive_timeout' \in {None} \cup Ids
  /\ assigning' \in {None} \cup [to : Names \cup {None}, gen : 0..MaxGen, id : Ids]
  /\ cancelled' \subseteq Ids

\* At most one task is made.
HandlerQueues ==
  \/ queue' = queue /\ tasks' = tasks
  \/ tasks < MaxTasks /\ tasks' = tasks + 1
       /\ \E t \in Tasks : queue' = Append(queue, t)

LEMMA TimerIdType ==
  ASSUME TypeOK, NEW n \in Names
  PROVE  TimerId(n) \in {None} \cup Ids
  BY DEF TypeOK, TimerId

LEMMA StartEffect ==
  ASSUME TypeOK, PlacesInv, NEW n \in Names, NEW d \in Durations,
         start_single_timer(n, d)
  PROVE  HandlerTypes /\ HandlerQueues
<1>1. /\ Room(d) /\ tasks' = tasks + 1
      /\ queue' = Append(queue, Task(tasks, now + d, TimerMsg(n, timer_gen, tasks)))
      /\ timer_gen' = next_timer_gen(timer_gen)
      /\ assigning' = [to |-> n, gen |-> timer_gen, id |-> tasks]
      /\ UNCHANGED <<list, receive_timeout, scheduled_receive_timeout, cancelled>>
  BY DEF start_single_timer, after_func
<1>2. /\ Task(tasks, now + d, TimerMsg(n, timer_gen, tasks)) \in Tasks
      /\ tasks \in Ids
  BY <1>1, AfterFunc
<1>3. timer_gen' \in 0..MaxGen
  BY <1>1 DEF TypeOK, next_timer_gen
<1>4. tasks < MaxTasks
  BY <1>1 DEF Room
<1> QED
  BY <1>1, <1>2, <1>3, <1>4 DEF TypeOK, HandlerTypes, HandlerQueues

LEMMA ScheduleEffect ==
  ASSUME TypeOK, PlacesInv, NEW d \in Nat, schedule_receive_timeout(d),
         receive_timeout' \in {None} \cup Durations
  PROVE  HandlerTypes /\ HandlerQueues
<1>1. /\ Room(d) /\ tasks' = tasks + 1
      /\ queue' = Append(queue, Task(tasks, now + d, ReceiveTimeout(now + d)))
      /\ assigning' = [to |-> None, gen |-> 0, id |-> tasks]
      /\ UNCHANGED <<list, timer_gen, scheduled_receive_timeout, cancelled>>
  BY DEF schedule_receive_timeout, after_func
<1>2. /\ Task(tasks, now + d, ReceiveTimeout(now + d)) \in Tasks
      /\ tasks \in Ids
  BY <1>1, AfterFuncTimeout
<1>3. tasks < MaxTasks
  BY <1>1 DEF Room
<1> QED
  BY SMTT(30), <1>1, <1>2, <1>3 DEF TypeOK, HandlerTypes, HandlerQueues

LEMMA ReturnEffect ==
  ASSUME TypeOK, PlacesInv, Return
  PROVE  HandlerTypes /\ HandlerQueues
  BY DEF TypeOK, PlacesInv, Return, HandlerTypes, HandlerQueues

LEMMA HandlerEffect ==
  ASSUME TypeOK, PlacesInv, Handler
  PROVE  HandlerTypes /\ HandlerQueues
<1>1. CASE \E n \in Names, d \in Durations : start_single_timer(n, d)
  BY <1>1, StartEffect
<1>2. ASSUME NEW n \in Names, cancel_timer(n)
      PROVE  HandlerTypes /\ HandlerQueues
  <2>1. list' \in [Names -> {None} \cup [gen : 0..MaxGen, id : Ids]]
    BY <1>2 DEF cancel_timer, TypeOK
  <2>2. cancelled' \subseteq Ids
    BY <1>2, TimerIdType DEF cancel_timer, Drop, TypeOK
  <2> QED
    BY <1>2, <2>1, <2>2
    DEF cancel_timer, TypeOK, PlacesInv, HandlerTypes, HandlerQueues
<1>3. ASSUME NEW d \in Durations, set_receive_timeout(d)
      PROVE  HandlerTypes /\ HandlerQueues
  BY <1>3, ScheduleEffect DEF set_receive_timeout
<1>4. CASE cancel_receive_timeout
  BY <1>4 DEF cancel_receive_timeout, Drop, TypeOK, PlacesInv, HandlerTypes, HandlerQueues
<1>5. CASE Return
  BY <1>5, ReturnEffect
<1> QED
  BY <1>1, <1>2, <1>3, <1>4, <1>5 DEF Handler

\* How long a receive timeout waits again is a time, whenever it is not over.
LEMMA RemainingTime ==
  ASSUME TypeOK, NEW exp \in Nat, receive_timeout # None, Remaining(exp) # None
  PROVE  Remaining(exp) \in Nat
<1>1. /\ receive_timeout \in {None} \cup Durations
      /\ last_message_timestamp \in 0..now /\ now \in 0..MaxTime
  BY DEF TypeOK
<1>2. receive_timeout \in Nat
  BY <1>1
<1> QED
  BY <1>1, <1>2 DEF Remaining

LEMMA ReceiveTimeoutEffect ==
  ASSUME TypeOK, PlacesInv, OnReceiveTimeout
  PROVE  HandlerTypes /\ HandlerQueues
<1> DEFINE exp == Head(mailbox).exp
<1>1. CASE Return
  BY <1>1, ReturnEffect
<1>2. CASE Handler
  BY <1>2, HandlerEffect
<1>3. CASE /\ receive_timeout # None /\ Remaining(exp) # None
           /\ schedule_receive_timeout(Remaining(exp)) /\ UNCHANGED receive_timeout
  <2>1. exp \in Nat
    <3>1. mailbox # <<>> /\ exp = mailbox[1].exp /\ mailbox[1].kind = "ReceiveTimeout"
      BY DEF OnReceiveTimeout, Pop, PlacesInv
    <3>2. mailbox[1] \in Messages
      BY <3>1 DEF PlacesInv
    <3> QED
      BY <3>1, <3>2, MessageCases
  <2>3. Remaining(exp) \in Nat
    BY <1>3, <2>1, RemainingTime
  <2>2. receive_timeout' \in {None} \cup Durations
    BY <1>3 DEF TypeOK
  <2> QED
    BY <1>3, <2>2, <2>3, ScheduleEffect
<1> QED
  BY <1>1, <1>2, <1>3 DEF OnReceiveTimeout, Reschedule

-----------------------------------------------------------------------------
(* Places.                                                                 *)

LEMMA HandlerPlaces ==
  ASSUME PlacesInv, HandlerTypes, HandlerQueues
  PROVE  /\ queue' \in Seq(Tasks \cup {Close})
         /\ assigning' \in {None} \cup [to : Names \cup {None}, gen : 0..MaxGen, id : Ids]
<1>1. queue \in Seq(Tasks \cup {Close})
  BY DEF PlacesInv
<1>2. ASSUME NEW t \in Tasks PROVE Append(queue, t) \in Seq(Tasks \cup {Close})
  BY <1>1, AppendProperties
<1> QED
  BY <1>1, <1>2 DEF HandlerTypes, HandlerQueues

LEMMA PopPlaces ==
  ASSUME PlacesInv, NEW kind, Pop(kind)
  PROVE  /\ mailbox' \in Seq(Messages) /\ bheap' = bheap
         /\ Head(mailbox) \in Messages
         /\ kind = "ReceiveTimeout" => Head(mailbox).exp <= now
         /\ \A k \in DOMAIN mailbox' :
              mailbox'[k].kind = "ReceiveTimeout" => mailbox'[k].exp <= now'
<1>1. /\ mailbox # <<>> /\ Head(mailbox).kind = kind /\ mailbox' = Tail(mailbox)
      /\ now' = now /\ bheap' = bheap
  BY DEF Pop, schedulerVars
<1>2. mailbox \in Seq(Messages)
  BY DEF PlacesInv
<1>3. /\ mailbox' \in Seq(Messages) /\ Head(mailbox) = mailbox[1]
      /\ Head(mailbox) \in Messages /\ 1 \in DOMAIN mailbox
      /\ \A k \in DOMAIN mailbox' : mailbox'[k] = mailbox[k + 1] /\ k + 1 \in DOMAIN mailbox
  BY <1>1, <1>2
<1> QED
  BY <1>1, <1>3 DEF PlacesInv

\* A message is put at the end of the mailbox, or the actor is gone.
LEMMA DeliverPlaces ==
  ASSUME TypeOK, PlacesInv, NEW m \in Messages, now' \in Nat, now <= now',
         m.kind = "ReceiveTimeout" => m.exp <= now',
         mailbox' = IF gone THEN mailbox ELSE Append(mailbox, m)
  PROVE  /\ mailbox' \in Seq(Messages)
         /\ \A k \in DOMAIN mailbox' :
              mailbox'[k].kind = "ReceiveTimeout" => mailbox'[k].exp <= now'
<1>1. mailbox \in Seq(Messages)
  BY DEF PlacesInv
<1>2. \A k \in DOMAIN mailbox :
        mailbox[k].kind = "ReceiveTimeout" => mailbox[k].exp <= now'
  <2> SUFFICES ASSUME NEW k \in DOMAIN mailbox, mailbox[k].kind = "ReceiveTimeout"
               PROVE  mailbox[k].exp <= now'
    OBVIOUS
  <2>1. mailbox[k] \in Messages
    BY <1>1
  <2>2. mailbox[k].exp \in 0..MaxTime /\ mailbox[k].exp <= now
    BY <2>1, MessageCases DEF PlacesInv
  <2> QED
    BY <2>2 DEF TypeOK
<1>3. CASE gone
  BY <1>1, <1>2, <1>3
<1>4. CASE ~gone
  <2>1. mailbox' = Append(mailbox, m)
    BY <1>4
  <2>2. /\ mailbox' \in Seq(Messages)
        /\ \A k \in DOMAIN mailbox' :
             mailbox'[k] = m \/ (k \in DOMAIN mailbox /\ mailbox'[k] = mailbox[k])
    BY <1>1, <2>1, AppendProperties
  <2> QED
    BY <1>2, <2>2
<1> QED
  BY <1>3, <1>4

\* Nobody touches the places.
LEMMA PlacesUnchanged ==
  ASSUME PlacesInv, UNCHANGED <<now, mailbox, queue, bheap, assigning>>
  PROVE  PlacesInv'
  BY DEF PlacesInv

LEMMA CollectPlaces ==
  ASSUME TypeOK, PlacesInv, Collect
  PROVE  PlacesInv'
<1>1. /\ queue # <<>> /\ queue' = Tail(queue)
      /\ UNCHANGED <<now, mailbox, assigning>>
      /\ \/ bheap' = bheap
         \/ Head(queue) # Close /\ bheap' = bheap \cup {Head(queue)}
  BY DEF Collect, contextVars
<1>2. queue' \in Seq(Tasks \cup {Close}) /\ Head(queue) \in Tasks \cup {Close}
  BY <1>1 DEF PlacesInv
<1>3. bheap' \subseteq Tasks /\ IsFiniteSet(bheap')
  BY <1>1, <1>2, FS_AddElement DEF PlacesInv
<1> QED
  BY <1>1, <1>2, <1>3 DEF PlacesInv

LEMMA DrainPlaces ==
  ASSUME TypeOK, PlacesInv, Drain
  PROVE  PlacesInv'
<1>1. UNCHANGED <<now, queue, assigning>>
  BY DEF Drain, contextVars
<1>2. PICK task \in bheap :
        \/ bheap' = bheap \ {task} /\ mailbox' = mailbox
        \/ Due(task) /\ Fire(task)
        \/ mailbox' = mailbox /\ bheap' = bheap
  BY DEF Drain
<1>3. task \in Tasks /\ \A t \in bheap' : t \in bheap
  BY <1>2 DEF PlacesInv, Fire
<1>4. bheap' \subseteq Tasks /\ IsFiniteSet(bheap')
  BY <1>2, <1>3, FS_RemoveElement DEF PlacesInv, Fire
<1>5. CASE mailbox' = mailbox
  BY <1>1, <1>4, <1>5 DEF PlacesInv
<1>6. CASE Due(task) /\ Fire(task)
  <2>1. /\ task.action \in Messages /\ task.event_time \in 0..MaxTime
        /\ \/ task.action.kind = "Timer"
           \/ task.action.kind = "ReceiveTimeout" /\ task.action.exp = task.event_time
    BY <1>3, TaskCases
  <2>2. task.event_time < now'
    BY <1>1, <1>6, <2>1 DEF Due, TypeOK
  <2>3. task.action.kind = "ReceiveTimeout" => task.action.exp <= now'
    BY <1>1, <2>1, <2>2 DEF TypeOK
  <2>4. mailbox' = IF gone THEN mailbox ELSE Append(mailbox, task.action)
    BY <1>6 DEF Fire
  <2>5. now' \in Nat /\ now <= now'
    BY <1>1 DEF TypeOK
  <2>6. /\ mailbox' \in Seq(Messages)
        /\ \A k \in DOMAIN mailbox' :
             mailbox'[k].kind = "ReceiveTimeout" => mailbox'[k].exp <= now'
    BY <2>1, <2>3, <2>4, <2>5, DeliverPlaces
  <2> QED
    BY <1>1, <1>4, <2>6 DEF PlacesInv
<1> QED
  BY <1>2, <1>5, <1>6

LEMMA PlacesStep ==
  ASSUME TypeOK, PlacesInv, [Next]_vars
  PROVE  PlacesInv'
<1>1. CASE OnUser
  BY <1>1, HandlerEffect, HandlerPlaces, PopPlaces DEF OnUser, PlacesInv
<1>2. CASE OnTimer
  BY <1>2, HandlerEffect, ReturnEffect, HandlerPlaces, PopPlaces DEF OnTimer, PlacesInv
<1>3. CASE OnReceiveTimeout
  <2>1. HandlerTypes /\ HandlerQueues
    BY <1>3, ReceiveTimeoutEffect
  <2> QED
    BY <1>3, <2>1, HandlerPlaces, PopPlaces DEF OnReceiveTimeout, PlacesInv
<1>4. CASE Assign
  <2>1. assigning' = None /\ UNCHANGED <<now, mailbox, queue, bheap>>
    BY <1>4 DEF Assign, schedulerVars
  <2> QED
    BY <2>1 DEF PlacesInv
<1>5. CASE Terminate
  BY <1>5, PlacesUnchanged DEF Terminate, schedulerVars
<1>6. CASE Collect
  BY <1>6, CollectPlaces
<1>7. CASE Drain
  BY <1>7, DrainPlaces
<1>8. CASE Collected \/ Drained \/ Wake
  BY <1>8, PlacesUnchanged DEF Collected, Drained, Wake, contextVars
<1>9. CASE Tell
  <2>1. /\ mailbox' = IF gone THEN mailbox ELSE Append(mailbox, User)
        /\ UNCHANGED <<now, queue, bheap, assigning>>
    BY <1>9 DEF Tell, contextVars, schedulerVars
  <2>2. User \in Messages /\ User.kind # "ReceiveTimeout" /\ now' \in Nat /\ now <= now'
    BY <2>1 DEF Messages, User, TypeOK
  <2>3. /\ mailbox' \in Seq(Messages)
        /\ \A k \in DOMAIN mailbox' :
             mailbox'[k].kind = "ReceiveTimeout" => mailbox'[k].exp <= now'
    BY <2>1, <2>2, DeliverPlaces
  <2> QED
    BY <2>1, <2>3 DEF PlacesInv
<1>10. CASE Tick
  <2>1. now' = now + 1 /\ UNCHANGED <<mailbox, queue, bheap, assigning>>
    BY <1>10 DEF Tick, contextVars, schedulerVars
  <2>2. \A k \in DOMAIN mailbox :
          mailbox[k].kind = "ReceiveTimeout" => mailbox[k].exp \in 0..MaxTime
    BY MessageCases DEF PlacesInv
  <2> QED
    BY <2>1, <2>2 DEF PlacesInv, TypeOK
<1>11. CASE SystemDropped
  <2>1. queue' = Append(queue, Close) /\ UNCHANGED <<now, mailbox, bheap, assigning>>
    BY <1>11 DEF SystemDropped, contextVars, schedulerVars
  <2> QED
    BY <2>1, AppendProperties DEF PlacesInv
<1>12. CASE UNCHANGED vars
  BY <1>12, PlacesUnchanged DEF vars, contextVars, schedulerVars
<1> QED
  BY <1>1, <1>2, <1>3, <1>4, <1>5, <1>6, <1>7, <1>8, <1>9, <1>10, <1>11, <1>12
  DEF Next, ActorStep, SchedulerStep

-----------------------------------------------------------------------------
(* Counting.                                                               *)

\* One message more at the end counts if it is one of a task.
LEMMA PendingAppend ==
  ASSUME NEW S, NEW s \in Seq(S), NEW x \in S, IsFiniteSet(Pending(s))
  PROVE  /\ IsFiniteSet(Pending(Append(s, x)))
         /\ Cardinality(Pending(Append(s, x))) <= Cardinality(Pending(s)) + 1
         /\ x.kind \in {"User", "Close"} => Pending(Append(s, x)) = Pending(s)
<1>1. /\ Len(Append(s, x)) = Len(s) + 1 /\ Len(s) \in Nat
      /\ \A k \in 1..Len(s) : Append(s, x)[k] = s[k]
      /\ Append(s, x)[Len(s) + 1] = x
      /\ DOMAIN s = 1..Len(s) /\ DOMAIN Append(s, x) = 1..(Len(s) + 1)
  BY AppendProperties
<1>2. Pending(Append(s, x)) \subseteq Pending(s) \cup {Len(s) + 1}
  BY <1>1 DEF Pending
<1>3. x.kind \in {"User", "Close"} => Pending(Append(s, x)) = Pending(s)
  BY <1>1 DEF Pending
<1>4. /\ IsFiniteSet(Pending(s) \cup {Len(s) + 1})
      /\ Cardinality(Pending(s) \cup {Len(s) + 1}) <= Cardinality(Pending(s)) + 1
  <2>1. Cardinality(Pending(s)) \in Nat
    BY FS_CardinalityType
  <2>2. /\ IsFiniteSet(Pending(s) \cup {Len(s) + 1})
        /\ \/ Cardinality(Pending(s) \cup {Len(s) + 1}) = Cardinality(Pending(s))
           \/ Cardinality(Pending(s) \cup {Len(s) + 1}) = Cardinality(Pending(s)) + 1
    BY FS_AddElement
  <2> QED
    BY <2>1, <2>2
<1>5. /\ IsFiniteSet(Pending(Append(s, x)))
      /\ Cardinality(Pending(Append(s, x))) <= Cardinality(Pending(s) \cup {Len(s) + 1})
  BY <1>2, <1>4, FS_Subset
<1>6. /\ Cardinality(Pending(s)) \in Nat /\ Cardinality(Pending(Append(s, x))) \in Nat
      /\ Cardinality(Pending(s) \cup {Len(s) + 1}) \in Nat
  BY <1>4, <1>5, FS_CardinalityType
<1> QED
  BY <1>3, <1>4, <1>5, <1>6

\* The first message counts no longer once it is taken.
LEMMA PendingTail ==
  ASSUME NEW S, NEW s \in Seq(S), s # <<>>, IsFiniteSet(Pending(s))
  PROVE  /\ IsFiniteSet(Pending(Tail(s)))
         /\ Cardinality(Pending(Tail(s))) <= Cardinality(Pending(s))
         /\ Head(s).kind \in {"Task", "Timer", "ReceiveTimeout"} =>
              Cardinality(Pending(Tail(s))) + 1 <= Cardinality(Pending(s))
<1> DEFINE T == Pending(Tail(s))
           U == Pending(s) \ {1}
           f == [k \in T |-> k + 1]
<1>1. /\ Head(s) = s[1] /\ 1 \in DOMAIN s /\ DOMAIN s = 1..Len(s) /\ Len(s) \in Nat
      /\ DOMAIN Tail(s) = 1..(Len(s) - 1)
      /\ \A k \in 1..(Len(s) - 1) : Tail(s)[k] = s[k + 1]
  BY HeadTailProperties
<1>2. \A k \in T : k \in Nat \ {0} /\ k + 1 \in U
  BY <1>1 DEF Pending
<1>3. f \in [T -> U]
  BY <1>2
<1>4. \A k, l \in T : f[k] = f[l] => k = l
  BY <1>2
<1>5. f \in Injection(T, U)
  BY <1>3, <1>4, Fun_IsInj
<1>6. /\ IsFiniteSet(U)
      /\ Cardinality(U) = IF 1 \in Pending(s) THEN Cardinality(Pending(s)) - 1
                                              ELSE Cardinality(Pending(s))
  BY FS_RemoveElement
<1>7. IsFiniteSet(T) /\ Cardinality(T) <= Cardinality(U)
  BY <1>5, <1>6, FS_Injection
<1>8. Head(s).kind \in {"Task", "Timer", "ReceiveTimeout"} => 1 \in Pending(s)
  BY <1>1 DEF Pending
<1>9. /\ Cardinality(Pending(s)) \in Nat /\ Cardinality(T) \in Nat
      /\ Cardinality(U) \in Nat
  BY <1>6, <1>7, FS_CardinalityType
<1> HIDE DEF T, U, f
<1>10. /\ Cardinality(T) <= Cardinality(Pending(s))
       /\ 1 \in Pending(s) => Cardinality(T) + 1 <= Cardinality(Pending(s))
  BY <1>6, <1>7, <1>9
<1> QED
  BY <1>7, <1>8, <1>10 DEF T

\* The counts of CountInv are numbers.
LEMMA CountTypes ==
  ASSUME PlacesInv, CountInv, TypeOK
  PROVE  /\ Cardinality(Pending(queue)) \in Nat /\ Cardinality(bheap) \in Nat
         /\ Cardinality(Pending(mailbox)) \in Nat /\ reports \in Nat /\ tasks \in Nat
  BY FS_CardinalityType DEF PlacesInv, CountInv, TypeOK

\* A handler makes one task at most, and queues it.
LEMMA HandlerCount ==
  ASSUME TypeOK, PlacesInv, CountInv, HandlerQueues
  PROVE  /\ IsFiniteSet(Pending(queue'))
         /\ Cardinality(Pending(queue')) - tasks' <= Cardinality(Pending(queue)) - tasks
         /\ Cardinality(Pending(queue')) \in Nat /\ tasks' \in Nat
<1>1. CASE queue' = queue /\ tasks' = tasks
  BY <1>1, CountTypes DEF CountInv
<1>2. ASSUME NEW t \in Tasks, queue' = Append(queue, t), tasks' = tasks + 1
      PROVE  /\ IsFiniteSet(Pending(queue'))
             /\ Cardinality(Pending(queue')) <= Cardinality(Pending(queue)) + 1
  BY <1>2, PendingAppend DEF PlacesInv, CountInv
<1>3. CASE /\ tasks' = tasks + 1
           /\ \E t \in Tasks : queue' = Append(queue, t)
  <2>1. /\ IsFiniteSet(Pending(queue'))
        /\ Cardinality(Pending(queue')) <= Cardinality(Pending(queue)) + 1
    BY <1>2, <1>3
  <2>2. Cardinality(Pending(queue')) \in Nat
    BY <2>1, FS_CardinalityType
  <2> QED
    BY <1>3, <2>1, <2>2, CountTypes
<1> QED
  BY <1>1, <1>3 DEF HandlerQueues

LEMMA PopCount ==
  ASSUME TypeOK, PlacesInv, CountInv, NEW kind, Pop(kind)
  PROVE  /\ IsFiniteSet(Pending(mailbox')) /\ Cardinality(Pending(mailbox')) \in Nat
         /\ Cardinality(Pending(mailbox')) <= Cardinality(Pending(mailbox))
         /\ kind = "ReceiveTimeout" =>
              Cardinality(Pending(mailbox')) + 1 <= Cardinality(Pending(mailbox))
<1>1. /\ mailbox # <<>> /\ Head(mailbox).kind = kind /\ mailbox' = Tail(mailbox)
      /\ mailbox \in Seq(Messages) /\ IsFiniteSet(Pending(mailbox))
  BY DEF Pop, PlacesInv, CountInv
<1> QED
  BY <1>1, PendingTail, FS_CardinalityType

\* Only a task's message counts when it is delivered.
LEMMA DeliverCount ==
  ASSUME TypeOK, PlacesInv, CountInv, NEW m \in Messages,
         mailbox' = IF gone THEN mailbox ELSE Append(mailbox, m)
  PROVE  /\ IsFiniteSet(Pending(mailbox')) /\ Cardinality(Pending(mailbox')) \in Nat
         /\ Cardinality(Pending(mailbox')) <= Cardinality(Pending(mailbox)) + 1
         /\ m.kind = "User" => Pending(mailbox') = Pending(mailbox)
<1>1. mailbox \in Seq(Messages) /\ IsFiniteSet(Pending(mailbox))
  BY DEF PlacesInv, CountInv
<1>2. Cardinality(Pending(mailbox)) \in Nat
  BY <1>1, FS_CardinalityType
<1>3. CASE gone
  BY <1>1, <1>2, <1>3
<1>4. CASE ~gone
  BY <1>1, <1>4, PendingAppend, FS_CardinalityType
<1> QED
  BY <1>3, <1>4

\* Nothing that is counted changes.
LEMMA CountUnchanged ==
  ASSUME CountInv, UNCHANGED <<mailbox, queue, bheap, reports, tasks>>
  PROVE  CountInv'
  BY DEF CountInv

LEMMA CollectCount ==
  ASSUME TypeOK, PlacesInv, CountInv, Collect
  PROVE  CountInv'
<1>1. /\ queue # <<>> /\ queue' = Tail(queue) /\ queue \in Seq(Tasks \cup {Close})
      /\ UNCHANGED <<mailbox, reports, tasks>>
      /\ \/ bheap' = bheap
         \/ Head(queue) # Close /\ bheap' = bheap \cup {Head(queue)}
  BY DEF Collect, contextVars, PlacesInv
<1>2. /\ IsFiniteSet(Pending(queue')) /\ Cardinality(Pending(queue')) \in Nat
      /\ Cardinality(Pending(queue')) <= Cardinality(Pending(queue))
      /\ Head(queue) # Close =>
           Cardinality(Pending(queue')) + 1 <= Cardinality(Pending(queue))
  <2>1. Head(queue) \in Tasks \cup {Close}
    BY <1>1
  <2>2. Head(queue) # Close => Head(queue).kind = "Task"
    BY <2>1, TaskCases
  <2> QED
    BY <1>1, <2>2, PendingTail, FS_CardinalityType DEF CountInv
<1>3. CASE bheap' = bheap
  BY <1>1, <1>2, <1>3, CountTypes DEF CountInv
<1>4. CASE Head(queue) # Close /\ bheap' = bheap \cup {Head(queue)}
  <2>1. Cardinality(bheap') \in Nat /\ Cardinality(bheap') <= Cardinality(bheap) + 1
    <3>1. IsFiniteSet(bheap) /\ Cardinality(bheap) \in Nat
      BY CountTypes DEF PlacesInv
    <3> QED
      BY <1>4, <3>1, FS_AddElement
  <2> QED
    BY <1>1, <1>2, <1>4, <2>1, CountTypes DEF CountInv
<1> QED
  BY <1>1, <1>3, <1>4

LEMMA DrainCount ==
  ASSUME TypeOK, PlacesInv, CountInv, Drain
  PROVE  CountInv'
<1>1. UNCHANGED <<queue, reports, tasks>>
  BY DEF Drain, contextVars
<1>2. PICK task \in bheap :
        \/ bheap' = bheap \ {task} /\ mailbox' = mailbox
        \/ Fire(task)
        \/ mailbox' = mailbox /\ bheap' = bheap
  BY DEF Drain
<1>3. /\ Cardinality(bheap \ {task}) \in Nat
      /\ Cardinality(bheap \ {task}) + 1 = Cardinality(bheap)
  <2>1. IsFiniteSet(bheap) /\ Cardinality(bheap) \in Nat
    BY CountTypes DEF PlacesInv
  <2>2. IsFiniteSet(bheap \ {task}) /\ Cardinality(bheap \ {task}) = Cardinality(bheap) - 1
    BY <1>2, <2>1, FS_RemoveElement
  <2>3. Cardinality(bheap \ {task}) \in Nat
    BY <2>2, FS_CardinalityType
  <2> QED
    BY <2>1, <2>2, <2>3
<1>4. CASE mailbox' = mailbox /\ bheap' = bheap
  BY <1>1, <1>4, CountUnchanged
<1>5. CASE bheap' = bheap \ {task} /\ mailbox' = mailbox
  BY <1>1, <1>3, <1>5, CountTypes DEF CountInv
<1>6. CASE Fire(task)
  <2>1. task.action \in Messages
    BY <1>2, TaskCases DEF PlacesInv
  <2>2. /\ mailbox' = IF gone THEN mailbox ELSE Append(mailbox, task.action)
        /\ bheap' = bheap \ {task}
    BY <1>6 DEF Fire
  <2>3. /\ IsFiniteSet(Pending(mailbox')) /\ Cardinality(Pending(mailbox')) \in Nat
        /\ Cardinality(Pending(mailbox')) <= Cardinality(Pending(mailbox)) + 1
    BY <2>1, <2>2, DeliverCount
  <2> QED
    BY SMTT(30), <1>1, <1>3, <2>2, <2>3, CountTypes DEF CountInv
<1> QED
  BY <1>2, <1>4, <1>5, <1>6

LEMMA CountStep ==
  ASSUME TypeOK, PlacesInv, CountInv, [Next]_vars
  PROVE  CountInv'
<1>1. ASSUME HandlerQueues, UNCHANGED bheap,
             IsFiniteSet(Pending(mailbox')), Cardinality(Pending(mailbox')) \in Nat,
             reports' \in Nat,
             Cardinality(Pending(mailbox')) + reports' <=
               Cardinality(Pending(mailbox)) + reports
      PROVE  CountInv'
  BY <1>1, HandlerCount, CountTypes DEF CountInv
<1>2. CASE OnUser
  <2>1. /\ HandlerQueues /\ UNCHANGED <<bheap, reports>>
        /\ Pop("User")
    BY <1>2, HandlerEffect DEF OnUser, Pop, schedulerVars
  <2> QED
    BY <1>1, <2>1, PopCount, CountTypes
<1>3. CASE OnTimer
  <2>1. /\ HandlerQueues /\ UNCHANGED <<bheap, reports>>
        /\ Pop("Timer")
    BY <1>3, HandlerEffect, ReturnEffect DEF OnTimer, Pop, schedulerVars
  <2> QED
    BY <1>1, <2>1, PopCount, CountTypes
<1>4. CASE OnReceiveTimeout
  <2>1. HandlerQueues /\ Pop("ReceiveTimeout") /\ UNCHANGED bheap
    BY <1>4, ReceiveTimeoutEffect DEF OnReceiveTimeout, Pop, schedulerVars
  <2>2. reports' = reports \/ reports' = reports + 1
    BY <1>4 DEF OnReceiveTimeout
  <2> QED
    BY <1>1, <2>1, <2>2, PopCount, CountTypes
<1>5. CASE Assign \/ Terminate \/ Collected \/ Drained \/ Wake \/ Tick \/ UNCHANGED vars
  BY <1>5, CountUnchanged
  DEF Assign, Terminate, Collected, Drained, Wake, Tick, vars, contextVars, schedulerVars
<1>6. CASE Collect
  BY <1>6, CollectCount
<1>7. CASE Drain
  BY <1>7, DrainCount
<1>8. CASE Tell
  <2>1. /\ mailbox' = IF gone THEN mailbox ELSE Append(mailbox, User)
        /\ UNCHANGED <<queue, bheap, reports, tasks>>
    BY <1>8 DEF Tell, contextVars, schedulerVars
  <2>2. User \in Messages /\ User.kind = "User"
    BY DEF Messages, User
  <2> QED
    BY <2>1, <2>2, DeliverCount DEF CountInv
<1>9. CASE SystemDropped
  <2>1. /\ queue' = Append(queue, Close)
        /\ UNCHANGED <<mailbox, bheap, reports, tasks>>
    BY <1>9 DEF SystemDropped, contextVars, schedulerVars
  <2>2. Close.kind = "Close" /\ queue \in Seq(Tasks \cup {Close})
    BY DEF Close, PlacesInv
  <2>3. Pending(queue') = Pending(queue)
    BY <2>1, <2>2, PendingAppend DEF CountInv
  <2> QED
    BY <2>1, <2>3 DEF CountInv
<1> QED
  BY <1>2, <1>3, <1>4, <1>5, <1>6, <1>7, <1>8, <1>9 DEF Next, ActorStep, SchedulerStep

-----------------------------------------------------------------------------
(* Types, and the sleep of the scheduler.                                  *)

LEMMA HandlerTypeOK ==
  ASSUME TypeOK, PlacesInv', CountInv', HandlerTypes, HandlerQueues, reports' \in Nat,
         UNCHANGED <<now, fire_now, gone, bheap, scheduler, told>>,
         last_message_timestamp' \in {last_message_timestamp, now},
         delivered' \subseteq Ids,
         heard' \in {heard, now}, stamped' \in BOOLEAN
  PROVE  TypeOK'
<1>1. /\ now' \in 0..MaxTime /\ fire_now' \in 0..now'
      /\ last_message_timestamp' \in 0..now'
      /\ heard' \in 0..now' /\ stamped' \in BOOLEAN
      /\ gone' \in BOOLEAN /\ told' \in 0..MaxTold
      /\ scheduler' \in {"collect", "fire", "sleep", "stopped"}
      /\ {task.id : task \in bheap'} \subseteq Ids
  BY DEF TypeOK
<1>2. \A k \in DOMAIN mailbox' : mailbox'[k] \in Messages'
  BY DEF PlacesInv, Messages
<1>3. \A k \in DOMAIN queue' : queue'[k].kind \in {"Close", "Task"}
  BY TaskCases DEF PlacesInv, Close
<1>4. tasks' \in 0..MaxTasks
  BY DEF HandlerQueues, TypeOK
<1>5. reports' \in 0..MaxTasks
  <2>1. /\ Cardinality(Pending(queue')) \in Nat /\ Cardinality(bheap') \in Nat
        /\ Cardinality(Pending(mailbox')) \in Nat
        /\ Cardinality(Pending(queue')) + Cardinality(bheap')
             + Cardinality(Pending(mailbox')) + reports' <= tasks'
    BY FS_CardinalityType DEF CountInv, PlacesInv
  <2> QED
    BY <1>4, <2>1
<1> QED
  BY <1>1, <1>2, <1>3, <1>4, <1>5 DEF TypeOK, HandlerTypes

LEMMA TypeStep ==
  ASSUME TypeOK, PlacesInv, PlacesInv', CountInv', [Next]_vars
  PROVE  TypeOK'
<1>1. CASE OnUser
  <2>1. HandlerTypes /\ HandlerQueues
    BY <1>1, HandlerEffect DEF OnUser
  <2>2. /\ UNCHANGED <<now, fire_now, gone, bheap, scheduler, told, reports, delivered>>
        /\ last_message_timestamp' \in {last_message_timestamp, now}
        /\ heard' \in {heard, now} /\ stamped' \in BOOLEAN
    BY <1>1 DEF OnUser, Pop, Stamp, Hear, schedulerVars
  <2> QED
    BY <2>1, <2>2, HandlerTypeOK DEF TypeOK
<1>2. CASE OnTimer
  <2>1. HandlerTypes /\ HandlerQueues
    BY <1>2, HandlerEffect, ReturnEffect DEF OnTimer
  <2>2. /\ UNCHANGED <<now, fire_now, gone, bheap, scheduler, told, reports>>
        /\ last_message_timestamp' \in {last_message_timestamp, now}
        /\ heard' \in {heard, now} /\ stamped' \in BOOLEAN
    BY <1>2 DEF OnTimer, Pop, Stamp, Hear, schedulerVars
  <2>3. delivered' \subseteq Ids
    <3>1. Head(mailbox) \in Messages /\ Head(mailbox).kind = "Timer"
      BY <1>2, PopPlaces DEF OnTimer, Pop
    <3>2. Head(mailbox).id \in Ids
      BY <3>1, MessageCases
    <3> QED
      BY <1>2, <3>2 DEF OnTimer, TypeOK
  <2> QED
    BY <2>1, <2>2, <2>3, HandlerTypeOK DEF TypeOK
<1>3. CASE OnReceiveTimeout
  <2>1. HandlerTypes /\ HandlerQueues
    BY <1>3, ReceiveTimeoutEffect
  <2>2. /\ UNCHANGED <<now, fire_now, gone, bheap, scheduler, told, delivered,
                       last_message_timestamp, heard, stamped>>
        /\ reports' \in {reports, reports + 1}
    BY <1>3 DEF OnReceiveTimeout, Pop, schedulerVars
  <2> QED
    BY <2>1, <2>2, HandlerTypeOK DEF TypeOK
<1>4. CASE Assign
  <2>1. /\ UNCHANGED <<now, timer_gen, receive_timeout, last_message_timestamp, mailbox,
                       gone, queue, bheap, scheduler, fire_now, tasks, told, delivered,
                       heard, stamped, reports>>
        /\ assigning # None
    BY <1>4 DEF Assign, schedulerVars
  <2>2. assigning.gen \in 0..MaxGen /\ assigning.id \in Ids
        /\ assigning.to \in Names \cup {None}
    BY <2>1 DEF PlacesInv
  <2>3. list' \in [Names -> {None} \cup [gen : 0..MaxGen, id : Ids]]
    BY <1>4, <2>2 DEF Assign, TypeOK
  <2>4. scheduled_receive_timeout' \in {None} \cup Ids
    BY <1>4, <2>2 DEF Assign, TypeOK
  <2>5. cancelled' \subseteq Ids
    <3>1. PICK x \in {None} \cup Ids : Drop({x})
      <4>1. CASE assigning.to = None
        BY <1>4, <4>1 DEF Assign, TypeOK
      <4>2. CASE assigning.to # None
        <5>1. assigning.to \in Names /\ Drop({TimerId(assigning.to)})
          BY <1>4, <2>2, <4>2 DEF Assign
        <5> QED
          BY <5>1, TimerIdType
      <4> QED
        BY <4>1, <4>2
    <3>2. cancelled \subseteq Ids
      BY DEF TypeOK
    <3> QED
      BY <3>1, <3>2 DEF Drop
  <2> QED
    BY <2>1, <2>3, <2>4, <2>5 DEF TypeOK, Messages
<1>5. CASE Terminate
  <2>1. cancelled' \subseteq Ids
    BY <1>5, TimerIdType DEF Terminate, Drop, TypeOK
  <2>2. list' \in [Names -> {None} \cup [gen : 0..MaxGen, id : Ids]]
    BY <1>5 DEF Terminate
  <2> QED
    BY <1>5, <2>1, <2>2 DEF Terminate, TypeOK, Messages, schedulerVars
<1>6. CASE Collect
  <2>1. {task.id : task \in bheap'} \subseteq Ids
    BY TaskCases DEF PlacesInv
  <2>2. \A k \in DOMAIN queue' : queue'[k].kind \in {"Close", "Task"}
    BY TaskCases DEF PlacesInv, Close
  <2>3. scheduler' \in {"collect", "fire", "sleep", "stopped"}
    BY <1>6 DEF Collect, TypeOK
  <2> QED
    BY <1>6, <2>1, <2>2, <2>3 DEF Collect, TypeOK, Messages, contextVars
<1>7. CASE Drain
  <2>1. {task.id : task \in bheap'} \subseteq Ids
    BY TaskCases DEF PlacesInv
  <2>2. \A k \in DOMAIN mailbox' : mailbox'[k] \in Messages'
    BY DEF PlacesInv, Messages
  <2>3. scheduler' \in {"collect", "fire", "sleep", "stopped"}
    BY <1>7 DEF Drain, Fire, TypeOK
  <2> QED
    BY <1>7, <2>1, <2>2, <2>3 DEF Drain, TypeOK, contextVars
<1>8. CASE Collected \/ Drained \/ Wake
  <2>1. /\ UNCHANGED <<now, mailbox, queue, cancelled, tasks, told, contextVars, bheap>>
        /\ scheduler' \in {"fire", "sleep", "collect"}
        /\ fire_now' \in {fire_now, now}
    BY <1>8 DEF Collected, Drained, Wake
  <2> QED
    BY <2>1 DEF TypeOK, Messages, contextVars
<1>9. CASE Tell
  <2>1. \A k \in DOMAIN mailbox' : mailbox'[k] \in Messages'
    BY DEF PlacesInv, Messages
  <2> QED
    BY <1>9, <2>1 DEF Tell, TypeOK, contextVars, schedulerVars
<1>10. CASE Tick
  BY <1>10 DEF Tick, TypeOK, Messages, contextVars, schedulerVars
<1>11. CASE SystemDropped
  <2>1. \A k \in DOMAIN queue' : queue'[k].kind \in {"Close", "Task"}
    BY TaskCases DEF PlacesInv, Close
  <2> QED
    BY <1>11, <2>1 DEF SystemDropped, TypeOK, Messages, contextVars, schedulerVars
<1>12. CASE UNCHANGED vars
  BY <1>12 DEF vars, TypeOK, Messages, contextVars, schedulerVars
<1> QED
  BY <1>1, <1>2, <1>3, <1>4, <1>5, <1>6, <1>7, <1>8, <1>9, <1>10, <1>11, <1>12
  DEF Next, ActorStep, SchedulerStep

\* The task that pop() returns is due no later than any other.
LEMMA SleepStep ==
  ASSUME TypeOK, PlacesInv, SleepsWhenNoneDue, [Next]_vars
  PROVE  SleepsWhenNoneDue'
<1>1. CASE Drain
  <2> SUFFICES ASSUME scheduler' = "sleep", NEW other \in bheap'
               PROVE  other.event_time >= fire_now'
    BY DEF SleepsWhenNoneDue
  <2>1. fire_now' = fire_now /\ scheduler = "fire"
    BY <1>1 DEF Drain
  <2>2. PICK task \in bheap : Pops(task) /\ ~Due(task) /\ bheap' = bheap
    BY <1>1, <2>1 DEF Drain, Fire
  <2>3. task.event_time \in 0..MaxTime /\ other.event_time \in 0..MaxTime
    BY <2>2, TaskCases DEF PlacesInv
  <2>4. task.event_time <= other.event_time
    BY <2>2 DEF Pops
  <2>5. ~(task.event_time < fire_now) /\ fire_now \in Nat
    BY <2>2 DEF Due, TypeOK
  <2> QED
    BY <2>1, <2>3, <2>4, <2>5
<1>2. CASE Drained
  BY <1>2 DEF Drained, SleepsWhenNoneDue
<1>3. CASE Collect \/ Collected \/ Wake
  BY <1>3 DEF Collect, Collected, Wake, SleepsWhenNoneDue
<1>4. CASE UNCHANGED <<bheap, scheduler, fire_now>>
  BY <1>4 DEF SleepsWhenNoneDue
<1> QED
  BY <1>1, <1>2, <1>3, <1>4
  DEF Next, ActorStep, SchedulerStep, OnUser, OnTimer, OnReceiveTimeout, Pop, Assign,
      Terminate, Tell, Tick, SystemDropped, vars, schedulerVars

\* Only a message of a user or of a timer moves the time, and both times move
\* together when a receive timeout is set.
LEMMA StampStep == StampInv /\ [Next]_vars => StampInv'
<1> SUFFICES ASSUME StampInv, [Next]_vars PROVE StampInv'
  OBVIOUS
<1>1. CASE OnUser \/ OnTimer
  <2>1. Stamp /\ Hear
    BY <1>1 DEF OnUser, OnTimer
  <2> QED
    BY <2>1 DEF Stamp, Hear, StampInv
<1>2. CASE UNCHANGED <<last_message_timestamp, heard, stamped>>
  BY <1>2 DEF StampInv
<1>3. OnUser \/ OnTimer \/ UNCHANGED <<last_message_timestamp, heard, stamped>>
  BY DEF Next, ActorStep, SchedulerStep, OnReceiveTimeout, Assign, Terminate, Collect,
         Collected, Drain, Drained, Wake, Tell, Tick, SystemDropped, vars, contextVars
<1> QED
  BY <1>1, <1>2, <1>3

LEMMA InitInv == Init => IInv
<1> SUFFICES ASSUME Init PROVE IInv
  OBVIOUS
<1>1. TypeOK
  <2>1. /\ now \in 0..MaxTime /\ fire_now \in 0..now /\ timer_gen \in 0..MaxGen
        /\ last_message_timestamp \in 0..now /\ heard \in 0..now /\ stamped \in BOOLEAN
        /\ tasks \in 0..MaxTasks /\ told \in 0..MaxTold /\ reports \in 0..MaxTasks
    BY DEF Init
  <2>2. list \in [Names -> {None} \cup [gen : 0..MaxGen, id : Ids]]
    BY DEF Init
  <2>3. /\ \A k \in DOMAIN mailbox : mailbox[k] \in Messages
        /\ \A k \in DOMAIN queue : queue[k].kind \in {"Close", "Task"}
    BY DEF Init
  <2>4. /\ cancelled \subseteq Ids /\ delivered \subseteq Ids
        /\ {task.id : task \in bheap} \subseteq Ids
        /\ scheduler \in {"collect", "fire", "sleep", "stopped"}
        /\ receive_timeout \in {None} \cup Durations
        /\ scheduled_receive_timeout \in {None} \cup Ids
        /\ gone \in BOOLEAN
    BY DEF Init
  <2> QED
    BY <2>1, <2>2, <2>3, <2>4 DEF TypeOK
<1>2. PlacesInv
  BY FS_EmptySet DEF Init, PlacesInv
<1>3. CountInv
  <2>1. Pending(queue) = {} /\ Pending(mailbox) = {} /\ bheap = {}
        /\ reports = 0 /\ tasks = 0
    BY DEF Init, Pending
  <2> QED
    BY <2>1, FS_EmptySet DEF CountInv
<1>4. SleepsWhenNoneDue
  BY DEF Init, SleepsWhenNoneDue
<1>5. StampInv
  BY DEF Init, StampInv
<1> QED
  BY <1>1, <1>2, <1>3, <1>4, <1>5 DEF IInv

LEMMA Invariance == Spec => []IInv
<1>1. IInv /\ [Next]_vars => IInv'
  BY PlacesStep, CountStep, TypeStep, SleepStep, StampStep DEF IInv
<1> QED
  BY <1>1, InitInv, PTL DEF Spec

\* Every reachable state is well typed: what the scheduler's queue and heap hold
\* are tasks, what comes out of them are messages, and a receive timeout is
\* reported no more often than one was scheduled.
THEOREM TypeCorrect == Spec => []TypeOK
<1>1. IInv => TypeOK
  BY DEF IInv
<1> QED
  BY <1>1, Invariance, PTL

\* The scheduler thread (Scheduler::run(), actor/mod.rs) goes to sleep only when
\* nothing it holds is due.
THEOREM SleepCorrect == Spec => []SleepsWhenNoneDue
<1>1. IInv => SleepsWhenNoneDue
  BY DEF IInv
<1> QED
  BY <1>1, Invariance, PTL

\* A receive timeout that is reported was due, so its distance from the last
\* stamped message is one of the past.
LEMMA TimeoutStep ==
  ASSUME TypeOK, PlacesInv, [Next]_vars, reports' # reports
  PROVE  now - last_message_timestamp >= receive_timeout
<1>1. OnReceiveTimeout
  BY DEF Next, ActorStep, SchedulerStep, OnUser, OnTimer, Assign, Terminate, Collect,
         Collected, Drain, Drained, Wake, Tell, Tick, SystemDropped, vars, contextVars
<1>2. receive_timeout # None /\ Remaining(Head(mailbox).exp) = None
  BY <1>1 DEF OnReceiveTimeout
<1>3. Head(mailbox).exp <= now /\ Head(mailbox) \in Messages
      /\ Head(mailbox).kind = "ReceiveTimeout"
  BY <1>1, PopPlaces DEF OnReceiveTimeout, Pop
<1>4. Head(mailbox).exp \in Nat
  BY <1>3, MessageCases
<1>5. /\ receive_timeout \in {None} \cup Durations
      /\ last_message_timestamp \in 0..now /\ now \in 0..MaxTime
  BY DEF TypeOK
<1>6. receive_timeout \in Nat
  BY <1>2, <1>5
<1>7. Head(mailbox).exp - last_message_timestamp >= receive_timeout
  BY <1>2, <1>4, <1>5, <1>6 DEF Remaining
<1> QED
  BY <1>3, <1>4, <1>5, <1>6, <1>7

\* on_system_message() with ReceiveTimeout (Dispatcher::on_message()) only when the
\* actor had no message for as long as it asked for, unless it had the last one
\* while it asked for nothing.
THEOREM TimeoutCorrect == Spec => TimeoutAfterSilence
<1>1. IInv /\ [Next]_vars =>
        [reports' # reports /\ stamped => now - heard >= receive_timeout]_vars
  <2> SUFFICES ASSUME IInv, [Next]_vars, reports' # reports, stamped
               PROVE  now - heard >= receive_timeout
    OBVIOUS
  <2>1. now - last_message_timestamp >= receive_timeout
    BY TimeoutStep DEF IInv
  <2>2. last_message_timestamp = heard
    BY DEF IInv, StampInv
  <2> QED
    BY <2>1, <2>2
<1> QED
  BY <1>1, Invariance, PTL DEF Spec, TimeoutAfterSilence

-----------------------------------------------------------------------------
(* What the context holds.                                                 *)

\* The places for a Scheduled: one per timer name and one, named None as in
\* `assigning`, for the receive timeout.
Slots   == Names \cup {None}
Slot(s) == IF s = None THEN scheduled_receive_timeout ELSE TimerId(s)

\* A Scheduled is in one place, and it is cancelled once it has left that.
HeldInv ==
  /\ \A i \in cancelled : i < tasks
  /\ \A s \in Slots : Slot(s) # None => Slot(s) < tasks /\ Slot(s) \notin cancelled
  /\ \A s, r \in Slots : Slot(s) = Slot(r) /\ Slot(s) # None => s = r
  /\ assigning # None =>
       /\ assigning.id < tasks /\ assigning.id \notin cancelled
       /\ \A s \in Slots : Slot(s) # assigning.id

LEMMA SlotType ==
  ASSUME TypeOK, NEW s \in Slots
  PROVE  Slot(s) \in {None} \cup Ids
  BY TimerIdType DEF Slots, Slot, TypeOK

\* Nothing is taken out.
LEMMA HeldUnchanged ==
  ASSUME HeldInv, UNCHANGED <<cancelled, tasks, assigning, list, scheduled_receive_timeout>>
  PROVE  HeldInv'
  BY DEF HeldInv, Slot, TimerId

\* Some places are emptied.
LEMMA HeldDrop ==
  ASSUME TypeOK, PlacesInv, HeldInv, NEW S \in SUBSET Slots,
         UNCHANGED <<tasks, assigning>>,
         \A s \in Slots : Slot(s)' = IF s \in S THEN None ELSE Slot(s),
         cancelled' = cancelled \cup ({Slot(s) : s \in S} \ {None})
  PROVE  HeldInv'
<1>1. \A i \in cancelled' : i \in cancelled \/ \E s \in S : i = Slot(s) /\ Slot(s) # None
  OBVIOUS
<1>2. \A i \in cancelled' : i < tasks'
  BY <1>1 DEF HeldInv
<1>3. ASSUME NEW s \in Slots, Slot(s)' # None
      PROVE  Slot(s)' = Slot(s) /\ Slot(s)' < tasks' /\ Slot(s)' \notin cancelled'
  <2>1. s \notin S /\ Slot(s)' = Slot(s)
    BY <1>3
  <2>2. Slot(s) < tasks /\ Slot(s) \notin cancelled /\ \A r \in S : Slot(r) # Slot(s)
    BY <1>3, <2>1 DEF HeldInv
  <2> QED
    BY <1>1, <2>1, <2>2
<1>4. \A s, r \in Slots : Slot(s)' = Slot(r)' /\ Slot(s)' # None => s = r
  BY <1>3 DEF HeldInv
<1>5. ASSUME assigning' # None
      PROVE  /\ assigning'.id < tasks' /\ assigning'.id \notin cancelled'
             /\ \A s \in Slots : Slot(s)' # assigning'.id
  <2>1. /\ assigning.id < tasks /\ assigning.id \notin cancelled
        /\ \A s \in Slots : Slot(s) # assigning.id
        /\ assigning.id # None
    BY <1>5 DEF HeldInv, PlacesInv
  <2> QED
    BY <1>1, <2>1
<1> QED
  BY <1>2, <1>3, <1>4, <1>5 DEF HeldInv

\* A new task is in no place yet.
LEMMA HeldNew ==
  ASSUME TypeOK, HeldInv, NEW to, NEW g,
         assigning' = [to |-> to, gen |-> g, id |-> tasks], tasks' = tasks + 1,
         UNCHANGED <<cancelled, list, scheduled_receive_timeout>>
  PROVE  HeldInv'
<1>1. \A s \in Slots : Slot(s)' = Slot(s)
  BY DEF Slot, TimerId
<1>2. tasks \in Nat /\ cancelled \subseteq Nat
  BY DEF TypeOK
<1>3. \A s \in Slots : Slot(s) # None => Slot(s) \in Nat
  BY SlotType
<1>4. \A i \in cancelled' : i < tasks'
  BY <1>2 DEF HeldInv
<1>5. \A s \in Slots : Slot(s)' # None => Slot(s)' < tasks' /\ Slot(s)' \notin cancelled'
  BY <1>1, <1>2, <1>3 DEF HeldInv
<1>6. \A s, r \in Slots : Slot(s)' = Slot(r)' /\ Slot(s)' # None => s = r
  BY <1>1 DEF HeldInv
<1>7. /\ assigning'.id = tasks /\ tasks < tasks' /\ tasks \notin cancelled'
      /\ \A s \in Slots : Slot(s)' # tasks
  BY <1>1, <1>2, <1>3 DEF HeldInv
<1> QED
  BY <1>4, <1>5, <1>6, <1>7 DEF HeldInv

\* The new task takes the place of the old one.
LEMMA HeldAssign ==
  ASSUME TypeOK, PlacesInv, HeldInv, Assign
  PROVE  HeldInv'
<1>0. PICK to \in Slots : to = assigning.to
  BY DEF Assign, PlacesInv, Slots
<1>1. /\ assigning # None /\ assigning' = None /\ tasks' = tasks
      /\ to \in Slots /\ assigning.id \in Ids
  BY DEF Assign, PlacesInv, Slots
<1>2. cancelled' = cancelled \cup ({Slot(to)} \ {None})
  BY <1>0, <1>1 DEF Assign, Drop, Slot
<1>3. /\ \A s \in Slots : s # to => Slot(s)' = Slot(s)
      /\ Slot(to)' = None \/ Slot(to)' = assigning.id
  <2>1. CASE to = None
    BY <1>0, <2>1 DEF Assign, Slot, TimerId
  <2>2. CASE to # None
    <3>1. /\ list' = [list EXCEPT ![to] = [gen |-> assigning.gen, id |-> assigning.id]]
          /\ to \in Names /\ scheduled_receive_timeout' = scheduled_receive_timeout
          /\ DOMAIN list = Names
      BY <1>0, <1>1, <2>2 DEF Assign, Slots, TypeOK
    <3>2. \A n \in Names : n # to => TimerId(n)' = TimerId(n)
      BY <3>1 DEF TimerId
    <3>3. TimerId(to)' = None \/ TimerId(to)' = assigning.id
      BY <3>1 DEF TimerId
    <3> QED
      BY <2>2, <3>1, <3>2, <3>3 DEF Slot, Slots
  <2> QED
    BY <2>1, <2>2
<1>4. /\ assigning.id < tasks /\ assigning.id \notin cancelled
      /\ \A s \in Slots : Slot(s) # assigning.id
  BY <1>1 DEF HeldInv
<1>5. \A i \in cancelled' : i < tasks'
  BY <1>1, <1>2 DEF HeldInv
<1>6. ASSUME NEW s \in Slots, Slot(s)' # None
      PROVE  Slot(s)' < tasks' /\ Slot(s)' \notin cancelled'
  <2>1. CASE s = to
    BY <1>1, <1>2, <1>3, <1>4, <1>6, <2>1
  <2>2. CASE s # to
    <3>1. Slot(s)' = Slot(s) /\ Slot(s) # Slot(to) /\ Slot(s) < tasks /\ Slot(s) \notin cancelled
      BY <1>1, <1>3, <1>6, <2>2 DEF HeldInv
    <3> QED
      BY <1>1, <1>2, <3>1
  <2> QED
    BY <2>1, <2>2
<1>7. ASSUME NEW s \in Slots, NEW r \in Slots, Slot(s)' = Slot(r)', Slot(s)' # None
      PROVE  s = r
  BY <1>1, <1>3, <1>4, <1>7 DEF HeldInv
<1> QED
  BY <1>1, <1>5, <1>6, <1>7 DEF HeldInv

LEMMA HeldHandler ==
  ASSUME TypeOK, PlacesInv, HeldInv, Handler
  PROVE  HeldInv'
<1>1. CASE \E n \in Names, d \in Durations : start_single_timer(n, d)
  BY <1>1, HeldNew DEF start_single_timer, after_func
<1>2. ASSUME NEW n \in Names, cancel_timer(n)
      PROVE  HeldInv'
  <2>1. /\ list' = [list EXCEPT ![n] = None] /\ DOMAIN list = Names
        /\ UNCHANGED <<scheduled_receive_timeout, tasks, assigning>>
        /\ cancelled' = cancelled \cup ({TimerId(n)} \ {None})
    BY <1>2 DEF cancel_timer, Drop, TypeOK
  <2>2. \A s \in Slots : Slot(s)' = IF s \in {n} THEN None ELSE Slot(s)
    BY <2>1 DEF Slots, Slot, TimerId
  <2>3. {Slot(s) : s \in {n}} = {TimerId(n)} /\ {n} \in SUBSET Slots
    BY DEF Slot, Slots
  <2> QED
    BY <2>1, <2>2, <2>3, HeldDrop
<1>3. CASE \E d \in Durations : set_receive_timeout(d)
  BY <1>3, HeldNew DEF set_receive_timeout, schedule_receive_timeout, after_func
<1>4. CASE cancel_receive_timeout
  <2>1. /\ UNCHANGED <<list, tasks, assigning>> /\ scheduled_receive_timeout' = None
        /\ cancelled' = cancelled \cup ({scheduled_receive_timeout} \ {None})
    BY <1>4 DEF cancel_receive_timeout, Drop
  <2>2. \A s \in Slots : Slot(s)' = IF s \in {None} THEN None ELSE Slot(s)
    BY <2>1 DEF Slots, Slot, TimerId
  <2>3. /\ {Slot(s) : s \in {None}} = {scheduled_receive_timeout}
        /\ {None} \in SUBSET Slots
    BY DEF Slot, Slots
  <2> QED
    BY <2>1, <2>2, <2>3, HeldDrop
<1>5. CASE Return
  BY <1>5, HeldUnchanged DEF Return
<1> QED
  BY <1>1, <1>2, <1>3, <1>4, <1>5 DEF Handler

LEMMA HeldTerminate ==
  ASSUME TypeOK, PlacesInv, HeldInv, Terminate
  PROVE  HeldInv'
<1>1. /\ list' = [n \in Names |-> None] /\ scheduled_receive_timeout' = None
      /\ UNCHANGED <<tasks, assigning>>
      /\ cancelled' = cancelled \cup
           (({TimerId(n) : n \in Names} \cup {scheduled_receive_timeout}) \ {None})
  BY DEF Terminate, Drop
<1>2. \A s \in Slots : Slot(s)' = IF s \in Slots THEN None ELSE Slot(s)
  BY <1>1 DEF Slots, Slot, TimerId
<1>3. {Slot(s) : s \in Slots} = {TimerId(n) : n \in Names} \cup {scheduled_receive_timeout}
  BY DEF Slots, Slot
<1> QED
  BY <1>1, <1>2, <1>3, HeldDrop

LEMMA HeldStep ==
  ASSUME TypeOK, PlacesInv, HeldInv, [Next]_vars
  PROVE  HeldInv'
<1>1. CASE OnUser
  BY <1>1, HeldHandler DEF OnUser
<1>2. CASE OnTimer
  BY <1>2, HeldHandler, HeldUnchanged DEF OnTimer, Return
<1>3. CASE OnReceiveTimeout
  BY <1>3, HeldHandler, HeldUnchanged, HeldNew
  DEF OnReceiveTimeout, Return, Reschedule, schedule_receive_timeout, after_func
<1>4. CASE Assign
  BY <1>4, HeldAssign
<1>5. CASE Terminate
  BY <1>5, HeldTerminate
<1>6. CASE SchedulerStep \/ Tell \/ Tick \/ SystemDropped \/ UNCHANGED vars
  BY <1>6, HeldUnchanged
  DEF SchedulerStep, Collect, Collected, Drain, Drained, Wake, Tell, Tick, SystemDropped,
      vars, contextVars
<1> QED
  BY <1>1, <1>2, <1>3, <1>4, <1>5, <1>6 DEF Next, ActorStep

-----------------------------------------------------------------------------
(* Generations.                                                            *)

\* A generation and the task it was given to, wherever the two occur together.
Says(m, g, i) == m.kind = "Timer" /\ m.gen = g /\ m.id = i

InList(g, i)      == \E n \in Names : list[n] # None /\ list[n].gen = g /\ list[n].id = i
InAssigning(g, i) == /\ assigning # None /\ assigning.to # None
                     /\ assigning.gen = g /\ assigning.id = i
InMailbox(g, i)   == \E k \in DOMAIN mailbox : Says(mailbox[k], g, i)
InHeap(g, i)      == \E t \in bheap : Says(t.action, g, i)
InQueue(g, i)     == \E k \in DOMAIN queue :
                       queue[k] # Close /\ Says(queue[k].action, g, i)

Known(g, i) == \/ InList(g, i) \/ InAssigning(g, i)
               \/ InMailbox(g, i) \/ InHeap(g, i) \/ InQueue(g, i)

\* As long as the generations have not wrapped, each is given to one task, and
\* the next one to none that is known.
NoWrap == MaxTasks <= MaxGen + 1

GenInv ==
  NoWrap =>
    /\ timer_gen <= tasks
    /\ tasks < MaxTasks =>
         \A g \in 0..MaxGen, i \in Ids : Known(g, i) => g < timer_gen
    /\ \A g \in 0..MaxGen : \A i, j \in Ids : Known(g, i) /\ Known(g, j) => i = j

\* start_single_timer() makes the only new pair.
Starts(g, i) ==
  /\ tasks < MaxTasks /\ tasks' = tasks + 1
  /\ timer_gen' = next_timer_gen(timer_gen)
  /\ g = timer_gen /\ i = tasks

LEMMA HandlerKnows ==
  ASSUME TypeOK, PlacesInv, Handler \/ OnReceiveTimeout \/ Return,
         NEW g \in 0..MaxGen, NEW i \in Ids
  PROVE  /\ InList(g, i)' => InList(g, i)
         /\ InAssigning(g, i)' => InAssigning(g, i) \/ Starts(g, i)
         /\ InQueue(g, i)' => InQueue(g, i) \/ Starts(g, i)
<1>1. ASSUME NEW n \in Names, NEW d \in Durations, start_single_timer(n, d)
      PROVE  /\ InList(g, i)' => InList(g, i)
             /\ InAssigning(g, i)' => Starts(g, i)
             /\ InQueue(g, i)' => InQueue(g, i) \/ Starts(g, i)
  <2> DEFINE t == Task(tasks, now + d, TimerMsg(n, timer_gen, tasks))
  <2>1. /\ list' = list /\ Room(d) /\ tasks' = tasks + 1
        /\ timer_gen' = next_timer_gen(timer_gen)
        /\ assigning' = [to |-> n, gen |-> timer_gen, id |-> tasks]
        /\ queue' = Append(queue, t)
    BY <1>1 DEF start_single_timer, after_func
  <2>2. \A k \in DOMAIN queue' : (k \in DOMAIN queue /\ queue'[k] = queue[k]) \/ queue'[k] = t
    BY <2>1, AfterFunc, AppendProperties DEF PlacesInv
  <2>3. Says(t.action, g, i) => g = timer_gen /\ i = tasks
    BY DEF Task, TimerMsg, Says
  <2>4. InAssigning(g, i)' => g = timer_gen /\ i = tasks
    BY <2>1 DEF InAssigning
  <2> HIDE DEF t
  <2>5. InQueue(g, i)' => InQueue(g, i) \/ Says(t.action, g, i)
    BY <2>2 DEF InQueue
  <2> QED
    BY <2>1, <2>3, <2>4, <2>5 DEF InList, Starts, Room
<1>2. ASSUME NEW d \in Nat, schedule_receive_timeout(d)
      PROVE  ~InAssigning(g, i)' /\ (InQueue(g, i)' => InQueue(g, i)) /\ list' = list
  <2> DEFINE t == Task(tasks, now + d, ReceiveTimeout(now + d))
  <2>1. /\ list' = list /\ Room(d)
        /\ assigning' = [to |-> None, gen |-> 0, id |-> tasks]
        /\ queue' = Append(queue, t)
    BY <1>2 DEF schedule_receive_timeout, after_func
  <2>2. \A k \in DOMAIN queue' : (k \in DOMAIN queue /\ queue'[k] = queue[k]) \/ queue'[k] = t
    BY <2>1, AfterFuncTimeout, AppendProperties DEF PlacesInv
  <2>3. ~Says(t.action, g, i)
    BY DEF Task, ReceiveTimeout, Says
  <2>4. ~InAssigning(g, i)'
    BY <2>1 DEF InAssigning
  <2> HIDE DEF t
  <2> QED
    BY <2>1, <2>2, <2>3, <2>4 DEF InQueue
<1>3. CASE \E n \in Names : cancel_timer(n)
  <2>1. PICK n \in Names : cancel_timer(n)
    BY <1>3
  <2>2. /\ list' = [list EXCEPT ![n] = None] /\ DOMAIN list = Names
        /\ assigning' = assigning /\ queue' = queue
    BY <2>1 DEF cancel_timer, TypeOK
  <2> QED
    BY <2>2 DEF InList, InAssigning, InQueue
<1>4. CASE cancel_receive_timeout \/ Return
  BY <1>4 DEF cancel_receive_timeout, Return, InList, InAssigning, InQueue
<1>5. CASE Handler
  <2>1. CASE \E d \in Durations : set_receive_timeout(d)
    BY <1>2, <2>1 DEF set_receive_timeout, InList
  <2> QED
    BY <1>1, <1>3, <1>4, <1>5, <2>1 DEF Handler
<1>6. CASE OnReceiveTimeout
  <2>1. Head(mailbox) \in Messages /\ Head(mailbox).kind = "ReceiveTimeout"
    BY <1>6, PopPlaces DEF OnReceiveTimeout, Pop
  <2>2. Head(mailbox).exp \in Nat
    BY <2>1, MessageCases
  <2>3. receive_timeout # None /\ Remaining(Head(mailbox).exp) # None
          => Remaining(Head(mailbox).exp) \in Nat
    BY <2>2, RemainingTime
  <2>4. \/ Handler \/ Return
        \/ /\ schedule_receive_timeout(Remaining(Head(mailbox).exp))
           /\ Remaining(Head(mailbox).exp) \in Nat
    BY <1>6, <2>3 DEF OnReceiveTimeout, Reschedule
  <2> QED
    BY <1>2, <1>4, <1>5, <2>4 DEF InList
<1> QED
  BY <1>4, <1>5, <1>6

\* A message that is popped was known.
LEMMA PopKnows ==
  ASSUME PlacesInv, NEW kind, Pop(kind), NEW g \in 0..MaxGen, NEW i \in Ids
  PROVE  (InMailbox(g, i)' => InMailbox(g, i)) /\ (InHeap(g, i)' => InHeap(g, i))
<1>1. /\ mailbox # <<>> /\ mailbox' = Tail(mailbox) /\ bheap' = bheap
      /\ mailbox \in Seq(Messages)
  BY DEF Pop, PlacesInv, schedulerVars
<1>2. \A k \in DOMAIN mailbox' : mailbox'[k] = mailbox[k + 1] /\ k + 1 \in DOMAIN mailbox
  BY <1>1
<1> QED
  BY <1>1, <1>2 DEF InMailbox, InHeap

LEMMA AssignKnows ==
  ASSUME TypeOK, PlacesInv, Assign, NEW g \in 0..MaxGen, NEW i \in Ids
  PROVE  Known(g, i)' => Known(g, i)
<1>1. /\ assigning # None /\ assigning' = None
      /\ UNCHANGED <<mailbox, bheap, queue>>
  BY DEF Assign, schedulerVars
<1>2. InList(g, i)' => InList(g, i) \/ InAssigning(g, i)
  <2>1. CASE list' = list
    BY <2>1 DEF InList
  <2>2. PICK to : to = assigning.to
    OBVIOUS
  <2>3. CASE /\ to # None
             /\ list' = [list EXCEPT ![to] = [gen |-> assigning.gen, id |-> assigning.id]]
    <3>1. ASSUME NEW n \in Names, list'[n] # None, list'[n].gen = g, list'[n].id = i
          PROVE  InList(g, i) \/ InAssigning(g, i)
      <4>1. CASE n = to
        <5>1. list'[n] = [gen |-> assigning.gen, id |-> assigning.id]
          BY <2>3, <4>1 DEF TypeOK
        <5> QED
          BY <1>1, <2>2, <2>3, <3>1, <5>1 DEF InAssigning
      <4>2. CASE n # to
        BY <2>3, <3>1, <4>2 DEF InList, TypeOK
      <4> QED
        BY <4>1, <4>2
    <3> QED
      BY <3>1 DEF InList
  <2> QED
    BY <2>1, <2>2, <2>3 DEF Assign
<1>3. ~InAssigning(g, i)'
  BY <1>1 DEF InAssigning
<1> QED
  BY <1>1, <1>2, <1>3 DEF Known, InMailbox, InHeap, InQueue

LEMMA CollectKnows ==
  ASSUME PlacesInv, Collect, NEW g \in 0..MaxGen, NEW i \in Ids
  PROVE  Known(g, i)' => Known(g, i)
<1>1. /\ queue # <<>> /\ queue' = Tail(queue) /\ queue \in Seq(Tasks \cup {Close})
      /\ UNCHANGED <<mailbox, list, assigning>>
      /\ \/ bheap' = bheap
         \/ Head(queue) # Close /\ bheap' = bheap \cup {Head(queue)}
  BY DEF Collect, contextVars, PlacesInv
<1>2. /\ Head(queue) = queue[1] /\ 1 \in DOMAIN queue
      /\ \A k \in DOMAIN queue' : queue'[k] = queue[k + 1] /\ k + 1 \in DOMAIN queue
  BY <1>1
<1>3. InQueue(g, i)' => InQueue(g, i)
  BY <1>2 DEF InQueue
<1>4. InHeap(g, i)' => InHeap(g, i) \/ InQueue(g, i)
  BY <1>1, <1>2 DEF InHeap, InQueue
<1> QED
  BY <1>1, <1>3, <1>4 DEF Known, InMailbox, InList, InAssigning

\* A message is delivered that is in the heap, or none of a timer.
LEMMA DeliverKnows ==
  ASSUME PlacesInv, NEW m \in Messages,
         mailbox' = IF gone THEN mailbox ELSE Append(mailbox, m),
         NEW g \in 0..MaxGen, NEW i \in Ids
  PROVE  InMailbox(g, i)' => InMailbox(g, i) \/ Says(m, g, i)
<1>1. \A k \in DOMAIN mailbox' :
        (k \in DOMAIN mailbox /\ mailbox'[k] = mailbox[k]) \/ mailbox'[k] = m
  BY AppendProperties DEF PlacesInv
<1> QED
  BY <1>1 DEF InMailbox

LEMMA DrainKnows ==
  ASSUME PlacesInv, Drain, NEW g \in 0..MaxGen, NEW i \in Ids
  PROVE  Known(g, i)' => Known(g, i)
<1>1. UNCHANGED <<queue, list, assigning>>
  BY DEF Drain, contextVars
<1>2. PICK task \in bheap :
        \/ bheap' \subseteq bheap /\ mailbox' = mailbox
        \/ /\ mailbox' = IF gone THEN mailbox ELSE Append(mailbox, task.action)
           /\ bheap' \subseteq bheap
  BY DEF Drain, Fire
<1>3. task.action \in Messages
  BY TaskCases DEF PlacesInv
<1>4. InMailbox(g, i)' => InMailbox(g, i) \/ InHeap(g, i)
  BY <1>2, <1>3, DeliverKnows DEF InMailbox, InHeap
<1>5. InHeap(g, i)' => InHeap(g, i)
  BY <1>2 DEF InHeap
<1> QED
  BY <1>1, <1>4, <1>5 DEF Known, InQueue, InList, InAssigning

LEMMA KnownStep ==
  ASSUME TypeOK, PlacesInv, [Next]_vars, NEW g \in 0..MaxGen, NEW i \in Ids, Known(g, i)'
  PROVE  Known(g, i) \/ Starts(g, i)
<1>1. CASE OnUser \/ OnTimer \/ OnReceiveTimeout
  <2>1. Handler \/ OnReceiveTimeout \/ Return
    BY <1>1 DEF OnUser, OnTimer
  <2>2. PICK kind : Pop(kind)
    BY <1>1 DEF OnUser, OnTimer, OnReceiveTimeout
  <2> QED
    BY <2>1, <2>2, HandlerKnows, PopKnows DEF Known
<1>2. CASE Assign
  BY <1>2, AssignKnows
<1>3. CASE Collect
  BY <1>3, CollectKnows
<1>4. CASE Drain
  BY <1>4, DrainKnows
<1>5. CASE Tell
  <2>1. User \in Messages /\ ~Says(User, g, i)
    BY DEF Messages, User, Says
  <2>2. InMailbox(g, i)' => InMailbox(g, i)
    BY <1>5, <2>1, DeliverKnows DEF Tell
  <2> QED
    BY <1>5, <2>2
    DEF Tell, contextVars, schedulerVars, Known, InList, InAssigning, InHeap, InQueue
<1>6. CASE Terminate
  <2>1. ~InList(g, i)'
    BY <1>6 DEF Terminate, InList
  <2> QED
    BY <1>6, <2>1 DEF Terminate, schedulerVars, Known, InAssigning, InMailbox, InHeap, InQueue
<1>7. CASE SystemDropped
  <2>1. queue' = Append(queue, Close) /\ UNCHANGED <<mailbox, bheap, list, assigning>>
    BY <1>7 DEF SystemDropped, contextVars, schedulerVars
  <2>2. \A k \in DOMAIN queue' :
          (k \in DOMAIN queue /\ queue'[k] = queue[k]) \/ queue'[k] = Close
    BY <2>1, AppendProperties DEF PlacesInv
  <2> QED
    BY <2>1, <2>2 DEF Known, InList, InAssigning, InMailbox, InHeap, InQueue
<1>8. CASE Collected \/ Drained \/ Wake \/ Tick \/ UNCHANGED vars
  <2>1. UNCHANGED <<mailbox, queue, bheap, list, assigning>>
    BY <1>8 DEF Collected, Drained, Wake, Tick, vars, contextVars, schedulerVars
  <2> QED
    BY <2>1 DEF Known, InList, InAssigning, InMailbox, InHeap, InQueue
<1> QED
  BY <1>1, <1>2, <1>3, <1>4, <1>5, <1>6, <1>7, <1>8 DEF Next, ActorStep, SchedulerStep

\* The generation counts tasks, or not all of them.
LEMMA GenMoves ==
  ASSUME TypeOK, PlacesInv, [Next]_vars
  PROVE  \/ timer_gen' = timer_gen /\ tasks' \in {tasks, tasks + 1}
         \/ /\ tasks < MaxTasks /\ tasks' = tasks + 1
            /\ timer_gen' = next_timer_gen(timer_gen)
<1>1. CASE Handler \/ Return \/ OnReceiveTimeout
  BY <1>1
  DEF Handler, Return, OnReceiveTimeout, Reschedule, start_single_timer, cancel_timer,
      set_receive_timeout, schedule_receive_timeout, cancel_receive_timeout, after_func, Room
<1>2. CASE UNCHANGED <<timer_gen, tasks>>
  BY <1>2
<1> QED
  BY <1>1, <1>2
  DEF Next, ActorStep, OnUser, OnTimer, Assign, Terminate, SchedulerStep, Collect,
      Collected, Drain, Drained, Wake, Tell, Tick, SystemDropped, vars, contextVars

LEMMA GenStep ==
  ASSUME TypeOK, TypeOK', PlacesInv, GenInv, [Next]_vars
  PROVE  GenInv'
<1> SUFFICES ASSUME NoWrap
             PROVE  /\ timer_gen' <= tasks'
                    /\ tasks' < MaxTasks =>
                         \A g \in 0..MaxGen, i \in Ids : Known(g, i)' => g < timer_gen'
                    /\ \A g \in 0..MaxGen : \A i, j \in Ids :
                         Known(g, i)' /\ Known(g, j)' => i = j
  BY DEF GenInv
<1>1. timer_gen \in 0..MaxGen /\ tasks \in 0..MaxTasks /\ timer_gen <= tasks
  BY DEF GenInv, TypeOK
<1>2. timer_gen' <= tasks'
  BY <1>1, GenMoves DEF next_timer_gen
<1>3. ASSUME tasks' < MaxTasks, NEW g \in 0..MaxGen, NEW i \in Ids, Known(g, i)'
      PROVE  g < timer_gen'
  <2>1. tasks < MaxTasks /\ timer_gen <= timer_gen'
    BY <1>1, <1>3, GenMoves DEF next_timer_gen, NoWrap
  <2>2. CASE Known(g, i)
    <3>1. g < timer_gen
      BY <2>1, <2>2 DEF GenInv
    <3> QED
      BY <1>1, <2>1, <3>1 DEF TypeOK
  <2>3. CASE Starts(g, i)
    BY <1>1, <1>3, <2>3 DEF Starts, next_timer_gen, NoWrap
  <2> QED
    BY <1>3, <2>2, <2>3, KnownStep
<1>4. ASSUME NEW g \in 0..MaxGen, NEW i \in Ids, NEW j \in Ids, Known(g, i)', Known(g, j)'
      PROVE  i = j
  <2>1. (Known(g, i) \/ Starts(g, i)) /\ (Known(g, j) \/ Starts(g, j))
    BY <1>4, KnownStep
  <2>2. CASE Known(g, i) /\ Known(g, j)
    BY <2>2 DEF GenInv
  <2>3. CASE Starts(g, i) /\ Starts(g, j)
    BY <2>3 DEF Starts
  <2>4. tasks < MaxTasks => (Known(g, i) => g < timer_gen) /\ (Known(g, j) => g < timer_gen)
    BY DEF GenInv
  <2>5. Starts(g, i) \/ Starts(g, j) => tasks < MaxTasks /\ ~(g < timer_gen)
    BY <1>1 DEF Starts
  <2> QED
    BY <2>1, <2>2, <2>3, <2>4, <2>5
<1> QED
  BY <1>2, <1>3, <1>4

-----------------------------------------------------------------------------
(* Stale messages.                                                         *)

StaleInv == HeldInv /\ GenInv

LEMMA InitStale == Init => StaleInv
<1> SUFFICES ASSUME Init PROVE StaleInv
  OBVIOUS
<1>1. /\ cancelled = {} /\ assigning = None /\ scheduled_receive_timeout = None
      /\ \A n \in Names : list[n] = None
      /\ mailbox = <<>> /\ queue = <<>> /\ bheap = {} /\ timer_gen = 0 /\ tasks = 0
  BY DEF Init
<1>2. \A s \in Slots : Slot(s) = None
  BY <1>1 DEF Slots, Slot, TimerId
<1>3. HeldInv
  BY <1>1, <1>2 DEF HeldInv
<1>4. \A g \in 0..MaxGen, i \in Ids : ~Known(g, i)
  BY <1>1 DEF Known, InList, InAssigning, InMailbox, InHeap, InQueue
<1>5. GenInv
  BY <1>1, <1>4 DEF GenInv
<1> QED
  BY <1>3, <1>5 DEF StaleInv

LEMMA StaleInvariance == Spec => [](IInv /\ StaleInv)
<1>1. IInv /\ StaleInv /\ [Next]_vars => (IInv /\ StaleInv)'
  BY PlacesStep, CountStep, TypeStep, SleepStep, StampStep, HeldStep, GenStep
  DEF IInv, StaleInv
<1> QED
  BY <1>1, InitInv, InitStale, PTL DEF Spec

\* A message whose generation is that of the running timer is from the task the
\* context still holds.
LEMMA StaleStep ==
  ASSUME TypeOK, PlacesInv, HeldInv, GenInv, NoWrap, [Next]_vars
  PROVE  \A i \in delivered' \ delivered : i \notin cancelled
<1> SUFFICES ASSUME NEW i \in delivered' \ delivered
             PROVE  i \notin cancelled
  OBVIOUS
<1> DEFINE m == Head(mailbox)
<1>1. OnTimer
  BY DEF Next, ActorStep, SchedulerStep, OnUser, OnReceiveTimeout, Assign, Terminate, Collect,
         Collected, Drain, Drained, Wake, Tell, Tick, SystemDropped, vars, contextVars
<1>2. signal(m) /\ i = m.id
  BY <1>1 DEF OnTimer
<1>3. m \in Messages /\ m.kind = "Timer" /\ m = mailbox[1] /\ 1 \in DOMAIN mailbox
  BY <1>1 DEF OnTimer, Pop, PlacesInv
<1>4. m.key \in Names /\ m.gen \in 0..MaxGen /\ m.id \in Ids
  BY <1>3, MessageCases
<1>5. Known(m.gen, m.id)
  BY <1>3 DEF Known, InMailbox, Says
<1>6. /\ list[m.key] # None /\ list[m.key].gen = m.gen /\ list[m.key].id \in Ids
      /\ TimerId(m.key) = list[m.key].id
  BY <1>2, <1>4 DEF signal, TimerId, TypeOK
<1>7. Known(m.gen, list[m.key].id)
  BY <1>4, <1>6 DEF Known, InList
<1>8. m.id = list[m.key].id
  BY <1>4, <1>5, <1>6, <1>7 DEF GenInv
<1>9. Slot(m.key) = m.id /\ m.key \in Slots /\ m.id # None
  BY <1>4, <1>6, <1>8 DEF Slot, Slots
<1> QED
  BY <1>2, <1>9 DEF HeldInv

\* Timer::signal() (context.rs): as long as the generations have not wrapped, a
\* timer that was cancelled or started again never reaches a handler, wherever
\* its task or its message is by then.
THEOREM StaleCorrect == NoWrap => (Spec => StaleNeverDelivered)
<1> SUFFICES ASSUME NoWrap PROVE Spec => StaleNeverDelivered
  OBVIOUS
<1>1. IInv /\ StaleInv /\ [Next]_vars =>
        [\A i \in delivered' \ delivered : i \notin cancelled]_vars
  BY StaleStep DEF IInv, StaleInv
<1> QED
  BY <1>1, StaleInvariance, PTL DEF Spec, StaleNeverDelivered
=============================================================================
