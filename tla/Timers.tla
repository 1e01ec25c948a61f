------------------------------- MODULE Timers -------------------------------
(***************************************************************************)
(* The timers of one actor: the scheduler thread of the actor system       *)
(* (Scheduler, ScheduleSender, Scheduled in src/src/actor/mod.rs), the      *)
(* timer functions of ActorContext (context.rs) and what on_message()       *)
(* does with the two kinds of message a timer sends (dispatcher.rs).        *)
(*                                                                         *)
(* The handlers run in the actor's task and the scheduler in a thread of   *)
(* its own; they share the scheduler's queue, the cancelled flag of each   *)
(* SchedulerTask and the mailbox.  Cancelling is dropping a Scheduled:      *)
(* it sets the flag, it does not reach into the queue or the heap.          *)
(***************************************************************************)
EXTENDS Integers, Sequences

CONSTANTS
  Names,      \* timer names
  Durations,  \* what handlers ask for, in clock ticks
  None,
  MaxGen,     \* u32::MAX in the code
  MaxTime,    \* BOUND: the clock stops here
  MaxTasks,   \* BOUND: calls of after_func()
  MaxTold     \* BOUND: user messages sent to the actor

ASSUME TimersAssumption ==
  /\ Durations \subseteq Nat \ {0}
  /\ MaxGen \in Nat /\ MaxTime \in Nat /\ MaxTasks \in Nat /\ MaxTold \in Nat
  /\ None \notin Nat /\ None \notin Names

VARIABLES
  now,                       \* Instant::now(), in ticks
  list,                      \* Timer::list: name -> [gen, id] or None
  timer_gen,
  receive_timeout,
  scheduled_receive_timeout, \* the id of its task, or None
  last_message_timestamp,
  mailbox,                   \* user messages of the actor
  assigning,                 \* the Scheduled that after_func() returned and that
                             \* the context does not hold yet, or None
  gone,                      \* the actor terminated, its context was dropped
  queue,                     \* SchedulerMessages
  bheap,                     \* SchedulerTasks the thread has accepted
  cancelled,                 \* ids of tasks whose Scheduled was dropped
  scheduler,                 \* where the scheduler thread stands
  fire_now,                  \* its local `now`
  tasks,                     \* how many tasks were made; also the next id
  told,                      \* history: user messages sent
  delivered,                 \* history: tasks whose message reached a handler
  heard,                     \* history: when on_message() last had a user's or a
                             \* timer's message, at first when the actor was made
  stamped,                   \* history: a receive timeout was set then
  reports                    \* history: calls of on_system_message()

contextVars   == <<list, timer_gen, receive_timeout, scheduled_receive_timeout,
                   last_message_timestamp, assigning, gone, delivered, heard, stamped,
                   reports>>
schedulerVars == <<bheap, scheduler, fire_now>>
vars == <<now, mailbox, queue, cancelled, tasks, told, contextVars, schedulerVars>>

User                 == [kind |-> "User"]
TimerMsg(n, gen, id) == [kind |-> "Timer", key |-> n, gen |-> gen, id |-> id]
ReceiveTimeout(exp)  == [kind |-> "ReceiveTimeout", exp |-> exp]
Close                == [kind |-> "Close"]
Task(id, at, m)      == [kind |-> "Task", id |-> id, event_time |-> at, action |-> m]

Ids == 0..(MaxTasks - 1)

-----------------------------------------------------------------------------
(* The calls a handler makes.                                              *)

\* Room for one more task that can still become due before the clock stops.
Room(d) == tasks < MaxTasks /\ now + d < MaxTime

\* ScheduleSender::after_func(): the flag is new, the task is queued.
after_func(d, m) ==
  /\ Room(d)
  /\ queue' = Append(queue, Task(tasks, now + d, m))
  /\ tasks' = tasks + 1

\* Variant: the generation counts on for ever.
CountOn(gen) == gen + 1

next_timer_gen(gen) == IF gen = MaxGen THEN 0 ELSE gen + 1

\* Dropping what the context held cancels it.
Drop(ids) == cancelled' = cancelled \cup (ids \ {None})

start_single_timer(n, d) ==
  /\ after_func(d, TimerMsg(n, timer_gen, tasks))
  /\ timer_gen' = next_timer_gen(timer_gen)
  /\ assigning' = [to |-> n, gen |-> timer_gen, id |-> tasks]
  /\ UNCHANGED <<list, receive_timeout, scheduled_receive_timeout, cancelled>>

TimerId(n) == IF list[n] = None THEN None ELSE list[n].id

cancel_timer(n) ==
  /\ list' = [list EXCEPT ![n] = None]
  /\ Drop({TimerId(n)})
  /\ UNCHANGED <<timer_gen, receive_timeout, scheduled_receive_timeout, assigning,
                 queue, tasks>>

schedule_receive_timeout(d) ==
  /\ after_func(d, ReceiveTimeout(now + d))
  /\ assigning' = [to |-> None, gen |-> 0, id |-> tasks]
  /\ UNCHANGED <<list, timer_gen, scheduled_receive_timeout, cancelled>>

set_receive_timeout(d) ==
  /\ receive_timeout' = d
  /\ schedule_receive_timeout(d)

cancel_receive_timeout ==
  /\ receive_timeout' = None
  /\ scheduled_receive_timeout' = None
  /\ Drop({scheduled_receive_timeout})
  /\ UNCHANGED <<list, timer_gen, assigning, queue, tasks>>

Return == UNCHANGED <<list, timer_gen, receive_timeout, scheduled_receive_timeout,
                      assigning, cancelled, queue, tasks>>

\* A handler makes one of these calls, or none.
Handler ==
  \/ \E n \in Names, d \in Durations : start_single_timer(n, d)
  \/ \E n \in Names : cancel_timer(n)
  \/ \E d \in Durations : set_receive_timeout(d)
  \/ cancel_receive_timeout
  \/ Return

\* The second half of start_single_timer() and schedule_receive_timeout(): the
\* new Scheduled replaces the old one, which is dropped.  The scheduler thread
\* may have seen the new task already.
Assign ==
  /\ assigning # None
  /\ \/ /\ assigning.to = None
        /\ scheduled_receive_timeout' = assigning.id
        /\ Drop({scheduled_receive_timeout})
        /\ UNCHANGED list
     \/ /\ assigning.to # None
        /\ list' = [list EXCEPT ![assigning.to] =
                      [gen |-> assigning.gen, id |-> assigning.id]]
        /\ Drop({TimerId(assigning.to)})
        /\ UNCHANGED scheduled_receive_timeout
  /\ assigning' = None
  /\ UNCHANGED <<now, timer_gen, receive_timeout, last_message_timestamp, mailbox,
                 gone, queue, schedulerVars, tasks, told, delivered, heard, stamped,
                 reports>>

-----------------------------------------------------------------------------
(* on_message().                                                           *)

Pop(kind) ==
  /\ ~gone /\ assigning = None
  /\ mailbox # <<>> /\ Head(mailbox).kind = kind
  /\ mailbox' = Tail(mailbox)
  /\ UNCHANGED <<now, gone, schedulerVars, told>>

\* Variant: the time of a message is not kept.
StampNever == UNCHANGED last_message_timestamp

\* The time of a message is only kept while a receive timeout is set.
Stamp == last_message_timestamp' =
           IF receive_timeout # None THEN now ELSE last_message_timestamp

Hear == heard' = now /\ stamped' = (receive_timeout # None)

OnUser ==
  /\ Pop("User")
  /\ Stamp /\ Hear
  /\ Handler
  /\ UNCHANGED <<delivered, reports>>

\* Variant: the generation is not compared.
SignalByName(m) == list[m.key] # None

signal(m) == list[m.key] # None /\ list[m.key].gen = m.gen

OnTimer ==
  /\ Pop("Timer")
  /\ Stamp /\ Hear
  /\ LET m == Head(mailbox) IN
     IF signal(m) THEN delivered' = delivered \cup {m.id} /\ Handler
                  ELSE UNCHANGED delivered /\ Return
  /\ UNCHANGED reports

\* How long a receive timeout still has to wait; None when it is over.
Remaining(exp) ==
  IF Tail(mailbox) = <<>> /\ exp > last_message_timestamp
  THEN IF exp - last_message_timestamp >= receive_timeout
       THEN None
       ELSE IF last_message_timestamp + receive_timeout > now
            THEN last_message_timestamp + receive_timeout - now ELSE 0
  ELSE receive_timeout

\* The timeout is scheduled again.  BOUND: not any more once there is no room.
Reschedule(d) ==
  \/ schedule_receive_timeout(d) /\ UNCHANGED receive_timeout
  \/ ~Room(d) /\ Return

OnReceiveTimeout ==
  /\ Pop("ReceiveTimeout")
  /\ LET exp == Head(mailbox).exp IN
     \/ /\ receive_timeout = None
        /\ Return /\ UNCHANGED reports
     \/ /\ receive_timeout # None /\ Remaining(exp) = None
        /\ reports' = reports + 1
        /\ Handler
     \/ /\ receive_timeout # None /\ Remaining(exp) # None
        /\ Reschedule(Remaining(exp))
        /\ UNCHANGED reports
  /\ UNCHANGED <<last_message_timestamp, delivered, heard, stamped>>

\* terminate(): the context is dropped and every Scheduled it holds with it.
Terminate ==
  /\ ~gone /\ assigning = None
  /\ gone' = TRUE
  /\ list' = [n \in Names |-> None]
  /\ scheduled_receive_timeout' = None
  /\ receive_timeout' = None
  /\ Drop({TimerId(n) : n \in Names} \cup {scheduled_receive_timeout})
  /\ UNCHANGED <<now, timer_gen, last_message_timestamp, mailbox, assigning, queue,
                 schedulerVars, tasks, told, delivered, heard, stamped, reports>>

-----------------------------------------------------------------------------
(* The scheduler thread.                                                   *)

\* Returns the cancelled flag itself.
is_active(task) == task.id \in cancelled

\* Variant: the Close message is skipped like a cancelled task.
CollectNoClose ==
  /\ scheduler = "collect" /\ queue # <<>>
  /\ queue' = Tail(queue)
  /\ bheap' = IF Head(queue) # Close /\ is_active(Head(queue))
              THEN bheap \cup {Head(queue)} ELSE bheap
  /\ UNCHANGED <<now, mailbox, cancelled, tasks, told, contextVars, scheduler, fire_now>>

Collect ==
  /\ scheduler = "collect" /\ queue # <<>>
  /\ queue' = Tail(queue)
  /\ LET m == Head(queue) IN
     \/ m = Close /\ scheduler' = "stopped" /\ UNCHANGED bheap
     \/ /\ m # Close
        /\ bheap' = IF is_active(m) THEN bheap \cup {m} ELSE bheap
        /\ UNCHANGED scheduler
  /\ UNCHANGED <<now, mailbox, cancelled, tasks, told, contextVars, fire_now>>

Collected ==
  /\ scheduler = "collect" /\ queue = <<>>
  /\ scheduler' = "fire" /\ fire_now' = now
  /\ UNCHANGED <<now, mailbox, queue, cancelled, tasks, told, contextVars, bheap>>

\* Variant: Ord without .reverse(), so that the latest task comes first.
PopsLatest(task) == \A other \in bheap : task.event_time >= other.event_time

\* BinaryHeap::pop() under Ord for SchedulerTask.
Pops(task) == \A other \in bheap : task.event_time <= other.event_time

Due(task) == task.event_time < fire_now

\* send() to an actor that is still open.
Fire(task) ==
  /\ mailbox' = IF gone THEN mailbox ELSE Append(mailbox, task.action)
  /\ bheap' = bheap \ {task}
  /\ UNCHANGED scheduler

Drain ==
  /\ scheduler = "fire" /\ bheap # {}
  /\ \E task \in bheap :
       /\ Pops(task)
       /\ \/ ~is_active(task) /\ bheap' = bheap \ {task} /\ UNCHANGED <<mailbox, scheduler>>
          \/ is_active(task) /\ Due(task) /\ Fire(task)
          \/ /\ is_active(task) /\ ~Due(task)
             /\ scheduler' = "sleep"
             /\ UNCHANGED <<mailbox, bheap>>
  /\ UNCHANGED <<now, queue, cancelled, tasks, told, contextVars, fire_now>>

Drained ==
  /\ scheduler = "fire" /\ bheap = {}
  /\ scheduler' = "sleep"
  /\ UNCHANGED <<now, mailbox, queue, cancelled, tasks, told, contextVars, bheap, fire_now>>

Wake ==
  /\ scheduler = "sleep" /\ scheduler' = "collect"
  /\ UNCHANGED <<now, mailbox, queue, cancelled, tasks, told, contextVars, bheap, fire_now>>

-----------------------------------------------------------------------------
(* The rest of the world.                                                  *)

Tell ==
  /\ told < MaxTold
  /\ told' = told + 1
  /\ mailbox' = IF gone THEN mailbox ELSE Append(mailbox, User)
  /\ UNCHANGED <<now, queue, cancelled, tasks, contextVars, schedulerVars>>

Tick ==
  /\ now < MaxTime
  /\ now' = now + 1
  /\ UNCHANGED <<mailbox, queue, cancelled, tasks, told, contextVars, schedulerVars>>

\* Drop for Scheduler, when the actor system is dropped.
SystemDropped ==
  /\ \A i \in DOMAIN queue : queue[i] # Close
  /\ scheduler # "stopped"
  /\ queue' = Append(queue, Close)
  /\ UNCHANGED <<now, mailbox, cancelled, tasks, told, contextVars, schedulerVars>>

Init ==
  /\ now = 0
  /\ list = [n \in Names |-> None] /\ timer_gen = 0
  /\ receive_timeout = None /\ scheduled_receive_timeout = None
  /\ last_message_timestamp = 0 /\ heard = 0 /\ stamped = TRUE
  /\ mailbox = <<>> /\ assigning = None /\ gone = FALSE
  /\ queue = <<>> /\ bheap = {} /\ cancelled = {}
  /\ scheduler = "collect" /\ fire_now = 0
  /\ tasks = 0 /\ told = 0 /\ delivered = {} /\ reports = 0

ActorStep     == OnUser \/ OnTimer \/ OnReceiveTimeout \/ Assign
SchedulerStep == Collect \/ Collected \/ Drain \/ Drained \/ Wake

Next == ActorStep \/ Terminate \/ SchedulerStep \/ Tell \/ Tick \/ SystemDropped

Spec == Init /\ [][Next]_vars

\* The actor's task and the scheduler thread keep running, and time passes.
FairSpec == Spec /\ WF_vars(ActorStep) /\ WF_vars(SchedulerStep) /\ WF_vars(Tick)

-----------------------------------------------------------------------------
(* Properties.                                                             *)

Messages == {User} \cup {TimerMsg(n, g, i) : n \in Names, g \in 0..MaxGen, i \in Ids}
                   \cup {ReceiveTimeout(e) : e \in 0..MaxTime}

\* Every variable keeps its type, the u32 generation included.
TypeOK ==
  /\ now \in 0..MaxTime /\ fire_now \in 0..now
  /\ list \in [Names -> {None} \cup [gen : 0..MaxGen, id : Ids]]
  /\ timer_gen \in 0..MaxGen
  /\ receive_timeout \in {None} \cup Durations
  /\ scheduled_receive_timeout \in {None} \cup Ids
  /\ last_message_timestamp \in 0..now /\ heard \in 0..now /\ stamped \in BOOLEAN
  /\ \A i \in DOMAIN mailbox : mailbox[i] \in Messages
  /\ gone \in BOOLEAN
  /\ \A i \in DOMAIN queue : queue[i].kind \in {"Close", "Task"}
  /\ cancelled \subseteq Ids /\ delivered \subseteq Ids
  /\ {task.id : task \in bheap} \subseteq Ids
  /\ scheduler \in {"collect", "fire", "sleep", "stopped"}
  /\ tasks \in 0..MaxTasks /\ told \in 0..MaxTold /\ reports \in 0..MaxTasks

\* A timer that was cancelled, or replaced by starting it again, never reaches
\* a handler, although its message may be in the mailbox or its task already
\* with the scheduler.
StaleNeverDelivered ==
  [][\A i \in delivered' \ delivered : i \notin cancelled]_vars

\* A receive timeout is reported only when the actor had no message of a user or
\* of a timer for at least that long, provided that a receive timeout was set
\* when it had the last one.  A message handled while none was set leaves no time
\* (dispatcher.rs:168), and the task of a timeout cancelled before may then be
\* reported right behind it.
TimeoutAfterSilence ==
  [][reports' # reports /\ stamped => now - heard >= receive_timeout]_vars

\* The scheduler thread goes to sleep only when nothing it holds is due.
SleepsWhenNoneDue ==
  scheduler = "sleep" => \A task \in bheap : task.event_time >= fire_now

\* Dropping the actor system ends the scheduler thread, whatever is pending.
SchedulerStops ==
  (\E i \in DOMAIN queue : queue[i] = Close) ~> scheduler = "stopped"

\* A timer that is started reaches the handler, unless it is cancelled or
\* replaced, or the actor or the system ends first (start_single_timer(),
\* context.rs:106-131; examples/hello.rs starts one and prints its message).
TimerFires ==
  \A n \in Names, i \in Ids :
    TimerId(n) = i ~> \/ i \in delivered
                      \/ TimerId(n) # i
                      \/ gone
                      \/ scheduler = "stopped"
=============================================================================
