----------------------------- MODULE Dispatcher -----------------------------
(***************************************************************************)
(* One actor: its mailbox (module Mailbox) driven by its dispatcher        *)
(* (src/src/actor/dispatcher.rs) and the ActorContext its handlers use     *)
(* (src/src/actor/context.rs).                                             *)
(*                                                                         *)
(* The dispatcher sits in an UnsafeCell of the mailbox and is reached by   *)
(* every receive() task without a lock; only `running` keeps two tasks     *)
(* apart.  A task pops and handles internal messages until there is none,  *)
(* then one user message, and starts over, at most Throughput times.       *)
(*                                                                         *)
(* What a handler does is the environment's choice.  Timers and receive    *)
(* timeouts reach the mailbox as calls of send(); behaviour changes        *)
(* (transit, on_enter, on_exit) belong to module Lifecycle.                *)
(***************************************************************************)
EXTENDS Mailbox, Buffers

CONSTANTS
  Throughput,  \* PropsOption::throughput()
  Unwinding,   \* TRUE: on_enter and on_exit may panic
  ChildName    \* the name under which each child is created

ASSUME DispatcherAssumption == Throughput \in Nat /\ Unwinding \in BOOLEAN

VARIABLES
  life,        \* "fresh": no context yet; "live"; "gone": parent and context taken
  childrens,   \* the table: the children that have an entry, one for each name
  suspended,   \* suspend_reason = Some(ChildrenTermination)
  told,        \* children whose stop_ref.stop() was called
  watcher,
  stash,
  unstashed,
  msg,         \* per task: the user message on_message() holds, or NoMessage
  count,       \* per task: messages processed so far in this turn of actor_loop()
  wedged,      \* a panic in a callback ended a task that owned the flag
  handled,     \* history: calls whose message a handler finished with
  disowned     \* history: children that lost their entry while they may be alive

\* The context, of which the table of children is one part.
tableVars == <<childrens, disowned>>
contextVars == <<life, tableVars, suspended, told, watcher, stash, unstashed>>
dispatcherVars == <<contextVars, msg, count, wedged, handled>>
vars == <<mailboxVars, dispatcherVars>>

CONSTANT NoMessage
ASSUME NoMessageAssumption == NoMessage \notin Calls

-----------------------------------------------------------------------------
(* What the handlers of a task change outside the dispatcher: they append  *)
(* to internal_queue (stop_self) and bring children to life.  The          *)
(* schedule() inside stop_self() finds `running` set, because the task     *)
(* that runs the handler owns it, and spawns nothing.                      *)

InLoop(t, from, to) ==
  /\ Step(t, from, to)
  /\ UNCHANGED <<message_queue, running, op, accepted>>

Unborn == {k \in Children : pc[k] = "start"}

\* The entry under the name of k, whoever has it.
Namesakes(k) == {j \in childrens : ChildName[j] = ChildName[k]}

\* get_or_create_child() where get_child() finds nothing, or an entry of another
\* message type, which insert() replaces without stopping anybody.
get_or_create_child(k) ==
  /\ pc' = [pc EXCEPT ![k] = "live"]
  /\ childrens' = (childrens \ Namesakes(k)) \cup {k}

\* A callback of the actor is running: the first on_enter(), a handler with the
\* behaviour change or the replacement that follows it, or on_exit().
InCallback(t) ==
  \/ tpc[t] = "spawned" /\ life = "fresh"
  \/ tpc[t] = "handle" /\ ~IsPill(msg[t])
  \/ tpc[t] = "exit"

\* Callbacks create children, any number of them.  What on_exit() puts into the
\* table goes with the table.
CreateChild(t) ==
  /\ InCallback(t)
  /\ \E k \in Unborn :
       /\ get_or_create_child(k)
       /\ disowned' = disowned \cup Namesakes(k)
                               \cup (IF tpc[t] = "exit" THEN {k} ELSE {})
  /\ UNCHANGED <<message_queue, internal_queue, running, terminated, op, answered,
                 tpc, accepted, life, suspended, told, watcher, stash, unstashed,
                 msg, count, wedged, handled>>

\* actor_loop() up to its loop; a new actor has its on_enter().
Begin(t) ==
  /\ \/ life = "gone" /\ InLoop(t, "spawned", "drain") /\ UNCHANGED life
     \/ life # "gone" /\ InLoop(t, "spawned", "internal") /\ life' = "live"
  /\ UNCHANGED <<pc, internal_queue, terminated, answered, tableVars, suspended,
                 told, watcher, stash, unstashed, msg, count, wedged, handled>>

\* A terminated actor answers late watchers and drops everything else.
Drain(t) ==
  /\ IF internal_queue = <<>>
     THEN InLoop(t, "drain", "store") /\ UNCHANGED <<internal_queue, answered>>
     ELSE LET m == Head(internal_queue) IN
          /\ InLoop(t, "drain", "drain")
          /\ internal_queue' = Tail(internal_queue)
          /\ answered' = IF m.kind = "Watch" THEN answered \cup {m.reply_to}
                                             ELSE answered
  /\ UNCHANGED <<pc, terminated, dispatcherVars>>

-----------------------------------------------------------------------------
(* terminate(): on_exit (a callback, at "exit"), then the report to the     *)
(* parent, the answers to the watchers, and the drop of the context, and   *)
(* with it both message buffers and the table.                             *)

\* Variant: the watchers are dropped instead of answered.
TerminateSilently(t) ==
  /\ InLoop(t, "exit", "internal")
  /\ life' = "gone"
  /\ watcher' = {}
  /\ childrens' = {}
  /\ stash' = <<>> /\ unstashed' = <<>>
  /\ UNCHANGED <<pc, internal_queue, terminated, answered, suspended, told, disowned,
                 msg, count, wedged, handled>>

terminate(t) ==
  /\ InLoop(t, "exit", "internal")
  /\ life' = "gone"
  /\ answered' = answered \cup watcher
  /\ watcher' = {}
  /\ childrens' = {}
  /\ stash' = <<>> /\ unstashed' = <<>>
  /\ UNCHANGED <<pc, internal_queue, terminated, suspended, told, disowned, msg,
                 count, wedged, handled>>

\* Variant: a watcher is answered although the actor goes on.
OnWatchAnswer(t, c) ==
  /\ InLoop(t, "internal", "internal")
  /\ answered' = answered \cup {c}
  /\ UNCHANGED <<watcher, terminated, tableVars, suspended, told>>

\* InternalMessage::Watch
OnWatch(t, c) ==
  /\ InLoop(t, "internal", "internal")
  /\ IF terminated THEN answered' = answered \cup {c} /\ UNCHANGED watcher
                   ELSE watcher' = watcher \cup {c} /\ UNCHANGED answered
  /\ UNCHANGED <<terminated, tableVars, suspended, told>>

\* Variant: the actor does not wait for its children.
TerminateAtOnce(t) ==
  /\ terminated' = TRUE
  /\ told' = childrens
  /\ InLoop(t, "internal", "exit")
  /\ UNCHANGED <<answered, watcher, tableVars, suspended>>

\* InternalMessage::Terminate
OnTerminate(t) ==
  /\ terminated' = TRUE
  /\ \/ /\ childrens # {}
        /\ suspended' = TRUE
        /\ told' = told \cup childrens
        /\ InLoop(t, "internal", "internal")
     \/ /\ childrens = {}
        /\ InLoop(t, "internal", "exit")
        /\ UNCHANGED <<suspended, told>>
  /\ UNCHANGED <<answered, watcher, tableVars>>

\* Variant: the last report is taken like the others.
NeverLast(t, k) ==
  /\ childrens' = childrens \ Namesakes(k)
  /\ disowned' = disowned \cup (Namesakes(k) \ {k})
  /\ InLoop(t, "internal", "internal")
  /\ UNCHANGED <<answered, watcher, terminated, suspended, told>>

\* InternalMessage::ChildTerminate removes by key, whoever has the entry now.
OnChildTerminate(t, k) ==
  /\ childrens' = childrens \ Namesakes(k)
  /\ disowned' = disowned \cup (Namesakes(k) \ {k})
  /\ \/ /\ suspended /\ childrens' = {}
        /\ suspended' = FALSE
        /\ InLoop(t, "internal", "exit")
     \/ /\ ~(suspended /\ childrens' = {})
        /\ InLoop(t, "internal", "internal")
        /\ UNCHANGED suspended
  /\ UNCHANGED <<answered, watcher, terminated, told>>

OnCreated(t) ==
  /\ InLoop(t, "internal", "internal")
  /\ UNCHANGED <<answered, watcher, terminated, tableVars, suspended, told>>

\* actor_loop() returns; its count starts from zero the next time.
EndTurn(t) == count' = [count EXCEPT ![t] = 0]

\* process_internal_message_all(): one message, as long as there is a context.
ProcessInternal(t) ==
  /\ life # "gone"
  /\ internal_queue # <<>>
  /\ internal_queue' = Tail(internal_queue)
  /\ LET m == Head(internal_queue) IN
     \/ m.kind = "Created" /\ OnCreated(t)
     \/ m.kind = "Watch" /\ OnWatch(t, m.reply_to)
     \/ m.kind = "Terminate" /\ OnTerminate(t)
     \/ m.kind = "ChildTerminate" /\ OnChildTerminate(t, m.path)
  /\ UNCHANGED <<pc, life, stash, unstashed, msg, count, wedged, handled>>

\* next_message() once process_internal_message_all() has returned.
InternalDone(t) ==
  /\ \/ /\ life = "gone"
        /\ InLoop(t, "internal", "store")
        /\ EndTurn(t)
     \/ /\ life # "gone" /\ internal_queue = <<>>
        /\ InLoop(t, "internal", "fetch")
        /\ UNCHANGED count
  /\ UNCHANGED <<pc, internal_queue, answered, terminated, contextVars, msg, wedged,
                 handled>>

-----------------------------------------------------------------------------
(* next_message() on the user side: unstashed messages go first.           *)

Take(t, c) ==
  /\ msg' = [msg EXCEPT ![t] = c]
  /\ UNCHANGED <<pc, internal_queue, answered, terminated, running, op, accepted,
                 life, tableVars, suspended, told, watcher, stash, count, wedged,
                 handled>>

\* Variant: the one that was stashed last comes first.
FetchUnstashedLast(t) ==
  /\ ~terminated
  /\ unstashed # <<>>
  /\ Step(t, "fetch", "handle")
  /\ unstashed' = SubSeq(unstashed, 1, Len(unstashed) - 1)
  /\ Take(t, unstashed[Len(unstashed)])
  /\ UNCHANGED message_queue

FetchUnstashed(t) ==
  /\ ~terminated
  /\ unstashed # <<>>
  /\ Step(t, "fetch", "handle")
  /\ unstashed' = Tail(unstashed)
  /\ Take(t, Head(unstashed))
  /\ UNCHANGED message_queue

\* Variant: next_message() does not look at `terminated`.
FetchEvenTerminated(t) ==
  /\ unstashed = <<>>
  /\ message_queue # <<>>
  /\ Step(t, "fetch", "handle")
  /\ message_queue' = Tail(message_queue)
  /\ Take(t, Head(message_queue))
  /\ UNCHANGED unstashed

FetchQueued(t) ==
  /\ ~terminated
  /\ unstashed = <<>>
  /\ message_queue # <<>>
  /\ Step(t, "fetch", "handle")
  /\ message_queue' = Tail(message_queue)
  /\ Take(t, Head(message_queue))
  /\ UNCHANGED unstashed

FetchNothing(t) ==
  /\ terminated \/ (unstashed = <<>> /\ message_queue = <<>>)
  /\ InLoop(t, "fetch", "store")
  /\ EndTurn(t)
  /\ UNCHANGED <<pc, internal_queue, answered, terminated, contextVars, msg, wedged,
                 handled>>

-----------------------------------------------------------------------------
(* process_message(): a handler runs, and the loop goes on or yields.      *)

Finish(c) == handled' = handled \cup {c} /\ UNCHANGED stash

\* A handler that returns, or that panics: the actor is then replaced and
\* the message is gone all the same.
Consume(c) == Finish(c) /\ UNCHANGED <<internal_queue, unstashed>>

\* context.stop_self(), and the whole handler of a PoisonPill.
StopSelf(c) == Finish(c) /\ SendInternal(Terminate) /\ UNCHANGED unstashed

Stash(c) == /\ stash' = Append(stash, c)
            /\ UNCHANGED <<internal_queue, unstashed, handled>>

\* Variant: unstash_all() copies the stash instead of emptying it.
UnstashCopy(c) == /\ handled' = handled \cup {c}
                  /\ unstashed' = unstashed \o stash
                  /\ UNCHANGED <<stash, internal_queue>>

UnstashAll(c) == /\ handled' = handled \cup {c}
                 /\ unstashed' = unstashed \o stash
                 /\ stash' = <<>>
                 /\ UNCHANGED internal_queue

\* Variant: one message too many.
YieldsLate(n) == n > Throughput

Yields(n) == n >= Throughput

Handle(t) ==
  LET c == msg[t] IN
  /\ \/ /\ Yields(count[t] + 1)
        /\ InLoop(t, "handle", "store")
        /\ EndTurn(t)
     \/ /\ ~Yields(count[t] + 1)
        /\ InLoop(t, "handle", "internal")
        /\ count' = [count EXCEPT ![t] = @ + 1]
  /\ \/ StopSelf(c)
     \/ /\ ~IsPill(c)
        /\ Consume(c) \/ Stash(c) \/ UnstashAll(c)
  /\ msg' = [msg EXCEPT ![t] = NoMessage]
  /\ UNCHANGED <<pc, answered, terminated, life, tableVars, suspended, told,
                 watcher, wedged>>

-----------------------------------------------------------------------------
(* catch_unwind guards on_message() alone.  A panic in on_enter() or       *)
(* on_exit() unwinds through actor_loop() and receive(): the task is lost  *)
(* and running stays TRUE.                                                 *)

Unwind(t) ==
  /\ Unwinding
  /\ \/ /\ tpc[t] = "spawned" /\ life = "fresh"      \* the first on_enter()
        /\ life' = "live"
        /\ UNCHANGED <<msg, handled>>
     \/ /\ tpc[t] = "handle" /\ ~IsPill(msg[t])      \* a behaviour change
        /\ handled' = handled \cup {msg[t]}
        /\ msg' = [msg EXCEPT ![t] = NoMessage]
        /\ UNCHANGED life
     \/ /\ tpc[t] = "exit"                            \* on_exit() in terminate()
        /\ UNCHANGED <<life, msg, handled>>
  /\ wedged' = TRUE
  /\ tpc' = [tpc EXCEPT ![t] = "idle"]
  /\ EndTurn(t)
  /\ UNCHANGED <<message_queue, internal_queue, running, terminated, pc, op, answered,
                 accepted, tableVars, suspended, told, watcher, stash, unstashed>>

-----------------------------------------------------------------------------
Init ==
  /\ MailboxInit
  /\ life = "fresh"
  /\ childrens = {} /\ disowned = {} /\ suspended = FALSE /\ told = {}
  /\ watcher = {} /\ stash = <<>> /\ unstashed = <<>>
  /\ msg = [t \in Tasks |-> NoMessage]
  /\ count = [t \in Tasks |-> 0]
  /\ wedged = FALSE
  /\ handled = {}

LoopStep(t) ==
  \/ Begin(t)
  \/ Drain(t)
  \/ ProcessInternal(t)
  \/ terminate(t)
  \/ InternalDone(t)
  \/ FetchUnstashed(t)
  \/ FetchQueued(t)
  \/ FetchNothing(t)
  \/ Handle(t)

CallsStep    == \E c \in Calls : CallStep(c) /\ UNCHANGED dispatcherVars
ChildrenStep == \E k \in Children : ChildStep(k) /\ UNCHANGED dispatcherVars
TailStep(t)  == ReceiveTail(t) /\ UNCHANGED dispatcherVars

Next ==
  \/ CallsStep
  \/ ChildrenStep
  \/ \E t \in Tasks : LoopStep(t) \/ CreateChild(t) \/ TailStep(t) \/ Unwind(t)

Spec == Init /\ [][Next]_vars

(* Fairness: tokio polls every spawned task again and handlers return; a    *)
(* thread inside a call of the library finishes it, and a child that was    *)
(* told to stop reports back.  That is StopCompletes of the child: stop()   *)
(* goes through its internal queue, which is never full, and it does end    *)
(* unless a callback panics (Unwinding).  Nobody has to make a call.        *)
InsideCall(c) ==
  \/ PushMessage(c)
  \/ CallSchedule(c)
  \/ WatchCall(c)
  \/ PushWatch(c)
  \/ WatchReturns(c)

ToldChildStops(k) == k \in told /\ ChildStops(k)

Fairness ==
  /\ \A t \in Tasks : WF_vars(LoopStep(t)) /\ WF_vars(TailStep(t))
  /\ \A c \in Calls : WF_vars(InsideCall(c) /\ UNCHANGED dispatcherVars)
  /\ \A k \in Children :
       /\ WF_vars(ToldChildStops(k) /\ UNCHANGED dispatcherVars)
       /\ WF_vars(CallSchedule(k) /\ UNCHANGED dispatcherVars)

FairSpec == Spec /\ Fairness

-----------------------------------------------------------------------------
(* Safety.                                                                 *)

Current == {msg[t] : t \in Tasks} \ {NoMessage}

\* Every variable keeps its type; a turn of actor_loop() never takes more
\* than throughput() messages (one when it is zero).
TypeOK ==
  /\ MailboxTypeOK
  /\ life \in {"fresh", "live", "gone"}
  /\ childrens \subseteq Children /\ told \subseteq Children
  /\ disowned \subseteq Children
  /\ suspended \in BOOLEAN /\ wedged \in BOOLEAN
  /\ watcher \subseteq Calls
  /\ stash \in Seq(Calls) /\ unstashed \in Seq(Calls)
  /\ msg \in [Tasks -> Calls \cup {NoMessage}]
  /\ \A t \in Tasks : tpc[t] = "handle" <=> msg[t] # NoMessage
  /\ count \in [Tasks -> 0..(IF Throughput = 0 THEN 0 ELSE Throughput - 1)]
  /\ handled \subseteq Calls

\* Two receive() tasks are never inside the dispatcher's UnsafeCell together
\* (mailbox.rs:154, :161), and `running` is set exactly while one is, or
\* forever once a panic outside on_message() took a task down.
MutualExclusion ==
  /\ \A t, u \in Tasks : Owns(t) /\ Owns(u) => t = u
  /\ running <=> wedged \/ \E t \in Tasks : Owns(t)
  /\ wedged => \A t \in Tasks : ~Owns(t)

Working    == \E t \in Tasks : Owns(t)
Scheduling == \E c \in Threads : pc[c] \in {"sched", "sched_watch"}

\* No lost wakeup: whenever a queue holds something the actor must still
\* process, a task owns the actor, or someone is still going to call
\* schedule(): the caller that pushed, or a task in the tail of receive().  In an
\* actor that a panic outside on_message() has wedged nobody is left to look.
NoLostWakeup ==
  LET Looked(s) == \E t \in Tasks : tpc[t] \in s IN
  /\ internal_queue # <<>> /\ ~wedged =>
       Working \/ Scheduling \/ Looked(TailPC)
  /\ message_queue # <<>> /\ ~terminated /\ ~wedged =>
       Working \/ Scheduling \/ Looked({"tail", "tail_terminated", "tail_sched"})

\* A thread waiting in watch() is never forgotten: its request is in the
\* queue, or in the watcher list of an actor that still has to terminate, or
\* already answered; terminate() and the Watch handler cannot miss each other.
\* (Of a wedged actor the list is all there is: nobody will answer it.)
WatchNotLost ==
  \A c \in Calls : pc[c] \in {"sched_watch", "await"} =>
    \/ c \in answered
    \/ Watch(c) \in Elements(internal_queue)
    \/ c \in watcher /\ life # "gone"

\* graceful_stop() and wait_stop() return only when the mailbox is closed.  That is
\* less than "when the actor has ended": children and on_exit() may still run when
\* watch() finds `terminated` set (mod.rs:58).
StopObserved ==
  \A c \in Calls : Waits(op[c]) /\ pc[c] = "done" => terminated

\* The parent reports its own end (terminate()) only after each child it created
\* has ended, in whatever order stops, reports and creations come.  The exceptions
\* are the children that lost their entry in the table: to a namesake of another
\* message type (context.rs:225), to the late report of a namesake
\* (dispatcher.rs:143), or because on_exit() created them (dispatcher.rs:101).
ParentOutlivesChildren ==
  life = "gone" => \A k \in Children : pc[k] = "live" => k \in disowned

Buffered == message_queue \o unstashed \o stash

\* A queued message is in exactly one place until the context is dropped: the
\* queue, one of the two stash buffers, the running handler, or finished.  The
\* queue (crossbeam's, FIFO) holds the latest of the accepted messages.
AcceptedOnce ==
  /\ Len(message_queue) <= Len(accepted)
  /\ message_queue = SubSeq(accepted, Len(accepted) - Len(message_queue) + 1,
                            Len(accepted))
  /\ \A i, j \in DOMAIN Buffered : Buffered[i] = Buffered[j] => i = j
  /\ Elements(Buffered) \cap (Current \cup handled) = {}
  /\ Current \cap handled = {}
  /\ Elements(accepted) = Elements(Buffered) \cup Current \cup handled \/ life = "gone"

\* After close() no handler is entered again, although messages may remain in
\* the queue and in the stash while the children are being stopped.
NoHandlingAfterClose ==
  [][\A t \in Tasks : terminated /\ msg'[t] # NoMessage => msg[t] = msg'[t]]_vars

-----------------------------------------------------------------------------
(* Liveness.                                                               *)

\* A message that was queued is taken out again, unless the actor stops.
Delivery ==
  \A c \in Calls : c \in Elements(message_queue) ~>
                     c \notin Elements(message_queue) \/ terminated

\* graceful_stop() and wait_stop() return once they have been called.
StopReturns ==
  \A c \in Calls : Waits(op[c]) ~> pc[c] = "done"

\* stop() takes the actor all the way down, whatever children it has: it waits for
\* all that are in its table, also when a late report takes the entry of a
\* namesake, then reports to its parent and drops its context.
StopCompletes ==
  \A c \in Calls : op[c] = "stop" ~> life = "gone"

-----------------------------------------------------------------------------
(* What the actor promises its handlers: module SerialActor.               *)

Serial == INSTANCE SerialActor WITH
  Messages <- Calls,
  arrived  <- accepted,
  begun    <- Len(accepted) - Len(message_queue),
  current  <- Current,
  deferred <- stash,
  released <- unstashed,
  over     <- handled,
  closed   <- terminated

\* The mailbox, its tasks and the dispatcher implement the serial actor: one
\* handler at a time, messages taken once and in the order they were queued,
\* stashed messages first once released and in the order they were stashed,
\* nothing after close().
ImplementsSerialActor == Serial!Spec

-----------------------------------------------------------------------------
(* Disagreements.                                                          *)

\* Nothing runs and nobody is about to do anything.
Quiescent ==
  /\ \A t \in Tasks : tpc[t] = "idle"
  /\ \A c \in Calls : pc[c] \in {"start", "await", "done"}
  /\ \A k \in Children : pc[k] \in {"start", "live", "done"}

\* Messages released by unstash_all() are processed without waiting for
\* another message to arrive (next_message() serves them first, and
\* num_total_message() counts them with the queues).
NoStalledUnstash ==
  Quiescent /\ ~terminated /\ ~wedged => unstashed = <<>>
=============================================================================
