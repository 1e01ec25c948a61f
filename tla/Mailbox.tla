------------------------------ MODULE Mailbox ------------------------------
(***************************************************************************)
(* The mailbox of one actor (src/src/actor/mailbox.rs) and the handles     *)
(* through which other threads reach it (ActorRef, src/src/actor/mod.rs).  *)
(*                                                                         *)
(* A mailbox is two lock-free queues, a flag `running` that says a         *)
(* receive() task owns the actor, and a flag `terminated`.  Whoever pushes *)
(* a message then calls schedule(): a compare-and-swap of `running` from   *)
(* false to true, whose winner spawns a receive() task.  A receive() task  *)
(* runs the actor's loop (module Dispatcher), clears `running` and looks   *)
(* at the queues once more, in four separate loads.                        *)
(*                                                                         *)
(* Every atomic operation of the code is one action here, so every         *)
(* interleaving of callers and tasks is a behaviour.  The memory order is  *)
(* sequentially consistent; module StoreBuffer weakens it.                 *)
(***************************************************************************)
EXTENDS Naturals, Sequences

CONSTANTS
  Calls,      \* the calls made on the actor's handles, each made at most once
  Children,   \* the child actors this actor may create
  Tasks,      \* BOUND: slots for receive() tasks alive at the same time
  Capacity    \* PropsOption::bounded(): 0 for None, else the size of the ring

ASSUME MailboxAssumption ==
  /\ Calls \cap Children = {}
  /\ Tasks # {}
  /\ Capacity \in Nat

Threads == Calls \cup Children

VARIABLES
  message_queue,   \* user messages (a call stands for the message it sends)
  internal_queue,  \* InternalMessage
  running,
  terminated,
  pc,              \* where each calling thread stands
  op,              \* the operation a call is
  answered,        \* calls whose Watch reply channel has been used
  tpc,             \* where each receive() task stands
  accepted         \* history: the calls whose user message was queued, in order

mailboxVars ==
  <<message_queue, internal_queue, running, terminated, pc, op, answered, tpc,
    accepted>>

-----------------------------------------------------------------------------
(* Messages.                                                               *)

Created           == [kind |-> "Created"]
Terminate         == [kind |-> "Terminate"]
Watch(c)          == [kind |-> "Watch", reply_to |-> c]
ChildTerminate(k) == [kind |-> "ChildTerminate", path |-> k]

InternalMessage ==
  {Created, Terminate} \cup {Watch(c) : c \in Calls}
                       \cup {ChildTerminate(k) : k \in Children}

\* Message::AutoMessage(PoisonPill) is the user message of a graceful stop.
IsPill(c) == op[c] = "graceful_stop"

-----------------------------------------------------------------------------
(* Program counters.                                                       *)

ThreadPC == {"start", "push", "sched", "watch", "push_watch", "sched_watch",
             "await", "live", "done"}
Operations == {"none", "tell", "stop", "graceful_stop", "wait_stop"}
Waits(o) == o \in {"graceful_stop", "wait_stop"}

Goto(c, l) == pc' = [pc EXCEPT ![c] = l]

\* A task owns the dispatcher from the spawn to the store of running = false.
LoopPC == {"spawned", "drain", "internal", "exit", "fetch", "handle", "store"}
TailPC == {"tail", "tail_terminated", "tail_internal", "tail_sched"}
TaskPC == {"idle"} \cup LoopPC \cup TailPC

Owns(t) == tpc[t] \in LoopPC

Step(t, from, to) == tpc[t] = from /\ tpc' = [tpc EXCEPT ![t] = to]

-----------------------------------------------------------------------------
(* schedule(): compare_exchange(false, true), then spawn on success.       *)

Full == Capacity # 0 /\ Len(message_queue) >= Capacity

Idle == {t \in Tasks : tpc[t] = "idle"}

\* Tasks are anonymous: any free slot will do.
Spawn == /\ Idle # {}
         /\ running' = TRUE
         /\ tpc' = [tpc EXCEPT ![CHOOSE t \in Idle : TRUE] = "spawned"]

\* Variant: schedule() that spawns without taking the flag.
ScheduleUnguarded == Spawn

schedule ==
  \/ running /\ UNCHANGED <<running, tpc>>
  \/ ~running /\ Spawn

-----------------------------------------------------------------------------
(* send() and try_send(), called by tell, try_tell, timers and             *)
(* graceful_stop: a test of `terminated`, a push, a schedule().            *)

\* What a caller does when its send() is over.
AfterSend(c) == IF Waits(op[c]) THEN "watch" ELSE "done"

Send(c, o) ==
  /\ pc[c] = "start"
  /\ op' = [op EXCEPT ![c] = o]
  /\ Goto(c, IF ~terminated THEN "push"
             ELSE IF Waits(o) THEN "watch" ELSE "done")
  /\ UNCHANGED <<message_queue, internal_queue, running, terminated, answered,
                 tpc, accepted>>

\* The ring buffer of a bounded mailbox refuses a push when it is full.
PushMessage(c) ==
  /\ pc[c] = "push"
  /\ IF Full
     THEN /\ Goto(c, AfterSend(c))
          /\ UNCHANGED <<message_queue, accepted>>
     ELSE /\ message_queue' = Append(message_queue, c)
          /\ accepted' = Append(accepted, c)
          /\ Goto(c, "sched")
  /\ UNCHANGED <<internal_queue, running, terminated, op, answered, tpc>>

(* The schedule() that ends send() and send_internal().                    *)
CallSchedule(c) ==
  /\ pc[c] \in {"sched", "sched_watch"}
  /\ schedule
  /\ Goto(c, IF pc[c] = "sched_watch" THEN "await"
             ELSE IF c \in Calls THEN AfterSend(c) ELSE "done")
  /\ UNCHANGED <<message_queue, internal_queue, terminated, op, answered,
                 accepted>>

-----------------------------------------------------------------------------
(* send_internal(): stop(), watch() and a child's ChildTerminate.          *)

SendInternal(msg) == internal_queue' = Append(internal_queue, msg)

\* stop(), alone or as the first half of wait_stop() on an actor without the
\* graceful_stop option.
Stop(c, o) ==
  /\ pc[c] = "start"
  /\ op' = [op EXCEPT ![c] = o]
  /\ SendInternal(Terminate)
  /\ Goto(c, "sched")
  /\ UNCHANGED <<message_queue, running, terminated, answered, tpc, accepted>>

\* watch(), the second half of graceful_stop() and wait_stop(), returns at
\* once when the mailbox is closed.
WatchCall(c) ==
  /\ pc[c] = "watch"
  /\ Goto(c, IF terminated THEN "done" ELSE "push_watch")
  /\ UNCHANGED <<message_queue, internal_queue, running, terminated, op,
                 answered, tpc, accepted>>

PushWatch(c) ==
  /\ pc[c] = "push_watch"
  /\ SendInternal(Watch(c))
  /\ Goto(c, "sched_watch")
  /\ UNCHANGED <<message_queue, running, terminated, op, answered, tpc,
                 accepted>>

\* ch.1.await in watch()
WatchReturns(c) ==
  /\ pc[c] = "await"
  /\ c \in answered
  /\ Goto(c, "done")
  /\ UNCHANGED <<message_queue, internal_queue, running, terminated, op,
                 answered, tpc, accepted>>

\* A child actor has terminated: its dispatcher reports to this mailbox.
ChildStops(k) ==
  /\ pc[k] = "live"
  /\ SendInternal(ChildTerminate(k))
  /\ Goto(k, "sched")
  /\ UNCHANGED <<message_queue, running, terminated, op, answered, tpc,
                 accepted>>

-----------------------------------------------------------------------------
(* receive(): what a task does once actor_loop() has returned.             *)

\* Variant: the task does not look at the queues again.
StoreAndLeave(t) ==
  /\ Step(t, "store", "idle")
  /\ running' = FALSE
  /\ UNCHANGED <<message_queue, internal_queue, terminated, pc, op, answered,
                 accepted>>

StoreNotRunning(t) ==
  /\ Step(t, "store", "tail")
  /\ running' = FALSE
  /\ UNCHANGED <<message_queue, internal_queue, terminated, pc, op, answered,
                 accepted>>

\* let num_msg = mbox.num_user_message(); if num_msg > 0 ...
TailUser(t) ==
  /\ Step(t, "tail", IF message_queue # <<>> THEN "tail_terminated"
                                             ELSE "tail_internal")
  /\ UNCHANGED <<message_queue, internal_queue, running, terminated, pc, op,
                 answered, accepted>>

\* ... && !mbox.is_terminated()
TailTerminated(t) ==
  /\ Step(t, "tail_terminated", IF terminated THEN "tail_internal"
                                              ELSE "tail_sched")
  /\ UNCHANGED <<message_queue, internal_queue, running, terminated, pc, op,
                 answered, accepted>>

TailInternal(t) ==
  /\ Step(t, "tail_internal", IF internal_queue # <<>> THEN "tail_sched"
                                                       ELSE "idle")
  /\ UNCHANGED <<message_queue, internal_queue, running, terminated, pc, op,
                 answered, accepted>>

\* The task ends here; if it wins the flag, the task it spawns takes its slot.
TailSchedule(t) ==
  /\ Step(t, "tail_sched", IF running THEN "idle" ELSE "spawned")
  /\ running' = TRUE
  /\ UNCHANGED <<message_queue, internal_queue, terminated, pc, op, answered,
                 accepted>>

-----------------------------------------------------------------------------
(* The mailbox as create_actor_path() or get_or_create_child() leaves it:  *)
(* Created is queued and the first receive() task is spawned before any    *)
(* other thread can have the handle.                                       *)
MailboxInit ==
  /\ message_queue = <<>>
  /\ internal_queue = <<Created>>
  /\ running = TRUE
  /\ terminated = FALSE
  /\ pc = [c \in Threads |-> "start"]
  /\ op = [c \in Calls |-> "none"]
  /\ answered = {}
  /\ LET first == CHOOSE t \in Tasks : TRUE IN
     tpc = [t \in Tasks |-> IF t = first THEN "spawned" ELSE "idle"]
  /\ accepted = <<>>

CallStep(c) ==
  \/ \E o \in {"tell", "graceful_stop"} : Send(c, o)
  \/ \E o \in {"stop", "wait_stop"} : Stop(c, o)
  \/ PushMessage(c)
  \/ CallSchedule(c)
  \/ WatchCall(c)
  \/ PushWatch(c)
  \/ WatchReturns(c)

ChildStep(k) == ChildStops(k) \/ CallSchedule(k)

ReceiveTail(t) ==
  \/ StoreNotRunning(t)
  \/ TailUser(t)
  \/ TailTerminated(t)
  \/ TailInternal(t)
  \/ TailSchedule(t)

MailboxTypeOK ==
  /\ message_queue \in Seq(Calls)
  /\ internal_queue \in Seq(InternalMessage)
  /\ running \in BOOLEAN
  /\ terminated \in BOOLEAN
  /\ pc \in [Threads -> ThreadPC]
  /\ op \in [Calls -> Operations]
  /\ answered \subseteq Calls
  /\ tpc \in [Tasks -> TaskPC]
  /\ accepted \in Seq(Calls)
=============================================================================
