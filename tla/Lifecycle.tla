------------------------------ MODULE Lifecycle ------------------------------
(***************************************************************************)
(* The behaviours of one actor: transit(), and how the dispatcher exits    *)
(* the old behaviour and enters the new one (src/src/actor/dispatcher.rs   *)
(* 72-113, 218-235), with what becomes of the reply channels of module Ask *)
(* that messages carry, behaviours keep and spawned tasks borrow.          *)
(*                                                                         *)
(* check_become(), on_exit() and on_enter() call one another.  The calls   *)
(* that are still to be made are the stack `todo`, one callback of user    *)
(* code per step.  One task runs all of this (module Dispatcher shows that *)
(* there is only one); callers and spawned futures run next to it.         *)
(***************************************************************************)
EXTENDS Ask, Buffers, SequencesExt

CONSTANTS
  MaxBehaviours,  \* BOUND: no transit() once so many behaviours exist
  MaxPanics       \* BOUND: panics in handlers and callbacks

ASSUME LifecycleAssumption == MaxBehaviours \in Nat \ {0} /\ MaxPanics \in Nat

None == 0
Behaviours == 1..(MaxBehaviours + MaxPanics)

VARIABLES
  life,       \* "fresh": no behaviour yet; "live"; "gone": context dropped
  current,    \* Dispatcher::actor
  pending,    \* ActorContext::actor, set by transit()
  todo,       \* the calls that are still to be made, innermost first
  born,       \* behaviours created so far; also the name of the last one
  panics,
  wedged,     \* a callback panicked: the task is lost
  entered, exited,  \* history: how often on_enter and on_exit were called
  crossed,    \* history: a transit() made where the dispatcher cannot pair it
  held,       \* per behaviour: reply channels it owns
  lent,       \* reply channels owned by spawned futures
  stash, unstashed

lifeVars == <<life, current, pending, todo, born, panics, wedged, entered, exited,
              crossed, held, lent, stash, unstashed>>
vars == <<askVars, lifeVars>>

Check   == <<"check", None>>
Exit(b) == <<"exit", b>>
Drop(b) == <<"drop", b>>
Enter   == <<"enter", None>>
Create  == <<"create", None>>
Report  == <<"report", None>>

Next1(op) == todo # <<>> /\ Head(todo)[1] = op
Who       == Head(todo)[2]

\* The call on top returns; others are made before what is left.
Return(calls) == todo' = calls \o Tail(todo)

-----------------------------------------------------------------------------
(* User code: a callback of behaviour b that is given the reply channels   *)
(* `got`.  It does as it likes with these and with its own: reply_to!,     *)
(* drop, keep in itself, move into the behaviour it transits to, hand to   *)
(* a future with spawn() (which polls it once: a future that is ready then *)
(* has replied or dropped), or stash the message.                          *)

Fates == {"reply", "drop", "keep", "move", "lend", "stash"}

\* context.transit(): a behaviour that was pending already is dropped.
transit(mine, moved) ==
  /\ born < MaxBehaviours
  /\ born' = born + 1
  /\ pending' = born + 1
  /\ held' = [mine EXCEPT ![pending] = {}, ![born + 1] = moved]

Callback(b, got, released) ==
  \E fate \in [held[b] \cup got -> Fates] :
    LET With(f) == {a \in DOMAIN fate : fate[a] = f}
        mine    == [held EXCEPT ![b] = With("keep")]
    IN
    /\ With("stash") \subseteq got
    /\ \/ /\ transit(mine, With("move"))
          /\ Settle(With("reply"), With("drop") \cup held[pending])
       \/ /\ With("move") = {}
          /\ held' = mine
          /\ Settle(With("reply"), With("drop"))
          /\ UNCHANGED <<born, pending>>
    /\ lent' = lent \cup With("lend")
    /\ \/ /\ stash' = stash \o SetToSeq(With("stash"))
          /\ unstashed' = released
       \/ /\ stash' = SetToSeq(With("stash"))               \* unstash_all()
          /\ unstashed' = released \o stash

Panic == panics < MaxPanics /\ panics' = panics + 1

\* A callback that panics takes the task down, and with it the behaviours
\* whose on_exit() has not returned.
OnStack == {todo[i][2] : i \in DOMAIN todo} \ {None}

Unwind ==
  /\ Panic
  /\ wedged' = TRUE
  /\ todo' = <<>>
  /\ held' = [i \in DOMAIN held |-> IF i \in OnStack THEN {} ELSE held[i]]
  /\ Settle({}, UNION {held[i] : i \in OnStack})

-----------------------------------------------------------------------------
(* The calls.                                                              *)

\* check_become()
check_become ==
  /\ Next1("check")
  /\ IF pending = None
     THEN Return(<<>>) /\ UNCHANGED <<current, pending>>
     ELSE /\ current' = pending
          /\ pending' = None
          /\ Return((IF current = None THEN <<>> ELSE <<Exit(current)>>) \o <<Enter>>)
  /\ UNCHANGED <<askVars, life, born, panics, wedged, entered, exited, crossed,
                 held, lent, stash, unstashed>>

\* Variant: on_exit() goes on exiting while its callback transits.
on_exit_while ==
  /\ Next1("exit")
  /\ exited' = [exited EXCEPT ![Who] = 1]
  /\ \/ /\ Callback(Who, {}, unstashed)
        /\ Return(<<Check, Exit(Who)>>)
        /\ UNCHANGED <<panics, wedged>>
     \/ /\ Unwind
        /\ UNCHANGED <<born, pending, lent, stash, unstashed>>
  /\ crossed' = (crossed \/ born' # born)
  /\ UNCHANGED <<asker, message_queue, terminated, life, current, entered>>

\* on_exit(): the callback, check_become(), and the old behaviour is dropped.
on_exit ==
  /\ Next1("exit")
  /\ exited' = [exited EXCEPT ![Who] = @ + 1]
  /\ \/ /\ Callback(Who, {}, unstashed)
        /\ Return(<<Check, Drop(Who)>>)
        /\ UNCHANGED <<panics, wedged>>
     \/ /\ Unwind
        /\ UNCHANGED <<born, pending, lent, stash, unstashed>>
  /\ crossed' = (crossed \/ born' # born)
  /\ UNCHANGED <<asker, message_queue, terminated, life, current, entered>>

\* Variant: something else still holds on to the old behaviour.
DropOldKept ==
  /\ Next1("drop")
  /\ Return(<<>>)
  /\ UNCHANGED <<askVars, life, current, pending, born, panics, wedged, entered,
                 exited, crossed, held, lent, stash, unstashed>>

\* The end of on_exit().
DropOld ==
  /\ Next1("drop")
  /\ held' = [held EXCEPT ![Who] = {}]
  /\ Settle({}, held[Who])
  /\ Return(<<>>)
  /\ UNCHANGED <<asker, message_queue, terminated, life, current, pending, born,
                 panics, wedged, entered, exited, crossed, lent, stash, unstashed>>

\* Variant: a transit() made by on_enter() waits for the next message.
on_enter_once ==
  /\ Next1("enter")
  /\ entered' = [entered EXCEPT ![current] = @ + 1]
  /\ \/ /\ Callback(current, {}, unstashed)
        /\ Return(<<>>)
        /\ UNCHANGED <<panics, wedged>>
     \/ /\ Unwind
        /\ UNCHANGED <<born, pending, lent, stash, unstashed>>
  /\ UNCHANGED <<asker, message_queue, terminated, life, current, exited, crossed>>

\* on_enter()
on_enter ==
  /\ Next1("enter")
  /\ entered' = [entered EXCEPT ![current] = @ + 1]
  /\ \/ /\ Callback(current, {}, unstashed)
        /\ Return(<<Check>>)
        /\ UNCHANGED <<panics, wedged>>
     \/ /\ Unwind
        /\ UNCHANGED <<born, pending, lent, stash, unstashed>>
  /\ UNCHANGED <<asker, message_queue, terminated, life, current, exited, crossed>>

\* self.actor = Some(self.prop.create()), over whatever is there.
Recreate ==
  /\ Next1("create")
  /\ born' = born + 1
  /\ current' = born + 1
  /\ held' = [held EXCEPT ![current] = {}]
  /\ Settle({}, held[current])
  /\ Return(<<Enter>>)
  /\ UNCHANGED <<asker, message_queue, terminated, life, pending, panics, wedged,
                 entered, exited, crossed, lent, stash, unstashed>>

\* Variant: the stash outlives the context.
ReportKeepStash ==
  /\ Next1("report")
  /\ life' = "gone"
  /\ unstashed' = <<>>
  /\ Settle({}, Elements(unstashed))
  /\ Return(<<>>)
  /\ UNCHANGED <<asker, message_queue, terminated, current, pending, born, panics,
                 wedged, entered, exited, crossed, held, lent, stash>>

\* The end of terminate(): the context is dropped with both buffers.
\* message_queue and self.actor are not in it.
ReportEnd ==
  /\ Next1("report")
  /\ life' = "gone"
  /\ stash' = <<>> /\ unstashed' = <<>>
  /\ Settle({}, Elements(stash \o unstashed))
  /\ Return(<<>>)
  /\ UNCHANGED <<asker, message_queue, terminated, current, pending, born, panics,
                 wedged, entered, exited, crossed, held, lent>>

Run == check_become \/ on_exit \/ DropOld \/ on_enter \/ Recreate \/ ReportEnd

-----------------------------------------------------------------------------
(* The dispatcher's loop, when no call is left.                            *)

Idle == todo = <<>> /\ ~wedged

\* actor_loop(): the first time, the behaviour is made by the Props.
Begin ==
  /\ Idle /\ life = "fresh"
  /\ life' = "live"
  /\ todo' = <<Create>>
  /\ UNCHANGED <<askVars, current, pending, born, panics, wedged, entered, exited,
                 crossed, held, lent, stash, unstashed>>

\* Variant: a handler that panics is replaced without its on_exit().
PanicReplace ==
  /\ Panic
  /\ todo' = <<Create>>
  /\ crossed' = (crossed \/ born' # born)
  /\ UNCHANGED current

\* process_message(), the handler panicked: the behaviour is taken out, exits,
\* and a new one is made.
Replace ==
  /\ Panic
  /\ current' = None
  /\ todo' = <<Exit(current), Create>>
  /\ crossed' = (crossed \/ born' # born)

\* process_message() of message m: its handler, and check_become().
process_message(m, released) ==
  /\ Callback(current, {m}, released)
  /\ \/ /\ todo' = <<Check>>
        /\ UNCHANGED <<current, panics, crossed>>
     \/ Replace

Handle ==
  /\ Idle /\ life = "live" /\ ~terminated
  /\ \/ /\ unstashed # <<>>
        /\ process_message(Head(unstashed), Tail(unstashed))
        /\ UNCHANGED message_queue
     \/ /\ unstashed = <<>> /\ message_queue # <<>>
        /\ process_message(Head(message_queue), <<>>)
        /\ message_queue' = Tail(message_queue)
  /\ UNCHANGED <<asker, terminated, life, wedged, entered, exited>>

\* InternalMessage::Terminate closes the mailbox ...
Close ==
  /\ Idle /\ life = "live" /\ ~terminated
  /\ terminated' = TRUE
  /\ UNCHANGED <<asker, channel, message_queue, lifeVars>>

\* ... and terminate() runs now or when the last child has ended.
terminate ==
  /\ Idle /\ life = "live" /\ terminated
  /\ current' = None
  /\ todo' = <<Exit(current), Report>>
  /\ UNCHANGED <<askVars, life, pending, born, panics, wedged, entered, exited,
                 crossed, held, lent, stash, unstashed>>

\* A spawned future replies, or ends without.
FutureEnds(a) ==
  /\ a \in lent
  /\ lent' = lent \ {a}
  /\ Settle({a}, {}) \/ Settle({}, {a})
  /\ UNCHANGED <<asker, message_queue, terminated, life, current, pending, todo, born,
                 panics, wedged, entered, exited, crossed, held, stash, unstashed>>

-----------------------------------------------------------------------------
Init ==
  /\ AskInit
  /\ life = "fresh" /\ current = None /\ pending = None /\ todo = <<>>
  /\ born = 0 /\ panics = 0
  /\ wedged = FALSE /\ crossed = FALSE
  /\ entered = [b \in Behaviours |-> 0] /\ exited = [b \in Behaviours |-> 0]
  /\ held = [b \in Behaviours \cup {None} |-> {}]
  /\ lent = {} /\ stash = <<>> /\ unstashed = <<>>

Callers == \E a \in Asks : AskStep(a) /\ UNCHANGED lifeVars
Futures == \E a \in Asks : FutureEnds(a)

Next == Begin \/ Run \/ Handle \/ Close \/ terminate \/ Callers \/ Futures

Spec == Init /\ [][Next]_vars

\* The task is polled until its calls have returned; children end.
FairSpec == Spec /\ WF_vars(Run) /\ WF_vars(terminate)

-----------------------------------------------------------------------------
\* Every variable keeps its type, and the stack of calls its shape: callbacks
\* of old behaviours still to come are for different ones.
TypeOK ==
  /\ AskTypeOK
  /\ life \in {"fresh", "live", "gone"}
  /\ current \in Behaviours \cup {None} /\ pending \in Behaviours \cup {None}
  /\ born \in 0..(MaxBehaviours + MaxPanics) /\ panics \in 0..MaxPanics
  /\ wedged \in BOOLEAN /\ crossed \in BOOLEAN
  /\ held \in [Behaviours \cup {None} -> SUBSET Asks] /\ held[None] = {}
  /\ lent \subseteq Asks
  /\ stash \in Seq(Asks) /\ unstashed \in Seq(Asks)
  /\ \A b \in Behaviours : exited[b] <= 1

\* Whatever callbacks and panics came before, a message is handled by a
\* behaviour that has been entered, has not been exited, and has no successor
\* waiting (process_message(), dispatcher.rs:218-235).
ReadyActor ==
  Idle /\ life = "live" =>
    /\ current # None /\ pending = None
    /\ entered[current] > 0 /\ exited[current] = 0

\* As long as no on_exit() and no panicking handler has called transit(), each
\* behaviour is entered once, before it is exited, and exited once, before the
\* next message: only the current one and those on the stack are in between.
Paired ==
  ~crossed => \A b \in Behaviours :
    /\ exited[b] <= entered[b] /\ entered[b] <= 1
    /\ entered[b] > exited[b] => b = current \/ b \in OnStack \/ wedged

Living == ({current, pending} \cup OnStack) \ {None}

Owners(a) ==
  LET buffered == message_queue \o unstashed \o stash IN
    Cardinality({i \in DOMAIN buffered : buffered[i] = a})
  + Cardinality({b \in Living : a \in held[b]})
  + Cardinality({a} \cap lent)

\* A caller can be answered as long as its channel is open: its sending half has
\* exactly one owner, and that is a buffer, a spawned future or a behaviour that
\* is still there.  No half is kept by a behaviour that was dropped.
ChannelOwned ==
  \A a \in Asks : Owners(a) = IF channel[a] = "open" THEN 1 ELSE 0

\* An actor that has ended keeps callers waiting only by messages that are left
\* in its queue, by futures it spawned and, when on_exit() called transit(), by a
\* behaviour that terminate() entered and nobody exits.
EndedReleases ==
  life = "gone" => \A a \in Asks : channel[a] = "open" =>
    \/ a \in Elements(message_queue) \cup lent
    \/ crossed /\ current # None /\ a \in held[current]

\* Callbacks that call transit() finitely often come to an end, and a closed
\* actor reports its end, unless a callback panics.
Settles ==
  /\ (todo # <<>>) ~> (todo = <<>>)
  /\ terminated ~> (life = "gone" \/ wedged)
=============================================================================
