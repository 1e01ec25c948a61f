---------------------------- MODULE SerialActor ----------------------------
(***************************************************************************)
(* What an actor promises the author of its handlers, whatever threads     *)
(* send to it: messages are handled one at a time, each at most once       *)
(* unless the handler itself defers it (stash), in the order they were     *)
(* queued, deferred ones first once released (unstash_all) and in the      *)
(* order they were deferred, and none after the mailbox is closed.         *)
(***************************************************************************)
EXTENDS Naturals, Sequences

CONSTANT Messages

VARIABLES
  arrived,    \* every message ever queued, in order
  begun,      \* how many of them have been taken
  current,    \* the message being handled, as a set of at most one
  deferred,   \* stashed, in order
  released,   \* unstashed, not yet taken again, in order
  over,       \* finished with
  closed

vars == <<arrived, begun, current, deferred, released, over, closed>>

Init ==
  /\ arrived = <<>> /\ begun = 0
  /\ current = {} /\ deferred = <<>> /\ released = <<>> /\ over = {}
  /\ closed = FALSE

Arrive(m) ==
  /\ \A i \in DOMAIN arrived : arrived[i] # m
  /\ arrived' = Append(arrived, m)
  /\ UNCHANGED <<begun, current, deferred, released, over, closed>>

TakeNext ==
  /\ ~closed /\ current = {} /\ released = <<>>
  /\ begun < Len(arrived)
  /\ begun' = begun + 1
  /\ current' = {arrived[begun + 1]}
  /\ UNCHANGED <<arrived, deferred, released, over, closed>>

TakeReleased ==
  /\ ~closed /\ current = {}
  /\ released # <<>>
  /\ released' = Tail(released)
  /\ current' = {Head(released)}
  /\ UNCHANGED <<arrived, begun, deferred, over, closed>>

Finish ==
  /\ current # {}
  /\ current' = {}
  /\ over' = over \cup current
  /\ \/ UNCHANGED <<deferred, released>>
     \/ deferred' = <<>> /\ released' = released \o deferred
  /\ UNCHANGED <<arrived, begun, closed>>

Defer(m) ==
  /\ current = {m}
  /\ current' = {}
  /\ deferred' = Append(deferred, m)
  /\ UNCHANGED <<arrived, begun, released, over, closed>>

Close ==
  /\ current = {}
  /\ closed' = TRUE
  /\ \/ UNCHANGED <<deferred, released>>
     \/ deferred' = <<>> /\ released' = <<>>
  /\ UNCHANGED <<arrived, begun, current, over>>

Next ==
  \/ \E m \in Messages : Arrive(m) \/ Defer(m)
  \/ TakeNext \/ TakeReleased \/ Finish \/ Close

Spec == Init /\ [][Next]_vars
=============================================================================
