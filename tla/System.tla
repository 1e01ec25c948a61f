------------------------------- MODULE System -------------------------------
(***************************************************************************)
(* The registry of top-level actors (UserGuard, RootActorStoper and        *)
(* ActorSystem in src/src/system.rs).                                      *)
(*                                                                         *)
(* Every clone of the ActorSystem holds an Arc of the registry, a          *)
(* HashMap under an RwLock; every top-level actor holds a Weak to it and   *)
(* upgrades it to take its own entry out when it terminates.  Whoever      *)
(* lets go of the last Arc, a caller or such an actor, runs                 *)
(* UserGuard::drop() and stops what is still registered.                   *)
(*                                                                         *)
(* A critical section that waits for nothing is one action.  The only one  *)
(* that does wait is the read lock get_or_create_actor_path() keeps while  *)
(* get_actor() takes it again.  The lock is std's: a reader is held back   *)
(* by a writer that waits, and a panic under the write lock poisons it.    *)
(*                                                                         *)
(* What happens inside an actor is module Dispatcher; here it closes       *)
(* whenever it likes, or it hangs in a callback, and it closes at some     *)
(* time after the request to stop reached it.                              *)
(***************************************************************************)
EXTENDS Naturals, FiniteSets

CONSTANTS
  Callers,   \* threads, each with a clone of the ActorSystem
  Paths,     \* paths of top-level actors
  Outside,   \* the callers that are not in the context of a tokio runtime
  MaxCalls,  \* BOUND: calls of get_actor, create_actor and get_or_create_actor
  None

ASSUME SystemAssumption ==
  /\ Callers # {} /\ Outside \subseteq Callers   \* new() returns the first clone
  /\ MaxCalls \in Nat
  /\ Callers \cap (1..MaxCalls) = {} /\ None \notin 1..MaxCalls

\* Actors are numbered in the order of their creation; a call makes at most one.
Actors  == 1..MaxCalls
Threads == Callers \cup Actors

VARIABLES
  actors,    \* the HashMap: the actor at each path, or None
  path,      \* of each actor that was created
  pc,        \* where each caller and the task of each actor stands
  target,    \* the path a caller asks for
  made,      \* how many calls were made
  handles,   \* callers that still have their clone
  queued,    \* threads that wait inside RwLock::write()
  poisoned,
  dropping,  \* UserGuard::drop(): "no", "keys", "stopping", "over"
  waits,     \* it runs on a multi-thread runtime and waits for each actor
  keys,      \* paths it has still to stop
  awaited,   \* the actor in whose wait_stop() it is, or None
  lost       \* that actor's full mailbox refused the PoisonPill

guardVars == <<dropping, waits, keys, awaited, lost>>
vars == <<actors, path, pc, target, made, handles, queued, poisoned, guardVars>>

CallerPC == {"idle", "get", "create", "guard", "guarded", "drop", "dropped"}
ActorPC  == {"unborn", "live", "hung", "terminating", "upgraded", "removed", "drop",
             "gone", "wedged"}

Goto(t, l) == pc' = [pc EXCEPT ![t] = l]

-----------------------------------------------------------------------------
(* RwLock.                                                                 *)

Guarded  == {c \in Callers : pc[c] = "guarded"}
CanRead  == queued = {}
CanWrite == Guarded = {}

\* A writer that has to wait holds new readers back.
Queue(t) ==
  /\ pc[t] \in {"create", "upgraded"} /\ ~CanWrite
  /\ t \notin queued
  /\ queued' = queued \cup {t}
  /\ UNCHANGED <<actors, path, pc, target, made, handles, poisoned, guardVars>>

Write(t) == CanWrite /\ queued' = queued \ {t}

-----------------------------------------------------------------------------
(* The calls on a clone of the ActorSystem.                                *)

Call(c) ==
  /\ pc[c] = "idle" /\ c \in handles /\ made < MaxCalls
  /\ made' = made + 1
  /\ \E p \in Paths : target' = [target EXCEPT ![c] = p]
  /\ \E l \in {"get", "create", "guard"} : Goto(c, l)
  /\ UNCHANGED <<actors, path, handles, queued, poisoned, guardVars>>

\* Only the lock shows: a lookup changes nothing, and on a poisoned lock the
\* caller panics, which ends its call as well.
get_actor(c) ==
  /\ pc[c] = "get" /\ CanRead
  /\ Goto(c, "idle")
  /\ UNCHANGED <<actors, path, target, made, handles, queued, poisoned, guardVars>>

\* Variant: an entry that is there is replaced.
AlwaysFree(p) == TRUE

Free(p) == actors[p] = None

Newborn == CHOOSE a \in Actors : pc[a] = "unborn" /\ \A b \in 1..(a - 1) : pc[b] # "unborn"

\* Handle::current() panics outside of a runtime, under the write lock.
create_actor_path(c) ==
  /\ pc[c] = "create" /\ Write(c)
  /\ IF ~poisoned /\ Free(target[c]) /\ c \notin Outside
     THEN /\ actors' = [actors EXCEPT ![target[c]] = Newborn]
          /\ path' = [path EXCEPT ![Newborn] = target[c]]
          /\ pc' = [pc EXCEPT ![c] = "idle", ![Newborn] = "live"]
     ELSE Goto(c, "idle") /\ UNCHANGED <<actors, path>>
  /\ poisoned' = (poisoned \/ (Free(target[c]) /\ c \in Outside))
  /\ UNCHANGED <<target, made, handles, guardVars>>

\* let actors = self.actors.read();
GetOrCreate(c) ==
  /\ pc[c] = "guard" /\ CanRead
  /\ Goto(c, "guarded")
  /\ UNCHANGED <<actors, path, target, made, handles, queued, poisoned, guardVars>>

\* get_actor() under that guard, which is released on both branches.  An actor
\* with another type of message counts as none.
GetUnderGuard(c) ==
  /\ pc[c] = "guarded" /\ CanRead
  /\ \/ (poisoned \/ ~Free(target[c])) /\ Goto(c, "idle")
     \/ ~poisoned /\ Goto(c, "create")
  /\ UNCHANGED <<actors, path, target, made, handles, queued, poisoned, guardVars>>

-----------------------------------------------------------------------------
(* The Arc of the registry.                                                *)

\* Variant: RootActorStoper holds an Arc, not a Weak.
HoldersForLife == {a \in Actors : pc[a] \notin {"unborn", "drop", "gone", "wedged"}}

\* Actors between Weak::upgrade() and the drop of what it returned.
Holders == {a \in Actors : pc[a] \in {"upgraded", "removed"}}

\* Variant: what the actors have upgraded does not count.
LastClone(t) == handles \subseteq {t}

Last(t) == handles \cup Holders = {t}

\* Letting go of an Arc; the last one drops the UserGuard.
Release(t, after) ==
  IF Last(t) THEN Goto(t, "drop") /\ dropping' = "keys"
             ELSE Goto(t, after) /\ UNCHANGED dropping

DropSystem(c) ==
  /\ pc[c] = "idle" /\ c \in handles
  /\ handles' = handles \ {c}
  /\ Release(c, "dropped")
  /\ UNCHANGED <<actors, path, target, made, queued, poisoned, waits, keys, awaited, lost>>

-----------------------------------------------------------------------------
(* An actor: it closes, then reports to RootActorStoper.                   *)

Close(a) ==
  /\ pc[a] = "live"
  /\ Goto(a, "terminating")
  /\ UNCHANGED <<actors, path, target, made, handles, queued, poisoned, guardVars>>

\* A callback that never returns, or that panics where nothing catches it, keeps
\* the actor where it is: open ("hung") or closed without a report ("wedged").
\* So does a child that never reports to an actor that has closed.
Hang(a) ==
  /\ \/ pc[a] = "live" /\ Goto(a, "hung")
     \/ pc[a] = "terminating" /\ Goto(a, "wedged")
  /\ UNCHANGED <<actors, path, target, made, handles, queued, poisoned, guardVars>>

Upgrade(a) ==
  /\ pc[a] = "terminating"
  /\ Goto(a, IF handles \cup Holders # {} THEN "upgraded" ELSE "gone")
  /\ UNCHANGED <<actors, path, target, made, handles, queued, poisoned, guardVars>>

\* write().unwrap() on a poisoned lock panics where nothing catches it: the
\* task is lost, and the guard goes with it (if it was the last one,
\* UserGuard::drop() panics in turn and stops nobody).
Remove(a) ==
  /\ pc[a] = "upgraded" /\ Write(a)
  /\ \/ /\ ~poisoned
        /\ actors' = [actors EXCEPT ![path[a]] = None]
        /\ Goto(a, "removed") /\ UNCHANGED dropping
     \/ /\ poisoned
        /\ dropping' = IF Last(a) THEN "over" ELSE dropping
        /\ Goto(a, "wedged") /\ UNCHANGED actors
  /\ UNCHANGED <<path, target, made, handles, poisoned, waits, keys, awaited, lost>>

ReleaseGuard(a) ==
  /\ pc[a] = "removed"
  /\ Release(a, "gone")
  /\ UNCHANGED <<actors, path, target, made, handles, queued, poisoned, waits,
                 keys, awaited, lost>>

-----------------------------------------------------------------------------
(* UserGuard::drop(), in the thread that held the last Arc.                *)

\* The flavor of the runtime that thread runs in decides whether it waits; a
\* caller outside of one never does.
Keys(t) ==
  /\ pc[t] = "drop" /\ dropping = "keys"
  /\ \/ /\ poisoned                      \* read().unwrap() panics
        /\ dropping' = "over"
        /\ Goto(t, IF t \in Callers THEN "dropped" ELSE "wedged")
        /\ UNCHANGED <<waits, keys>>
     \/ /\ ~poisoned
        /\ dropping' = "stopping"
        /\ waits' \in (IF t \in Outside THEN {FALSE} ELSE BOOLEAN)
        /\ keys' = {p \in Paths : actors[p] # None}
        /\ UNCHANGED pc
  /\ UNCHANGED <<actors, path, target, made, handles, queued, poisoned, awaited,
                 lost>>

\* Variant: stop_actor() where stop_actor_wait() is meant.
StopOnly(t) ==
  /\ pc[t] = "drop" /\ dropping = "stopping" /\ awaited = None
  /\ \E p \in keys :
       /\ keys' = keys \ {p}
       /\ actors' = [actors EXCEPT ![p] = None]
  /\ UNCHANGED <<path, pc, target, made, handles, queued, poisoned, dropping, waits,
                 awaited, lost>>

\* stop_actor() and stop_actor_wait() take the entry out, then ask the actor.
\* stop() uses the internal queue, which is never full; wait_stop() of an actor
\* with graceful_stop sends a PoisonPill, which a full bounded mailbox refuses.
StopActor(t) ==
  /\ pc[t] = "drop" /\ dropping = "stopping" /\ awaited = None
  /\ \E p \in keys :
       /\ keys' = keys \ {p}
       /\ actors' = [actors EXCEPT ![p] = None]
       /\ awaited' = IF waits THEN actors[p] ELSE None
       /\ lost' \in (IF waits THEN BOOLEAN ELSE {FALSE})
  /\ UNCHANGED <<path, pc, target, made, handles, queued, poisoned, dropping, waits>>

\* wait_stop() returns once the mailbox is closed (Dispatcher, StopObserved).
Stopped(t) ==
  /\ pc[t] = "drop" /\ awaited # None /\ pc[awaited] \notin {"live", "hung"}
  /\ awaited' = None /\ lost' = FALSE
  /\ UNCHANGED <<actors, path, pc, target, made, handles, queued, poisoned, dropping,
                 waits, keys>>

AllStopped(t) ==
  /\ pc[t] = "drop" /\ dropping = "stopping" /\ keys = {} /\ awaited = None
  /\ dropping' = "over"
  /\ Goto(t, IF t \in Callers THEN "dropped" ELSE "gone")
  /\ UNCHANGED <<actors, path, target, made, handles, queued, poisoned, waits, keys,
                 awaited, lost>>

-----------------------------------------------------------------------------
Init ==
  /\ actors = [p \in Paths |-> None]
  /\ path = [a \in Actors |-> None]
  /\ pc = [t \in Threads |-> IF t \in Callers THEN "idle" ELSE "unborn"]
  /\ target = [c \in Callers |-> None]
  /\ made = 0 /\ handles = Callers /\ queued = {} /\ poisoned = FALSE
  /\ dropping = "no" /\ waits = FALSE /\ keys = {} /\ awaited = None /\ lost = FALSE

InsideCall(c) ==
  \/ get_actor(c)
  \/ create_actor_path(c)
  \/ GetOrCreate(c)
  \/ GetUnderGuard(c)
  \/ Queue(c)

Reports(a) ==
  \/ Upgrade(a)
  \/ Remove(a)
  \/ ReleaseGuard(a)
  \/ Queue(a)

GuardDrop(t) ==
  \/ Keys(t)
  \/ StopActor(t)
  \/ Stopped(t)
  \/ AllStopped(t)

Next ==
  \/ \E c \in Callers : Call(c) \/ InsideCall(c) \/ DropSystem(c)
  \/ \E a \in Actors : Close(a) \/ Hang(a) \/ Reports(a)
  \/ \E t \in Threads : GuardDrop(t)

Spec == Init /\ [][Next]_vars

Registry == {actors[p] : p \in Paths} \ {None}

\* UserGuard::drop() has taken it out of the map, and its request was not lost.
Asked(a) ==
  /\ pc[a] = "live" /\ dropping \in {"stopping", "over"} /\ a \notin Registry
  /\ ~(awaited = a /\ lost)

\* An actor that hangs answers nobody, not even when it is closed already: those
\* who watch it are answered at the end of terminate().
Answers == awaited # None => pc[awaited] # "wedged"

\* Threads inside the library go on when they can, and so does an actor that
\* reports.  An actor that the request to stop has reached closes, unless it
\* hangs (Dispatcher, StopCompletes, which assumes sequential consistency).
Fairness ==
  /\ \A c \in Callers : WF_vars(InsideCall(c))
  /\ \A a \in Actors : WF_vars(Reports(a)) /\ WF_vars(Asked(a) /\ Close(a))
  /\ \A t \in Threads : WF_vars(Answers /\ GuardDrop(t))

FairSpec == Spec /\ Fairness

-----------------------------------------------------------------------------
(* Properties.                                                             *)

TypeOK ==
  /\ actors \in [Paths -> Actors \cup {None}]
  /\ path \in [Actors -> Paths \cup {None}]
  /\ DOMAIN pc = Threads
  /\ \A c \in Callers : pc[c] \in CallerPC
  /\ \A a \in Actors : pc[a] \in ActorPC
  /\ target \in [Callers -> Paths \cup {None}]
  /\ made \in 0..MaxCalls
  /\ handles \subseteq Callers
  /\ queued \subseteq {t \in Threads : pc[t] \in {"create", "upgraded"}}
  /\ poisoned \in BOOLEAN /\ waits \in BOOLEAN
  /\ dropping \in {"no", "keys", "stopping", "over"}
  /\ keys \subseteq Paths
  /\ awaited \in Actors \cup {None} /\ lost \in BOOLEAN
  /\ dropping \in {"keys", "stopping"} <=> \E t \in Threads : pc[t] = "drop"

\* Until the system is dropped the map holds exactly the actors that have not
\* reported their end, each at its own path: one that reports late never takes
\* out the entry of a namesake created after it, and a path is free again as
\* soon as its actor reported.
Registered ==
  dropping = "no" =>
    \A a \in Actors : \A p \in Paths :
      actors[p] = a <=>
        path[a] = p /\ pc[a] \in {"live", "hung", "terminating", "upgraded", "wedged"}

\* When a UserGuard::drop() that waits is over, no top-level actor is open,
\* those included that were not in the map any more when it began.
DropWaits ==
  dropping = "over" /\ waits => \A a \in Actors : pc[a] \notin {"live", "hung"}

\* wait_stop() that will not return: the actor hangs, or it never got the request.
Stuck == awaited # None /\ (pc[awaited] \in {"hung", "wedged"} \/ (lost /\ pc[awaited] = "live"))

\* Once the last clone is gone every top-level actor terminates or hangs, whether
\* a caller or a terminating actor is left to drop the registry, and whichever
\* runtime it runs in.  Three things prevent it, and nothing else does: a panic
\* poisoned the lock, or the drop waits for an actor that hangs, or for one that
\* lost its PoisonPill (Dispatcher, StopReturns).
DropStopsAll ==
  handles = {} ~>
    [](poisoned \/ Stuck \/ \A a \in Actors : pc[a] \in {"unborn", "hung", "wedged", "gone"})

\* "Retrieve or create a new actor on this actor system if it does not exist
\* yet" (system.rs:335): the call returns.
GetOrCreateReturns ==
  \A c \in Callers : pc[c] = "guard" ~> pc[c] = "idle"
=============================================================================
