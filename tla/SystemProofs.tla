---------------------------- MODULE SystemProofs ----------------------------
(***************************************************************************)
(* The registry of top-level actors for every set of callers and paths and *)
(* every number of calls.                                                  *)
(***************************************************************************)
EXTENDS System, FiniteSetTheorems, TLAPS

USE SystemAssumption DEF SystemAssumption, Actors, Threads

-----------------------------------------------------------------------------
(* The invariant.                                                          *)

Calling == {c \in Callers : pc[c] \in {"get", "create", "guard", "guarded"}}
Alive   == {"live", "hung", "terminating", "upgraded", "wedged"}
Open    == {"live", "hung"}

\* Actors are born in order, and each call in progress may still make one.
CountInv ==
  \E n \in 0..MaxCalls :
    /\ \A a \in Actors : pc[a] = "unborn" <=> a > n
    /\ IsFiniteSet(Calling)
    /\ n + Cardinality(Calling) <= made

\* A caller that asks for something asks for a path; an actor that was born has one.
PathInv ==
  /\ \A c \in Calling : target[c] \in Paths
  /\ \A a \in Actors : pc[a] # "unborn" => path[a] \in Paths

\* The last Arc is let go of once: whoever has one is counted as long as the
\* registry is there, and nobody has one later.
ArcInv ==
  /\ \A c \in Callers : c \in handles <=> pc[c] \notin {"drop", "dropped"}
  /\ dropping = "no" <=> handles \cup Holders # {}
  /\ \A t, u \in Threads : pc[t] = "drop" /\ pc[u] = "drop" => t = u

\* While the registry is dropped, what is still open is in the map and among the
\* keys, or being waited for.
DropInv ==
  /\ waits => dropping \in {"stopping", "over"}
  /\ awaited # None => dropping = "stopping"
  /\ dropping = "keys" => \A a \in Actors : pc[a] \in Open => actors[path[a]] = a
  /\ dropping = "stopping" /\ waits =>
       \A a \in Actors : pc[a] \in Open =>
         awaited = a \/ (path[a] \in keys /\ actors[path[a]] = a)
  /\ DropWaits

IInv == TypeOK /\ CountInv /\ PathInv /\ ArcInv /\ Registered /\ DropInv

-----------------------------------------------------------------------------
(* Creation.                                                               *)

\* There is a number left for the actor a call makes, and it is the next one.
LEMMA NextNewborn ==
  ASSUME TypeOK, CountInv, NEW c \in Calling
  PROVE  \E n \in 0..(MaxCalls - 1) :
           /\ \A a \in Actors : pc[a] = "unborn" <=> a > n
           /\ n + Cardinality(Calling) <= made
           /\ Newborn = n + 1
<1>1. PICK n \in 0..MaxCalls :
        /\ \A a \in Actors : pc[a] = "unborn" <=> a > n
        /\ IsFiniteSet(Calling)
        /\ n + Cardinality(Calling) <= made
  BY DEF CountInv
<1>2. Cardinality(Calling) \in Nat /\ Cardinality(Calling) # 0
  BY <1>1, FS_CardinalityType, FS_EmptySet
<1>3. n + 1 \in Actors
  BY <1>1, <1>2 DEF TypeOK
<1>4. pc[n + 1] = "unborn" /\ \A b \in 1..n : pc[b] # "unborn"
  BY <1>1, <1>3
<1>5. ASSUME NEW a \in Actors, pc[a] = "unborn", \A b \in 1..(a - 1) : pc[b] # "unborn"
      PROVE  a = n + 1
  <2>1. a > n
    BY <1>1, <1>5
  <2>2. ~(n + 1 < a)
    <3>1. n + 1 < a => n + 1 \in 1..(a - 1)
      OBVIOUS
    <3> QED
      BY <1>4, <1>5, <3>1
  <2> QED
    BY <2>1, <2>2
<1>6. Newborn = n + 1
  BY <1>3, <1>4, <1>5 DEF Newborn
<1> QED
  BY <1>1, <1>3, <1>6

\* Ending calls and whatever born actors do leave enough room.
LEMMA CountFrame ==
  ASSUME TypeOK, CountInv, Calling' \subseteq Calling, UNCHANGED made,
         \A a \in Actors : pc'[a] = "unborn" <=> pc[a] = "unborn"
  PROVE  CountInv'
<1>1. PICK n \in 0..MaxCalls :
        /\ \A a \in Actors : pc[a] = "unborn" <=> a > n
        /\ IsFiniteSet(Calling)
        /\ n + Cardinality(Calling) <= made
  BY DEF CountInv
<1>2. /\ IsFiniteSet(Calling') /\ Cardinality(Calling') <= Cardinality(Calling)
      /\ Cardinality(Calling) \in Nat /\ Cardinality(Calling') \in Nat
  BY <1>1, FS_Subset, FS_CardinalityType
<1>3. n + Cardinality(Calling') <= made'
  BY <1>1, <1>2 DEF TypeOK
<1> QED
  BY <1>1, <1>2, <1>3 DEF CountInv

LEMMA CountCreate ==
  ASSUME TypeOK, CountInv, NEW c \in Callers, create_actor_path(c)
  PROVE  CountInv'
<1>1. c \in Calling
  BY DEF create_actor_path, Calling
<1>2. PICK n \in 0..(MaxCalls - 1) :
        /\ \A a \in Actors : pc[a] = "unborn" <=> a > n
        /\ n + Cardinality(Calling) <= made
        /\ Newborn = n + 1
  BY <1>1, NextNewborn
<1>3. CASE pc' = [pc EXCEPT ![c] = "idle", ![Newborn] = "live"]
  <2>1. Calling' = Calling \ {c}
    BY <1>2, <1>3 DEF Calling, TypeOK
  <2>2. /\ IsFiniteSet(Calling) /\ IsFiniteSet(Calling')
        /\ Cardinality(Calling) \in Nat
        /\ Cardinality(Calling') = Cardinality(Calling) - 1
    BY <1>1, <2>1, FS_RemoveElement, FS_CardinalityType DEF CountInv
  <2>3. \A a \in Actors : pc'[a] = "unborn" <=> a > n + 1
    <3>1. n + 1 \in Threads
      OBVIOUS
    <3>2. \A a \in Actors : pc'[a] = IF a = n + 1 THEN "live" ELSE pc[a]
      BY <1>2, <1>3, <3>1 DEF TypeOK
    <3> QED
      BY <1>2, <3>2
  <2>4. UNCHANGED made /\ made \in Nat
    BY DEF create_actor_path, TypeOK
  <2>5. n + 1 \in 0..MaxCalls /\ (n + 1) + Cardinality(Calling') <= made'
    BY <1>2, <2>2, <2>4
  <2> QED
    BY <2>2, <2>3, <2>5 DEF CountInv
<1>4. CASE Goto(c, "idle")
  <2>1. Calling' \subseteq Calling
    BY <1>4 DEF Goto, Calling, TypeOK
  <2>2. \A a \in Actors : pc'[a] = pc[a]
    BY <1>4 DEF Goto, TypeOK
  <2> QED
    BY <2>1, <2>2, CountFrame DEF create_actor_path
<1> QED
  BY <1>3, <1>4 DEF create_actor_path

LEMMA CountCall ==
  ASSUME TypeOK, CountInv, NEW c \in Callers, Call(c)
  PROVE  CountInv'
<1>1. PICK n \in 0..MaxCalls :
        /\ \A a \in Actors : pc[a] = "unborn" <=> a > n
        /\ IsFiniteSet(Calling)
        /\ n + Cardinality(Calling) <= made
  BY DEF CountInv
<1>2. Calling' = Calling \cup {c} /\ c \notin Calling
  BY DEF Call, Goto, Calling, TypeOK
<1>3. \A a \in Actors : pc'[a] = pc[a]
  BY DEF Call, Goto, TypeOK
<1>4. /\ IsFiniteSet(Calling') /\ Cardinality(Calling') = Cardinality(Calling) + 1
      /\ Cardinality(Calling) \in Nat
  BY <1>1, <1>2, FS_AddElement, FS_CardinalityType
<1>5. n + Cardinality(Calling') <= made'
  BY <1>1, <1>4 DEF Call, TypeOK
<1> QED
  BY <1>1, <1>3, <1>4, <1>5 DEF CountInv

LEMMA CountStep ==
  ASSUME TypeOK, CountInv, [Next]_vars
  PROVE  CountInv'
<1> USE DEF TypeOK, CallerPC, ActorPC, Goto, Calling
<1>1. ASSUME NEW c \in Callers, Call(c) \/ InsideCall(c) \/ DropSystem(c)
      PROVE  CountInv'
  <2>1. CASE get_actor(c) \/ GetOrCreate(c) \/ GetUnderGuard(c) \/ Queue(c)
    <3>1. UNCHANGED made /\ Calling' \subseteq Calling
      BY <2>1 DEF get_actor, GetOrCreate, GetUnderGuard, Queue
    <3>2. \A a \in Actors : pc'[a] = pc[a]
      BY <2>1 DEF get_actor, GetOrCreate, GetUnderGuard, Queue
    <3> QED
      BY <3>1, <3>2, CountFrame
  <2>2. CASE DropSystem(c)
    <3>1. UNCHANGED made /\ Calling' \subseteq Calling
      BY <2>2 DEF DropSystem, Release
    <3>2. \A a \in Actors : pc'[a] = pc[a]
      BY <2>2 DEF DropSystem, Release
    <3> QED
      BY <3>1, <3>2, CountFrame
  <2> QED
    BY <1>1, <2>1, <2>2, CountCall, CountCreate DEF InsideCall
<1>2. ASSUME NEW a \in Actors, Close(a) \/ Hang(a) \/ Reports(a) PROVE CountInv'
  <2>1. UNCHANGED made
    BY <1>2 DEF Close, Hang, Reports, Upgrade, Remove, ReleaseGuard, Queue
  <2>2. \E l \in ActorPC \ {"unborn"} : pc[a] # "unborn" /\ (UNCHANGED pc \/ pc' = [pc EXCEPT ![a] = l])
    BY <1>2 DEF Close, Hang, Reports, Upgrade, Remove, ReleaseGuard, Queue, Release
  <2>3. /\ Calling' = Calling
        /\ \A b \in Actors : pc'[b] = "unborn" <=> pc[b] = "unborn"
    BY <2>2
  <2> QED
    BY <2>1, <2>3, CountFrame
<1>3. ASSUME NEW t \in Threads, GuardDrop(t) PROVE CountInv'
  <2>1. UNCHANGED made
    BY <1>3 DEF GuardDrop, Keys, StopActor, Stopped, AllStopped
  <2>2. pc[t] = "drop" /\ (UNCHANGED pc \/ \E l \in {"dropped", "wedged", "gone"} : pc' = [pc EXCEPT ![t] = l])
    BY <1>3 DEF GuardDrop, Keys, StopActor, Stopped, AllStopped
  <2>3. /\ Calling' = Calling
        /\ \A b \in Actors : pc'[b] = "unborn" <=> pc[b] = "unborn"
    BY <2>2
  <2> QED
    BY <2>1, <2>3, CountFrame
<1>4. CASE UNCHANGED vars
  BY <1>4, CountFrame DEF vars
<1> QED
  BY <1>1, <1>2, <1>3, <1>4 DEF Next

-----------------------------------------------------------------------------
(* The other parts, step by step.                                          *)

\* What a creation that succeeds does.
LEMMA Created ==
  ASSUME TypeOK, CountInv, PathInv, NEW c \in Callers, create_actor_path(c),
         ~Goto(c, "idle")
  PROVE  /\ ~poisoned /\ Free(target[c]) /\ target[c] \in Paths
         /\ Newborn \in Actors /\ pc[Newborn] = "unborn" /\ c # Newborn
         /\ pc' = [pc EXCEPT ![c] = "idle", ![Newborn] = "live"]
         /\ actors' = [actors EXCEPT ![target[c]] = Newborn]
         /\ path' = [path EXCEPT ![Newborn] = target[c]]
<1>1. c \in Calling
  BY DEF create_actor_path, Calling
<1>2. Newborn \in Actors /\ pc[Newborn] = "unborn"
  BY <1>1, NextNewborn
<1> QED
  BY <1>1, <1>2 DEF create_actor_path, PathInv

\* A creation that does not leaves the map alone.
LEMMA NotCreated ==
  ASSUME TypeOK, CountInv, NEW c \in Callers, create_actor_path(c), Goto(c, "idle")
  PROVE  UNCHANGED <<actors, path>>
<1>1. CASE pc' = [pc EXCEPT ![c] = "idle", ![Newborn] = "live"]
  <2>1. c \in Calling
    BY DEF create_actor_path, Calling
  <2>2. Newborn \in Actors /\ pc[Newborn] = "unborn"
    BY <2>1, NextNewborn
  <2>3. pc'[Newborn] = "live"
    BY <1>1, <2>2 DEF TypeOK
  <2>4. pc'[Newborn] = "unborn"
    BY <2>2 DEF TypeOK, Goto
  <2> QED
    BY <2>3, <2>4
<1> QED
  BY <1>1 DEF create_actor_path

LEMMA PathStep ==
  ASSUME TypeOK, CountInv, PathInv, [Next]_vars
  PROVE  PathInv'
<1> USE DEF TypeOK, CallerPC, ActorPC, Goto
<1>1. ASSUME NEW c \in Callers, Call(c)
      PROVE  PathInv'
  BY <1>1 DEF Call, PathInv, Calling
<1>2. ASSUME NEW c \in Callers, create_actor_path(c) PROVE PathInv'
  <2>1. CASE Goto(c, "idle")
    <3>1. UNCHANGED <<path, target>>
      BY <1>2, <2>1, NotCreated DEF create_actor_path
    <3>2. Calling' \subseteq Calling /\ \A a \in Actors : pc'[a] = pc[a]
      BY <2>1 DEF Calling
    <3> QED
      BY <3>1, <3>2 DEF PathInv
  <2>2. CASE ~Goto(c, "idle")
    <3>1. UNCHANGED target
      BY <1>2 DEF create_actor_path
    <3>2. /\ target[c] \in Paths /\ Newborn \in Actors /\ pc[Newborn] = "unborn"
          /\ pc' = [pc EXCEPT ![c] = "idle", ![Newborn] = "live"]
          /\ path' = [path EXCEPT ![Newborn] = target[c]]
      BY <1>2, <2>2, Created
    <3> HIDE DEF Goto
    <3>3. Calling' \subseteq Calling
      BY <3>2 DEF Calling
    <3>4. \A a \in Actors : pc'[a] # "unborn" => path'[a] \in Paths
      BY <3>2 DEF PathInv
    <3> QED
      BY <3>1, <3>3, <3>4 DEF PathInv
  <2> QED
    BY <2>1, <2>2
<1>3. ASSUME NEW c \in Callers,
             get_actor(c) \/ GetOrCreate(c) \/ GetUnderGuard(c) \/ Queue(c) \/ DropSystem(c)
      PROVE  PathInv'
  <2>1. UNCHANGED <<path, target>>
    BY <1>3 DEF get_actor, GetOrCreate, GetUnderGuard, Queue, DropSystem
  <2>2. /\ Calling' \subseteq Calling
        /\ \A a \in Actors : pc'[a] = pc[a]
    BY <1>3 DEF get_actor, GetOrCreate, GetUnderGuard, Queue, DropSystem, Release, Calling
  <2> QED
    BY <2>1, <2>2 DEF PathInv
<1>4. ASSUME NEW t \in Threads, pc[t] # "unborn", pc[t] \notin {"get", "create", "guard", "guarded"},
             UNCHANGED pc \/ \E l \in {"terminating", "hung", "upgraded", "removed", "drop", "gone", "wedged", "dropped"} :
                               pc' = [pc EXCEPT ![t] = l],
             UNCHANGED <<path, target>>
      PROVE  PathInv'
  BY <1>4 DEF PathInv, Calling
<1>5. ASSUME NEW a \in Actors, Close(a) \/ Hang(a) \/ Reports(a) PROVE PathInv'
  BY <1>4, <1>5 DEF Close, Hang, Reports, Upgrade, Remove, ReleaseGuard, Queue, Release
<1>6. ASSUME NEW t \in Threads, GuardDrop(t) PROVE PathInv'
  BY <1>4, <1>6 DEF GuardDrop, Keys, StopActor, Stopped, AllStopped
<1>7. CASE UNCHANGED vars
  BY <1>7 DEF vars, PathInv, Calling
<1> QED
  BY <1>1, <1>2, <1>3, <1>5, <1>6, <1>7 DEF Next, InsideCall

\* The last Arc is let go of by a caller or an actor, who has one.
LEMMA ArcRelease ==
  ASSUME TypeOK, ArcInv, NEW t \in handles \cup Holders,
         handles' \cup Holders' = (handles \cup Holders) \ {t},
         NEW l, l # "drop",
         \/ Last(t) /\ pc' = [pc EXCEPT ![t] = "drop"] /\ dropping' = "keys"
         \/ Last(t) /\ pc' = [pc EXCEPT ![t] = l] /\ dropping' = "over"
         \/ ~Last(t) /\ pc' = [pc EXCEPT ![t] = l] /\ UNCHANGED dropping,
         \A c \in Callers : c \in handles' <=> pc'[c] \notin {"drop", "dropped"}
  PROVE  ArcInv'
<1>1. dropping = "no" /\ t \in Threads
  BY DEF ArcInv, TypeOK, Holders
<1>2. \A u \in Threads : pc[u] # "drop"
  BY <1>1 DEF TypeOK
<1>3. CASE Last(t)
  BY <1>1, <1>2, <1>3 DEF ArcInv, Last, TypeOK
<1>4. CASE ~Last(t)
  <2>1. handles' \cup Holders' # {}
    BY <1>4 DEF Last
  <2> QED
    BY <1>1, <1>2, <1>4, <2>1 DEF ArcInv, TypeOK
<1> QED
  BY <1>3, <1>4

LEMMA ArcStep ==
  ASSUME TypeOK, CountInv, PathInv, ArcInv, [Next]_vars
  PROVE  ArcInv'
<1> USE DEF TypeOK, CallerPC, ActorPC
\* Steps that leave everybody's Arc alone.
<1>1. ASSUME UNCHANGED <<handles, dropping, Holders>>,
             \A c \in Callers : pc'[c] \in {"drop", "dropped"} <=> pc[c] \in {"drop", "dropped"},
             \A t \in Threads : pc'[t] = "drop" => pc[t] = "drop"
      PROVE  ArcInv'
  BY <1>1 DEF ArcInv
<1>2. ASSUME NEW c \in Callers, Call(c) \/ InsideCall(c) PROVE ArcInv'
  <2>1. UNCHANGED <<handles, dropping>>
    BY <1>2 DEF Call, InsideCall, get_actor, create_actor_path, GetOrCreate,
       GetUnderGuard, Queue, guardVars
  <2>2. CASE UNCHANGED pc
    BY <1>1, <2>1, <2>2 DEF Holders
  <2>3. CASE /\ pc[c] \notin {"drop", "dropped"}
             /\ \E l \in CallerPC \ {"drop", "dropped"} : Goto(c, l)
    BY <1>1, <2>1, <2>3 DEF Goto, Holders
  <2>4. CASE create_actor_path(c) /\ ~Goto(c, "idle")
    <3>1. /\ Newborn \in Actors /\ pc[Newborn] = "unborn" /\ c # Newborn
          /\ pc' = [pc EXCEPT ![c] = "idle", ![Newborn] = "live"]
          /\ pc[c] = "create"
      BY <2>4, Created DEF create_actor_path
    <3> QED
      BY <1>1, <2>1, <3>1 DEF Holders
  <2> QED
    BY <1>2, <2>2, <2>3, <2>4 DEF Call, InsideCall, get_actor, create_actor_path,
       GetOrCreate, GetUnderGuard, Queue, Goto
<1>3. ASSUME NEW c \in Callers, DropSystem(c) PROVE ArcInv'
  <2>1. handles' = handles \ {c} /\ c \in handles /\ pc[c] = "idle"
    BY <1>3 DEF DropSystem
  <2>2. PICK l \in {"drop", "dropped"} : pc' = [pc EXCEPT ![c] = l]
    BY <1>3 DEF DropSystem, Release, Goto
  <2>3. UNCHANGED Holders /\ Holders \subseteq Actors
    BY <2>2 DEF Holders
  <2>4. \A d \in Callers : d \in handles' <=> pc'[d] \notin {"drop", "dropped"}
    BY <2>1, <2>2 DEF ArcInv
  <2>5. handles' \cup Holders' = (handles \cup Holders) \ {c}
    BY <2>1, <2>3
  <2> QED
    <3>1. \/ Last(c) /\ pc' = [pc EXCEPT ![c] = "drop"] /\ dropping' = "keys"
          \/ ~Last(c) /\ pc' = [pc EXCEPT ![c] = "dropped"] /\ UNCHANGED dropping
      BY <1>3 DEF DropSystem, Release, Goto
    <3>2. c \in handles \cup Holders
      BY <2>1
    <3> QED
      BY <2>4, <2>5, <3>1, <3>2, ArcRelease
<1>4. ASSUME NEW a \in Actors, Close(a) \/ Hang(a) \/ Queue(a) PROVE ArcInv'
  BY <1>1, <1>4 DEF Close, Hang, Queue, Goto, Holders, guardVars
<1>5. ASSUME NEW a \in Actors, Upgrade(a) PROVE ArcInv'
  <2>1. UNCHANGED <<handles, dropping>>
    BY <1>5 DEF Upgrade, guardVars
  <2>2. CASE handles \cup Holders # {} /\ Goto(a, "upgraded")
    <3>1. Holders' = Holders \cup {a}
      BY <2>2 DEF Goto, Holders
    <3> QED
      BY <2>1, <2>2, <3>1 DEF ArcInv, Goto
  <2>3. CASE pc[a] = "terminating" /\ Goto(a, "gone")
    BY <1>1, <2>1, <2>3 DEF Goto, Holders
  <2> QED
    BY <1>5, <2>2, <2>3 DEF Upgrade, Goto
<1>6. ASSUME NEW a \in Actors, a \in Holders, UNCHANGED handles,
             NEW l \in {"drop", "gone", "wedged"}, pc' = [pc EXCEPT ![a] = l]
      PROVE  /\ handles' \cup Holders' = (handles \cup Holders) \ {a}
             /\ \A c \in Callers : c \in handles' <=> pc'[c] \notin {"drop", "dropped"}
  <2>1. Holders' = Holders \ {a}
    BY <1>6 DEF Holders
  <2> QED
    BY <1>6, <2>1 DEF ArcInv
<1>7. ASSUME NEW a \in Actors, Remove(a) PROVE ArcInv'
  <2>1. UNCHANGED handles /\ a \in Holders
    BY <1>7 DEF Remove, Holders
  <2>2. CASE Goto(a, "removed") /\ UNCHANGED dropping
    BY <1>1, <1>7, <2>1, <2>2 DEF Remove, Goto, Holders
  <2>3. CASE Goto(a, "wedged") /\ dropping' = IF Last(a) THEN "over" ELSE dropping
    BY <1>6, <2>1, <2>3, ArcRelease DEF Goto
  <2> QED
    BY <1>7, <2>2, <2>3 DEF Remove
<1>8. ASSUME NEW a \in Actors, ReleaseGuard(a) PROVE ArcInv'
  <2>1. UNCHANGED handles /\ a \in Holders
    BY <1>8 DEF ReleaseGuard, Holders
  <2> QED
    <3>1. \/ Last(a) /\ pc' = [pc EXCEPT ![a] = "drop"] /\ dropping' = "keys"
          \/ ~Last(a) /\ pc' = [pc EXCEPT ![a] = "gone"] /\ UNCHANGED dropping
      BY <1>8 DEF ReleaseGuard, Release, Goto
    <3> QED
      BY <1>6, <2>1, <3>1, ArcRelease
<1>9. ASSUME NEW t \in Threads, GuardDrop(t) PROVE ArcInv'
  <2>1. pc[t] = "drop" /\ dropping # "no" /\ dropping' # "no" /\ UNCHANGED handles
    BY <1>9 DEF GuardDrop, Keys, StopActor, Stopped, AllStopped
  <2>2. UNCHANGED pc \/ \E l \in {"dropped", "wedged", "gone"} :
          pc' = [pc EXCEPT ![t] = l] /\ (t \in Callers => l = "dropped")
    BY <1>9 DEF GuardDrop, Keys, StopActor, Stopped, AllStopped, Goto
  <2>3. UNCHANGED Holders
    BY <2>1, <2>2 DEF Holders
  <2> QED
    BY <2>1, <2>2, <2>3 DEF ArcInv
<1>10. CASE UNCHANGED vars
  BY <1>10 DEF vars, guardVars, ArcInv, Holders
<1> QED
  BY <1>2, <1>3, <1>4, <1>5, <1>7, <1>8, <1>9, <1>10 DEF Next, Reports

-----------------------------------------------------------------------------
(* Type correctness.                                                       *)

\* A thread is in UserGuard::drop() exactly while that is going on.
DropperType == dropping \in {"keys", "stopping"} <=> \E t \in Threads : pc[t] = "drop"

LEMMA DropperStep ==
  ASSUME TypeOK, CountInv, PathInv, ArcInv, [Next]_vars
  PROVE  DropperType'
<1> USE DEF TypeOK, DropperType
<1>1. ASSUME UNCHANGED dropping, \A t \in Threads : pc'[t] = "drop" <=> pc[t] = "drop"
      PROVE  DropperType'
  BY <1>1
\* Letting go of an Arc.
<1>2. ASSUME NEW t \in handles \cup Holders, NEW l, l # "drop",
             \/ pc' = [pc EXCEPT ![t] = "drop"] /\ dropping' = "keys"
             \/ Last(t) /\ pc' = [pc EXCEPT ![t] = l] /\ dropping' = "over"
             \/ pc' = [pc EXCEPT ![t] = l] /\ UNCHANGED dropping
      PROVE  DropperType'
  <2>1. dropping = "no" /\ t \in Threads /\ pc[t] # "drop"
    BY <1>2 DEF ArcInv, Holders
  <2> QED
    BY <1>2, <2>1
<1>3. ASSUME NEW c \in Callers, Call(c) \/ InsideCall(c) PROVE DropperType'
  <2>1. UNCHANGED dropping
    BY <1>3 DEF Call, InsideCall, get_actor, create_actor_path, GetOrCreate,
       GetUnderGuard, Queue, guardVars
  <2>2. CASE create_actor_path(c) /\ ~Goto(c, "idle")
    <3>1. PICK n \in Actors :
            /\ pc[n] = "unborn" /\ c # n
            /\ pc' = [pc EXCEPT ![c] = "idle", ![n] = "live"]
      BY <2>2, Created
    <3>2. pc[c] = "create"
      BY <2>2 DEF create_actor_path
    <3>3. \A t \in Threads : pc'[t] = "drop" <=> pc[t] = "drop"
      BY <3>1, <3>2
    <3> QED
      BY <1>1, <2>1, <3>3
  <2>3. CASE UNCHANGED pc \/ (pc[c] # "drop" /\ \E l \in CallerPC \ {"drop"} : Goto(c, l))
    BY <1>1, <2>1, <2>3 DEF Goto
  <2> QED
    BY <1>3, <2>2, <2>3 DEF Call, InsideCall, get_actor, create_actor_path,
       GetOrCreate, GetUnderGuard, Queue, Goto, CallerPC
<1>4. ASSUME NEW c \in Callers, DropSystem(c) PROVE DropperType'
  BY <1>2, <1>4 DEF DropSystem, Release, Goto
<1>5. ASSUME NEW a \in Actors, Close(a) \/ Hang(a) \/ Queue(a) \/ Upgrade(a) PROVE DropperType'
  BY <1>1, <1>5 DEF Close, Hang, Queue, Upgrade, Goto, guardVars
<1>6. ASSUME NEW a \in Actors, Remove(a) \/ ReleaseGuard(a) PROVE DropperType'
  <2>1. a \in Holders
    BY <1>6 DEF Remove, ReleaseGuard, Holders
  <2>2. CASE Remove(a) /\ ~poisoned
    BY <1>1, <2>2 DEF Remove, Goto
  <2>3. CASE Remove(a) /\ poisoned
    BY <1>2, <2>1, <2>3 DEF Remove, Goto
  <2>4. CASE ReleaseGuard(a)
    BY <1>2, <2>1, <2>4 DEF ReleaseGuard, Release, Goto
  <2> QED
    BY <1>6, <2>2, <2>3, <2>4
<1>7. ASSUME NEW t \in Threads, GuardDrop(t) PROVE DropperType'
  <2>1. pc[t] = "drop" /\ \A u \in Threads : pc[u] = "drop" => u = t
    BY <1>7 DEF GuardDrop, Keys, StopActor, Stopped, AllStopped, ArcInv
  <2>2. CASE UNCHANGED pc /\ dropping' \in {"keys", "stopping"}
    BY <2>1, <2>2
  <2>3. CASE dropping' = "over" /\ \E l \in {"dropped", "wedged", "gone"} : Goto(t, l)
    BY <2>1, <2>3 DEF Goto
  <2> QED
    BY <1>7, <2>1, <2>2, <2>3 DEF GuardDrop, Keys, StopActor, Stopped, AllStopped
<1>8. CASE UNCHANGED vars
  BY <1>8 DEF vars, guardVars
<1> QED
  BY <1>3, <1>4, <1>5, <1>6, <1>7, <1>8 DEF Next, Reports

LEMMA TypeStep ==
  ASSUME TypeOK, CountInv, PathInv, ArcInv, [Next]_vars
  PROVE  TypeOK'
<1> USE DEF TypeOK, CallerPC, ActorPC
<1>0. DropperType'
  BY DropperStep
<1>1. ASSUME NEW c \in Callers, Call(c) \/ InsideCall(c) \/ DropSystem(c) PROVE TypeOK'
  <2>1. CASE Call(c)
    BY <1>0, <2>1 DEF Call, Goto, guardVars, DropperType
  <2>2. CASE get_actor(c) \/ GetOrCreate(c) \/ GetUnderGuard(c) \/ Queue(c)
    BY <1>0, <2>2 DEF get_actor, GetOrCreate, GetUnderGuard, Queue, Goto, guardVars,
       DropperType
  <2>3. CASE create_actor_path(c)
    <3>1. UNCHANGED <<target, made, handles, guardVars>> /\ queued' = queued \ {c}
      BY <2>3 DEF create_actor_path, Write
    <3>2. poisoned' \in BOOLEAN
      BY <2>3 DEF create_actor_path, Free
    <3>3. CASE Goto(c, "idle")
      <4>1. UNCHANGED <<actors, path>>
        BY <2>3, <3>3, NotCreated
      <4> QED
        BY <1>0, <3>1, <3>2, <3>3, <4>1 DEF Goto, guardVars, DropperType
    <3>4. CASE ~Goto(c, "idle")
      <4>1. /\ target[c] \in Paths
            /\ Newborn \in Actors /\ pc[Newborn] = "unborn" /\ c # Newborn
            /\ pc' = [pc EXCEPT ![c] = "idle", ![Newborn] = "live"]
            /\ actors' = [actors EXCEPT ![target[c]] = Newborn]
            /\ path' = [path EXCEPT ![Newborn] = target[c]]
        BY <2>3, <3>4, Created
      <4> DEFINE n == Newborn
      <4> HIDE DEF n
      <4>2. /\ n \in Actors /\ pc[n] = "unborn" /\ c # n
            /\ pc' = [pc EXCEPT ![c] = "idle", ![n] = "live"]
            /\ actors' = [actors EXCEPT ![target[c]] = n]
            /\ path' = [path EXCEPT ![n] = target[c]]
        BY <4>1 DEF n
      <4>3. /\ DOMAIN pc' = Threads
            /\ \A d \in Callers : pc'[d] \in CallerPC
            /\ \A a \in Actors : pc'[a] \in ActorPC
            /\ queued' \subseteq {t \in Threads : pc'[t] \in {"create", "upgraded"}}
        BY <3>1, <4>2
      <4>4. actors' \in [Paths -> Actors \cup {None}] /\ path' \in [Actors -> Paths \cup {None}]
        BY <4>1, <4>2
      <4> QED
        BY <1>0, <3>1, <3>2, <4>3, <4>4 DEF guardVars, DropperType
    <3> QED
      BY <3>3, <3>4
  <2>4. CASE DropSystem(c)
    <3>1. PICK l \in {"drop", "dropped"} : pc' = [pc EXCEPT ![c] = l]
      BY <2>4 DEF DropSystem, Release, Goto
    <3>2. pc[c] = "idle" /\ UNCHANGED queued
      BY <2>4 DEF DropSystem
    <3>3. queued' \subseteq {t \in Threads : pc'[t] \in {"create", "upgraded"}}
      BY <3>1, <3>2
    <3>4. /\ DOMAIN pc' = Threads
          /\ \A d \in Callers : pc'[d] \in CallerPC
          /\ \A a \in Actors : pc'[a] \in ActorPC
      BY <3>1
    <3>5. dropping' \in {"no", "keys", "stopping", "over"} /\ handles' \subseteq Callers
          /\ UNCHANGED <<actors, path, target, made, poisoned, waits, keys, awaited, lost>>
      BY <2>4 DEF DropSystem, Release
    <3> QED
      BY <1>0, <3>3, <3>4, <3>5 DEF DropperType
  <2> QED
    BY <1>1, <2>1, <2>2, <2>3, <2>4 DEF InsideCall
<1>2. ASSUME NEW a \in Actors, Close(a) \/ Hang(a) \/ Queue(a) \/ Upgrade(a) PROVE TypeOK'
  <2>1. CASE Close(a) \/ Hang(a)
    BY <1>0, <2>1 DEF Close, Hang, Goto, guardVars, DropperType
  <2>2. CASE Queue(a)
    BY <1>0, <2>2 DEF Queue, guardVars, DropperType
  <2>3. CASE Upgrade(a)
    BY <1>0, <2>3 DEF Upgrade, Goto, guardVars, DropperType
  <2> QED
    BY <1>2, <2>1, <2>2, <2>3
<1>3. ASSUME NEW a \in Actors, Remove(a) PROVE TypeOK'
  <2>1. actors' \in [Paths -> Actors \cup {None}]
    BY <1>3 DEF Remove
  <2> QED
    BY <1>0, <1>3, <2>1 DEF Remove, Write, Goto, DropperType
<1>4. ASSUME NEW a \in Actors, ReleaseGuard(a) PROVE TypeOK'
  <2>1. PICK l \in {"drop", "gone"} : pc' = [pc EXCEPT ![a] = l]
    BY <1>4 DEF ReleaseGuard, Release, Goto
  <2>2. pc[a] = "removed"
    BY <1>4 DEF ReleaseGuard
  <2>3. queued' \subseteq {t \in Threads : pc'[t] \in {"create", "upgraded"}}
    BY <1>4, <2>1, <2>2 DEF ReleaseGuard
  <2> QED
    BY <1>0, <1>4, <2>1, <2>3 DEF ReleaseGuard, Release, DropperType
<1>5. ASSUME NEW t \in Threads, Keys(t) \/ Stopped(t) \/ AllStopped(t) PROVE TypeOK'
  <2>1. CASE Keys(t)
    BY <1>0, <2>1 DEF Keys, Goto, DropperType
  <2>2. CASE Stopped(t)
    BY <1>0, <2>2 DEF Stopped, DropperType
  <2>3. CASE AllStopped(t)
    BY <1>0, <2>3 DEF AllStopped, Goto, DropperType
  <2> QED
    BY <1>5, <2>1, <2>2, <2>3
<1>6. ASSUME NEW t \in Threads, StopActor(t) PROVE TypeOK'
  <2>1. PICK p \in keys :
          /\ keys' = keys \ {p}
          /\ actors' = [actors EXCEPT ![p] = None]
          /\ awaited' = IF waits THEN actors[p] ELSE None
    BY <1>6 DEF StopActor
  <2> QED
    BY <1>0, <1>6, <2>1 DEF StopActor, DropperType
<1>7. CASE UNCHANGED vars
  BY <1>7 DEF vars, guardVars
<1> QED
  BY <1>1, <1>2, <1>3, <1>4, <1>5, <1>6, <1>7 DEF Next, Reports, GuardDrop

-----------------------------------------------------------------------------
(* The map and the end of it.                                              *)

LEMMA RegisteredStep ==
  ASSUME TypeOK, CountInv, PathInv, ArcInv, Registered, [Next]_vars
  PROVE  Registered'
<1> USE DEF TypeOK, CallerPC, ActorPC
<1>1. ASSUME dropping' = "no" => dropping = "no", UNCHANGED <<actors, path>>,
             dropping' = "no" => \A a \in Actors : pc'[a] \in Alive <=> pc[a] \in Alive
      PROVE  Registered'
  BY <1>1 DEF Registered, Alive
<1>2. ASSUME NEW c \in Callers, Call(c) \/ InsideCall(c) \/ DropSystem(c) PROVE Registered'
  <2>1. CASE create_actor_path(c) /\ ~Goto(c, "idle")
    <3>1. PICK n \in Actors :
            /\ Free(target[c]) /\ target[c] \in Paths /\ pc[n] = "unborn" /\ c # n
            /\ pc' = [pc EXCEPT ![c] = "idle", ![n] = "live"]
            /\ actors' = [actors EXCEPT ![target[c]] = n]
            /\ path' = [path EXCEPT ![n] = target[c]]
      BY <2>1, Created
    <3>2. UNCHANGED dropping
      BY <2>1 DEF create_actor_path, guardVars
    <3>3. \A a \in Actors : a # n => pc'[a] = pc[a] /\ path'[a] = path[a]
      BY SMTT(30), <3>1
    <3>4. pc'[n] = "live" /\ path'[n] = target[c]
      BY <3>1
    <3>5. \A p \in Paths : actors'[p] = IF p = target[c] THEN n ELSE actors[p]
      BY <3>1
    <3>6. ASSUME dropping = "no", NEW a \in Actors, NEW p \in Paths
          PROVE  actors'[p] = a <=>
                   path'[a] = p /\ pc'[a] \in {"live", "hung", "terminating", "upgraded", "wedged"}
      <4>1. actors[p] = a <=>
              path[a] = p /\ pc[a] \in {"live", "hung", "terminating", "upgraded", "wedged"}
        BY <3>6 DEF Registered
      <4>2. p = target[c] => actors[p] = None /\ actors[p] # a
        BY <3>1 DEF Free
      <4>3. CASE a = n
        <5>1. actors[p] # n
          BY <3>1, <4>1, <4>3
        <5> QED
          BY <3>4, <3>5, <4>3, <5>1
      <4>4. CASE a # n
        BY <3>3, <3>5, <4>1, <4>2, <4>4
      <4> QED
        BY <4>3, <4>4
    <3> QED
      BY <3>2, <3>6 DEF Registered
  <2>2. CASE create_actor_path(c) /\ Goto(c, "idle")
    <3>1. UNCHANGED <<actors, path, dropping>>
      BY <2>2, NotCreated DEF create_actor_path, guardVars
    <3> QED
      BY <1>1, <2>2, <3>1 DEF Goto
  <2>3. CASE Call(c) \/ get_actor(c) \/ GetOrCreate(c) \/ GetUnderGuard(c) \/ Queue(c)
    BY SMTT(30), <1>1, <2>3 DEF Call, get_actor, GetOrCreate, GetUnderGuard, Queue, Goto, guardVars
  <2>4. CASE DropSystem(c)
    BY <1>1, <2>4 DEF DropSystem, Release, Goto
  <2> QED
    BY <1>2, <2>1, <2>2, <2>3, <2>4 DEF InsideCall
<1>3. ASSUME NEW a \in Actors, Close(a) \/ Hang(a) \/ Queue(a) PROVE Registered'
  BY <1>1, <1>3 DEF Close, Hang, Queue, Goto, guardVars, Alive
<1>4. ASSUME NEW a \in Actors, Upgrade(a) PROVE Registered'
  <2>1. dropping = "no" => handles \cup Holders # {}
    BY DEF ArcInv
  <2>2. UNCHANGED <<actors, path, dropping>>
    BY <1>4 DEF Upgrade, guardVars
  <2>3. dropping = "no" => Goto(a, "upgraded") /\ pc[a] = "terminating"
    BY <1>4, <2>1 DEF Upgrade
  <2> QED
    BY <1>1, <2>2, <2>3 DEF Goto, Alive
<1>5. ASSUME NEW a \in Actors, Remove(a) PROVE Registered'
  <2>1. CASE ~poisoned
    <3>1. /\ pc[a] = "upgraded" /\ actors' = [actors EXCEPT ![path[a]] = None]
          /\ Goto(a, "removed") /\ UNCHANGED <<path, dropping>> /\ path[a] \in Paths
      BY <1>5, <2>1 DEF Remove, PathInv
    <3>2. \A p \in Paths : actors'[p] = IF p = path[a] THEN None ELSE actors[p]
      BY <3>1
    <3>3. pc'[a] = "removed" /\ \A b \in Actors : b # a => pc'[b] = pc[b]
      BY <3>1 DEF Goto
    <3> QED
      BY <3>1, <3>2, <3>3 DEF Registered
  <2>2. CASE poisoned
    <3>1. pc[a] = "upgraded" /\ Goto(a, "wedged") /\ UNCHANGED <<actors, path>>
          /\ (dropping' = "no" => dropping = "no")
      BY <1>5, <2>2 DEF Remove
    <3> QED
      BY <1>1, <3>1 DEF Goto, Alive
  <2> QED
    BY <2>1, <2>2
<1>6. ASSUME NEW a \in Actors, ReleaseGuard(a) PROVE Registered'
  BY <1>1, <1>6 DEF ReleaseGuard, Release, Goto, Alive
<1>7. ASSUME NEW t \in Threads, GuardDrop(t) PROVE Registered'
  <2>1. dropping' # "no"
    BY <1>7 DEF GuardDrop, Keys, StopActor, Stopped, AllStopped
  <2> QED
    BY <2>1 DEF Registered
<1>8. CASE UNCHANGED vars
  BY <1>1, <1>8 DEF vars, guardVars
<1> QED
  BY <1>2, <1>3, <1>4, <1>5, <1>6, <1>7, <1>8 DEF Next, Reports

LEMMA DropStep ==
  ASSUME TypeOK, CountInv, PathInv, ArcInv, Registered, DropInv, [Next]_vars
  PROVE  DropInv'
<1> USE DEF TypeOK, CallerPC, ActorPC, Open
\* Steps outside of UserGuard::drop().
<1>1. ASSUME UNCHANGED <<waits, keys, awaited, actors>>,
             dropping' = dropping \/ (dropping = "no" /\ dropping' \in {"keys", "over"}),
             dropping # "no" \/ dropping' # "no" =>
               \A a \in Actors : pc'[a] \in Open => pc[a] \in Open /\ path'[a] = path[a]
      PROVE  DropInv'
  <2>1. dropping = "no" => ~waits /\ ~waits' /\ awaited = None /\ awaited' = None
    BY <1>1 DEF DropInv
  <2>2. CASE dropping = "no" /\ dropping' = "keys"
    <3>1. \A a \in Actors : pc[a] \in Open => actors[path[a]] = a
      BY <2>2 DEF Registered, PathInv
    <3> QED
      BY <1>1, <2>1, <2>2, <3>1 DEF DropInv, DropWaits
  <2>3. CASE dropping = "no" /\ dropping' \in {"no", "over"}
    BY <1>1, <2>1, <2>3 DEF DropInv, DropWaits
  <2>4. CASE dropping # "no" /\ dropping' = dropping
    BY <1>1, <2>4 DEF DropInv, DropWaits
  <2> QED
    BY <1>1, <2>2, <2>3, <2>4
<1>2. ASSUME NEW c \in Callers, Call(c) \/ InsideCall(c) \/ DropSystem(c) PROVE DropInv'
  <2>1. CASE create_actor_path(c)
    <3>1. dropping = "no" /\ UNCHANGED <<dropping, waits, awaited>>
      BY <2>1 DEF create_actor_path, guardVars, ArcInv
    <3> QED
      BY <3>1 DEF DropInv, DropWaits
  <2>2. CASE Call(c) \/ get_actor(c) \/ GetOrCreate(c) \/ GetUnderGuard(c) \/ Queue(c)
    BY <1>1, <2>2 DEF Call, get_actor, GetOrCreate, GetUnderGuard, Queue, Goto, guardVars
  <2>3. CASE DropSystem(c)
    <3>1. dropping = "no"
      BY <2>3 DEF DropSystem, ArcInv
    <3> QED
      BY <1>1, <2>3, <3>1 DEF DropSystem, Release, Goto
  <2> QED
    BY <1>2, <2>1, <2>2, <2>3 DEF InsideCall
<1>3. ASSUME NEW a \in Actors, Close(a) \/ Hang(a) \/ Queue(a) \/ Upgrade(a) PROVE DropInv'
  BY <1>1, <1>3 DEF Close, Hang, Queue, Upgrade, Goto, guardVars
<1>4. ASSUME NEW a \in Actors, Remove(a) \/ ReleaseGuard(a) PROVE DropInv'
  <2>1. dropping = "no" /\ UNCHANGED <<waits, keys, awaited, path>>
    BY <1>4 DEF Remove, ReleaseGuard, Holders, ArcInv
  <2>2. CASE Remove(a) /\ ~poisoned
    <3>1. UNCHANGED dropping
      BY <2>2 DEF Remove
    <3> QED
      BY <2>1, <3>1 DEF DropInv, DropWaits
  <2>3. CASE Remove(a) /\ poisoned
    BY <1>1, <2>1, <2>3 DEF Remove, Goto
  <2>4. CASE ReleaseGuard(a)
    BY <1>1, <2>1, <2>4 DEF ReleaseGuard, Release, Goto
  <2> QED
    BY <1>4, <2>2, <2>3, <2>4
<1>5. ASSUME NEW t \in Threads, Keys(t) PROVE DropInv'
  <2>1. dropping = "keys" /\ ~waits /\ awaited = None /\ UNCHANGED <<actors, path, awaited>>
    BY <1>5 DEF Keys, DropInv
  <2>2. CASE dropping' = "over" /\ UNCHANGED waits
    BY <2>1, <2>2 DEF DropInv, DropWaits
  <2>3. CASE /\ dropping' = "stopping" /\ UNCHANGED pc
             /\ keys' = {p \in Paths : actors[p] # None}
    <3>1. ASSUME NEW a \in Actors, pc[a] \in Open
          PROVE  path[a] \in keys' /\ actors[path[a]] = a
      BY <2>1, <2>3, <3>1 DEF DropInv, PathInv
    <3> QED
      BY <2>1, <2>3, <3>1 DEF DropInv, DropWaits
  <2> QED
    BY <1>5, <2>2, <2>3 DEF Keys
<1>6. ASSUME NEW t \in Threads, StopActor(t) PROVE DropInv'
  <2>1. PICK p \in keys :
          /\ keys' = keys \ {p}
          /\ actors' = [actors EXCEPT ![p] = None]
          /\ awaited' = IF waits THEN actors[p] ELSE None
    BY <1>6 DEF StopActor
  <2>2. dropping = "stopping" /\ awaited = None /\ UNCHANGED <<path, pc, dropping, waits>>
    BY <1>6 DEF StopActor
  <2>3. ASSUME waits, NEW a \in Actors, pc[a] \in Open
        PROVE  awaited' = a \/ (path[a] \in keys' /\ actors'[path[a]] = a)
    <3>1. path[a] \in keys /\ actors[path[a]] = a
      BY <2>2, <2>3 DEF DropInv
    <3> QED
      BY <2>1, <2>3, <3>1
  <2> QED
    BY <2>2, <2>3 DEF DropInv, DropWaits
<1>7. ASSUME NEW t \in Threads, Stopped(t) PROVE DropInv'
  BY <1>7 DEF Stopped, DropInv, DropWaits
<1>8. ASSUME NEW t \in Threads, AllStopped(t) PROVE DropInv'
  <2>1. /\ dropping = "stopping" /\ keys = {} /\ awaited = None /\ dropping' = "over"
        /\ UNCHANGED <<waits, awaited>>
    BY <1>8 DEF AllStopped
  <2>2. waits => \A a \in Actors : pc[a] \notin Open
    BY <2>1 DEF DropInv
  <2>3. \A a \in Actors : pc'[a] \in Open => pc[a] \in Open
    BY <1>8 DEF AllStopped, Goto
  <2> QED
    BY <2>1, <2>2, <2>3 DEF DropInv, DropWaits
<1>9. CASE UNCHANGED vars
  BY <1>1, <1>9 DEF vars, guardVars
<1> QED
  BY <1>2, <1>3, <1>4, <1>5, <1>6, <1>7, <1>8, <1>9 DEF Next, Reports, GuardDrop

-----------------------------------------------------------------------------
LEMMA InitInv == Init => IInv
<1> SUFFICES ASSUME Init PROVE IInv
  OBVIOUS
<1> USE DEF Init
<1>1. TypeOK
  <2>1. /\ actors \in [Paths -> Actors \cup {None}]
        /\ path \in [Actors -> Paths \cup {None}]
        /\ target \in [Callers -> Paths \cup {None}]
    OBVIOUS
  <2>2. /\ DOMAIN pc = Threads
        /\ \A t \in Threads : pc[t] = IF t \in Callers THEN "idle" ELSE "unborn"
    OBVIOUS
  <2>3. \A c \in Callers : pc[c] = "idle"
    BY <2>2 DEF Threads
  <2>4. \A a \in Actors : pc[a] = "unborn"
    BY <2>2, SystemAssumption DEF Threads, Actors
  <2>5. \A t \in Threads : pc[t] # "drop"
    BY <2>2
  <2>6. made \in 0..MaxCalls
    BY SystemAssumption
  <2>7. /\ handles \subseteq Callers
        /\ queued \subseteq {t \in Threads : pc[t] \in {"create", "upgraded"}}
        /\ poisoned \in BOOLEAN /\ waits \in BOOLEAN
        /\ keys \subseteq Paths /\ awaited \in Actors \cup {None} /\ lost \in BOOLEAN
    OBVIOUS
  <2>8. dropping = "no"
    OBVIOUS
  <2> HIDE DEF Init
  <2>9. dropping \in {"keys", "stopping"} <=> \E t \in Threads : pc[t] = "drop"
    BY <2>5, <2>8
  <2> QED
    BY <2>1, <2>2, <2>3, <2>4, <2>6, <2>7, <2>8, <2>9 DEF TypeOK, CallerPC, ActorPC
<1>2. CountInv
  <2>1. Calling = {}
    BY DEF Calling
  <2>2. 0 \in 0..MaxCalls /\ \A a \in Actors : pc[a] = "unborn" <=> a > 0
    OBVIOUS
  <2>3. IsFiniteSet(Calling) /\ 0 + Cardinality(Calling) <= made
    BY <2>1, FS_EmptySet
  <2> QED
    BY <2>2, <2>3 DEF CountInv
<1>3. PathInv
  BY DEF PathInv, Calling
<1>4. ArcInv
  BY DEF ArcInv
<1>5. Registered
  BY DEF Registered
<1>6. DropInv
  BY DEF DropInv, DropWaits
<1> QED
  BY <1>1, <1>2, <1>3, <1>4, <1>5, <1>6 DEF IInv

LEMMA Invariance == Spec => []IInv
<1>1. IInv /\ [Next]_vars => IInv'
  BY TypeStep, CountStep, PathStep, ArcStep, RegisteredStep, DropStep DEF IInv
<1> QED
  BY <1>1, InitInv, PTL DEF Spec

\* Every reachable state is well typed: a call that creates finds a free number,
\* and UserGuard::drop() goes on exactly while a thread is in it.
THEOREM TypeCorrect == Spec => []TypeOK
<1>1. IInv => TypeOK
  BY DEF IInv
<1> QED
  BY <1>1, Invariance, PTL

\* The map is exact until it is dropped, whoever reports late and whoever takes
\* the name in the meantime.
THEOREM RegisteredCorrect == Spec => []Registered
<1>1. IInv => Registered
  BY DEF IInv
<1> QED
  BY <1>1, Invariance, PTL

\* A UserGuard::drop() that waits ends with every top-level actor closed, whichever
\* thread ran it and whatever was on its way out when it began.
THEOREM DropCorrect == Spec => []DropWaits
<1>1. IInv => DropWaits
  BY DEF IInv, DropInv
<1> QED
  BY <1>1, Invariance, PTL
=============================================================================
