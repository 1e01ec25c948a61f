-------------------------- MODULE DispatcherProofs --------------------------
(***************************************************************************)
(* Safety of one actor for every set of calls, children and task slots,    *)
(* every capacity and throughput; where each accepted message is; and      *)
(* Dispatcher implements SerialActor.                                      *)
(***************************************************************************)
EXTENDS Dispatcher, BufferLemmas, SequenceTheorems, TLAPS

USE MailboxAssumption, DispatcherAssumption, NoMessageAssumption
    DEF MailboxAssumption, DispatcherAssumption, NoMessageAssumption, tableVars,
        contextVars

-----------------------------------------------------------------------------
(* Type correctness.                                                       *)

\* A free slot picked by Spawn is one.
LEMMA SpawnIdle ==
  ASSUME Spawn
  PROVE  \E t \in Tasks : tpc[t] = "idle" /\ tpc' = [tpc EXCEPT ![t] = "spawned"]
BY DEF Spawn, Idle

LEMMA TypeInit == Init => TypeOK
<1> SUFFICES ASSUME Init PROVE TypeOK
  OBVIOUS
<1>1. MailboxTypeOK
  <2>1. internal_queue \in Seq(InternalMessage)
    BY DEF Init, MailboxInit, InternalMessage
  <2>2. tpc \in [Tasks -> TaskPC]
    BY DEF Init, MailboxInit, TaskPC, LoopPC
  <2>3. running \in BOOLEAN /\ terminated \in BOOLEAN
    BY Zenon DEF Init, MailboxInit
  <2>4. pc \in [Threads -> ThreadPC] /\ op \in [Calls -> Operations]
    BY DEF Init, MailboxInit, ThreadPC, Operations
  <2>5. message_queue \in Seq(Calls) /\ accepted \in Seq(Calls) /\ answered \subseteq Calls
    BY DEF Init, MailboxInit
  <2> QED
    BY <2>1, <2>2, <2>3, <2>4, <2>5, Zenon DEF MailboxTypeOK
<1>2. \A t \in Tasks : tpc[t] # "handle"
  BY DEF Init, MailboxInit
<1>3. count \in [Tasks -> 0..(IF Throughput = 0 THEN 0 ELSE Throughput - 1)]
  BY DEF Init
<1>4. suspended \in BOOLEAN /\ wedged \in BOOLEAN
  BY Zenon DEF Init
<1>5. msg \in [Tasks -> Calls \cup {NoMessage}] /\ \A t \in Tasks : msg[t] = NoMessage
  BY DEF Init
<1>6. stash \in Seq(Calls) /\ unstashed \in Seq(Calls)
  BY DEF Init
<1>7. /\ life \in {"fresh", "live", "gone"}
      /\ childrens \subseteq Children /\ told \subseteq Children
      /\ disowned \subseteq Children
      /\ watcher \subseteq Calls /\ handled \subseteq Calls
  BY DEF Init
<1> QED
  BY <1>1, <1>2, <1>3, <1>4, <1>5, <1>6, <1>7, Zenon DEF TypeOK

LEMMA TypeCall ==
  ASSUME TypeOK, NEW c \in Calls, CallStep(c), UNCHANGED dispatcherVars
  PROVE  TypeOK'
<1> USE DEF ThreadPC, Operations, Goto, Threads
<1>1. (\A t \in Tasks : tpc'[t] = "handle" <=> tpc[t] = "handle") /\ MailboxTypeOK'
  <2> USE DEF TypeOK, MailboxTypeOK
  <2>1. ASSUME NEW o \in {"tell", "graceful_stop"}, Send(c, o)
        PROVE  (\A t \in Tasks : tpc'[t] = "handle" <=> tpc[t] = "handle") /\ MailboxTypeOK'
    BY <2>1 DEF Send
  <2>2. ASSUME NEW o \in {"stop", "wait_stop"}, Stop(c, o)
        PROVE  (\A t \in Tasks : tpc'[t] = "handle" <=> tpc[t] = "handle") /\ MailboxTypeOK'
    BY <2>2 DEF Stop, SendInternal, Terminate, InternalMessage
  <2>3. CASE PushMessage(c)
    <3>1. CASE Full
      BY <2>3, <3>1 DEF PushMessage, AfterSend
    <3>2. CASE ~Full
      <4> message_queue' = Append(message_queue, c) /\ accepted' = Append(accepted, c)
        BY <2>3, <3>2 DEF PushMessage
      <4>0. accepted' \in Seq(Calls)
        OBVIOUS
      <4>1. message_queue' \in Seq(Calls)
        OBVIOUS
      <4>2. pc' \in [Threads -> ThreadPC]
        BY <2>3, <3>2 DEF PushMessage
      <4> QED
        BY <4>0, <4>1, <4>2, <2>3 DEF PushMessage
    <3> QED
      BY <3>1, <3>2
  <2>4. CASE CallSchedule(c)
    BY <2>4, SpawnIdle DEF CallSchedule, AfterSend, schedule, Spawn, TaskPC, LoopPC
  <2>5. CASE WatchCall(c)
    BY <2>5 DEF WatchCall
  <2>6. CASE PushWatch(c)
    BY <2>6 DEF PushWatch, SendInternal, Watch, InternalMessage
  <2>7. CASE WatchReturns(c)
    BY <2>7 DEF WatchReturns
  <2> QED
    BY <2>1, <2>2, <2>3, <2>4, <2>5, <2>6, <2>7 DEF CallStep
<1> QED
  BY <1>1 DEF TypeOK, dispatcherVars

LEMMA TypeChild ==
  ASSUME TypeOK, NEW k \in Children, ChildStep(k), UNCHANGED dispatcherVars
  PROVE  TypeOK'
<1> USE DEF ThreadPC, Goto, Threads
<1>1. (\A t \in Tasks : tpc'[t] = "handle" <=> tpc[t] = "handle") /\ MailboxTypeOK'
  <2> USE DEF TypeOK, MailboxTypeOK
  <2>1. CASE ChildStops(k)
    BY <2>1 DEF ChildStops, SendInternal, ChildTerminate, InternalMessage
  <2>2. CASE CallSchedule(k)
    BY <2>2, SpawnIdle DEF CallSchedule, schedule, Spawn, TaskPC, LoopPC
  <2> QED
    BY <2>1, <2>2 DEF ChildStep
<1> QED
  BY <1>1 DEF TypeOK, dispatcherVars

LEMMA TypeTail ==
  ASSUME TypeOK, NEW t \in Tasks, TailStep(t)
  PROVE  TypeOK'
<1>1. /\ \A u \in Tasks : tpc'[u] = "handle" <=> tpc[u] = "handle"
      /\ MailboxTypeOK'
  <2> USE DEF TypeOK, MailboxTypeOK, TaskPC, LoopPC, TailPC, Step
  <2>1. CASE StoreNotRunning(t)
    BY <2>1 DEF StoreNotRunning
  <2>2. CASE TailUser(t)
    BY <2>2 DEF TailUser
  <2>3. CASE TailTerminated(t)
    BY <2>3 DEF TailTerminated
  <2>4. CASE TailInternal(t)
    BY <2>4 DEF TailInternal
  <2>5. CASE TailSchedule(t)
    BY <2>5 DEF TailSchedule
  <2> QED
    BY <2>1, <2>2, <2>3, <2>4, <2>5 DEF TailStep, ReceiveTail
<1> QED
  BY <1>1 DEF TypeOK, TailStep, dispatcherVars

\* What a step inside the loop does to the program counters of the tasks.
LEMMA LoopMoves ==
  ASSUME TypeOK, NEW t \in Tasks, NEW from, NEW to \in TaskPC, Step(t, from, to)
  PROVE  /\ tpc[t] = from
         /\ tpc' \in [Tasks -> TaskPC]
         /\ tpc'[t] = to
         /\ \A u \in Tasks \ {t} : tpc'[u] = tpc[u]
BY DEF Step, TypeOK, MailboxTypeOK

\* get_or_create_child() only starts children that were not started before, and
\* the table and the calls keep their types.
LEMMA CreateType ==
  ASSUME TypeOK, NEW k \in Unborn, get_or_create_child(k)
  PROVE  /\ k \in Children /\ pc[k] = "start" /\ pc'[k] = "live"
         /\ \A d \in Threads \ {k} : pc'[d] = pc[d]
         /\ pc' \in [Threads -> ThreadPC] /\ childrens' \subseteq Children
<1>1. k \in Children /\ k \in Threads /\ pc[k] = "start"
  BY DEF Unborn, Threads
<1>2. pc \in [Threads -> ThreadPC] /\ pc' = [pc EXCEPT ![k] = "live"]
  BY DEF TypeOK, MailboxTypeOK, get_or_create_child
<1>3. "live" \in ThreadPC
  BY DEF ThreadPC
<1>4. childrens' \subseteq Children
  BY <1>1 DEF get_or_create_child, TypeOK
<1> QED
  BY <1>1, <1>2, <1>3, <1>4

\* A creation is about one child and leaves the rest of the actor alone.
LEMMA CreateStep ==
  ASSUME TypeOK, NEW t \in Tasks, CreateChild(t)
  PROVE  /\ \E k \in Children :
              /\ pc[k] = "start" /\ pc'[k] = "live"
              /\ \A d \in Threads \ {k} : pc'[d] = pc[d]
              /\ childrens' = (childrens \ Namesakes(k)) \cup {k}
              /\ disowned' = disowned \cup Namesakes(k)
                                      \cup (IF tpc[t] = "exit" THEN {k} ELSE {})
         /\ \A c \in Calls : pc'[c] = pc[c]
         /\ pc' \in [Threads -> ThreadPC]
         /\ childrens' \subseteq Children /\ disowned' \subseteq Children
         /\ UNCHANGED <<message_queue, internal_queue, running, terminated, op, answered,
                        tpc, accepted, life, suspended, told, watcher, stash, unstashed,
                        msg, count, wedged, handled>>
<1>1. PICK k \in Unborn :
        /\ get_or_create_child(k)
        /\ disowned' = disowned \cup Namesakes(k)
                                \cup (IF tpc[t] = "exit" THEN {k} ELSE {})
  BY DEF CreateChild
<1>2. /\ k \in Children /\ pc[k] = "start" /\ pc'[k] = "live"
      /\ \A d \in Threads \ {k} : pc'[d] = pc[d]
      /\ pc' \in [Threads -> ThreadPC] /\ childrens' \subseteq Children
  BY <1>1, CreateType
<1>3. disowned' \subseteq Children
  BY <1>1, <1>2 DEF Namesakes, TypeOK
<1>4. \A c \in Calls : c \in Threads \ {k}
  BY <1>2 DEF Threads
<1>5. childrens' = (childrens \ Namesakes(k)) \cup {k}
  BY <1>1 DEF get_or_create_child
<1> QED
  BY <1>1, <1>2, <1>3, <1>4, <1>5 DEF CreateChild

LEMMA TypeCreate ==
  ASSUME TypeOK, NEW t \in Tasks, CreateChild(t)
  PROVE  TypeOK'
<1>1. /\ pc' \in [Threads -> ThreadPC]
      /\ childrens' \subseteq Children /\ disowned' \subseteq Children
      /\ UNCHANGED <<message_queue, internal_queue, running, terminated, op, answered,
                     tpc, accepted, life, suspended, told, watcher, stash, unstashed,
                     msg, count, wedged, handled>>
  BY CreateStep
<1> QED
  BY <1>1 DEF TypeOK, MailboxTypeOK

LEMMA TypeBegin ==
  ASSUME TypeOK, NEW t \in Tasks, Begin(t)
  PROVE  TypeOK'
<1>1. life' \in {"fresh", "live", "gone"}
  BY DEF Begin, TypeOK
<1>2. PICK to \in {"drain", "internal"} : InLoop(t, "spawned", to)
  BY DEF Begin
<1>3. /\ tpc' \in [Tasks -> TaskPC]
      /\ \A u \in Tasks : tpc'[u] = "handle" <=> tpc[u] = "handle"
  BY <1>2, LoopMoves DEF InLoop, TaskPC, LoopPC
<1> QED
  BY <1>1, <1>2, <1>3 DEF Begin, InLoop, TypeOK, MailboxTypeOK

LEMMA TypeDrain ==
  ASSUME TypeOK, NEW t \in Tasks, Drain(t)
  PROVE  TypeOK'
<1>1. PICK to \in {"drain", "store"} : InLoop(t, "drain", to)
  BY DEF Drain
<1>2. /\ tpc' \in [Tasks -> TaskPC]
      /\ \A u \in Tasks : tpc'[u] = "handle" <=> tpc[u] = "handle"
  BY <1>1, LoopMoves DEF InLoop, TaskPC, LoopPC
<1>3. internal_queue' \in Seq(InternalMessage) /\ answered' \subseteq Calls
  <2>1. CASE internal_queue = <<>>
    BY <2>1 DEF Drain, TypeOK, MailboxTypeOK
  <2>2. CASE internal_queue # <<>>
    <3>1. internal_queue' = Tail(internal_queue) /\ Head(internal_queue) \in InternalMessage
      BY <2>2 DEF Drain, TypeOK, MailboxTypeOK
    <3>2. Head(internal_queue).kind = "Watch" => Head(internal_queue).reply_to \in Calls
      BY <3>1 DEF InternalMessage, Created, Terminate, Watch, ChildTerminate
    <3> QED
      BY <2>2, <3>1, <3>2 DEF Drain, TypeOK, MailboxTypeOK
  <2> QED
    BY <2>1, <2>2
<1> QED
  BY <1>1, <1>2, <1>3 DEF Drain, InLoop, TypeOK, MailboxTypeOK, dispatcherVars

\* The message at the head of the internal queue.
LEMMA HeadInternal ==
  ASSUME TypeOK, internal_queue # <<>>
  PROVE  LET m == Head(internal_queue) IN
         /\ m \in InternalMessage
         /\ m.kind = "Watch" => m.reply_to \in Calls /\ m = Watch(m.reply_to)
         /\ m.kind = "ChildTerminate" => m.path \in Children /\ m = ChildTerminate(m.path)
         /\ Tail(internal_queue) \in Seq(InternalMessage)
<1>1. Head(internal_queue) \in InternalMessage /\ Tail(internal_queue) \in Seq(InternalMessage)
  BY DEF TypeOK, MailboxTypeOK
<1> QED
  BY <1>1 DEF InternalMessage, Created, Terminate, Watch, ChildTerminate

\* Each internal message is one of four, and moves the task on inside the loop.
LEMMA InternalCases ==
  ASSUME TypeOK, NEW t \in Tasks, ProcessInternal(t)
  PROVE  /\ \/ OnCreated(t)
            \/ \E c \in Calls : Head(internal_queue) = Watch(c) /\ OnWatch(t, c)
            \/ OnTerminate(t)
            \/ \E k \in Children :
                 Head(internal_queue) = ChildTerminate(k) /\ OnChildTerminate(t, k)
         /\ \E to \in {"internal", "exit"} : InLoop(t, "internal", to)
         /\ internal_queue # <<>> /\ internal_queue' = Tail(internal_queue)
         /\ life # "gone"
         /\ UNCHANGED <<pc, life, stash, unstashed, msg, count, wedged, handled>>
<1> DEFINE m == Head(internal_queue)
<1>1. /\ m.kind = "Watch" => m.reply_to \in Calls /\ m = Watch(m.reply_to)
      /\ m.kind = "ChildTerminate" => m.path \in Children /\ m = ChildTerminate(m.path)
  BY HeadInternal DEF ProcessInternal
<1> HIDE DEF m
<1>2. \/ OnCreated(t)
      \/ m.kind = "Watch" /\ OnWatch(t, m.reply_to)
      \/ OnTerminate(t)
      \/ m.kind = "ChildTerminate" /\ OnChildTerminate(t, m.path)
  BY DEF ProcessInternal, m
<1>3. \E to \in {"internal", "exit"} : InLoop(t, "internal", to)
  BY <1>2 DEF OnCreated, OnWatch, OnTerminate, OnChildTerminate
<1>4. \/ OnCreated(t)
      \/ \E c \in Calls : m = Watch(c) /\ OnWatch(t, c)
      \/ OnTerminate(t)
      \/ \E k \in Children : m = ChildTerminate(k) /\ OnChildTerminate(t, k)
  BY <1>1, <1>2
<1> QED
  BY <1>3, <1>4 DEF ProcessInternal, m

LEMMA TypeInternal ==
  ASSUME TypeOK, NEW t \in Tasks, ProcessInternal(t)
  PROVE  TypeOK'
<1>1. PICK to \in {"internal", "exit"} : InLoop(t, "internal", to)
  BY InternalCases
<1>2. /\ tpc' \in [Tasks -> TaskPC]
      /\ \A u \in Tasks : tpc'[u] = "handle" <=> tpc[u] = "handle"
  BY <1>1, LoopMoves DEF InLoop, TaskPC, LoopPC
<1>3. internal_queue' \in Seq(InternalMessage)
  BY HeadInternal DEF ProcessInternal
<1>4. /\ answered' \subseteq Calls /\ watcher' \subseteq Calls
      /\ childrens' \subseteq Children /\ told' \subseteq Children
      /\ disowned' \subseteq Children
      /\ terminated' \in BOOLEAN /\ suspended' \in BOOLEAN
  <2> USE DEF TypeOK, MailboxTypeOK
  <2>1. CASE OnCreated(t)
    BY <2>1 DEF OnCreated
  <2>2. ASSUME NEW c \in Calls, OnWatch(t, c)
        PROVE  /\ answered' \subseteq Calls /\ watcher' \subseteq Calls
               /\ childrens' \subseteq Children /\ told' \subseteq Children
               /\ disowned' \subseteq Children
               /\ terminated' \in BOOLEAN /\ suspended' \in BOOLEAN
    BY <2>2 DEF OnWatch
  <2>3. CASE OnTerminate(t)
    <3>1. terminated' \in BOOLEAN /\ suspended' \in BOOLEAN
      BY <2>3, Zenon DEF OnTerminate
    <3> QED
      BY <2>3, <3>1 DEF OnTerminate
  <2>4. ASSUME NEW k \in Children, OnChildTerminate(t, k)
        PROVE  /\ answered' \subseteq Calls /\ watcher' \subseteq Calls
               /\ childrens' \subseteq Children /\ told' \subseteq Children
               /\ disowned' \subseteq Children
               /\ terminated' \in BOOLEAN /\ suspended' \in BOOLEAN
    <3>1. terminated' \in BOOLEAN /\ suspended' \in BOOLEAN
      BY <2>4, Zenon DEF OnChildTerminate
    <3>2. childrens' \subseteq Children /\ disowned' \subseteq Children
      BY <2>4 DEF OnChildTerminate, Namesakes
    <3> QED
      BY <2>4, <3>1, <3>2 DEF OnChildTerminate
  <2> QED
    BY <2>1, <2>2, <2>3, <2>4, InternalCases
<1> QED
  BY <1>1, <1>2, <1>3, <1>4 DEF ProcessInternal, InLoop, TypeOK, MailboxTypeOK

LEMMA TypeTerminate ==
  ASSUME TypeOK, NEW t \in Tasks, terminate(t)
  PROVE  TypeOK'
<1>1. /\ tpc' \in [Tasks -> TaskPC]
      /\ \A u \in Tasks : tpc'[u] = "handle" <=> tpc[u] = "handle"
  BY LoopMoves DEF terminate, InLoop, TaskPC, LoopPC
<1>2. answered' \subseteq Calls /\ stash' \in Seq(Calls) /\ unstashed' \in Seq(Calls)
  BY DEF terminate, TypeOK, MailboxTypeOK
<1> QED
  BY <1>1, <1>2 DEF terminate, InLoop, TypeOK, MailboxTypeOK

LEMMA TypeInternalDone ==
  ASSUME TypeOK, NEW t \in Tasks, InternalDone(t) \/ FetchNothing(t)
  PROVE  TypeOK'
<1>1. PICK from \in {"internal", "fetch"}, to \in {"store", "fetch"} : InLoop(t, from, to)
  BY DEF InternalDone, FetchNothing
<1>2. /\ tpc' \in [Tasks -> TaskPC]
      /\ \A u \in Tasks : tpc'[u] = "handle" <=> tpc[u] = "handle"
  BY <1>1, LoopMoves DEF InLoop, TaskPC, LoopPC
<1>3. count' \in [Tasks -> 0..(IF Throughput = 0 THEN 0 ELSE Throughput - 1)]
  <2>1. UNCHANGED count \/ count' = [count EXCEPT ![t] = 0]
    BY DEF InternalDone, FetchNothing, EndTurn
  <2>2. 0 \in 0..(IF Throughput = 0 THEN 0 ELSE Throughput - 1)
    OBVIOUS
  <2>3. count \in [Tasks -> 0..(IF Throughput = 0 THEN 0 ELSE Throughput - 1)]
    BY DEF TypeOK
  <2> QED
    BY <2>1, <2>2, <2>3
<1> QED
  BY <1>1, <1>2, <1>3 DEF InternalDone, FetchNothing, InLoop, TypeOK, MailboxTypeOK

LEMMA TypeFetch ==
  ASSUME TypeOK, NEW t \in Tasks, FetchUnstashed(t) \/ FetchQueued(t)
  PROVE  TypeOK'
<1>1. Step(t, "fetch", "handle")
  BY DEF FetchUnstashed, FetchQueued
<1>2. /\ tpc' \in [Tasks -> TaskPC] /\ tpc'[t] = "handle"
      /\ \A u \in Tasks \ {t} : tpc'[u] = tpc[u]
  BY <1>1, LoopMoves DEF TaskPC, LoopPC
<1>3. PICK c \in Calls : Take(t, c)
  <2>1. CASE FetchUnstashed(t)
    BY <2>1 DEF FetchUnstashed, TypeOK
  <2>2. CASE FetchQueued(t)
    BY <2>2 DEF FetchQueued, TypeOK, MailboxTypeOK
  <2> QED
    BY <2>1, <2>2
<1>4. /\ message_queue' \in Seq(Calls)
      /\ unstashed' \in Seq(Calls)
  <2>1. CASE FetchUnstashed(t)
    BY <2>1 DEF FetchUnstashed, TypeOK, MailboxTypeOK
  <2>2. CASE FetchQueued(t)
    BY <2>2 DEF FetchQueued, TypeOK, MailboxTypeOK
  <2> QED
    BY <2>1, <2>2
<1>5. /\ msg' \in [Tasks -> Calls \cup {NoMessage}] /\ msg'[t] # NoMessage
      /\ \A u \in Tasks \ {t} : msg'[u] = msg[u]
  BY <1>3 DEF Take, TypeOK
<1> QED
  BY <1>2, <1>3, <1>4, <1>5 DEF Take, TypeOK, MailboxTypeOK

LEMMA TypeHandle ==
  ASSUME TypeOK, NEW t \in Tasks, Handle(t)
  PROVE  TypeOK'
<1> DEFINE c == msg[t]
<1>1. PICK to \in {"store", "internal"} : InLoop(t, "handle", to)
  BY DEF Handle
<1>2. /\ tpc' \in [Tasks -> TaskPC] /\ tpc'[t] # "handle" /\ tpc[t] = "handle"
      /\ \A u \in Tasks \ {t} : tpc'[u] = tpc[u]
  BY <1>1, LoopMoves DEF InLoop, TaskPC, LoopPC
<1>3. c \in Calls
  BY <1>2 DEF TypeOK
<1> HIDE DEF c
<1>4. count' \in [Tasks -> 0..(IF Throughput = 0 THEN 0 ELSE Throughput - 1)]
  BY DEF Handle, EndTurn, Yields, TypeOK
<1>5. /\ internal_queue' \in Seq(InternalMessage)
      /\ stash' \in Seq(Calls) /\ unstashed' \in Seq(Calls)
      /\ handled' \subseteq Calls
  <2> USE DEF TypeOK, MailboxTypeOK, Finish
  <2>1. CASE Consume(c)
    BY <1>3, <2>1 DEF Consume
  <2>2. CASE StopSelf(c)
    BY <1>3, <2>2 DEF StopSelf, SendInternal, InternalMessage
  <2>4. CASE Stash(c)
    BY <1>3, <2>4 DEF Stash
  <2>5. CASE UnstashAll(c)
    <3>1. unstashed \o stash \in Seq(Calls)
      OBVIOUS
    <3> QED
      BY <1>3, <2>5, <3>1 DEF UnstashAll
  <2> QED
    BY <2>1, <2>2, <2>4, <2>5 DEF Handle, c
<1>6. /\ msg' \in [Tasks -> Calls \cup {NoMessage}] /\ msg'[t] = NoMessage
      /\ \A u \in Tasks \ {t} : msg'[u] = msg[u]
  BY DEF Handle, TypeOK
<1> QED
  BY <1>1, <1>2, <1>4, <1>5, <1>6 DEF Handle, InLoop, TypeOK, MailboxTypeOK

LEMMA TypeUnwind ==
  ASSUME TypeOK, NEW t \in Tasks, Unwind(t)
  PROVE  TypeOK'
<1>1. /\ tpc' \in [Tasks -> TaskPC] /\ tpc'[t] = "idle"
      /\ \A u \in Tasks \ {t} : tpc'[u] = tpc[u]
  BY DEF Unwind, TypeOK, MailboxTypeOK, TaskPC
<1>2. /\ msg' \in [Tasks -> Calls \cup {NoMessage}] /\ msg'[t] = NoMessage
      /\ \A u \in Tasks \ {t} : msg'[u] = msg[u]
  BY DEF Unwind, TypeOK
<1>3. count' \in [Tasks -> 0..(IF Throughput = 0 THEN 0 ELSE Throughput - 1)]
  BY DEF Unwind, EndTurn, TypeOK
<1>5. handled' \subseteq Calls
  BY DEF Unwind, TypeOK
<1>6. wedged' \in BOOLEAN /\ life' \in {"fresh", "live", "gone"}
  BY DEF Unwind, TypeOK, MailboxTypeOK
<1> QED
  BY <1>1, <1>2, <1>3, <1>5, <1>6 DEF Unwind, TypeOK, MailboxTypeOK

LEMMA TypeStep ==
  ASSUME TypeOK, [Next]_vars
  PROVE  TypeOK'
<1>1. CASE CallsStep
  BY <1>1, TypeCall DEF CallsStep
<1>2. CASE ChildrenStep
  BY <1>2, TypeChild DEF ChildrenStep
<1>3. ASSUME NEW t \in Tasks, LoopStep(t) PROVE TypeOK'
  BY <1>3, TypeBegin, TypeDrain, TypeInternal, TypeTerminate, TypeInternalDone,
     TypeFetch, TypeHandle DEF LoopStep
<1>4. ASSUME NEW t \in Tasks, TailStep(t) PROVE TypeOK'
  BY <1>4, TypeTail
<1>5. ASSUME NEW t \in Tasks, Unwind(t) PROVE TypeOK'
  BY <1>5, TypeUnwind
<1>6. CASE UNCHANGED vars
  BY <1>6 DEF vars, mailboxVars, dispatcherVars, TypeOK, MailboxTypeOK
<1>7. ASSUME NEW t \in Tasks, CreateChild(t) PROVE TypeOK'
  BY <1>7, TypeCreate
<1> QED
  BY <1>1, <1>2, <1>3, <1>4, <1>5, <1>6, <1>7 DEF Next

\* Every reachable state is well typed, and no turn of actor_loop() exceeds
\* throughput().
THEOREM TypeCorrect == Spec => []TypeOK
<1>1. Init => TypeOK
  BY TypeInit
<1>2. TypeOK /\ [Next]_vars => TypeOK'
  BY TypeStep
<1> QED
  BY <1>1, <1>2, PTL DEF Spec

-----------------------------------------------------------------------------
(* One task at a time.  MutualExclusion is inductive: schedule() spawns     *)
(* only when nobody owns the actor, and only the owner clears the flag.     *)

\* A call of schedule() keeps or takes the flag.
LEMMA ScheduleExclusive ==
  ASSUME TypeOK, MutualExclusion, schedule, UNCHANGED wedged
  PROVE  MutualExclusion'
<1>1. CASE running /\ UNCHANGED <<running, tpc>>
  BY <1>1 DEF MutualExclusion, Owns
<1>2. CASE ~running /\ Spawn
  <2>1. PICK t \in Tasks : tpc' = [tpc EXCEPT ![t] = "spawned"]
    BY <1>2, SpawnIdle
  <2>2. ~wedged /\ \A u \in Tasks : ~Owns(u)
    BY <1>2 DEF MutualExclusion
  <2>3. Owns(t)' /\ \A u \in Tasks \ {t} : ~Owns(u)'
    BY <2>1, <2>2 DEF Owns, LoopPC, TypeOK, MailboxTypeOK
  <2>4. running'
    BY <1>2 DEF Spawn
  <2> QED
    BY <2>2, <2>3, <2>4 DEF MutualExclusion
<1> QED
  BY <1>1, <1>2 DEF schedule

\* A step inside the loop is a step of the owner, who stays the owner.
LEMMA LoopOwner ==
  ASSUME TypeOK, NEW t \in Tasks, LoopStep(t)
  PROVE  /\ Owns(t) /\ Owns(t)'
         /\ \A u \in Tasks \ {t} : tpc'[u] = tpc[u]
         /\ UNCHANGED <<running, wedged, op, accepted>>
<1>1. PICK from \in LoopPC, to \in LoopPC :
        Step(t, from, to) /\ UNCHANGED <<running, wedged, op, accepted>>
  <2> USE DEF InLoop, LoopPC
  <2>1. CASE Begin(t) \/ Drain(t)
    BY <2>1 DEF Begin, Drain, dispatcherVars
  <2>2. CASE ProcessInternal(t)
    BY <2>2, InternalCases
  <2>6. CASE InternalDone(t) \/ FetchNothing(t)
    BY <2>6 DEF InternalDone, FetchNothing
  <2>3. CASE FetchUnstashed(t) \/ FetchQueued(t)
    BY <2>3 DEF FetchUnstashed, FetchQueued, Take
  <2>4. CASE Handle(t)
    BY <2>4 DEF Handle
  <2>5. CASE terminate(t)
    BY <2>5 DEF terminate
  <2> QED
    BY <2>1, <2>2, <2>3, <2>4, <2>5, <2>6 DEF LoopStep
<1>2. to \in TaskPC
  BY DEF TaskPC
<1> QED
  BY <1>1, <1>2, LoopMoves DEF Owns

LEMMA ExclusionStep ==
  ASSUME TypeOK, MutualExclusion, [Next]_vars
  PROVE  MutualExclusion'
<1>1. ASSUME UNCHANGED <<running, tpc, wedged>> PROVE MutualExclusion'
  BY <1>1 DEF MutualExclusion, Owns
<1>2. CASE CallsStep
  <2>1. PICK c \in Calls : CallStep(c) /\ UNCHANGED dispatcherVars
    BY <1>2 DEF CallsStep
  <2>2. CASE CallSchedule(c)
    BY <2>1, <2>2, ScheduleExclusive DEF CallSchedule, dispatcherVars
  <2>3. CASE ~CallSchedule(c)
    BY <2>1, <2>3, <1>1 DEF CallStep, Send, Stop, PushMessage, WatchCall,
       PushWatch, WatchReturns, dispatcherVars
  <2> QED
    BY <2>2, <2>3
<1>3. CASE ChildrenStep
  BY <1>1, <1>3, ScheduleExclusive
     DEF ChildrenStep, ChildStep, CallSchedule, ChildStops, dispatcherVars
<1>4. ASSUME NEW t \in Tasks, LoopStep(t) PROVE MutualExclusion'
  BY <1>4, LoopOwner DEF MutualExclusion, Owns
<1>5. ASSUME NEW t \in Tasks, TailStep(t) PROVE MutualExclusion'
  <2> USE DEF Step, TypeOK, MailboxTypeOK
  <2>1. UNCHANGED wedged
    BY <1>5 DEF TailStep, dispatcherVars
  <2>2. CASE StoreNotRunning(t)
    <3>1. \A u \in Tasks : ~Owns(u)'
      BY <2>2 DEF StoreNotRunning, MutualExclusion, Owns, LoopPC
    <3>2. ~wedged /\ ~running'
      BY <2>2 DEF StoreNotRunning, MutualExclusion, Owns, LoopPC
    <3> QED
      BY <2>1, <3>1, <3>2 DEF MutualExclusion
  <2>3. CASE TailUser(t) \/ TailTerminated(t) \/ TailInternal(t)
    <3>1. \A u \in Tasks : Owns(u)' <=> Owns(u)
      BY <2>3 DEF TailUser, TailTerminated, TailInternal, Owns, LoopPC
    <3>2. UNCHANGED running
      BY <2>3 DEF TailUser, TailTerminated, TailInternal
    <3> QED
      BY <2>1, <3>1, <3>2 DEF MutualExclusion
  <2>4. CASE TailSchedule(t)
    <3>1. CASE running
      <4>1. \A u \in Tasks : Owns(u)' <=> Owns(u)
        BY <2>4, <3>1 DEF TailSchedule, Owns, LoopPC
      <4> QED
        BY <2>1, <2>4, <3>1, <4>1 DEF MutualExclusion, TailSchedule
    <3>2. CASE ~running
      <4>1. ~wedged /\ \A u \in Tasks : ~Owns(u)
        BY <3>2 DEF MutualExclusion
      <4>2. Owns(t)' /\ \A u \in Tasks \ {t} : ~Owns(u)'
        BY <2>4, <3>2, <4>1 DEF TailSchedule, Owns, LoopPC
      <4> QED
        BY <2>1, <2>4, <4>1, <4>2 DEF MutualExclusion, TailSchedule
    <3> QED
      BY <3>1, <3>2
  <2> QED
    BY <1>5, <2>2, <2>3, <2>4 DEF TailStep, ReceiveTail
<1>6. ASSUME NEW t \in Tasks, Unwind(t) PROVE MutualExclusion'
  <2>1. Owns(t) /\ ~Owns(t)' /\ \A u \in Tasks \ {t} : Owns(u)' <=> Owns(u)
    BY <1>6 DEF Unwind, Owns, LoopPC, TypeOK, MailboxTypeOK
  <2>2. wedged' /\ UNCHANGED running
    BY <1>6 DEF Unwind
  <2> QED
    BY <2>1, <2>2 DEF MutualExclusion
<1>7. CASE UNCHANGED vars
  BY <1>1, <1>7 DEF vars, mailboxVars, dispatcherVars
<1>8. ASSUME NEW t \in Tasks, CreateChild(t) PROVE MutualExclusion'
  BY <1>1, <1>8 DEF CreateChild
<1> QED
  BY <1>2, <1>3, <1>4, <1>5, <1>6, <1>7, <1>8 DEF Next

\* The dispatcher's UnsafeCell is never entered by two tasks, whatever the
\* number of callers and however receive() tasks and schedule() interleave.
THEOREM ExclusionCorrect == Spec => []MutualExclusion
<1>1. Init => MutualExclusion
  <2> SUFFICES ASSUME Init PROVE MutualExclusion
    OBVIOUS
  <2>1. PICK first \in Tasks :
          tpc = [t \in Tasks |-> IF t = first THEN "spawned" ELSE "idle"]
    BY DEF Init, MailboxInit
  <2>2. \A t \in Tasks : Owns(t) <=> t = first
    BY <2>1 DEF Owns, LoopPC
  <2>3. running /\ ~wedged
    BY DEF Init, MailboxInit
  <2> QED
    BY <2>2, <2>3 DEF MutualExclusion
<1>2. TypeOK /\ MutualExclusion /\ [Next]_vars => MutualExclusion'
  BY ExclusionStep
<1> QED
  BY <1>1, <1>2, TypeCorrect, PTL DEF Spec

-----------------------------------------------------------------------------
(* No lost wakeup.  NoLostWakeup is inductive: a push is followed by        *)
(* schedule(), which leaves running set whoever wins, and a task that       *)
(* clears running looks at both queues afterwards.                          *)

LEMMA WakeupStep ==
  ASSUME TypeOK, MutualExclusion, NoLostWakeup, [Next]_vars
  PROVE  NoLostWakeup'
<1> USE DEF Scheduling, TailPC
<1>0. MutualExclusion'
  BY ExclusionStep
<1>1. ASSUME running' PROVE NoLostWakeup'
  <2>1. wedged' \/ Working'
    BY <1>0, <1>1 DEF MutualExclusion, Working
  <2> QED
    BY <2>1 DEF NoLostWakeup
<1>2. ASSUME NEW c \in Threads, pc'[c] \in {"sched", "sched_watch"} PROVE NoLostWakeup'
  BY <1>2 DEF NoLostWakeup
<1>3. ASSUME UNCHANGED <<message_queue, internal_queue, terminated, tpc, wedged>>,
             NEW c \in Threads, pc[c] \notin {"sched", "sched_watch"},
             \A d \in Threads \ {c} : pc'[d] = pc[d]
      PROVE  NoLostWakeup'
  BY <1>3 DEF NoLostWakeup, Working, Owns
<1>4. ASSUME schedule PROVE running'
  BY <1>4 DEF schedule, Spawn
<1>5. CASE CallsStep
  <2>1. PICK c \in Calls : CallStep(c) /\ UNCHANGED wedged
    BY <1>5 DEF CallsStep, dispatcherVars
  <2> USE DEF Threads, Goto, TypeOK, MailboxTypeOK
  <2>2. CASE CallSchedule(c)
    BY <2>2, <1>1, <1>4 DEF CallSchedule
  <2>3. ASSUME NEW o \in Operations, Send(c, o) PROVE NoLostWakeup'
    BY <2>1, <2>3, <1>3 DEF Send
  <2>4. ASSUME NEW o \in Operations, Stop(c, o) PROVE NoLostWakeup'
    BY <2>4, <1>2 DEF Stop
  <2>5. CASE PushMessage(c) /\ Full
    <3>1. pc[c] = "push" /\ pc' = [pc EXCEPT ![c] = AfterSend(c)]
      BY <2>5 DEF PushMessage
    <3>2. UNCHANGED <<message_queue, internal_queue, terminated, tpc, wedged>>
      BY <2>1, <2>5 DEF PushMessage
    <3>3. pc[c] \notin {"sched", "sched_watch"} /\ \A d \in Threads \ {c} : pc'[d] = pc[d]
      BY <3>1
    <3> QED
      BY <1>3, <3>2, <3>3
  <2>6. CASE PushMessage(c) /\ ~Full
    BY <2>6, <1>2 DEF PushMessage
  <2>7. CASE WatchCall(c) \/ WatchReturns(c)
    BY <2>1, <2>7, <1>3 DEF WatchCall, WatchReturns
  <2>8. CASE PushWatch(c)
    BY <2>8, <1>2 DEF PushWatch
  <2> QED
    BY <2>1, <2>2, <2>3, <2>4, <2>5, <2>6, <2>7, <2>8 DEF CallStep, Operations
<1>6. CASE ChildrenStep
  <2>1. PICK k \in Children : ChildStep(k)
    BY <1>6 DEF ChildrenStep
  <2>2. CASE CallSchedule(k)
    BY <2>2, <1>1, <1>4 DEF CallSchedule
  <2>3. CASE ChildStops(k)
    BY <2>3, <1>2 DEF ChildStops, Goto, Threads, TypeOK, MailboxTypeOK
  <2> QED
    BY <2>1, <2>2, <2>3 DEF ChildStep
<1>7. ASSUME NEW t \in Tasks, LoopStep(t) PROVE NoLostWakeup'
  BY <1>7, <1>1, LoopOwner DEF MutualExclusion
<1>8. ASSUME NEW t \in Tasks, TailStep(t) PROVE NoLostWakeup'
  <2> USE DEF Step, TypeOK, MailboxTypeOK
  <2>0. UNCHANGED wedged
    BY <1>8 DEF TailStep, dispatcherVars
  <2>1. CASE StoreNotRunning(t)
    BY <2>0, <2>1 DEF StoreNotRunning, NoLostWakeup
  \* The other steps of the tail change neither queue nor who owns the actor.
  <2>2. ASSUME NEW l \in TailPC, tpc[t] = l, NEW n \in TailPC \cup {"idle"},
               tpc' = [tpc EXCEPT ![t] = n]
        PROVE  Working => Working'
    BY <2>2 DEF Working, Owns, LoopPC
  <2>3. CASE TailUser(t)
    BY <2>0, <2>2, <2>3 DEF TailUser, NoLostWakeup
  <2>4. CASE TailTerminated(t)
    BY <2>0, <2>2, <2>4 DEF TailTerminated, NoLostWakeup
  <2>5. CASE TailInternal(t)
    BY <2>0, <2>2, <2>5 DEF TailInternal, NoLostWakeup
  <2>6. CASE TailSchedule(t)
    BY <2>6, <1>1 DEF TailSchedule
  <2> QED
    BY <1>8, <2>1, <2>3, <2>4, <2>5, <2>6 DEF TailStep, ReceiveTail
<1>9. ASSUME NEW t \in Tasks, Unwind(t) PROVE NoLostWakeup'
  BY <1>9 DEF Unwind, NoLostWakeup
<1>10. CASE UNCHANGED vars
  BY <1>10 DEF vars, mailboxVars, dispatcherVars, NoLostWakeup, Working, Owns
<1>11. ASSUME NEW t \in Tasks, CreateChild(t) PROVE NoLostWakeup'
  <2>1. PICK k \in Children :
          pc[k] = "start" /\ \A d \in Threads \ {k} : pc'[d] = pc[d]
    BY <1>11, CreateStep
  <2>2. UNCHANGED <<message_queue, internal_queue, terminated, tpc, wedged>>
    BY <1>11, CreateStep
  <2> QED
    BY <1>3, <2>1, <2>2 DEF Threads
<1> QED
  BY <1>5, <1>6, <1>7, <1>8, <1>9, <1>10, <1>11 DEF Next

\* No wakeup is lost, for any number of callers and receive() tasks, as long
\* as the loads and stores of receive() are sequentially consistent.
THEOREM WakeupCorrect == Spec => []NoLostWakeup
<1>1. Init => NoLostWakeup
  BY DEF Init, MailboxInit, NoLostWakeup, Working, Owns, LoopPC
<1>2. TypeOK /\ MutualExclusion /\ NoLostWakeup /\ [Next]_vars => NoLostWakeup'
  BY WakeupStep
<1> QED
  BY <1>1, <1>2, TypeCorrect, ExclusionCorrect, PTL DEF Spec

-----------------------------------------------------------------------------
\* What send_internal() adds to the queue.
LEMMA ElementsSend ==
  ASSUME TypeOK, NEW m \in InternalMessage, SendInternal(m)
  PROVE  Elements(internal_queue') = Elements(internal_queue) \cup {m}
<1>1. internal_queue \in Seq(InternalMessage) /\ internal_queue' = Append(internal_queue, m)
  BY DEF TypeOK, MailboxTypeOK, SendInternal
<1> QED
  BY <1>1, ElementsAppend

(* The life of the actor and of its children.                              *)

\* Every child that is alive lost its entry in the table.
Forsaken == \A k \in Children : pc[k] = "live" => k \in disowned

\* Where a task can stand at each stage of the actor's life.
TaskLife(t) ==
  /\ tpc[t] = "drain" => life = "gone"
  /\ tpc[t] = "internal" => life # "fresh"
  /\ tpc[t] \in {"fetch", "handle"} => life = "live"
  /\ tpc[t] = "exit" => life = "live" /\ Forsaken

\* What the parent knows of its children: every live child has its entry in the
\* table or lost it, from the moment terminate() begins none has one, and a child
\* reports only after it has ended.
LifeInv ==
  /\ \A t \in Tasks : TaskLife(t)
  /\ \A k \in Children : /\ pc[k] = "live" => k \in childrens \cup disowned
                         /\ ChildTerminate(k) \in Elements(internal_queue) =>
                              pc[k] \notin {"start", "live"}
  /\ life = "gone" => Forsaken

\* A step that leaves the actor and the children alone.
LEMMA LifeFrame ==
  ASSUME LifeInv, UNCHANGED <<tpc, life, childrens, disowned>>,
         \A k \in Children : pc'[k] = pc[k],
         \A k \in Children : ChildTerminate(k) \in Elements(internal_queue') =>
                               ChildTerminate(k) \in Elements(internal_queue)
  PROVE  LifeInv'
BY DEF LifeInv, TaskLife, Forsaken

\* The part of LifeInv that speaks of tasks, over a step of the owner.
LEMMA LifeTask ==
  ASSUME TypeOK, MutualExclusion, NEW t \in Tasks, Owns(t),
         \A u \in Tasks \ {t} : tpc'[u] = tpc[u], TaskLife(t)'
  PROVE  \A u \in Tasks : TaskLife(u)'
<1>1. \A u \in Tasks \ {t} : tpc[u] \notin {"drain", "internal", "fetch", "handle", "exit"}
  BY DEF MutualExclusion, Owns, LoopPC
<1> QED
  BY <1>1 DEF TaskLife

\* A step of the owner that leaves the table and the children alone.
LEMMA LifeOwner ==
  ASSUME TypeOK, MutualExclusion, LifeInv, NEW t \in Tasks, Owns(t),
         \A u \in Tasks \ {t} : tpc'[u] = tpc[u], TaskLife(t)',
         UNCHANGED <<pc, childrens, disowned>>, life' = "gone" => Forsaken,
         \A k \in Children : ChildTerminate(k) \in Elements(internal_queue') =>
                               ChildTerminate(k) \in Elements(internal_queue)
  PROVE  LifeInv'
<1>1. Forsaken' <=> Forsaken
  BY DEF Forsaken
<1>2. \A u \in Tasks : TaskLife(u)'
  BY LifeTask
<1> QED
  BY <1>1, <1>2 DEF LifeInv

\* A new child has its entry and has not reported; whoever loses an entry to it is
\* disowned, and so is a child of on_exit().
LEMMA LifeCreate ==
  ASSUME TypeOK, MutualExclusion, LifeInv, NEW t \in Tasks, CreateChild(t)
  PROVE  LifeInv'
<1>1. PICK k \in Children :
        /\ pc[k] = "start" /\ pc'[k] = "live"
        /\ \A d \in Threads \ {k} : pc'[d] = pc[d]
        /\ childrens' = (childrens \ Namesakes(k)) \cup {k}
        /\ disowned' = disowned \cup Namesakes(k)
                                \cup (IF tpc[t] = "exit" THEN {k} ELSE {})
  BY CreateStep
<1>2. UNCHANGED <<internal_queue, tpc, life>>
  BY CreateStep
<1>3. \A j \in Children \ {k} : pc'[j] = pc[j]
  BY <1>1 DEF Threads
<1>4. \A j \in Children : /\ pc'[j] = "live" => j \in childrens' \cup disowned'
                          /\ ChildTerminate(j) \in Elements(internal_queue) =>
                               pc'[j] \notin {"start", "live"}
  BY <1>1, <1>3 DEF LifeInv
<1>5. Owns(t)
  BY DEF CreateChild, InCallback, Owns, LoopPC
<1>6. life # "gone"
  BY DEF CreateChild, InCallback, LifeInv, TaskLife
<1>7. tpc[t] = "exit" => Forsaken'
  BY <1>1, <1>3 DEF LifeInv, TaskLife, Forsaken
<1>8. TaskLife(t)'
  BY <1>2, <1>7 DEF LifeInv, TaskLife
<1> QED
  BY <1>2, <1>4, <1>5, <1>6, <1>8, LifeTask DEF LifeInv

LEMMA LifeInternal ==
  ASSUME TypeOK, MutualExclusion, LifeInv, NEW t \in Tasks, ProcessInternal(t)
  PROVE  LifeInv'
<1> DEFINE m == Head(internal_queue)
<1>1. /\ m \in Elements(internal_queue)
      /\ \A x \in Elements(internal_queue') : x \in Elements(internal_queue)
  BY ElementsTail DEF ProcessInternal, TypeOK, MailboxTypeOK
<1>2. PICK to \in {"internal", "exit"} : InLoop(t, "internal", to)
  BY InternalCases
<1>3. /\ Owns(t) /\ tpc[t] = "internal" /\ tpc'[t] = to
      /\ \A u \in Tasks \ {t} : tpc'[u] = tpc[u]
  BY <1>2 DEF InLoop, Step, Owns, LoopPC, TypeOK, MailboxTypeOK
<1>4. UNCHANGED <<pc, life>> /\ life = "live"
  BY <1>3, InternalCases DEF LifeInv, TaskLife, TypeOK
<1> HIDE DEF m
<1>5. CASE UNCHANGED <<childrens, disowned>> /\ (to = "exit" => childrens = {})
  <2>1. to = "exit" => Forsaken'
    BY <1>4, <1>5 DEF LifeInv, Forsaken
  <2>2. TaskLife(t)'
    BY <1>2, <1>3, <1>4, <2>1 DEF TaskLife
  <2> QED
    BY <1>1, <1>3, <1>4, <1>5, <2>2, LifeOwner
<1>6. ASSUME NEW k \in Children, m = ChildTerminate(k), OnChildTerminate(t, k)
      PROVE  LifeInv'
  <2>1. pc[k] # "live"
    BY <1>1, <1>6 DEF LifeInv
  <2>2. /\ childrens' = childrens \ Namesakes(k)
        /\ disowned' = disowned \cup (Namesakes(k) \ {k})
        /\ tpc'[t] = "exit" => childrens' = {}
    BY <1>3, <1>6 DEF OnChildTerminate, InLoop, Step, TypeOK, MailboxTypeOK
  <2>3. \A j \in Children : pc[j] = "live" => j \in childrens' \cup disowned'
    BY <2>1, <2>2 DEF LifeInv
  <2>4. to = "exit" => Forsaken'
    BY <1>3, <1>4, <2>2, <2>3 DEF Forsaken
  <2>5. TaskLife(t)'
    BY <1>2, <1>3, <1>4, <2>4 DEF TaskLife
  <2>6. \A u \in Tasks : TaskLife(u)'
    BY <1>3, <2>5, LifeTask
  <2> QED
    BY <1>1, <1>4, <2>3, <2>6 DEF LifeInv
<1>7. CASE OnCreated(t) \/ \E c \in Calls : OnWatch(t, c)
  BY <1>3, <1>5, <1>7 DEF OnCreated, OnWatch, InLoop, Step, TypeOK, MailboxTypeOK
<1>8. CASE OnTerminate(t)
  BY <1>3, <1>5, <1>8 DEF OnTerminate, InLoop, Step, TypeOK, MailboxTypeOK
<1> QED
  BY <1>6, <1>7, <1>8, InternalCases DEF m

LEMMA LifeLoop ==
  ASSUME TypeOK, MutualExclusion, LifeInv, NEW t \in Tasks, LoopStep(t)
  PROVE  LifeInv'
<1>1. Owns(t) /\ \A u \in Tasks \ {t} : tpc'[u] = tpc[u]
  BY LoopOwner
<1>2. internal_queue # <<>> =>
        \A x \in Elements(Tail(internal_queue)) : x \in Elements(internal_queue)
  BY ElementsTail DEF TypeOK, MailboxTypeOK
<1> USE DEF InLoop, Step
<1>3. CASE Begin(t)
  <2>1. /\ tpc'[t] = "drain" => life' = "gone"
        /\ tpc'[t] = "internal" => life' # "fresh"
        /\ tpc'[t] \notin {"fetch", "handle", "exit"}
        /\ life' = "gone" => life = "gone"
        /\ UNCHANGED <<pc, childrens, disowned, internal_queue>>
    BY <1>3 DEF Begin, TypeOK, MailboxTypeOK
  <2>2. TaskLife(t)'
    BY <2>1 DEF TaskLife
  <2>3. life' = "gone" => Forsaken
    BY <2>1 DEF LifeInv
  <2> QED
    BY <1>1, <2>1, <2>2, <2>3, LifeOwner
<1>4. CASE Drain(t)
  <2>1. /\ tpc'[t] \in {"drain", "store"} /\ life = "gone"
        /\ UNCHANGED <<pc, life, childrens, disowned>>
    BY <1>4 DEF Drain, LifeInv, TaskLife, dispatcherVars, TypeOK, MailboxTypeOK
  <2>2. \A x \in Elements(internal_queue') : x \in Elements(internal_queue)
    BY <1>2, <1>4 DEF Drain
  <2>3. TaskLife(t)' /\ Forsaken
    BY <2>1 DEF TaskLife, LifeInv
  <2> QED
    BY <1>1, <2>1, <2>2, <2>3, LifeOwner
<1>5. CASE ProcessInternal(t)
  BY <1>5, LifeInternal
<1>6. CASE InternalDone(t)
  <2>1. /\ tpc'[t] \in {"store", "fetch"}
        /\ tpc'[t] = "fetch" => life = "live"
        /\ UNCHANGED <<pc, life, childrens, disowned, internal_queue>>
    BY <1>6 DEF InternalDone, LifeInv, TaskLife, TypeOK, MailboxTypeOK
  <2>2. TaskLife(t)' /\ (life' = "gone" => Forsaken)
    BY <2>1 DEF TaskLife, LifeInv
  <2> QED
    BY <1>1, <2>1, <2>2, LifeOwner
<1>7. CASE FetchUnstashed(t) \/ FetchQueued(t) \/ FetchNothing(t)
  <2>1. /\ tpc'[t] \in {"store", "handle"} /\ life = "live"
        /\ UNCHANGED <<pc, life, childrens, disowned, internal_queue>>
    BY <1>7 DEF FetchUnstashed, FetchQueued, FetchNothing, Take, LifeInv, TaskLife,
       TypeOK, MailboxTypeOK
  <2>2. TaskLife(t)' /\ life' # "gone"
    BY <2>1 DEF TaskLife
  <2> QED
    BY <1>1, <2>1, <2>2, LifeOwner
<1>8. CASE Handle(t)
  <2>1. /\ tpc'[t] \in {"store", "internal"} /\ life = "live"
        /\ UNCHANGED <<pc, life, childrens, disowned>>
    BY <1>8 DEF Handle, LifeInv, TaskLife, TypeOK, MailboxTypeOK
  <2>2. \A k \in Children : ChildTerminate(k) \in Elements(internal_queue') =>
                               ChildTerminate(k) \in Elements(internal_queue)
    <3>1. CASE UNCHANGED internal_queue
      BY <3>1
    <3>2. CASE SendInternal(Terminate)
      <4>1. Elements(internal_queue') = Elements(internal_queue) \cup {Terminate}
        BY <3>2, ElementsSend DEF InternalMessage
      <4> QED
        BY <4>1 DEF Terminate, ChildTerminate
    <3> QED
      BY <1>8, <3>1, <3>2 DEF Handle, Consume, StopSelf, Stash, UnstashAll
  <2>3. TaskLife(t)' /\ life' # "gone"
    BY <2>1 DEF TaskLife
  <2> QED
    BY <1>1, <2>1, <2>2, <2>3, LifeOwner
<1>9. CASE terminate(t)
  <2>1. tpc[t] = "exit" /\ tpc'[t] = "internal" /\ life' = "gone"
        /\ UNCHANGED <<pc, disowned, internal_queue>>
    BY <1>9 DEF terminate, TypeOK, MailboxTypeOK
  <2>2. Forsaken /\ Forsaken'
    BY <2>1 DEF LifeInv, TaskLife, Forsaken
  <2>3. TaskLife(t)'
    BY <2>1, <2>2 DEF TaskLife
  <2>4. \A u \in Tasks : TaskLife(u)'
    BY <1>1, <2>3, LifeTask
  <2>5. \A k \in Children : pc'[k] = "live" => k \in childrens' \cup disowned'
    BY <2>2 DEF Forsaken
  <2> QED
    BY <2>1, <2>2, <2>4, <2>5 DEF LifeInv
<1> QED
  BY <1>3, <1>4, <1>5, <1>6, <1>7, <1>8, <1>9 DEF LoopStep

LEMMA LifeStep ==
  ASSUME TypeOK, MutualExclusion, LifeInv, [Next]_vars
  PROVE  LifeInv'
<1> USE DEF Goto, Threads
\* Only the part about tasks changes when tasks move outside the loop.
<1> DEFINE Outside(u) == \/ tpc'[u] = tpc[u]
                         \/ tpc'[u] \notin {"drain", "internal", "fetch", "handle", "exit"}
<1>1. ASSUME UNCHANGED <<internal_queue, life, childrens, disowned>>,
             \A k \in Children : pc'[k] = pc[k],
             \A t \in Tasks : Outside(t)
      PROVE  LifeInv'
  BY <1>1 DEF LifeInv, TaskLife, Forsaken
<1>2. ASSUME schedule
      PROVE  \A t \in Tasks : Outside(t)
  BY <1>2, SpawnIdle DEF schedule, TypeOK, MailboxTypeOK
<1>3. CASE CallsStep
  <2>1. PICK c \in Calls : CallStep(c) /\ UNCHANGED dispatcherVars
    BY <1>3 DEF CallsStep
  <2>2. \A k \in Children : pc'[k] = pc[k]
    <3>1. \E l : pc' = [pc EXCEPT ![c] = l]
      BY <2>1 DEF CallStep, Send, Stop, PushMessage, CallSchedule, WatchCall,
         PushWatch, WatchReturns
    <3>2. \A k \in Children : k # c
      OBVIOUS
    <3> QED
      BY <3>1, <3>2 DEF TypeOK, MailboxTypeOK
  <2>3. CASE CallSchedule(c)
    BY <1>1, <1>2, <2>1, <2>2, <2>3 DEF CallSchedule, dispatcherVars
  <2>4. CASE UNCHANGED <<internal_queue, tpc>>
    BY <2>1, <2>2, <2>4, LifeFrame DEF dispatcherVars
  <2>5. ASSUME UNCHANGED tpc, NEW m \in {Terminate, Watch(c)}, SendInternal(m)
        PROVE  LifeInv'
    <3>1. Elements(internal_queue') = Elements(internal_queue) \cup {m}
      BY <2>5, ElementsSend DEF InternalMessage
    <3>2. \A k \in Children : m # ChildTerminate(k)
      BY DEF Terminate, Watch, ChildTerminate
    <3> QED
      BY <2>1, <2>2, <2>5, <3>1, <3>2, LifeFrame DEF dispatcherVars
  <2> QED
    BY <2>1, <2>3, <2>4, <2>5 DEF CallStep, Send, Stop, PushMessage, WatchCall,
       PushWatch, WatchReturns
<1>4. CASE ChildrenStep
  <2>1. PICK k \in Children : ChildStep(k) /\ UNCHANGED dispatcherVars
    BY <1>4 DEF ChildrenStep
  <2>2. CASE ChildStops(k)
    <3>1. Elements(internal_queue') = Elements(internal_queue) \cup {ChildTerminate(k)}
      BY <2>2, ElementsSend DEF ChildStops, InternalMessage
    <3>2. \A j \in Children \ {k} : ChildTerminate(j) # ChildTerminate(k)
      BY DEF ChildTerminate
    <3>3. pc'[k] = "sched" /\ \A j \in Children \ {k} : pc'[j] = pc[j]
      BY <2>2 DEF ChildStops, TypeOK, MailboxTypeOK
    <3>4. UNCHANGED <<tpc, life, childrens, disowned>>
      BY <2>1, <2>2 DEF ChildStops, dispatcherVars
    <3>5. Forsaken => Forsaken'
      BY <3>3, <3>4 DEF Forsaken
    <3>6. \A t \in Tasks : TaskLife(t)'
      BY <3>4, <3>5 DEF LifeInv, TaskLife
    <3> QED
      BY <3>1, <3>2, <3>3, <3>4, <3>5, <3>6 DEF LifeInv
  <2>3. CASE CallSchedule(k)
    <3>0. k \notin Calls
      OBVIOUS
    <3>1. /\ pc[k] \in {"sched", "sched_watch"} /\ pc'[k] \in {"await", "done"}
          /\ \A j \in Children \ {k} : pc'[j] = pc[j]
      BY <2>3, <3>0 DEF CallSchedule, TypeOK, MailboxTypeOK
    <3>2. UNCHANGED <<internal_queue, life, childrens, disowned>>
      BY <2>1, <2>3 DEF CallSchedule, dispatcherVars
    <3>3. \A t \in Tasks : Outside(t)
      BY <1>2, <2>3 DEF CallSchedule
    <3>4. Forsaken => Forsaken'
      BY <3>1, <3>2 DEF Forsaken
    <3>5. \A t \in Tasks : TaskLife(t)'
      BY <3>2, <3>3, <3>4 DEF LifeInv, TaskLife
    <3> QED
      BY <3>1, <3>2, <3>4, <3>5 DEF LifeInv
  <2> QED
    BY <2>1, <2>2, <2>3 DEF ChildStep
<1>5. ASSUME NEW t \in Tasks, LoopStep(t) PROVE LifeInv'
  BY <1>5, LifeLoop
<1>6. ASSUME NEW t \in Tasks, TailStep(t) PROVE LifeInv'
  BY <1>1, <1>6 DEF TailStep, ReceiveTail, StoreNotRunning, TailUser,
     TailTerminated, TailInternal, TailSchedule, Step, dispatcherVars, TypeOK,
     MailboxTypeOK
<1>7. ASSUME NEW t \in Tasks, Unwind(t) PROVE LifeInv'
  <2>1. Owns(t) /\ tpc'[t] = "idle" /\ \A u \in Tasks \ {t} : tpc'[u] = tpc[u]
    BY <1>7 DEF Unwind, Owns, LoopPC, TypeOK, MailboxTypeOK
  <2>2. /\ UNCHANGED <<pc, internal_queue, childrens, disowned>>
        /\ life' = "gone" => life = "gone"
    BY <1>7 DEF Unwind
  <2>3. TaskLife(t)' /\ (life' = "gone" => Forsaken)
    BY <2>1, <2>2 DEF TaskLife, LifeInv
  <2> QED
    BY <2>1, <2>2, <2>3, LifeOwner
<1>8. CASE UNCHANGED vars
  BY <1>8, LifeFrame DEF vars, mailboxVars, dispatcherVars
<1>9. ASSUME NEW t \in Tasks, CreateChild(t) PROVE LifeInv'
  BY <1>9, LifeCreate
<1> QED
  BY <1>3, <1>4, <1>5, <1>6, <1>7, <1>8, <1>9 DEF Next

LEMMA LifeCorrect == Spec => []LifeInv
<1>1. Init => LifeInv
  <2> SUFFICES ASSUME Init PROVE LifeInv
    OBVIOUS
  <2>1. Elements(internal_queue) = {Created}
    BY DEF Init, MailboxInit, Elements
  <2>2. \A k \in Children : ChildTerminate(k) # Created
    BY DEF ChildTerminate, Created
  <2> QED
    BY <2>1, <2>2 DEF Init, MailboxInit, LifeInv, TaskLife, Threads
<1>2. TypeOK /\ MutualExclusion /\ LifeInv /\ [Next]_vars => LifeInv'
  BY LifeStep
<1> QED
  BY <1>1, <1>2, TypeCorrect, ExclusionCorrect, PTL DEF Spec

\* An actor reports its own end only after each child it created has ended, except
\* those that lost their entry in its table: to a namesake, to the late report of
\* one, or because on_exit() created them.  That holds whatever callbacks create and
\* whichever children stop on their own while the actor stops.
THEOREM ChildrenCorrect == Spec => []ParentOutlivesChildren
<1>1. LifeInv => ParentOutlivesChildren
  BY DEF LifeInv, Forsaken, ParentOutlivesChildren
<1> QED
  BY <1>1, LifeCorrect, PTL

-----------------------------------------------------------------------------
(* Watchers and the closing of the mailbox.                                *)

\* A task gets to terminate() only from an internal message.
LEMMA ExitBegins ==
  ASSUME TypeOK, [Next]_vars, NEW t \in Tasks, tpc'[t] = "exit", tpc[t] # "exit"
  PROVE  ProcessInternal(t)
<1> USE DEF TypeOK, MailboxTypeOK
<1>1. CASE CallsStep \/ ChildrenStep
  <2>1. UNCHANGED tpc \/ schedule
    BY <1>1 DEF CallsStep, ChildrenStep, CallStep, ChildStep, Send, Stop,
       PushMessage, CallSchedule, WatchCall, PushWatch, WatchReturns, ChildStops
  <2> QED
    BY <2>1, SpawnIdle DEF schedule
<1>2. ASSUME NEW u \in Tasks, NEW from, NEW to \in TaskPC \ {"exit"}, Step(u, from, to)
      PROVE  FALSE
  BY <1>2 DEF Step
<1>3. ASSUME NEW u \in Tasks, TailStep(u) PROVE FALSE
  <2>1. \E from, to \in TaskPC \ {"exit"} : Step(u, from, to)
    BY <1>3 DEF TailStep, ReceiveTail, StoreNotRunning, TailUser, TailTerminated,
       TailInternal, TailSchedule, TaskPC, TailPC, LoopPC
  <2> QED
    BY <1>2, <2>1
<1>4. ASSUME NEW u \in Tasks, LoopStep(u), ~ProcessInternal(u) PROVE FALSE
  <2>1. \E from, to \in TaskPC \ {"exit"} : Step(u, from, to)
        \/ \E to2 \in {"internal"} : Step(u, "exit", to2)
    BY <1>4 DEF LoopStep, Begin, Drain, terminate, InternalDone, FetchUnstashed,
       FetchQueued, FetchNothing, Handle, InLoop, TaskPC, TailPC, LoopPC
  <2> QED
    BY <1>2, <2>1 DEF TaskPC, LoopPC
<1>5. ASSUME NEW u \in Tasks, ProcessInternal(u), u # t PROVE FALSE
  <2>1. \E to : tpc' = [tpc EXCEPT ![u] = to]
    BY <1>5, InternalCases DEF InLoop, Step
  <2> QED
    BY <1>5, <2>1
<1>6. ASSUME NEW u \in Tasks, CreateChild(u) \/ Unwind(u) PROVE FALSE
  BY <1>6 DEF CreateChild, Unwind
<1>7. CASE UNCHANGED vars
  BY <1>7 DEF vars, mailboxVars
<1> QED
  BY <1>1, <1>3, <1>4, <1>5, <1>6, <1>7 DEF Next

\* What the code relies on when it answers a watcher: the mailbox is closed
\* before the actor is suspended, runs on_exit() or is gone, and nobody is
\* answered earlier.
Closed ==
  /\ suspended \/ life = "gone" \/ answered # {} => terminated
  /\ StopObserved

ClosedInv == Closed /\ \A t \in Tasks : tpc[t] = "exit" => terminated

\* A thread is done with a waiting stop only by passing watch().
LEMMA ClosedCall ==
  ASSUME TypeOK, ClosedInv, NEW c \in Calls, CallStep(c), UNCHANGED dispatcherVars
  PROVE  Closed'
<1> USE DEF Goto, Threads, TypeOK, MailboxTypeOK
<1>1. UNCHANGED <<terminated, suspended, life, answered>>
  BY DEF CallStep, Send, Stop, PushMessage, CallSchedule, WatchCall, PushWatch,
     WatchReturns, dispatcherVars
<1>2. \A d \in Calls \ {c} : pc'[d] = pc[d] /\ op'[d] = op[d]
  <2>1. (\E l : pc' = [pc EXCEPT ![c] = l]) /\ (UNCHANGED op \/ \E o : op' = [op EXCEPT ![c] = o])
    BY DEF CallStep, Send, Stop, PushMessage, CallSchedule, WatchCall, PushWatch,
       WatchReturns
  <2> QED
    BY <2>1
<1>3. Waits(op'[c]) /\ pc'[c] = "done" => terminated
  <2>1. ASSUME NEW o \in Operations, Send(c, o) \/ Stop(c, o)
        PROVE  Waits(op'[c]) => pc'[c] # "done"
    BY <2>1 DEF Send, Stop, Waits
  <2>2. CASE PushMessage(c) \/ PushWatch(c)
    BY <2>2 DEF PushMessage, PushWatch, AfterSend
  <2>3. CASE CallSchedule(c)
    BY <2>3 DEF CallSchedule, AfterSend
  <2>4. CASE WatchCall(c)
    BY <2>4 DEF WatchCall
  <2>5. CASE WatchReturns(c)
    BY <2>5 DEF WatchReturns, ClosedInv, Closed, StopObserved
  <2> QED
    BY <2>1, <2>2, <2>3, <2>4, <2>5 DEF CallStep, Operations
<1> QED
  BY <1>1, <1>2, <1>3 DEF ClosedInv, Closed, StopObserved

LEMMA ClosedStep ==
  ASSUME TypeOK, LifeInv, ClosedInv, [Next]_vars
  PROVE  ClosedInv'
\* terminate() is reached from a suspended actor or from the Terminate that closes.
<1>0. ASSUME NEW t \in Tasks, tpc'[t] = "exit" PROVE terminated'
  <2>1. terminated => terminated'
    <3>1. ASSUME NEW u \in Tasks, LoopStep(u) PROVE terminated => terminated'
      BY <3>1 DEF LoopStep, Begin, Drain, ProcessInternal, OnCreated, OnWatch,
         OnTerminate, OnChildTerminate, terminate, InternalDone, FetchUnstashed,
         FetchQueued, FetchNothing, Take, Handle
    <3>2. ASSUME NEW u \in Tasks, TailStep(u) \/ CreateChild(u) \/ Unwind(u)
          PROVE  UNCHANGED terminated
      BY <3>2 DEF TailStep, ReceiveTail, StoreNotRunning, TailUser, TailTerminated,
         TailInternal, TailSchedule, CreateChild, Unwind
    <3>3. CASE CallsStep \/ ChildrenStep
      BY <3>3 DEF CallsStep, ChildrenStep, CallStep, ChildStep, Send, Stop,
         PushMessage, CallSchedule, WatchCall, PushWatch, WatchReturns, ChildStops
    <3> QED
      BY <3>1, <3>2, <3>3 DEF Next, vars, mailboxVars
  <2>2. CASE tpc[t] = "exit"
    BY <2>1, <2>2 DEF ClosedInv
  <2>3. CASE tpc[t] # "exit"
    <3>1. ProcessInternal(t)
      BY <1>0, <2>3, ExitBegins
    <3>2. CASE OnTerminate(t)
      BY <3>2 DEF OnTerminate
    <3>3. ASSUME NEW k \in Children, OnChildTerminate(t, k) PROVE suspended /\ terminated'
      BY <1>0, <2>3, <3>3 DEF OnChildTerminate, InLoop, Step, ClosedInv, Closed, TypeOK, MailboxTypeOK
    <3>4. ASSUME InLoop(t, "internal", "internal") PROVE FALSE
      BY <1>0, <3>4 DEF InLoop, Step, TypeOK, MailboxTypeOK
    <3> QED
      BY <3>1, <3>2, <3>3, <3>4, InternalCases DEF OnCreated, OnWatch
  <2> QED
    BY <2>2, <2>3
\* The loop changes neither a call's stage nor its kind.
<1>1. ASSUME \A c \in Calls : pc'[c] = pc[c], UNCHANGED op,
             terminated => terminated',
             suspended' \/ life' = "gone" \/ answered' # {} => terminated'
      PROVE  Closed'
  BY <1>1 DEF ClosedInv, Closed, StopObserved
<1>2. ASSUME CallsStep PROVE Closed'
  <2>1. PICK c \in Calls : CallStep(c) /\ UNCHANGED dispatcherVars
    BY <1>2 DEF CallsStep
  <2> QED
    BY <2>1, ClosedCall
<1>3. ASSUME ChildrenStep PROVE Closed'
  <2>1. PICK k \in Children : ChildStep(k) /\ UNCHANGED dispatcherVars
    BY <1>3 DEF ChildrenStep
  <2>2. (\E l : pc' = [pc EXCEPT ![k] = l]) /\ UNCHANGED <<terminated, answered, op>>
    BY <2>1 DEF ChildStep, ChildStops, CallSchedule, Goto
  <2>3. \A c \in Calls : c # k
    OBVIOUS
  <2>4. \A c \in Calls : pc'[c] = pc[c]
    BY <2>2, <2>3 DEF TypeOK, MailboxTypeOK, Threads
  <2> QED
    BY <1>1, <2>1, <2>2, <2>4 DEF ClosedInv, Closed, dispatcherVars
<1>4. ASSUME NEW t \in Tasks, LoopStep(t) PROVE Closed'
  <2> USE DEF InLoop, Step, ClosedInv, Closed
  <2>1. CASE Begin(t)
    BY <1>1, <2>1 DEF Begin
  <2>2. CASE Drain(t)
    <3>1. life = "gone"
      BY <2>2 DEF Drain, LifeInv, TaskLife
    <3> QED
      BY <1>1, <2>2, <3>1 DEF Drain, dispatcherVars
  <2>3. CASE ProcessInternal(t)
    <3>1. UNCHANGED <<pc, op, life>>
      BY <2>3 DEF ProcessInternal, OnCreated, OnWatch, OnTerminate, OnChildTerminate
    <3>2. /\ terminated => terminated'
          /\ suspended' \/ answered' # {} => terminated'
      BY <2>3 DEF ProcessInternal, OnCreated, OnWatch, OnTerminate, OnChildTerminate
    <3> QED
      BY <1>1, <3>1, <3>2
  <2>4. CASE InternalDone(t) \/ FetchNothing(t)
    BY <1>1, <2>4 DEF InternalDone, FetchNothing
  <2>5. CASE FetchUnstashed(t) \/ FetchQueued(t)
    BY <1>1, <2>5 DEF FetchUnstashed, FetchQueued, Take
  <2>6. CASE Handle(t)
    BY <1>1, <2>6 DEF Handle
  <2>7. CASE terminate(t)
    BY <1>1, <2>7 DEF terminate
  <2> QED
    BY <1>4, <2>1, <2>2, <2>3, <2>4, <2>5, <2>6, <2>7 DEF LoopStep
<1>5. ASSUME NEW t \in Tasks, TailStep(t) PROVE Closed'
  BY <1>1, <1>5 DEF TailStep, ReceiveTail, StoreNotRunning, TailUser,
     TailTerminated, TailInternal, TailSchedule, dispatcherVars, ClosedInv, Closed
<1>6. ASSUME NEW t \in Tasks, Unwind(t) PROVE Closed'
  BY <1>1, <1>6 DEF Unwind, ClosedInv, Closed
<1>7. ASSUME UNCHANGED vars PROVE Closed'
  BY <1>1, <1>7 DEF vars, mailboxVars, dispatcherVars, ClosedInv, Closed
<1>8. ASSUME NEW t \in Tasks, CreateChild(t) PROVE Closed'
  BY <1>1, <1>8, CreateStep DEF ClosedInv, Closed
<1>9. Closed'
  BY <1>2, <1>3, <1>4, <1>5, <1>6, <1>7, <1>8 DEF Next
<1> QED
  BY <1>0, <1>9 DEF ClosedInv

LEMMA ClosedCorrect == Spec => []ClosedInv
<1>1. Init => ClosedInv
  BY DEF Init, MailboxInit, ClosedInv, Closed, StopObserved, Threads
<1>2. TypeOK /\ LifeInv /\ ClosedInv /\ [Next]_vars => ClosedInv'
  BY ClosedStep
<1> QED
  BY <1>1, <1>2, TypeCorrect, LifeCorrect, PTL DEF Spec

\* graceful_stop() and wait_stop() never return while the mailbox is open.
THEOREM StopCorrect == Spec => []StopObserved
<1>1. ClosedInv => StopObserved
  BY DEF ClosedInv, Closed
<1> QED
  BY <1>1, ClosedCorrect, PTL

\* After close() no task takes a user message from the queue or the stash.
THEOREM CloseCorrect == Spec => NoHandlingAfterClose
<1>1. ASSUME TypeOK, [Next]_vars, NEW t \in Tasks, terminated, msg'[t] # NoMessage
      PROVE  msg[t] = msg'[t]
  <2>1. CASE UNCHANGED msg
    BY <2>1
  <2>2. CASE \E u \in Tasks : msg' = [msg EXCEPT ![u] = NoMessage]
    BY <1>1, <2>2 DEF TypeOK
  <2>3. ASSUME NEW u \in Tasks,
               LoopStep(u) \/ CreateChild(u) \/ TailStep(u) \/ Unwind(u)
        PROVE  msg[t] = msg'[t]
    BY <1>1, <2>1, <2>2, <2>3 DEF LoopStep, Begin, Drain, ProcessInternal, terminate,
       CreateChild, InternalDone, FetchUnstashed, FetchQueued, FetchNothing, Handle, TailStep,
       Unwind, dispatcherVars
  <2> QED
    BY <1>1, <2>1, <2>3 DEF Next, CallsStep, ChildrenStep, vars, dispatcherVars
<1>2. TypeOK /\ [Next]_vars =>
        [\A t \in Tasks : terminated /\ msg'[t] # NoMessage => msg[t] = msg'[t]]_vars
  BY <1>1
<1> QED
  BY <1>2, TypeCorrect, PTL DEF Spec, NoHandlingAfterClose

-----------------------------------------------------------------------------
(* WatchNotLost is inductive: the request stays in the queue until it is    *)
(* handled, and handling it and terminate() each leave it somewhere.        *)

\* Where the request of a waiting call is.
Remembered(c) ==
  \/ c \in answered
  \/ Watch(c) \in Elements(internal_queue)
  \/ c \in watcher /\ life # "gone"

\* A step of the loop only moves requests on.
LEMMA RememberLoop ==
  ASSUME TypeOK, LifeInv, NEW t \in Tasks, LoopStep(t), NEW c \in Calls, Remembered(c)
  PROVE  Remembered(c)'
<1> USE DEF InLoop, Step, Remembered
<1>1. CASE Begin(t)
  BY <1>1 DEF Begin
<1>2. ASSUME internal_queue # <<>>,
             internal_queue' = Tail(internal_queue),
             Head(internal_queue) # Watch(c),
             c \in answered => c \in answered',
             c \in watcher /\ life # "gone" => c \in answered' \/ (c \in watcher' /\ life' # "gone")
      PROVE  Remembered(c)'
  BY <1>2, ElementsTail DEF TypeOK, MailboxTypeOK
<1>3. CASE Drain(t)
  <2>1. CASE internal_queue = <<>>
    BY <1>3, <2>1 DEF Drain, dispatcherVars
  <2>2. CASE internal_queue # <<>> /\ Head(internal_queue) = Watch(c)
    BY <1>3, <2>2 DEF Drain, Watch
  <2>3. CASE internal_queue # <<>> /\ Head(internal_queue) # Watch(c)
    BY <1>2, <1>3, <2>3 DEF Drain, dispatcherVars
  <2> QED
    BY <2>1, <2>2, <2>3
<1>4. CASE ProcessInternal(t)
  <2> DEFINE m == Head(internal_queue)
  <2>1. CASE m = Watch(c)
    <3>1. OnWatch(t, c) /\ life # "gone" /\ UNCHANGED life
      BY <1>4, <2>1 DEF ProcessInternal, Watch
    <3> QED
      BY <3>1 DEF OnWatch
  <2>2. CASE m # Watch(c)
    <3>1. /\ answered \subseteq answered' /\ watcher \subseteq watcher'
          /\ UNCHANGED life
      BY <1>4 DEF ProcessInternal, OnCreated, OnWatch, OnTerminate, OnChildTerminate
    <3> QED
      BY <1>2, <1>4, <2>2, <3>1 DEF ProcessInternal
  <2> QED
    BY <2>1, <2>2
<1>5. CASE InternalDone(t) \/ FetchNothing(t) \/ FetchUnstashed(t) \/ FetchQueued(t)
  BY <1>5 DEF InternalDone, FetchNothing, FetchUnstashed, FetchQueued, Take
<1>6. CASE Handle(t)
  <2>1. UNCHANGED <<answered, watcher, life>>
    BY <1>6 DEF Handle
  <2>2. CASE UNCHANGED internal_queue
    BY <2>1, <2>2
  <2>3. CASE SendInternal(Terminate)
    BY <2>1, <2>3, ElementsSend DEF InternalMessage
  <2> QED
    BY <1>6, <2>2, <2>3 DEF Handle, Consume, StopSelf, Stash, UnstashAll
<1>7. CASE terminate(t)
  BY <1>7 DEF terminate
<1> QED
  BY <1>1, <1>3, <1>4, <1>5, <1>6, <1>7 DEF LoopStep

LEMMA RememberStep ==
  ASSUME TypeOK, LifeInv, [Next]_vars, NEW c \in Calls, Remembered(c)
  PROVE  Remembered(c)'
<1>1. ASSUME UNCHANGED <<answered, watcher, life>>,
             UNCHANGED internal_queue \/ \E m \in InternalMessage : SendInternal(m)
      PROVE  Remembered(c)'
  BY <1>1, ElementsSend DEF Remembered
<1>2. CASE CallsStep \/ ChildrenStep
  <2>1. UNCHANGED <<answered, watcher, life>>
    BY <1>2 DEF CallsStep, ChildrenStep, CallStep, ChildStep, Send, Stop,
       PushMessage, CallSchedule, WatchCall, PushWatch, WatchReturns, ChildStops,
       dispatcherVars
  <2>2. UNCHANGED internal_queue \/ \E m \in InternalMessage : SendInternal(m)
    BY <1>2 DEF CallsStep, ChildrenStep, CallStep, ChildStep, Send, Stop,
       PushMessage, CallSchedule, WatchCall, PushWatch, WatchReturns, ChildStops,
       InternalMessage
  <2> QED
    BY <1>1, <2>1, <2>2
<1>3. ASSUME NEW t \in Tasks, LoopStep(t) PROVE Remembered(c)'
  BY <1>3, RememberLoop
<1>4. ASSUME NEW t \in Tasks, TailStep(t) PROVE Remembered(c)'
  BY <1>1, <1>4 DEF TailStep, ReceiveTail, StoreNotRunning, TailUser,
     TailTerminated, TailInternal, TailSchedule, dispatcherVars
<1>5. ASSUME NEW t \in Tasks, Unwind(t) PROVE Remembered(c)'
  BY <1>5 DEF Unwind, Remembered
<1>7. ASSUME NEW t \in Tasks, CreateChild(t) PROVE Remembered(c)'
  BY <1>1, <1>7 DEF CreateChild
<1>6. CASE UNCHANGED vars
  BY <1>1, <1>6 DEF vars, mailboxVars, dispatcherVars
<1> QED
  BY <1>2, <1>3, <1>4, <1>5, <1>6, <1>7 DEF Next

\* The steps of a task, a creation apart, move no thread.
LEMMA TaskKeepsCalls ==
  ASSUME NEW t \in Tasks, LoopStep(t) \/ TailStep(t) \/ Unwind(t)
  PROVE  UNCHANGED pc
BY DEF LoopStep, Begin, Drain, ProcessInternal, terminate, InternalDone,
   FetchUnstashed, FetchQueued, FetchNothing, Take, Handle, TailStep, ReceiveTail,
   StoreNotRunning, TailUser, TailTerminated, TailInternal, TailSchedule, Unwind

\* A call that begins to wait has just queued its request.
LEMMA WaitBegins ==
  ASSUME TypeOK, [Next]_vars, NEW c \in Calls,
         pc'[c] \in {"sched_watch", "await"}, pc[c] \notin {"sched_watch", "await"}
  PROVE  PushWatch(c)
<1> USE DEF Goto, Threads, TypeOK, MailboxTypeOK
<1>1. CASE CallsStep
  <2>1. PICK d \in Calls : CallStep(d)
    BY <1>1 DEF CallsStep
  <2>2. c = d
    <3>1. \E l : pc' = [pc EXCEPT ![d] = l]
      BY <2>1 DEF CallStep, Send, Stop, PushMessage, CallSchedule, WatchCall,
         PushWatch, WatchReturns
    <3> QED
      BY <3>1
  <2> QED
    BY <2>1, <2>2 DEF CallStep, Send, Stop, PushMessage, CallSchedule, WatchCall,
       WatchReturns, AfterSend
<1>2. CASE ~CallsStep
  <2>1. CASE ChildrenStep
    <3>1. PICK k \in Children : \E l : pc' = [pc EXCEPT ![k] = l]
      BY <2>1 DEF ChildrenStep, ChildStep, ChildStops, CallSchedule
    <3>2. c # k
      OBVIOUS
    <3> QED
      BY <3>1, <3>2
  <2>4. ASSUME NEW t \in Tasks, LoopStep(t) \/ TailStep(t) \/ Unwind(t)
        PROVE  UNCHANGED pc
    BY <2>4, TaskKeepsCalls
  <2>5. ASSUME NEW t \in Tasks, CreateChild(t) PROVE pc'[c] = pc[c]
    BY <2>5, CreateStep
  <2> QED
    BY <1>2, <2>1, <2>4, <2>5 DEF Next, vars, mailboxVars
<1> QED
  BY <1>1, <1>2

\* No thread waiting for an actor to stop is forgotten, however its request,
\* the stop and the end of the last child interleave.
THEOREM WatchCorrect == Spec => []WatchNotLost
<1>1. Init => WatchNotLost
  BY DEF Init, MailboxInit, WatchNotLost, Threads
<1>2. TypeOK /\ LifeInv /\ WatchNotLost /\ [Next]_vars => WatchNotLost'
  <2> SUFFICES ASSUME TypeOK, LifeInv, WatchNotLost, [Next]_vars, NEW c \in Calls,
                      pc'[c] \in {"sched_watch", "await"}
               PROVE  Remembered(c)'
    BY DEF WatchNotLost, Remembered
  <2>1. CASE pc[c] \in {"sched_watch", "await"}
    <3>1. Remembered(c)
      BY <2>1 DEF WatchNotLost, Remembered
    <3> QED
      BY <3>1, RememberStep
  <2>2. CASE pc[c] \notin {"sched_watch", "await"}
    <3>1. SendInternal(Watch(c))
      BY <2>2, WaitBegins DEF PushWatch
    <3> QED
      BY <3>1, ElementsSend DEF InternalMessage, Remembered
  <2> QED
    BY <2>1, <2>2
<1> QED
  BY <1>1, <1>2, TypeCorrect, LifeCorrect, PTL DEF Spec
-----------------------------------------------------------------------------
(* The handler that runs.                                                  *)

\* With one task at most that holds a message, Current is what it holds.
LEMMA CurrentOf ==
  ASSUME NEW m, NEW t \in Tasks, \A u \in Tasks \ {t} : m[u] = NoMessage
  PROVE  {m[u] : u \in Tasks} \ {NoMessage} = {m[t]} \ {NoMessage}
OBVIOUS

\* A step of the owner is about the one message in a handler, if any.
LEMMA LoopCurrent ==
  ASSUME TypeOK, MutualExclusion, NEW t \in Tasks, LoopStep(t) \/ Unwind(t)
  PROVE  /\ Current  = {msg[t]} \ {NoMessage}
         /\ Current' = {msg'[t]} \ {NoMessage}
<1>1. Owns(t)
  BY LoopOwner DEF Unwind, Owns, LoopPC
<1>2. \A u \in Tasks \ {t} : msg[u] = NoMessage
  BY <1>1 DEF MutualExclusion, Owns, LoopPC, TypeOK
<1>3. \A u \in Tasks \ {t} : msg'[u] = msg[u]
  <2>1. UNCHANGED msg \/ \E m : msg' = [msg EXCEPT ![t] = m]
    BY DEF LoopStep, Begin, Drain, ProcessInternal, terminate, InternalDone,
       FetchUnstashed, FetchQueued, FetchNothing, Take, Handle, Unwind, dispatcherVars
  <2> QED
    BY <2>1 DEF TypeOK
<1> QED
  BY <1>2, <1>3, CurrentOf DEF Current

-----------------------------------------------------------------------------
(* Messages are taken in the order they were accepted.                     *)

\* The queue is the end of `accepted`, and a call that has not pushed yet is
\* not in it.
OrderInv ==
  /\ Len(message_queue) <= Len(accepted)
  /\ \A i \in 1..Len(message_queue) :
       message_queue[i] = accepted[(Len(accepted) - Len(message_queue)) + i]
  /\ \A c \in Calls : pc[c] \in {"start", "push"} => c \notin Elements(accepted)

\* PushMessage is the only step that accepts a message.
LEMMA PushOrNot ==
  ASSUME TypeOK, NEW c \in Calls, CallStep(c)
  PROVE  \/ /\ pc[c] = "push" /\ pc' = [pc EXCEPT ![c] = "sched"]
            /\ message_queue' = Append(message_queue, c)
            /\ accepted' = Append(accepted, c)
         \/ UNCHANGED <<message_queue, accepted>>
BY DEF CallStep, Send, Stop, PushMessage, CallSchedule, WatchCall, PushWatch,
   WatchReturns, Goto

\* Nobody returns to a stage before the push.
LEMMA PushedForGood ==
  ASSUME TypeOK, [Next]_vars, NEW c \in Calls, pc'[c] \in {"start", "push"}
  PROVE  pc[c] \in {"start", "push"}
<1> USE DEF Goto, Threads, TypeOK, MailboxTypeOK
<1>1. CASE CallsStep
  <2>1. PICK d \in Calls : CallStep(d)
    BY <1>1 DEF CallsStep
  <2>2. CASE c = d
    BY <2>1, <2>2 DEF CallStep, Send, Stop, PushMessage, CallSchedule, WatchCall,
       PushWatch, WatchReturns, AfterSend
  <2>3. CASE c # d
    <3>1. \E l : pc' = [pc EXCEPT ![d] = l]
      BY <2>1 DEF CallStep, Send, Stop, PushMessage, CallSchedule, WatchCall,
         PushWatch, WatchReturns
    <3> QED
      BY <2>3, <3>1
  <2> QED
    BY <2>2, <2>3
<1>2. CASE ChildrenStep
  <2>1. PICK k \in Children : \E l : pc' = [pc EXCEPT ![k] = l]
    BY <1>2 DEF ChildrenStep, ChildStep, ChildStops, CallSchedule
  <2>2. c # k
    OBVIOUS
  <2> QED
    BY <2>1, <2>2
<1>3. ASSUME NEW t \in Tasks, LoopStep(t) \/ CreateChild(t) \/ TailStep(t) \/ Unwind(t)
      PROVE  pc'[c] = pc[c]
  BY <1>3, TaskKeepsCalls, CreateStep
<1>4. CASE UNCHANGED vars
  BY <1>4 DEF vars, mailboxVars
<1> QED
  BY <1>1, <1>2, <1>3, <1>4 DEF Next

LEMMA OrderStep ==
  ASSUME TypeOK, OrderInv, [Next]_vars
  PROVE  OrderInv'
<1>1. ASSUME UNCHANGED <<message_queue, accepted>> PROVE OrderInv'
  BY <1>1, PushedForGood DEF OrderInv
<1>2. CASE CallsStep
  <2>1. PICK c \in Calls : CallStep(c)
    BY <1>2 DEF CallsStep
  <2>2. CASE UNCHANGED <<message_queue, accepted>>
    BY <1>1, <2>2
  <2>3. CASE /\ pc[c] = "push" /\ pc' = [pc EXCEPT ![c] = "sched"]
             /\ message_queue' = Append(message_queue, c)
             /\ accepted' = Append(accepted, c)
    <3> USE DEF TypeOK, MailboxTypeOK
    <3>1. /\ Len(message_queue') = Len(message_queue) + 1
          /\ Len(accepted') = Len(accepted) + 1
      BY <2>3
    <3>2. ASSUME NEW i \in 1..Len(message_queue')
          PROVE  message_queue'[i] = accepted'[(Len(accepted') - Len(message_queue')) + i]
      <4>1. CASE i <= Len(message_queue)
        BY <2>3, <3>1, <4>1 DEF OrderInv
      <4>2. CASE i = Len(message_queue) + 1
        BY <2>3, <3>1, <4>2 DEF OrderInv
      <4> QED
        BY <3>1, <3>2, <4>1, <4>2
    <3>3. \A d \in Calls : pc'[d] \in {"start", "push"} => d \notin Elements(accepted')
      BY <2>3, PushedForGood, ElementsAppend DEF OrderInv, Threads
    <3> QED
      BY <3>1, <3>2, <3>3 DEF OrderInv
  <2> QED
    BY <2>1, <2>2, <2>3, PushOrNot
<1>3. CASE \/ ChildrenStep \/ UNCHANGED vars
           \/ \E t \in Tasks : CreateChild(t) \/ TailStep(t) \/ Unwind(t)
  BY <1>1, <1>3 DEF CreateChild, ChildrenStep, ChildStep, ChildStops, CallSchedule, TailStep,
     ReceiveTail, StoreNotRunning, TailUser, TailTerminated, TailInternal,
     TailSchedule, Unwind, vars, mailboxVars
<1>4. ASSUME NEW t \in Tasks, LoopStep(t) PROVE OrderInv'
  <2>1. UNCHANGED accepted
    BY <1>4, LoopOwner
  <2>2. CASE FetchQueued(t)
    <3>1. message_queue # <<>> /\ message_queue' = Tail(message_queue)
      BY <2>2 DEF FetchQueued
    <3>2. /\ Len(message_queue') = Len(message_queue) - 1
          /\ \A i \in 1..Len(message_queue') : message_queue'[i] = message_queue[i + 1]
      BY <3>1 DEF TypeOK, MailboxTypeOK
    <3>3. /\ Len(message_queue) \in Nat /\ Len(accepted) \in Nat
          /\ Len(message_queue) # 0
      BY <3>1 DEF TypeOK, MailboxTypeOK
    <3>4. ASSUME NEW i \in 1..Len(message_queue')
          PROVE  message_queue'[i] = accepted[(Len(accepted) - Len(message_queue')) + i]
      <4>1. i + 1 \in 1..Len(message_queue)
        BY <3>2, <3>3
      <4>2. message_queue[i + 1] = accepted[(Len(accepted) - Len(message_queue)) + (i + 1)]
        BY <4>1 DEF OrderInv
      <4>3. (Len(accepted) - Len(message_queue)) + (i + 1)
              = (Len(accepted) - Len(message_queue')) + i
        BY <3>2, <3>3
      <4> QED
        BY <3>2, <4>2, <4>3
    <3> QED
      BY <2>1, <3>2, <3>3, <3>4, PushedForGood DEF OrderInv
  <2>3. CASE ~FetchQueued(t)
    <3>1. ProcessInternal(t) => UNCHANGED message_queue
      BY InternalCases DEF InLoop
    <3>2. ~ProcessInternal(t) => UNCHANGED message_queue
      BY <1>4, <2>3 DEF LoopStep, Begin, Drain, terminate, InternalDone,
         FetchUnstashed, FetchNothing, Handle, InLoop
    <3> QED
      BY <1>1, <2>1, <3>1, <3>2
  <2> QED
    BY <2>2, <2>3
<1> QED
  BY <1>2, <1>3, <1>4 DEF Next

LEMMA OrderCorrect == Spec => []OrderInv
<1>1. Init => OrderInv
  BY DEF Init, MailboxInit, OrderInv, Elements, Threads
<1>2. TypeOK /\ OrderInv /\ [Next]_vars => OrderInv'
  BY OrderStep
<1> QED
  BY <1>1, <1>2, TypeCorrect, PTL DEF Spec

-----------------------------------------------------------------------------
(* Every accepted message is in exactly one place.                         *)

Places == Elements(message_queue) \cup Elements(unstashed) \cup Elements(stash)
            \cup Current \cup handled

\* Which places are apart from which, and what is in them.
PlaceInv ==
  /\ Distinct(message_queue) /\ Distinct(unstashed) /\ Distinct(stash)
  /\ Elements(message_queue) \cap (Elements(unstashed) \cup Elements(stash)) = {}
  /\ Elements(unstashed) \cap Elements(stash) = {}
  /\ (Current \cup handled)
       \cap (Elements(message_queue) \cup Elements(unstashed) \cup Elements(stash)) = {}
  /\ Current \cap handled = {}
  /\ Places \subseteq Elements(accepted)
  /\ Elements(accepted) = Places \/ life = "gone"

\* An actor that is gone stays so.
LEMMA GoneForGood ==
  ASSUME [Next]_vars, life = "gone"
  PROVE  life' = "gone"
<1>1. ASSUME NEW t \in Tasks, LoopStep(t) PROVE life' = "gone"
  BY <1>1 DEF LoopStep, Begin, Drain, ProcessInternal, terminate, InternalDone,
     FetchUnstashed, FetchQueued, FetchNothing, Take, Handle, dispatcherVars
<1> QED
  BY <1>1 DEF Next, CallsStep, ChildrenStep, CreateChild, TailStep, Unwind, vars,
     dispatcherVars

LEMMA PlaceFrame ==
  ASSUME PlaceInv, UNCHANGED <<message_queue, unstashed, stash, msg, handled, accepted>>,
         life = "gone" => life' = "gone"
  PROVE  PlaceInv'
BY DEF PlaceInv, Places, Current

LEMMA PlaceCall ==
  ASSUME TypeOK, OrderInv, PlaceInv, NEW c \in Calls, CallStep(c), UNCHANGED dispatcherVars
  PROVE  PlaceInv'
<1>1. CASE UNCHANGED <<message_queue, accepted>>
  BY <1>1, PlaceFrame DEF dispatcherVars
<1>2. CASE /\ pc[c] = "push"
           /\ message_queue' = Append(message_queue, c)
           /\ accepted' = Append(accepted, c)
  <2>1. c \notin Elements(accepted)
    BY <1>2 DEF OrderInv
  <2>2. /\ Elements(message_queue') = Elements(message_queue) \cup {c}
        /\ Elements(accepted') = Elements(accepted) \cup {c}
    BY <1>2, ElementsAppend DEF TypeOK, MailboxTypeOK
  <2>3. Distinct(message_queue')
    BY <1>2, <2>1, DistinctAppend DEF PlaceInv, Places, TypeOK, MailboxTypeOK
  <2>4. UNCHANGED <<unstashed, stash, handled, life, Current>>
    BY DEF dispatcherVars, Current
  <2> QED
    BY <2>1, <2>2, <2>3, <2>4 DEF PlaceInv, Places
<1> QED
  BY <1>1, <1>2, PushOrNot

\* terminate() empties both buffers of a context that is gone from then on.
LEMMA PlaceTerminate ==
  ASSUME PlaceInv, NEW t \in Tasks, terminate(t)
  PROVE  PlaceInv'
<1>1. Elements(unstashed') = {} /\ Elements(stash') = {}
  BY DEF terminate, Elements
<1>2. Distinct(unstashed') /\ Distinct(stash')
  BY DEF terminate, Distinct
<1>3. UNCHANGED <<Current, message_queue, handled, accepted>>
  BY DEF Current, terminate, InLoop
<1> QED
  BY <1>1, <1>2, <1>3 DEF PlaceInv, Places, terminate

LEMMA PlaceFetch ==
  ASSUME TypeOK, MutualExclusion, PlaceInv, NEW t \in Tasks,
         FetchUnstashed(t) \/ FetchQueued(t)
  PROVE  PlaceInv'
<1>1. Current = {}
  <2>1. msg[t] = NoMessage
    BY DEF FetchUnstashed, FetchQueued, Step, TypeOK
  <2> QED
    BY <2>1, LoopCurrent DEF LoopStep
<1>2. UNCHANGED <<stash, handled, life, accepted>>
  BY DEF FetchUnstashed, FetchQueued, Take
<1>3. CASE FetchUnstashed(t)
  <2>1. Take(t, Head(unstashed)) /\ unstashed # <<>> /\ unstashed' = Tail(unstashed)
    BY <1>3 DEF FetchUnstashed
  <2>2. Head(unstashed) \in Calls
    BY <2>1 DEF TypeOK
  <2>3. Current' = {Head(unstashed)}
    BY <1>3, <2>1, <2>2, LoopCurrent DEF LoopStep, Take, TypeOK
  <2>4. /\ Elements(unstashed) = {Head(unstashed)} \cup Elements(unstashed')
        /\ Head(unstashed) \notin Elements(unstashed')
        /\ Distinct(unstashed')
    BY <2>1, ElementsTail, DistinctTail DEF PlaceInv, TypeOK
  <2>5. UNCHANGED message_queue
    BY <1>3 DEF FetchUnstashed
  <2> QED
    BY <1>1, <1>2, <2>3, <2>4, <2>5 DEF PlaceInv, Places
<1>4. CASE FetchQueued(t)
  <2>1. Take(t, Head(message_queue)) /\ message_queue # <<>>
        /\ message_queue' = Tail(message_queue)
    BY <1>4 DEF FetchQueued
  <2>2. Head(message_queue) \in Calls
    BY <2>1 DEF TypeOK, MailboxTypeOK
  <2>3. Current' = {Head(message_queue)}
    BY <1>4, <2>1, <2>2, LoopCurrent DEF LoopStep, Take, TypeOK
  <2>4. /\ Elements(message_queue) = {Head(message_queue)} \cup Elements(message_queue')
        /\ Head(message_queue) \notin Elements(message_queue')
        /\ Distinct(message_queue')
    BY <2>1, ElementsTail, DistinctTail DEF PlaceInv, TypeOK, MailboxTypeOK
  <2>5. UNCHANGED unstashed
    BY <1>4 DEF FetchQueued
  <2> QED
    BY <1>1, <1>2, <2>3, <2>4, <2>5 DEF PlaceInv, Places
<1> QED
  BY <1>3, <1>4

LEMMA PlaceHandle ==
  ASSUME TypeOK, MutualExclusion, PlaceInv, NEW t \in Tasks, Handle(t)
  PROVE  PlaceInv'
<1> DEFINE c == msg[t]
<1>1. c \in Calls /\ msg'[t] = NoMessage
  BY DEF Handle, InLoop, Step, TypeOK
<1>2. Current = {c} /\ Current' = {}
  BY <1>1, LoopCurrent DEF LoopStep
<1>3. UNCHANGED <<message_queue, accepted, life>>
  BY DEF Handle, InLoop
<1> HIDE DEF c
<1>4. CASE Finish(c) /\ UNCHANGED unstashed
  BY <1>2, <1>3, <1>4 DEF Finish, PlaceInv, Places
<1>5. CASE Stash(c)
  <2>1. stash' = Append(stash, c) /\ UNCHANGED <<unstashed, handled>>
    BY <1>5 DEF Stash
  <2>2. Elements(stash') = Elements(stash) \cup {c}
    BY <1>1, <2>1, ElementsAppend DEF TypeOK
  <2>3. Distinct(stash')
    BY <1>1, <1>2, <2>1, DistinctAppend DEF PlaceInv, TypeOK
  <2> QED
    BY <1>2, <1>3, <2>1, <2>2, <2>3 DEF PlaceInv, Places
<1>6. CASE UnstashAll(c)
  <2>1. /\ unstashed' = unstashed \o stash /\ stash' = <<>>
        /\ handled' = handled \cup {c}
    BY <1>6 DEF UnstashAll
  <2>2. /\ Elements(unstashed') = Elements(unstashed) \cup Elements(stash)
        /\ Distinct(unstashed')
    BY <2>1, ElementsConcat, DistinctConcat DEF PlaceInv, TypeOK
  <2>3. Elements(stash') = {} /\ Distinct(stash')
    BY <2>1 DEF Elements, Distinct
  <2> QED
    BY <1>2, <1>3, <2>1, <2>2, <2>3 DEF PlaceInv, Places
<1> QED
  BY <1>4, <1>5, <1>6 DEF Handle, Consume, StopSelf, c

LEMMA PlaceStep ==
  ASSUME TypeOK, MutualExclusion, OrderInv, PlaceInv, [Next]_vars
  PROVE  PlaceInv'
<1>1. life = "gone" => life' = "gone"
  BY GoneForGood
<1>2. CASE CallsStep
  BY <1>2, PlaceCall DEF CallsStep
<1>3. CASE ChildrenStep \/ UNCHANGED vars \/ \E t \in Tasks : CreateChild(t) \/ TailStep(t)
  BY <1>3, PlaceFrame DEF CreateChild, ChildrenStep, ChildStep, ChildStops, CallSchedule,
     TailStep, ReceiveTail, StoreNotRunning, TailUser, TailTerminated, TailInternal,
     TailSchedule, vars, mailboxVars, dispatcherVars
<1>4. ASSUME NEW t \in Tasks, LoopStep(t) PROVE PlaceInv'
  <2>1. CASE Begin(t) \/ Drain(t) \/ InternalDone(t) \/ FetchNothing(t)
    BY <1>1, <2>1, PlaceFrame DEF Begin, Drain, InternalDone, FetchNothing, InLoop,
       dispatcherVars
  <2>2. CASE ProcessInternal(t)
    <3>1. UNCHANGED <<message_queue, unstashed, stash, msg, handled, accepted>>
      BY <2>2, InternalCases DEF InLoop
    <3> QED
      BY <1>1, <3>1, PlaceFrame
  <2> QED
    BY <1>4, <2>1, <2>2, PlaceTerminate, PlaceFetch, PlaceHandle DEF LoopStep
<1>5. ASSUME NEW t \in Tasks, Unwind(t) PROVE PlaceInv'
  <2>1. UNCHANGED <<message_queue, unstashed, stash, accepted>>
    BY <1>5 DEF Unwind
  <2>2. CASE UNCHANGED <<msg, handled>>
    BY <1>1, <2>1, <2>2, PlaceFrame
  <2>3. CASE /\ tpc[t] = "handle" /\ handled' = handled \cup {msg[t]}
             /\ msg' = [msg EXCEPT ![t] = NoMessage]
    <3>1. Current = {msg[t]} /\ Current' = {}
      BY <1>5, <2>3, LoopCurrent DEF TypeOK
    <3> QED
      BY <1>1, <2>1, <2>3, <3>1 DEF PlaceInv, Places
  <2> QED
    BY <1>5, <2>2, <2>3 DEF Unwind
<1> QED
  BY <1>2, <1>3, <1>4, <1>5 DEF Next

LEMMA PlaceCorrect == Spec => []PlaceInv
<1>1. Init => PlaceInv
  BY DEF Init, MailboxInit, PlaceInv, Places, Current, Elements, Distinct
<1>2. TypeOK /\ MutualExclusion /\ OrderInv /\ PlaceInv /\ [Next]_vars => PlaceInv'
  BY PlaceStep
<1> QED
  BY <1>1, <1>2, TypeCorrect, ExclusionCorrect, OrderCorrect, PTL DEF Spec

\* No accepted message is lost, duplicated or held in two places, whatever is
\* stashed, unstashed or in a handler when the next one arrives.
THEOREM AcceptedCorrect == Spec => []AcceptedOnce
<1>1. TypeOK /\ OrderInv /\ PlaceInv => AcceptedOnce
  <2> SUFFICES ASSUME TypeOK, OrderInv, PlaceInv PROVE AcceptedOnce
    OBVIOUS
  <2> DEFINE both == message_queue \o unstashed
  <2>1. message_queue = SubSeq(accepted, Len(accepted) - Len(message_queue) + 1, Len(accepted))
    <3> DEFINE first == Len(accepted) - Len(message_queue) + 1
               latest == SubSeq(accepted, first, Len(accepted))
    <3>1. /\ message_queue \in Seq(Calls) /\ accepted \in Seq(Calls)
          /\ Len(message_queue) \in Nat /\ Len(accepted) \in Nat
          /\ first \in Nat /\ first >= 1
          /\ Len(accepted) - first + 1 = Len(message_queue)
      BY DEF OrderInv, TypeOK, MailboxTypeOK
    <3>2. \A i \in first..Len(accepted) : accepted[i] \in Calls
      BY <3>1
    <3>3. /\ latest \in Seq(Calls) /\ Len(latest) = Len(message_queue)
          /\ \A i \in 1..Len(message_queue) : latest[i] = accepted[first + i - 1]
      BY <3>1, <3>2, SubSeqProperties
    <3>4. \A i \in 1..Len(message_queue) : message_queue[i] = latest[i]
      BY <3>1, <3>3 DEF OrderInv
    <3> QED
      BY <3>1, <3>3, <3>4, SeqEqual
  <2>2. /\ both \in Seq(Calls) /\ Distinct(both)
        /\ Elements(both) = Elements(message_queue) \cup Elements(unstashed)
    BY ElementsConcat, DistinctConcat DEF PlaceInv, TypeOK, MailboxTypeOK
  <2> HIDE DEF both
  <2>3. /\ Distinct(both \o stash)
        /\ Elements(both \o stash) = Elements(both) \cup Elements(stash)
    BY <2>2, ElementsConcat, DistinctConcat DEF PlaceInv, TypeOK
  <2>4. Buffered = both \o stash
    BY DEF Buffered, both, TypeOK, MailboxTypeOK
  <2>5. Elements(Buffered) \cap (Current \cup handled) = {}
    BY <2>2, <2>3, <2>4 DEF PlaceInv
  <2>6. Elements(accepted) = Elements(Buffered) \cup Current \cup handled \/ life = "gone"
    BY <2>2, <2>3, <2>4 DEF PlaceInv, Places
  <2>7. Len(message_queue) <= Len(accepted) /\ Current \cap handled = {}
    BY DEF OrderInv, PlaceInv
  <2>8. \A i, j \in DOMAIN Buffered : Buffered[i] = Buffered[j] => i = j
    BY <2>3, <2>4 DEF Distinct
  <2> QED
    BY <2>1, <2>5, <2>6, <2>7, <2>8 DEF AcceptedOnce
<1> QED
  BY <1>1, TypeCorrect, OrderCorrect, PlaceCorrect, PTL

-----------------------------------------------------------------------------
(* The refinement.  Each step of the dispatcher is a step of the serial     *)
(* actor or none.                                                          *)

\* What a step must leave alone to be none.
LEMMA Stutter ==
  ASSUME UNCHANGED <<accepted, message_queue, msg, stash, unstashed, handled, terminated>>
  PROVE  UNCHANGED Serial!vars
BY DEF Serial!vars, Current

LEMMA InitSerial == Init => Serial!Init
BY DEF Init, MailboxInit, Serial!Init, Current

\* A push is an arrival.
LEMMA CallSerial ==
  ASSUME TypeOK, OrderInv, NEW c \in Calls, CallStep(c), UNCHANGED dispatcherVars
  PROVE  [Serial!Next]_(Serial!vars)
<1>1. UNCHANGED <<terminated, msg, stash, unstashed, handled>>
  BY DEF CallStep, Send, Stop, PushMessage, CallSchedule, WatchCall, PushWatch,
     WatchReturns, dispatcherVars
<1>2. CASE UNCHANGED <<message_queue, accepted>>
  BY <1>1, <1>2, Stutter
<1>3. CASE /\ pc[c] = "push"
           /\ message_queue' = Append(message_queue, c)
           /\ accepted' = Append(accepted, c)
  <2>1. \A i \in DOMAIN accepted : accepted[i] # c
    BY <1>3 DEF OrderInv, Elements
  <2>2. Len(accepted') - Len(message_queue') = Len(accepted) - Len(message_queue)
    BY <1>3 DEF TypeOK, MailboxTypeOK
  <2>3. UNCHANGED <<Current, stash, unstashed, handled, terminated>>
    BY <1>1 DEF Current
  <2>4. Serial!Arrive(c)
    BY <1>3, <2>1, <2>2, <2>3 DEF Serial!Arrive
  <2> QED
    BY <2>4 DEF Serial!Next
<1> QED
  BY <1>2, <1>3, PushOrNot

LEMMA FetchSerial ==
  ASSUME TypeOK, MutualExclusion, OrderInv, NEW t \in Tasks,
         FetchUnstashed(t) \/ FetchQueued(t)
  PROVE  Serial!Next
<1>1. Current = {}
  <2>1. msg[t] = NoMessage
    BY DEF FetchUnstashed, FetchQueued, Step, TypeOK
  <2> QED
    BY <2>1, LoopCurrent DEF LoopStep
<1>2. ~terminated /\ UNCHANGED <<accepted, handled, terminated, stash>>
  BY DEF FetchUnstashed, FetchQueued, Take
<1>3. CASE FetchUnstashed(t)
  <2> DEFINE m == Head(unstashed)
  <2>1. Take(t, m) /\ unstashed # <<>> /\ unstashed' = Tail(unstashed)
        /\ UNCHANGED message_queue
    BY <1>3 DEF FetchUnstashed
  <2>2. m \in Calls
    BY <2>1 DEF TypeOK
  <2>3. Current' = {m}
    BY <1>3, <2>1, <2>2, LoopCurrent DEF LoopStep, Take, TypeOK
  <2>4. Serial!TakeReleased
    BY <1>1, <1>2, <2>1, <2>3 DEF Serial!TakeReleased
  <2> QED
    BY <2>4 DEF Serial!Next
<1>4. CASE FetchQueued(t)
  <2> DEFINE m == Head(message_queue)
  <2>1. /\ Take(t, m) /\ unstashed = <<>> /\ UNCHANGED unstashed
        /\ message_queue # <<>> /\ message_queue' = Tail(message_queue)
    BY <1>4 DEF FetchQueued
  <2>2. m \in Calls
    BY <2>1 DEF TypeOK, MailboxTypeOK
  <2>3. Current' = {m}
    BY <1>4, <2>1, <2>2, LoopCurrent DEF LoopStep, Take, TypeOK
  <2>4. /\ Len(message_queue) \in Nat /\ Len(accepted) \in Nat
        /\ Len(message_queue) >= 1 /\ Len(message_queue') = Len(message_queue) - 1
        /\ m = message_queue[1]
    BY <2>1 DEF TypeOK, MailboxTypeOK
  <2>5. m = accepted[(Len(accepted) - Len(message_queue)) + 1]
    BY <2>4 DEF OrderInv
  <2> HIDE DEF m
  <2>6. Serial!TakeNext
    BY <1>1, <1>2, <2>1, <2>3, <2>4, <2>5 DEF Serial!TakeNext
  <2> QED
    BY <2>6 DEF Serial!Next
<1> QED
  BY <1>3, <1>4

LEMMA HandleSerial ==
  ASSUME TypeOK, MutualExclusion, NEW t \in Tasks, Handle(t)
  PROVE  Serial!Next
<1> DEFINE c == msg[t]
<1>1. c \in Calls /\ msg'[t] = NoMessage
  BY DEF Handle, InLoop, Step, TypeOK
<1>2. Current = {c} /\ Current' = {}
  BY <1>1, LoopCurrent DEF LoopStep
<1>3. UNCHANGED <<message_queue, accepted, terminated>>
  BY DEF Handle, InLoop
<1> HIDE DEF c
<1>4. CASE Finish(c) /\ UNCHANGED unstashed
  <2>1. Serial!Finish
    BY <1>2, <1>3, <1>4 DEF Finish, Serial!Finish
  <2> QED
    BY <2>1 DEF Serial!Next
<1>5. CASE Stash(c)
  <2>1. Serial!Defer(c)
    BY <1>2, <1>3, <1>5 DEF Stash, Serial!Defer
  <2> QED
    BY <1>1, <2>1 DEF Serial!Next
<1>6. CASE UnstashAll(c)
  <2>1. Serial!Finish
    BY <1>2, <1>3, <1>6 DEF UnstashAll, Serial!Finish
  <2> QED
    BY <2>1 DEF Serial!Next
<1> QED
  BY <1>4, <1>5, <1>6 DEF Handle, Consume, StopSelf, c

\* Internal messages run between two handlers; closing is the step that shows.
LEMMA InternalSerial ==
  ASSUME TypeOK, MutualExclusion, NEW t \in Tasks, ProcessInternal(t)
  PROVE  [Serial!Next]_(Serial!vars)
<1>1. UNCHANGED <<accepted, message_queue, msg, handled, stash, unstashed>>
  BY InternalCases DEF InLoop
<1>2. Current = {} /\ UNCHANGED Current
  <2>1. msg[t] = NoMessage
    BY InternalCases DEF InLoop, Step, TypeOK
  <2> QED
    BY <1>1, <2>1, LoopCurrent DEF LoopStep, Current
<1>3. CASE UNCHANGED terminated
  BY <1>1, <1>3, Stutter
<1>4. CASE terminated' = TRUE
  <2>1. Serial!Close
    BY <1>1, <1>2, <1>4 DEF Serial!Close
  <2> QED
    BY <2>1 DEF Serial!Next
<1> QED
  BY <1>3, <1>4 DEF ProcessInternal, OnCreated, OnWatch, OnTerminate, OnChildTerminate

\* The drop of the context takes both buffers with it; the mailbox is closed by then.
LEMMA TerminateSerial ==
  ASSUME TypeOK, MutualExclusion, ClosedInv, NEW t \in Tasks, terminate(t)
  PROVE  Serial!Next
<1>1. UNCHANGED <<accepted, message_queue, msg, handled, terminated>>
  BY DEF terminate, InLoop
<1>2. tpc[t] = "exit" /\ stash' = <<>> /\ unstashed' = <<>>
  BY DEF terminate, InLoop, Step
<1>3. Current = {} /\ UNCHANGED Current
  <2>1. msg[t] = NoMessage
    BY <1>2 DEF TypeOK
  <2> QED
    BY <1>1, <2>1, LoopCurrent DEF LoopStep, Current
<1>4. terminated = TRUE
  BY <1>2 DEF ClosedInv, TypeOK, MailboxTypeOK
<1>5. Serial!Close
  BY <1>1, <1>2, <1>3, <1>4 DEF Serial!Close
<1> QED
  BY <1>5 DEF Serial!Next

\* A panic in a callback ends a handler or shows nothing.
LEMMA UnwindSerial ==
  ASSUME TypeOK, MutualExclusion, NEW t \in Tasks, Unwind(t)
  PROVE  [Serial!Next]_(Serial!vars)
<1>1. UNCHANGED <<accepted, message_queue, stash, unstashed, terminated>>
  BY DEF Unwind
<1>2. CASE UNCHANGED <<msg, handled>>
  BY <1>1, <1>2, Stutter
<1>3. CASE /\ tpc[t] = "handle" /\ handled' = handled \cup {msg[t]}
           /\ msg' = [msg EXCEPT ![t] = NoMessage]
  <2>1. Current = {msg[t]} /\ Current' = {}
    BY <1>3, LoopCurrent DEF TypeOK
  <2>2. Serial!Finish
    BY <1>1, <1>3, <2>1 DEF Serial!Finish
  <2> QED
    BY <2>2 DEF Serial!Next
<1> QED
  BY <1>2, <1>3 DEF Unwind

LEMMA StepSerial ==
  ASSUME TypeOK, MutualExclusion, OrderInv, ClosedInv, [Next]_vars
  PROVE  [Serial!Next]_(Serial!vars)
<1>1. CASE CallsStep
  BY <1>1, CallSerial DEF CallsStep
<1>2. CASE ChildrenStep \/ UNCHANGED vars \/ \E t \in Tasks : CreateChild(t) \/ TailStep(t)
  BY <1>2, Stutter DEF CreateChild, ChildrenStep, ChildStep, ChildStops, CallSchedule,
     TailStep, ReceiveTail, StoreNotRunning, TailUser, TailTerminated, TailInternal,
     TailSchedule, vars, mailboxVars, dispatcherVars
<1>3. ASSUME NEW t \in Tasks, LoopStep(t) PROVE [Serial!Next]_(Serial!vars)
  <2>1. CASE Begin(t) \/ Drain(t) \/ InternalDone(t) \/ FetchNothing(t)
    BY <2>1, Stutter DEF Begin, Drain, InternalDone, FetchNothing, InLoop,
       dispatcherVars
  <2> QED
    BY <1>3, <2>1, FetchSerial, HandleSerial, InternalSerial, TerminateSerial
       DEF LoopStep
<1>4. ASSUME NEW t \in Tasks, Unwind(t) PROVE [Serial!Next]_(Serial!vars)
  BY <1>4, UnwindSerial
<1> QED
  BY <1>1, <1>2, <1>3, <1>4 DEF Next

\* The mailbox, its tasks and the dispatcher implement the serial actor: one
\* handler at a time, messages taken once and in the order they were queued,
\* stashed messages first once released and in the order they were stashed,
\* nothing after close().
THEOREM SerialCorrect == Spec => ImplementsSerialActor
<1>1. TypeOK /\ MutualExclusion /\ OrderInv /\ ClosedInv /\ [Next]_vars
        => [Serial!Next]_(Serial!vars)
  BY StepSerial
<1> QED
  BY <1>1, InitSerial, TypeCorrect, ExclusionCorrect, OrderCorrect, ClosedCorrect,
     PTL DEF Spec, ImplementsSerialActor, Serial!Spec

=============================================================================
