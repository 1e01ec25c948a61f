# Verification of ruactor

TLA+ models of the actor runtime in `src/src`, checked with TLC on small
instances, and theorems about each of them checked with TLAPS for every
instance: all safety invariants, all action properties and the refinement.
`PROJECT.json` lists components, runs, findings, hazards and
theorems, and maps each definition to the lines it models.

## The system

| component | state | operations | talks to |
|---|---|---|---|
| Mailbox (`actor/mailbox.rs`) | `message_queue` (crossbeam `SegQueue`, or `ArrayQueue` when bounded), `internal_queue`, the atomics `running` and `terminated`, the dispatcher in an `UnsafeCell` | `send`, `try_send`, `send_internal`, `schedule`, `close`, the task `receive()` | spawns `receive()` on tokio; `receive()` runs the dispatcher |
| Handles (`actor/mod.rs`: `ActorRef`, `InternalActorRef`, `AutoRef`, `ParentRef`) | an `Arc` of the mailbox | `tell`, `try_tell`, `stop`, `graceful_stop`, `wait_stop`, `watch` | any thread, on any mailbox |
| Dispatcher (`actor/dispatcher.rs`) | parent, actor, context, watchers, last message time | `actor_loop`, `next_message`, `on_internal_message`, `on_message`, `process_message`, `check_become`, `on_enter`, `on_exit`, `terminate` | the user's callbacks; the parent's mailbox; the watchers' channels |
| Context (`actor/context.rs`) | stash, unstashed, timers, children, receive timeout, pending behaviour, suspend reason | what handlers call: `stash`, `unstash_all`, `stop_self`, `create_child`, `get_or_create_child`, `transit`, `start_single_timer`, `cancel_timer`, `set_receive_timeout`, ... | the scheduler's queue, its own mailbox, new mailboxes |
| Scheduler (`actor/mod.rs`) | a queue of tasks, a heap, a thread; a `cancelled` flag per task | `after_func`, the loop in `run`, `Close` on drop | `send` on mailboxes |
| Registry (`system.rs`) | `HashMap` of top-level actors under an `RwLock`, held by `Arc`s (system clones) and `Weak`s (`RootActorStoper`) | `get_actor`, `create_actor`, `get_or_create_actor`, the report of an actor that ended, `Drop for UserGuard` | mailboxes of top-level actors |
| `ask!`, `reply_to!` (`lib.rs`) | a oneshot channel per request, whose sending half is in the message | make the channel, `try_tell`, wait under a timeout; reply once | the actor; whoever the actor gives the sending half to |
| `ActorPath` (`path.rs`) | a sequence of names | `root`, `parent`, `key`, `at_level`, the relations (on text), `/`, `Display`, `From` | children's names in the context, the registry's keys |
| Props (`system.rs`) | none of its own | builders | |

**Hard behaviours.** Anyone may push while a `receive()` task is leaving; two tasks of
one actor overlap in the tail of `receive()`; `running` alone guards the `UnsafeCell`;
closing races with senders and with watchers; a stop waits for children that stop by
themselves; panics are caught around `on_message()` only; cancelling a timer races with
the scheduler thread and with a message that is already queued; callbacks that change
the behaviour run inside one another, and a handler may panic after it asked for a
change; a reply channel wanders through queues, stash, behaviours and futures while its
caller's clock runs; a name of a child is used again while its old owner is still
reporting; the registry's last `Arc` may die in a caller or in the task of a terminating
actor; its read lock is taken recursively.

**What makes each part correct.** Mailbox: exclusion, no lost wakeup, nothing
handled after close. Dispatcher: messages once and in order, stash first, a stop
that completes, children before parent. Watch: never forgotten. Timers: no stale
delivery, no timeout without silence since a message that was stamped, live timers
fire. Behaviours: entered before they are
used, exited once, none waiting while a message is handled. Requests: each open
channel has one owner that can still answer. Children: none outlives its parent
unnoticed, names tell them apart. Registry: one actor per path,
exactly those alive, all of them stopped with the system.

## Modules

* `Mailbox` - queues, flags, `schedule()`, the calls of other threads (`pc`,
  `op`: one call per member of `Calls`, one atomic operation per action) and the
  tail of `receive()` (`tpc` per task). `Children` are threads too: a child that
  ends reports through `send_internal()` like any other thread. A child stands for
  one mailbox; several may be created under one name (`ChildName`).
* `Dispatcher` EXTENDS `Mailbox` - `actor_loop()` of the task that owns the
  flag, internal messages, termination, handlers. A handler's effect is chosen
  freely among finish (or panic: the message is gone, the actor replaced),
  `stop_self`, `stash`, `unstash_all`; before it, and in the first `on_enter()` and
  in `on_exit()` (task position `exit`, between the last internal message and
  `terminate`), callbacks create any number of children (`CreateChild`). One of a name
  that is taken replaces the entry; `disowned` records who lost an entry. `Unwind`
  is a panic in `on_enter`/`on_exit`, outside `catch_unwind`: the task dies with
  `running` set.
* `SerialActor` - the abstract specification: one handler at a time, messages in
  the order they were queued, released ones before new ones and in the order they
  were deferred (`deferred` and `released` are sequences), none after close.
  `Dispatcher` instantiates it (`Serial`) under the mapping given there.
* `StoreBuffer` EXTENDS `Dispatcher` - the same with the Release store of
  `running` allowed to stay in a store buffer.
* `Timers` - one actor's context, its messages of three kinds, and the scheduler
  thread. `start_single_timer()` and `schedule_receive_timeout()` are two actions
  each: `after_func()` queues the task, `Assign` replaces the old `Scheduled`;
  the scheduler thread may run in between. Time is a counter of ticks. Closing
  the mailbox and dropping the context are one action (`Terminate`). `heard` is
  history: when the actor really had its last message, which is not always what
  `last_message_timestamp` says; `stamped` tells whether it had to be kept.
* `Ask` - the caller's side of `ask!`: the call, the push, and the result, which
  depends on what became of the channel (`open`, `sent`, `dropped`).
* `Lifecycle` EXTENDS `Ask` - one actor as its behaviours see it. `current` and
  `pending` are `Dispatcher::actor` and `ActorContext::actor`; `todo` is the call
  stack of `check_become()`, `on_exit()` and `on_enter()`, one user callback per
  step. `Callback` is any user code: it gives each reply channel in reach a fate
  (reply, drop, keep, move to the next behaviour, lend to a future, stash), and may
  transit and unstash. `crossed` records the two cases in which callbacks cannot
  pair: a transit in `on_exit()`, and a handler that transits and then panics.
* `ActorPath` - the operations on paths, names being sequences of characters over
  `Alphabet`; `Whitespace` is what `trim()` takes away.
* `Supervision` EXTENDS `ActorPath` - a tree of actors, each one record (path,
  type, table of children, counter of names, stage of its end) and one internal
  queue. Handlers create, find and replace children; `stop()` may hit any actor;
  `terminate()` may create any number of children in `on_exit()`. Names are any text,
  as in the code, with "/" or blank too. An entry holds one actor of a
  name, a report says only the path: `disowned` records who lost an entry.
* `System` - the registry. Critical sections that wait for nothing are one
  action; `guarded` is the one thread state in which a read lock is held across
  another acquisition. `RwLock`, `Arc` and `Weak` are external: a writer that
  waits holds readers back (std on Linux), a panic under the write lock poisons.
  An actor may `Hang`: a callback that does not return, or panics uncaught, leaves it
  open (`hung`) or closed and without a report (`wedged`). `lost` says that the
  PoisonPill of the `wait_stop()` in progress met a full mailbox (finding 4).
* `MC...` - the instances.
* `DispatcherProofs`, `SystemProofs`, `TimersProofs`, `LifecycleProofs`,
  `ChannelProofs`, `PathProofs`, `SupervisionProofs` - the theorems, one module per
  model (`ChannelProofs` goes on from `LifecycleProofs`, `SupervisionProofs` uses
  `PathProofs`). `Buffers` and `BufferLemmas` - the elements of a queue and
  what appending, taking and joining do to them, for the proofs that need them.

Definitions commented "Variant:" are plausible mistakes that no behaviour uses;
substituting one for the definition after it makes a property fail, which shows
that the property is about that code.

## Runs

| run | instance | shows |
|---|---|---|
| `DispatcherSafety` | 2 calls, 1 child, 2 tasks, throughput 2, panics | `TypeOK`, `MutualExclusion`, `NoLostWakeup`, `WatchNotLost`, `StopObserved`, `NoHandlingAfterClose` |
| `DispatcherSerial` | 3 calls, bounded mailbox of 2, throughput 2 | `AcceptedOnce`, `ImplementsSerialActor` |
| `DispatcherLiveness` | 1 call, 2 children of one name, 2 tasks, throughput 1, unbounded | `ParentOutlivesChildren`, `Delivery`, `StopReturns`, `StopCompletes` |
| `Timers` | 1 name, 3 tasks, durations 1 and 2, 4 ticks, generations 0..2 | `TypeOK`, `SleepsWhenNoneDue`, `StaleNeverDelivered`, `TimeoutAfterSilence`, `SchedulerStops` |
| `SystemRegistry` | 3 clones, one outside a runtime, 2 paths, 3 calls | `TypeOK`, `Registered`, `DropWaits`, `DropStopsAll` |
| `Lifecycle` | 2 requests, bounded mailbox of 1, 4 behaviours and 1 panic (a fifth) | `TypeOK`, `ReadyActor`, `Paired`, `ChannelOwned`, `EndedReleases`, `Settles` |
| `Supervision` | 4 actors, 2 stops, 2 types, names "$b" and "$b/a", 3 numbers in base 2 | `TypeOK`, `NoOtherOrphans`, `ChildTable`, `PathsTell`, `AnonymousNew`, `StopEndsTree` |
| `UnstashStall` | | violates `NoStalledUnstash` |
| `GracefulStopFull` | bounded mailbox of 1 | violates `StopReturns` |
| `StoreBuffer` | | violates `NoStall` |
| `TimerFires` | | violates `TimerFires` |
| `RecursiveRead` | 2 clones, 2 calls | violates `GetOrCreateReturns` |

**Bounds.** Two calls and two tasks already give every race of the flag: a task leaving,
one arriving, a sender in each half of its call (a third task can only be a second one
in the tail; tasks are anonymous). Two stop requests and a child give each order of
Terminate, Watch and ChildTerminate; in `DispatcherLiveness` two children of one name,
created in `on_enter()`, handlers or `on_exit()`, give a replacement, the late report
that takes its successor out of the table before or after the stop, and a child nobody
waits for. One call is enough there: it is raced by the reports of two children, which
push and schedule like calls do, and `NoLostWakeup` and `WatchNotLost`, on which
liveness rests, are checked with two and proved for any number. Three messages on a ring
of two give a refused push, a stash and a reordering chance. Throughput 1 and 2 give a
turn that ends by count and one that ends by an empty queue. In `Timers` three tasks
give one timer in use, one replaced and one receive timeout; a handler asks for no task
that could not become due before the clock stops (`Room`), and a receive timeout that
would need one is not scheduled again. With as many live tasks as generations a wrap of
the `u32` could meet a stale message; `MaxGen` is chosen so that it does not, as 2^32
starts during one queued message do not happen. In `System` three calls give a name used
by two actors after one another while a third call is in progress.

In `Lifecycle` four behaviours give a first one, a successor, a transit out of
`on_exit()` in the middle of that change and one more on top of it; the panic
comes before, in or after any of them. Two requests let one be kept while the
other is handled, and the bound of 1 lets `try_tell()` refuse. In `Supervision`
four actors give a root with an old child, its replacement and a grandchild or a
third namesake, or three anonymous children, whose names "$a", "$b" and "$ab"
include two with a common prefix and one that handlers use themselves; two stops
let a child end before, while or after its parent does. `PathsTell` compares all
pairs of paths of up to three of these names. The name "$b/a" makes text and tree
disagree: as text "/u/a/$b/a" is below "/u/a/$b", whether it is the child "a" of that
actor or the child "$b/a" of the one above. `PathsTell` claims that text above means an
actor above only of paths without such names; without that condition the run finds
it false. "u" stands for "user", and the digits are two for `BASE64CHARS`.

**Deadlock** is not checked: every system here may come to rest (no more calls,
an actor that is gone, a wedged one).

**Fairness.** `Dispatcher`: weak fairness for each task (tokio polls a spawned
task; handlers return), for a thread that is inside a call of the library, and
for a child that was told to stop. The last is `StopCompletes` of that child: the
parent uses `stop()`, which goes through the internal queue and is never refused, and
the child ends unless a callback of it panics or hangs, which the runs on liveness
leave out (`Unwinding` is FALSE there). Starting a call, creating a child, stopping
unasked and panicking are never forced. `Timers`: the actor's task, the scheduler
thread and the clock; not the drop of the system. `System`: threads inside the
registry go on when the lock lets them, and so does an actor that reports. An actor
closes when the request to stop has reached it, unless it hangs: that a request
reaches it is not assumed, since a full bounded mailbox refuses the PoisonPill of
`wait_stop()` (finding 4), and nothing keeps an actor from hanging. `DropStopsAll`
therefore has three ways out, poisoning, an actor that hangs and a lost PoisonPill,
and says that there is no fourth. `Lifecycle`: the task goes on with its
stack, and a closed actor's children end; that stacks do end rests on callbacks
that transit finitely often (`MaxBehaviours`), since an `on_enter()` that always
transits to another behaviour that does the same recurses for ever. `Supervision`:
an actor with internal messages is polled.

## Findings

1. `TimerFires`: `SchedulerTask::is_active()` (`actor/mod.rs:251`) returns
   `cancelled` itself. The thread drops live tasks and fires cancelled ones
   (harmless for timers, since the generation stops them). With `\notin` for
   `\in` in `is_active` the property holds on the same instance, so nothing else
   in the model refutes it.
2. `NoStalledUnstash`: the tail of `receive()` (`actor/mailbox.rs:182`) does not
   count `unstashed`. A turn that reaches the throughput (500 by default) with
   unstashed messages left and both queues empty leaves them behind; with a
   throughput of 1 one stashed message is enough.
3. `NoStall`: `running` is stored with Release (`actor/mailbox.rs:180`) and then
   the queues are read: the store-buffer pattern. `NoLostWakeup` holds (and is
   proved) when the memory is sequentially consistent.
4. `StopReturns` on a full bounded mailbox: the PoisonPill is lost and
   `graceful_stop()` waits for ever (`actor/mod.rs:44`, `mailbox.rs:319`).
5. `GetOrCreateReturns`: the recursive read lock (`system.rs:358-359`).

No comment or test speaks of the following, so no run counts them as
disagreements; the passing runs show them as the only exceptions to their
properties.

* A `transit()` in `on_exit()` while a successor is pending: the successor is
  exited without having been entered, and the last one is entered twice
  (`dispatcher.rs:75-79`). In `terminate()` a behaviour is entered and never
  exited. A handler that calls `transit()` and panics: the new behaviour is
  entered, then replaced without its `on_exit()` (`dispatcher.rs:228-232`). Hence
  `~crossed` in `Paired`.
* A request in the queue of an actor that ends is not dropped with the context: its
  caller waits for the whole timeout (`EndedReleases`).
* Three ways to a child that outlives its parent (`NoOtherOrphans`,
  `ParentOutlivesChildren`): replacement by `get_or_create_child()` with another type,
  the late report of the replaced one, which takes its successor out of the table,
  and creation in `on_exit()`.
* A message handled while no receive timeout is set leaves no time stamp
  (`dispatcher.rs:168`). If its handler sets one, the expired task of a timeout that
  was cancelled before may be reported right behind it, without any silence; finding 1
  makes the scheduler fire such tasks. Hence `stamped` in `TimeoutAfterSilence`.
* `graceful_stop()` and `wait_stop()` of a mailbox that is closed already return at
  once, before its children have ended and `on_exit()` has run (`mod.rs:58`):
  `StopObserved` says that the mailbox is closed, not that the actor has ended.
* A child's name may hold "/" (`context.rs:212`), and its path then reads like that of a
  grandchild (`PathsTell`).
* `create_child()` returns an existing actor when its counter has wrapped or a
  handler chose such a name (`AnonymousNew`).
* The empty path is the parent of every path of length one, and of itself, and the
  ancestor of none (`TextAgrees`).

## Proofs

For every value of the constants, bounds included, that the named assumptions of
the modules allow. They ask for what the models need to make sense: counts and
bounds are numbers, `None` and `NoMessage` are not among the values they stand
apart from, there is a first clone of the system, a message type, a base of at
least two digits that are all different; names are text; "/", "$" and "u" are
characters and not white space. TLC evaluates each of them on the runs. One
theorem has a hypothesis of its own, `NoWrap`.

| module | theorem | property |
|---|---|---|
| `DispatcherProofs` | `TypeCorrect` | `[]TypeOK` |
| | `ExclusionCorrect` | `[]MutualExclusion` |
| | `WakeupCorrect` | `[]NoLostWakeup` |
| | `ChildrenCorrect` | `[]ParentOutlivesChildren` |
| | `StopCorrect` | `[]StopObserved` |
| | `CloseCorrect` | `NoHandlingAfterClose` |
| | `WatchCorrect` | `[]WatchNotLost` |
| | `AcceptedCorrect` | `[]AcceptedOnce` |
| | `SerialCorrect` | `ImplementsSerialActor`, that is `Serial!Spec` |
| `SystemProofs` | `TypeCorrect` | `[]TypeOK` |
| | `RegisteredCorrect` | `[]Registered` |
| | `DropCorrect` | `[]DropWaits` |
| `TimersProofs` | `TypeCorrect` | `[]TypeOK` |
| | `SleepCorrect` | `[]SleepsWhenNoneDue` |
| | `TimeoutCorrect` | `TimeoutAfterSilence` |
| | `StaleCorrect` | `StaleNeverDelivered`, given `NoWrap` |
| `LifecycleProofs` | `TypeCorrect` | `[]TypeOK` |
| | `ReadyCorrect` | `[]ReadyActor` |
| | `PairedCorrect` | `[]Paired` |
| `ChannelProofs` | `OwnedCorrect` | `[]ChannelOwned` |
| | `EndedCorrect` | `[]EndedReleases` |
| `SupervisionProofs` | `TypeCorrect` | `[]TypeOK` |
| | `TableCorrect` | `[]ChildTable` |
| | `OrphansCorrect` | `[]NoOtherOrphans` |
| | `AnonymousCorrect` | `AnonymousNew` |
| | `PathsCorrect` | `[]PathsTell` |
| `PathProofs` | `TextCorrect` | `TextMeansNames` of any two paths of plain names |

Each property is also checked by a run, `TextMeansNames` as the part `TextAgrees` of
`PathsTell`.

**Dispatcher.** The argument goes up in layers, each invariant proved under those below
it. `TypeOK` comes first: it ties `msg` and `count` to the position of the task.
`MutualExclusion` is inductive with it because it says more than exclusion: `running` is
equivalent to "some task owns, or one was lost to a panic", so a won compare-exchange
means that no task owns. `NoLostWakeup` is inductive once exclusion is known: a task
that leaves the tail having seen an empty queue leaves only if whoever pushes afterwards
still has its own `schedule()` ahead. `ParentOutlivesChildren` needs `LifeInv`: every
child that lives is in `childrens` or in `disowned`; from the moment `terminate()`
begins, so before `on_exit()` runs, none is in the table and alive, and what `on_exit()`
creates is disowned at once; a report in the queue is from a child that has ended; and
each position of a task fits the stage of the actor's life. `StopObserved` needs
`ClosedInv`: a suspended or gone actor and a used reply channel all imply a closed
mailbox. `WatchNotLost` is inductive with `LifeInv`: the only step that takes a request
out of the queue answers it or lists it, and the only step that empties the list answers
it. `NoHandlingAfterClose` follows from `TypeOK`, action by action.

**The serial actor.** `Dispatcher` implements `SerialActor` step by step: the
push of a message is `Arrive`, taking one `TakeNext` or `TakeReleased`, `Handle`
becomes `Finish` or `Defer`, closing the mailbox and dropping the context with the
stash become `Close`, and everything else stutters. That the concrete step takes
the message the abstract one would take is `OrderInv`: the queue is the end of
`accepted`. That only one handler runs is `MutualExclusion`. `AcceptedOnce`
needs `PlaceInv`: stash, unstashed messages, handler, queue and the handled ones
are disjoint, hold no message twice, and hold what was accepted and nothing else,
until the actor is gone.

**Registry.** `Registered` (a caller that looks up finds the actor that lives)
and `DropWaits` are proved together with `CountInv` (actors are born in order, and
each call in progress has one left), `PathInv`, `ArcInv` (as long as somebody holds
an `Arc` the drop has not begun, so two threads never drop) and `DropInv`: while the
last owner goes through the keys, every open actor is in the map and either
still ahead or being waited for.

**Timers.** `SleepsWhenNoneDue` is inductive with the types of what is under way
(`PlacesInv`) and a count (`CountInv`): what is queued, in the heap and reported never
exceeds the tasks made. `TimeoutAfterSilence` needs `PlacesInv`, which says that a
timeout in the mailbox has expired, and `StampInv`: a message that was handled while a
timeout was set is the one whose time is kept. `StaleNeverDelivered` needs `HeldInv`
(what the context holds is not cancelled, and no two slots hold the same task) and
`GenInv`: each generation in use, in a queue, in the heap or in the mailbox belongs to
one task, and the next one to none. That is false once `timer_gen` has wrapped with an
old message still queued, so the theorem assumes `NoWrap`, no more tasks than
generations, as in module `Timers` a task is a call of `after_func()`; the code counts
in a `u32`. The other three theorems do not assume it.

**Behaviours.** The call stack has a shape (`Shape`: a `Check` or `Exit` is on top
or nowhere, a `Create` or `Report` at the bottom) and what is on it says what
happens next (`Control`: while a behaviour is pending the top of the stack is about to
make it current). So a message, which is handed over only when the stack is empty,
finds no successor pending; `EnterInv` adds that what is current was entered or will
be, and that nothing is exited twice. `Paired` needs `PairInv`: as long as nothing
was crossed, transitions are made at the bottom of the stack only (`Straight`),
and entering and exiting are counted by what is current, pending or on the stack
(`Counted`).

**Reply channels.** `SoleInv` says of each open channel that it is in exactly one
of the queue, the stash, the released messages, a spawned future and the
behaviours; its lemma follows one callback through the fates of what it has
in hand, with and without a `transit()`. `KeptInv` says that behaviours that are
gone hold nothing, `BufferInv` that no message is queued twice.

**Tree.** `NoOtherOrphans` alone is not inductive: that an actor may end rests on
its table. `ChildTable` is its strengthening, and is not inductive either: a
report names a path, so handling it may remove a namesake. It becomes inductive with
`ReportInv` (a report in a queue is from a child of that actor which has ended, and
no child has two) and `EntryInv` (an entry is a child of that name). When an actor
ends, each of its children is in the table, and then accounted for by the step,
or not, and then has reported or lost its entry.

**Names.** A name in a table comes from a handler or from a number below the
counter (`NamesInv`, until the counter wraps), so the next name is free unless
handlers use it: `base64` gives no two numbers one text (`Base64Injective`). The
first digit is the number modulo the base, the rest is the text of the quotient, and
the least number that shared its text would leave a smaller one that does.

**Paths.** `TextCorrect` says that text means names for paths of any length:
splitting, filtering and joining take one character or one name at a time
(`SplitAppend`, `NotBlankAppend`, `WrittenAppend`), hence `From(to_string(path)) =
path`; and tokens that are complete stay when text is appended (`TokensStay`), hence
a text with "/" after it is the start of another only if its names are the
first ones there. `PathInv` ties names to the tree: the path of an actor is that of
its parent and one name more, and so the names of one path come first in another
exactly if an actor above has that path (`AboveAll`), for any names. In text the one
direction holds for any names too (`PrefixIsAncestor`), the other for plain names
(`AncestorIsPrefix`).

**Induction.** The library's induction theorems take operators as parameters, which the
provers here cannot instantiate. `PathProofs` goes over sets: a set of numbers
that is not empty has a least element (`LeastElement`), so one that holds 0 and each
successor holds all (`SetInduction`), and likewise for sequences
(`SeqInduction`). That a recursive definition has a solution at all is proved the same
way, for folds (`FoldExists`) and for functions that ask for smaller arguments
(`Solution`, used for `base64` and `Ancestors`).

**Only model-checked.** All liveness (`Delivery`, `StopReturns`, `StopCompletes`,
`SchedulerStops`, `DropStopsAll`, `Settles`, `StopEndsTree`), which is out of the
prover's reach, like ENABLED; and the counterexamples of the findings.

## Not modelled

Dedicated runtimes and the thread pool that drops them: tokio's and rayon's
shutdown, of which this code only orders two calls. `TokioChannelQueue` (unused).
Builders of `Props`. `benchmark_actor_loop()`, which enters the dispatcher without
the flag. The examples, which are clients: what their handlers do is among the
choices of `Callback` and `Handle`. A panic in `Props::create()` (it ends the task
like one in `on_enter()`) and what a callback did before it panicked. In
`Dispatcher` behaviours do not change, and children have no children of their own;
that is in `Lifecycle` and `Supervision`, where in turn an internal message and a
callback are one step and one task runs the actor, as `Dispatcher` shows. In `System`
what keeps an actor from closing or reporting is the one action `Hang`.

## Plan

1. Done: `Mailbox`, `Dispatcher`, `SerialActor`, `StoreBuffer`, `Timers`,
   `System`, `Ask`, `Lifecycle`, `ActorPath`, `Supervision`.
2. Done: the proofs above.
3. Left: what holds of `Timers` after a wrap of the generation; the hazards of
   `PROJECT.json` that have no property.
