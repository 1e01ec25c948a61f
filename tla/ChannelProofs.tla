---------------------------- MODULE ChannelProofs ----------------------------
(***************************************************************************)
(* Who owns the sending halves of the reply channels, whatever the user's  *)
(* code does with them.                                                    *)
(***************************************************************************)
EXTENDS LifecycleProofs

USE AskAssumption, LifecycleAssumption
    DEF AskAssumption, LifecycleAssumption, None, Behaviours

-----------------------------------------------------------------------------
(* The invariant.                                                          *)

\* The sending half of a's channel, while it is open, is in one place: a buffer, a
\* spawned future, a behaviour, or (in the middle of a step) in the hands of a callback.
Sole(a, queue, released, stashed, spawned, kept, got, chan) ==
  /\ chan[a] = "open" <=> \/ a \in queue \cup released \cup stashed \cup spawned \cup got
                          \/ \E b \in Behaviours : a \in kept[b]
  /\ a \in queue => a \notin released \cup stashed \cup spawned \cup got
  /\ a \in released => a \notin stashed \cup spawned \cup got
  /\ a \in stashed => a \notin spawned \cup got
  /\ a \in spawned => a \notin got
  /\ \A b \in Behaviours : a \in kept[b] =>
       /\ a \notin queue \cup released \cup stashed \cup spawned \cup got
       /\ \A c \in Behaviours : a \in kept[c] => b = c

AllSole(queue, released, stashed, spawned, kept, got, chan) ==
  \A a \in Asks : Sole(a, queue, released, stashed, spawned, kept, got, chan)

SoleInv ==
  AllSole(Elements(message_queue), Elements(unstashed), Elements(stash), lent, held, {}, channel)

BufferInv ==
  /\ Distinct(message_queue) /\ Distinct(unstashed) /\ Distinct(stash)
  /\ life = "gone" => stash = <<>> /\ unstashed = <<>>

KeptInv   == \A b \in Behaviours : held[b] # {} => b \in Living
UnusedInv == \A a \in Asks : asker[a] \in {"start", "push"} => channel[a] = "unused"

OwnInv == SoleInv /\ BufferInv /\ KeptInv /\ UnusedInv

-----------------------------------------------------------------------------
(* Callbacks.                                                              *)

\* What a behaviour has after a callback of b, with or without a transit().
MovedHeld(fate, b) ==
  \A c \in Behaviours :
    held'[c] = IF c = born + 1 THEN With(fate, "move")
               ELSE IF c = pending THEN {}
               ELSE IF c = b THEN With(fate, "keep") ELSE held[c]

StayedHeld(fate, b) ==
  \A c \in Behaviours : held'[c] = IF c = b THEN With(fate, "keep") ELSE held[c]

LEMMA CallbackHeld ==
  ASSUME TypeOK, NEW b \in Behaviours, NEW got, NEW released,
         NEW fate, Fated(fate, b, got, released)
  PROVE  \/ /\ born < MaxBehaviours /\ born' = born + 1 /\ pending' = born + 1
            /\ born + 1 \in Behaviours /\ MovedHeld(fate, b)
            /\ Settle(With(fate, "reply"), With(fate, "drop") \cup held[pending])
         \/ /\ With(fate, "move") = {} /\ UNCHANGED <<born, pending>> /\ StayedHeld(fate, b)
            /\ Settle(With(fate, "reply"), With(fate, "drop"))
<1>1. /\ held \in [Behaviours \cup {None} -> SUBSET Asks] /\ born \in Nat
      /\ pending \in Behaviours \cup {None}
  BY DEF TypeOK
<1>2. CASE /\ born < MaxBehaviours /\ born' = born + 1 /\ pending' = born + 1
           /\ held' = [[held EXCEPT ![b] = With(fate, "keep")]
                         EXCEPT ![pending] = {}, ![born + 1] = With(fate, "move")]
           /\ Settle(With(fate, "reply"), With(fate, "drop") \cup held[pending])
  <2>1. born + 1 \in Behaviours
    BY <1>1, <1>2
  <2>2. MovedHeld(fate, b)
    BY <1>1, <1>2, <2>1 DEF MovedHeld
  <2> QED
    BY <1>2, <2>1, <2>2
<1>3. CASE /\ With(fate, "move") = {}
           /\ held' = [held EXCEPT ![b] = With(fate, "keep")]
           /\ Settle(With(fate, "reply"), With(fate, "drop"))
           /\ UNCHANGED <<born, pending>>
  <2>1. StayedHeld(fate, b)
    BY <1>1, <1>3 DEF StayedHeld
  <2> QED
    BY <1>3, <2>1
<1> QED
  BY <1>2, <1>3 DEF Fated

\* The two buffers of messages that were put aside.
LEMMA CallbackBuffers ==
  ASSUME TypeOK, NEW b \in Behaviours, NEW got \in SUBSET Asks, IsFiniteSet(got),
         NEW released \in Seq(Asks), NEW fate \in [held[b] \cup got -> Fates],
         Fated(fate, b, got, released), Distinct(released), Distinct(stash),
         Elements(released) \cap Elements(stash) = {}, Elements(stash) \cap got = {}
  PROVE  /\ Distinct(unstashed') /\ Distinct(stash')
         /\ \/ /\ Elements(unstashed') = Elements(released)
               /\ Elements(stash') = Elements(stash) \cup With(fate, "stash")
            \/ /\ Elements(unstashed') = Elements(released) \cup Elements(stash)
               /\ Elements(stash') = With(fate, "stash")
<1>1. With(fate, "stash") \in SUBSET got /\ IsFiniteSet(With(fate, "stash"))
  BY FS_Subset DEF Fated
<1>2. PICK new : new = SetToSeq(With(fate, "stash"))
  OBVIOUS
<1>3. /\ new \in Seq(Asks) /\ Elements(new) = With(fate, "stash") /\ Distinct(new)
  <2>1. new \in Seq(With(fate, "stash")) /\ Elements(new) = With(fate, "stash") /\ Distinct(new)
    BY <1>1, <1>2, SetToSeqElements
  <2> QED
    BY <1>1, <2>1
<1>4. stash \in Seq(Asks)
  BY DEF TypeOK
<1>5. CASE stash' = stash \o new /\ unstashed' = released
  <2>1. Elements(stash) \cap Elements(new) = {}
    BY <1>1, <1>3
  <2> QED
    BY <1>3, <1>4, <1>5, <2>1, ElementsConcat, DistinctConcat
<1>6. CASE stash' = new /\ unstashed' = released \o stash
  BY <1>3, <1>4, <1>6, ElementsConcat, DistinctConcat
<1> QED
  BY <1>2, <1>5, <1>6 DEF Fated

\* Whatever a callback does with the channels it is given and with its own, each
\* one that is still open has one owner.
LEMMA CallbackSole ==
  ASSUME TypeOK, NEW b \in 1..born, b \in Behaviours, b # pending, pending <= born,
         NEW got \in SUBSET Asks, NEW released,
         NEW fate \in [held[b] \cup got -> Fates], Fated(fate, b, got, released),
         \/ /\ Elements(unstashed') = Elements(released)
            /\ Elements(stash') = Elements(stash) \cup With(fate, "stash")
         \/ /\ Elements(unstashed') = Elements(released) \cup Elements(stash)
            /\ Elements(stash') = With(fate, "stash"),
         \A c \in Behaviours : c > born => held[c] = {},
         NEW a \in Asks, NEW q,
         Sole(a, q, Elements(released), Elements(stash), lent, held, got, channel)
  PROVE  /\ Sole(a, q, Elements(unstashed'), Elements(stash'), lent', held', {}, channel')
         /\ channel[a] = "unused" => channel'[a] = "unused"
<1>1. \A f : a \in With(fate, f) <=> a \in held[b] \cup got /\ fate[a] = f
  BY DEF With
<1>2. a \in held[b] \cup got => fate[a] \in Fates
  OBVIOUS
<1>3. a \in lent' <=> a \in lent \/ a \in With(fate, "lend")
  BY DEF Fated
<1>4. born \in Nat /\ pending \in Nat
  BY DEF TypeOK
<1>5. held[None] = {}
  BY DEF TypeOK
<1>6. CASE /\ born < MaxBehaviours /\ born' = born + 1 /\ pending' = born + 1
           /\ born + 1 \in Behaviours /\ MovedHeld(fate, b)
           /\ Settle(With(fate, "reply"), With(fate, "drop") \cup held[pending])
  <2>1. channel'[a] = IF a \in With(fate, "reply") THEN "sent"
                      ELSE IF a \in With(fate, "drop") \cup held[pending] THEN "dropped"
                      ELSE channel[a]
    BY <1>6, SettleTypes
  <2>2. \A c \in Behaviours : a \in held'[c] <=>
          \/ c = born + 1 /\ a \in With(fate, "move")
          \/ c = b /\ a \in With(fate, "keep")
          \/ c \notin {born + 1, pending, b} /\ a \in held[c]
    BY <1>4, <1>6 DEF MovedHeld
  <2>3. a \notin held[born + 1]
    BY <1>4, <1>6
  <2>4. CASE a \notin held[b] \cup got
    <3>1. \A c \in Behaviours : a \in held'[c] <=> c # pending /\ a \in held[c]
      BY <1>1, <1>6, <2>2, <2>3, <2>4
    <3>2. channel'[a] = IF a \in held[pending] THEN "dropped" ELSE channel[a]
      BY <1>1, <2>1, <2>4
    <3>3. pending \in Behaviours \cup {None}
      BY DEF TypeOK
    <3>4. CASE a \in held[pending]
      BY <1>1, <1>3, <1>5, <2>4, <3>1, <3>2, <3>3, <3>4 DEF Sole
    <3>5. CASE a \notin held[pending]
      <4>1. \A c \in Behaviours : a \in held'[c] <=> a \in held[c]
        BY <3>1, <3>5
      <4> QED
        BY <1>1, <1>3, <2>4, <3>2, <3>5, <4>1 DEF Sole
    <3> QED
      BY <3>4, <3>5
  <2>5. CASE a \in held[b] \cup got
    <3>1. /\ channel[a] = "open" /\ a \notin q \cup Elements(released) \cup Elements(stash) \cup lent
          /\ \A c \in Behaviours : a \in held[c] => c = b
      BY <2>5 DEF Sole
    <3>2. a \notin held[pending]
      BY <1>5, <3>1 DEF TypeOK
    <3>3. \A c \in Behaviours : a \in held'[c] <=>
            \/ c = born + 1 /\ fate[a] = "move"
            \/ c = b /\ fate[a] = "keep"
      BY <1>1, <2>2, <2>5, <3>1
    <3>4. channel'[a] = IF fate[a] = "reply" THEN "sent"
                        ELSE IF fate[a] = "drop" THEN "dropped" ELSE "open"
      BY <1>1, <2>1, <2>5, <3>1, <3>2
    <3> QED
      BY <1>1, <1>2, <1>3, <1>6, <2>5, <3>1, <3>3, <3>4 DEF Sole, Fates
  <2> QED
    BY <2>4, <2>5
<1>7. CASE /\ With(fate, "move") = {} /\ StayedHeld(fate, b)
           /\ Settle(With(fate, "reply"), With(fate, "drop"))
  <2>1. channel'[a] = IF a \in With(fate, "reply") THEN "sent"
                      ELSE IF a \in With(fate, "drop") THEN "dropped" ELSE channel[a]
    BY <1>7, SettleTypes
  <2>2. \A c \in Behaviours : a \in held'[c] <=>
          \/ c = b /\ a \in With(fate, "keep")
          \/ c # b /\ a \in held[c]
    BY <1>7 DEF StayedHeld
  <2>3. CASE a \notin held[b] \cup got
    <3>1. /\ \A c \in Behaviours : a \in held'[c] <=> a \in held[c]
          /\ channel'[a] = channel[a]
      BY <1>1, <2>1, <2>2, <2>3
    <3> QED
      BY <1>1, <1>3, <2>3, <3>1 DEF Sole
  <2>4. CASE a \in held[b] \cup got
    <3>1. /\ channel[a] = "open" /\ a \notin q \cup Elements(released) \cup Elements(stash) \cup lent
          /\ \A c \in Behaviours : a \in held[c] => c = b
      BY <2>4 DEF Sole
    <3>2. \A c \in Behaviours : a \in held'[c] <=> c = b /\ fate[a] = "keep"
      BY <1>1, <2>2, <2>4, <3>1
    <3>3. /\ channel'[a] = IF fate[a] = "reply" THEN "sent"
                           ELSE IF fate[a] = "drop" THEN "dropped" ELSE "open"
          /\ fate[a] # "move"
      BY <1>1, <1>7, <2>1, <2>4, <3>1
    <3> QED
      BY <1>1, <1>2, <1>3, <2>4, <3>1, <3>2, <3>3 DEF Sole, Fates
  <2> QED
    BY <2>3, <2>4
<1> QED
  BY <1>6, <1>7, CallbackHeld

-----------------------------------------------------------------------------
(* The behaviours that are still there.                                    *)

LEMMA StackNames ==
  ASSUME NEW t
  PROVE  {t[i][2] : i \in DOMAIN t} = {c[2] : c \in Elements(t)}
  BY DEF Elements

LEMMA LivingBorn ==
  ASSUME TypeOK, StackInv
  PROVE  \A b \in Living : b \in 1..born
<1>1. /\ current \in Nat /\ pending \in Nat /\ born \in Nat
      /\ current <= born /\ pending <= born
  BY TypedCounters DEF Counters, StackInv, Control
<1>2. \A b \in OnStack : b \in 1..born
  <2> SUFFICES ASSUME NEW i \in DOMAIN todo, todo[i][2] # None
               PROVE  todo[i][2] \in 1..born
    BY DEF OnStack
  <2>1. todo[i] \in CallSet
    BY DEF StackInv, Shape
  <2>2. todo[i][1] \in {"exit", "drop"}
    BY <2>1, CallCases
  <2> QED
    BY <2>2 DEF StackInv, Shape
<1> QED
  BY <1>1, <1>2 DEF Living

\* A callback of b leaves nothing with a behaviour that is not there any more, as
\* long as b itself and all others that were there still are.
LEMMA CallbackKept ==
  ASSUME TypeOK, KeptInv, NEW b \in Behaviours, NEW got, NEW released, NEW fate,
         Fated(fate, b, got, released),
         b \in Living', (({current} \cup OnStack) \ {None}) \subseteq Living'
  PROVE  KeptInv'
<1> SUFFICES ASSUME NEW c \in Behaviours, held'[c] # {}
             PROVE  c \in Living'
  BY DEF KeptInv
<1>1. CASE pending' = born + 1 /\ MovedHeld(fate, b)
  <2>1. c \in {pending', b} \/ (c # pending /\ held[c] # {})
    BY <1>1 DEF MovedHeld
  <2>2. c = b \/ c = pending' \/ c \in {current} \cup OnStack
    BY <2>1 DEF KeptInv, Living
  <2> QED
    BY <2>2 DEF Living
<1>2. CASE UNCHANGED pending /\ StayedHeld(fate, b)
  <2>1. c = b \/ held[c] # {}
    BY <1>2 DEF StayedHeld
  <2>2. c = b \/ c = pending' \/ c \in {current} \cup OnStack
    BY <1>2, <2>1 DEF KeptInv, Living
  <2> QED
    BY <2>2 DEF Living
<1> QED
  BY <1>1, <1>2, CallbackHeld

\* All of it: a callback of b, given the channels `got` that were taken from the
\* buffers before.
LEMMA CallbackOwn ==
  ASSUME TypeOK, StackInv, KeptInv, NEW b \in Behaviours, b \in 1..born, b # pending,
         NEW got \in SUBSET Asks, IsFiniteSet(got), NEW released \in Seq(Asks),
         Callback(b, got, released), Distinct(released), Distinct(stash), NEW q,
         AllSole(q, Elements(released), Elements(stash), lent, held, got, channel),
         b \in Living', (({current} \cup OnStack) \ {None}) \subseteq Living'
  PROVE  /\ AllSole(q, Elements(unstashed'), Elements(stash'), lent', held', {}, channel')
         /\ \A a \in Asks : channel[a] = "unused" => channel'[a] = "unused"
         /\ Distinct(unstashed') /\ Distinct(stash')
         /\ KeptInv'
<1>1. PICK fate \in [held[b] \cup got -> Fates] : Fated(fate, b, got, released)
  BY CallbackFate
<1>2. /\ Elements(released) \subseteq Asks /\ Elements(stash) \subseteq Asks
  BY DEF TypeOK, Elements
<1>3. Elements(released) \cap Elements(stash) = {} /\ Elements(stash) \cap got = {}
  BY <1>2 DEF Sole, AllSole
<1>4. /\ Distinct(unstashed') /\ Distinct(stash')
      /\ \/ /\ Elements(unstashed') = Elements(released)
            /\ Elements(stash') = Elements(stash) \cup With(fate, "stash")
         \/ /\ Elements(unstashed') = Elements(released) \cup Elements(stash)
            /\ Elements(stash') = With(fate, "stash")
  BY <1>1, <1>3, CallbackBuffers
<1>5. \A c \in Behaviours : c > born => held[c] = {}
  BY LivingBorn, TypedCounters DEF KeptInv, Counters
<1>6. pending <= born
  BY DEF StackInv, Control
<1>7. KeptInv'
  BY <1>1, CallbackKept
<1>8. ASSUME NEW a \in Asks
      PROVE  /\ Sole(a, q, Elements(unstashed'), Elements(stash'), lent', held', {}, channel')
             /\ channel[a] = "unused" => channel'[a] = "unused"
  <2>1. Sole(a, q, Elements(released), Elements(stash), lent, held, got, channel)
    BY DEF AllSole
  <2> QED
    BY <1>1, <1>4, <1>5, <1>6, <2>1, CallbackSole
<1> QED
  BY <1>4, <1>7, <1>8 DEF AllSole

-----------------------------------------------------------------------------
(* The other ways a channel is dropped.                                    *)

\* The behaviours of a set are dropped with all they own.
LEMMA DropSole ==
  ASSUME TypeOK, NEW B \in SUBSET (Behaviours \cup {None}),
         \A b \in Behaviours : held'[b] = IF b \in B THEN {} ELSE held[b],
         Settle({}, UNION {held[b] : b \in B}),
         UNCHANGED <<message_queue, unstashed, stash, lent>>,
         SoleInv
  PROVE  SoleInv' /\ \A a \in Asks : channel[a] = "unused" => channel'[a] = "unused"
<1> SUFFICES ASSUME NEW a \in Asks
             PROVE  /\ Sole(a, Elements(message_queue), Elements(unstashed), Elements(stash),
                            lent, held', {}, channel')
                    /\ channel[a] = "unused" => channel'[a] = "unused"
  BY DEF SoleInv, AllSole
<1>1. Sole(a, Elements(message_queue), Elements(unstashed), Elements(stash), lent, held, {},
           channel)
  BY DEF SoleInv, AllSole
<1>2. channel'[a] = IF \E b \in B : a \in held[b] THEN "dropped" ELSE channel[a]
  <2>1. channel'[a] = IF a \in UNION {held[b] : b \in B} THEN "dropped" ELSE channel[a]
    BY SettleTypes
  <2> QED
    BY <2>1
<1>3. CASE \E b \in B : a \in held[b]
  <2>1. PICK b \in B : a \in held[b]
    BY <1>3
  <2>2. b \in Behaviours
    BY <2>1 DEF TypeOK
  <2>3. /\ channel[a] = "open" /\ channel'[a] = "dropped"
        /\ a \notin Elements(message_queue) \cup Elements(unstashed) \cup Elements(stash) \cup lent
        /\ \A c \in Behaviours : a \in held[c] => c = b
    BY <1>1, <1>2, <1>3, <2>1, <2>2 DEF Sole
  <2>4. \A c \in Behaviours : a \notin held'[c]
    BY <2>1, <2>3
  <2> QED
    BY <2>3, <2>4 DEF Sole
<1>4. CASE ~(\E b \in B : a \in held[b])
  <2>1. channel'[a] = channel[a] /\ \A c \in Behaviours : a \in held'[c] <=> a \in held[c]
    BY <1>2, <1>4
  <2> QED
    BY <1>1, <2>1 DEF Sole
<1> QED
  BY <1>3, <1>4

\* terminate() drops both buffers of the context.
LEMMA ReportSole ==
  ASSUME TypeOK, SoleInv, ReportEnd
  PROVE  SoleInv' /\ \A a \in Asks : channel[a] = "unused" => channel'[a] = "unused"
<1> SUFFICES ASSUME NEW a \in Asks
             PROVE  /\ Sole(a, Elements(message_queue), {}, {}, lent, held, {}, channel')
                    /\ channel[a] = "unused" => channel'[a] = "unused"
  BY ElementsSmall DEF SoleInv, AllSole, ReportEnd
<1>1. Sole(a, Elements(message_queue), Elements(unstashed), Elements(stash), lent, held, {},
           channel)
  BY DEF SoleInv, AllSole
<1>2. Elements(stash \o unstashed) = Elements(stash) \cup Elements(unstashed)
  BY ElementsConcat DEF TypeOK
<1>3. channel'[a] = IF a \in Elements(stash) \cup Elements(unstashed) THEN "dropped"
                    ELSE channel[a]
  BY <1>2, SettleTypes DEF ReportEnd
<1> QED
  BY <1>1, <1>3 DEF Sole

\* A future that was spawned ends.
LEMMA FutureSole ==
  ASSUME TypeOK, SoleInv, NEW f \in Asks, FutureEnds(f)
  PROVE  SoleInv' /\ \A a \in Asks : channel[a] = "unused" => channel'[a] = "unused"
<1> SUFFICES ASSUME NEW a \in Asks
             PROVE  /\ Sole(a, Elements(message_queue), Elements(unstashed), Elements(stash),
                            lent \ {f}, held, {}, channel')
                    /\ channel[a] = "unused" => channel'[a] = "unused"
  BY DEF SoleInv, AllSole, FutureEnds
<1>1. Sole(a, Elements(message_queue), Elements(unstashed), Elements(stash), lent, held, {},
           channel)
  BY DEF SoleInv, AllSole
<1>2. /\ a # f => channel'[a] = channel[a]
      /\ a = f => channel'[a] \in {"sent", "dropped"} /\ a \in lent
  BY SettleTypes DEF FutureEnds
<1> QED
  BY <1>1, <1>2 DEF Sole

\* A caller's step: a channel is opened, or it was never in anyone's hands.
LEMMA AskOwn ==
  ASSUME TypeOK, SoleInv, UnusedInv, Distinct(message_queue), NEW c \in Asks, AskStep(c),
         UNCHANGED lifeVars
  PROVE  SoleInv' /\ UnusedInv' /\ Distinct(message_queue')
<1>1. UNCHANGED <<held, lent, stash, unstashed>>
  BY DEF lifeVars
<1>2. \A a \in Asks : Sole(a, Elements(message_queue), Elements(unstashed), Elements(stash),
                           lent, held, {}, channel)
  BY DEF SoleInv, AllSole
<1>3. asker \in [Asks -> {"start", "push", "waiting", "ok", "recv_error", "timeout", "send_error"}]
      /\ channel \in [Asks -> {"unused", "open", "sent", "dropped"}]
      /\ message_queue \in Seq(Asks)
  BY DEF TypeOK, AskTypeOK
<1>4. CASE /\ asker[c] \in {"start", "push"} /\ Refused(c)
  <2>1. /\ UNCHANGED message_queue /\ asker' = [asker EXCEPT ![c] = "send_error"]
        /\ \A a \in Asks : channel'[a] = IF a = c THEN "dropped" ELSE channel[a]
    BY <1>4, SettleTypes DEF Refused, Becomes
  <2>2. channel[c] = "unused"
    BY <1>4 DEF UnusedInv
  <2>3. ASSUME NEW a \in Asks
        PROVE  Sole(a, Elements(message_queue), Elements(unstashed), Elements(stash),
                    lent, held, {}, channel')
    BY <1>2, <2>1, <2>2 DEF Sole
  <2>4. SoleInv'
    BY <1>1, <2>1, <2>3 DEF SoleInv, AllSole
  <2>5. UnusedInv'
    BY <1>3, <2>1 DEF UnusedInv
  <2> QED
    BY <2>1, <2>4, <2>5
<1>5. CASE /\ UNCHANGED <<channel, message_queue>>
           /\ \/ asker[c] = "start" /\ asker' = [asker EXCEPT ![c] = "push"]
              \/ \E to \in {"ok", "recv_error", "timeout"} : asker' = [asker EXCEPT ![c] = to]
  <2>1. SoleInv'
    BY <1>1, <1>5 DEF SoleInv, AllSole
  <2>2. UnusedInv'
    BY <1>3, <1>5 DEF UnusedInv
  <2> QED
    BY <1>5, <2>1, <2>2
<1>6. CASE /\ asker[c] = "push" /\ asker' = [asker EXCEPT ![c] = "waiting"]
           /\ channel' = [channel EXCEPT ![c] = "open"]
           /\ message_queue' = Append(message_queue, c)
  <2>1. channel[c] = "unused"
    BY <1>6 DEF UnusedInv
  <2>2. /\ c \notin Elements(message_queue) \cup Elements(unstashed) \cup Elements(stash) \cup lent
        /\ \A b \in Behaviours : c \notin held[b]
    BY <1>2, <2>1 DEF Sole
  <2>3. /\ Elements(message_queue') = Elements(message_queue) \cup {c}
        /\ Distinct(message_queue')
    BY <1>3, <1>6, <2>2, ElementsAppend, DistinctAppend
  <2>4. ASSUME NEW a \in Asks
        PROVE  Sole(a, Elements(message_queue'), Elements(unstashed), Elements(stash),
                    lent, held, {}, channel')
    <3>1. channel'[a] = IF a = c THEN "open" ELSE channel[a]
      BY <1>3, <1>6
    <3> QED
      BY <1>2, <2>2, <2>3, <3>1 DEF Sole
  <2>5. SoleInv'
    BY <1>1, <2>4 DEF SoleInv, AllSole
  <2>6. UnusedInv'
    BY <1>3, <1>6 DEF UnusedInv
  <2> QED
    BY <2>3, <2>5, <2>6
<1>7. CASE AskCall(c)
  BY <1>4, <1>5, <1>7 DEF AskCall, Becomes
<1>8. CASE AskPush(c)
  BY <1>4, <1>6, <1>8 DEF AskPush, Becomes
<1>9. CASE AskReturns(c)
  <2>1. \E to \in {"ok", "recv_error", "timeout"} : Becomes(c, to)
    BY <1>9 DEF AskReturns
  <2> QED
    BY <1>5, <1>9, <2>1 DEF AskReturns, Becomes
<1> QED
  BY <1>7, <1>8, <1>9 DEF AskStep

\* A message is taken from its buffer and given to the handler.
LEMMA HandleTakes ==
  ASSUME TypeOK, SoleInv, BufferInv, Handle
  PROVE  \E m \in Asks, released \in Seq(Asks) :
           /\ process_message(m, released)
           /\ Distinct(message_queue') /\ Distinct(released)
           /\ AllSole(Elements(message_queue'), Elements(released), Elements(stash), lent, held,
                      {m}, channel)
<1>1. /\ message_queue \in Seq(Asks) /\ unstashed \in Seq(Asks)
      /\ Distinct(message_queue) /\ Distinct(unstashed)
  BY DEF TypeOK, AskTypeOK, BufferInv
<1>2. \A a \in Asks : Sole(a, Elements(message_queue), Elements(unstashed), Elements(stash),
                           lent, held, {}, channel)
  BY DEF SoleInv, AllSole
<1>3. CASE /\ unstashed # <<>> /\ process_message(Head(unstashed), Tail(unstashed))
           /\ UNCHANGED message_queue
  <2>1. PICK m, released : m = Head(unstashed) /\ released = Tail(unstashed)
    OBVIOUS
  <2>2. /\ m \in Asks /\ released \in Seq(Asks) /\ Distinct(released)
        /\ m \notin Elements(released) /\ Elements(unstashed) = {m} \cup Elements(released)
    BY <1>1, <1>3, <2>1, ElementsTail, DistinctTail
  <2>3. ASSUME NEW a \in Asks
        PROVE  Sole(a, Elements(message_queue), Elements(released), Elements(stash),
                    lent, held, {m}, channel)
    BY <1>2, <2>2 DEF Sole
  <2> QED
    BY <1>1, <1>3, <2>1, <2>2, <2>3 DEF AllSole
<1>4. CASE /\ unstashed = <<>> /\ message_queue # <<>>
           /\ process_message(Head(message_queue), <<>>)
           /\ message_queue' = Tail(message_queue)
  <2>1. PICK m, queue : m = Head(message_queue) /\ queue = Tail(message_queue)
    OBVIOUS
  <2>2. /\ m \in Asks /\ queue \in Seq(Asks) /\ Distinct(queue)
        /\ m \notin Elements(queue) /\ Elements(message_queue) = {m} \cup Elements(queue)
    BY <1>1, <1>4, <2>1, ElementsTail, DistinctTail
  <2>3. ASSUME NEW a \in Asks
        PROVE  Sole(a, Elements(queue), Elements(<<>>), Elements(stash),
                    lent, held, {m}, channel)
    BY <1>2, <1>4, <2>2 DEF Sole
  <2>4. <<>> \in Seq(Asks) /\ Distinct(<<>>)
    BY DEF Distinct
  <2> QED
    BY <1>4, <2>1, <2>2, <2>3, <2>4 DEF AllSole
<1> QED
  BY <1>3, <1>4 DEF Handle

LEMMA HandleOwn ==
  ASSUME TypeOK, StackInv, OwnInv, Handle
  PROVE  OwnInv'
<1>1. PICK m \in Asks, released \in Seq(Asks) :
        /\ process_message(m, released)
        /\ Distinct(message_queue') /\ Distinct(released)
        /\ AllSole(Elements(message_queue'), Elements(released), Elements(stash), lent, held,
                   {m}, channel)
  BY HandleTakes DEF OwnInv
<1>2. PICK q : q = Elements(message_queue')
  OBVIOUS
<1>3. /\ Idle /\ life = "live" /\ UNCHANGED <<asker, life>> /\ todo = <<>>
      /\ Callback(current, {m}, released)
  BY <1>1 DEF Handle, process_message, Idle
<1>4. /\ current \in Behaviours /\ current \in 1..born /\ current # pending /\ current # None
  BY <1>3, IdleCurrent
<1>5. OnStack = {}
  BY <1>3 DEF OnStack
<1>6. current \in Living'
  <2>1. CASE UNCHANGED current
    BY <1>4, <2>1 DEF Living
  <2>2. CASE todo' = <<Exit(current), Create>>
    <3>1. 1 \in DOMAIN todo' /\ todo'[1][2] = current
      BY <1>4, <2>2, CallKinds
    <3>2. current \in OnStack'
      BY <1>4, <3>1 DEF OnStack
    <3> QED
      BY <1>4, <3>2 DEF Living
  <2> QED
    BY <1>1, <2>1, <2>2 DEF process_message, Replace
<1>7. (({current} \cup OnStack) \ {None}) \subseteq Living'
  BY <1>5, <1>6
<1>8. {m} \in SUBSET Asks /\ IsFiniteSet({m}) /\ Distinct(stash) /\ KeptInv
  BY FS_Singleton DEF OwnInv, BufferInv
<1>9. /\ AllSole(q, Elements(unstashed'), Elements(stash'), lent', held', {}, channel')
      /\ \A a \in Asks : channel[a] = "unused" => channel'[a] = "unused"
      /\ Distinct(unstashed') /\ Distinct(stash') /\ KeptInv'
  <2>1. AllSole(q, Elements(released), Elements(stash), lent, held, {m}, channel)
    BY <1>1, <1>2
  <2> QED
    BY <1>1, <1>3, <1>4, <1>6, <1>7, <1>8, <2>1, CallbackOwn
<1>10. SoleInv'
  BY <1>2, <1>9 DEF SoleInv, AllSole
<1>11. BufferInv'
  BY <1>1, <1>3, <1>9 DEF BufferInv
<1>12. UnusedInv'
  BY <1>3, <1>9 DEF UnusedInv, OwnInv
<1> QED
  BY <1>9, <1>10, <1>11, <1>12 DEF OwnInv

\* The callback of on_exit() or on_enter().
LEMMA CallOwn ==
  ASSUME TypeOK, StackInv, OwnInv, NEW b \in Behaviours, b \in 1..born, b # pending,
         Callback(b, {}, unstashed), UNCHANGED <<asker, message_queue, life>>, life = "live",
         b \in Living', (({current} \cup OnStack) \ {None}) \subseteq Living'
  PROVE  OwnInv'
<1>1. PICK q : q = Elements(message_queue)
  OBVIOUS
<1>2. AllSole(q, Elements(unstashed), Elements(stash), lent, held, {}, channel)
  BY <1>1 DEF OwnInv, SoleInv
<1>3. {} \in SUBSET Asks /\ IsFiniteSet({}) /\ unstashed \in Seq(Asks)
  BY FS_EmptySet DEF TypeOK
<1>4. Distinct(unstashed) /\ Distinct(stash) /\ KeptInv
  BY DEF OwnInv, BufferInv
<1>5. /\ AllSole(q, Elements(unstashed'), Elements(stash'), lent', held', {}, channel')
      /\ \A a \in Asks : channel[a] = "unused" => channel'[a] = "unused"
      /\ Distinct(unstashed') /\ Distinct(stash') /\ KeptInv'
  BY <1>2, <1>3, <1>4, CallbackOwn
<1>6. SoleInv'
  BY <1>1, <1>5 DEF SoleInv, AllSole
<1>7. BufferInv'
  BY <1>5 DEF BufferInv, OwnInv
<1>8. UnusedInv'
  BY <1>5 DEF UnusedInv, OwnInv
<1> QED
  BY <1>5, <1>6, <1>7, <1>8 DEF OwnInv

\* Some of the behaviours are dropped: what else is there stays.
LEMMA DropOwn ==
  ASSUME TypeOK, OwnInv, NEW B \in SUBSET (Behaviours \cup {None}),
         \A b \in Behaviours : held'[b] = IF b \in B THEN {} ELSE held[b],
         Settle({}, UNION {held[b] : b \in B}),
         UNCHANGED <<asker, message_queue, unstashed, stash, lent, life>>,
         Living \ B \subseteq Living'
  PROVE  OwnInv'
<1>1. SoleInv' /\ \A a \in Asks : channel[a] = "unused" => channel'[a] = "unused"
  BY DropSole DEF OwnInv
<1>2. KeptInv'
  BY DEF OwnInv, KeptInv
<1>3. BufferInv' /\ UnusedInv'
  BY <1>1 DEF OwnInv, BufferInv, UnusedInv
<1> QED
  BY <1>1, <1>2, <1>3 DEF OwnInv

\* Nothing happens to the channels and all behaviours are still there.
LEMMA SameOwn ==
  ASSUME OwnInv, UNCHANGED <<asker, channel, message_queue, unstashed, stash, lent, held>>,
         life' # "gone" \/ UNCHANGED life, Living \subseteq Living'
  PROVE  OwnInv'
<1>1. SoleInv' /\ BufferInv' /\ UnusedInv'
  BY DEF OwnInv, SoleInv, BufferInv, UnusedInv
<1>2. KeptInv'
  BY DEF OwnInv, KeptInv
<1> QED
  BY <1>1, <1>2 DEF OwnInv

-----------------------------------------------------------------------------
(* Every step.                                                             *)

\* Where the names on the stack come from.
LEMMA LivingNames ==
  /\ \A b : b \in OnStack <=> b # None /\ \E c \in Elements(todo) : c[2] = b
  /\ \A b : b \in OnStack' <=> b # None /\ \E c \in Elements(todo') : c[2] = b
<1>1. OnStack = {c[2] : c \in Elements(todo)} \ {None}
  BY StackNames DEF OnStack
<1>2. OnStack' = {c[2] : c \in Elements(todo')} \ {None}
  <2>1. OnStack' = {todo'[i][2] : i \in DOMAIN todo'} \ {None}
    BY DEF OnStack
  <2> QED
    BY <2>1, StackNames
<1> QED
  BY <1>1, <1>2

\* The top call alone goes.
LEMMA BelowLiving ==
  ASSUME TypeOK, StackInv, todo # <<>>, UNCHANGED <<current, pending>>,
         Below \subseteq Elements(todo')
  PROVE  \A b \in Living : b = todo[1][2] \/ b \in Living'
<1>1. Elements(todo) = {todo[1]} \cup Below
  BY ReturnElements
<1> QED
  BY <1>1, LivingNames DEF Living

LEMMA OwnStep ==
  ASSUME TypeOK, StackInv, OwnInv, [Next]_vars
  PROVE  OwnInv'
<1>1. CASE Begin
  <2>1. /\ UNCHANGED <<asker, channel, message_queue, unstashed, stash, lent, held>>
        /\ life' # "gone" /\ todo = <<>> /\ UNCHANGED <<current, pending>>
    BY <1>1 DEF Begin, askVars, Idle
  <2>2. Living \subseteq Living'
    BY <2>1, LivingNames, ElementsSmall DEF Living
  <2> QED
    BY <2>1, <2>2, SameOwn
<1>2. CASE check_become
  <2>1. /\ UNCHANGED <<asker, channel, message_queue, unstashed, stash, lent, held, life>>
        /\ Elements(todo) = {Check} \cup Below /\ Check[2] = None
    BY <1>2, CheckOnTop DEF check_become, askVars, Check
  <2>2. Below \subseteq Elements(todo')
    BY <1>2, CheckOnTop
  <2>3. OnStack \subseteq OnStack'
    BY <2>1, <2>2, LivingNames
  <2>4. \A b \in {current, pending} : b # None => b \in Living'
    <3>1. CASE UNCHANGED <<current, pending>>
      BY <3>1 DEF Living
    <3>2. CASE current' = pending /\ current = None
      BY <3>2 DEF Living
    <3>3. CASE /\ current' = pending /\ current \in Behaviours
               /\ Exit(current) \in Elements(todo')
      <4>1. current \in OnStack'
        BY <3>3, LivingNames, CallKinds
      <4> QED
        BY <3>3, <4>1 DEF Living
    <3> QED
      BY <1>2, <3>1, <3>2, <3>3, CheckOnTop
  <2>5. Living \subseteq Living'
    BY <2>3, <2>4 DEF Living
  <2> QED
    BY <2>1, <2>5, SameOwn
<1>3. ASSUME Unwind, UNCHANGED <<asker, message_queue, unstashed, stash, lent, life, current, pending>>
      PROVE  OwnInv'
  <2>1. \A b \in OnStack : b \in Behaviours
    <3>1. \A b \in OnStack : b \in Living
      BY DEF Living, OnStack
    <3> QED
      BY <3>1, LivingBorn DEF TypeOK
  <2>2. \A b \in Behaviours : held'[b] = IF b \in OnStack THEN {} ELSE held[b]
    BY <1>3 DEF Unwind, TypeOK
  <2>3. Living \ OnStack \subseteq Living'
    BY <1>3 DEF Living
  <2>4. OnStack \in SUBSET (Behaviours \cup {None}) /\ Settle({}, UNION {held[b] : b \in OnStack})
    BY <1>3, <2>1 DEF Unwind
  <2> QED
    BY <1>3, <2>2, <2>3, <2>4, DropOwn
<1>4. CASE on_exit
  <2>1. /\ Who \in Behaviours /\ Who \in 1..born /\ Who # pending /\ life = "live"
        /\ UNCHANGED <<current, life, asker, message_queue>>
        /\ todo # <<>> /\ todo[1] = Exit(Who)
    BY <1>4, ExitOnTop DEF on_exit
  <2>2. CASE Callback(Who, {}, unstashed) /\ Elements(todo') = {Check, Drop(Who)} \cup Below
    <3>1. PICK b : b = Who
      OBVIOUS
    <3>2. Elements(todo) = {Exit(b)} \cup Below /\ Exit(b)[2] = b /\ Drop(b)[2] = b /\ b # None
      BY <2>1, <3>1, ReturnElements, CallKinds
    <3>3. Elements(todo') = {Check, Drop(b)} \cup Below
      BY <2>2, <3>1
    <3>4. OnStack \subseteq OnStack' /\ b \in OnStack'
      BY <3>2, <3>3, LivingNames
    <3>5. (({current} \cup OnStack) \ {None}) \subseteq Living' /\ b \in Living'
      BY <2>1, <3>2, <3>4 DEF Living
    <3> QED
      BY <2>1, <2>2, <3>1, <3>5, CallOwn
  <2>3. CASE Unwind /\ UNCHANGED <<pending, lent, stash, unstashed>>
    BY <1>3, <2>1, <2>3
  <2> QED
    BY <1>4, <2>2, <2>3, ExitOnTop
<1>5. CASE on_enter
  <2>1. /\ current \in Behaviours /\ current \in 1..born /\ current # pending /\ life = "live"
        /\ UNCHANGED <<current, life, asker, message_queue>>
        /\ todo # <<>> /\ todo[1] = Enter
    BY <1>5, EnterOnTop DEF on_enter
  <2>2. CASE Callback(current, {}, unstashed) /\ Elements(todo') = {Check} \cup Below
    <3>1. Elements(todo) = {Enter} \cup Below /\ Enter[2] = None
      BY <2>1, ReturnElements DEF Enter
    <3>2. OnStack \subseteq OnStack'
      BY <2>2, <3>1, LivingNames
    <3>3. (({current} \cup OnStack) \ {None}) \subseteq Living' /\ current \in Living'
      BY <2>1, <3>2 DEF Living
    <3> QED
      BY <2>1, <2>2, <3>3, CallOwn
  <2>3. CASE Unwind /\ UNCHANGED <<pending, lent, stash, unstashed>>
    BY <1>3, <2>1, <2>3
  <2> QED
    BY <1>5, <2>2, <2>3, EnterOnTop
<1>6. CASE DropOld
  <2>1. /\ todo # <<>> /\ todo[1][1] = "drop" /\ Who = todo[1][2] /\ todo[1] \in CallSet
        /\ UNCHANGED <<asker, message_queue, unstashed, stash, lent, life, current, pending>>
        /\ held' = [held EXCEPT ![Who] = {}] /\ Settle({}, held[Who]) /\ Return(<<>>)
    BY <1>6, Top DEF DropOld, Who
  <2>2. Who \in Behaviours
    BY <2>1, CallCases
  <2>3. \A b \in Behaviours : held'[b] = IF b \in {Who} THEN {} ELSE held[b]
    BY <2>1, <2>2 DEF TypeOK
  <2>4. UNION {held[b] : b \in {Who}} = held[Who] /\ {Who} \in SUBSET (Behaviours \cup {None})
    BY <2>2
  <2>5. Living \ {Who} \subseteq Living'
    BY <2>1, ReturnElements, BelowLiving
  <2> QED
    BY <2>1, <2>3, <2>4, <2>5, DropOwn
<1>7. CASE Recreate
  <2>1. /\ todo # <<>> /\ todo[1][1] = "create" /\ todo[1] \in CallSet
        /\ UNCHANGED <<asker, message_queue, unstashed, stash, lent, life, pending>>
        /\ held' = [held EXCEPT ![current] = {}] /\ Settle({}, held[current])
    BY <1>7, Top DEF Recreate
  <2>2. current \in Behaviours \cup {None}
    BY DEF TypeOK
  <2>3. \A b \in Behaviours : held'[b] = IF b \in {current} THEN {} ELSE held[b]
    BY <2>1, <2>2 DEF TypeOK
  <2>4. UNION {held[b] : b \in {current}} = held[current]
    OBVIOUS
  <2>5. DOMAIN todo = {1} /\ todo[1][2] = None
    BY <2>1, LastCall, CallCases
  <2>6. OnStack = {}
    BY <2>5 DEF OnStack
  <2>7. Living \ {current} \subseteq Living'
    BY <2>1, <2>6 DEF Living
  <2>8. {current} \in SUBSET (Behaviours \cup {None})
    BY <2>2
  <2> QED
    BY <2>1, <2>3, <2>4, <2>7, <2>8, DropOwn
<1>8. CASE ReportEnd
  <2>1. /\ todo # <<>> /\ todo[1][1] = "report" /\ todo[1] \in CallSet /\ Return(<<>>)
        /\ UNCHANGED <<asker, message_queue, held, current, pending>>
        /\ stash' = <<>> /\ unstashed' = <<>>
    BY <1>8, Top DEF ReportEnd
  <2>2. SoleInv' /\ \A a \in Asks : channel[a] = "unused" => channel'[a] = "unused"
    BY <1>8, ReportSole DEF OwnInv
  <2>3. Distinct(<<>>)
    BY DEF Distinct
  <2>4. BufferInv' /\ UnusedInv'
    BY <2>1, <2>2, <2>3 DEF OwnInv, BufferInv, UnusedInv
  <2>5. todo[1][2] = None
    BY <2>1, CallCases
  <2>6. Living \subseteq Living'
    <3>1. \A b \in Living : b = None \/ b \in Living'
      BY <2>1, <2>5, ReturnElements, BelowLiving
    <3> QED
      BY <3>1 DEF Living
  <2>7. KeptInv'
    BY <2>1, <2>6 DEF OwnInv, KeptInv
  <2> QED
    BY <2>2, <2>4, <2>7 DEF OwnInv
<1>9. CASE Handle
  BY <1>9, HandleOwn
<1>10. CASE Close
  <2>1. /\ UNCHANGED <<asker, channel, message_queue, unstashed, stash, lent, held, life>>
        /\ UNCHANGED <<current, pending, todo>>
    BY <1>10 DEF Close, lifeVars
  <2>2. Living \subseteq Living'
    BY <2>1 DEF Living, OnStack
  <2> QED
    BY <2>1, <2>2, SameOwn
<1>11. CASE terminate
  <2>1. /\ UNCHANGED <<asker, channel, message_queue, unstashed, stash, lent, held, life, pending>>
        /\ Idle /\ todo = <<>> /\ life = "live" /\ todo' = <<Exit(current), Report>>
    BY <1>11 DEF terminate, askVars, Idle
  <2>2. current \in Behaviours /\ OnStack = {}
    BY <2>1, IdleCurrent DEF OnStack
  <2>3. current \in OnStack'
    <3>1. 1 \in DOMAIN todo' /\ todo'[1][2] = current
      BY <2>1, <2>2, CallKinds
    <3> QED
      BY <2>2, <3>1 DEF OnStack
  <2>4. Living \subseteq Living'
    BY <2>1, <2>2, <2>3 DEF Living
  <2> QED
    BY <2>1, <2>4, SameOwn
<1>12. ASSUME UNCHANGED <<held, current, pending, todo>>
       PROVE  KeptInv'
  BY <1>12 DEF OwnInv, KeptInv, Living, OnStack
<1>13. CASE Callers
  <2>1. PICK c \in Asks : AskStep(c) /\ UNCHANGED lifeVars
    BY <1>13 DEF Callers
  <2>2. SoleInv' /\ UnusedInv' /\ Distinct(message_queue')
    BY <2>1, AskOwn DEF OwnInv, BufferInv
  <2>3. BufferInv'
    BY <2>1, <2>2 DEF lifeVars, OwnInv, BufferInv
  <2>4. KeptInv'
    BY <1>12, <2>1 DEF lifeVars
  <2> QED
    BY <2>2, <2>3, <2>4 DEF OwnInv
<1>14. CASE Futures
  <2>1. PICK f \in Asks : FutureEnds(f)
    BY <1>14 DEF Futures
  <2>2. SoleInv' /\ \A a \in Asks : channel[a] = "unused" => channel'[a] = "unused"
    BY <2>1, FutureSole DEF OwnInv
  <2>3. BufferInv' /\ UnusedInv'
    BY <2>1, <2>2 DEF FutureEnds, OwnInv, BufferInv, UnusedInv
  <2>4. KeptInv'
    BY <1>12, <2>1 DEF FutureEnds
  <2> QED
    BY <2>2, <2>3, <2>4 DEF OwnInv
<1>15. CASE UNCHANGED vars
  <2>1. /\ UNCHANGED <<asker, channel, message_queue, unstashed, stash, lent, held, life>>
        /\ UNCHANGED <<current, pending, todo>>
    BY <1>15 DEF vars, askVars, lifeVars
  <2>2. Living \subseteq Living'
    BY <2>1 DEF Living, OnStack
  <2> QED
    BY <2>1, <2>2, SameOwn
<1> QED
  BY <1>1, <1>2, <1>4, <1>5, <1>6, <1>7, <1>8, <1>9, <1>10, <1>11, <1>13, <1>14, <1>15
     DEF Next, Run

-----------------------------------------------------------------------------
(* The theorems.                                                           *)

LEMMA InitOwn ==
  ASSUME Init
  PROVE  OwnInv
<1> USE DEF Init, AskInit
<1>1. Elements(<<>>) = {} /\ Distinct(<<>>)
  BY ElementsSmall DEF Distinct
<1>2. SoleInv
  BY <1>1 DEF SoleInv, AllSole, Sole
<1>3. BufferInv /\ UnusedInv /\ KeptInv
  BY <1>1 DEF BufferInv, UnusedInv, KeptInv
<1> QED
  BY <1>2, <1>3 DEF OwnInv

LEMMA OwnInvariant == Spec => []OwnInv
<1>1. IInv /\ OwnInv /\ [Next]_vars => OwnInv'
  BY OwnStep DEF IInv
<1> QED
  BY <1>1, InitOwn, Invariant, PTL DEF Spec

\* How often something is in a sequence that has nothing twice.
LEMMA CountOnce ==
  ASSUME NEW s, Distinct(s), NEW e
  PROVE  Cardinality({i \in DOMAIN s : s[i] = e}) = IF e \in Elements(s) THEN 1 ELSE 0
<1>1. CASE e \in Elements(s)
  <2>1. PICK i \in DOMAIN s : s[i] = e
    BY <1>1 DEF Elements
  <2>2. {j \in DOMAIN s : s[j] = e} = {i}
    BY <2>1 DEF Distinct
  <2> QED
    BY <1>1, <2>2, FS_Singleton
<1>2. CASE e \notin Elements(s)
  <2>1. {j \in DOMAIN s : s[j] = e} = {}
    BY <1>2 DEF Elements
  <2> QED
    BY <1>2, <2>1, FS_EmptySet
<1> QED
  BY <1>1, <1>2

LEMMA OwnersCount ==
  ASSUME TypeOK, StackInv, OwnInv, NEW a \in Asks
  PROVE  Owners(a) = IF channel[a] = "open" THEN 1 ELSE 0
<1>1. Sole(a, Elements(message_queue), Elements(unstashed), Elements(stash), lent, held, {},
           channel)
  BY DEF OwnInv, SoleInv, AllSole
<1>2. /\ message_queue \in Seq(Asks) /\ unstashed \in Seq(Asks) /\ stash \in Seq(Asks)
      /\ Distinct(message_queue) /\ Distinct(unstashed) /\ Distinct(stash)
  BY DEF TypeOK, AskTypeOK, OwnInv, BufferInv
<1>3. /\ Elements(message_queue) \cap Elements(unstashed) = {}
      /\ Elements(message_queue) \cap Elements(stash) = {}
      /\ Elements(unstashed) \cap Elements(stash) = {}
  <2>1. \A c \in Asks : Sole(c, Elements(message_queue), Elements(unstashed), Elements(stash),
                             lent, held, {}, channel)
    BY DEF OwnInv, SoleInv, AllSole
  <2>2. Elements(message_queue) \subseteq Asks /\ Elements(unstashed) \subseteq Asks
    BY <1>2 DEF Elements
  <2> QED
    BY <2>1, <2>2 DEF Sole
<1>4. PICK buffered : buffered = message_queue \o unstashed \o stash
  OBVIOUS
<1>5. /\ Distinct(buffered)
      /\ Elements(buffered) = Elements(message_queue) \cup Elements(unstashed) \cup Elements(stash)
  <2>1. PICK two : two = message_queue \o unstashed
    OBVIOUS
  <2> two \in Seq(Asks)
    BY <1>2, <2>1
  <2>2. /\ Distinct(two) /\ Elements(two) = Elements(message_queue) \cup Elements(unstashed)
    BY <1>2, <1>3, <2>1, DistinctConcat, ElementsConcat
  <2>3. buffered = two \o stash /\ Elements(two) \cap Elements(stash) = {}
    BY <1>3, <1>4, <2>1, <2>2
  <2> QED
    BY <1>2, <2>2, <2>3, DistinctConcat, ElementsConcat
<1>6. PICK n : n = Cardinality({i \in DOMAIN buffered : buffered[i] = a})
  OBVIOUS
<1>7. PICK k : k = Cardinality({b \in Living : a \in held[b]})
  OBVIOUS
<1>8. PICK l : l = Cardinality({a} \cap lent)
  OBVIOUS
<1>9. n = IF a \in Elements(buffered) THEN 1 ELSE 0
  BY <1>5, <1>6, CountOnce
<1>10. k = IF \E b \in Behaviours : a \in held[b] THEN 1 ELSE 0
  <2>1. Living \subseteq Behaviours
    BY LivingBorn DEF TypeOK
  <2>2. CASE \E b \in Behaviours : a \in held[b]
    <3>1. PICK b \in Behaviours : a \in held[b]
      BY <2>2
    <3>2. {c \in Living : a \in held[c]} = {b}
      BY <1>1, <2>1, <3>1 DEF Sole, OwnInv, KeptInv
    <3> QED
      BY <1>7, <2>2, <3>2, FS_Singleton
  <2>3. CASE ~(\E b \in Behaviours : a \in held[b])
    <3>1. {c \in Living : a \in held[c]} = {}
      BY <2>1, <2>3
    <3> QED
      BY <1>7, <2>3, <3>1, FS_EmptySet
  <2> QED
    BY <2>2, <2>3
<1>11. l = IF a \in lent THEN 1 ELSE 0
  <2>1. CASE a \in lent
    <3>1. {a} \cap lent = {a}
      BY <2>1
    <3> QED
      BY <1>8, <2>1, <3>1, FS_Singleton
  <2>2. CASE a \notin lent
    <3>1. {a} \cap lent = {}
      BY <2>2
    <3> QED
      BY <1>8, <2>2, <3>1, FS_EmptySet
  <2> QED
    BY <2>1, <2>2
<1>12. Owners(a) = n + k + l
  BY <1>4, <1>6, <1>7, <1>8 DEF Owners
<1>13. n + k + l = IF channel[a] = "open" THEN 1 ELSE 0
  BY <1>1, <1>5, <1>9, <1>10, <1>11 DEF Sole
<1> QED
  BY <1>12, <1>13

\* The sending half of every open channel has exactly one owner, a buffer, a spawned
\* future or a behaviour that is still there, and nobody owns a half that was used
\* or dropped (ask!, reply_to!, lib.rs; on_exit(), stash(), dispatcher.rs).
THEOREM OwnedCorrect == Spec => []ChannelOwned
<1>1. IInv /\ OwnInv => ChannelOwned
  BY OwnersCount DEF IInv, ChannelOwned
<1> QED
  BY <1>1, Invariant, OwnInvariant, PTL

\* An actor that has ended keeps callers waiting only by messages left in its queue,
\* by futures it spawned, and, when on_exit() called transit(), by a behaviour that
\* terminate() entered and nobody exits (terminate(), dispatcher.rs).
THEOREM EndedCorrect == Spec => []EndedReleases
<1>1. ASSUME IInv, OwnInv, life = "gone", NEW a \in Asks, channel[a] = "open"
      PROVE  \/ a \in Elements(message_queue) \cup lent
             \/ crossed /\ current # None /\ a \in held[current]
  <2>1. Sole(a, Elements(message_queue), Elements(unstashed), Elements(stash), lent, held, {},
             channel)
    BY <1>1 DEF OwnInv, SoleInv, AllSole
  <2>2. Elements(unstashed) = {} /\ Elements(stash) = {}
    BY <1>1, ElementsSmall DEF OwnInv, BufferInv
  <2>3. todo = <<>> /\ pending = None
    BY <1>1 DEF IInv, StackInv, Control
  <2>4. ASSUME NEW b \in Behaviours, a \in held[b]
        PROVE  crossed /\ current # None /\ a \in held[current]
    <3>1. b \in Living
      BY <1>1, <2>4 DEF OwnInv, KeptInv
    <3>2. b = current
      BY <2>3, <3>1 DEF Living, OnStack
    <3>3. crossed
      BY <1>1, <3>2 DEF IInv, PairInv, Straight
    <3> QED
      BY <2>4, <3>2, <3>3
  <2> QED
    BY <1>1, <2>1, <2>2, <2>4 DEF Sole
<1>2. IInv /\ OwnInv => EndedReleases
  BY <1>1 DEF EndedReleases
<1> QED
  BY <1>2, Invariant, OwnInvariant, PTL
==============================================================================
