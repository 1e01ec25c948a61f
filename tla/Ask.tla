--------------------------------- MODULE Ask ---------------------------------
(***************************************************************************)
(* ask! and reply_to! (src/src/lib.rs): a request that carries the sending *)
(* half of a oneshot channel, given to the actor with try_tell(), and a    *)
(* caller that waits on the receiving half under a tokio timeout.          *)
(*                                                                         *)
(* The sending half travels with the message.  Whoever holds it may send   *)
(* once, keep it, pass it on, or drop it; the caller sees the difference.  *)
(***************************************************************************)
EXTENDS Naturals, Sequences

CONSTANTS
  Asks,      \* the requests that callers make, one ask! each
  Capacity   \* of the bounded mailbox; 0: unbounded

ASSUME AskAssumption == Capacity \in Nat

VARIABLES
  asker,          \* per ask: how far the caller is, and what it got
  channel,        \* per ask: "unused", "open", "sent" (a value), "dropped"
  message_queue,
  terminated

askVars == <<asker, channel, message_queue, terminated>>

\* Variant: one message too many.
FullLate == Capacity # 0 /\ Len(message_queue) > Capacity

Full == Capacity # 0 /\ Len(message_queue) >= Capacity

\* What becomes of the open channels in two sets of asks: a value is sent on
\* some, the sending half of others is dropped.  A value sent to a caller that
\* gave up is an Err for the sender and changes nothing else.
Settle(replied, dropped) ==
  channel' = [a \in Asks |-> IF a \in replied THEN "sent"
                             ELSE IF a \in dropped THEN "dropped" ELSE channel[a]]

Becomes(a, to) == asker' = [asker EXCEPT ![a] = to]

\* try_tell() gives the message back; ask! drops it, and the channel with it.
Refused(a) == Becomes(a, "send_error") /\ Settle({}, {a}) /\ UNCHANGED message_queue

\* ask!: a channel is made, and try_send() looks at `terminated` ...
AskCall(a) ==
  /\ asker[a] = "start"
  /\ \/ terminated /\ Refused(a)
     \/ ~terminated /\ Becomes(a, "push") /\ UNCHANGED <<channel, message_queue>>
  /\ UNCHANGED terminated

\* ... and pushes, into a mailbox that may have been closed since.
AskPush(a) ==
  /\ asker[a] = "push"
  /\ \/ Full /\ Refused(a)
     \/ /\ ~Full
        /\ Becomes(a, "waiting")
        /\ channel' = [channel EXCEPT ![a] = "open"]
        /\ message_queue' = Append(message_queue, a)
  /\ UNCHANGED terminated

\* timeout() polls the receiver before the clock: the caller only gives up on
\* a channel that is still open.
AskReturns(a) ==
  /\ asker[a] = "waiting"
  /\ Becomes(a, CASE channel[a] = "sent"    -> "ok"
                  [] channel[a] = "dropped" -> "recv_error"
                  [] OTHER                  -> "timeout")
  /\ UNCHANGED <<channel, message_queue, terminated>>

AskInit ==
  /\ asker = [a \in Asks |-> "start"]
  /\ channel = [a \in Asks |-> "unused"]
  /\ message_queue = <<>>
  /\ terminated = FALSE

AskStep(a) == AskCall(a) \/ AskPush(a) \/ AskReturns(a)

AskTypeOK ==
  /\ asker \in [Asks -> {"start", "push", "waiting", "ok", "recv_error",
                         "timeout", "send_error"}]
  /\ channel \in [Asks -> {"unused", "open", "sent", "dropped"}]
  /\ message_queue \in Seq(Asks)
  /\ Capacity # 0 => Len(message_queue) <= Capacity
  /\ terminated \in BOOLEAN
=============================================================================
