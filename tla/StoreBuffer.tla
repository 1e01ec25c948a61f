---------------------------- MODULE StoreBuffer ----------------------------
(***************************************************************************)
(* Dispatcher under the memory order the code asks for.                    *)
(*                                                                         *)
(* receive() stores running = false with Release and then loads the queue  *)
(* lengths; a caller pushes and then does a compare-exchange of running    *)
(* (src/src/actor/mailbox.rs).  A Release store may stay in the core's     *)
(* store buffer while later loads of the same thread execute (x86-TSO, and *)
(* weaker machines): the store is not SeqCst and no fence follows it.  The *)
(* task's own compare-exchange drains its buffer first.                    *)
(***************************************************************************)
EXTENDS Dispatcher

VARIABLE buffered    \* tasks whose store of running = false is not visible yet

StoreBuffered(t) ==
  /\ Step(t, "store", "tail")
  /\ buffered' = buffered \cup {t}
  /\ UNCHANGED <<message_queue, internal_queue, running, terminated, pc, op,
                 answered, accepted, dispatcherVars>>

Flush(t) ==
  /\ t \in buffered
  /\ buffered' = buffered \ {t}
  /\ running' = FALSE
  /\ UNCHANGED <<message_queue, internal_queue, terminated, pc, op, answered,
                 tpc, accepted, dispatcherVars>>

WeakTail(t) ==
  /\ \/ TailUser(t)
     \/ TailTerminated(t)
     \/ TailInternal(t)
     \/ t \notin buffered /\ TailSchedule(t)
  /\ UNCHANGED <<dispatcherVars, buffered>>

WeakNext ==
  \/ (CallsStep \/ ChildrenStep) /\ UNCHANGED buffered
  \/ \E t \in Tasks : \/ (LoopStep(t) \/ CreateChild(t) \/ Unwind(t)) /\ UNCHANGED buffered
                      \/ StoreBuffered(t)
                      \/ Flush(t)
                      \/ WeakTail(t)

WeakSpec == Init /\ buffered = {} /\ [][WeakNext]_<<vars, buffered>>

\* Once everything has come to rest, buffers included, no message is left in
\* the mailbox of an actor that is not wedged: tell() alone is enough to have
\* a message processed (mailbox.rs:317-323).
NoStall ==
  Quiescent /\ buffered = {} /\ ~wedged =>
    internal_queue = <<>> /\ (message_queue = <<>> \/ terminated)
=============================================================================
