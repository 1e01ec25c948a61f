----------------------------- MODULE Supervision -----------------------------
(***************************************************************************)
(* A tree of actors: how children are named, found, created and replaced   *)
(* (src/src/actor/context.rs 53-65, 182-237), and how the tree ends        *)
(* (src/src/actor/dispatcher.rs 97-161).                                   *)
(*                                                                         *)
(* An actor stands for one mailbox; several may have had the same path one *)
(* after the other, or at once.  The parent's table holds one of them per  *)
(* name, and a report of termination carries a path and nothing else.      *)
(* What module Dispatcher shows of one actor is atomic here: an internal   *)
(* message is one step, and no handler runs once the mailbox is closed.    *)
(***************************************************************************)
EXTENDS ActorPath, FiniteSets

CONSTANTS
  Types,        \* message types; ActorRef<M> of another M does not downcast
  UserNames,    \* names handlers choose
  RootName,     \* of the top-level actor, "/user" / RootName
  Chars,        \* BASE64CHARS, a sequence; its length is the base
  MaxOffset,    \* usize::MAX
  MaxActors,    \* BOUND: actors ever created
  MaxStops      \* BOUND: actors that somebody calls stop() on

\* No digit stands for two numbers, and a name of digits needs no parsing.
Digits(chars) ==
  \A i, j \in DOMAIN chars : chars[i] # "/" /\ (chars[i] = chars[j] => i = j)

ASSUME SupervisionAssumption ==
  /\ UserNames \subseteq Text /\ RootName \in Text
  /\ Types # {}
  /\ Chars \in Text /\ Len(Chars) >= 2 /\ Digits(Chars)
  /\ {"$", "u"} \subseteq Alphabet \ Whitespace
  /\ MaxOffset \in Nat
  /\ MaxActors \in Nat \ {0} /\ MaxStops \in Nat

Actors == 1..MaxActors
Nobody == 0

VARIABLES
  born,       \* actors created so far; actor 1 is the top-level one
  actor,      \* per actor: what its mailbox, dispatcher and context hold
  queue,      \* per actor: internal_queue
  asked,      \* actors somebody called stop() on
  wrapped,    \* history: actors whose next_name_offset went back to 0
  disowned    \* history: children that lost their entry while they may be alive

vars == <<born, actor, queue, asked, wrapped, disowned>>

New(p, path, type) ==
  [parent |-> p, path |-> path, type |-> type, state |-> "live",
   childrens |-> <<>>, offset |-> 0, suspended |-> FALSE]

Born     == 1..born
SomeType == CHOOSE type \in Types : TRUE

\* The report carries the path; `by` is history, for the properties.
Terminate          == [kind |-> "Terminate"]
ChildTerminate(c)  == [kind |-> "ChildTerminate", path |-> actor[c].path, by |-> c]

\* send_internal() to a set of actors.  One that has ended drains its queue
\* and does nothing.
Send(q, to, m) == [a \in Actors |-> IF a \in to /\ actor[a].state # "gone"
                                    THEN Append(q[a], m) ELSE q[a]]

-----------------------------------------------------------------------------
(* Names of anonymous children.                                            *)

Digit(l) == <<Chars[(l % Len(Chars)) + 1]>>

\* base64(): the lowest digit comes first.
base64[l \in Nat] ==
  IF l < Len(Chars) THEN Digit(l) ELSE Digit(l) \o base64[l \div Len(Chars)]

\* Variant: one digit, whatever the number.
NameOneDigit(p) == <<"$">> \o Digit(actor[p].offset)

random_name(p) == <<"$">> \o base64[actor[p].offset]

\* The names a child may have.
Names == UserNames \cup {<<"$">> \o base64[l] : l \in 0..MaxOffset}

\* Variant: the counter goes on.
CountOn(n) == n + 1

\* checked_add(1).unwrap_or(0)
NextOffset(n) == IF n = MaxOffset THEN 0 ELSE n + 1

-----------------------------------------------------------------------------
(* get_or_create_child(), in a handler of an actor that is not closed.     *)

Handling(p) == p \in Born /\ actor[p].state = "live"

Entry(p, name) == actor[p].childrens[name]

\* get_child(): the entry, if its message type is the one asked for.
get_child(p, name, type) ==
  name \in DOMAIN actor[p].childrens /\ actor[Entry(p, name)].type = type

WithEntry(table, name, c) ==
  [n \in {name} \cup DOMAIN table |-> IF n = name THEN c ELSE table[n]]

\* insert() into the table replaces what was there and stops nobody.
Insert(p, name, type, offset) ==
  /\ born < MaxActors
  /\ born' = born + 1
  /\ actor' = [actor EXCEPT ![p].childrens = WithEntry(@, name, born'),
                            ![p].offset = offset,
                            ![born'] = New(p, Div(actor[p].path, name), type)]
  /\ disowned' = disowned \cup
       {c \in Born : name \in DOMAIN actor[p].childrens /\ c = Entry(p, name)}

\* With a name that is found it changes nothing.
get_or_create_child(p) ==
  /\ Handling(p)
  /\ \E name \in UserNames, type \in Types :
       /\ ~get_child(p, name, type)
       /\ Insert(p, name, type, actor[p].offset)
  /\ UNCHANGED <<queue, asked, wrapped>>

create_child(p) ==
  /\ Handling(p)
  /\ LET name == random_name(p)
         next == NextOffset(actor[p].offset) IN
     /\ \E type \in Types :
          \/ /\ ~get_child(p, name, type)
             /\ Insert(p, name, type, next)
          \/ /\ get_child(p, name, type)
             /\ actor' = [actor EXCEPT ![p].offset = next]
             /\ UNCHANGED <<born, disowned>>
     /\ wrapped' = IF next = 0 THEN wrapped \cup {p} ELSE wrapped
  /\ UNCHANGED <<queue, asked>>

-----------------------------------------------------------------------------
(* The end of an actor.                                                    *)

\* stop(), stop_self(): by anyone who has a reference.  BOUND: once each.
Stop(a) ==
  /\ a \in Born \ asked /\ Cardinality(asked) < MaxStops
  /\ asked' = asked \cup {a}
  /\ queue' = Send(queue, {a}, Terminate)
  /\ UNCHANGED <<born, actor, wrapped, disowned>>

Ended(a) == [actor EXCEPT ![a].state = "gone", ![a].childrens = <<>>,
                          ![a].suspended = FALSE]

\* terminate(): on_exit(), which may create any number of children, then the
\* report; the context goes with the table and the counter, whatever on_exit() did
\* to them.  Nobody looks such a child up again, so its type is no choice, and no
\* two of them have to differ in name.
terminate(a, lost) ==
  /\ queue' = Send([queue EXCEPT ![a] = <<>>], {actor[a].parent}, ChildTerminate(a))
  /\ born' \in born..MaxActors
  /\ disowned' = disowned \cup lost \cup (born + 1)..born'
  /\ \E names \in [(born + 1)..born' -> Names] :
       actor' = [c \in Actors |->
                   IF c \in DOMAIN names
                   THEN New(a, Div(actor[a].path, names[c]), SomeType)
                   ELSE Ended(a)[c]]

Popped(a) == [queue EXCEPT ![a] = Tail(@)]

\* Variant: it does not wait for the children it told to stop.
EndAtOnce(a) ==
  /\ actor' = Ended(a)
  /\ queue' = [Send(queue, Range(actor[a].childrens), Terminate) EXCEPT ![a] = <<>>]
  /\ UNCHANGED <<born, disowned>>

\* InternalMessage::Terminate
OnTerminate(a) ==
  IF actor[a].childrens = <<>>
  THEN terminate(a, {})
  ELSE /\ actor' = [actor EXCEPT ![a].state = "closed", ![a].suspended = TRUE]
       /\ queue' = Send(Popped(a), Range(actor[a].childrens), Terminate)
       /\ UNCHANGED <<born, disowned>>

\* Variant: the last report is taken like the others.
NeverLast(a, m) ==
  /\ actor' = [actor EXCEPT ![a].childrens =
                 RestrictDomain(@, LAMBDA name : name # key(m.path))]
  /\ queue' = Popped(a)
  /\ UNCHANGED <<born, disowned>>

\* Variant: reports count only while the actor waits for its children.
OnReportWaiting(a, m) ==
  /\ queue' = Popped(a)
  /\ UNCHANGED <<born, disowned, actor>>

\* InternalMessage::ChildTerminate removes by key, whoever has the entry now.
OnChildTerminate(a, m) ==
  LET left == RestrictDomain(actor[a].childrens, LAMBDA name : name # key(m.path))
      lost == (Range(actor[a].childrens) \ Range(left)) \ {m.by}
  IN
  IF actor[a].suspended /\ left = <<>>
  THEN terminate(a, lost)
  ELSE /\ actor' = [actor EXCEPT ![a].childrens = left]
       /\ queue' = Popped(a)
       /\ disowned' = disowned \cup lost
       /\ UNCHANGED born

\* One internal message; on_internal_message().
Process(a) ==
  /\ queue[a] # <<>>
  /\ LET m == Head(queue[a]) IN
     \/ m.kind = "Terminate" /\ OnTerminate(a)
     \/ m.kind = "ChildTerminate" /\ OnChildTerminate(a, m)
  /\ UNCHANGED <<asked, wrapped>>

-----------------------------------------------------------------------------
UserPath == From(<<"/", "u">>)

Init ==
  /\ born = 1
  /\ actor = [a \in Actors |->
                IF a = 1 THEN New(Nobody, Div(UserPath, RootName), SomeType)
                         ELSE [New(Nobody, <<>>, SomeType) EXCEPT !.state = "unborn"]]
  /\ queue = [a \in Actors |-> <<>>]
  /\ asked = {} /\ wrapped = {} /\ disowned = {}

Next == \E a \in Actors :
  get_or_create_child(a) \/ create_child(a) \/ Stop(a) \/ Process(a)

Spec == Init /\ [][Next]_vars

\* The task of an actor is polled while its internal queue is not empty.
FairSpec == Spec /\ \A a \in Actors : WF_vars(Process(a))

-----------------------------------------------------------------------------
Internal ==
  [kind : {"Terminate"}]
    \cup [kind : {"ChildTerminate"}, path : {actor[a].path : a \in Born}, by : Born]

\* Every variable keeps its type; the counter of names stays in its range.
TypeOK ==
  /\ born \in Actors
  /\ \A a \in Actors :
       /\ actor[a].state \in IF a \in Born THEN {"live", "closed", "gone"} ELSE {"unborn"}
       /\ actor[a].type \in Types
       /\ actor[a].parent \in 0..(a - 1)
       /\ Range(actor[a].childrens) \subseteq Born
       /\ actor[a].offset \in 0..MaxOffset
       /\ actor[a].suspended <=> actor[a].state = "closed"
       /\ queue[a] \in Seq(Internal)
  /\ asked \subseteq Born /\ wrapped \subseteq Born /\ disowned \subseteq Born

ChildrenOf(p) == {c \in Born : actor[c].parent = p}

\* When an actor has ended, so has each child it ever created, but for those that
\* lost their entry: by a namesake of another message type, by the late report of
\* a namesake, or because on_exit() created them (dispatcher.rs:97, :131, :143).
NoOtherOrphans ==
  \A p \in Born : actor[p].state = "gone" =>
    \A c \in ChildrenOf(p) : actor[c].state = "gone" \/ c \in disowned

\* The report of c was handled.
Reported(c) ==
  /\ actor[c].state = "gone"
  /\ \A i \in DOMAIN queue[actor[c].parent] :
       queue[actor[c].parent][i].kind = "ChildTerminate" =>
         queue[actor[c].parent][i].by # c

\* The table of an actor holds under its name each child that did not lose its
\* entry, from its creation until its report has been handled; ended children whose
\* report is on its way are still found by get_child() (context.rs:182, :207).
ChildTable ==
  \A p \in Born : actor[p].state # "gone" =>
    \A c \in ChildrenOf(p) :
      LET name == key(actor[c].path) IN
      (name \in DOMAIN actor[p].childrens /\ Entry(p, name) = c)
        <=> c \notin disowned /\ ~Reported(c)

Ancestors[c \in 0..MaxActors] ==
  LET p == actor[c].parent IN
  IF c = Nobody \/ p = Nobody THEN {} ELSE {p} \cup Ancestors[p]

Paths == UNION {[1..n -> {name \in Names : Plain(name)}] : n \in 0..3}

\* Of every two paths of names that hold no separator.
TextAgrees == \A path, other \in Paths : TextMeansNames(path, other)

PlainPath(path) == \A i \in DOMAIN path : Plain(path[i])

\* Paths tell which actor is above which, although several may share one: the path
\* of an actor above another is above, as text, and it is the parent's exactly if
\* the parent has it, whatever the names.  That a path is above as text means that
\* an actor above has it only if no name in either holds a separator or is blank:
\* nothing keeps "a/b" from being a child's name (context.rs:212), and as text its
\* path is then below that of a child "a" (path.rs:41, :55-71, :78-86).
PathsTell ==
  /\ TextAgrees
  /\ \A a, c \in Born :
       LET above == \E x \in Ancestors[c] : actor[x].path = actor[a].path IN
       /\ above => is_ancestor_of(actor[a].path, actor[c].path)
       /\ PlainPath(actor[a].path) /\ PlainPath(actor[c].path) =>
            (is_ancestor_of(actor[a].path, actor[c].path) => above)
       /\ is_child_of(actor[c].path, actor[a].path) <=>
            c # 1 /\ actor[actor[c].parent].path = actor[a].path

\* create_child() brings a new actor to life each time, unless its counter has
\* wrapped or the name is one that handlers use themselves; base64() gives no
\* number the name of another (context.rs:55, :191).
AnonymousNew ==
  [][\A p \in Born : actor'[p].offset # actor[p].offset =>
       born' = born + 1 \/ p \in wrapped \/ random_name(p) \in UserNames]_vars

\* stop() of the top-level actor ends the tree, but for the actors below one that
\* lost its entry.
StopEndsTree ==
  (1 \in asked) ~>
    \A a \in Born : \/ actor[a].state = "gone"
                    \/ ({a} \cup Ancestors[a]) \cap disowned # {}
=============================================================================
