------------------------------ MODULE ActorPath ------------------------------
(***************************************************************************)
(* Paths of actors (src/src/path.rs): a sequence of names, shown with "/"  *)
(* between them, and compared both by name and as text.                    *)
(*                                                                         *)
(* A name is text: a sequence of characters.  Nothing in the code keeps    *)
(* "/" out of one.                                                         *)
(***************************************************************************)
EXTENDS Naturals, SequencesExt

CONSTANTS
  Alphabet,     \* characters
  Whitespace    \* those that trim() takes away

ASSUME AlphabetAssumption == "/" \in Alphabet /\ "/" \notin Whitespace

Text == Seq(Alphabet)

is_empty(path) == path = <<>>

level(path) == Len(path)

is_top_level(path) == Len(path) = 1

root(path) == SubSeq(path, 1, IF path = <<>> THEN 0 ELSE 1)

parent(path) == IF Len(path) > 1 THEN Front(path) ELSE <<>>

\* key(): the last name, or the empty one.
key(path) == IF path = <<>> THEN <<>> ELSE Last(path)

at_level(path, n) ==
  IF n < 1 \/ n >= level(path) THEN path ELSE SubSeq(path, 1, n)

\* path / name
Div(path, name) == Append(path, name)

\* Display and Debug.
to_string(path) ==
  IF path = <<>> THEN <<"/">>
                 ELSE FlattenSeq([i \in DOMAIN path |-> <<"/">> \o path[i]])

\* Variant: "/ab" counts as below "/a".
AncestorNoSlash(path, other) ==
  path # other /\ IsPrefix(to_string(path), to_string(other))

is_ancestor_of(path, other) ==
  IsPrefix(to_string(path) \o <<"/">>, to_string(other))

is_descendant_of(path, other) ==
  IsPrefix(to_string(other) \o <<"/">>, to_string(path))

is_parent_of(path, other) == path = parent(other)

is_child_of(path, other) == parent(path) = other

\* From<&str>: split at "/", leave out what is blank.
AddChar(tokens, ch) ==
  IF ch = "/" THEN Append(tokens, <<>>)
              ELSE Append(Front(tokens), Append(Last(tokens), ch))

Split(text) ==
  LET tokens[i \in 0..Len(text)] ==
        IF i = 0 THEN << <<>> >> ELSE AddChar(tokens[i - 1], text[i])
  IN tokens[Len(text)]

Blank(name) == \A i \in DOMAIN name : name[i] \in Whitespace

AddName(names, token) == IF Blank(token) THEN names ELSE Append(names, token)

NotBlank(tokens) ==
  LET names[i \in 0..Len(tokens)] ==
        IF i = 0 THEN <<>> ELSE AddName(names[i - 1], tokens[i])
  IN names[Len(tokens)]

From(text) == NotBlank(Split(text))

\* A name that survives to_string() and From().
Plain(name) == ~Blank(name) /\ \A i \in DOMAIN name : name[i] # "/"

\* What the operations, which compare text, mean for the names inside: other is above
\* path exactly if its names are the first ones of path.  The empty path is the parent
\* of the top level and nobody's ancestor.
TextMeansNames(path, other) ==
  /\ From(to_string(path)) = path
  /\ is_ancestor_of(other, path) <=> ~is_empty(other) /\ IsStrictPrefix(other, path)
  /\ is_descendant_of(path, other) <=> is_ancestor_of(other, path)
  /\ is_ancestor_of(other, path) =>
       at_level(path, level(other)) = other /\ root(path) = root(other)
  /\ is_parent_of(other, path) /\ ~is_empty(other) <=>
       is_ancestor_of(other, path) /\ level(other) + 1 = level(path)
=============================================================================
