------------------------------- MODULE Speaker -------------------------------
(***************************************************************************)
(* How a speaker answers the requests a discovery sends it, after the      *)
(* recorded behaviour tools/ssc_simulator.py reproduces: gets of single    *)
(* values, osc/schema and osc/limits.                                      *)
(*                                                                         *)
(* The address tree of a speaker is a function from its addresses to what  *)
(* is there: a leaf, which has a value, or a container, which has none.    *)
(* An address is a sequence of keys; the root <<>> is a container.         *)
(***************************************************************************)
EXTENDS Integers, Sequences

\* What a request sits at in a tree (_lookup).
At(tree, path) ==
    IF path = <<>> THEN "container"
    ELSE IF path \in DOMAIN tree THEN tree[path] ELSE "nowhere"

Below(tree, path) == {a \in DOMAIN tree : Len(a) = Len(path) + 1
                                          /\ SubSeq(a, 1, Len(path)) = path}

\* One level of the tree: containers as {}, leaves as null (_schema_level).
Level(tree, path) == [a \in Below(tree, path) |-> tree[a]]

\* A reply names the address it is about; `nothing' stands for an error, and for
\* a reply the client gives up on.
Nothing == [kind |-> "nothing", about |-> <<>>, level |-> <<>>]

\* A walk asks for the schema of containers only: of a leaf there is none.
Schema(tree, path) ==
    IF At(tree, path) = "container"
    THEN [kind |-> "schema", about |-> path, level |-> Level(tree, path)]
    ELSE Nothing

Limits(tree, path) ==
    IF At(tree, path) = "leaf"
    THEN [kind |-> "limits", about |-> path, level |-> <<>>]
    ELSE Nothing

\* A single get: the value of a leaf, a 404 anywhere else (_answer_leaf).
Answered(tree, path) == At(tree, path) = "leaf"

=============================================================================
