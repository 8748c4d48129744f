--------------------------- MODULE DictTransform ---------------------------
(***************************************************************************)
(* dict_transform and dict_transform_typescript (src/fdc/models.py): every *)
(* integer inside a decoded response becomes text, at any depth, by a loop *)
(* over a stack of the containers that are still to be visited.            *)
(*                                                                         *)
(* A document is a function on its paths (sequences of keys and indexes as *)
(* text; <<>> is the whole) that gives the Python type of what is there    *)
(* and, for a leaf, its value.  A deep copy is a value of its own.         *)
(***************************************************************************)
EXTENDS Integers, SequencesExt

Container(type) == [type |-> type, value |-> ""]
Leaf(type, value) == [type |-> type, value |-> value]

\* data: dict[str, Any]: the whole is a dict, and what is not the whole is in
\* a dict or a list.
IsDocument(data) ==
    /\ IsFiniteSet(DOMAIN data)
    /\ DOMAIN data \subseteq Seq(STRING)
    /\ data \in [DOMAIN data -> [type : STRING, value : STRING]]
    /\ <<>> \in DOMAIN data /\ data[<<>>].type = "dict"
    /\ \A path \in DOMAIN data \ {<<>>} :
          Front(path) \in DOMAIN data /\ data[Front(path)].type \in {"dict", "list"}

\* Mutant: a list is not looked into.
IsContainerDictOnly(item) == item.type = "dict"

IsContainer(item) == item.type \in {"dict", "list"}

\* transformators {int: str}, keyed by the exact type: bool, a subclass of
\* int, is not in it.
Transformators == {"int"}
Transform(item) == Leaf("str", item.value)

\* The paths of what d, a dict or a list, holds.
ItemsOf(data, d) == {path \in DOMAIN data : path # <<>> /\ Front(path) = d}

\* One round of `while ref_stack`: pop d, push the containers it holds,
\* replace what has to be.
Visit(state) ==
    LET d     == Last(state.ref_stack)
        items == ItemsOf(state.new_data, d)
        item(path) == state.new_data[path]
    IN  [ref_stack |-> Front(state.ref_stack)
                          \o SetToSeq({path \in items : IsContainer(item(path))}),
         new_data  |-> [path \in DOMAIN state.new_data |->
                           IF path \in items /\ item(path).type \in Transformators
                           THEN Transform(item(path)) ELSE item(path)]]

\* One turn of the loop, or nothing when the stack is empty.
Turn(state) == IF state.ref_stack = <<>> THEN state ELSE Visit(state)

\* A path is pushed at most once, so as many turns as paths are enough.
DictTransform(data) ==
    LET after[i \in 0 .. Cardinality(DOMAIN data)] ==
            IF i = 0 THEN [ref_stack |-> << <<>> >>, new_data |-> data]
            ELSE Turn(after[i - 1])
    IN  after[Cardinality(DOMAIN data)].new_data

=============================================================================
