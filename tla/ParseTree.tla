------------------------------ MODULE ParseTree ------------------------------
(***************************************************************************)
(* The syntax tree and the stack it is built on (src/src/parse_tree.hpp).  *)
(* The parser library calls start when it tries a rule that is stored,     *)
(* success when the rule matched and failure when it did not; it takes the *)
(* input back then, but not what other rules have appended to a node.      *)
(*                                                                         *)
(* The state s of a parse is a record: where the input is (at), whether    *)
(* the last rule matched (ok), the rule whose parse_error was raised       *)
(* (error) and the stack of nodes under construction, the root first.      *)
(***************************************************************************)
EXTENDS Integers, SequencesExt

\* begin_, end_ as positions in the input; has is has_content().
Node(name, at) == [name |-> name, begin |-> at, end |-> at, has |-> FALSE,
                   children |-> <<>>]

\* internal::state() puts the root on the stack.
Root == Node("root", 1)
Initially == [at |-> 1, ok |-> TRUE, error |-> "none", stack |-> <<Root>>]

IsRoot(node) == node.name = "root"

\* content(), which asserts has_content()
Content(node, text) == SubSeq(text, node.begin, node.end - 1)

\* What an assertion that does not hold, or front() of nothing, leads to.
Undefined == "undefined"
Raised(s) == s.error # "none"

Ended(s) == [s EXCEPT !.error = Undefined, !.ok = FALSE]

-----------------------------------------------------------------------------
(* How a rule is stored: "no", "yes", "bare" for yes_without_content,      *)
(* "first" for replace_with_first_child                                    *)

RemoveContent(node) == [node EXCEPT !.has = FALSE]

\* Mutant of FirstChild: the other children are lost.
FirstChildAlone(node) == node.children[1]

\* The first child, whose own children are replaced by its sisters.
FirstChild(node) == [node.children[1] EXCEPT !.children = Tail(node.children)]

Transform(node, how) ==
    CASE how = "yes" -> node
      [] how = "bare" -> RemoveContent(node)
      [] how = "first" -> FirstChild(node)

-----------------------------------------------------------------------------

\* node::start on a new node
Start(s, name) == [s EXCEPT !.stack = Append(@, Node(name, s.at))]

EmplaceBack(stack, child) ==
    Front(stack) \o <<[Last(stack) EXCEPT !.children = Append(@, child)]>>

\* node::success, the transform, and on to the parent
Success(s, how) ==
    LET node == [Last(s.stack) EXCEPT !.end = s.at, !.has = TRUE]
    IN  IF how = "first" /\ node.children = <<>> THEN Ended(s)
        ELSE [s EXCEPT !.stack = EmplaceBack(Front(s.stack),
                                             Transform(node, how))]

\* Mutant of Failure: the node stays on the stack.
FailureWithoutPop(s) == s

Failure(s) == [s EXCEPT !.stack = Front(@)]

\* parse_tree::parse: what matching the grammar left becomes the tree.
TreeOf(s) ==
    CASE Raised(s) -> [error |-> s.error, tree |-> Root]
      [] ~ Raised(s) /\ ~ s.ok -> [error |-> "nullptr", tree |-> Root]
      [] OTHER -> IF Len(s.stack) # 1
                    THEN [error |-> Undefined, tree |-> Root]
                    ELSE [error |-> "none", tree |-> s.stack[1]]
=============================================================================
