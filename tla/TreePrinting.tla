---------------------------- MODULE TreePrinting ----------------------------
(***************************************************************************)
(* print_node of src/src/config_grammar.cpp, by which --ast shows the      *)
(* syntax tree: one line for each node, its depth for its indentation.     *)
(***************************************************************************)
EXTENDS ParseTree

RECURSIVE PrintNode(_, _, _)
PrintNode(node, text, depth) ==
    LET line == [depth |-> depth, name |-> node.name,
                 content |-> IF node.has THEN Content(node, text) ELSE <<>>]
        below == [i \in DOMAIN node.children |->
                    PrintNode(node.children[i], text,
                              IF IsRoot(node) THEN depth ELSE depth + 1)]
    IN  (IF IsRoot(node) THEN <<>> ELSE <<line>>) \o FlattenSeq(below)
=============================================================================
