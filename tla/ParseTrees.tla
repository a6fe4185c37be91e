----------------------------- MODULE ParseTrees -----------------------------
(***************************************************************************)
(* Vocabulary for the properties of the parser: the nodes and the tokens   *)
(* of a tree.                                                              *)
(***************************************************************************)
EXTENDS ParserTokens

\* The nodes of a tree, and the tokens of a tree from left to right.
RECURSIVE Nodes(_), InOrder(_), InOrderAll(_)

Nodes(node) ==
    {node} \cup UNION {Nodes(node.children[i]) : i \in DOMAIN node.children}

InOrderAll(nodes) ==
    IF nodes = <<>> THEN <<>> ELSE InOrder(Head(nodes)) \o InOrderAll(Tail(nodes))

LeafTypes == {"identifier", "literal", "comment"}

InOrder(node) ==
    IF node.type \in Operators
    THEN InOrder(node.children[1]) \o <<node.at>> \o InOrder(node.children[2])
    ELSE IF node.type \in LeafTypes THEN <<node.at>>
    ELSE InOrderAll(node.children)

Positions(node) == {InOrder(node)[i] : i \in DOMAIN InOrder(node)}

\* Those of a set of tokens that a tree has a place for.
Kept(held) == {i \in held : Type(i) \in Operators \cup LeafTypes}

\* How many tokens of a type there are from i to j.
Count(type, i, j) == Cardinality({k \in i .. j : Type(k) = type})

\* The tree holds every operand and operator the parser took, once and in the
\* order of the file.
TreeHoldsTokens ==
    LET order == InOrder(returned.tree)
    IN  /\ Positions(returned.tree) = Kept(Held)
        /\ \A i, j \in DOMAIN order : i < j => order[i] < order[j]
=============================================================================
