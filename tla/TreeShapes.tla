----------------------------- MODULE TreeShapes ------------------------------
(***************************************************************************)
(* The shapes of the nodes of a syntax tree: what the parser promises and  *)
(* type resolution relies on, which takes the children of a node without   *)
(* looking whether they are there.                                         *)
(***************************************************************************)
EXTENDS Integers, Sequences

Kinds(node) == [i \in DOMAIN node.children |-> node.children[i].type]

StatementTypes == {"scope", "comment", "EOF", "if", "while", "assign", "constant", "callStatement"}
Childless == {"identifier", "literal", "comment", "EOF", "null"}
Expressions(operators) == operators \cup {"identifier", "literal", "call"}
NodeTypes(operators) ==
    StatementTypes \cup Expressions(operators) \cup {"function", "parameters", "typed", "null"}

\* A node, but for its descendants, where `operators` are the binary operators.
HasShape(node, operators) ==
    LET kinds == Kinds(node)
        expressions == Expressions(operators)
        values == expressions \cup {"function"}
        kindsIn(first, second) == kinds \in first \X second
    IN
    /\ node.type \in NodeTypes(operators)
    /\ node.children \in Seq({node.children[i] : i \in DOMAIN node.children})
    /\ kinds \in Seq(NodeTypes(operators))
    /\ node.type \in Childless => kinds = <<>>
    /\ node.type \in operators => kindsIn(expressions, expressions)
    /\ node.type = "call" =>
          /\ kindsIn({"identifier"}, {"parameters"})
          /\ Kinds(node.children[2]) \in Seq(expressions)
    /\ node.type = "callStatement" => kinds = <<"call">>
    /\ node.type = "assign" =>
          kindsIn({"identifier"}, expressions) \/ kindsIn({"typed"}, values)
    /\ node.type = "constant" => kindsIn({"typed"}, values)
    /\ node.type = "typed" => kindsIn({"identifier"}, {"identifier", "null"})
    /\ node.type = "function" =>
          /\ kinds \in {"parameters"} \X {"identifier"} \X StatementTypes
          /\ Kinds(node.children[1]) \in Seq({"typed"})
          /\ \A i \in DOMAIN node.children[1].children :
                Kinds(node.children[1].children[i]) = <<"identifier", "identifier">>
    /\ node.type = "parameters" => kinds \in Seq(expressions \cup {"typed"})
    /\ node.type = "while" => kindsIn(expressions, expressions)
    /\ node.type = "if" =>
          kindsIn(expressions, StatementTypes) \/ kinds \in expressions \X StatementTypes \X StatementTypes
    /\ node.type = "scope" => kinds \in Seq(StatementTypes)
=============================================================================
