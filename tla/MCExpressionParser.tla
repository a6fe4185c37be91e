------------------------- MODULE MCExpressionParser -------------------------
(***************************************************************************)
(* Values for model checking the expression parser.                        *)
(***************************************************************************)
EXTENDS ExpressionParserProperties, TLC

\* precedence_from_node_type for one operator of each level.
Comparison == {">", "+", "*"}
Levels == ">" :> 1 @@ "+" :> 2 @@ "*" :> 3

\* Short files with every token an expression looks at, and longer ones in
\* which only operators and parentheses vary.
Anything == [types  |-> Comparison \cup {"identifier", "literal", "left_paren", "right_paren",
                                          "comma", "colon"},
             length |-> 7]
Nesting == [types |-> Comparison \cup {"literal", "left_paren", "right_paren"}, length |-> 10]

BothKinds == {Anything, Nesting}
OnlyNesting == {Nesting}
=============================================================================
