-------------------------- MODULE MCStatementParser --------------------------
(***************************************************************************)
(* Values for model checking the statement parser.                         *)
(***************************************************************************)
EXTENDS StatementParserProperties

Plus == {"+"}
PlusLevel == "+" :> 2

\* Control flow, calls and assignments.
Control ==
    [types  |-> {"+", "identifier", "equals", "semicolon", "left_paren", "right_paren",
                 "left_curly", "right_curly", "if", "else", "while", "call", "comment"},
     length |-> 7]

\* Declarations and functions.
Functional ==
    [types  |-> {"identifier", "colon", "semicolon", "left_paren", "right_paren", "comma",
                 "arrow", "left_curly", "right_curly"},
     length |-> 12]

\* Every token.
Short == [types |-> Plus \cup OtherTypes, length |-> 6]

BothKinds == {Control, Functional}
OnlyShort == {Short}
=============================================================================
