-------------------------- MODULE ExpressionParser --------------------------
(***************************************************************************)
(* The expression part of parser/parser.c: the mutually recursive          *)
(* parser_parse_expression_beginning, parser_parse_expression (with        *)
(* parse_binary_operator) and parser_parse_function_call_list, entered     *)
(* through parser_parse_function_or_expression.                            *)
(***************************************************************************)
EXTENDS ParserMachine

precedence_from_node_type(node) ==
    IF node.type \in Operators THEN Level[node.type] ELSE -1

\* Makes the right child the root and the old root its left child.
Rotated(root) ==
    LET right == root.children[2]
    IN  [right EXCEPT !.children[1] = [root EXCEPT !.children[2] = right.children[1]]]

fix_precedence_Parens(root) ==
    LET right == root.children[2]
        mine  == precedence_from_node_type(root)
        its   == precedence_from_node_type(right)
    IN  IF its >= 0 /\ mine > its THEN Rotated(root) ELSE root

fix_precedence_Never(root) == root

fix_precedence_Equals(root) ==
    LET right == root.children[2]
        mine  == precedence_from_node_type(root)
        its   == precedence_from_node_type(right)
    IN  IF its >= 0 /\ mine >= its /\ ~right.enclosed THEN Rotated(root) ELSE root

fix_precedence(root) ==
    LET right == root.children[2]
        mine  == precedence_from_node_type(root)
        its   == precedence_from_node_type(right)
    IN  IF its >= 0 /\ (root.enclosed \/ (mine > its /\ ~right.enclosed))
        THEN Rotated(root) ELSE root

-----------------------------------------------------------------------------
\* Looks up to three tokens ahead to tell `(` `)` and `(` identifier `:`, which
\* start a function, from an expression, and puts back what it took.
IsFunction(after, third) ==
    after = "right_paren" \/ (after = "identifier" /\ third = "colon")

Decide(function) == TailCall(IF function THEN "function" ELSE "beginning")

parser_parse_function_or_expression ==
    /\ Is("function_or_expression", "start")
    /\ \E v \in Peeked(tokens) : LET paren == Head(v.pending) IN
         \/ /\ paren.type # "left_paren"
            /\ tokens' = v
            /\ Decide(FALSE)
         \/ /\ paren.type = "left_paren"
            /\ \E w \in Peeked(Taken(v)) : LET after == Head(w.pending) IN
                 \/ /\ after.type # "identifier"
                    /\ tokens' = PutBack(w, paren)
                    /\ Decide(IsFunction(after.type, "none"))
                 \/ /\ after.type = "identifier"
                    /\ \E x \in Peeked(Taken(w)) :
                         /\ tokens' = PutBack(PutBack(x, after), paren)
                         /\ Decide(IsFunction(after.type, Head(x.pending).type))

-----------------------------------------------------------------------------
\* parser_parse_expression_beginning
ExpressionBeginning ==
    /\ Is("beginning", "start")
    /\ \E v \in Peeked(tokens) : LET t == Head(v.pending) IN
         \/ /\ t.type = "left_paren"
            /\ tokens' = Taken(v)
            /\ Call("beginning", "in_parens", Null)
         \/ /\ t.type = "identifier"
            /\ \E w \in Peeked(Taken(v)) :
                 /\ tokens' = w
                 /\ IF Head(w.pending).type = "left_paren"
                    THEN Call("call_list", "arguments", Leaf(t))
                    ELSE Call("expression", "rest", Leaf(t))
         \/ /\ t.type = "literal"
            /\ tokens' = Taken(v)
            /\ Call("expression", "rest", Leaf(t))
         \/ /\ t.type \notin {"left_paren", "identifier", "literal"}
            /\ tokens' = v
            /\ Return(Failure)

\* The expression inside the parentheses was parsed.
AfterParens ==
    /\ Is("beginning", "in_parens")
    /\ \/ /\ returned.outcome = "failure"
          /\ Return(Failure)
          /\ UNCHANGED tokens
       \/ /\ returned.outcome = "success"
          /\ \E v \in Peeked(tokens) :
               \/ /\ Head(v.pending).type # "right_paren"
                  /\ tokens' = v
                  /\ Return(Failure)
               \/ /\ Head(v.pending).type = "right_paren"
                  /\ tokens' = Taken(v)
                  /\ Call("expression", "rest",
                          [returned.tree EXCEPT !.enclosed = TRUE])

\* The arguments of a call were parsed.
AfterArguments ==
    /\ Is("beginning", "arguments")
    /\ \/ /\ returned.outcome = "failure"
          /\ Return(Failure)
       \/ /\ returned.outcome = "success"
          /\ Call("expression", "rest",
                  Node("call", 0, <<Top.tree, returned.tree>>))
    /\ UNCHANGED tokens

AfterRest_Retrying ==
    /\ Is("beginning", "rest")
    /\ \/ /\ returned.outcome = "failure"
          /\ IF Head(tokens.pending).type \in Operators
             THEN Call("expression", "rest", Top.tree)
             ELSE Return(Success(Top.tree))
       \/ /\ returned.outcome = "success"
          /\ Return(Success([returned.tree EXCEPT !.children[1] = Top.tree]))
    /\ UNCHANGED tokens

AfterRest_LeftForgotten ==
    /\ Is("beginning", "rest")
    /\ \/ /\ returned.outcome = "failure"
          /\ Return(Success(Top.tree))
       \/ /\ returned.outcome = "success"
          /\ Return(Success(fix_precedence(returned.tree)))
    /\ UNCHANGED tokens

\* The rest of the chain was parsed: what came before becomes its left child.
\* If there is no rest, what came before is the expression, and the error of
\* the attempt is thrown away.
AfterRest ==
    /\ Is("beginning", "rest")
    /\ \/ /\ returned.outcome = "failure"
          /\ Return(Success(Top.tree))
       \/ /\ returned.outcome = "success"
          /\ Return(Success(fix_precedence(
                        [returned.tree EXCEPT !.children[1] = Top.tree])))
    /\ UNCHANGED tokens

\* parser_parse_expression up to the call in parse_binary_operator.  The frame
\* keeps the operator.
Expression ==
    /\ Is("expression", "start")
    /\ \E v \in Peeked(tokens) : LET t == Head(v.pending) IN
         \/ /\ t.type \in Operators
            /\ tokens' = Taken(v)
            /\ Call("beginning", "right_child", Leaf(t))
         \/ /\ t.type \notin Operators
            /\ tokens' = v
            /\ Return(Failure)

\* The end of parse_binary_operator: on failure only the operator is put back,
\* although the operand may have taken tokens before it failed.
AfterRightChild ==
    /\ Is("expression", "right_child")
    /\ \/ /\ returned.outcome = "failure"
          /\ tokens' = PutBack(tokens, [type |-> Top.tree.type, at |-> Top.tree.at])
          /\ Return(Failure)
       \/ /\ returned.outcome = "success"
          /\ Return(Success([Top.tree EXCEPT !.children = <<Null, returned.tree>>]))
          /\ UNCHANGED tokens

\* parser_parse_function_call_list.  Within an expression the caller has seen the
\* opening parenthesis; the call statement has not looked.
CallList ==
    /\ Is("call_list", "start")
    /\ \E u \in Peeked(tokens) :
         \/ /\ Head(u.pending).type # "left_paren"
            /\ tokens' = Taken(u)
            /\ Return(Failure)
         \/ /\ Head(u.pending).type = "left_paren"
            /\ \E v \in Peeked(Taken(u)) :
                 \/ /\ Head(v.pending).type = "right_paren"
                    /\ tokens' = Taken(v)
                    /\ Return(Success(Node("parameters", 0, <<>>)))
                 \/ /\ Head(v.pending).type # "right_paren"
                    /\ tokens' = v
                    /\ Call("beginning", "argument", Node("parameters", 0, <<>>))

\* An argument was parsed; a comma means another one must follow.
AfterArgument ==
    /\ Is("call_list", "argument")
    /\ \/ /\ returned.outcome = "failure"
          /\ Return(Failure)
          /\ UNCHANGED tokens
       \/ /\ returned.outcome = "success"
          /\ \E v \in Peeked(tokens) :
               LET next == Head(v.pending).type
                   list == [Top.tree EXCEPT !.children = Append(@, returned.tree)]
               IN \/ /\ next = "right_paren"
                     /\ tokens' = Taken(v)
                     /\ Return(Success(list))
                  \/ /\ next = "comma"
                     /\ tokens' = Taken(v)
                     /\ Call("beginning", "argument", list)
                  \/ /\ next \notin {"right_paren", "comma"}
                     /\ tokens' = v
                     /\ Return(Failure)

ExpressionStep == \/ parser_parse_function_or_expression
        \/ ExpressionBeginning
        \/ AfterParens
        \/ AfterArguments
        \/ AfterRest
        \/ Expression
        \/ AfterRightChild
        \/ CallList
        \/ AfterArgument

-----------------------------------------------------------------------------
\* The expression parser by itself, called for the right side of a declaration.
Init == Entered("function_or_expression")

\* The outermost function has returned, or goes on with a function declaration,
\* which is StatementParser's.
Ended == stack = <<>> \/ Is("function", "start")
Finished == Ended /\ UNCHANGED vars

Next == ExpressionStep \/ Finished

\* The parser runs on one thread and does nothing but step.
Spec == Init /\ [][Next]_vars /\ WF_vars(ExpressionStep)
=============================================================================
