-------------------------- MODULE StatementParser ---------------------------
(***************************************************************************)
(* The statement part of parser/parser.c: parser_parse_file,               *)
(* parser_parse_statement, parser_parse_declaration_or_assignment and      *)
(* parser_parse_function_declaration with their helpers, on top of the     *)
(* expression parser.                                                      *)
(*                                                                         *)
(* Assignments and declarations are nodes "assign", "constant" and "typed" *)
(* with two children, the call operator is "callStatement".                *)
(* The production of a frame is its tree's type.                           *)
(***************************************************************************)
EXTENDS ExpressionParser

VARIABLE done   \* rouleaux_parser.done

allvars == <<stack, returned, tokens, done>>

With_Replacing(node, child) == [node EXCEPT !.children = <<child>>]

\* node_list_push_back, and setting the next child of a node of fixed size.
With(node, child) == [node EXCEPT !.children = Append(@, child)]

\* A failed callee fails its caller.
Bubble == /\ returned.outcome = "failure"
          /\ Return(Failure)
          /\ UNCHANGED tokens

\* One statement and what starts it.
At(point) == Is("statement", point)

-----------------------------------------------------------------------------
\* parser_parse_file
ParseFile ==
    /\ Is("file", "start")
    /\ Call("statement", "statements", Node("scope", 0, <<>>))
    /\ UNCHANGED <<tokens, done>>

AfterFileStatement_Unchecked ==
    /\ Is("file", "statements")
    /\ \/ /\ returned.outcome = "failure"
          /\ Return(Success(Top.tree))
       \/ /\ returned.outcome = "success"
          /\ LET file == With(Top.tree, returned.tree)
             IN  IF done THEN Return(Success(file))
                 ELSE Call("statement", "statements", file)
    /\ UNCHANGED <<tokens, done>>

AfterFileStatement_Retrying ==
    /\ Is("file", "statements")
    /\ IF done THEN Return(returned) ELSE Call("statement", "statements", Top.tree)
    /\ UNCHANGED <<tokens, done>>

AfterFileStatement ==
    /\ Is("file", "statements")
    /\ \/ Bubble
       \/ /\ returned.outcome = "success"
          /\ LET file == With(Top.tree, returned.tree)
             IN  IF done THEN Return(Success(file))
                 ELSE Call("statement", "statements", file)
          /\ UNCHANGED tokens
    /\ UNCHANGED done

-----------------------------------------------------------------------------
\* parser_parse_statement at a comment, and at a token that starts nothing.
Comment ==
    /\ At("start")
    /\ \E v \in Peeked(tokens) : LET t == Head(v.pending) IN
         /\ t.type = "comment"
         /\ tokens' = Taken(v)
         /\ Return(Success(Leaf(t)))
    /\ UNCHANGED done

NoStatement ==
    /\ At("start")
    /\ \E v \in Peeked(tokens) :
         /\ Head(v.pending).type \notin
              {"comment", "EOF", "left_curly", "if", "while", "call", "identifier"}
         /\ tokens' = v
         /\ Return(Failure)
    /\ UNCHANGED done

\* The end of the file is a statement, wherever one is asked for.
EndOfFile ==
    /\ At("start")
    /\ \E v \in Peeked(tokens) :
         /\ Head(v.pending).type = "EOF"
         /\ tokens' = v
         /\ Return(Success(Leaf(Head(v.pending))))
    /\ done' = TRUE

-----------------------------------------------------------------------------
Members_Unclosed(scope, v) ==
    \/ /\ Head(v.pending).type \in {"right_curly", "EOF"}
       /\ tokens' = IF Head(v.pending).type = "right_curly" THEN Taken(v) ELSE v
       /\ Return(Success(scope))
    \/ /\ Head(v.pending).type \notin {"right_curly", "EOF"}
       /\ tokens' = v
       /\ Call("statement", "members", scope)

\* parser_parse_statement at an opening brace; the loop over the members.
Members(scope, v) ==
    \/ /\ Head(v.pending).type = "right_curly"
       /\ tokens' = Taken(v)
       /\ Return(Success(scope))
    \/ /\ Head(v.pending).type = "EOF"
       /\ tokens' = v
       /\ Return(Failure)
    \/ /\ Head(v.pending).type \notin {"right_curly", "EOF"}
       /\ tokens' = v
       /\ Call("statement", "members", scope)

Scope ==
    /\ At("start")
    /\ \E u \in Peeked(tokens) :
         /\ Head(u.pending).type = "left_curly"
         /\ \E v \in Peeked(Taken(u)) : Members(Node("scope", 0, <<>>), v)
    /\ UNCHANGED done

AfterMember ==
    /\ At("members")
    /\ \/ Bubble
       \/ /\ returned.outcome = "success"
          /\ \E v \in Peeked(tokens) : Members(With(Top.tree, returned.tree), v)
    /\ UNCHANGED done

-----------------------------------------------------------------------------
\* parser_parse_statement at if and while.
Condition ==
    /\ At("start")
    /\ \E v \in Peeked(tokens) : LET t == Head(v.pending) IN
         /\ t.type \in {"if", "while"}
         /\ tokens' = Taken(v)
         /\ Call("beginning", "condition", Node(t.type, t.at, <<>>))
    /\ UNCHANGED done

AfterCondition ==
    /\ At("condition")
    /\ \/ Bubble
       \/ /\ returned.outcome = "success"
          /\ Call("statement", "body", With(Top.tree, returned.tree))
          /\ UNCHANGED tokens
    /\ UNCHANGED done

AfterBody_ElseOutside ==
    /\ At("body")
    /\ \/ Bubble
       \/ /\ returned.outcome = "success"
          /\ Top.tree.type = "while"
          /\ Return(Success(With(Top.tree, Top.tree.children[1])))
          /\ UNCHANGED tokens
       \/ /\ returned.outcome = "success"
          /\ Top.tree.type = "if"
          /\ \E v \in Peeked(tokens) :
               IF Head(v.pending).type = "else" /\ Below[Len(Below)].at # "body"
               THEN /\ tokens' = Taken(v)
                    /\ Call("statement", "else", With(Top.tree, returned.tree))
               ELSE /\ tokens' = v
                    /\ Return(Success(With(Top.tree, returned.tree)))
    /\ UNCHANGED done

\* The right child of a while is its condition again.
AfterBody ==
    /\ At("body")
    /\ \/ Bubble
       \/ /\ returned.outcome = "success"
          /\ Top.tree.type = "while"
          /\ Return(Success(With(Top.tree, Top.tree.children[1])))
          /\ UNCHANGED tokens
       \/ /\ returned.outcome = "success"
          /\ Top.tree.type = "if"
          /\ \E v \in Peeked(tokens) :
               \/ /\ Head(v.pending).type # "else"
                  /\ tokens' = v
                  /\ Return(Success(With(Top.tree, returned.tree)))
               \/ /\ Head(v.pending).type = "else"
                  /\ tokens' = Taken(v)
                  /\ Call("statement", "else", With(Top.tree, returned.tree))
    /\ UNCHANGED done

AfterElse_Dropped ==
    /\ At("else")
    /\ \/ Bubble
       \/ /\ returned.outcome = "success"
          /\ Return(Success(Top.tree))
          /\ UNCHANGED tokens
    /\ UNCHANGED done

AfterElse ==
    /\ At("else")
    /\ \/ Bubble
       \/ /\ returned.outcome = "success"
          /\ Return(Success(With(Top.tree, returned.tree)))
          /\ UNCHANGED tokens
    /\ UNCHANGED done

-----------------------------------------------------------------------------
\* parser_parse_statement at the keyword call.
CallStatement ==
    /\ At("start")
    /\ \E u \in Peeked(tokens) :
         /\ Head(u.pending).type = "call"
         /\ \E v \in Peeked(Taken(u)) : LET name == Head(v.pending) IN
              \/ /\ name.type # "identifier"
                 /\ tokens' = v
                 /\ Return(Failure)
              \/ /\ name.type = "identifier"
                 /\ tokens' = Taken(v)
                 /\ Call("call_list", "value", Node("call", 0, <<Leaf(name)>>))
    /\ UNCHANGED done

\* parser_parse_declaration_or_assignment up to its first call.
Assignment ==
    /\ At("start")
    /\ \E u \in Peeked(tokens) : LET name == Head(u.pending) IN
         /\ name.type = "identifier"
         /\ \E v \in Peeked(Taken(u)) : LET t == Head(v.pending) IN
              \/ /\ t.type = "equals"
                 /\ tokens' = Taken(v)
                 /\ Call("beginning", "value", Node("assign", t.at, <<Leaf(name)>>))
              \/ /\ t.type = "colon"
                 /\ tokens' = Taken(v)
                 /\ Goto("type", Node("typed", t.at, <<Leaf(name), Null>>))
              \/ /\ t.type \notin {"equals", "colon"}
                 /\ tokens' = v
                 /\ Return(Failure)
    /\ UNCHANGED done

\* One turn of the loop over what follows the colon.  A second type takes the
\* place of the first.
DeclaredType ==
    /\ At("type")
    /\ \E v \in Peeked(tokens) : LET t == Head(v.pending) IN
         \/ /\ t.type = "identifier"
            /\ tokens' = Taken(v)
            /\ Goto("type", [Top.tree EXCEPT !.children[2] = Leaf(t)])
         \/ /\ t.type \in {"colon", "equals"}
            /\ tokens' = Taken(v)
            /\ Call("function_or_expression", "value",
                    Node(IF t.type = "colon" THEN "constant" ELSE "assign", t.at, <<Top.tree>>))
         \/ /\ t.type \notin {"identifier", "colon", "equals"}
            /\ tokens' = v
            /\ Return(Failure)
    /\ UNCHANGED done

\* The call operator is put above the call once the statement has ended.
Completed(statement) ==
    IF statement.type = "call" THEN Node("callStatement", 0, <<statement>>) ELSE statement

\* What follows the right side of a declaration or assignment, and the
\* arguments of a call statement: check_statement_end.
AfterValue ==
    /\ At("value")
    /\ \/ Bubble
       \/ /\ returned.outcome = "success"
          /\ \E v \in Peeked(tokens) :
               \/ /\ Head(v.pending).type = "semicolon"
                  /\ tokens' = Taken(v)
                  /\ Return(Success(Completed(With(Top.tree, returned.tree))))
               \/ /\ Head(v.pending).type # "semicolon"
                  /\ tokens' = v
                  /\ Return(Failure)
    /\ UNCHANGED done

-----------------------------------------------------------------------------
\* parser_parse_function_declaration, its caller having seen the parenthesis.
FunctionDeclaration ==
    /\ Is("function", "start")
    /\ tokens' = Taken(tokens)
    /\ Goto("parameters", Node("parameters", 0, <<>>))
    /\ UNCHANGED done

\* parse_terminal: attempts so far, each a view and the tokens it got, and one
\* more.  A token of a wrong type stays.
Terminal(attempts, type) ==
    {r \in attempts : ~r.ok} \cup
    UNION {{IF Head(v.pending).type = type
            THEN [ok |-> TRUE, view |-> Taken(v), got |-> Append(r.got, Head(v.pending))]
            ELSE [ok |-> FALSE, view |-> v, got |-> r.got] : v \in Peeked(r.view)}
           : r \in {s \in attempts : s.ok}}

\* A name, a colon and a type.
Terminals(view) ==
    Terminal(Terminal(Terminal({[ok |-> TRUE, view |-> view, got |-> <<>>]},
                               "identifier"), "colon"), "identifier")

\* One turn of the loop of parser_parse_parameter_list: a parameter and what
\* separates it from the next.  A closing parenthesis is put back.
Parameter ==
    /\ Is("function", "parameters")
    /\ \E u \in Peeked(tokens) :
         /\ Head(u.pending).type \notin {"right_paren", "EOF"}
         /\ \E r \in Terminals(u) :
              \/ /\ ~r.ok
                 /\ tokens' = r.view
                 /\ Return(Failure)
              \/ /\ r.ok
                 /\ \E v \in Peeked(r.view) : LET t == Head(v.pending) IN
                      /\ tokens' = IF t.type = "right_paren" THEN PutBack(Taken(v), t) ELSE Taken(v)
                      /\ IF t.type \in {"right_paren", "comma"}
                         THEN Goto("parameters", With(Top.tree,
                                Node("typed", r.got[2].at, <<Leaf(r.got[1]), Leaf(r.got[3])>>)))
                         ELSE Return(Failure)
    /\ UNCHANGED done

ParametersUnfinished ==
    /\ Is("function", "parameters")
    /\ \E v \in Peeked(tokens) : Head(v.pending).type = "EOF" /\ tokens' = v
    /\ Return(Failure)
    /\ UNCHANGED done

\* The end of the list and parser_parse_return_type, which takes the tokens it
\* looks at whether it wants them or not.
ReturnType ==
    /\ Is("function", "parameters")
    /\ \E u \in Peeked(tokens) :
         /\ Head(u.pending).type = "right_paren"
         /\ \E v \in Peeked(Taken(u)) :
              \/ /\ Head(v.pending).type # "arrow"
                 /\ tokens' = Taken(v)
                 /\ Return(Failure)
              \/ /\ Head(v.pending).type = "arrow"
                 /\ \E w \in Peeked(Taken(v)) : LET type == Head(w.pending) IN
                      /\ tokens' = Taken(w)
                      /\ IF type.type = "identifier"
                         THEN Call("statement", "body", Node("function", 0, <<Top.tree, Leaf(type)>>))
                         ELSE Return(Failure)
    /\ UNCHANGED done

\* When the body failed, the result of the return type is returned: a success.
AfterFunctionBody ==
    /\ Is("function", "body")
    /\ \/ /\ returned.outcome = "failure"
          /\ Return(Success(Top.tree.children[2]))
       \/ /\ returned.outcome = "success"
          /\ Return(Success(With(Top.tree, returned.tree)))
    /\ UNCHANGED <<tokens, done>>

-----------------------------------------------------------------------------
StatementInit == Entered("file") /\ done = FALSE

StatementStep ==
    \/ ExpressionStep /\ UNCHANGED done
    \/ ParseFile
    \/ AfterFileStatement
    \/ Comment
    \/ NoStatement
    \/ EndOfFile
    \/ Scope
    \/ AfterMember
    \/ Condition
    \/ AfterCondition
    \/ AfterBody
    \/ AfterElse
    \/ CallStatement
    \/ Assignment
    \/ DeclaredType
    \/ AfterValue
    \/ FunctionDeclaration
    \/ Parameter
    \/ ParametersUnfinished
    \/ ReturnType
    \/ AfterFunctionBody

\* parser_parse_file has returned.
FileEnded == stack = <<>> /\ UNCHANGED allvars

StatementNext == StatementStep \/ FileEnded

\* The parser runs on one thread and does nothing but step.
StatementSpec == StatementInit /\ [][StatementNext]_allvars /\ WF_allvars(StatementStep)
=============================================================================
