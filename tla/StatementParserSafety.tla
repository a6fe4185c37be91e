----------------------- MODULE StatementParserSafety ------------------------
(***************************************************************************)
(* What must hold of the calls the statement parser makes and of the       *)
(* tokens it takes, whatever trees it builds.                              *)
(***************************************************************************)
EXTENDS StatementParser, ParserTokens

\* The program points at which a function waits for a call or goes round a loop.
Points ==
    [proc : {"file"}, at : {"start", "statements"}] \cup
    [proc : {"statement"}, at : {"start", "members", "condition", "body", "else", "type", "value"}] \cup
    [proc : {"function"}, at : {"start", "parameters", "body"}] \cup
    [proc : {"function_or_expression"}, at : {"start"}] \cup
    [proc : {"beginning"}, at : {"start", "in_parens", "arguments", "rest"}] \cup
    [proc : {"expression"}, at : {"start", "right_child"}] \cup
    [proc : {"call_list"}, at : {"start", "argument"}]

\* The frames of the call stack, their program points and the tokens at hand.
TypeOK ==
    /\ \A i \in DOMAIN stack :
          /\ [proc |-> stack[i].proc, at |-> stack[i].at] \in Points
          /\ (stack[i].at = "start") => (i = Len(stack))
    /\ returned.outcome \in {"none", "success", "failure"}
    /\ done \in BOOLEAN
    /\ TokensTyped

\* A file is accepted as a whole: the end was reached as a statement of its
\* own or of the last statement, and no token before it was left or given back
\* (parser.c:71-86, :267-272).
WholeFile ==
    Answered => /\ done
                /\ \A i \in DOMAIN tokens.read : i \in Held <=> Type(i) # "EOF"
=============================================================================
