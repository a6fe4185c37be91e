----------------------- MODULE ExpressionParserSafety -----------------------
(***************************************************************************)
(* What must hold of the calls the expression parser makes and of the      *)
(* tokens it takes, whatever trees it builds.                              *)
(***************************************************************************)
EXTENDS ExpressionParser, ParserTokens

\* The frames of the call stack, their program points and the tokens at hand.
TypeOK ==
    /\ \A i \in DOMAIN stack :
          /\ <<stack[i].proc, stack[i].at>> \in
                {<<"function_or_expression", "start">>, <<"function", "start">>,
                 <<"beginning", "start">>,
                 <<"beginning", "in_parens">>, <<"beginning", "arguments">>,
                 <<"beginning", "rest">>, <<"expression", "start">>,
                 <<"expression", "right_child">>, <<"call_list", "start">>,
                 <<"call_list", "argument">>}
          /\ (stack[i].at = "start") => (i = Len(stack))
    /\ returned.outcome \in {"none", "success", "failure"}
    /\ TokensTyped

\* Every call but the outermost holds a token of its own, so the depth of the
\* recursion is bounded by the tokens the parser holds: no function calls its
\* way back to itself without taking one (parser.c:532-573, :622-774, :961-975).
DepthBounded == Len(stack) <= 1 + Cardinality(Held)

\* The parser takes `(` `)` and `(` identifier `:` for a function and all else
\* for an expression, and has then given back every token it looked at, in the
\* order of the file (parser.c:402-443).
StartsFunction ==
    /\ Len(tokens.read) >= 2
    /\ Type(1) = "left_paren"
    /\ \/ Type(2) = "right_paren"
       \/ Len(tokens.read) = 3 /\ Type(2) = "identifier" /\ Type(3) = "colon"

LookaheadExact ==
    [][Is("function_or_expression", "start") =>
        /\ tokens'.pending = tokens'.read
        /\ Is("function", "start")' <=> StartsFunction']_vars
=============================================================================
