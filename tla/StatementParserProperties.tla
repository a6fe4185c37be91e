---------------------- MODULE StatementParserProperties ----------------------
(***************************************************************************)
(* What must hold of a file the parser accepts: which of its tokens are in *)
(* the tree, how they nest, and that the parser comes to an answer.        *)
(***************************************************************************)
EXTENDS StatementParserSafety, ParseTrees, TreeShapes, TLC

\* The known ways to lose tokens: a while, whose body is dropped; a function
\* whose body failed; and a second type name.
Functions == {n \in Nodes(returned.tree) : n.type = "function"}
FunctionsWhole ==
    Cardinality(Functions) = Cardinality({i \in Held : Type(i) = "arrow"})
OneType ==
    \A i \in Held : {i, i + 1, i + 2} \subseteq Held =>
        <<Type(i), Type(i + 1), Type(i + 2)>> # <<"colon", "identifier", "identifier">>
NoWhile == \A i \in Held : Type(i) # "while"

\* In every other file that is accepted, the tree holds every operand, operator
\* and comment, once and in the order of the file: none of the error paths,
\* put backs and rotations loses a token that nobody misses.
LossesExplained ==
    Answered /\ NoWhile /\ FunctionsWhole /\ OneType => TreeHoldsTokens

\* The tree represents the tokens of a file that is accepted ("resulting_tree:
\* the tree which represents the successfully parsed tokens", parse_result.h).
AcceptedIsRepresented == Answered => TreeHoldsTokens

\* Every node of an accepted file has the children its type stands for, which
\* type resolution takes without looking: no error path, put back or rotation
\* leaves a child out or puts one where it does not belong (parser.c:89-474,
\* :673-768, :913-984; type_info.c:39, :60, :313).
ChildrenPresent ==
    Answered => \A n \in Nodes(returned.tree) : HasShape(n, Operators)

\* In a file that is accepted every brace and parenthesis is closed, in the
\* order in which they were opened (parser.c:218-260, :476-573, :631-650).
\* Excepted are files with a function whose body does not parse: its return
\* type is answered, a success, and f :: () -> t { x ; is accepted with its
\* brace open (parser.c:460-467).
Closing == "left_curly" :> "right_curly" @@ "left_paren" :> "right_paren"

Balanced ==
    Answered /\ FunctionsWhole =>
        \A open \in DOMAIN Closing : \A i \in Held : Type(i) = open =>
            \E j \in Held :
                /\ j > i
                /\ Type(j) = Closing[open]
                /\ \A other \in DOMAIN Closing :
                      Count(other, i, j) = Count(Closing[other], i, j)

\* The if at which a statement ends without an else, if there is one.
RECURSIVE EndsInIf(_)
EndsInIf(node) ==
    /\ node.type = "if"
    /\ Len(node.children) = 2 \/ EndsInIf(node.children[3])

\* An else belongs to the nearest if that is open: what stands between an if
\* and its else does not end in an if without one (parser.c:158-184).
NearestElse ==
    Answered =>
        \A n \in Nodes(returned.tree) :
            n.type = "if" /\ Len(n.children) = 3 => ~EndsInIf(n.children[2])

\* The parser comes to an answer on every file, whatever is wrong with it.
Terminates == <>(stack = <<>>)
=============================================================================
