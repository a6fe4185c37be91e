--------------------- MODULE ExpressionParserProperties ---------------------
(***************************************************************************)
(* What must hold of the trees the expression parser builds, stated over   *)
(* the text it has read.                                                   *)
(***************************************************************************)
EXTENDS ExpressionParserSafety, ParseTrees

\* The next token cannot continue the expression.
Stopped == tokens.pending # <<>> => Head(tokens.pending).type \notin Operators

\* The operand of an operator, if it is an operator outside parentheses.
OperatorChildren(node, i) ==
    IF /\ node.type \in Operators
       /\ node.children[i].type \in Operators
       /\ ~node.children[i].enclosed
    THEN {node.children[i]} ELSE {}

-----------------------------------------------------------------------------
\* If the parser answers with a tree and the next token cannot continue it,
\* every operand and operator it took is in the tree, once and in the order of
\* the file.  A failed right operand loses tokens (parser.c:961-975) and its
\* error is thrown away (parser.c:652-659); this says that what then comes next
\* is always the operator, so that the caller must notice.
NoSilentLoss ==
    Answered /\ Stopped => TreeHoldsTokens

\* The parentheses that group, and the span of each.  An opening one behind an
\* identifier starts a call.
Opens == {i \in Held : Type(i) = "left_paren" /\ (i = 1 \/ Type(i - 1) # "identifier")}
IsSpan(i, j) ==
    /\ Type(j) = "right_paren" /\ Count("left_paren", i, j) = Count("right_paren", i, j)
    /\ \A k \in i .. j - 1 : Count("left_paren", i, k) > Count("right_paren", i, k)
Groups == {Kept(i .. CHOOSE j \in {k \in Held : k > i} : IsSpan(i, j)) : i \in Opens}

\* Rotations never split what the file groups: the subtrees marked as enclosed
\* are exactly the groups of the file (parser.c:648, :929).
ParensPreserved ==
    Answered /\ Stopped =>
        {Positions(n) : n \in {m \in Nodes(returned.tree) : m.enclosed}} = Groups

\* No operator has an operand that binds less tightly and is not enclosed
\* ("Will rearrange the tree such that it obeys operator precedence",
\* parser.c:19).
ObeysPrecedence(tree) ==
    \A n \in Nodes(tree) : \A i \in 1 .. 2 : \A c \in OperatorChildren(n, i) :
        Level[n.type] <= Level[c.type]

PrecedenceObeyed == Answered => ObeysPrecedence(returned.tree)

\* That is so as long as operators of at most two levels occur: then the one
\* rotation made at each level on the way up is enough (parser.c:913-947).
TwoLevelPrecedence ==
    Answered /\ Cardinality({Level[Type(i)] : i \in {j \in Held : Type(j) \in Operators}}) <= 2
    => ObeysPrecedence(returned.tree)

\* Operators of the same level group to the right, throughout the tree: a
\* rotation (parser.c:929) is made for a strictly higher level only, and none
\* of a chain of them undoes another.
EqualsGroupRight ==
    Answered =>
        \A n \in Nodes(returned.tree) : \A c \in OperatorChildren(n, 1) :
            Level[n.type] # Level[c.type]

\* The parser comes to an answer on every file, whatever is wrong with it.
Terminates == <>Ended
=============================================================================
