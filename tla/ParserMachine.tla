--------------------------- MODULE ParserMachine ----------------------------
(***************************************************************************)
(* What the functions of parser/parser.c have in common: the C call stack, *)
(* the nodes they build and the lexer as they use it.                      *)
(*                                                                         *)
(* The call stack is the variable `stack`; an action of the modules that   *)
(* extend this one runs one function from where it was entered or returned *)
(* to until its next call or its return.  `returned` is what the last      *)
(* function to return gave.                                                *)
(*                                                                         *)
(* The lexer is a tape with a put-back queue: `pending` holds the tokens   *)
(* in the peek buffer and `read` every token lexed so far; the text of the *)
(* file is chosen as it is read.  A token remembers its place in `read`.   *)
(***************************************************************************)
EXTENDS Integers, Sequences

CONSTANTS
    Operators,   \* the binary operators
    Level,       \* precedence_from_node_type of each of them
    Files        \* kinds of file: [types, length], the tokens that occur in it
                 \* and the bound on how many, not counting the end

\* The tokens the parser tells apart, besides binary operators and the end of
\* the file.  Literals of the three kinds are treated alike, and so are the two
\* kinds of comment; "invalid" stands for every other token.
OtherTypes == {"identifier", "literal", "left_paren", "right_paren", "comma", "colon",
               "equals", "semicolon", "left_curly", "right_curly", "arrow",
               "call", "if", "else", "while", "comment", "invalid"}

ASSUME OperatorAssumption == Level \in [Operators -> {1, 2, 3}]
ASSUME TokenAssumption == Operators \cap (OtherTypes \cup {"EOF"}) = {}
ASSUME FilesAssumption ==
    \A file \in Files : /\ file.types \subseteq Operators \cup OtherTypes
                        /\ file.length \in Nat

VARIABLES
    stack,    \* frames [proc, at, tree], innermost last
    returned, \* what the last function to return gave
    tokens    \* [file, pending, read]; file is fixed

vars == <<stack, returned, tokens>>

-----------------------------------------------------------------------------
\* The lexer, as the parser uses it.
Lexed(v, type) ==
    LET t == [type |-> type, at |-> Len(v.read) + 1]
    IN  [v EXCEPT !.pending = <<t>>, !.read = Append(@, t)]

AtEnd(v) == v.read # <<>> /\ v.read[Len(v.read)].type = "EOF"

\* lexer_peek_token: the views in which a token is pending.
Peeked(v) ==
    IF v.pending # <<>> THEN {v}
    ELSE IF AtEnd(v) THEN {[v EXCEPT !.pending = <<v.read[Len(v.read)]>>]}
    ELSE IF Len(v.read) < v.file.length
    THEN {Lexed(v, type) : type \in v.file.types \cup {"EOF"}}
    ELSE {Lexed(v, "EOF")}

Taken_Peeking(v) == v

\* lexer_next_token, once a token is pending.
Taken(v) == [v EXCEPT !.pending = Tail(@)]

\* lexer_put_back_token
PutBack_Not(v, t) == v
PutBack_Behind(v, t) == [v EXCEPT !.pending = Append(@, t)]
PutBack(v, t) == [v EXCEPT !.pending = <<t>> \o @]

-----------------------------------------------------------------------------
\* Nodes of the tree, as values: type, the token it stands for, children.
Node(type, at, children) ==
    [type |-> type, at |-> at, children |-> children, enclosed |-> FALSE]
Null == Node("null", 0, <<>>)
Leaf(t) == Node(t.type, t.at, <<>>)

-----------------------------------------------------------------------------
\* Calls and returns.
Frame(proc, at, tree) == [proc |-> proc, at |-> at, tree |-> tree]

Top == stack[Len(stack)]
Below == SubSeq(stack, 1, Len(stack) - 1)

Is(proc, at) == stack # <<>> /\ Top.proc = proc /\ Top.at = at

Nothing == [outcome |-> "none", tree |-> Null]
Success(tree) == [outcome |-> "success", tree |-> tree]
Failure == [outcome |-> "failure", tree |-> Null]

Call_Reentering(callee, at, tree) ==
    /\ stack' = Append(stack, Frame(callee, "start", Null))
    /\ returned' = Nothing

\* The running function waits at `at`, keeping `tree`, for a call of callee.
Call(callee, at, tree) ==
    /\ stack' = Below \o <<Frame(Top.proc, at, tree), Frame(callee, "start", Null)>>
    /\ returned' = Nothing

Return(result) == stack' = Below /\ returned' = result

\* The running function goes on at `at`, keeping `tree`.
Goto(at, tree) ==
    /\ stack' = Below \o <<Frame(Top.proc, at, tree)>>
    /\ returned' = Nothing

\* The running function ends in a call of callee.
TailCall(callee) ==
    /\ stack' = Below \o <<Frame(callee, "start", Null)>>
    /\ returned' = Nothing

\* The outermost call, of entry.
Entered(entry) ==
    /\ stack = <<Frame(entry, "start", Null)>>
    /\ returned = Nothing
    /\ \E file \in Files : tokens = [file |-> file, pending |-> <<>>, read |-> <<>>]
=============================================================================
