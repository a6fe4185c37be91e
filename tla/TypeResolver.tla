---------------------------- MODULE TypeResolver -----------------------------
(***************************************************************************)
(* resolve_types of typing/type_info.c: the recursive descent that types a *)
(* syntax tree and fills the symbol table, as a machine with a call stack. *)
(*                                                                         *)
(* The tree is `program`, the scope parser_parse_file returns; the node of *)
(* a frame is given by its path from there.  The statements of the file    *)
(* are chosen as they are reached.  The two children of a while are one    *)
(* node in memory and two paths here, which are typed alike.               *)
(*                                                                         *)
(* `typed` is the typing_information of the nodes' tokens, where it was    *)
(* set.  A result also tells whether the token it blames has a location.   *)
(* "crash" is a call of location_printable_text or of a declaration        *)
(* through a pointer that leads nowhere.                                   *)
(*                                                                         *)
(* `mishaps` remembers what no code looks at: that an addition was refused *)
(* and its result ignored, that a type was read from a freed buffer and    *)
(* came out different.                                                     *)
(***************************************************************************)
EXTENDS Integers, Sequences, SymbolTableOps

CONSTANTS Operators,     \* the binary operators
          Statements,    \* the statements a file may hold
          MaxStatements  \* how many of them at most

Types == {"unknown", "integer", "float", "string", "function"}

VARIABLES program, table, typed, stack, returned, mishaps

vars == <<program, table, typed, stack, returned, mishaps>>

-----------------------------------------------------------------------------
\* Nodes [type, name, children]; the name of a literal is its type.
Descendant(node, path) ==
    LET walk[n \in 0 .. Len(path)] ==
          IF n = 0 THEN node ELSE walk[n - 1].children[path[n]]
    IN  walk[Len(path)]

NodeAt(path) ==
    IF path = <<>> THEN program ELSE Descendant(program.children[Head(path)], Tail(path))

Typed(path) == IF path \in DOMAIN typed THEN typed[path] ELSE "unknown"

Mark(paths, type) ==
    typed' = [path \in paths \cup DOMAIN typed |-> IF path \in paths THEN type ELSE typed[path]]

\* The children resolve_types descends into without condition, in its order.
Order(node) ==
    IF node.type \in Operators \cup {"while"} THEN <<1, 2>>
    ELSE IF node.type \in {"assign", "constant"} THEN <<2, 1>>
    ELSE IF node.type \in {"call", "callStatement"} THEN <<1>>
    ELSE IF node.type \in {"function", "parameters", "scope", "if"}
    THEN [i \in DOMAIN node.children |-> i]
    ELSE <<>>

-----------------------------------------------------------------------------
Success(type) == [outcome |-> "success", type |-> type, located |-> TRUE]
Blame(located) == [outcome |-> "failure", type |-> "unknown", located |-> located]
Failure == Blame(TRUE)
Pending == [outcome |-> "none", type |-> "unknown", located |-> TRUE]
Crash == [outcome |-> "crash", type |-> "unknown", located |-> FALSE]

Top == stack[Len(stack)]
Below == SubSeq(stack, 1, Len(stack) - 1)
Here == NodeAt(Top.node)

Running == stack # <<>> /\ returned.outcome \in {"none", "success"}

\* The types of the children resolved so far.
Results == IF returned.outcome = "success" THEN Append(Top.got, returned.type) ELSE Top.got

\* All children of a node of one of these types have been resolved.
At(kinds) ==
    /\ Running
    /\ Here.type \in kinds
    /\ Len(Results) = Len(Order(Here))

Enter(steps) ==
    /\ stack' = Below \o <<[node |-> Top.node, got |-> Results],
                           [node |-> Top.node \o steps, got |-> <<>>]>>
    /\ returned' = Pending

Return(result) == stack' = Below /\ returned' = result

\* An error whose text names the place of an earlier declaration.
Complain(symbol) == Return(IF symbol.located THEN Failure ELSE Crash)

-----------------------------------------------------------------------------
ResolveChild ==
    /\ Running
    /\ Len(Results) < Len(Order(Here))
    /\ Enter(<<Order(Here)[Len(Results) + 1]>>)
    /\ UNCHANGED <<program, table, typed, mishaps>>

\* The next statement of the file.
ResolveStatement ==
    /\ At({"scope"})
    /\ Top.node = <<>>
    /\ Len(program.children) < MaxStatements
    /\ \E statement \in Statements :
          program' = [program EXCEPT !.children = Append(@, statement)]
    /\ Enter(<<Len(program.children) + 1>>)
    /\ UNCHANGED <<table, typed, mishaps>>

ChildFailed_Retrying ==
    /\ stack # <<>>
    /\ returned.outcome = "failure"
    /\ returned' = Pending
    /\ UNCHANGED <<program, table, typed, stack, mishaps>>

\* A child failed.  When it is the return type of a function, the result of
\* the parameters is returned: a success.
ChildFailed ==
    /\ stack # <<>>
    /\ returned.outcome = "failure"
    /\ Return(IF Here.type = "function" /\ Len(Top.got) = 1 THEN Success(Top.got[1]) ELSE returned)
    /\ UNCHANGED <<program, table, typed, mishaps>>

Literal ==
    /\ At({"literal"})
    /\ Mark({Top.node}, Here.name)
    /\ Return(Success(Here.name))
    /\ UNCHANGED <<program, table, mishaps>>

\* Operators leave their own token untyped.
Operator ==
    /\ At(Operators)
    /\ Return(IF Results[1] = Results[2] THEN Success(Results[1]) ELSE Failure)
    /\ UNCHANGED <<program, table, typed, mishaps>>

Identifier ==
    /\ At({"identifier"})
    /\ \/ /\ Found(table, Here.name)
          /\ Mark({Top.node}, SymbolOf(table, Here.name).type)
          /\ Return(Success(SymbolOf(table, Here.name).type))
       \/ /\ ~Found(table, Here.name)
          /\ Return(Failure)
          /\ UNCHANGED typed
    /\ UNCHANGED <<program, table, mishaps>>

-----------------------------------------------------------------------------
\* A name with a type, in a declaration or a list of parameters.
TypeAssignment_Redeclaring ==
    LET name == Here.children[1].name
        type == Here.children[2].name
    IN
    /\ At({"typed"})
    /\ \/ /\ Here.children[2].type = "null"
          /\ Return(Success("unknown"))
          /\ UNCHANGED <<table, typed, mishaps>>
       \/ /\ Here.children[2].type # "null"
          /\ ~Found(table, type)
          /\ Return(Failure)
          /\ UNCHANGED <<table, typed, mishaps>>
       \/ /\ Here.children[2].type # "null"
          /\ Found(table, type)
          /\ \E added \in Added(table, Symbol(name, TRUE, SymbolOf(table, type).type, FALSE)) :
                table' = added.table
          /\ Mark({Top.node, Top.node \o <<1>>}, SymbolOf(table, type).type)
          /\ Return(Success(SymbolOf(table, type).type))
          /\ UNCHANGED mishaps
    /\ UNCHANGED program

\* Without a type it is left to the assignment above.  Otherwise the name is
\* added to the table, whether that succeeds or not, and its type is read
\* through a pointer found before.
TypeAssignment ==
    LET name == Here.children[1].name
        type == Here.children[2].name
    IN
    /\ At({"typed"})
    /\ \/ /\ Here.children[2].type = "null"
          /\ Return(Success("unknown"))
          /\ UNCHANGED <<table, typed, mishaps>>
       \/ /\ Here.children[2].type # "null"
          /\ ~Found(table, type)
          /\ Return(Failure)
          /\ UNCHANGED <<table, typed, mishaps>>
       \/ /\ Here.children[2].type # "null"
          /\ Found(table, type)
          /\ Found(table, name)
          /\ Complain(SymbolOf(table, name))
          /\ UNCHANGED <<table, typed, mishaps>>
       \/ /\ Here.children[2].type # "null"
          /\ Found(table, type)
          /\ ~Found(table, name)
          /\ \E its \in {SymbolOf(table, type).type} :
             \E added \in Added(table, Symbol(name, TRUE, its, FALSE)) :
             \E read \in IF added.table.block = table.block THEN {its} ELSE Types :
                /\ table' = added.table
                /\ Mark({Top.node, Top.node \o <<1>>}, read)
                /\ Return(Success(read))
                /\ mishaps' = mishaps \cup (IF added.ok THEN {} ELSE {"refused"})
                                      \cup (IF read = its THEN {} ELSE {"stale"})
    /\ UNCHANGED program

AssignVariable_Constants ==
    LET symbol == SymbolOf(table, Here.children[1].name) IN
    /\ At({"assign"})
    /\ Here.children[1].type = "identifier"
    /\ IF symbol.type # Results[1]
       THEN Return(Failure) /\ UNCHANGED typed
       ELSE Mark({Top.node}, symbol.type) /\ Return(Success(symbol.type))
    /\ UNCHANGED <<program, table, mishaps>>

\* An assignment to a variable, which was found when its child was resolved.
AssignVariable ==
    LET symbol == SymbolOf(table, Here.children[1].name) IN
    /\ At({"assign"})
    /\ Here.children[1].type = "identifier"
    /\ \/ /\ symbol.constant
          /\ Complain(symbol)
          /\ UNCHANGED typed
       \/ /\ ~symbol.constant
          /\ symbol.type # Results[1]
          /\ Return(Failure)
          /\ UNCHANGED typed
       \/ /\ ~symbol.constant
          /\ symbol.type = Results[1]
          /\ Mark({Top.node}, symbol.type)
          /\ Return(Success(symbol.type))
    /\ UNCHANGED <<program, table, mishaps>>

\* The symbol of a function points to what it was declared with.
Completed_Not(grown, name, type, value) == grown

Completed(grown, name, type, value) ==
    IF type = "function" THEN Declared(grown, Index(grown, name), value) ELSE grown

\* A declaration whose type is that of the value, as a variable or a constant.
DeclareDeduced ==
    LET name == Here.children[1].children[1].name
        target == Top.node \o <<1>>
        type == Results[1]
    IN
    /\ At({"assign", "constant"})
    /\ Here.children[1].type = "typed"
    /\ Results[2] = "unknown"
    /\ \/ /\ Found(table, name)
          /\ Complain(SymbolOf(table, name))
          /\ UNCHANGED <<table, typed>>
       \/ /\ ~Found(table, name)
          /\ \E added \in Added(table, Symbol(name, TRUE, type, Here.type = "constant")) :
                \/ /\ ~added.ok
                   /\ table' = added.table
                   /\ Mark({target, target \o <<1>>}, type)
                   /\ Return(Failure)
                \/ /\ added.ok
                   /\ table' = Completed(added.table, name, type, Top.node \o <<2>>)
                   /\ Mark({target, target \o <<1>>, Top.node}, type)
                   /\ Return(Success(type))
    /\ UNCHANGED <<program, mishaps>>

\* A declaration that gives a type.  That of a constant falls through to the
\* case of an identifier, which looks for the operator in the table.
DeclareTyped ==
    /\ At({"assign", "constant"})
    /\ Here.children[1].type = "typed"
    /\ Results[2] # "unknown"
    /\ Return(IF Here.type = "assign" /\ Results[1] = Results[2]
              THEN Success(Results[1]) ELSE Failure)
    /\ UNCHANGED <<program, table, typed, mishaps>>

-----------------------------------------------------------------------------
Function ==
    /\ At({"function"})
    /\ Mark({Top.node}, "function")
    /\ Return(Success("function"))
    /\ UNCHANGED <<program, table, mishaps>>

\* The number of parameters of a declaration whose first child is `list`.  In
\* a leaf the field is zero; in any other node it overlays a pointer.
Parameters(list) ==
    IF list.type = "parameters" \/ list.children = <<>> THEN Len(list.children) ELSE -1

Arguments == Here.children[2].children

\* The symbol that is called.
Callee == SymbolOf(table, Here.children[1].name)

\* The type a call of a declaration has: that of the token of its second child.
CallType(declaration) == Typed(declaration \o <<2>>)

\* Whether the declaration of the function that is called was written.  One that
\* was not leads nowhere or to any node.
Written == Callee.type = "function" => Callee.decl # Unwritten

CallTypes == IF Written THEN {CallType(Callee.decl)} ELSE Types

Call_AnyArity ==
    /\ At({"call"})
    /\ \/ /\ Callee.type # "function"
          /\ Return(Failure)
       \/ /\ Callee.type = "function"
          /\ Written => NodeAt(Callee.decl).children = <<>>
          /\ Return(Crash)
       \/ /\ Callee.type = "function"
          /\ Written => NodeAt(Callee.decl).children # <<>>
          /\ IF Arguments = <<>> \/ (Written /\ NodeAt(Callee.decl).children[1].children = <<>>)
             THEN \E type \in CallTypes : Return(Success(type)) ELSE Enter(<<2, 1>>)
    /\ UNCHANGED <<program, table, typed, mishaps>>

\* The name that is called was resolved.  What its symbol points to need not
\* be a function, nor have been set.
Call ==
    /\ At({"call"})
    /\ \/ /\ Callee.type # "function"
          /\ Return(Failure)
       \/ /\ Callee.type = "function"
          /\ Written => NodeAt(Callee.decl).children = <<>>
          /\ Return(Crash)
       \/ /\ Callee.type = "function"
          /\ Written => /\ NodeAt(Callee.decl).children # <<>>
                        /\ Parameters(NodeAt(Callee.decl).children[1]) # Len(Arguments)
          /\ Return(Failure)
       \/ /\ Callee.type = "function"
          /\ Written => /\ NodeAt(Callee.decl).children # <<>>
                        /\ Parameters(NodeAt(Callee.decl).children[1]) = Len(Arguments)
          /\ IF Arguments = <<>>
             THEN \E type \in CallTypes : Return(Success(type)) ELSE Enter(<<2, 1>>)
    /\ UNCHANGED <<program, table, typed, mishaps>>

\* An argument was resolved.  What is compared is what its own token was typed
\* as, which in a call has no location either.
Argument ==
    /\ Running
    /\ Here.type = "call"
    /\ Len(Results) > 1
    /\ \E i \in {Len(Results) - 1} :
          \/ /\ ~Written
             /\ Return(Crash)
          \/ /\ Written => Typed(Callee.decl \o <<1, i>>) # Typed(Top.node \o <<2, i>>)
             /\ Return(Blame(Arguments[i].type # "call"))
          \/ /\ Written => Typed(Callee.decl \o <<1, i>>) = Typed(Top.node \o <<2, i>>)
             /\ IF i = Len(Arguments)
                THEN \E type \in CallTypes : Return(Success(type)) ELSE Enter(<<2, i + 1>>)
    /\ UNCHANGED <<program, table, typed, mishaps>>

CallStatement ==
    /\ At({"callStatement"})
    /\ Mark({Top.node}, Results[1])
    /\ Return(Success(Results[1]))
    /\ UNCHANGED <<program, table, mishaps>>

\* Nodes that have no type of their own.
Untyped ==
    /\ At({"parameters", "scope", "if", "while", "comment", "EOF"})
    /\ Return(Success("unknown"))
    /\ UNCHANGED <<program, table, typed, mishaps>>

-----------------------------------------------------------------------------
Init ==
    /\ program = [type |-> "scope", name |-> "", children |-> <<>>]
    /\ table \in Created(Builtin("float", "float"), Builtin("int", "integer"))
    /\ typed = <<>>
    /\ stack = <<[node |-> <<>>, got |-> <<>>]>>
    /\ returned = Pending
    /\ mishaps = {}

Step == \/ ResolveChild
        \/ ResolveStatement
        \/ ChildFailed
        \/ Literal
        \/ Operator
        \/ Identifier
        \/ TypeAssignment
        \/ AssignVariable
        \/ DeclareDeduced
        \/ DeclareTyped
        \/ Function
        \/ Call
        \/ Argument
        \/ CallStatement
        \/ Untyped

\* resolve_types has returned, or the program is gone.
Ended == stack = <<>> \/ returned.outcome = "crash"
Finished == Ended /\ UNCHANGED vars

Next == Step \/ Finished

\* resolve_types runs on one thread and does nothing but step.
Spec == Init /\ [][Next]_vars /\ WF_vars(Step)
=============================================================================
