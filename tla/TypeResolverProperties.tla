----------------------- MODULE TypeResolverProperties ------------------------
(***************************************************************************)
(* What must hold of a program that resolve_types accepts, of the ways in  *)
(* which it fails, and that it ends.                                       *)
(***************************************************************************)
EXTENDS TypeResolver, TreeShapes

CONSTANT Depth  \* how deep the nodes of a statement are nested, at most

Child(path, i) == path \o <<i>>

\* The paths of the nodes of a statement, and of all nodes.
PathsOf(statement) ==
    LET level[n \in 0 .. Depth] ==
          IF n = 0 THEN {<<>>}
          ELSE UNION {{Child(p, i) : i \in DOMAIN Descendant(statement, p).children} :
                      p \in level[n - 1]}
    IN  UNION {level[n] : n \in 0 .. Depth}

Paths ==
    {<<>>} \cup UNION {{<<i>> \o p : p \in PathsOf(program.children[i])} :
                      i \in DOMAIN program.children}

ASSUME DepthAssumption ==
    /\ Depth \in Nat
    /\ \A statement \in Statements : \A path \in PathsOf(statement) :
          Len(path) = Depth => Descendant(statement, path).children = <<>>

\* Type resolution relies on the shapes that the parser guarantees.
ASSUME ShapesAssumption ==
    \A statement \in Statements :
        /\ statement.type \in StatementTypes
        /\ \A path \in PathsOf(statement) : HasShape(Descendant(statement, path), Operators)

ASSUME LiteralsAssumption ==
    \A statement \in Statements : \A path \in PathsOf(statement) :
        LET node == Descendant(statement, path)
        IN  node.type = "literal" => node.name \in {"integer", "float", "string"}

\* The operators are types of nodes that stand for nothing else.
ASSUME OperatorsAssumption == Operators \cap NodeTypes({}) = {}

\* No path is what malloc left in a declaration that was never written.
ASSUME UnwrittenAssumption == Unwritten \notin Seq(Nat)

Accepted == stack = <<>> /\ returned.outcome = "success"
Crashed == returned.outcome = "crash"

\* The table, the frames and the types that were set keep their types.
TypeOK ==
    /\ table.size \in 0 .. table.capacity
    /\ \A i \in 0 .. table.size - 1 :
          /\ table.buffer[i].type \in Types
          /\ table.buffer[i].decl # Unwritten =>
                table.buffer[i].decl \in Paths
    /\ typed \in [DOMAIN typed -> Types]
    /\ DOMAIN typed \subseteq Paths
    /\ \A i \in DOMAIN stack : stack[i].node \in Paths
    /\ returned \in [outcome : {"none", "success", "failure", "crash"}, type : Types,
                     located : BOOLEAN]
    /\ mishaps \subseteq {"refused", "stale"}

-----------------------------------------------------------------------------
\* A path leads to another one, or below it.
Within(path, other) == Len(path) >= Len(other) /\ SubSeq(path, 1, Len(other)) = other

\* The functions whose return type was not found: their bodies are skipped.
Skipped == {p \in Paths : NodeAt(p).type = "function" /\ Child(p, 2) \notin DOMAIN typed}

\* The nodes of some types, but for those in a body that was skipped.
Of(kinds) ==
    {p \in Paths : /\ NodeAt(p).type \in kinds
                   /\ \A f \in Skipped : ~Within(p, Child(f, 3))}

NameAt(path) == NodeAt(path).name

\* The declarations: the nodes that give a name its meaning.
Declarations == Of({"typed"})
DeclaredName(p) == NameAt(Child(p, 1))
BuiltinNames == {"float", "int"}
UserSymbols == {s \in {table.buffer[i] : i \in 0 .. table.size - 1} : s.located}

\* In a program that is accepted every name has one declaration, none of them
\* that of a built-in type the table knows, and the table holds those names and
\* no others, with the type the declaration was given: in spite of bodies,
\* parameters and blocks sharing one table, and of an addition whose result is
\* ignored (type_info.c:53-91, :144-188, :217-259).  A refused addition is the
\* exception, and so is a type read after the table moved.
NamesMeanOneThing ==
    Accepted /\ mishaps = {} =>
        /\ \A p, q \in Declarations : DeclaredName(p) = DeclaredName(q) => p = q
        /\ {s.name : s \in UserSymbols} = {DeclaredName(p) : p \in Declarations}
        /\ \A p \in Declarations : LET name == DeclaredName(p) IN
              /\ SymbolOf(table, name).located
              /\ SymbolOf(table, name).type = Typed(Child(p, 1))

\* In a program that is accepted no assignment changes a constant or a built-in
\* type, whichever of the ways a name is declared (type_info.c:86, :116, :167,
\* :238).
ConstantsKept ==
    Accepted =>
        \A p \in Of({"assign"}) : NodeAt(Child(p, 1)).type = "identifier" =>
            /\ NameAt(Child(p, 1)) \notin BuiltinNames \ {s.name : s \in UserSymbols}
            /\ \A q \in Of({"constant"}) :
                  DeclaredName(Child(q, 1)) # NameAt(Child(p, 1))

-----------------------------------------------------------------------------
\* A declaration that makes a name the function it declares: one that gives a
\* type leaves the symbol without a declaration.
DeclaresFunction(p) ==
    LET node == NodeAt(p) IN
    /\ node.type \in {"assign", "constant"}
    /\ node.children[1].type = "typed"
    /\ node.children[1].children[2].type = "null"
    /\ node.children[2].type = "function"

\* The declarations of the name a call calls, when they make it a function.
Callees(call) ==
    {d \in Of({"assign", "constant"}) :
        DeclaresFunction(d) /\ DeclaredName(Child(d, 1)) = NameAt(Child(call, 1))}

\* A call of a name that is declared as something else: as a parameter, with a
\* type, as an alias or the result of a call, whose declaration is not there or
\* is read for what it is not.
Misread ==
    \E c \in Of({"call"}) : \E p \in Declarations :
        /\ DeclaredName(p) = NameAt(Child(c, 1))
        /\ \A d \in Callees(c) : p # Child(d, 1)

\* The operands an expression is made of by operators: itself, when it is none.
Operands(p) ==
    {q \in Paths :
        /\ Within(q, p)
        /\ NodeAt(q).type \notin Operators
        /\ \A n \in Len(p) .. Len(q) - 1 : NodeAt(SubSeq(q, 1, n)).type \in Operators}

\* The type of an operand as the meaning of the language has it: literals,
\* names and functions their own, calls the return type of the function.
Meaning(p) ==
    LET node == NodeAt(p) IN
    IF node.type = "literal" THEN node.name
    ELSE IF node.type = "identifier" THEN SymbolOf(table, node.name).type
    ELSE IF node.type = "function" THEN "function"
    ELSE IF node.type = "call" /\ Callees(p) # {}
    THEN SymbolOf(table, NameAt((CHOOSE d \in Callees(p) : TRUE) \o <<2, 2>>)).type
    ELSE "unknown"

\* What is assigned to: the name in a declaration, or the name itself.
Target(p) == IF NodeAt(Child(p, 1)).type = "typed" THEN p \o <<1, 1>> ELSE Child(p, 1)

\* A call agrees with the declaration of a function.
Agrees(call, declaration) ==
    LET parameters == NodeAt(declaration \o <<2, 1>>).children
    IN  /\ Len(parameters) = Len(NodeAt(Child(call, 2)).children)
        /\ \A i \in DOMAIN parameters : \A q \in Operands(call \o <<2, i>>) :
              SymbolOf(table, parameters[i].children[1].name).type \in {"unknown", Meaning(q)}

\* In a program that is accepted all operands of an operator mean the same
\* type, what is assigned means the type of the variable, and the arguments of
\* a call are as many as the parameters and mean their types, but for
\* parameters of unknown type (type_info.c:47, :128, :190, :313-336).  Excepted
\* are functions that were misread or skipped.
WellTyped ==
    Accepted /\ mishaps = {} /\ ~Misread /\ Skipped = {} =>
        /\ \A p \in Of(Operators) : \A q, r \in Operands(p) : Meaning(q) = Meaning(r)
        /\ \A p \in Of({"assign"}) : \A q \in Operands(Child(p, 2)) :
              SymbolOf(table, NameAt(Target(p))).type = Meaning(q)
        /\ \A p \in Of({"call"}) : \E d \in Callees(p) : Agrees(p, d)

-----------------------------------------------------------------------------
\* A declaration of, or an assignment to, the name of a built-in type.
BuiltinTouched ==
    \/ \E p \in Of({"typed"}) : DeclaredName(p) \in BuiltinNames
    \/ \E p \in Of({"assign"}) :
          NodeAt(Child(p, 1)).type = "identifier" /\ NameAt(Child(p, 1)) \in BuiltinNames

\* Type resolution crashes only on a redeclared or assigned built-in type and
\* on a call of a name that is declared as something else than a function, such
\* as an alias or a parameter (type_info.c:74, :120, :182, :226, :310-313).
CrashesExplained == Crashed => BuiltinTouched \/ Misread

\* Every expression of a program that is accepted has been typed ("recursively
\* descends a given AST and sets the token typing_information of each node",
\* type_info.h:38).
AcceptedIsTyped ==
    Accepted /\ Skipped = {} =>
        \A p \in Of(Operators \cup {"literal", "call", "function"}) : Typed(p) # "unknown"

\* Type resolution ends on every program, in a result or a crash.
Terminates == <>Ended
=============================================================================
