--------------------------- MODULE MCTypeResolver ----------------------------
(***************************************************************************)
(* Values for model checking type resolution: statements that declare,     *)
(* assign and call a few names in every way the parser accepts, functions  *)
(* and their aliases and the built-in types among them.                    *)
(***************************************************************************)
EXTENDS TypeResolverProperties

Tree(type, name, children) == [type |-> type, name |-> name, children |-> children]
Name(name) == Tree("identifier", name, <<>>)
Literals(type) == Tree("literal", type, <<>>)
One == Literals("integer")
Half == Literals("float")
List(nodes) == Tree("parameters", "", nodes)
Calls(name, arguments) == Tree("call", "", <<Name(name), List(arguments)>>)
Sum(left, right) == Tree("+", "", <<left, right>>)

Declared_As(name, type) == Tree("typed", "", <<Name(name), Name(type)>>)
Deduced(name) == Tree("typed", "", <<Name(name), Tree("null", "", <<>>)>>)
Assigned(target, value) == Tree("assign", "", <<target, value>>)
Constant(target, value) == Tree("constant", "", <<target, value>>)
Block(statements) == Tree("scope", "", statements)
Lambda(parameters, type, body) == Tree("function", "", <<List(parameters), Name(type), body>>)
CallOf(call) == Tree("callStatement", "", <<call>>)

Variables ==
    {Assigned(Declared_As("x", "int"), One),
     Assigned(Declared_As("x", "int"), Half),
     Assigned(Deduced("x"), One),
     Constant(Deduced("x"), One),
     Constant(Declared_As("y", "int"), One),
     Assigned(Name("x"), One),
     Assigned(Name("x"), Sum(Name("y"), One)),
     Assigned(Deduced("y"), Calls("f", <<One>>)),
     Assigned(Deduced("y"), Sum(Calls("f", <<Calls("f", <<One>>)>>), Name("x"))),
     Assigned(Declared_As("y", "x"), Half)}

Builtin_Misuse ==
    {Assigned(Name("int"), One),
     Assigned(Declared_As("float", "int"), One),
     Constant(Deduced("int"), One)}

Functions ==
    {Constant(Deduced("f"), Lambda(<<>>, "int", Block(<<Assigned(Deduced("y"), One)>>))),
     Constant(Deduced("f"), Lambda(<<Declared_As("a", "int")>>, "float",
                                   Block(<<Assigned(Name("a"), One)>>))),
     Assigned(Deduced("f"), Lambda(<<Declared_As("a", "nothing")>>, "int", Block(<<>>))),
     Constant(Deduced("f"), Lambda(<<>>, "nothing", Block(<<Assigned(Name("x"), One)>>))),
     Constant(Deduced("g"), Name("f")),
     Constant(Deduced("g"), Sum(Name("f"), Name("f"))),
     Constant(Deduced("g"), Lambda(<<Declared_As("b", "f")>>, "f", Block(<<CallOf(Calls("b", <<>>))>>))),
     Assigned(Declared_As("g", "f"), Name("f")),
     Assigned(Declared_As("g", "f"), Lambda(<<>>, "int", Block(<<>>))),
     Constant(Deduced("g"), Lambda(<<>>, "nothing", Assigned(Name("x"), One))),
     CallOf(Calls("f", <<>>)),
     CallOf(Calls("f", <<One>>)),
     CallOf(Calls("f", <<Half, One>>)),
     CallOf(Calls("f", <<Sum(One, One)>>)),
     CallOf(Calls("f", <<Calls("f", <<One>>)>>)),
     CallOf(Calls("g", <<>>)),
     CallOf(Calls("g", <<Name("f")>>))}

Control ==
    {Tree("if", "", <<Name("x"), Block(<<Assigned(Deduced("y"), One)>>),
                      Assigned(Deduced("y"), One)>>),
     Tree("while", "", <<Calls("f", <<One>>), Calls("f", <<One>>)>>),
     Tree("if", "", <<Name("x"), Tree("EOF", "", <<>>)>>),
     Block(<<Assigned(Deduced("g"), Name("f")), CallOf(Calls("g", <<>>)),
             Constant(Deduced("g"), Lambda(<<>>, "int", Block(<<>>)))>>),
     Tree("comment", "", <<>>)}

MCStatements == Variables \cup Builtin_Misuse \cup Functions \cup Control
Plus == {"+"}
=============================================================================
