----------------------------- MODULE SymbolTable -----------------------------
(***************************************************************************)
(* The symbol_table (typing/symbol_table.c) as a component: one action per *)
(* exported function and one for what type resolution writes through a     *)
(* pointer it was given, called by an arbitrary client until it destroys   *)
(* the table.                                                              *)
(*                                                                         *)
(* `held` is the pointer the last symbol_table_find returned, which a      *)
(* client may keep (typing/type_info.c:60-90 does): the block and cell it  *)
(* points to and the name it was found by.                                 *)
(***************************************************************************)
EXTENDS Integers, FiniteSets, SymbolTableOps

CONSTANTS Names, Types, Nodes, Float, Integer, Function

ASSUME BuiltinsAssumption == Float # Integer
ASSUME UnwrittenAssumption == Unwritten \notin Nodes
ASSUME TypesAssumption == Function \in Types

VARIABLES table,  \* the C struct
          held,   \* [block, cell, name]
          answer  \* to the last call

vars == <<table, held, answer>>

AllNames == Names \cup {Float, Integer}
Builtins == {Builtin(Float, Float), Builtin(Integer, Integer)}
UserSymbols ==
    [name : AllNames, located : {TRUE}, type : Types, constant : BOOLEAN, decl : {Unwritten}]

NullPointer == [block |-> -1, cell |-> 0, name |-> Unwritten]
Answer(call, ok, symbol) == [call |-> call, ok |-> ok, symbol |-> symbol]

Alive == table.capacity > 0

symbol_table_create ==
    /\ table \in Created(Builtin(Float, Float), Builtin(Integer, Integer))
    /\ held = NullPointer
    /\ answer = Answer("create", TRUE, Unwritten)

symbol_table_add(symbol) ==
    /\ Alive
    /\ \E added \in Added(table, symbol) :
          /\ table' = added.table
          /\ answer' = Answer("add", added.ok, Unwritten)
    /\ UNCHANGED held

symbol_table_find(name) ==
    /\ Alive
    /\ \/ /\ Found(table, name)
          /\ held' = [block |-> table.block, cell |-> Index(table, name), name |-> name]
          /\ answer' = Answer("find", TRUE, SymbolOf(table, name))
       \/ /\ ~Found(table, name)
          /\ held' = NullPointer
          /\ answer' = Answer("find", FALSE, Unwritten)
    /\ UNCHANGED table

\* What resolve_types does with the symbol of a function it has just added.
SetDeclaration(node) ==
    /\ answer.call = "find"
    /\ answer.ok
    /\ answer.symbol.type = Function
    /\ table' = Declared(table, held.cell, node)
    /\ answer' = Answer("declare", TRUE, Unwritten)
    /\ UNCHANGED held

symbol_table_destroy ==
    /\ Alive
    /\ table' = Destroyed(table)
    /\ answer' = Answer("destroy", TRUE, Unwritten)
    /\ UNCHANGED held

\* After the table was destroyed the client does nothing more with it.
Gone == ~Alive /\ UNCHANGED vars

Init == symbol_table_create

Next == \/ \E symbol \in UserSymbols : symbol_table_add(symbol)
        \/ \E name \in AllNames : symbol_table_find(name)
        \/ \E node \in Nodes : SetDeclaration(node)
        \/ symbol_table_destroy
        \/ Gone

Spec == Init /\ [][Next]_vars

-----------------------------------------------------------------------------
SymbolRecord ==
    [name : AllNames, located : BOOLEAN, type : Types \cup {Float, Integer}, constant : BOOLEAN,
     decl : Nodes \cup {Unwritten}]

\* The struct keeps its type: the buffer has its cells, all that are counted
\* were written, and the size never passes the capacity.
TypeOK ==
    /\ table.capacity \in Nat
    /\ table.size \in 0 .. table.capacity
    /\ table.block \in Nat
    /\ \/ DOMAIN table.buffer = 0 .. table.capacity - 1
       \/ DOMAIN table.buffer = {} /\ table.size = 0
    /\ \A i \in DOMAIN table.buffer :
          table.buffer[i] \in IF i < table.size THEN SymbolRecord ELSE {Unwritten}
    /\ held \in [block : Nat, cell : Nat, name : AllNames] \cup {NullPointer}
    /\ answer \in [call : {"create", "add", "find", "declare", "destroy"}, ok : BOOLEAN,
                   symbol : SymbolRecord \cup {Unwritten}]

\* A pointer the client kept is either into a buffer that was freed or still
\* points to the symbol it was found by: no call moves a symbol within the
\* buffer (symbol_table.c:33-49, which the client's type_info.c:88 relies on).
PointerKept ==
    held.block = table.block =>
        /\ held.cell < table.size
        /\ table.buffer[held.cell].name = held.name

\* The array, its growth and its failures implement the map of the header:
\* every name keeps its first symbol, and a refused addition changes nothing,
\* although the table may have grown for it (symbol_table.h:58-71).
Known == [name \in {table.buffer[i].name : i \in 0 .. table.size - 1} |-> SymbolOf(table, name)]

Map == INSTANCE SymbolMap
       WITH known <- Known, Symbols <- UserSymbols, NoSymbol <- Unwritten

ImplementsMap == Map!Spec
=============================================================================
