------------------------------ MODULE SymbolMap ------------------------------
(***************************************************************************)
(* What symbol_table.h promises: names with a symbol each.  A name gets a  *)
(* symbol once, and keeps it with its type; only the declaration of a      *)
(* function may be filled in.  An addition may be refused, and then        *)
(* nothing changes.                                                        *)
(***************************************************************************)
CONSTANTS Symbols, Nodes, Builtins, NoSymbol, Function

VARIABLES known,  \* from the names to their symbols
          answer  \* to the last call

vars == <<known, answer>>

Answer(call, ok, symbol) == [call |-> call, ok |-> ok, symbol |-> symbol]

Nameable == {s.name : s \in Symbols \cup Builtins}

Init == /\ \E some \in SUBSET Builtins :
              known = [name \in {s.name : s \in some} |-> CHOOSE s \in some : s.name = name]
        /\ answer = Answer("create", TRUE, NoSymbol)

Add(s) == /\ s.name \notin DOMAIN known
          /\ known' = [name \in DOMAIN known \cup {s.name} |->
                           IF name = s.name THEN s ELSE known[name]]
          /\ answer' = Answer("add", TRUE, NoSymbol)

AddRefused == /\ answer' = Answer("add", FALSE, NoSymbol)
              /\ UNCHANGED known

Find(name) == /\ name \in DOMAIN known
              /\ answer' = Answer("find", TRUE, known[name])
              /\ UNCHANGED known

FindUnknown(name) == /\ name \notin DOMAIN known
                     /\ answer' = Answer("find", FALSE, NoSymbol)
                     /\ UNCHANGED known

\* The symbol that was found last, a function, is given its declaration.
Declare(node) == /\ answer.call = "find"
                 /\ answer.ok
                 /\ answer.symbol.type = Function
                 /\ known' = [known EXCEPT ![answer.symbol.name].decl = node]
                 /\ answer' = Answer("declare", TRUE, NoSymbol)

Destroy == /\ known' = [name \in {} |-> NoSymbol]
           /\ answer' = Answer("destroy", TRUE, NoSymbol)

Next == \/ \E s \in Symbols : Add(s)
        \/ AddRefused
        \/ \E name \in Nameable : Find(name) \/ FindUnknown(name)
        \/ \E node \in Nodes : Declare(node)
        \/ Destroy

Spec == Init /\ [][Next]_vars
=============================================================================
