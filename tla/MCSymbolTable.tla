--------------------------- MODULE MCSymbolTable -----------------------------
(***************************************************************************)
(* Values for model checking SymbolTable.  With the built-in types and     *)
(* two more names the table grows from one cell to two, four and eight.    *)
(***************************************************************************)
EXTENDS SymbolTable
=============================================================================
