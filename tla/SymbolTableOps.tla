--------------------------- MODULE SymbolTableOps ----------------------------
(***************************************************************************)
(* The symbol_table of typing/symbol_table.c as a value and the functions  *)
(* of that file as operators on it.  SymbolTable makes a state machine of  *)
(* them, TypeResolver embeds them.                                         *)
(*                                                                         *)
(* A table is the C struct: an array `buffer` of `capacity` cells indexed  *)
(* from 0, of which the first `size` are symbols.  Cells that malloc       *)
(* returned and nobody wrote hold Unwritten.  `block` numbers the          *)
(* allocations the buffer has lived in: a pointer into an earlier one      *)
(* points to freed memory.  A buffer that malloc did not give has no cell. *)
(***************************************************************************)
LOCAL INSTANCE Integers

CONSTANT Unwritten

\* DEFAULT_SYMBOL_TABLE_CAPACITY, DEFAULT_SYMBOL_TABLE_RESIZE_FACTOR
FirstCapacity == 1
ResizeFactor == 2

Cells(capacity) == [i \in 0 .. capacity - 1 |-> Unwritten]

Fresh(cells) == [buffer |-> cells, size |-> 0, capacity |-> FirstCapacity, block |-> 0]

\* A symbol: its token (a name, and whether its location names a file), its
\* type, is_constant and function_decl_node.
Symbol(name, located, type, constant) ==
    [name |-> name, located |-> located, type |-> type, constant |-> constant,
     decl |-> Unwritten]

Builtin(name, type) == Symbol(name, FALSE, type, TRUE)

-----------------------------------------------------------------------------
\* symbol_table_find: the cells with that name, of which it takes the first.
Matching(table, name) == {i \in 0 .. table.size - 1 : table.buffer[i].name = name}

Found(table, name) == Matching(table, name) # {}

Index(table, name) ==
    CHOOSE i \in Matching(table, name) : \A j \in Matching(table, name) : i <= j

SymbolOf(table, name) == table.buffer[Index(table, name)]

-----------------------------------------------------------------------------
NeedsRoom(table) == table.size + 1 >= table.capacity

Reallocated_Uncounted(table) ==
    [table EXCEPT !.buffer = [i \in 0 .. ResizeFactor * table.capacity - 1 |->
                                 IF i < table.capacity THEN @[i] ELSE Unwritten]]

\* reallocate_buffer: the old cells are copied, the new ones are not written.
Reallocated(table) ==
    LET capacity == ResizeFactor * table.capacity
    IN  [buffer   |-> [i \in 0 .. capacity - 1 |->
                         IF i < table.capacity THEN table.buffer[i] ELSE Unwritten],
         size     |-> table.size,
         capacity |-> capacity,
         block    |-> table.block + 1]

\* The growth at the top of symbol_table_add.  memcpy_s reports an error when
\* malloc returned NULL, and when there is no buffer to copy from.
Grown(table) ==
    IF ~NeedsRoom(table) THEN {[ok |-> TRUE, table |-> table]}
    ELSE {[ok |-> FALSE, table |-> table]}
         \cup (IF table.buffer = Cells(0) THEN {}
               ELSE {[ok |-> TRUE, table |-> Reallocated(table)]})

Stored_First(table, symbol) ==
    [table EXCEPT !.buffer = [i \in DOMAIN @ |-> IF i = 0 THEN symbol
                                                 ELSE IF i <= table.size THEN @[i - 1] ELSE @[i]],
                  !.size = @ + 1]

Stored(table, symbol) == [table EXCEPT !.buffer[table.size] = symbol, !.size = @ + 1]

Added_Claiming(table, symbol) ==
    {IF ~grown.ok THEN grown
     ELSE IF Found(grown.table, symbol.name) THEN [ok |-> TRUE, table |-> grown.table]
     ELSE [ok |-> TRUE, table |-> Stored(grown.table, symbol)] : grown \in Grown(table)}

\* symbol_table_add: the table grows before the name is looked for.
Added(table, symbol) ==
    {IF ~grown.ok THEN grown
     ELSE IF Found(grown.table, symbol.name) THEN [ok |-> FALSE, table |-> grown.table]
     ELSE [ok |-> TRUE, table |-> Stored(grown.table, symbol)] : grown \in Grown(table)}

\* symbol_table_create, with either or both of the built-in types refused.
Created(float, int) ==
    UNION {{second.table : second \in Added(first.table, int)} :
           first \in UNION {Added(Fresh(cells), float) : cells \in {Cells(FirstCapacity), Cells(0)}}}

\* A symbol's function_decl_node set through a pointer to the symbol.
Declared(table, i, node) == [table EXCEPT !.buffer[i].decl = node]

\* symbol_table_destroy: the buffer is freed.
Destroyed(table) ==
    [buffer |-> Cells(0), size |-> 0, capacity |-> 0, block |-> table.block + 1]
=============================================================================
