------------------------- MODULE SymbolTable_proofs --------------------------
(***************************************************************************)
(* Proofs about SymbolTable for every set of names, types and nodes.  The  *)
(* inductive invariant is Inv: beside the types it says that no name has   *)
(* two symbols, so that the first match is the only one, and that between  *)
(* a find and the next call the pointer is to the symbol it was given for. *)
(***************************************************************************)
EXTENDS SymbolTable, TLAPS

Counted(t) == 0 .. t.size - 1

\* A table whose buffer has its cells, or none because malloc gave none.
Shaped(t) ==
    /\ t \in [buffer : {t.buffer}, size : Nat, capacity : Nat, block : Nat]
    /\ t.size <= t.capacity
    /\ \/ t.buffer \in [0 .. t.capacity - 1 -> SymbolRecord \cup {Unwritten}]
       \/ t.buffer = Cells(0) /\ t.size = 0 /\ t.capacity <= 1

\* The counted cells hold symbols, and the others nothing.
Written(t) ==
    /\ \A i \in Counted(t) : t.buffer[i] \in SymbolRecord
    /\ \A i \in DOMAIN t.buffer : i >= t.size => t.buffer[i] = Unwritten

Distinct(t) == \A i, j \in Counted(t) : t.buffer[i].name = t.buffer[j].name => i = j

Good(t) == Shaped(t) /\ Written(t) /\ Distinct(t)

HeldType == held \in [block : Nat, cell : Nat, name : AllNames] \cup {NullPointer}

AnswerType ==
    answer \in [call : {"create", "add", "find", "declare", "destroy"}, ok : BOOLEAN,
                symbol : SymbolRecord \cup {Unwritten}]

\* The pointer is into a buffer that was, or to the symbol it was found by.
HeldKept ==
    /\ held.block <= table.block
    /\ PointerKept

\* After a find that found something, the pointer is to what it answered.
JustFound ==
    answer.call = "find" /\ answer.ok =>
        /\ held.block = table.block
        /\ answer.symbol = table.buffer[held.cell]

Inv == Good(table) /\ HeldType /\ AnswerType /\ HeldKept /\ JustFound

-----------------------------------------------------------------------------
\* In a table without two symbols of one name, a find gives the symbol of that
\* name, whichever cell it is in.
LEMMA IndexUnique ==
    ASSUME NEW t, Good(t), NEW i \in Counted(t)
    PROVE  /\ Found(t, t.buffer[i].name)
           /\ Index(t, t.buffer[i].name) = i
  <1>. DEFINE name == t.buffer[i].name
  <1>1. Matching(t, name) = {i}
    BY DEF Good, Distinct, Counted, Matching
  <1>2. t.size \in Nat
    BY DEF Good, Shaped
  <1>3. i \in Int
    BY <1>2 DEF Counted
  <1>4. Index(t, name) = i
    BY <1>1, <1>3 DEF Index
  <1>. QED
    BY <1>1, <1>4 DEF Found

\* A name that is found is that of the cell it is found in.
LEMMA FoundIndex ==
    ASSUME NEW t, Good(t), NEW name, Found(t, name)
    PROVE  /\ Index(t, name) \in Counted(t)
           /\ t.buffer[Index(t, name)].name = name
  <1>1. PICK i \in Counted(t) : t.buffer[i].name = name
    BY DEF Found, Matching, Counted
  <1>. QED
    BY <1>1, IndexUnique

\* The growth at the top of symbol_table_add keeps every symbol where it is,
\* in a buffer with room for one more, or refuses and changes nothing.
LEMMA GrownGood ==
    ASSUME NEW t, Good(t), t.capacity > 0, NEW g \in Grown(t)
    PROVE  /\ g.ok \in BOOLEAN
           /\ ~g.ok => g.table = t
           /\ Good(g.table)
           /\ g.table.size = t.size /\ g.table.capacity > 0
           /\ g.ok => /\ g.table.size < g.table.capacity
                      /\ g.table.buffer \in [0 .. g.table.capacity - 1 ->
                                                SymbolRecord \cup {Unwritten}]
           /\ g.table = t \/ g.table.block = t.block + 1
           /\ \A i \in Counted(t) : g.table.buffer[i] = t.buffer[i]
  <1>1. t.size \in Nat /\ t.capacity \in Nat /\ t.block \in Nat /\ t.size <= t.capacity
    BY DEF Good, Shaped
  <1>2. CASE ~NeedsRoom(t)
    <2>1. g = [ok |-> TRUE, table |-> t]
      BY <1>2 DEF Grown
    <2>2. t.size + 1 < t.capacity
      BY <1>1, <1>2 DEF NeedsRoom
    <2>3. t.buffer \in [0 .. t.capacity - 1 -> SymbolRecord \cup {Unwritten}]
      BY <1>1, <2>2 DEF Good, Shaped
    <2>. QED
      BY <1>1, <2>1, <2>2, <2>3
  <1>3. CASE NeedsRoom(t) /\ g = [ok |-> FALSE, table |-> t]
    BY <1>3
  <1>4. CASE NeedsRoom(t) /\ t.buffer # Cells(0) /\ g = [ok |-> TRUE, table |-> Reallocated(t)]
    <2>. DEFINE r == Reallocated(t)
                n == ResizeFactor * t.capacity
    <2>1. n \in Nat /\ t.size < n /\ t.capacity < n
      BY <1>1 DEF ResizeFactor
    <2>2. t.buffer \in [0 .. t.capacity - 1 -> SymbolRecord \cup {Unwritten}]
      BY <1>4 DEF Good, Shaped
    <2>3. /\ r.size = t.size /\ r.capacity = n /\ r.block = t.block + 1
          /\ r.buffer = [i \in 0 .. n - 1 |->
                           IF i < t.capacity THEN t.buffer[i] ELSE Unwritten]
          /\ r \in [buffer : {r.buffer}, size : {t.size}, capacity : {n},
                    block : {t.block + 1}]
      BY DEF Reallocated
    <2>. HIDE DEF r, n
    <2>4. r.buffer \in [0 .. n - 1 -> SymbolRecord \cup {Unwritten}]
      BY <1>1, <2>1, <2>2, <2>3
    <2>5. Shaped(r)
      BY <1>1, <2>1, <2>3, <2>4 DEF Shaped
    <2>6. \A i \in Counted(t) : r.buffer[i] = t.buffer[i]
      BY <1>1, <2>1, <2>3 DEF Counted
    <2>7. Written(r)
      <3>1. \A i \in Counted(r) : r.buffer[i] \in SymbolRecord
        BY <2>3, <2>6 DEF Good, Written, Counted
      <3>2. ASSUME NEW i \in DOMAIN r.buffer, i >= r.size PROVE r.buffer[i] = Unwritten
        <4>1. i \in 0 .. n - 1 /\ i >= t.size
          BY <2>3, <3>2
        <4>2. CASE i < t.capacity
          <5>1. i \in DOMAIN t.buffer
            BY <1>1, <2>1, <2>2, <4>1, <4>2
          <5>2. t.buffer[i] = Unwritten
            BY <4>1, <5>1 DEF Good, Written
          <5>. QED
            BY <2>3, <4>1, <4>2, <5>2
        <4>. QED
          BY <2>3, <4>1, <4>2
      <3>. QED
        BY <3>1, <3>2 DEF Written
    <2>8. Distinct(r)
      BY <2>3, <2>6 DEF Good, Distinct, Counted
    <2>9. g.ok = TRUE /\ g.table = r
      BY <1>4 DEF r
    <2>10. r.capacity > 0 /\ r.size < r.capacity
      BY <1>1, <2>1, <2>3
    <2>. QED
      BY <2>3, <2>4, <2>5, <2>6, <2>7, <2>8, <2>9, <2>10 DEF Good
  <1>. QED
    BY <1>2, <1>3, <1>4 DEF Grown

\* A table that grew for a symbol knows no name it did not know.
LEMMA SameNames ==
    ASSUME NEW t, NEW u, NEW name, u.size = t.size,
           \A i \in Counted(t) : u.buffer[i] = t.buffer[i]
    PROVE  Found(u, name) <=> Found(t, name)
  BY DEF Found, Matching, Counted

\* symbol_table_add: the symbol comes last, under a name that was not there,
\* and all others stay where they are; or the table holds what it held.
LEMMA AddedGood ==
    ASSUME NEW t, Good(t), t.capacity > 0, NEW s \in SymbolRecord, NEW a \in Added(t, s)
    PROVE  /\ a.ok \in BOOLEAN
           /\ Good(a.table) /\ a.table.capacity > 0
           /\ a.table.block \in {t.block, t.block + 1}
           /\ \A i \in Counted(t) : a.table.buffer[i] = t.buffer[i]
           /\ ~a.ok => a.table.size = t.size
           /\ a.ok => /\ ~Found(t, s.name)
                      /\ a.table.size = t.size + 1
                      /\ a.table.buffer[t.size] = s
  <1>1. PICK g \in Grown(t) :
           a = IF ~g.ok THEN g
               ELSE IF Found(g.table, s.name) THEN [ok |-> FALSE, table |-> g.table]
               ELSE [ok |-> TRUE, table |-> Stored(g.table, s)]
    BY DEF Added
  <1>2. /\ g.ok \in BOOLEAN
        /\ ~g.ok => g.table = t
        /\ Good(g.table)
        /\ g.table.size = t.size /\ g.table.capacity > 0
        /\ g.ok => /\ g.table.size < g.table.capacity
                   /\ g.table.buffer \in [0 .. g.table.capacity - 1 ->
                                             SymbolRecord \cup {Unwritten}]
        /\ g.table = t \/ g.table.block = t.block + 1
        /\ \A i \in Counted(t) : g.table.buffer[i] = t.buffer[i]
    BY GrownGood
  <1>3. Found(g.table, s.name) <=> Found(t, s.name)
    BY <1>2, SameNames
  <1>4. CASE ~g.ok
    BY <1>1, <1>2, <1>4
  <1>5. CASE g.ok /\ Found(g.table, s.name)
    <2>1. a = [ok |-> FALSE, table |-> g.table]
      BY <1>1, <1>5
    <2>. QED
      BY <1>2, <2>1
  <1>6. CASE g.ok /\ ~Found(g.table, s.name)
    <2>. DEFINE u == g.table
                r == Stored(u, s)
    <2>1. a = [ok |-> TRUE, table |-> r]
      BY <1>1, <1>6
    <2>2. /\ u \in [buffer : {u.buffer}, size : Nat, capacity : Nat, block : Nat]
          /\ u.size < u.capacity
          /\ u.buffer \in [0 .. u.capacity - 1 -> SymbolRecord \cup {Unwritten}]
      BY <1>2, <1>6 DEF Good, Shaped
    <2>3. r \in [buffer : {[u.buffer EXCEPT ![u.size] = s]}, size : {u.size + 1},
                 capacity : {u.capacity}, block : {u.block}]
      BY <2>2 DEF Stored
    <2>4. /\ r.buffer \in [0 .. u.capacity - 1 -> SymbolRecord \cup {Unwritten}]
          /\ r.buffer[u.size] = s
          /\ \A i \in 0 .. u.capacity - 1 : i # u.size => r.buffer[i] = u.buffer[i]
          /\ r.size = u.size + 1 /\ r.capacity = u.capacity /\ r.block = u.block
      BY <2>2, <2>3
    <2>. HIDE DEF r
    <2>5. Shaped(r)
      BY <2>2, <2>3, <2>4 DEF Shaped
    <2>6. Written(r)
      <3>1. \A i \in Counted(r) : r.buffer[i] \in SymbolRecord
        BY <1>2, <2>2, <2>4 DEF Good, Written, Counted
      <3>2. DOMAIN r.buffer = 0 .. u.capacity - 1 /\ DOMAIN u.buffer = 0 .. u.capacity - 1
        BY <2>2, <2>4
      <3>3. ASSUME NEW i \in DOMAIN r.buffer, i >= r.size PROVE r.buffer[i] = Unwritten
        <4>1. i \in 0 .. u.capacity - 1 /\ i # u.size /\ i >= u.size
          BY <2>2, <2>4, <3>2, <3>3
        <4>2. u.buffer[i] = Unwritten
          BY <1>2, <3>2, <4>1 DEF Good, Written
        <4>. QED
          BY <2>4, <4>1, <4>2
      <3>. QED
        BY <3>1, <3>3 DEF Written
    <2>7. Distinct(r)
      <3>1. \A i \in Counted(u) : u.buffer[i].name # s.name
        BY <1>6 DEF Found, Matching, Counted
      <3>2. Counted(r) = Counted(u) \cup {u.size}
        BY <2>2, <2>4 DEF Counted
      <3>3. \A i \in Counted(u) : r.buffer[i] = u.buffer[i]
        BY <2>2, <2>4 DEF Counted
      <3>4. \A i, j \in Counted(u) : u.buffer[i].name = u.buffer[j].name => i = j
        BY <1>2 DEF Good, Distinct
      <3>. QED
        BY <2>4, <3>1, <3>2, <3>3, <3>4 DEF Distinct
    <2>8. \A i \in Counted(t) : r.buffer[i] = t.buffer[i]
      BY <1>2, <2>2, <2>4 DEF Counted
    <2>9. t.block \in Nat
      BY DEF Good, Shaped
    <2>. QED
      BY <1>2, <1>3, <1>6, <2>1, <2>2, <2>4, <2>5, <2>6, <2>7, <2>8, <2>9 DEF Good
  <1>. QED
    BY <1>2, <1>4, <1>5, <1>6

\* The declaration of a function filled in: nothing else changes.
LEMMA DeclaredGood ==
    ASSUME NEW t, Good(t), NEW i \in Counted(t), NEW node \in Nodes
    PROVE  /\ Good(Declared(t, i, node))
           /\ Declared(t, i, node).block = t.block
           /\ Declared(t, i, node).size = t.size
           /\ \A j \in Counted(t) :
                 Declared(t, i, node).buffer[j] =
                     IF j = i THEN [t.buffer[i] EXCEPT !.decl = node] ELSE t.buffer[j]
  <1>. DEFINE r == Declared(t, i, node)
              s == [t.buffer[i] EXCEPT !.decl = node]
  <1>1. /\ t \in [buffer : {t.buffer}, size : Nat, capacity : Nat, block : Nat]
        /\ t.size <= t.capacity /\ i < t.size
        /\ t.buffer \in [0 .. t.capacity - 1 -> SymbolRecord \cup {Unwritten}]
    BY DEF Good, Shaped, Counted
  <1>2. t.buffer[i] \in SymbolRecord
    BY DEF Good, Written
  <1>3. s \in SymbolRecord /\ s.name = t.buffer[i].name
    BY <1>2 DEF SymbolRecord
  <1>4. r \in [buffer : {[t.buffer EXCEPT ![i].decl = node]}, size : {t.size},
               capacity : {t.capacity}, block : {t.block}]
    BY <1>1 DEF Declared
  <1>5. [t.buffer EXCEPT ![i].decl = node] = [t.buffer EXCEPT ![i] = s]
    BY <1>1
  <1>. HIDE DEF s
  <1>6. i \in 0 .. t.capacity - 1
    BY <1>1 DEF Counted
  <1>e. r.buffer = [t.buffer EXCEPT ![i] = s]
    BY <1>4, <1>5
  <1>7. /\ r.buffer \in [0 .. t.capacity - 1 -> SymbolRecord \cup {Unwritten}]
        /\ r.buffer[i] = s
        /\ \A j \in 0 .. t.capacity - 1 : j # i => r.buffer[j] = t.buffer[j]
        /\ r.size = t.size /\ r.capacity = t.capacity /\ r.block = t.block
    <2>. HIDE DEF r
    <2>. QED
      BY <1>1, <1>3, <1>4, <1>e, <1>6
  <1>. HIDE DEF r
  <1>8. \A j \in Counted(t) : r.buffer[j] = IF j = i THEN s ELSE t.buffer[j]
    BY <1>1, <1>7 DEF Counted
  <1>9. Shaped(r)
    BY <1>1, <1>4, <1>7 DEF Shaped
  <1>10. Written(r)
    <2>1. \A j \in Counted(r) : r.buffer[j] \in SymbolRecord
      BY <1>1, <1>3, <1>7, <1>8 DEF Good, Written, Counted
    <2>2. \A j \in DOMAIN r.buffer : j >= r.size => r.buffer[j] = Unwritten
      BY <1>1, <1>7 DEF Good, Written
    <2>. QED
      BY <2>1, <2>2 DEF Written
  <1>11. Distinct(r)
    BY <1>3, <1>7, <1>8 DEF Good, Distinct, Counted
  <1>. QED
    BY <1>7, <1>8, <1>9, <1>10, <1>11 DEF Good, r, s

\* symbol_table_destroy leaves an empty table in a block of its own.
LEMMA DestroyedGood ==
    ASSUME NEW t, Good(t)
    PROVE  /\ Good(Destroyed(t))
           /\ Destroyed(t).block = t.block + 1
           /\ Destroyed(t).size = 0
  BY DEF Good, Shaped, Written, Distinct, Counted, Destroyed, Cells

-----------------------------------------------------------------------------
LEMMA FreshGood ==
    ASSUME NEW cells \in {Cells(FirstCapacity), Cells(0)}
    PROVE  Good(Fresh(cells)) /\ Fresh(cells).capacity > 0 /\ Fresh(cells).size = 0
  <1>1. Fresh(cells) \in [buffer : {cells}, size : {0}, capacity : {1}, block : {0}]
    BY DEF Fresh, FirstCapacity
  <1>2. CASE cells = Cells(0)
    BY <1>1, <1>2 DEF Good, Shaped, Written, Distinct, Counted, Cells
  <1>3. CASE cells = Cells(1)
    <2>. DEFINE f == Fresh(cells)
    <2>. HIDE DEF f
    <2>1. /\ f.buffer \in [0 .. f.capacity - 1 -> SymbolRecord \cup {Unwritten}]
          /\ f.size = 0 /\ f.capacity = 1
          /\ \A i \in DOMAIN f.buffer : f.buffer[i] = Unwritten
      BY <1>1, <1>3 DEF Cells, f
    <2>2. f \in [buffer : {f.buffer}, size : Nat, capacity : Nat, block : Nat]
      BY <1>1 DEF f
    <2>3. Shaped(f)
      BY <2>1, <2>2 DEF Shaped
    <2>. QED
      BY <2>1, <2>3 DEF Good, Written, Distinct, Counted, f
  <1>. QED
    BY <1>2, <1>3 DEF FirstCapacity

LEMMA BuiltinsAreSymbols == Builtins \subseteq SymbolRecord
  BY DEF Builtins, Builtin, Symbol, SymbolRecord, AllNames

LEMMA UserSymbolsAreSymbols == UserSymbols \subseteq SymbolRecord
  BY DEF UserSymbols, SymbolRecord

\* What symbol_table_create leaves holds the built-in types, or those of them
\* that were not refused.
LEMMA CreatedGood ==
    ASSUME NEW t \in Created(Builtin(Float, Float), Builtin(Integer, Integer))
    PROVE  Good(t) /\ \A i \in Counted(t) : t.buffer[i] \in Builtins
  <1>. DEFINE float == Builtin(Float, Float)
              int == Builtin(Integer, Integer)
  <1>. HIDE DEF float, int
  <1>1. PICK cells \in {Cells(FirstCapacity), Cells(0)} :
        \E first \in Added(Fresh(cells), float) : \E second \in Added(first.table, int) :
           t = second.table
    BY DEF Created, float, int
  <1>2. PICK first \in Added(Fresh(cells), float) : \E second \in Added(first.table, int) :
           t = second.table
    BY <1>1
  <1>3. PICK second \in Added(first.table, int) : t = second.table
    BY <1>2
  <1>4. float \in Builtins /\ int \in Builtins
    BY DEF float, int, Builtins
  <1>5. float \in SymbolRecord /\ int \in SymbolRecord
    BY <1>4, BuiltinsAreSymbols
  <1>6. Good(Fresh(cells)) /\ Fresh(cells).capacity > 0 /\ Fresh(cells).size = 0
    BY FreshGood
  <1>7. /\ Good(first.table) /\ first.table.capacity > 0
        /\ first.ok \in BOOLEAN
        /\ ~first.ok => first.table.size = 0
        /\ first.ok => first.table.size = 1 /\ first.table.buffer[0] = float
    BY <1>5, <1>6, AddedGood
  <1>8. \A i \in Counted(first.table) : first.table.buffer[i] \in Builtins
    BY <1>4, <1>7 DEF Counted
  <1>9. /\ Good(t)
        /\ second.ok \in BOOLEAN
        /\ \A i \in Counted(first.table) : t.buffer[i] = first.table.buffer[i]
        /\ ~second.ok => t.size = first.table.size
        /\ second.ok => /\ t.size = first.table.size + 1
                        /\ t.buffer[first.table.size] = int
    BY <1>3, <1>5, <1>7, AddedGood
  <1>10. first.table.size \in Nat
    BY <1>7 DEF Good, Shaped
  <1>. QED
    BY <1>4, <1>8, <1>9, <1>10 DEF Counted

THEOREM InitInv == Init => Inv
  <1>. SUFFICES ASSUME Init PROVE Inv
    OBVIOUS
  <1>1. /\ table \in Created(Builtin(Float, Float), Builtin(Integer, Integer))
        /\ held = NullPointer
        /\ answer = Answer("create", TRUE, Unwritten)
    BY DEF Init, symbol_table_create
  <1>2. Good(table)
    BY <1>1, CreatedGood
  <1>3. HeldType /\ AnswerType
    BY <1>1 DEF HeldType, AnswerType, Answer
  <1>4. table.block \in Nat
    BY <1>2 DEF Good, Shaped
  <1>5. HeldKept
    BY <1>1, <1>4 DEF HeldKept, PointerKept, NullPointer
  <1>6. JustFound
    BY <1>1 DEF JustFound, Answer
  <1>. QED
    BY <1>2, <1>3, <1>5, <1>6 DEF Inv

\* The pointer of a find that found something is to the symbol it answered.
LEMMA HeldCell ==
    ASSUME Inv, answer.call = "find", answer.ok
    PROVE  held.cell \in Counted(table) /\ answer.symbol = table.buffer[held.cell]
  <1>1. held.cell \in Nat
    BY DEF Inv, HeldType, NullPointer
  <1>2. held.block = table.block /\ answer.symbol = table.buffer[held.cell]
    BY DEF Inv, JustFound
  <1>3. held.cell < table.size /\ table.size \in Nat
    BY <1>2 DEF Inv, HeldKept, PointerKept, Good, Shaped
  <1>. QED
    BY <1>1, <1>2, <1>3 DEF Counted

\* A step that keeps the counted cells in place, or moves them to a new block,
\* keeps the pointer.
LEMMA PointerStays ==
    ASSUME Inv, table'.block \in {table.block, table.block + 1}, UNCHANGED held,
           table'.block = table.block =>
               /\ table'.size >= table.size /\ table'.size \in Nat
               /\ \A i \in Counted(table) : table'.buffer[i].name = table.buffer[i].name
    PROVE  HeldKept'
  <1>1. table.block \in Nat /\ table.size \in Nat /\ held.block <= table.block
    BY DEF Inv, Good, Shaped, HeldKept
  <1>2. held.block \in Int /\ held.cell \in Nat
    BY DEF Inv, HeldType, NullPointer
  <1>3. held'.block <= table'.block
    BY <1>1, <1>2
  <1>4. CASE held.block = table'.block
    <2>1. table'.block = table.block
      BY <1>1, <1>4
    <2>2. held.cell < table.size /\ table.buffer[held.cell].name = held.name
      BY <1>4, <2>1 DEF Inv, HeldKept, PointerKept
    <2>3. held.cell \in Counted(table)
      BY <1>1, <1>2, <2>2 DEF Counted
    <2>. QED
      BY <1>1, <1>2, <1>3, <2>1, <2>2, <2>3 DEF HeldKept, PointerKept
  <1>. QED
    BY <1>3, <1>4 DEF HeldKept, PointerKept

LEMMA AnswerTyped ==
    ASSUME NEW call \in {"create", "add", "find", "declare", "destroy"}, NEW ok \in BOOLEAN,
           NEW s \in SymbolRecord \cup {Unwritten}, answer' = Answer(call, ok, s)
    PROVE  /\ AnswerType'
           /\ answer'.call = call /\ answer'.ok = ok /\ answer'.symbol = s
           /\ call # "find" => JustFound'
  BY DEF AnswerType, Answer, JustFound

THEOREM NextInv == ASSUME Inv, [Next]_vars PROVE Inv'
  <1>0. Good(table) /\ table.block \in Nat /\ table.size \in Nat
    BY DEF Inv, Good, Shaped
  <1>h. UNCHANGED held => HeldType'
    BY DEF Inv, HeldType
  <1>1. ASSUME NEW s \in UserSymbols, symbol_table_add(s) PROVE Inv'
    <2>1. PICK a \in Added(table, s) :
             table' = a.table /\ answer' = Answer("add", a.ok, Unwritten)
      BY <1>1 DEF symbol_table_add
    <2>2. table.capacity > 0 /\ UNCHANGED held
      BY <1>1 DEF symbol_table_add, Alive
    <2>3. s \in SymbolRecord
      BY UserSymbolsAreSymbols
    <2>4. /\ a.ok \in BOOLEAN
          /\ Good(a.table)
          /\ a.table.block \in {table.block, table.block + 1}
          /\ \A i \in Counted(table) : a.table.buffer[i] = table.buffer[i]
          /\ a.table.size \in {table.size, table.size + 1}
      BY <1>0, <2>2, <2>3, AddedGood
    <2>5. HeldKept'
      BY <1>0, <2>1, <2>2, <2>4, PointerStays
    <2>6. AnswerType' /\ JustFound'
      BY <2>1, <2>4, AnswerTyped
    <2>7. Good(table')
      BY <2>1, <2>4
    <2>. QED
      BY <1>h, <2>2, <2>5, <2>6, <2>7 DEF Inv
  <1>2. ASSUME NEW name \in AllNames, symbol_table_find(name) PROVE Inv'
    <2>1. UNCHANGED table
      BY <1>2 DEF symbol_table_find
    <2>2. CASE Found(table, name)
      <3>1. /\ held' = [block |-> table.block, cell |-> Index(table, name), name |-> name]
            /\ answer' = Answer("find", TRUE, SymbolOf(table, name))
        BY <1>2, <2>2 DEF symbol_table_find
      <3>2. /\ Index(table, name) \in Counted(table)
            /\ table.buffer[Index(table, name)].name = name
        BY <1>0, <2>2, FoundIndex
      <3>3. Index(table, name) \in Nat /\ Index(table, name) < table.size
        BY <1>0, <3>2 DEF Counted
      <3>4. SymbolOf(table, name) \in SymbolRecord
        BY <1>0, <3>2 DEF SymbolOf, Good, Written
      <3>5. AnswerType' /\ answer'.symbol = SymbolOf(table, name)
        BY <3>1, <3>4, AnswerTyped
      <3>6. HeldType'
        BY <1>0, <3>1, <3>3 DEF HeldType
      <3>7. HeldKept'
        BY <1>0, <2>1, <3>1, <3>2, <3>3 DEF HeldKept, PointerKept
      <3>8. JustFound'
        BY <2>1, <3>1, <3>5 DEF JustFound, SymbolOf
      <3>. QED
        BY <1>0, <2>1, <3>5, <3>6, <3>7, <3>8 DEF Inv
    <2>3. CASE ~Found(table, name)
      <3>1. held' = NullPointer /\ answer' = Answer("find", FALSE, Unwritten)
        BY <1>2, <2>3 DEF symbol_table_find
      <3>2. AnswerType' /\ answer'.ok = FALSE
        BY <3>1, AnswerTyped
      <3>3. HeldType' /\ JustFound'
        BY <3>1, <3>2 DEF HeldType, JustFound
      <3>4. HeldKept'
        BY <1>0, <2>1, <3>1 DEF HeldKept, PointerKept, NullPointer
      <3>. QED
        BY <1>0, <2>1, <3>2, <3>3, <3>4 DEF Inv
    <2>. QED
      BY <2>2, <2>3
  <1>3. ASSUME NEW node \in Nodes, SetDeclaration(node) PROVE Inv'
    <2>1. /\ answer.call = "find" /\ answer.ok
          /\ table' = Declared(table, held.cell, node)
          /\ answer' = Answer("declare", TRUE, Unwritten)
          /\ UNCHANGED held
      BY <1>3 DEF SetDeclaration
    <2>2. held.cell \in Counted(table)
      BY <2>1, HeldCell
    <2>3. /\ Good(table')
          /\ table'.block = table.block /\ table'.size = table.size
          /\ \A j \in Counted(table) :
                table'.buffer[j] = IF j = held.cell THEN [table.buffer[held.cell] EXCEPT !.decl = node]
                                   ELSE table.buffer[j]
      BY <1>0, <2>1, <2>2, DeclaredGood
    <2>4. table.buffer[held.cell] \in SymbolRecord
      BY <1>0, <2>2 DEF Good, Written
    <2>5. \A j \in Counted(table) : table'.buffer[j].name = table.buffer[j].name
      BY <2>3, <2>4 DEF SymbolRecord
    <2>6. HeldKept'
      BY <1>0, <2>1, <2>3, <2>5, PointerStays
    <2>7. AnswerType' /\ JustFound'
      BY <2>1, AnswerTyped
    <2>. QED
      BY <1>h, <2>1, <2>3, <2>6, <2>7 DEF Inv
  <1>4. CASE symbol_table_destroy
    <2>1. /\ table' = Destroyed(table)
          /\ answer' = Answer("destroy", TRUE, Unwritten)
          /\ UNCHANGED held
      BY <1>4 DEF symbol_table_destroy
    <2>2. Good(table') /\ table'.block = table.block + 1
      BY <1>0, <2>1, DestroyedGood
    <2>3. HeldKept'
      BY <1>0, <2>1, <2>2, PointerStays
    <2>4. AnswerType' /\ JustFound'
      BY <2>1, AnswerTyped
    <2>. QED
      BY <1>h, <2>1, <2>2, <2>3, <2>4 DEF Inv
  <1>5. CASE UNCHANGED vars
    BY <1>5 DEF vars, Inv, HeldType, AnswerType, HeldKept, PointerKept, JustFound
  <1>. QED
    BY <1>1, <1>2, <1>3, <1>4, <1>5 DEF Next, Gone

\* The invariant is at least as strong as what the runs check.
LEMMA InvImplies == Inv => TypeOK /\ PointerKept
  <1>. SUFFICES ASSUME Inv PROVE TypeOK /\ PointerKept
    OBVIOUS
  <1>1. /\ table.capacity \in Nat /\ table.size \in Nat /\ table.block \in Nat
        /\ table.size <= table.capacity
        /\ \/ DOMAIN table.buffer = 0 .. table.capacity - 1
           \/ DOMAIN table.buffer = {} /\ table.size = 0
    BY DEF Inv, Good, Shaped, Cells
  <1>2. \A i \in DOMAIN table.buffer :
           table.buffer[i] \in IF i < table.size THEN SymbolRecord ELSE {Unwritten}
    <2>. SUFFICES ASSUME NEW i \in DOMAIN table.buffer
                  PROVE  table.buffer[i] \in IF i < table.size THEN SymbolRecord ELSE {Unwritten}
      OBVIOUS
    <2>1. i \in Nat
      BY <1>1
    <2>2. CASE i < table.size
      BY <1>1, <2>1, <2>2 DEF Inv, Good, Written, Counted
    <2>3. CASE i >= table.size
      BY <1>1, <2>1, <2>3 DEF Inv, Good, Written
    <2>. QED
      BY <1>1, <2>1, <2>2, <2>3
  <1>. QED
    BY <1>1, <1>2 DEF Inv, TypeOK, HeldType, AnswerType, HeldKept

\* The struct keeps its type: the buffer has its cells, the counted ones hold
\* symbols and the size never passes the capacity (symbol_table.c:33-73).
THEOREM TypeCorrect == Spec => []TypeOK
  BY InitInv, NextInv, InvImplies, PTL DEF Spec

\* A pointer that a find gave is into a buffer that was freed or still to the
\* symbol it was given for, whatever was added, declared or destroyed since
\* (symbol_table.c:33-49, type_info.c:88).
THEOREM PointersKept == Spec => []PointerKept
  BY InitInv, NextInv, InvImplies, PTL DEF Spec

-----------------------------------------------------------------------------
\* The map a table stands for: the name of every counted cell, with its symbol.
KnownFacts ==
    /\ DOMAIN Known = {table.buffer[i].name : i \in Counted(table)}
    /\ Known = [name \in DOMAIN Known |-> Known[name]]
    /\ \A i \in Counted(table) : Known[table.buffer[i].name] = table.buffer[i]
    /\ \A name : name \in DOMAIN Known <=> Found(table, name)
    /\ \A name \in DOMAIN Known : Known[name] = SymbolOf(table, name)

LEMMA KnownIsMap == Inv => KnownFacts
  <1>. SUFFICES ASSUME Inv PROVE KnownFacts
    OBVIOUS
  <1>1. /\ DOMAIN Known = {table.buffer[i].name : i \in Counted(table)}
        /\ Known = [name \in DOMAIN Known |-> Known[name]]
        /\ \A name \in DOMAIN Known : Known[name] = SymbolOf(table, name)
    BY DEF Known, Counted
  <1>2. \A name : name \in DOMAIN Known <=> Found(table, name)
    BY <1>1 DEF Found, Matching, Counted
  <1>3. ASSUME NEW i \in Counted(table)
        PROVE  Known[table.buffer[i].name] = table.buffer[i]
    <2>1. Index(table, table.buffer[i].name) = i
      BY IndexUnique DEF Inv
    <2>. QED
      BY <1>1, <2>1 DEF SymbolOf
  <1>. QED
    BY <1>1, <1>2, <1>3 DEF KnownFacts

LEMMA KnownIsMapPrime == Inv' => KnownFacts'
  BY KnownIsMap, PTL

\* Two functions are the same that agree on their common domain.
LEMMA SameFunction ==
    ASSUME NEW f, NEW g, f = [x \in DOMAIN f |-> f[x]], g = [x \in DOMAIN g |-> g[x]],
           DOMAIN f = DOMAIN g, \A x \in DOMAIN f : f[x] = g[x]
    PROVE  f = g
  OBVIOUS

\* A table that grew, without a symbol more or less, stands for the same map.
LEMMA SameKnown ==
    ASSUME Inv, Inv', table'.size = table.size,
           \A i \in Counted(table) : table'.buffer[i] = table.buffer[i]
    PROVE  Known' = Known
  <1>1. KnownFacts /\ KnownFacts'
    BY KnownIsMap, KnownIsMapPrime
  <1>2. Counted(table') = Counted(table)
    BY DEF Counted
  <1>3. DOMAIN Known' = DOMAIN Known
    BY <1>1, <1>2 DEF KnownFacts
  <1>4. ASSUME NEW name \in DOMAIN Known PROVE Known'[name] = Known[name]
    <2>1. PICK i \in Counted(table) : name = table.buffer[i].name
      BY <1>1 DEF KnownFacts
    <2>. QED
      BY <1>1, <1>2, <2>1 DEF KnownFacts
  <1>5. /\ Known = [x \in DOMAIN Known |-> Known[x]]
        /\ Known' = [x \in DOMAIN Known' |-> Known'[x]]
    BY <1>1 DEF KnownFacts
  <1>. QED
    BY <1>3, <1>4, <1>5, SameFunction

\* Every name a client may ask for is one the map may know.
LEMMA AllNameable == AllNames \subseteq Map!Nameable
  <1>. SUFFICES ASSUME NEW name \in AllNames PROVE name \in Map!Nameable
    OBVIOUS
  <1>. DEFINE s == Symbol(name, TRUE, Function, TRUE)
  <1>1. s \in UserSymbols /\ s.name = name
    BY TypesAssumption DEF Symbol, UserSymbols
  <1>. HIDE DEF s
  <1>. QED
    BY <1>1 DEF Map!Nameable

\* A fresh table stands for the map of the built-in types that fitted.
LEMMA InitImplementsMap == Init => Map!Init
  <1>. SUFFICES ASSUME Init PROVE Map!Init
    OBVIOUS
  <1>1. Inv
    BY InitInv
  <1>2. KnownFacts
    BY <1>1, KnownIsMap
  <1>3. \A i \in Counted(table) : table.buffer[i] \in Builtins
    BY CreatedGood DEF Init, symbol_table_create
  <1>. DEFINE some == {table.buffer[i] : i \in Counted(table)}
              map == [name \in {s.name : s \in some} |-> CHOOSE s \in some : s.name = name]
  <1>4. some \in SUBSET Builtins
    BY <1>3
  <1>5. DOMAIN map = DOMAIN Known
    BY <1>2 DEF KnownFacts
  <1>6. ASSUME NEW name \in DOMAIN Known PROVE map[name] = Known[name]
    <2>1. PICK i \in Counted(table) : name = table.buffer[i].name
      BY <1>2 DEF KnownFacts
    <2>2. Known[name] = table.buffer[i]
      BY <1>2, <2>1 DEF KnownFacts
    <2>3. \A s \in some : s.name = name => s = table.buffer[i]
      BY <1>1, <2>1 DEF Inv, Good, Distinct
    <2>4. table.buffer[i] \in some
      OBVIOUS
    <2>5. (CHOOSE s \in some : s.name = name) = table.buffer[i]
      BY <2>1, <2>3, <2>4
    <2>6. name \in {s.name : s \in some}
      BY <2>1, <2>4
    <2>. QED
      BY <2>2, <2>5, <2>6
  <1>7. Known = map
    <2>1. Known = [x \in DOMAIN Known |-> Known[x]] /\ map = [x \in DOMAIN map |-> map[x]]
      BY <1>2 DEF KnownFacts
    <2>. HIDE DEF map
    <2>. QED
      BY <1>5, <1>6, <2>1, SameFunction
  <1>8. answer = Answer("create", TRUE, Unwritten)
    BY DEF Init, symbol_table_create
  <1>. QED
    BY <1>4, <1>7, <1>8 DEF Map!Init, Map!Answer, Answer

\* Every call is a step of the map or leaves it and the answer alone.
THEOREM StepImplementsMap ==
    ASSUME Inv, Inv', [Next]_vars
    PROVE  [Map!Next]_(Map!vars)
  <1>0. Good(table) /\ KnownFacts /\ KnownFacts'
    BY KnownIsMap, KnownIsMapPrime DEF Inv
  <1>1. ASSUME NEW s \in UserSymbols, symbol_table_add(s) PROVE Map!Next
    <2>1. PICK a \in Added(table, s) :
             table' = a.table /\ answer' = Answer("add", a.ok, Unwritten)
      BY <1>1 DEF symbol_table_add
    <2>2. table.capacity > 0 /\ s \in SymbolRecord
      BY <1>1, UserSymbolsAreSymbols DEF symbol_table_add, Alive
    <2>3. /\ a.ok \in BOOLEAN
          /\ \A i \in Counted(table) : a.table.buffer[i] = table.buffer[i]
          /\ ~a.ok => a.table.size = table.size
          /\ a.ok => /\ ~Found(table, s.name)
                     /\ a.table.size = table.size + 1
                     /\ a.table.buffer[table.size] = s
      BY <1>0, <2>2, AddedGood
    <2>4. CASE ~a.ok
      <3>1. Known' = Known
        BY <2>1, <2>3, <2>4, SameKnown
      <3>2. answer' = Answer("add", FALSE, Unwritten)
        BY <2>1, <2>3, <2>4
      <3>. QED
        BY <3>1, <3>2 DEF Map!Next, Map!AddRefused, Map!Answer, Answer
    <2>5. CASE a.ok
      <3>. DEFINE map == [name \in DOMAIN Known \cup {s.name} |->
                             IF name = s.name THEN s ELSE Known[name]]
      <3>1. s.name \notin DOMAIN Known
        BY <1>0, <2>3, <2>5 DEF KnownFacts
      <3>2. table.size \in Nat
        BY <1>0 DEF Good, Shaped
      <3>3. Counted(table') = Counted(table) \cup {table.size}
        BY <2>1, <2>3, <2>5, <3>2 DEF Counted
      <3>4. /\ \A i \in Counted(table) : table'.buffer[i] = table.buffer[i]
            /\ table'.buffer[table.size] = s
        BY <2>1, <2>3, <2>5
      <3>5. DOMAIN Known' = DOMAIN Known \cup {s.name}
        BY <1>0, <3>3, <3>4 DEF KnownFacts
      <3>6. ASSUME NEW name \in DOMAIN Known' PROVE Known'[name] = map[name]
        <4>1. CASE name = s.name
          BY <1>0, <3>3, <3>4, <4>1 DEF KnownFacts
        <4>2. CASE name # s.name
          <5>1. name \in DOMAIN Known
            BY <3>5, <4>2
          <5>2. PICK i \in Counted(table) : name = table.buffer[i].name
            BY <1>0, <5>1 DEF KnownFacts
          <5>3. Known[name] = table.buffer[i] /\ Known'[name] = table.buffer[i]
            BY <1>0, <3>3, <3>4, <5>2 DEF KnownFacts
          <5>. QED
            BY <4>2, <5>1, <5>3
        <4>. QED
          BY <4>1, <4>2
      <3>7. Known' = map
        <4>1. /\ Known' = [x \in DOMAIN Known' |-> Known'[x]]
              /\ map = [x \in DOMAIN map |-> map[x]]
              /\ DOMAIN map = DOMAIN Known'
          BY <1>0, <3>5 DEF KnownFacts
        <4>. HIDE DEF map
        <4>. QED
          BY <3>6, <4>1, SameFunction
      <3>8. answer' = Answer("add", TRUE, Unwritten)
        BY <2>1, <2>3, <2>5
      <3>. QED
        BY <3>1, <3>7, <3>8 DEF Map!Next, Map!Add, Map!Answer, Answer
    <2>. QED
      BY <2>3, <2>4, <2>5
  <1>2. ASSUME NEW name \in AllNames, symbol_table_find(name) PROVE Map!Next
    <2>1. Known' = Known
      BY <1>2 DEF symbol_table_find, Known
    <2>2. name \in Map!Nameable
      BY AllNameable
    <2>3. CASE Found(table, name)
      <3>1. answer' = Answer("find", TRUE, SymbolOf(table, name))
        BY <1>2, <2>3 DEF symbol_table_find
      <3>2. name \in DOMAIN Known /\ Known[name] = SymbolOf(table, name)
        BY <1>0, <2>3 DEF KnownFacts
      <3>3. Map!Find(name)
        BY <2>1, <3>1, <3>2 DEF Map!Find, Map!Answer, Answer
      <3>. QED
        BY <2>2, <3>3 DEF Map!Next
    <2>4. CASE ~Found(table, name)
      <3>1. answer' = Answer("find", FALSE, Unwritten)
        BY <1>2, <2>4 DEF symbol_table_find
      <3>2. name \notin DOMAIN Known
        BY <1>0, <2>4 DEF KnownFacts
      <3>3. Map!FindUnknown(name)
        BY <2>1, <3>1, <3>2 DEF Map!FindUnknown, Map!Answer, Answer
      <3>. QED
        BY <2>2, <3>3 DEF Map!Next
    <2>. QED
      BY <2>3, <2>4
  <1>3. ASSUME NEW node \in Nodes, SetDeclaration(node) PROVE Map!Next
    <2>1. /\ answer.call = "find" /\ answer.ok /\ answer.symbol.type = Function
          /\ table' = Declared(table, held.cell, node)
          /\ answer' = Answer("declare", TRUE, Unwritten)
      BY <1>3 DEF SetDeclaration
    <2>. DEFINE cell == held.cell
                old == table.buffer[cell]
                map == [Known EXCEPT ![old.name].decl = node]
    <2>2. cell \in Counted(table) /\ answer.symbol = old
      BY <2>1, HeldCell
    <2>3. old \in SymbolRecord
      BY <1>0, <2>2 DEF Good, Written
    <2>4. /\ table'.size = table.size
          /\ \A j \in Counted(table) :
                table'.buffer[j] = IF j = cell THEN [old EXCEPT !.decl = node]
                                   ELSE table.buffer[j]
      BY <1>0, <2>1, <2>2, DeclaredGood
    <2>5. Counted(table') = Counted(table)
      BY <2>4 DEF Counted
    <2>6. \A j \in Counted(table) : table'.buffer[j].name = table.buffer[j].name
      BY <2>3, <2>4 DEF SymbolRecord
    <2>7. DOMAIN Known' = DOMAIN Known
      BY <1>0, <2>5, <2>6 DEF KnownFacts
    <2>8. old.name \in DOMAIN Known /\ Known[old.name] = old
      BY <1>0, <2>2 DEF KnownFacts
    <2>9. ASSUME NEW name \in DOMAIN Known PROVE Known'[name] = map[name]
      <3>1. PICK j \in Counted(table) : name = table.buffer[j].name
        BY <1>0 DEF KnownFacts
      <3>2. Known[name] = table.buffer[j] /\ Known'[name] = table'.buffer[j]
        BY <1>0, <2>5, <2>6, <3>1 DEF KnownFacts
      <3>3. CASE name = old.name
        <4>1. j = cell
          BY <1>0, <2>2, <3>1, <3>3 DEF Good, Distinct
        <4>2. map[name] = [Known[name] EXCEPT !.decl = node]
          BY <2>8, <3>3
        <4>. QED
          BY <2>4, <3>2, <4>1, <4>2
      <3>4. CASE name # old.name
        <4>1. j # cell
          BY <3>1, <3>4
        <4>2. map[name] = Known[name]
          BY <3>4
        <4>. QED
          BY <2>4, <3>2, <4>1, <4>2
      <3>. QED
        BY <3>3, <3>4
    <2>10. Known' = map
      <3>1. /\ Known' = [x \in DOMAIN Known' |-> Known'[x]]
            /\ map = [x \in DOMAIN map |-> map[x]]
            /\ DOMAIN map = DOMAIN Known
        BY <1>0 DEF KnownFacts
      <3>. HIDE DEF map
      <3>. QED
        BY <2>7, <2>9, <3>1, SameFunction
    <2>11. Map!Declare(node)
      BY <2>1, <2>2, <2>10 DEF Map!Declare, Map!Answer, Answer
    <2>. QED
      BY <2>11 DEF Map!Next
  <1>4. CASE symbol_table_destroy
    <2>1. table' = Destroyed(table) /\ answer' = Answer("destroy", TRUE, Unwritten)
      BY <1>4 DEF symbol_table_destroy
    <2>2. Counted(table') = {}
      BY <1>0, <2>1, DestroyedGood DEF Counted
    <2>3. DOMAIN Known' = {}
      BY <1>0, <2>2 DEF KnownFacts
    <2>4. Known' = [name \in {} |-> Unwritten]
      BY <1>0, <2>3 DEF KnownFacts
    <2>. QED
      BY <2>1, <2>4 DEF Map!Next, Map!Destroy, Map!Answer, Answer
  <1>5. CASE UNCHANGED vars
    BY <1>5 DEF vars, Map!vars, Known
  <1>. QED
    BY <1>1, <1>2, <1>3, <1>4, <1>5 DEF Next, Gone

\* The array, its growth and its refusals implement the map symbol_table.h
\* describes: every name keeps its first symbol (symbol_table.h:58-71).
THEOREM RefinesMap == Spec => ImplementsMap
  <1>1. Inv /\ [Next]_vars => Inv'
    BY NextInv
  <1>2. Inv /\ Inv' /\ [Next]_vars => [Map!Next]_(Map!vars)
    BY StepImplementsMap
  <1>. QED
    BY <1>1, <1>2, InitInv, InitImplementsMap, PTL DEF Spec, ImplementsMap, Map!Spec
=============================================================================
