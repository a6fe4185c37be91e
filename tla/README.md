# Rouleaux: a TLA+ development

Rouleaux is a compiler front end in C: the library `librouleaux` lexes, parses and
type-checks a `.rlx` file, and the program `roulx` drives it. This directory holds
TLA+ models of its parts, the TLC configurations that check them on small
instances, and TLAPS proofs. Line numbers below are those of
`src/librouleaux/src/` unless a path says otherwise.

## 1. The system

Everything runs on one thread. A file is read into memory once; the lexer walks over
it on demand; the parser asks the lexer for one token at a time, looks ahead, and
puts tokens back; the tree it builds is then walked by the type resolver, which
fills a table of symbols; the first failure of any stage ends in an error report that reads the
file again.

| Component | State it keeps | Operations | Used by |
|---|---|---|---|
| peek queue (`lexer/peek_queue.c`) | heap array of tokens, size, capacity; the front is the *last* cell | create, destroy, empty, push (back), push_front, front, pop; growth by 2 | lexer |
| lexer (`lexer/lexer.c`) | buffer, head pointer, row, column, `has_error`, peek queue | create, destroy, reset, next, peek, put_back | parser, `lexer_test` |
| tokens, keywords (`lexer/token.c`) | constant tables | look-up, printing | lexer, reports |
| expression parser (`parser/parser.c:402-443, 532-573, 622-814, 913-984`) | C call stack, the lexer | recursive descent, lookahead, `fix_precedence` | statement parser |
| statement parser (`parser/parser.c:65-400, 445-530, 575-620, 830-910`) | C call stack, `done`, the lexer | file, statement, declaration or assignment, function declaration | driver |
| syntax tree, node lists (`parser/abstract_syntax_tree.c`, `node_list.c`) | heap nodes; a growing array of children | create, destroy, push_back, pop_back | parser, types |
| parse results (`parser/parse_result.c`) | success and tree, or token and heap message | success, error, destroy | parser, driver |
| symbol table (`typing/symbol_table.c`) | growing array of symbols | create, add, find, destroy | types |
| type resolution (`typing/type_info.c`) | the table, the types written into the nodes | one function per node type, recursive | driver |
| error reports (`utilities/error_report.c`) | nothing lasting | format, re-read a line, mark it | driver, parser |
| file reading (`utilities/file_utilities.c`) | nothing lasting | size, contents | lexer, reports |
| drivers (`main.c`, `src/roulx/src/main.c`) | a parser | the stages in turn | |

### What is hard

There are no threads, messages or persistent data, so crashes and timeouts are not
among the difficulties, and the only interleaving is with whoever saves the source file
while the program reads it. What is hard is this:

- *Sequences of calls.* The queue is two-ended, grows by copying and is emptied and
  refilled. Any mix of taking, peeking, putting back and resetting must show the same
  tokens, and a push may be refused for lack of memory.
- *The ends of things.* The text has no terminator, the queue's counters are
  unsigned, and a token may have length zero.
- *Backing out.* The parser takes up to three tokens to decide what it sees. When a
  right operand fails it puts back one token however many were taken, and drops the
  error. Whether that can go unnoticed depends on every caller.
- *Repairs that must compose.* Precedence is repaired by one rotation per level on
  the way out of the recursion.
- *Termination.* The recursion and the loops must consume a token on every round,
  on malformed files too.
- *Ownership and stale pointers.* Nodes, messages and the symbol table are freed
  and moved by hand on many error paths, and pointers into the table are kept across
  additions to it.
- *Trust between stages.* The resolver takes children that the parser must have set, a call
  takes the declaration that an earlier statement must have left in the table, the report
  takes a location that the lexer must have given the token.

`PROJECT.json` lists each hazard at its line with the property that watches it.

### What makes each component correct

- Queue: stays inside its buffer, never hands out an unwritten cell, implements the
  deque its header describes, also when growth fails.
- Lexer: every token is the longest lexeme at its place, carries the row and column
  of its first character, nothing but white space is skipped; the client sees a tape.
- Parser: answers every file; accepts a file only as a whole; keeps every operand,
  operator and comment in order; nests as the file does; respects parentheses and
  precedence; an `else` goes with the nearest `if`.
- Symbol table: a name has one symbol and keeps it; a refused addition changes nothing; a
  pointer into the table is right until the table moves.
- Types: a program that is accepted declares each name once, is well typed by the meaning of
  its expressions, keeps its constants, and has a type at every expression; resolution ends.
- Program: every way out releases what was allocated; the report shows the blamed
  token; an unreadable file is noticed.

## 2. The modules

### Peek queue

- `PeekQueueOps` has what the functions do to the struct, as operators on a record
  `[buffer, size, capacity]`: `NeedsRoom`, `Grown` (the set of outcomes: no growth,
  growth, a refusal), `Stored`, `Front`, `Popped`, `Emptied`, `Destroyed`. Cells
  that `malloc` returned hold `Uninit`. `Created` is a set too: nobody looks at what `malloc`
  answers for the first cells, so a queue may have a capacity and no cells (`Unbacked`).
- `PeekQueue` is the component: one action per exported function, called by any
  client. `result` is what the last call returned, and `wild` records that a call
  left the buffer or entered the endless loop of `peek_queue_push`; such a call does not return.
- `TokenDeque` is the abstract specification, from `peek_queue.h`: a sequence
  extended at both ends and consumed at the front; a push may be refused, and then
  nothing changes. `PeekQueue` implements it under
  `Items[i] = buffer[size - i]`.
- `PeekQueue_proofs` has the theorems (section 4).

### Lexer

- `LexerScan` has the scanner as functions of the text: where each scanning loop
  stops, when the assertion in `skip_char` fails, rows and columns. The text is
  followed by two arbitrary bytes, because nothing terminates the buffer. Some characters are
  named (`"quote"`, `"space"`, `"left_curly"`), because the SMT backend cannot read a string that
  holds them.
- `Lexer` is the component and its client: one action per exported function, over
  the same `PeekQueueOps`. `taken` (a ghost) holds the tokens the client may put
  back. The variable `client` tells the loop of `lexer_test` (`"reader"`) from a client that
  mixes all calls (`"any"`). A call that fails an assertion or writes outside of the cells does not
  return, which `phase` records. `LexFrom` is all of `lexer_next_token_internal`, white space and end
  of file included.
- `LexerProperties` states the properties by a grammar of lexemes that is
  independent of the scanner.
- `TokenCursor` is the abstract specification, from `lexer.h`: a fixed tape of
  tokens and a cursor on it. `LexerCursor` adds the tape as an auxiliary variable, lexed from the
  text alone (`Lexings`), and states the refinement, with the one step of the code that the header
  contradicts as its exception (`InvalidResetAnswersTrue`).
- `Lexer_proofs` has the theorems.

### Parser

- `ParserMachine` has what all functions of `parser.c` share: the C call stack as a
  variable, calls and returns, the lexer as the parser uses it (a put-back queue over a
  text chosen as it is read, a legitimate abstraction given `ImplementsCursor`), and
  nodes as values. The C recursion becomes steps: an action runs one function from
  where it was entered or returned to until its next call or its return. `Peeked`
  is `lexer_peek_token`, `Taken` and `PutBack` the other two calls.
- `ExpressionParser` has the actions of the expression functions and `fix_precedence`.
- `StatementParser` EXTENDS it with the other functions, so that the two are one
  system as in the code; the variable `done` is `parser->done`.
- `ParserTokens` has the tokens the parser holds, read and not given back; `ParseTrees` has the
  nodes and tokens of a tree. `TreeShapes` has the shapes of nodes:
  the parser is checked to build no others (`ChildrenPresent`), and the statements given to
  type resolution are assumed to have them (`ShapesAssumption`, which TLC evaluates).
- `ExpressionParserSafety` and `StatementParserSafety` have the properties of calls and tokens,
  `ExpressionParserProperties` and `StatementParserProperties` extend them with those of trees.
  They are apart because the latter are recursive over trees, and the prover wants no recursive
  operator in reach.
- `ParserTokens_proofs` has the lemmas about tokens and the call stack, for
  `ExpressionParser_proofs` and `StatementParser_proofs`, which have the theorems.

The parser modules abstract from the values of tokens, from the three kinds of literal
and two of comment, and from nodes that are built but thrown away. Each of
`+ - * / % < >` is represented by one operator of its level.

### Symbol table and types

- `SymbolTableOps` has the functions of `symbol_table.c` as operators on a record
  `[buffer, size, capacity, block]`; `block` counts the allocations the buffer has lived in, so that
  a pointer kept across an addition can be told stale. `Added` is the set of outcomes:
  the table may have grown although the addition was then refused.
- `SymbolTable` is the component, with an arbitrary client that keeps the last pointer it was
  given (`held`) and may set a declaration through it, as the resolver does.
- `SymbolMap` is the abstract specification, from `symbol_table.h`: a map from names to
  symbols that grows and never changes a symbol but for the declaration of a function.
- `SymbolTable_proofs` has the theorems.
- `TypeResolver` is `resolve_types`: one action per case of its switch, with the C call stack as a
  variable, over the operators of the symbol table. A node is named by its path from the
  root; `typed` holds the types written into tokens. The statements of the file are
  chosen as the walk reaches them. A result says whether the token it blames has a
  location. `"crash"` is what happens where the code follows a pointer that leads nowhere. A declaration
  that nobody wrote (`Unwritten`) may lead nowhere or to any node, so a call through it may crash, fail
  or succeed with any type.
  `mishaps` remembers what the code cannot know, a refused addition that was ignored and a
  type read from freed memory.
- `TypeResolverProperties` states the properties by a meaning of expressions that is independent of
  the types the resolver writes. `PathsOf` has the paths of the nodes of a statement level by level, as a
  function of the depth, so that the properties can be proved about.
- `TypeResolver_proofs` has the theorems.

### The program

- `ErrorReport` has the line a report shows and the marker under it, as functions of the text and
  the token.
- `Roulx` is `main` of the driver from its start to its exit, with the creation of the
  parser, the readings of the file (each measured twice), the report and every label.
  `heap` is the set of kinds of block not yet freed. `Edit` is somebody who saves or removes
  the file meanwhile; `changed` holds the phases in which that happened: while the file was read for the
  lexer, between its two readings, while it was read for the report. malloc and calloc may
  refuse any block (`refused`): the code looks at no answer, so either the content is missing, a
  literal stands for the line, or the first write is to NULL (`OutOfMemory`). `wild` is the first
  memory error and its kind; after it nothing more is said. What the parser and the resolver
  answer is any answer those modules allow, and not answering is among them: an assertion of
  the lexer fails (`ParseAborts`) or type resolution crashes (`TypesCrash`). The tokens they
  blame are located as `LocationsExact` has it.
- `Roulx_proofs` has the theorems.

In every module a definition with a suffix, such as `NeedsRoom_Late`, is the definition
whose name precedes the suffix with a plausible bug. Nothing refers to it; it documents what the
properties are able to notice.

## 3. What is checked

| Run | Instance | Shows |
|---|---|---|
| `peek_queue` | 2 tokens, initial capacity 1 or 2, up to 4 tokens | the type, `RoomToSpare`, `NoWildAccess`, `LiveCellsWritten`, and that the queue implements `TokenDeque`, with the discipline of its one caller and cells that malloc may have refused |
| `lexer` | the reader: every text of up to 3 characters over 11 kinds, 7 pairs of bytes behind; any other client: 26 texts, 3 pairs of bytes, 4 tokens held; capacity 2 | `LongestMatch`, `LocationsExact`, `NothingSkipped`; reading ends (`ReaderEnds`); any mix of calls shows the tape (`ImplementsCursor`); the peek buffer is never left (`NoWildAccess`) |
| `lexer_keywords` | the reader, harmless bytes behind | *violated*: `d` is lexed as the keyword `do` (`lexer.c:410`) |
| `expressions` | one operator per level; all tokens an expression looks at, 7 tokens, and literals and parentheses, 10 tokens | `DepthBounded`, `NoSilentLoss`, `LookaheadExact`, `TwoLevelPrecedence`, `ParensPreserved`, `EqualsGroupRight`, `Terminates` |
| `expression_three_levels` | the second of these | *violated*: `a * b + c > d` becomes `(a * (b + c)) > d` (`parser.c:929`) |
| `statements` | control flow, calls, assignments, comments, one operator, 7 tokens, and declarations, functions, scopes, 12 tokens | `WholeFile`, `LossesExplained`, `Balanced`, `ChildrenPresent`, `NearestElse`, `Terminates` |
| `statement_losses` | every kind of token, 6 tokens | *violated*: the tree of an accepted file need not represent it; the body of a `while` is dropped (`parser.c:215`) |
| `symbol_table` | 2 names and the 2 built-in ones, variables or constants of function type, one declaration, every refusal of memory | the type, `PointerKept`, and that the table implements `SymbolMap` |
| `typing` | files of up to 3 of 35 statements, every refusal of memory | `NamesMeanOneThing`, `ConstantsKept`, `WellTyped`, `CrashesExplained`, `Terminates` |
| `typing_nodes` | the same | *violated*: operators and calls of an accepted program have no type (`typing/type_info.c:47`), so that `f(1 + 2)` and `f(g(1))` are rejected where `f(1)` is accepted |
| `roulx` | every text of up to 4 characters, changed at any moment to an empty, a short or a long one, every refusal of memory | `WildExplained`, `LeaksExplained`, `ReportAligned` |
| `roulx_unreadable` | the same | *violated*: a parser whose file could not be read does not say so (`parser.c:48`) |

Some properties name exceptions, each a defect of the code that was found while modelling; the
property says that there are no others.

| Property | Excepts |
|---|---|
| `NoWildAccess` (queue and lexer) | a queue whose cells malloc refused when it was created: the first push writes to NULL (`lexer/peek_queue.c:15`) |
| `ImplementsCursor` | `lexer_reset` of a lexer that could not be created, which answers true (`lexer/lexer.c:86`) |
| `LossesExplained` | a `while`, whose body is dropped; a function whose body failed; a second type name |
| `Balanced` | a function whose body failed: `f :: () -> t { x ;` is accepted with its brace open (`parser/parser.c:460-467`) |
| `NamesMeanOneThing` | an addition that malloc refused and whose result was ignored; a type read from a table that was freed (`mishaps`) |
| `WellTyped` | the same, a call of a name that is also declared as something else than a function (`Misread`), and a function whose return type is unknown and whose body was skipped (`Skipped`) |
| `CrashesExplained` | a built-in type that is declared again or assigned to; `Misread`: a call of an alias (`g :: f;`), of the result of an operator or call, of a parameter |
| `LeaksExplained` | nodes, which nothing frees; lists and messages that error paths forget; the message and location of a report |

`WildExplained` is about every kind of memory error the program can make and names the cause of each,
unless an allocation was refused: a reading overruns its block only if the file changes during that
reading (`lexer.c:39-41`, `error_report.c:66-68`); the lexer has no cells only for a file without text,
if nobody changed it; a literal is freed only if the file changed after it was lexed; a report takes the
name of no file only for a token that type resolution blames, and writes over its terminator only for an
empty token that the parser blames. The crashes of type resolution are a kind of their own, left
to `CrashesExplained`. `ReportAligned` is about files that nobody changes between the two readings. The
errors themselves are behaviours of the model, as are the reads of freed memory and behind the
text, whose outcomes `TypeResolver` and `Lexer` have.

### Bounds

- Capacities 1 and 2 make the queue grow on its first, second and fourth token, so
  growth on empty, growth with tokens and refusal all occur; 32 in the program only
  moves the point at which they do. The proofs cover every capacity.
- Three characters contain every pair of adjacent kinds and every construct whose
  end matters (`1.1`, `/**`, an unclosed string, an arrow cut by the end). Longer
  constructs are in the texts of the other client.
- Ten tokens hold three operators of three levels with a pair of parentheses, or
  five operators without: the smallest counterexample to precedence has seven.
- Seven tokens hold `if a if b {} else`, whose last body is the end of the file, a
  statement to this parser, two nested scopes, or an assignment with a failing right
  operand. Twelve hold a function with a
  parameter and an empty scope, a function with a scope in which a declaration fails, and
  two type names.

- The table starts with one cell, so two built-in types and two names make it grow at its
  first, second and fourth symbol, grow for a duplicate, and be refused at each of these.
- Three statements hold a function, its alias and a call of the alias; a declaration, a constant of the
  same name and an assignment; a function that declares a name in its body and a use of the name. The
  statements have every shape of node, every kind of declaration and each way a name can be wrong.
  They are nested no deeper than six (`Depth`, which `DepthAssumption` has TLC confirm: a node that deep
  has no children).
- Four characters make three lines and a token at either end of each; whether the file can be
  read matters only as empty or not.

The bound of a file of tokens is its `length`; the text is chosen token by token, so every
sequence of tokens up to that length is explored, malformed ones included, and the
files that are cut off at any point are among them.

### Fairness and deadlock

The code is one thread that does nothing but its next step: it waits for nobody.
Hence weak fairness of the one step action (`ReadOn`, `ExpressionStep`,
`StatementStep`, the resolver's `Step`), and of no part of it. Any other client of the queue,
the lexer or the table is under no obligation, and has no fairness and no liveness.
Deadlock is checked for the table, the parser, the resolver and the program, which
stutter once they are done. It is not checked for the lexer, where a failed assertion ends the process, nor
for the queue and the lexer when a write to NULL does.

### Findings

The five violated runs each quote the line of the repository they disagree with
(`PROJECT.json`). A sixth disagreement is the exception of `ImplementsCursor` in the run `lexer`:
`lexer_reset` returns true, and clears `has_error`, for a lexer without a file (`lexer.c:77-87`), where
`include/rouleaux/lexer/lexer.h:54` says "true if the lexer is in a valid state, false otherwise". Further ones that a run reaches but that contradict no line of the
repository, or that a client's discipline hides:

- `peek_queue_push` onto a queue that holds a token never leaves its copying loop, which counts an
  unsigned `i` down while `i >= 0` (`lexer/peek_queue.c:46`). Its one caller pushes onto an empty
  queue only; with `PushOnlyWhenEmpty = FALSE` in `MCPeekQueue.cfg`, `NoWildAccess` is violated.
- A file that ends in an identifier or a number fails the assertion at `lexer.c:310` when the byte
  behind the buffer happens to continue it (phase `"asserted"` of `Lexer`).
- A block comment ends at the first `*/`, as `LongestMatch` has it, although `lexer.c:242-243` allows
  nesting to an extent.
- A function whose body does not parse returns the result of its return type, a success with a node
  that was just destroyed (`parser.c:465-467`); a second type name replaces the first (`parser.c:343-350`).
- A constant that is declared with a type is always rejected: its case runs on into that of an
  identifier, which looks for the operator in the table (`typing/type_info.c:261`).
- A function of unknown return type is accepted with a body nobody looked at
  (`typing/type_info.c:283`).
- A parameter of a function type, and every other symbol of that type which was not declared by a
  deduced declaration, has a declaration that was never written (`typing/symbol_table.c:44-47`).
- A report on an empty token, an unexpected end of file among them, writes its marker over the
  terminator (`utilities/error_report.c:118`); one on a call takes the length of a file name that is
  not there (`lexer/token.c:54`); one on a file that can no longer be read frees a literal
  (`utilities/error_report.c:55, 75`).
- The nodes of a tree are never freed, only their lists, and neither is the message nor the location
  of a report (`parser/abstract_syntax_tree.c:12-68`, `utilities/error_report.c:46-58`), nor the
  message of a function body or a return type whose failure is turned into a success.

Read but not run: a byte that starts no token yields an invalid token without setting `has_error` (`lexer.c:290` against
`include/rouleaux/lexer/lexer.h:29`), and is not consumed; the last character of every report is
cut off (`utilities/error_report.c:50-53`).

## 4. What is proved

The theorems are checked by TLAPS and hold for every value of the constants that the named
assumptions allow: texts and files of any length, any number of tokens, names, types and operators.
Each is a theorem of the specification that TLC checks.

| Module | Theorem | States |
|---|---|---|
| `PeekQueue_proofs` | `TypeCorrect`, `AlwaysRoomToSpare`, `NeverWild`, `AlwaysLiveCellsWritten` | `TypeOK`, `RoomToSpare`, `NoWildAccess`, `LiveCellsWritten` |
| | `RefinesDeque` | `ImplementsDeque` |
| `Lexer_proofs` | `TypeCorrect`, `NeverWild`, `NothingIsSkipped`, `LocationsAreExact`, `TokensAreLongest` | `TypeOK`, `NoWildAccess`, `NothingSkipped`, `LocationsExact`, `LongestMatch` |
| | `RefinesCursor` | `ImplementsCursor` |
| `ExpressionParser_proofs` | `TypeCorrect`, `DepthIsBounded`, `LookaheadIsExact` | `TypeOK`, `DepthBounded`, `LookaheadExact` |
| `StatementParser_proofs` | `TypeCorrect`, `WholeFileRead` | `TypeOK`, `WholeFile` |
| `SymbolTable_proofs` | `TypeCorrect`, `PointersKept` | `TypeOK`, `PointerKept` |
| | `RefinesMap` | `ImplementsMap` |
| `TypeResolver_proofs` | `TypeSafe`, `CrashSafe`, `ConstantsSafe`, `NamesSafe`, `WellTypedSafe` | `TypeOK`, `CrashesExplained`, `ConstantsKept`, `NamesMeanOneThing`, `WellTyped` |
| | `MachineSafe` | `MachineOK`, the invariant of the walk |
| `Roulx_proofs` | `TypeCorrect`, `LeaksAreExplained`, `WildIsExplained`, `ReportsAreAligned` | `TypeOK`, `LeaksExplained`, `WildExplained`, `ReportAligned` |

### Assumptions

- Queue: `TokenAssumption`, `CapacitiesAssumption`, `MaxSizeAssumption`, `DisciplineAssumption`, and
  `PushOnlyWhenEmpty` as a hypothesis. It is the discipline of the one caller, `lexer_peek_token`,
  which pushes only onto an empty queue; without it `NoWildAccess` is false (section 3, findings).
  That the lexer keeps the discipline is part of `Lexer_proofs`, where nothing is assumed about it.
- Lexer: `FilesAssumption` (files are sequences of characters), `BeyondAssumption` (two bytes behind
  the text), `CapacityAssumption` (an initial capacity of at least two; it is 32 in the code),
  `BoundAssumption` (the client's bound is a number).
- Parser: `OperatorAssumption` (operators have one of three levels), `TokenAssumption` (an operator
  is no other token) and `FilesAssumption`.
- Symbol table: `BuiltinsAssumption`, `UnwrittenAssumption`, `TypesAssumption`.
- Type resolution: `DepthAssumption` (some depth bounds every statement; it may be any number),
  `ShapesAssumption` (the nodes have the shapes that `ChildrenPresent` says the parser gives them),
  `LiteralsAssumption` (a literal is one of three types), `OperatorsAssumption` (an operator's node
  is of no other type) and `UnwrittenAssumption` (what malloc leaves behind is the path of no node).
- Program: `TextsAssumption` (texts are sequences of letters and line ends).

### The queue

A queue is either `Bare`, one whose cells malloc refused, or `Backed`. Nothing is ever in a bare one: a push
grows it, which fails, or writes to NULL and does not return (`NextBare`). What follows is about backed
queues. None of the four invariants is inductive by itself: that a write at
index `size` is inside needs `size < capacity` *after* the growth test, which needs it
before; that a live cell is written needs the copy of a growing buffer to cover all live
cells. Their conjunction with the types, `Backed`, is inductive. `GrownHasRoom` is the heart: whatever
outcome the growth has, a successful one leaves two cells free above the live ones, which
are unchanged. `StoredKeepsInv`, `ShrinkingKeepsInv` and `RefusalKeepsInv` then
cover what a push, a removal and a refusal do, and `NextBacked` has one step per
action. For the refinement, `StoredIsPushFront` and `FrontIsHead` relate
the array to the sequence, and each action maps to an action of the deque.

### The lexer

Two arguments meet. One is about the text alone. Each scanner (names, numbers, strings, comments,
punctuation) stops at the first place its loop may stop (`LeastExists`, `StopsFirst`), so what it
finds is a lexeme of its type (`IdentifierFound`, ..., `ScanFound`), and no longer stretch of the file
from there is one (`IdentifierLongest`, ..., `ScanLongest`): the first character decides which
lexemes are possible at all (`LexemeFirst`), and those of the same kind would need the loop to have
gone on. `skip_char` counts row and column one character at a time by a recursive function; that
the recursion has a value (`WalkExists`) and yields the line and column of the place (`SkipLocated`)
is proved by the least place at which it would not.

The other is about the calls. `LInv` says that the tokens the client holds and those in the peek
buffer together lie one behind the other in the file, with nothing but white space between
(`Laid`), each located and longest, that the head stands behind the last at a place that is its own
(`HeadOK`), and that the peek buffer is a queue with room to spare. The properties are not
inductive without it: a token put back and taken again must be the one that was lexed, and a new
one starts at a head whose place must be right already. A step takes a token over (`Stayed`),
lexes one (`Advanced`) or ends in the assertion (`Stopped`), and each call is one of these
(`NextTokenDoes`, `PeekTokenDoes`, `PutBackTokenDoes`).

`RefinesCursor` adds that what is held is a prefix of the tape (`OnTape`). The tape is the text
lexed from its start as often as it has characters and once more; that this is enough is
`LexingStops`: every token but the last takes a character. That `lexer_next_token` finds the next
token of the tape although it starts from wherever the head was left is `FoundNext`. `Lexings` is a
recursive function whose existence is proved here (`LexesExists`), again by a least counterexample,
since the induction theorems of the library are out of the provers' reach.

### The parser

`ParserTokens_proofs` shows of the lexer as the parser uses it (`Sound`) that what is pending was
read, that tokens are numbered as they are read and that nothing follows the end of the file;
peeking, taking and putting back keep it, for any file.

`DepthBounded` is not inductive: a return leaves the bound only if the frame that goes gave at most
one token back, and a call gives the new frame its token only after it was entered. `Deep` counts
with that allowance; `OperatorsHeld` says that the operators the waiting frames took are
held, in the order of the stack, and that what is pending comes behind them, so that the one put back
after a failed right operand is that of the frame itself (`GivingBackKeepsInv`). `LookaheadExact` is an action property: the invariant says that
the function that looks ahead starts with nothing read (`Fresh`), and then each of the ways
to look at one, two or three tokens is followed (`OneToken`, `TwoTokens`, `ThreeTokens`).

`WholeFile` needs that after the end of the file was seen nothing is put back in front of it.
`SInv` says that `done` means the end is pending (`EndIsLast`) and that then only functions are on
the stack that return or call nothing: those that wait for a statement or for the value of a
declaration; and who can have called whom (`Callers`), so that a success of the outermost
function is one of `parser_parse_file`. `CallKeepsSInv`, `ReturnKeepsSInv` and `JumpKeepsSInv` cover the three
ways a function moves, and each action is one of them.

### The symbol table

`Inv` says that the cells that count hold symbols of different names and the others nothing
(`Good`), which makes `Index` unique (`IndexUnique`); an addition keeps it (`AddedGood`) through
every outcome of growth (`GrownGood`). `PointerStays` then covers the pointer a client kept. Under the map from the names of
live cells to their symbols each action is one of `SymbolMap` or a stutter (`StepImplementsMap`): a
refused addition may have moved the table and still changes nothing.

### Type resolution

The resolver is recursive, and what it knows is spread over its frames, the table and the types it
wrote. The argument is in layers, each an invariant that rests on those before it.

- *The tree.* `StatementPaths`, `PathsHold` and `ProgramGrows` say that the paths of a program are closed
  under children and only become more; `ChildKinds` and `StatementKinds` say which node can stand where.
  These replace an induction over the tree.
- *The machine* (`MachineOK`). A frame is on a node of the tree and has as many results as it has entered
  children, and the frame above it is on the next of them (`StackOK`); the table is `Good` and the types
  are types. Each step either enters one child or returns to the frame below (`PushesOnly`, `Answers`),
  which is proved once per action and then used by every later invariant. `TypeOK` follows.
- *What was resolved* (`WayOK`). `Resolved(p, type)` says that a frame on the stack has the result of the
  node `p` at hand. Of a resolved name it is known that the table had it, of a declaration without
  a type that its type is unknown, and of a function that its return type was found or its body skipped.
- *Where symbols come from* (`Origin`). A symbol with a location was declared by a declaration that
  is visible, and one of function type points to the function of that declaration, if it declares
  one. Hence a callee is what it is taken for unless the name is `Misread` (`CalleeDeclared`, `CalleeWritten`), and
  `CrashReason` goes through the ways of crashing: `CrashesExplained`.
- *What is done* (`Done`). A node is done when it lies within a node that was resolved. A step that
  returns makes no node done but the one it returns from and what that has resolved below
  (`DoneStep`, `NothingAhead`, `FramesNest`), so that a fact about every node done (`AssignmentsDone`,
  `ConstantsDone`) need only be proved at the node itself. When the root has returned
  everything is done (`AllDone`): `ConstantsKept`.
- *What is entered* (`NamesSettled`, `SettledApart`). A declaration settles before it is done: its name is
  entered in the table when the declaration with a type is resolved, or the assignment above it when
  there is none. Settled declarations are in the table with their type and no two have the same name:
  `NamesMeanOneThing`.
- *What types mean* (`Sense`). As long as the walk is `Sane` (nothing failed, no mishap, no name misread,
  no function skipped), the types written are those of the names and literals (`MarksMean`), a result on
  the stack is the type of every operand below it (`ResultsMean`, `AnswerMeans`), the nodes done are
  typed as `WellTyped` asks (`AllDoneMean`, `DoneHere`, `AssignedMeans`), a call on the stack agrees with
  the function its symbol points to as far as its arguments were compared (`FramesAgree`,
  `ArgumentFits`), and the functions that symbols point to are done (`DeclarationsPast`). A step can only
  lose sanity (`SaneBefore`), so each part is proved from the state before. `Meaning` is stated of the
  last state alone, by what the program declares; that it is the type the table had during the walk
  (`MeaningMeans`, `OneCallee`) needs `NamesMeanOneThing`, and gives `WellTyped` (`TypesAccepted`).

### The program

`TypeInv` adds to the types what is known of the reading and of the token that is blamed; `HeapInv`
says which kinds of block can be live at each point, which `LeaksExplained` is about at the exit; `FileInv`
says what holds in a phase in which nobody changes the file: what was measured is its length, what the
lexer read stays the file until the report (`LexedStays`), and what the report reads is still that
(`ShownStays`), and no block is missing that was not refused. `WildExplained` is inductive with these and
`Blames`, which tells by the table who blamed the token; `ReadingFits` is its part about the overrun.
`ReportAligned` rests on `LineShown` and `TokenAligned`: the line found by counting line ends in
the second reading is the one the row and column of the token were counted in.

### Only model-checked

- Liveness (`ReaderEnds`, `Terminates`): out of the prover's reach. `LexingStops` and `DepthIsBounded`
  prove what they rest on, that every token takes a character and every call holds a token.
- `NoSilentLoss`, `TwoLevelPrecedence`, `ParensPreserved`, `EqualsGroupRight`, `LossesExplained`,
  `Balanced`, `ChildrenPresent`, `NearestElse`: what they say of a tree is a RECURSIVE operator of
  `ParseTrees` or `StatementParserProperties`, and an argument by induction over the tree.

## 5. What is not modelled

- The values of numeric literals, the printing of tokens, trees and symbols, the
  wording of messages, the allocators' wrappers, build files and examples: no state.
- Nodes are values, so which node an error path of the parser destroys, and the array behind a
  list of children with its growth, are not modelled. `ast_node_destroy` frees no node, so nothing of the
  tree but its lists can be freed twice or used too late; a node's lists are emptied when they are freed.
- `parser_test` of `main.c` stops in the debugger at every statement.
- `lexer_next_token` in the parser modules cannot fail an assertion and a put back is
  never refused: the lexer's own module has both, and `Roulx` has the abort. Memory that a parser
  module asks for is always there; that it is not is a step of `Roulx`.
- That malloc refuses the first cell of the symbol table is not told from refusing its growth to two,
  which comes with the first addition: either way no symbol is added.
- The two children of a `while` are one node in memory and two paths in `TypeResolver`; resolving
  it twice writes the same types.
- File contents are the same as what the C library reads: no translation of line ends.

## 6. Plan

1. *Proofs about trees* where no induction is needed: `ChildrenPresent` as an invariant of the
   nodes that are put together in one step.
2. *Node list* as a component like the queue, with its growth and a refused push that nobody looks at.
