------------------------------- MODULE Roulx ---------------------------------
(***************************************************************************)
(* The program roulx (roulx/src/main.c): it reads a file, parses it,       *)
(* resolves its types, reports the first error and gives back what it      *)
(* allocated.  What the parser and type resolution answer is any answer    *)
(* that StatementParser and TypeResolver return, and that they do not      *)
(* return one is among the steps; reading files                            *)
(* (utilities/file_utilities.c), creating and destroying the parser and    *)
(* the reports (utilities/error_report.c) are here step by step.           *)
(*                                                                         *)
(* Meanwhile somebody else may change the file, and malloc may refuse any  *)
(* of the allocations.  A file that is not there cannot be told from one   *)
(* without text.                                                           *)
(*                                                                         *)
(* `wild` is the first memory error of the program: a write outside of a   *)
(* block, a pointer to nothing, a text without end, a block freed that was *)
(* not allocated.  After it nothing more is said.  Reading what a block    *)
(* that was freed, or the memory behind the text, holds is not among them: *)
(* it has every outcome in TypeResolver and Lexer, and so here.            *)
(***************************************************************************)
EXTENDS Integers, Sequences, FiniteSetsExt, ErrorReport

CONSTANTS Texts,  \* what the file may hold at first
          Edits   \* what it may be changed to

ASSUME TextsAssumption == Texts \cup Edits \subseteq Seq({"a", "b", "nl"})

VARIABLES file,      \* the text on disk
          changed,   \* the phases in which somebody changed it
          pc,        \* where main is
          reading,   \* [allotted, limit, text] of the last reading
          lexed,     \* the text of the lexer, <<>> if it could not be read
          has_error, \* the parser's
          blamed,    \* the token of the error, if any
          heap,      \* the blocks allocated and not freed
          printed,   \* the [context, marker] reported
          exit,      \* return_code
          refused,   \* malloc or calloc refused something
          wild       \* the memory error, "no" if none

vars == <<file, changed, pc, reading, lexed, has_error, blamed, heap, printed, exit, refused, wild>>

-----------------------------------------------------------------------------
\* The tokens of a text, as module Lexer shows them to be located; an empty
\* one is the end of the file or a byte that starts no token.
TokenOf(text, at, length) ==
    [at      |-> at,
     length  |-> length,
     row     |-> Cardinality(EndsBefore(text, at)) + 1,
     column  |-> at - Max(EndsBefore(text, at) \cup {0}),
     located |-> TRUE]

Tokens(text) ==
    {TokenOf(text, at, length) : at \in {i \in DOMAIN text : text[i] # "nl"}, length \in 0 .. 2}
    \cup {TokenOf(text, Len(text) + 1, 0)}

NoToken == [at |-> 0, length |-> 0, row |-> 0, column |-> 0, located |-> FALSE]

\* The tokens that lie within the text.
Within(text, tokens) == {t \in tokens : t.at + t.length <= Len(text) + 1}

-----------------------------------------------------------------------------
At(point) == pc = point /\ wild = "no"

Free(blocks) == heap' = heap \ blocks

\* Something that the program can do without may have been refused.
MayLack == refused' \in {refused, TRUE}

\* An allocation of a block of its own.
Allocate(block) ==
    \/ heap' = heap \cup {block} /\ UNCHANGED refused
    \/ UNCHANGED heap /\ refused' = TRUE

\* The program makes a memory error.
GoWild(kind) ==
    /\ wild' = kind
    /\ UNCHANGED <<pc, reading, lexed, has_error, blamed, heap, printed, exit>>

Measure_Unopened(point, next) ==
    /\ At(point)
    /\ reading' = [allotted |-> IF file = <<>> THEN -1 ELSE Len(file), limit |-> 0, text |-> <<>>]
    /\ pc' = next
    /\ UNCHANGED <<lexed, has_error, blamed, printed, exit, wild>>

\* file_read for the size alone.
Measure(point, next) ==
    /\ At(point)
    /\ reading' = [allotted |-> Len(file), limit |-> 0, text |-> <<>>]
    /\ pc' = next
    /\ UNCHANGED <<lexed, has_error, blamed, printed, exit, wild>>

\* file_read measures the file once more.
MeasureAgain(point, next) ==
    /\ At(point)
    /\ reading' = [reading EXCEPT !.limit = Len(file)]
    /\ pc' = next
    /\ UNCHANGED <<lexed, has_error, blamed, heap, printed, exit, refused, wild>>

\* What is then read of it into a block, nothing if the block was refused.
Content(block) ==
    IF block \in heap THEN SubSeq(file, 1, Min({reading.limit, Len(file)})) ELSE <<>>

Read(point, block) ==
    /\ At(point)
    /\ reading' = [reading EXCEPT !.text = Content(block)]
    /\ wild' = IF Len(Content(block)) > reading.allotted THEN "overrun" ELSE "no"

-----------------------------------------------------------------------------
\* main without an argument.
Usage ==
    /\ At("start")
    /\ pc' = "exited"
    /\ exit' = 1
    /\ UNCHANGED <<reading, lexed, has_error, blamed, heap, printed, refused, wild>>

\* parser_create and lexer_create: the file is read, the lexer's queue and the
\* parser's head are allocated.  The lexer's error is not the parser's, nor
\* does anybody look whether the queue has got its cells.
CreateMeasure == Measure("start", "create again") /\ Allocate("content")
CreateMeasureAgain == MeasureAgain("create again", "create read")

CreateRead ==
    /\ Read("create read", "content")
    /\ lexed' = Content("content")
    /\ has_error' = FALSE
    /\ \/ /\ lexed' = <<>>
          /\ heap' = (heap \ {"content"}) \cup {"head"}
          /\ UNCHANGED refused
       \/ /\ lexed' # <<>>
          /\ heap' = heap \cup {"queue", "head"}
          /\ UNCHANGED refused
       \/ /\ lexed' # <<>>
          /\ heap' = heap \cup {"head"}
          /\ refused' = TRUE
    /\ pc' = "parse"
    /\ UNCHANGED <<blamed, printed, exit>>

\* What is written to as soon as it was asked for, whatever malloc answered: the
\* parser's head, the nodes, a message, a location, the marker of a report and
\* its text.
OutOfMemory ==
    /\ \E point \in {"create read", "parse", "types", "report", "report write"} : At(point)
    /\ refused' = TRUE
    /\ GoWild("memory")

\* Parsing and typing may forget, when a part failed, a list of nodes or a
\* message they then do not return, as for the body of a function.
Forgetting(blocks) == {blocks, blocks \cup {"forgotten"}}

\* The lexer has text and a queue.
Lexing == lexed # <<>> /\ "queue" \in heap

\* parser_parse_file.  Without a file, or when malloc refused the cells of the
\* queue, the first peek writes to a queue that has none.
ParseNothing ==
    /\ At("parse")
    /\ ~Lexing
    /\ UNCHANGED refused
    /\ GoWild("no cells")

ParseSucceeds ==
    /\ At("parse")
    /\ Lexing
    /\ heap' \in Forgetting(heap \cup {"nodes", "lists"})
    /\ MayLack
    /\ pc' = "types"
    /\ UNCHANGED <<reading, lexed, has_error, blamed, printed, exit, wild>>

ParseFails ==
    /\ At("parse")
    /\ Lexing
    /\ heap' \in Forgetting(heap \cup {"nodes", "message"})
    /\ blamed' \in Within(lexed, Tokens(lexed))
    /\ MayLack
    /\ pc' = "report"
    /\ UNCHANGED <<reading, lexed, has_error, printed, exit, wild>>

\* An assertion of the lexer fails: behind the end of the text, where it reads
\* on, there was more of a name or a number, or its digits could not be copied.
ParseAborts ==
    /\ At("parse")
    /\ Lexing
    /\ MayLack
    /\ pc' = "aborted"
    /\ UNCHANGED <<reading, lexed, has_error, blamed, heap, printed, exit, wild>>

\* symbol_table_create and resolve_types, and the table printed.  A table whose
\* buffer was refused is one that cannot be added to.
TypesResolved ==
    /\ At("types")
    /\ heap' \in Forgetting(heap \cup {"table"})
    /\ MayLack
    /\ pc' = "cleanup symbol table"
    /\ UNCHANGED <<reading, lexed, has_error, blamed, printed, exit, wild>>

\* The token that is blamed may be one that was never set: that of a call.
TypesRejected ==
    /\ At("types")
    /\ heap' \in Forgetting(heap \cup {"table", "message"})
    /\ blamed' \in {t \in Within(lexed, Tokens(lexed)) : t.length > 0} \cup {NoToken}
    /\ MayLack
    /\ pc' = "report"
    /\ UNCHANGED <<reading, lexed, has_error, printed, exit, wild>>

\* resolve_types crashes, as TypeResolver does: on the location of a built-in
\* type, or on a declaration that is none.
TypesCrash ==
    /\ At("types")
    /\ UNCHANGED refused
    /\ GoWild("types")

-----------------------------------------------------------------------------
\* error_report_printable_text: the location, the line of the file, which is
\* read again, and the marker.
ReportLocation ==
    /\ At("report")
    /\ UNCHANGED refused
    /\ \/ /\ ~blamed.located
          /\ GoWild("no location")
       \/ /\ blamed.located
          /\ heap' = heap \cup {"location"}
          /\ pc' = "report measure"
          /\ UNCHANGED <<reading, lexed, has_error, blamed, printed, exit, wild>>

ReportMeasure == Measure("report measure", "report again") /\ Allocate("line content")
ReportMeasureAgain == MeasureAgain("report again", "report read")

\* get_file_line_content.  Without the text, or a copy of the line, it returns
\* a literal.
ReportRead ==
    /\ Read("report read", "line content")
    /\ \/ /\ reading'.text = <<>>
          /\ heap' = heap \ {"line content"}
          /\ UNCHANGED refused
       \/ /\ reading'.text # <<>>
          /\ heap' = (heap \ {"line content"}) \cup {"context"}
          /\ UNCHANGED refused
       \/ /\ reading'.text # <<>>
          /\ heap' = heap \ {"line content"}
          /\ refused' = TRUE
    /\ pc' = "report write"
    /\ UNCHANGED <<lexed, has_error, blamed, printed, exit>>

ReportDone_Forgetful == "cleanup parser"

\* Where main goes after a report: to the label its error handling names.
ReportDone == IF "table" \in heap THEN "cleanup symbol table" ELSE "cleanup parser"

\* The text is put together and its parts are freed, the literal too; then it is
\* printed and freed.
ReportWrite ==
    /\ At("report write")
    /\ UNCHANGED refused
    /\ \/ /\ "context" \notin heap
          /\ GoWild("literal freed")
       \/ /\ "context" \in heap
          /\ printed' = [context |-> LineOf(reading.text, blamed.row), marker |-> Marker(blamed)]
          /\ wild' = IF MarkerEnds(blamed) THEN "no" ELSE "no terminator"
          /\ Free({"context"})
          /\ exit' = 1
          /\ pc' = ReportDone
          /\ UNCHANGED <<reading, lexed, has_error, blamed>>

-----------------------------------------------------------------------------
\* parser_destroy_ast_node frees the lists of the tree, and no node.
CleanupSymbolTable ==
    /\ At("cleanup symbol table")
    /\ Free({"lists", "table"})
    /\ pc' = "cleanup parser"
    /\ UNCHANGED <<reading, lexed, has_error, blamed, printed, exit, refused, wild>>

\* parser_destroy, and the end of main.
CleanupParser ==
    /\ At("cleanup parser")
    /\ Free({"head", "content", "queue"})
    /\ pc' = "exited"
    /\ UNCHANGED <<reading, lexed, has_error, blamed, printed, exit, refused, wild>>

-----------------------------------------------------------------------------
Init ==
    /\ file \in Texts
    /\ changed = {}
    /\ pc = "start"
    /\ reading = [allotted |-> 0, limit |-> 0, text |-> <<>>]
    /\ lexed = <<>>
    /\ has_error = FALSE
    /\ blamed = NoToken
    /\ heap = {}
    /\ printed = [context |-> <<>>, marker |-> <<>>]
    /\ exit = 0
    /\ refused = FALSE
    /\ wild = "no"

Main == \/ Usage
        \/ CreateMeasure
        \/ CreateMeasureAgain
        \/ CreateRead
        \/ OutOfMemory
        \/ ParseNothing
        \/ ParseSucceeds
        \/ ParseFails
        \/ ParseAborts
        \/ TypesResolved
        \/ TypesRejected
        \/ TypesCrash
        \/ ReportLocation
        \/ ReportMeasure
        \/ ReportMeasureAgain
        \/ ReportRead
        \/ ReportWrite
        \/ CleanupSymbolTable
        \/ CleanupParser

\* The phases in which the text on disk matters: while it is read for the
\* lexer, from then until the report, and while it is read for the report.
Phase(point) ==
    IF point \in {"create again", "create read"} THEN {"lexing"}
    ELSE IF point \in {"parse", "types", "report", "report measure"} THEN {"between"}
    ELSE IF point \in {"report again", "report read"} THEN {"reporting"}
    ELSE {}

Gone == pc \in {"exited", "aborted"} \/ wild # "no"

\* Somebody saves the file, or takes it away.
Edit ==
    /\ ~Gone
    /\ file' \in Edits \ {file}
    /\ changed' = changed \cup Phase(pc)
    /\ UNCHANGED <<pc, reading, lexed, has_error, blamed, heap, printed, exit, refused, wild>>

Over == Gone /\ UNCHANGED vars

Next == \/ Main /\ UNCHANGED <<file, changed>>
        \/ Edit
        \/ Over

Spec == Init /\ [][Next]_vars

-----------------------------------------------------------------------------
Points == {"start", "create again", "create read", "parse", "types", "report",
           "report measure", "report again", "report read", "report write",
           "cleanup symbol table", "cleanup parser", "exited", "aborted"}
Blocks == {"content", "queue", "head", "nodes", "lists", "forgotten", "message", "table",
           "location", "line content", "context"}
Errors == {"no", "overrun", "no cells", "types", "no location", "no terminator",
           "literal freed", "memory"}

\* The program point, the heap and what was read keep their types.
TypeOK ==
    /\ file \in Texts \cup Edits
    /\ changed \subseteq {"lexing", "between", "reporting"}
    /\ pc \in Points
    /\ reading.allotted \in Nat /\ reading.limit \in Nat
    /\ heap \subseteq Blocks
    /\ exit \in {0, 1}
    /\ wild \in Errors
    /\ has_error \in BOOLEAN /\ refused \in BOOLEAN

\* Unless an allocation was refused: no reading writes past its block but when
\* the file changes while it is read (lexer.c:39-41, error_report.c:66-68); the
\* lexer has no cells only for a file without text (parser.c:43); a literal is
\* freed only when the file changed after it was read for the lexer
\* (error_report.c:55); only type resolution blames a token without a location
\* (type_info.c:334), and only the parser an empty one, whose marker has no end
\* (error_report.c:118).  The crashes of type resolution itself are those that
\* CrashesExplained of TypeResolverProperties tells.
WildExplained ==
    ~refused =>
        /\ wild = "overrun" => changed \cap {"lexing", "reporting"} # {}
        /\ wild = "no cells" /\ changed = {} => file = <<>>
        /\ wild = "literal freed" => changed \cap {"between", "reporting"} # {}
        /\ wild = "no location" => "table" \in heap
        /\ wild = "no terminator" => "table" \notin heap /\ blamed.length = 0
        /\ wild # "memory"

\* On every way out the program has freed all but the nodes, which nothing
\* ever frees, the lists and messages that error paths forgot, and a report's
\* message and location: each label of main and each early end of a reading included
\* (main.c:18-61, abstract_syntax_tree.c:12-70, error_report.c:46-58).
LeaksExplained ==
    pc = "exited" /\ wild = "no" =>
        heap \subseteq {"nodes", "forgotten"} \cup
                       (IF exit = 1 THEN {"message", "location"} ELSE {})

\* On a file that nobody changes from when it is read for the lexer until it is
\* read for the report, the marker of a report stands under the token in the
\* line that is shown, wherever the token is (lexer.c:313-321,
\* error_report.c:77-95, :108-123).
ReportAligned ==
    printed.marker # <<>> /\ changed = {} =>
        /\ \A i \in DOMAIN printed.context :
              printed.context[i] = lexed[blamed.at + i - blamed.column]
        /\ blamed.length > 0 =>
              /\ blamed.column <= Len(printed.context)
              /\ printed.marker[blamed.column] = "^"

\* The parser knows that it could not be created ("the parser's has_error feild
\* will be set to true if creation fails", parser.h:46).
CreationFailureSeen == pc = "parse" /\ lexed = <<>> => has_error
=============================================================================
