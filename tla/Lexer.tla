------------------------------- MODULE Lexer --------------------------------
(***************************************************************************)
(* The rouleaux_lexer (lexer/lexer.c) and a client of it.  One action per  *)
(* exported function; a call that finds a token in the peek buffer and one *)
(* that has to lex are two disjuncts.                                      *)
(*                                                                         *)
(* There are two clients.  The reader is the loop of lexer_test, which only *)
(* takes tokens; any other client may make every call.  It puts back the   *)
(* tokens it holds, last one first, which is what the parser does when it  *)
(* backs out of a production.  `taken` holds them.                         *)
(*                                                                         *)
(* A file that cannot be read, an empty one and a refused malloc of the    *)
(* content make lexer_create fail: the pointers stay NULL and the peek     *)
(* buffer zeroed.  Nobody looks at what malloc answers for the cells of    *)
(* the peek buffer.                                                        *)
(*                                                                         *)
(* A call that fails an assertion, or writes outside the cells of the peek *)
(* buffer, does not return: `phase` records it, and of the state only what *)
(* was before the call is kept.                                            *)
(***************************************************************************)
EXTENDS LexerScan

CONSTANTS
    Uninit,           \* a token variable nobody wrote
    Files,            \* for each client, the texts a file may have
    Beyond,           \* for each client, the two bytes that may lie beyond them
    InitialCapacity,  \* of the peek buffer; 32 in the program
    MaxTaken          \* bound: for each client, how many tokens it holds

Clients == {"reader", "any"}

ASSUME FilesAssumption == \A c \in Clients : \A f \in Files[c] : f \in Seq(STRING)
ASSUME BeyondAssumption ==
    \A c \in Clients : \A b \in Beyond[c] : b \in Seq(STRING) /\ Len(b) = 2
ASSUME CapacityAssumption == InitialCapacity \in Nat /\ InitialCapacity >= 2
ASSUME BoundAssumption == MaxTaken \in [Clients -> Nat]

VARIABLES
    client,       \* who calls, fixed
    file,         \* the text, fixed
    beyond,       \* the bytes that follow it in memory, fixed
    head, place,  \* where the lexer is: position, and [row, column]
    has_error,
    peek_buffer,
    taken,        \* ghost: tokens the client took and did not put back
    result,       \* what the last call returned
    phase         \* "running", "destroyed", "asserted" or "wild"

fixed == <<client, file, beyond>>
lexed == <<head, place, has_error>>
vars == <<client, file, beyond, head, place, has_error, peek_buffer, taken, result, phase>>

INSTANCE PeekQueueOps

Answer(call, ok, t) == [call |-> call, ok |-> ok, token |-> t]

Start == [row |-> 1, column |-> 1]

\* Who calls, on what text, and what the memory behind its content holds.
Input ==
    /\ client \in Clients
    /\ file \in Files[client]
    /\ beyond \in Beyond[client]

lexer_create ==
    /\ head = 1
    /\ place = Start
    /\ has_error \in IF file = <<>> THEN {TRUE} ELSE BOOLEAN
    /\ peek_buffer \in IF has_error THEN {Destroyed} ELSE Created(InitialCapacity)
    /\ taken = <<>>
    /\ result = Answer("create", ~has_error, Uninit)
    /\ phase = "running"

Running == phase = "running"

\* A client that was told that the lexer could not be created does not use it.
Usable == Running /\ peek_buffer.capacity > 0

-----------------------------------------------------------------------------
\* What lexing at p finds when p is in row and column `here` and scanning there
\* finds s: the end of lexer_next_token_internal, after trim_left.
LexAt(m, p, here, s) ==
    [token |-> [type   |-> s.type,
                from   |-> s.from,
                length |-> s.next - s.from,
                row    |-> here.row,
                column |-> here.column],
     head  |-> s.next,
     place |-> skip_char(here, SubSeq(m, p, s.next - 1)),
     has_error |-> s.has_error,
     asserts   |-> s.asserts]

\* What a call that lexes finds when the head is at `at`, in that row and column.
LexFrom(m, n, at, where) ==
    LET p == trim_left(m, n, at)
    IN  LexAt(m, p, skip_char(where, SubSeq(m, at, p - 1)), Scan(m, n, p))

Stops(how) == /\ phase' = how
              /\ UNCHANGED <<lexed, peek_buffer, taken, result>>

\* The call lexes, by LexFrom taken apart: `Use` says what becomes of the token,
\* and `strays` that this is to write it outside the cells.
Lexing(Use(_), strays) ==
    /\ peek_buffer.size = 0
    /\ \E m \in {file \o beyond} :
       \E p \in {trim_left(m, Len(file), head)} :
       \E here \in {skip_char(place, SubSeq(m, head, p - 1))} :
       \E s \in {Scan(m, Len(file), p)} :
       \E found \in {LexAt(m, p, here, s)} :
         \/ /\ found.asserts
            /\ Stops("asserted")
         \/ /\ ~found.asserts
            /\ strays
            /\ Stops("wild")
         \/ /\ ~found.asserts
            /\ ~strays
            /\ head' = found.head
            /\ place' = found.place
            /\ has_error' = (has_error \/ found.has_error)
            /\ Use(found.token)

Taking(t) == /\ taken' = Append(taken, t)
             /\ result' = Answer("next", TRUE, t)

lexer_next_token ==
    /\ Usable
    /\ Len(taken) < MaxTaken[client]
    /\ \/ /\ peek_buffer.size > 0
          /\ Taking(Front(peek_buffer))
          /\ peek_buffer' = Popped(peek_buffer)
          /\ UNCHANGED <<lexed, phase>>
       \/ Lexing(LAMBDA t : Taking(t) /\ UNCHANGED <<peek_buffer, phase>>, FALSE)
    /\ UNCHANGED fixed

\* A push that grew, if it had to, writes to a cell that is not there.
Strays(grown, cell) == grown.ok /\ ~IsCell(grown.queue, cell)

\* The token is kept for the next call; whether the push succeeded is not
\* looked at.
Caching(grown, t) ==
    /\ peek_buffer' = IF grown.ok THEN Stored(grown.queue, 0, t) ELSE peek_buffer
    /\ result' = Answer("peek", TRUE, t)
    /\ UNCHANGED <<taken, phase>>

lexer_peek_token ==
    /\ Usable
    /\ \/ /\ peek_buffer.size > 0
          /\ result' = Answer("peek", TRUE, Front(peek_buffer))
          /\ UNCHANGED <<lexed, peek_buffer, taken, phase>>
       \/ \E grown \in Grown(peek_buffer) :
             Lexing(LAMBDA t : Caching(grown, t), Strays(grown, 0))
    /\ UNCHANGED fixed

lexer_put_back_token ==
    /\ Usable
    /\ taken # <<>>
    /\ \E grown \in Grown(peek_buffer) :
         LET cell == grown.queue.size
         IN \/ /\ ~grown.ok
               /\ result' = Answer("put_back", FALSE, Uninit)
               /\ UNCHANGED <<lexed, peek_buffer, taken, phase>>
            \/ /\ Strays(grown, cell)
               /\ Stops("wild")
            \/ /\ grown.ok /\ ~Strays(grown, cell)
               /\ result' = Answer("put_back", TRUE, Uninit)
               /\ peek_buffer' = Stored(grown.queue, cell, taken[Len(taken)])
               /\ taken' = SubSeq(taken, 1, Len(taken) - 1)
               /\ UNCHANGED <<lexed, phase>>
    /\ UNCHANGED fixed

lexer_reset ==
    /\ Running
    /\ head' = 1
    /\ place' = Start
    /\ has_error' = FALSE
    /\ peek_buffer' = Emptied(peek_buffer)
    /\ taken' = <<>>
    /\ result' = Answer("reset", TRUE, Uninit)
    /\ UNCHANGED <<fixed, phase>>

\* The memory is released and the struct zeroed.
lexer_destroy ==
    /\ Running
    /\ phase' = "destroyed"
    /\ head' = 0
    /\ place' = [row |-> 0, column |-> 0]
    /\ has_error' = FALSE
    /\ peek_buffer' = Destroyed
    /\ taken' = <<>>
    /\ result' = Answer("destroy", TRUE, Uninit)
    /\ UNCHANGED fixed

Init == Input /\ lexer_create

\* lexer_test (main.c:31-58): a loop that takes tokens until the end of the
\* file, an error, or the end of its array of MaxTaken (there 128) tokens.
Done == \/ has_error
        \/ taken # <<>> /\ taken[Len(taken)].type = "EOF"

ReadOn == client = "reader" /\ ~Done /\ lexer_next_token

AnyCall == /\ client = "any"
           /\ \/ lexer_next_token
              \/ lexer_peek_token
              \/ lexer_put_back_token
              \/ lexer_reset
              \/ lexer_destroy

Next == ReadOn \/ AnyCall

\* The reader is a loop on one thread; a client in general need not go on.
Spec == Init /\ [][Next]_vars /\ WF_vars(ReadOn)
=============================================================================
