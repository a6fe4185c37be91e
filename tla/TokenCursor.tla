---------------------------- MODULE TokenCursor -----------------------------
(***************************************************************************)
(* What lexer.h promises: the tokens of a file are a fixed tape, and the   *)
(* lexer is a cursor on it.  lexer_next_token moves it one token forward,  *)
(* lexer_put_back_token one back, lexer_peek_token not at all, and         *)
(* lexer_reset to the start.  The last token of the tape repeats for ever. *)
(* A lexer that could not be created is not valid, and the answer of       *)
(* lexer_reset says so (lexer.h:54).                                       *)
(***************************************************************************)
EXTENDS Integers, Sequences

CONSTANT Nothing

VARIABLES tape, at, valid, result

vars == <<tape, at, valid, result>>

Answer(call, ok, t) == [call |-> call, ok |-> ok, token |-> t]

Upcoming == tape[IF at < Len(tape) THEN at + 1 ELSE Len(tape)]

Init == /\ at = 0
        /\ valid \in BOOLEAN
        /\ result = Answer("create", valid, Nothing)

NextToken == /\ valid
             /\ at' = at + 1
             /\ result' = Answer("next", TRUE, Upcoming)
             /\ UNCHANGED <<tape, valid>>

PeekToken == /\ valid
             /\ result' = Answer("peek", TRUE, Upcoming)
             /\ UNCHANGED <<tape, at, valid>>

PutBack == /\ valid
           /\ at > 0
           /\ at' = at - 1
           /\ result' = Answer("put_back", TRUE, Nothing)
           /\ UNCHANGED <<tape, valid>>

PutBackRefused == /\ valid
                  /\ result' = Answer("put_back", FALSE, Nothing)
                  /\ UNCHANGED <<tape, at, valid>>

Reset == /\ at' = 0
         /\ result' = Answer("reset", valid, Nothing)
         /\ UNCHANGED <<tape, valid>>

Destroy == /\ at' = 0
           /\ valid' = FALSE
           /\ result' = Answer("destroy", TRUE, Nothing)
           /\ UNCHANGED tape

Next == NextToken \/ PeekToken \/ PutBack \/ PutBackRefused \/ Reset \/ Destroy

Spec == Init /\ [][Next]_vars
=============================================================================
