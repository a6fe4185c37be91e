---------------------------- MODULE LexerCursor -----------------------------
(***************************************************************************)
(* The lexer implements TokenCursor: the tokens of a file do not depend on *)
(* how the client mixes taking, peeking, putting back and resetting.       *)
(***************************************************************************)
EXTENDS LexerProperties

\* What lexing finds, time after time, from the start of the file; as every
\* token but the last takes a character, one more time than it has characters.
Lexings(f, b) ==
    LET Lex(at, where) == LexFrom(f \o b, Len(f), at, where)
        found[i \in 1 .. Len(f) + 1] ==
            IF i = 1 THEN Lex(1, Start)
            ELSE LET before == found[i - 1] IN Lex(before.head, before.place)
    IN  found

\* The tokens of a file in which lexing finds `found`.  The tape ends with the
\* token that repeats for ever, or with Uninit where lexing on would fail
\* skip_char's assertion.
Tape(found) ==
    LET last == Min({i \in DOMAIN found : found[i].asserts \/ found[i].token.length = 0})
    IN  [i \in 1 .. last |-> IF found[i].asserts THEN Uninit ELSE found[i].token]

\* Auxiliary: the tape of the file, computed once.
VARIABLE tape

\* (Bound by \E and before malloc's answer, a text is lexed once by TLC.)
TapedInit ==
    /\ Input
    /\ \E found \in {Lexings(file, beyond)} : tape = Tape(found)
    /\ lexer_create

TapedNext == Next /\ UNCHANGED tape

TapedSpec == TapedInit /\ [][TapedNext]_<<vars, tape>> /\ WF_vars(ReadOn)

Cursor == INSTANCE TokenCursor WITH
              at      <- Len(taken),
              valid   <- peek_buffer.capacity > 0,
              Nothing <- Uninit

\* The exception to the cursor: lexer_reset answers TRUE whatever it is given
\* (lexer.c:86), for a lexer that could not be created too.
InvalidResetAnswersTrue ==
    /\ peek_buffer.capacity = 0 /\ peek_buffer'.capacity = 0
    /\ taken' = <<>>
    /\ result' = Answer("reset", TRUE, Uninit)
    /\ UNCHANGED tape

\* The lexer is a cursor on the tape: peeking does not move it, putting back
\* undoes taking, resetting returns to the start, and a refused put back
\* changes nothing (lexer.h:45-81 against lexer.c:77-125).  The one exception is
\* the answer of lexer_reset where lexer.h:54 has false.
ImplementsCursor ==
    Cursor!Init /\ [][Cursor!Next \/ InvalidResetAnswersTrue]_(Cursor!vars)
=============================================================================
