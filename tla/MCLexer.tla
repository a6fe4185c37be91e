------------------------------ MODULE MCLexer -------------------------------
(***************************************************************************)
(* Values for model checking the lexer with its two clients.               *)
(***************************************************************************)
EXTENDS LexerCursor

\* The texts of up to n characters.
LOCAL Texts(alphabet, n) == UNION {[1 .. k -> alphabet] : k \in 0 .. n}

\* A character of every kind the scanner distinguishes: "d" and "o" spell a
\* keyword, "bel" is a byte that starts no token.
Alphabet == {"d", "o", "1", ".", "-", ">", "quote", "/", "*", "\n", "bel"}

\* The reader gets every text of up to three characters, any other client texts
\* that make it peek and put back across lines, comments, two-character tokens,
\* an unclosed string and a byte that starts no token.
AllFiles ==
    [reader |-> Texts(Alphabet, 3),
     any    |-> Texts({"x", "\n", "-", "quote"}, 2) \cup
                {<<"1", "\n", "-", ">", "space", "x">>, <<"/", "*", "\n", "*", "/", "x">>,
                 <<"x", "bel", "x">>, <<"/", "*", "x">>,
                 <<"/", "/", "x", "\n", "1", ".", "1">>}]
ReaderFiles == [AllFiles EXCEPT !.any = {}]

\* What may lie behind the buffer: bytes that continue no token, and bytes that
\* continue an identifier, a number, a comment or an arrow.
AnyBytes ==
    [reader |-> {<<"\n", "\n">>, <<"o", "\n">>, <<"1", "/">>, <<".", "1">>,
                 <<">", "\n">>, <<"/", "1">>, <<"*", "/">>},
     any    |-> {<<"\n", "\n">>, <<"x", "x">>, <<">", "/">>}]
HarmlessBytes == [c \in Clients |-> {<<"\n", "\n">>}]

FewTokens == [reader |-> 8, any |-> 4]
=============================================================================
