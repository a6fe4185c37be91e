----------------------------- MODULE LexerScan ------------------------------
(***************************************************************************)
(* lexer_next_token_internal (lexer/lexer.c) as a function of the text.    *)
(*                                                                         *)
(* A character is a one-character string; upper-case letters behave like   *)
(* the lower-case ones and are left out.  The space and the characters no  *)
(* prover reads in a string, such as the double quote, have names.         *)
(* `m` is the memory the head can reach: the n characters of the file and, *)
(* since nothing terminates the buffer, two more bytes.  Positions count   *)
(* from 1, so the end of the file is any position above n.                 *)
(***************************************************************************)
EXTENDS Integers, Sequences, FiniteSetsExt

Letter == {"a", "b", "c", "d", "e", "f", "g", "h", "i", "j", "k", "l", "m",
           "n", "o", "p", "q", "r", "s", "t", "u", "v", "w", "x", "y", "z",
           "underscore"}
Digit == {"0", "1", "2", "3", "4", "5", "6", "7", "8", "9"}
Space == {"space", "\t", "\n", "\r", "\f"}
Punctuation ==
    {"!", "quote", "#", "$", "%", "&", "'", "(", ")", "*", "+", "comma", "-", ".",
     "/", ":", "semicolon", "<", "=", ">", "?", "@", "[", "\\", "]", "^", "underscore",
     "grave", "left_curly", "|", "right_curly", "~"}

\* The token types of the keywords and their spellings, in the order of the
\* enumeration, which check_for_keyword searches.
Keywords == <<"FOR", "WHILE", "DO", "IF", "ELSE", "NULL", "CALL">>
Spelling == <<<<"f", "o", "r">>, <<"w", "h", "i", "l", "e">>, <<"d", "o">>,
              <<"i", "f">>, <<"e", "l", "s", "e">>, <<"n", "u", "l", "l">>,
              <<"c", "a", "l", "l">>>>

\* memcmp over the length of the text: the first keyword the text begins.
check_for_keyword(text) ==
    LET hits == {i \in DOMAIN Keywords : Len(text) <= Len(Spelling[i])
                                         /\ text = SubSeq(Spelling[i], 1, Len(text))}
    IN  IF hits = {} THEN "IDENTIFIER" ELSE Keywords[Min(hits)]

\* Where a loop that runs while the position is at most hi and P is false
\* stops, started at lo.
StopAt(lo, hi, P(_)) == Min({i \in lo .. hi : P(i)} \cup {Max({lo, hi + 1})})

\* What a call came to: a token of the type over the characters from `from` up
\* to `next`, where the head is left; the error flag set on the way; or the
\* assertion of skip_char failed.
Lexeme(type, from, next) ==
    [type |-> type, from |-> from, next |-> next,
     has_error |-> FALSE, asserts |-> FALSE]
Broken(from, next) == [Lexeme("INVALID", from, next) EXCEPT !.has_error = TRUE]
Asserts(from) == [Lexeme("INVALID", from, from) EXCEPT !.asserts = TRUE]

\* The do loop looks at the character after the last one of the file, and
\* skip_char's assertion fails if that byte continues the identifier.
ScanIdentifier(m, n, p) ==
    LET e == StopAt(p + 1, n + 1, LAMBDA i : m[i] \notin Letter \cup Digit)
    IN  IF e > n + 1 THEN Asserts(p)
        ELSE Lexeme(check_for_keyword(SubSeq(m, p, e - 1)), p, e)

ScanNumber_TrailingPoint(m, n, p) ==
    LET NoDigit(i) == m[i] \notin Digit
        e == StopAt(p + 1, n + 1, NoDigit)
    IN  IF e > n + 1 THEN Asserts(p)
        ELSE IF m[e] = "." THEN Lexeme("FLOAT_LITERAL", p, StopAt(e + 1, n + 1, NoDigit))
        ELSE Lexeme("INTEGER_LITERAL", p, e)

ScanNumber(m, n, p) ==
    LET NoDigit(i) == m[i] \notin Digit
        e == StopAt(p + 1, n + 1, NoDigit)
        f == StopAt(e + 1, n + 1, NoDigit)
        point == e <= n + 1 /\ m[e] = "." /\ m[e + 1] \in Digit
    IN  IF e > n + 1 \/ (point /\ (e > n \/ f > n + 1)) THEN Asserts(p)
        ELSE IF point THEN Lexeme("FLOAT_LITERAL", p, f)
        ELSE Lexeme("INTEGER_LITERAL", p, e)

ScanString(m, n, p) ==
    LET q == StopAt(p + 1, n, LAMBDA i : m[i] = "quote")
    IN  IF q > n THEN Broken(p, q) ELSE Lexeme("STRING_LITERAL", p, q + 1)

ScanLineComment(m, n, p) ==
    Lexeme("LINE_COMMENT", p, StopAt(p + 2, n, LAMBDA i : m[i] = "\n"))

ScanBlockComment(m, n, p) ==
    LET q == StopAt(p + 2, n, LAMBDA i : m[i] = "*" /\ m[i + 1] = "/")
    IN  IF q > n THEN Broken(p, q) ELSE Lexeme("BLOCK_COMMENT", p, q + 2)

ScanPunctuation_NotEaten(m, n, p) == Lexeme(m[p], p, p)

ScanPunctuation(m, n, p) ==
    IF m[p] = "-" /\ m[p + 1] = ">"
    THEN IF p + 1 > n THEN Asserts(p) ELSE Lexeme("ARROW", p, p + 2)
    ELSE Lexeme(m[p], p, p + 1)

\* The token at p, which trim_left has moved past the white space.
Scan(m, n, p) ==
    IF p > n THEN Lexeme("EOF", p, p)
    ELSE IF m[p] \in Letter THEN ScanIdentifier(m, n, p)
    ELSE IF m[p] \in Digit THEN ScanNumber(m, n, p)
    ELSE IF m[p] = "quote" THEN ScanString(m, n, p)
    ELSE IF m[p] = "/" /\ m[p + 1] = "/" THEN ScanLineComment(m, n, p)
    ELSE IF m[p] = "/" /\ m[p + 1] = "*" THEN ScanBlockComment(m, n, p)
    ELSE IF m[p] \in Punctuation THEN ScanPunctuation(m, n, p)
    ELSE Lexeme("INVALID", p, p)

trim_left(m, n, p) == StopAt(p, n, LAMBDA i : m[i] \notin Space)

skip_char_SameColumn(place, text) ==
    LET lines == {i \in DOMAIN text : text[i] = "\n"}
    IN  [row    |-> place.row + Cardinality(lines),
         column |-> place.column + Len(text) - Cardinality(lines)]

\* Row and column after skip_char has moved the head over the characters.
skip_char(place, text) ==
    LET at[i \in 0 .. Len(text)] ==
            IF i = 0 THEN place
            ELSE IF text[i] = "\n" THEN [row |-> at[i - 1].row + 1, column |-> 1]
            ELSE [at[i - 1] EXCEPT !.column = @ + 1]
    IN  at[Len(text)]
=============================================================================
