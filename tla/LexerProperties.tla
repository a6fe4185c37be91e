-------------------------- MODULE LexerProperties ---------------------------
(***************************************************************************)
(* What must hold of the lexer, stated without its scanning loops: a       *)
(* grammar of the lexemes and the location a position has.                 *)
(***************************************************************************)
EXTENDS Lexer, FiniteSets

Items == [i \in 1 .. peek_buffer.size |-> peek_buffer.buffer[peek_buffer.size - i]]

\* The tokens lexed so far, in the order of the file: those the client took
\* and those waiting in the peek buffer.
Held == taken \o Items

\* The characters of the file and the two bytes behind them.
memory == file \o beyond

Text(t) == SubSeq(memory, t.from, t.from + t.length - 1)

TokenTypes ==
    {"INVALID", "EOF", "IDENTIFIER", "INTEGER_LITERAL", "FLOAT_LITERAL",
     "STRING_LITERAL", "LINE_COMMENT", "BLOCK_COMMENT", "ARROW"}
    \cup {Keywords[i] : i \in DOMAIN Keywords} \cup Punctuation

\* The types of the lexer's fields and of the tokens it holds.
TypeOK ==
    /\ head \in 0 .. Len(file) + 2
    /\ place \in [row : Nat, column : Nat]
    /\ has_error \in BOOLEAN
    /\ peek_buffer.size \in Nat /\ peek_buffer.capacity \in Nat
    /\ \/ DOMAIN peek_buffer.buffer = 0 .. peek_buffer.capacity - 1
       \/ Unbacked(peek_buffer)
    /\ \A i \in DOMAIN Held : /\ Held[i].type \in TokenTypes
                              /\ Held[i].from \in 1 .. Len(file) + 2
                              /\ Held[i].length \in Nat
    /\ result.ok \in BOOLEAN
    /\ phase \in {"running", "destroyed", "asserted", "wild"}

\* The peek buffer is never written outside its cells, however many tokens the
\* client puts back (peek_queue.c:50, :84, reached from lexer.c:117 and :124).
\* The exception: malloc refused its cells when the lexer was created
\* (lexer.c:59, peek_queue.c:15), and the first token peeked at or put back is
\* written to NULL.
NoWildAccess == phase = "wild" => Unbacked(peek_buffer)

\* A token carries the row and column of its first character, as counted from
\* the start of the file, although skip_char only ever adds to the last place
\* (lexer.c:308-322, :133).
LocationsExact ==
    \A i \in DOMAIN Held :
        LET p     == Held[i].from
            lines == {k \in 1 .. p - 1 : memory[k] = "\n"}
        IN  /\ Held[i].row = 1 + Cardinality(lines)
            /\ \/ lines = {} /\ Held[i].column = p
               \/ \E k \in lines : /\ \A l \in lines : l <= k
                                   /\ Held[i].column = p - k

\* Between two tokens, and before the first, there is nothing but white space,
\* and the head stands right behind the last: lexing, peeking and putting back
\* lose no character and hand out none twice (lexer.c:102-125, :324-330).
End(i) == IF i = 0 THEN 1 ELSE Held[i].from + Held[i].length

NothingSkipped ==
    /\ \A i \in DOMAIN Held :
          /\ End(i - 1) <= Held[i].from
          /\ \A k \in End(i - 1) .. Held[i].from - 1 : memory[k] \in Space
    /\ phase = "running" => head = End(Len(Held))

-----------------------------------------------------------------------------
\* The lexemes of the language.
IsDigits(s) == s # <<>> /\ \A i \in DOMAIN s : s[i] \in Digit
IsIdentifier(s) == /\ s # <<>>
                   /\ s[1] \in Letter
                   /\ \A i \in DOMAIN s : s[i] \in Letter \cup Digit
IsFloat(s) == \E k \in DOMAIN s : /\ s[k] = "."
                                  /\ IsDigits(SubSeq(s, 1, k - 1))
                                  /\ IsDigits(SubSeq(s, k + 1, Len(s)))
IsString(s) == /\ Len(s) >= 2
               /\ {i \in DOMAIN s : s[i] = "quote"} = {1, Len(s)}
IsLineComment(s) == /\ Len(s) >= 2
                    /\ s[1] = "/" /\ s[2] = "/"
                    /\ \A i \in DOMAIN s : s[i] # "\n"
Closes(s, i) == i \in 4 .. Len(s) /\ s[i - 1] = "*" /\ s[i] = "/"
IsBlockComment(s) == /\ Len(s) >= 4
                     /\ s[1] = "/" /\ s[2] = "*"
                     /\ {i \in DOMAIN s : Closes(s, i)} = {Len(s)}
IsArrow(s) == s = <<"-", ">">>
IsPunctuation(s) == Len(s) = 1 /\ s[1] \in Punctuation \ {"quote"}

IsLexeme(s) == \/ IsIdentifier(s) \/ IsDigits(s) \/ IsFloat(s) \/ IsString(s)
               \/ IsLineComment(s) \/ IsBlockComment(s)
               \/ IsArrow(s) \/ IsPunctuation(s)

IsOfType(s, type) ==
    /\ type = "INTEGER_LITERAL" => IsDigits(s)
    /\ type = "FLOAT_LITERAL"   => IsFloat(s)
    /\ type = "STRING_LITERAL"  => IsString(s)
    /\ type = "LINE_COMMENT"    => IsLineComment(s)
    /\ type = "BLOCK_COMMENT"   => IsBlockComment(s)
    /\ type = "ARROW"           => IsArrow(s)
    /\ type \in Punctuation     => s = <<type>>
    /\ type \in {"IDENTIFIER"} \cup {Keywords[i] : i \in DOMAIN Keywords} => IsIdentifier(s)

\* A token's text is a lexeme of its type, and no longer stretch of the file
\* from the same place is a lexeme.  An invalid token stands where no lexeme
\* starts, or opens a string or a comment the file never closes
\* (lexer.c:143-290: the order of the branches and where each loop stops).
LongestMatch ==
    \A i \in DOMAIN Held :
        LET t == Held[i]
            Longer(e) == SubSeq(memory, t.from, e)
            ends == t.from + t.length .. Len(file)
        IN  /\ t.type = "EOF" => t.from > Len(file)
            /\ t.type = "INVALID" =>
                 \A e \in t.from .. Len(file) :
                    IsLexeme(Longer(e)) => t.length > 0 /\ IsPunctuation(Longer(e))
            /\ t.type \notin {"EOF", "INVALID"} =>
                 /\ IsOfType(Text(t), t.type)
                 /\ \A e \in ends : ~IsLexeme(Longer(e))

-----------------------------------------------------------------------------
\* A loop that takes tokens comes to an end of its own: the end of the file,
\* an error, a byte that starts no token, or the assertion (main.c:40-57).
Ended == \/ Done
         \/ phase # "running"
         \/ /\ taken # <<>>
            /\ taken[Len(taken)].type = "INVALID"

ReaderEnds == client = "reader" => <>Ended

-----------------------------------------------------------------------------
\* lexer.c:152 "If its a keyword token, change it to that token type": only
\* the spelling of a keyword is one.
KeywordsExact ==
    \A i \in DOMAIN Held : \A k \in DOMAIN Keywords :
        Held[i].type = Keywords[k] => Text(Held[i]) = Spelling[k]
=============================================================================
