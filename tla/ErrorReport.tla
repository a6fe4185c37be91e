----------------------------- MODULE ErrorReport -----------------------------
(***************************************************************************)
(* The texts an error report is made of (utilities/error_report.c): the    *)
(* line of the file that is shown and the marker under it.  A text is a    *)
(* sequence of characters, "nl" the one that ends a line; a token is       *)
(* [at, length, row, column, located], as the lexer gives it.              *)
(***************************************************************************)
EXTENDS Integers, Sequences, FiniteSetsExt

EndsBefore(text, i) == {j \in 1 .. i - 1 : text[j] = "nl"}

HeadOf_OneLate(text, row) ==
    CHOOSE i \in 1 .. Len(text) + 1 :
        /\ Cardinality(EndsBefore(text, i)) = row \/ i = Len(text) + 1
        /\ \A j \in 1 .. i - 1 : Cardinality(EndsBefore(text, j)) # row

\* get_file_line_content: where the row starts, the end if there is none.
HeadOf(text, row) ==
    CHOOSE i \in 1 .. Len(text) + 1 :
        /\ Cardinality(EndsBefore(text, i)) = row - 1 \/ i = Len(text) + 1
        /\ \A j \in 1 .. i - 1 : Cardinality(EndsBefore(text, j)) # row - 1

\* get_file_line_content: the text of the row.
LineOf(text, row) ==
    LET head == HeadOf(text, row)
        ends == {i \in head .. Len(text) : text[i] = "nl"} \cup {Len(text) + 1}
    IN  SubSeq(text, head, Min(ends) - 1)

\* make_error_identification_line: spaces up to the token, then ^~~~.
Marker(token) ==
    [i \in 1 .. token.column - 1 + token.length |->
        IF i < token.column THEN " " ELSE IF i = token.column THEN "^" ELSE "~"]

MarkerEnds_Overrun(token) == token.length > 1

\* Whether the marker keeps its terminator, over which the ^ of an empty token
\* is written.
MarkerEnds(token) == token.length > 0
=============================================================================
