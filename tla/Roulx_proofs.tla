---------------------------- MODULE Roulx_proofs -----------------------------
(***************************************************************************)
(* Proofs about Roulx, for every text the file may hold and be changed to. *)
(***************************************************************************)
EXTENDS Roulx, FiniteSetTheorems, TLAPS

\* A set of natural numbers that is not empty has a least element, and one
\* that is bounded a greatest.
LEMMA LeastExists ==
    ASSUME NEW S, S \subseteq Nat, S # {}
    PROVE  /\ Min(S) \in S
           /\ \A y \in S : Min(S) <= y
  <1>1. \E x \in S : \A y \in S : ~ (<<y, x>> \in OpToRel(<, Nat))
    BY NatLessThanWellFounded, WFMin
  <1>2. PICK x \in S : \A y \in S : ~ (<<y, x>> \in OpToRel(<, Nat))
    BY <1>1
  <1>3. \A y \in S : ~ (y < x)
    BY <1>2 DEF OpToRel
  <1>4. \A y \in S : x <= y
    BY <1>3
  <1>. QED
    BY <1>4 DEF Min

LEMMA GreatestExists ==
    ASSUME NEW n \in Nat, NEW S, S \subseteq 0 .. n, S # {}
    PROVE  /\ Max(S) \in S
           /\ \A y \in S : Max(S) >= y
  <1>. DEFINE T == {n - x : x \in S}
  <1>1. \A x \in S : x \in Nat /\ n - x \in Nat
    OBVIOUS
  <1>2. PICK m \in T : \A y \in T : m <= y
    <2>1. T \subseteq Nat
      BY <1>1
    <2>2. T # {}
      OBVIOUS
    <2>. HIDE DEF T
    <2>. QED
      BY <2>1, <2>2, LeastExists
  <1>3. PICK x \in S : m = n - x
    OBVIOUS
  <1>4. \A y \in S : x >= y
    BY <1>1, <1>2, <1>3
  <1>. QED
    BY <1>4 DEF Max

-----------------------------------------------------------------------------
\* What error_report.c finds is what the lexer counted.

Chars == {"a", "b", "nl"}

\* The line ends before a place are finitely many, and the places before the
\* last of them, or the start, have fewer before them.
LEMMA EndsFinite ==
    ASSUME NEW text \in Seq(Chars), NEW i \in 1 .. Len(text) + 1
    PROVE  /\ IsFiniteSet(EndsBefore(text, i))
           /\ EndsBefore(text, i) \subseteq 1 .. i - 1
  <1>1. EndsBefore(text, i) \subseteq 1 .. i - 1
    BY DEF EndsBefore
  <1>2. IsFiniteSet(1 .. i - 1)
    BY FS_Interval
  <1>. QED
    BY <1>1, <1>2, FS_Subset

\* The start of the line of a place: after the last line end before it.
LEMMA LineStart ==
    ASSUME NEW text \in Seq(Chars), NEW at \in 1 .. Len(text) + 1
    PROVE  LET last == Max(EndsBefore(text, at) \cup {0})
           IN  /\ last \in 0 .. at - 1
               /\ \A i \in EndsBefore(text, at) : i <= last
               /\ HeadOf(text, Cardinality(EndsBefore(text, at)) + 1) = last + 1
  <1>. DEFINE ends == EndsBefore(text, at)
              last == Max(ends \cup {0})
              row == Cardinality(ends) + 1
              Heads(i) == /\ Cardinality(EndsBefore(text, i)) = row - 1 \/ i = Len(text) + 1
                          /\ \A j \in 1 .. i - 1 : Cardinality(EndsBefore(text, j)) # row - 1
  <1>1. /\ Len(text) \in Nat /\ at \in Nat /\ at - 1 \in Nat
        /\ IsFiniteSet(ends)
        /\ ends \subseteq 1 .. at - 1
    BY EndsFinite
  <1>2. /\ last \in ends \cup {0}
        /\ \A i \in ends \cup {0} : last >= i
    <2>1. ends \cup {0} \subseteq 0 .. at - 1
      BY <1>1
    <2>. QED
      BY <1>1, <2>1, GreatestExists
  <1>. HIDE DEF last, ends
  <1>3. last \in 0 .. at - 1 /\ \A i \in ends : i <= last
    BY <1>1, <1>2
  <1>4. row - 1 = Cardinality(ends) /\ row - 1 \in Nat
    BY <1>1, FS_CardinalityType
  <1>5. EndsBefore(text, last + 1) = ends
    BY <1>1, <1>3 DEF EndsBefore, ends
  <1>6. \A j \in 1 .. last : Cardinality(EndsBefore(text, j)) # row - 1
    <2>. SUFFICES ASSUME NEW j \in 1 .. last
                  PROVE  Cardinality(EndsBefore(text, j)) # Cardinality(ends)
      BY <1>4
    <2>1. last \in ends /\ last \notin EndsBefore(text, j)
      BY <1>2, <1>3 DEF EndsBefore, ends
    <2>2. EndsBefore(text, j) \subseteq ends
      BY <1>1, <1>3 DEF EndsBefore, ends
    <2>. QED
      BY <1>1, <2>1, <2>2, FS_Subset
  <1>7. last + 1 \in 1 .. Len(text) + 1 /\ Heads(last + 1)
    BY <1>1, <1>3, <1>4, <1>5, <1>6 DEF ends
  <1>8. ASSUME NEW i \in 1 .. Len(text) + 1, Heads(i)
        PROVE  i = last + 1
    <2>1. ~ (i < last + 1)
      BY <1>1, <1>3, <1>6, <1>8
    <2>2. ~ (last + 1 < i)
      BY <1>1, <1>3, <1>4, <1>5, <1>8
    <2>. QED
      BY <1>1, <1>3, <2>1, <2>2
  <1>9. HeadOf(text, row) = CHOOSE i \in 1 .. Len(text) + 1 : Heads(i)
    BY DEF HeadOf, ends
  <1>10. HeadOf(text, row) = last + 1
    <2>. HIDE DEF Heads
    <2>. QED
      BY <1>7, <1>8, <1>9
  <1>. QED
    BY <1>3, <1>10 DEF last, ends

\* The line that is shown for a place runs from there to the next line end.
LEMMA LineShown ==
    ASSUME NEW text \in Seq(Chars), NEW at \in 1 .. Len(text) + 1
    PROVE  LET last == Max(EndsBefore(text, at) \cup {0})
               line == LineOf(text, Cardinality(EndsBefore(text, at)) + 1)
           IN  /\ last \in 0 .. at - 1
               /\ line \in Seq(Chars)
               /\ \A i \in DOMAIN line : i \in Nat /\ line[i] = text[last + i]
               /\ at <= Len(text) /\ text[at] # "nl" => at - last <= Len(line)
  <1>. DEFINE before == EndsBefore(text, at)
              last == Max(before \cup {0})
              line == LineOf(text, Cardinality(before) + 1)
              head == HeadOf(text, Cardinality(before) + 1)
              ends == {i \in head .. Len(text) : text[i] = "nl"} \cup {Len(text) + 1}
              end == Min(ends)
  <1>1. /\ Len(text) \in Nat /\ at \in Nat
        /\ last \in 0 .. at - 1
        /\ \A i \in before : i <= last
        /\ head = last + 1
    BY LineStart
  <1>2. \A i \in 1 .. at - 1 : text[i] = "nl" => i \in before
    BY DEF EndsBefore
  <1>. HIDE DEF before, last, head
  <1>3. end \in ends /\ \A i \in ends : end <= i
    <2>1. ends \subseteq Nat /\ ends # {}
      BY <1>1
    <2>. QED
      BY <2>1, LeastExists
  <1>4. end \in head .. Len(text) + 1 /\ (end <= Len(text) => text[end] = "nl")
    BY <1>1, <1>3
  <1>5. line = SubSeq(text, head, end - 1)
    BY DEF LineOf, head, before
  <1>. HIDE DEF end, ends, line
  <1>6. /\ line \in Seq(Chars) /\ Len(line) = end - head
        /\ \A i \in DOMAIN line : i \in Nat /\ line[i] = text[last + i]
    BY <1>1, <1>4, <1>5
  <1>7. ASSUME at <= Len(text), text[at] # "nl"
        PROVE  at - last <= Len(line)
    <2>1. ~ (end <= at)
      BY <1>1, <1>2, <1>4, <1>7
    <2>. QED
      BY <1>1, <1>4, <1>6, <2>1
  <1>. QED
    BY <1>1, <1>6, <1>7 DEF line, last, before

\* A token in the text: where it is and what the lexer says of its place.
LEMMA TokenPlace ==
    ASSUME NEW text \in Seq(Chars), NEW t \in Within(text, Tokens(text))
    PROVE  /\ t.at \in 1 .. Len(text) + 1 /\ t.length \in 0 .. 2
           /\ t.row = Cardinality(EndsBefore(text, t.at)) + 1
           /\ t.column = t.at - Max(EndsBefore(text, t.at) \cup {0})
           /\ t.located = TRUE
           /\ t.length > 0 => t.at <= Len(text) /\ text[t.at] # "nl"
  <1>1. t \in Tokens(text)
    BY DEF Within
  <1>2. CASE t = TokenOf(text, Len(text) + 1, 0)
    BY <1>2 DEF TokenOf
  <1>3. CASE \E at \in {i \in DOMAIN text : text[i] # "nl"}, length \in 0 .. 2 :
                t = TokenOf(text, at, length)
    BY <1>3 DEF TokenOf
  <1>4. \/ t = TokenOf(text, Len(text) + 1, 0)
        \/ \E at \in {i \in DOMAIN text : text[i] # "nl"}, length \in 0 .. 2 :
              t = TokenOf(text, at, length)
    BY <1>1 DEF Tokens
  <1>. QED
    BY <1>2, <1>3, <1>4

\* What a report shows of a token of the text it was read from.
Aligned(text, t, context, marker) ==
    /\ \A i \in DOMAIN context : context[i] = text[t.at + i - t.column]
    /\ t.length > 0 =>
          /\ t.column <= Len(context)
          /\ marker[t.column] = "^"

LEMMA TokenAligned ==
    ASSUME NEW text \in Seq(Chars), NEW t \in Within(text, Tokens(text))
    PROVE  Aligned(text, t, LineOf(text, t.row), Marker(t))
  <1>. DEFINE last == Max(EndsBefore(text, t.at) \cup {0})
              line == LineOf(text, t.row)
  <1>1. /\ t.at \in 1 .. Len(text) + 1 /\ t.length \in 0 .. 2
        /\ t.row = Cardinality(EndsBefore(text, t.at)) + 1
        /\ t.column = t.at - last
        /\ t.length > 0 => t.at <= Len(text) /\ text[t.at] # "nl"
    BY TokenPlace
  <1>2. /\ last \in 0 .. t.at - 1
        /\ \A i \in DOMAIN line : i \in Nat /\ line[i] = text[last + i]
        /\ t.at <= Len(text) /\ text[t.at] # "nl" => t.at - last <= Len(line)
    <2>1. t.at \in 1 .. Len(text) + 1 /\ line = LineOf(text, Cardinality(EndsBefore(text, t.at)) + 1)
      BY <1>1
    <2>2. \A at \in 1 .. Len(text) + 1 :
            line = LineOf(text, Cardinality(EndsBefore(text, at)) + 1) =>
              /\ Max(EndsBefore(text, at) \cup {0}) \in 0 .. at - 1
              /\ \A i \in DOMAIN line :
                   i \in Nat /\ line[i] = text[Max(EndsBefore(text, at) \cup {0}) + i]
              /\ at <= Len(text) /\ text[at] # "nl" =>
                   at - Max(EndsBefore(text, at) \cup {0}) <= Len(line)
      <3>. HIDE DEF line
      <3>. QED
        BY LineShown
    <2>. QED
      BY <2>1, <2>2
  <1>. HIDE DEF last, line
  <1>3. \A i \in DOMAIN line : line[i] = text[t.at + i - t.column]
    BY <1>1, <1>2
  <1>4. ASSUME t.length > 0
        PROVE  Marker(t)[t.column] = "^"
    <2>1. t.column \in Nat \ {0} /\ t.length \in Nat \ {0}
      BY <1>1, <1>2, <1>4
    <2>2. t.column \in 1 .. t.column - 1 + t.length /\ ~ (t.column < t.column)
      BY <2>1
    <2>. QED
      BY <2>2 DEF Marker
  <1>5. t.length > 0 => t.column <= Len(line)
    BY <1>1, <1>2
  <1>. QED
    BY <1>3, <1>4, <1>5 DEF Aligned, line

-----------------------------------------------------------------------------
\* The type invariant is inductive with what is known of the reading and of the
\* token that is blamed.

ReadingType ==
    /\ reading \in [allotted : Nat, limit : Nat, text : Seq(Chars)]
    /\ lexed \in Seq(Chars)

\* Only type resolution blames a token that is not in the text, and what is
\* reported after the location was printed has one.
BlamedKnown ==
    /\ blamed \in Within(lexed, Tokens(lexed)) \cup {NoToken}
    /\ pc \in {"start", "create again", "create read"} => blamed = NoToken
    /\ pc \in {"report measure", "report again", "report read", "report write"} =>
          blamed.located

TypeInv == TypeOK /\ ReadingType /\ BlamedKnown

LEMMA FileIsText ==
    ASSUME TypeOK
    PROVE  file \in Seq(Chars) /\ Len(file) \in Nat
  BY TextsAssumption DEF TypeOK, Chars

\* What a reading takes of the file is a text no longer than the file, and all of
\* it if there is a block for it and the file has kept its length.
LEMMA ContentRead ==
    ASSUME TypeOK, ReadingType, NEW block
    PROVE  /\ Content(block) \in Seq(Chars)
           /\ Len(Content(block)) \in 0 .. Len(file)
           /\ block \in heap /\ reading.limit = Len(file) => Content(block) = file
           /\ Content(block) # <<>> => block \in heap /\ file # <<>>
  <1>. DEFINE S == {reading.limit, Len(file)}
              limit == Min(S)
  <1>1. /\ file \in Seq(Chars) /\ Len(file) \in Nat
        /\ reading.limit \in Nat
    BY FileIsText DEF ReadingType
  <1>2. limit \in S /\ \A y \in S : limit <= y
    <2>1. S \subseteq Nat /\ S # {}
      BY <1>1
    <2>. QED
      BY <2>1, LeastExists
  <1>3. limit \in 0 .. Len(file) /\ (reading.limit = Len(file) => limit = Len(file))
    BY <1>1, <1>2
  <1>4. Content(block) = IF block \in heap THEN SubSeq(file, 1, limit) ELSE <<>>
    BY DEF Content
  <1>. HIDE DEF limit
  <1>5. SubSeq(file, 1, limit) \in Seq(Chars) /\ Len(SubSeq(file, 1, limit)) = limit
    BY <1>1, <1>3
  <1>6. limit = Len(file) => SubSeq(file, 1, limit) = file
    BY <1>1
  <1>7. <<>> \in Seq(Chars) /\ Len(<<>>) = 0
    OBVIOUS
  <1>8. ASSUME SubSeq(file, 1, limit) # <<>>
        PROVE  file # <<>>
    <2>1. SUFFICES ASSUME file = <<>> PROVE FALSE
      OBVIOUS
    <2>2. limit = Len(file)
      BY <1>1, <1>3, <2>1
    <2>. QED
      BY <1>6, <1>8, <2>1, <2>2
  <1>9. CASE block \in heap
    BY <1>1, <1>3, <1>4, <1>5, <1>6, <1>8, <1>9
  <1>10. CASE block \notin heap
    BY <1>1, <1>4, <1>7, <1>10
  <1>. QED
    BY <1>9, <1>10

LEMMA ReadTyped ==
    ASSUME NEW point, NEW block, Read(point, block), TypeOK, ReadingType
    PROVE  /\ wild' \in Errors
           /\ reading'.allotted \in Nat /\ reading'.limit \in Nat
           /\ reading' \in [allotted : Nat, limit : Nat, text : Seq(Chars)]
           /\ reading'.text = Content(block)
  <1>1. wild' \in {"overrun", "no"}
    BY DEF Read
  <1>2. wild' \in Errors
    BY <1>1 DEF Errors
  <1>3. /\ reading' \in [allotted : Nat, limit : Nat, text : Seq(Chars)]
        /\ reading'.text = Content(block)
    BY ContentRead DEF Read, ReadingType
  <1>. QED
    BY <1>2, <1>3

LEMMA MeasureTyped ==
    ASSUME NEW point, NEW next, Measure(point, next), TypeOK, ReadingType
    PROVE  ReadingType'
  <1>1. /\ reading' = [allotted |-> Len(file), limit |-> 0, text |-> <<>>]
        /\ lexed' = lexed
    BY DEF Measure
  <1>2. Len(file) \in Nat /\ <<>> \in Seq(Chars)
    BY FileIsText
  <1>3. reading' \in [allotted : Nat, limit : Nat, text : Seq(Chars)]
    BY <1>1, <1>2
  <1>. QED
    BY <1>1, <1>3 DEF ReadingType

LEMMA InitTypeInv == Init => TypeInv
  <1>. SUFFICES ASSUME Init PROVE TypeInv
    OBVIOUS
  <1>1. TypeOK
    BY DEF Init, TypeOK, Points, Blocks, Errors
  <1>2. ReadingType
    BY DEF Init, ReadingType
  <1>3. BlamedKnown
    BY DEF Init, BlamedKnown
  <1>. QED
    BY <1>1, <1>2, <1>3 DEF TypeInv

\* A step of main keeps the types.
LEMMA NextTypeOK == TypeInv /\ [Next]_vars => TypeOK'
  <1>. SUFFICES ASSUME TypeInv, [Next]_vars PROVE TypeOK'
    OBVIOUS
  <1>. USE DEF TypeInv, TypeOK, Points, Blocks, Errors
  <1>0. Len(file) \in Nat
    BY FileIsText
  <1>1. CASE Usage /\ UNCHANGED <<file, changed>>
    BY <1>1 DEF Usage, At
  <1>2. CASE CreateMeasure /\ UNCHANGED <<file, changed>>
    BY <1>2, <1>0 DEF CreateMeasure, Measure, Allocate, At
  <1>3. CASE CreateMeasureAgain /\ UNCHANGED <<file, changed>>
    BY <1>3, <1>0 DEF CreateMeasureAgain, MeasureAgain, At, ReadingType
  <1>4. CASE CreateRead /\ UNCHANGED <<file, changed>>
    <2>1. /\ wild' \in Errors
          /\ reading'.allotted \in Nat /\ reading'.limit \in Nat
      BY <1>4, ReadTyped DEF CreateRead
    <2>2. heap' \subseteq Blocks
      BY <1>4 DEF CreateRead
    <2>. QED
      BY <1>4, <2>1, <2>2 DEF CreateRead, Read, At
  <1>5. CASE OutOfMemory /\ UNCHANGED <<file, changed>>
    BY <1>5 DEF OutOfMemory, GoWild, At
  <1>6. CASE ParseNothing /\ UNCHANGED <<file, changed>>
    BY <1>6 DEF ParseNothing, GoWild, At
  <1>7. CASE ParseSucceeds /\ UNCHANGED <<file, changed>>
    BY <1>7 DEF ParseSucceeds, Forgetting, MayLack, At
  <1>8. CASE ParseFails /\ UNCHANGED <<file, changed>>
    BY <1>8 DEF ParseFails, Forgetting, MayLack, At
  <1>9. CASE ParseAborts /\ UNCHANGED <<file, changed>>
    BY <1>9 DEF ParseAborts, MayLack, At
  <1>10. CASE TypesResolved /\ UNCHANGED <<file, changed>>
    BY <1>10 DEF TypesResolved, Forgetting, MayLack, At
  <1>11. CASE TypesRejected /\ UNCHANGED <<file, changed>>
    BY <1>11 DEF TypesRejected, Forgetting, MayLack, At
  <1>12. CASE TypesCrash /\ UNCHANGED <<file, changed>>
    BY <1>12 DEF TypesCrash, GoWild, At
  <1>13. CASE ReportLocation /\ UNCHANGED <<file, changed>>
    BY <1>13 DEF ReportLocation, GoWild, At
  <1>14. CASE ReportMeasure /\ UNCHANGED <<file, changed>>
    BY <1>14, <1>0 DEF ReportMeasure, Measure, Allocate, At
  <1>15. CASE ReportMeasureAgain /\ UNCHANGED <<file, changed>>
    BY <1>15, <1>0 DEF ReportMeasureAgain, MeasureAgain, At, ReadingType
  <1>16. CASE ReportRead /\ UNCHANGED <<file, changed>>
    <2>1. /\ wild' \in Errors
          /\ reading'.allotted \in Nat /\ reading'.limit \in Nat
      BY <1>16, ReadTyped DEF ReportRead
    <2>2. heap' \subseteq Blocks
      BY <1>16 DEF ReportRead
    <2>. QED
      BY <1>16, <2>1, <2>2 DEF ReportRead, Read, At
  <1>17. CASE ReportWrite /\ UNCHANGED <<file, changed>>
    BY <1>17 DEF ReportWrite, GoWild, Free, ReportDone, At
  <1>18. CASE CleanupSymbolTable /\ UNCHANGED <<file, changed>>
    BY <1>18 DEF CleanupSymbolTable, Free, At
  <1>19. CASE CleanupParser /\ UNCHANGED <<file, changed>>
    BY <1>19 DEF CleanupParser, Free, At
  <1>20. CASE Edit
    BY <1>20 DEF Edit, Gone, Phase
  <1>21. CASE UNCHANGED vars
    BY <1>21 DEF vars
  <1>. QED
    BY <1>1, <1>2, <1>3, <1>4, <1>5, <1>6, <1>7, <1>8, <1>9, <1>10, <1>11, <1>12, <1>13,
       <1>14, <1>15, <1>16, <1>17, <1>18, <1>19, <1>20, <1>21 DEF Next, Main, Over

LEMMA NextReadingType == TypeInv /\ [Next]_vars => ReadingType'
  <1>. SUFFICES ASSUME TypeInv, [Next]_vars PROVE ReadingType'
    OBVIOUS
  <1>0. TypeOK /\ ReadingType /\ Len(file) \in Nat
    BY FileIsText DEF TypeInv
  <1>. USE <1>0 DEF ReadingType
  <1>1. CASE Usage /\ UNCHANGED <<file, changed>>
    BY <1>1 DEF Usage, At
  <1>2. CASE CreateMeasure /\ UNCHANGED <<file, changed>>
    BY <1>2, MeasureTyped DEF CreateMeasure
  <1>3. CASE CreateMeasureAgain /\ UNCHANGED <<file, changed>>
    BY <1>0, <1>3 DEF CreateMeasureAgain, MeasureAgain
  <1>4. CASE CreateRead /\ UNCHANGED <<file, changed>>
    <2>1. Read("create read", "content") /\ lexed' = Content("content")
      BY <1>4 DEF CreateRead
    <2>2. /\ reading' \in [allotted : Nat, limit : Nat, text : Seq(Chars)]
          /\ Content("content") \in Seq(Chars)
      BY <2>1, ReadTyped, ContentRead
    <2>. QED
      BY <2>1, <2>2
  <1>5. CASE OutOfMemory /\ UNCHANGED <<file, changed>>
    BY <1>5 DEF OutOfMemory, GoWild, At
  <1>6. CASE ParseNothing /\ UNCHANGED <<file, changed>>
    BY <1>6 DEF ParseNothing, GoWild, At
  <1>7. CASE ParseSucceeds /\ UNCHANGED <<file, changed>>
    BY <1>7 DEF ParseSucceeds, Forgetting, MayLack, At
  <1>8. CASE ParseFails /\ UNCHANGED <<file, changed>>
    BY <1>8 DEF ParseFails, Forgetting, MayLack, At
  <1>9. CASE ParseAborts /\ UNCHANGED <<file, changed>>
    BY <1>9 DEF ParseAborts, MayLack, At
  <1>10. CASE TypesResolved /\ UNCHANGED <<file, changed>>
    BY <1>10 DEF TypesResolved, Forgetting, MayLack, At
  <1>11. CASE TypesRejected /\ UNCHANGED <<file, changed>>
    BY <1>11 DEF TypesRejected, Forgetting, MayLack, At
  <1>12. CASE TypesCrash /\ UNCHANGED <<file, changed>>
    BY <1>12 DEF TypesCrash, GoWild, At
  <1>13. CASE ReportLocation /\ UNCHANGED <<file, changed>>
    BY <1>13 DEF ReportLocation, GoWild, At
  <1>14. CASE ReportMeasure /\ UNCHANGED <<file, changed>>
    BY <1>14, MeasureTyped DEF ReportMeasure
  <1>15. CASE ReportMeasureAgain /\ UNCHANGED <<file, changed>>
    BY <1>0, <1>15 DEF ReportMeasureAgain, MeasureAgain
  <1>16. CASE ReportRead /\ UNCHANGED <<file, changed>>
    <2>1. Read("report read", "line content") /\ lexed' = lexed
      BY <1>16 DEF ReportRead
    <2>2. reading' \in [allotted : Nat, limit : Nat, text : Seq(Chars)]
      BY <2>1, ReadTyped
    <2>. QED
      BY <2>1, <2>2
  <1>17. CASE ReportWrite /\ UNCHANGED <<file, changed>>
    BY <1>17 DEF ReportWrite, GoWild, Free, ReportDone, At
  <1>18. CASE CleanupSymbolTable /\ UNCHANGED <<file, changed>>
    BY <1>18 DEF CleanupSymbolTable, Free, At
  <1>19. CASE CleanupParser /\ UNCHANGED <<file, changed>>
    BY <1>19 DEF CleanupParser, Free, At
  <1>20. CASE Edit
    BY <1>20 DEF Edit, Gone
  <1>21. CASE UNCHANGED vars
    BY <1>21 DEF vars
  <1>. QED
    BY <1>1, <1>2, <1>3, <1>4, <1>5, <1>6, <1>7, <1>8, <1>9, <1>10, <1>11, <1>12, <1>13,
       <1>14, <1>15, <1>16, <1>17, <1>18, <1>19, <1>20, <1>21 DEF Next, Main, Over

LEMMA NextBlamedKnown == TypeInv /\ [Next]_vars => BlamedKnown'
  <1>. SUFFICES ASSUME BlamedKnown, [Next]_vars PROVE BlamedKnown'
    BY DEF TypeInv
  <1>. USE DEF BlamedKnown
  <1>1. CASE Usage /\ UNCHANGED <<file, changed>>
    BY <1>1 DEF Usage, At
  <1>2. CASE CreateMeasure /\ UNCHANGED <<file, changed>>
    BY <1>2 DEF CreateMeasure, Measure, Allocate, At
  <1>3. CASE CreateMeasureAgain /\ UNCHANGED <<file, changed>>
    BY <1>3 DEF CreateMeasureAgain, MeasureAgain, At
  <1>4. CASE CreateRead /\ UNCHANGED <<file, changed>>
    BY <1>4 DEF CreateRead, Read, At
  <1>5. CASE OutOfMemory /\ UNCHANGED <<file, changed>>
    BY <1>5 DEF OutOfMemory, GoWild, At
  <1>6. CASE ParseNothing /\ UNCHANGED <<file, changed>>
    BY <1>6 DEF ParseNothing, GoWild, At
  <1>7. CASE ParseSucceeds /\ UNCHANGED <<file, changed>>
    BY <1>7 DEF ParseSucceeds, Forgetting, MayLack, At
  <1>8. CASE ParseFails /\ UNCHANGED <<file, changed>>
    BY <1>8 DEF ParseFails, Forgetting, MayLack, At
  <1>9. CASE ParseAborts /\ UNCHANGED <<file, changed>>
    BY <1>9 DEF ParseAborts, MayLack, At
  <1>10. CASE TypesResolved /\ UNCHANGED <<file, changed>>
    BY <1>10 DEF TypesResolved, Forgetting, MayLack, At
  <1>11. CASE TypesRejected /\ UNCHANGED <<file, changed>>
    BY <1>11 DEF TypesRejected, Forgetting, MayLack, At
  <1>12. CASE TypesCrash /\ UNCHANGED <<file, changed>>
    BY <1>12 DEF TypesCrash, GoWild, At
  <1>13. CASE ReportLocation /\ UNCHANGED <<file, changed>>
    BY <1>13 DEF ReportLocation, GoWild, At
  <1>14. CASE ReportMeasure /\ UNCHANGED <<file, changed>>
    BY <1>14 DEF ReportMeasure, Measure, Allocate, At
  <1>15. CASE ReportMeasureAgain /\ UNCHANGED <<file, changed>>
    BY <1>15 DEF ReportMeasureAgain, MeasureAgain, At
  <1>16. CASE ReportRead /\ UNCHANGED <<file, changed>>
    BY <1>16 DEF ReportRead, Read, At
  <1>17. CASE ReportWrite /\ UNCHANGED <<file, changed>>
    BY <1>17 DEF ReportWrite, GoWild, Free, ReportDone, At
  <1>18. CASE CleanupSymbolTable /\ UNCHANGED <<file, changed>>
    BY <1>18 DEF CleanupSymbolTable, Free, At
  <1>19. CASE CleanupParser /\ UNCHANGED <<file, changed>>
    BY <1>19 DEF CleanupParser, Free, At
  <1>20. CASE Edit
    BY <1>20 DEF Edit, Gone
  <1>21. CASE UNCHANGED vars
    BY <1>21 DEF vars
  <1>. QED
    BY <1>1, <1>2, <1>3, <1>4, <1>5, <1>6, <1>7, <1>8, <1>9, <1>10, <1>11, <1>12, <1>13,
       <1>14, <1>15, <1>16, <1>17, <1>18, <1>19, <1>20, <1>21 DEF Next, Main, Over

\* The program point, the heap and what was read keep their types, whatever the
\* file holds, whenever it is changed and whatever malloc refuses.
THEOREM TypeCorrect == Spec => []TypeOK
  <1>1. TypeInv /\ [Next]_vars => TypeInv'
    BY NextTypeOK, NextReadingType, NextBlamedKnown DEF TypeInv
  <1>2. TypeInv => TypeOK
    BY DEF TypeInv
  <1>. QED
    BY InitTypeInv, <1>1, <1>2, PTL DEF Spec

LEMMA TypeInvHolds == Spec => []TypeInv
  <1>1. TypeInv /\ [Next]_vars => TypeInv'
    BY NextTypeOK, NextReadingType, NextBlamedKnown DEF TypeInv
  <1>. QED
    BY InitTypeInv, <1>1, PTL DEF Spec

-----------------------------------------------------------------------------
\* What is allocated at each point.  While an error is reported the lists of the
\* tree are there only with the symbol table, and the label that main then
\* goes to frees both.

Created == {"content", "queue", "head"}
Lost    == {"nodes", "forgotten"}
Told    == {"message", "location"}

HeapBound ==
    /\ pc = "start" => heap = {}
    /\ pc \in {"create again", "create read"} => heap \subseteq {"content"}
    /\ pc = "parse" => heap \subseteq Created
    /\ pc = "types" => heap \subseteq Created \cup Lost \cup {"lists"}
    /\ pc \in {"report", "report measure"} =>
          heap \subseteq Created \cup Lost \cup Told \cup {"lists", "table"}
    /\ pc \in {"report again", "report read"} =>
          heap \subseteq Created \cup Lost \cup Told \cup {"lists", "table", "line content"}
    /\ pc = "report write" =>
          heap \subseteq Created \cup Lost \cup Told \cup {"lists", "table", "context"}
    /\ pc \in {"report", "report measure", "report again", "report read", "report write"} =>
          ("lists" \in heap => "table" \in heap)
    /\ pc = "cleanup symbol table" =>
          heap \subseteq Created \cup Lost \cup {"lists", "table"} \cup
                         (IF exit = 1 THEN Told ELSE {})
    /\ pc = "cleanup parser" =>
          heap \subseteq Created \cup Lost \cup (IF exit = 1 THEN Told ELSE {})

HeapInv == HeapBound /\ LeaksExplained

LEMMA NextHeapInv == HeapInv /\ [Next]_vars => HeapInv'
  <1>. SUFFICES ASSUME HeapInv, [Next]_vars PROVE HeapInv'
    OBVIOUS
  <1>. USE DEF HeapInv, HeapBound, LeaksExplained, Created, Lost, Told
  <1>1. CASE Usage /\ UNCHANGED <<file, changed>>
    BY <1>1 DEF Usage, At
  <1>2. CASE CreateMeasure /\ UNCHANGED <<file, changed>>
    BY <1>2 DEF CreateMeasure, Measure, Allocate, At
  <1>3. CASE CreateMeasureAgain /\ UNCHANGED <<file, changed>>
    BY <1>3 DEF CreateMeasureAgain, MeasureAgain, At
  <1>4. CASE CreateRead /\ UNCHANGED <<file, changed>>
    BY <1>4 DEF CreateRead, Read, At
  <1>5. CASE OutOfMemory /\ UNCHANGED <<file, changed>>
    BY <1>5 DEF OutOfMemory, GoWild, At
  <1>6. CASE ParseNothing /\ UNCHANGED <<file, changed>>
    BY <1>6 DEF ParseNothing, GoWild, At
  <1>7. CASE ParseSucceeds /\ UNCHANGED <<file, changed>>
    BY <1>7 DEF ParseSucceeds, Forgetting, MayLack, At
  <1>8. CASE ParseFails /\ UNCHANGED <<file, changed>>
    BY <1>8 DEF ParseFails, Forgetting, MayLack, At
  <1>9. CASE ParseAborts /\ UNCHANGED <<file, changed>>
    BY <1>9 DEF ParseAborts, MayLack, At
  <1>10. CASE TypesResolved /\ UNCHANGED <<file, changed>>
    BY <1>10 DEF TypesResolved, Forgetting, MayLack, At
  <1>11. CASE TypesRejected /\ UNCHANGED <<file, changed>>
    BY <1>11 DEF TypesRejected, Forgetting, MayLack, At
  <1>12. CASE TypesCrash /\ UNCHANGED <<file, changed>>
    BY <1>12 DEF TypesCrash, GoWild, At
  <1>13. CASE ReportLocation /\ UNCHANGED <<file, changed>>
    BY <1>13 DEF ReportLocation, GoWild, At
  <1>14. CASE ReportMeasure /\ UNCHANGED <<file, changed>>
    BY <1>14 DEF ReportMeasure, Measure, Allocate, At
  <1>15. CASE ReportMeasureAgain /\ UNCHANGED <<file, changed>>
    BY <1>15 DEF ReportMeasureAgain, MeasureAgain, At
  <1>16. CASE ReportRead /\ UNCHANGED <<file, changed>>
    BY <1>16 DEF ReportRead, Read, At
  <1>17. CASE ReportWrite /\ UNCHANGED <<file, changed>>
    BY <1>17 DEF ReportWrite, GoWild, Free, ReportDone, At
  <1>18. CASE CleanupSymbolTable /\ UNCHANGED <<file, changed>>
    BY <1>18 DEF CleanupSymbolTable, Free, At
  <1>19. CASE CleanupParser /\ UNCHANGED <<file, changed>>
    BY <1>19 DEF CleanupParser, Free, At
  <1>20. CASE Edit
    BY <1>20 DEF Edit, Gone
  <1>21. CASE UNCHANGED vars
    BY <1>21 DEF vars
  <1>. QED
    BY <1>1, <1>2, <1>3, <1>4, <1>5, <1>6, <1>7, <1>8, <1>9, <1>10, <1>11, <1>12, <1>13,
       <1>14, <1>15, <1>16, <1>17, <1>18, <1>19, <1>20, <1>21 DEF Next, Main, Over

LEMMA HeapInvHolds == Spec => []HeapInv
  <1>1. Init => HeapInv
    BY DEF Init, HeapInv, HeapBound, LeaksExplained
  <1>. QED
    BY <1>1, NextHeapInv, PTL DEF Spec

\* On every way out the program has freed all but the nodes, what error paths
\* forgot and, after a report, its message and location, whatever the file
\* holds, whenever it is changed and whatever malloc refuses.
THEOREM LeaksAreExplained == Spec => []LeaksExplained
  <1>1. HeapInv => LeaksExplained
    BY DEF HeapInv
  <1>. QED
    BY <1>1, HeapInvHolds, PTL

-----------------------------------------------------------------------------
\* In a phase in which nobody changes the file, what was measured is its length
\* and what was read is its text; and nothing is missing that was not refused.

Shown == {"report", "report measure", "report again", "report read", "report write"}

\* What the lexer reads.
LexedStays ==
    /\ pc \in {"create again", "create read"} =>
          /\ "lexing" \notin changed => reading.allotted = Len(file)
          /\ refused = FALSE => "content" \in heap
    /\ pc = "create read" /\ "lexing" \notin changed => reading.limit = Len(file)
    /\ pc = "parse" /\ refused = FALSE =>
          /\ changed = {} => lexed = file
          /\ lexed # <<>> => "queue" \in heap
    /\ pc \in {"types"} \cup Shown => lexed # <<>>

\* What the report reads.
ShownStays ==
    /\ pc \in {"parse", "types", "report", "report measure", "report again", "report read"} =>
          /\ changed = {} /\ lexed # <<>> => lexed = file
          /\ changed \cap {"between", "reporting"} = {} /\ lexed # <<>> => file # <<>>
    /\ pc \in {"report again", "report read"} =>
          /\ "reporting" \notin changed => reading.allotted = Len(file)
          /\ refused = FALSE => "line content" \in heap
    /\ pc = "report read" /\ "reporting" \notin changed => reading.limit = Len(file)
    /\ pc = "report write" =>
          /\ changed = {} /\ "context" \in heap => reading.text = lexed
          /\ changed \cap {"between", "reporting"} = {} /\ refused = FALSE => "context" \in heap

Unprinted ==
    pc \in {"start", "create again", "create read", "parse", "types"} \cup Shown =>
        printed.marker = <<>>

FileInv == LexedStays /\ ShownStays /\ Unprinted

Inv == TypeInv /\ HeapInv /\ FileInv

LEMMA NextUnprinted == Inv /\ [Next]_vars => Unprinted'
  <1>. SUFFICES ASSUME Unprinted, [Next]_vars PROVE Unprinted'
    BY DEF Inv, FileInv
  <1>. USE DEF Unprinted, Shown
  <1>1. CASE Usage /\ UNCHANGED <<file, changed>>
    BY <1>1 DEF Usage, At
  <1>2. CASE CreateMeasure /\ UNCHANGED <<file, changed>>
    BY <1>2 DEF CreateMeasure, Measure, Allocate, At
  <1>3. CASE CreateMeasureAgain /\ UNCHANGED <<file, changed>>
    BY <1>3 DEF CreateMeasureAgain, MeasureAgain, At
  <1>4. CASE CreateRead /\ UNCHANGED <<file, changed>>
    BY <1>4 DEF CreateRead, Read, At
  <1>5. CASE OutOfMemory /\ UNCHANGED <<file, changed>>
    BY <1>5 DEF OutOfMemory, GoWild, At
  <1>6. CASE ParseNothing /\ UNCHANGED <<file, changed>>
    BY <1>6 DEF ParseNothing, GoWild, At
  <1>7. CASE ParseSucceeds /\ UNCHANGED <<file, changed>>
    BY <1>7 DEF ParseSucceeds, Forgetting, MayLack, At
  <1>8. CASE ParseFails /\ UNCHANGED <<file, changed>>
    BY <1>8 DEF ParseFails, Forgetting, MayLack, At
  <1>9. CASE ParseAborts /\ UNCHANGED <<file, changed>>
    BY <1>9 DEF ParseAborts, MayLack, At
  <1>10. CASE TypesResolved /\ UNCHANGED <<file, changed>>
    BY <1>10 DEF TypesResolved, Forgetting, MayLack, At
  <1>11. CASE TypesRejected /\ UNCHANGED <<file, changed>>
    BY <1>11 DEF TypesRejected, Forgetting, MayLack, At
  <1>12. CASE TypesCrash /\ UNCHANGED <<file, changed>>
    BY <1>12 DEF TypesCrash, GoWild, At
  <1>13. CASE ReportLocation /\ UNCHANGED <<file, changed>>
    BY <1>13 DEF ReportLocation, GoWild, At
  <1>14. CASE ReportMeasure /\ UNCHANGED <<file, changed>>
    BY <1>14 DEF ReportMeasure, Measure, Allocate, At
  <1>15. CASE ReportMeasureAgain /\ UNCHANGED <<file, changed>>
    BY <1>15 DEF ReportMeasureAgain, MeasureAgain, At
  <1>16. CASE ReportRead /\ UNCHANGED <<file, changed>>
    BY <1>16 DEF ReportRead, Read, At
  <1>17. CASE ReportWrite /\ UNCHANGED <<file, changed>>
    BY <1>17 DEF ReportWrite, GoWild, Free, ReportDone, At
  <1>18. CASE CleanupSymbolTable /\ UNCHANGED <<file, changed>>
    BY <1>18 DEF CleanupSymbolTable, Free, At
  <1>19. CASE CleanupParser /\ UNCHANGED <<file, changed>>
    BY <1>19 DEF CleanupParser, Free, At
  <1>20. CASE Edit
    BY <1>20 DEF Edit, Gone
  <1>21. CASE UNCHANGED vars
    BY <1>21 DEF vars
  <1>. QED
    BY <1>1, <1>2, <1>3, <1>4, <1>5, <1>6, <1>7, <1>8, <1>9, <1>10, <1>11, <1>12, <1>13,
       <1>14, <1>15, <1>16, <1>17, <1>18, <1>19, <1>20, <1>21 DEF Next, Main, Over

LEMMA NextLexedStays == Inv /\ [Next]_vars => LexedStays'
  <1>. SUFFICES ASSUME Inv, [Next]_vars PROVE LexedStays'
    OBVIOUS
  <1>0. TypeOK /\ ReadingType /\ LexedStays
    BY DEF Inv, FileInv, TypeInv
  <1>. USE <1>0 DEF LexedStays, Shown
  <1>1. CASE Usage /\ UNCHANGED <<file, changed>>
    BY <1>1 DEF Usage, At
  <1>2. CASE CreateMeasure /\ UNCHANGED <<file, changed>>
    BY <1>2 DEF CreateMeasure, Measure, Allocate, At
  <1>3. CASE CreateMeasureAgain /\ UNCHANGED <<file, changed>>
    BY <1>3 DEF CreateMeasureAgain, MeasureAgain, At, ReadingType
  <1>4. CASE CreateRead /\ UNCHANGED <<file, changed>>
    <2>1. /\ pc = "create read" /\ pc' = "parse"
          /\ lexed' = Content("content")
          /\ UNCHANGED <<file, changed>>
          /\ refused' = FALSE => refused = FALSE /\ (lexed' # <<>> => "queue" \in heap')
      BY <1>4 DEF CreateRead, Read, At
    <2>2. refused' = FALSE /\ changed' = {} => Content("content") = file
      BY <2>1, ContentRead
    <2>. QED
      BY <2>1, <2>2
  <1>5. CASE OutOfMemory /\ UNCHANGED <<file, changed>>
    BY <1>5 DEF OutOfMemory, GoWild, At
  <1>6. CASE ParseNothing /\ UNCHANGED <<file, changed>>
    BY <1>6 DEF ParseNothing, GoWild, At
  <1>7. CASE ParseSucceeds /\ UNCHANGED <<file, changed>>
    BY <1>7 DEF ParseSucceeds, Forgetting, MayLack, At, Lexing
  <1>8. CASE ParseFails /\ UNCHANGED <<file, changed>>
    BY <1>8 DEF ParseFails, Forgetting, MayLack, At, Lexing
  <1>9. CASE ParseAborts /\ UNCHANGED <<file, changed>>
    BY <1>9 DEF ParseAborts, MayLack, At
  <1>10. CASE TypesResolved /\ UNCHANGED <<file, changed>>
    BY <1>10 DEF TypesResolved, Forgetting, MayLack, At
  <1>11. CASE TypesRejected /\ UNCHANGED <<file, changed>>
    BY <1>11 DEF TypesRejected, Forgetting, MayLack, At
  <1>12. CASE TypesCrash /\ UNCHANGED <<file, changed>>
    BY <1>12 DEF TypesCrash, GoWild, At
  <1>13. CASE ReportLocation /\ UNCHANGED <<file, changed>>
    BY <1>13 DEF ReportLocation, GoWild, At
  <1>14. CASE ReportMeasure /\ UNCHANGED <<file, changed>>
    BY <1>14 DEF ReportMeasure, Measure, Allocate, At
  <1>15. CASE ReportMeasureAgain /\ UNCHANGED <<file, changed>>
    BY <1>15 DEF ReportMeasureAgain, MeasureAgain, At, ReadingType
  <1>16. CASE ReportRead /\ UNCHANGED <<file, changed>>
    BY <1>16 DEF ReportRead, Read, At
  <1>17. CASE ReportWrite /\ UNCHANGED <<file, changed>>
    BY <1>17 DEF ReportWrite, GoWild, Free, ReportDone, At
  <1>18. CASE CleanupSymbolTable /\ UNCHANGED <<file, changed>>
    BY <1>18 DEF CleanupSymbolTable, Free, At
  <1>19. CASE CleanupParser /\ UNCHANGED <<file, changed>>
    BY <1>19 DEF CleanupParser, Free, At
  <1>20. CASE Edit
    BY <1>20 DEF Edit, Gone, Phase
  <1>21. CASE UNCHANGED vars
    BY <1>21 DEF vars
  <1>. QED
    BY <1>1, <1>2, <1>3, <1>4, <1>5, <1>6, <1>7, <1>8, <1>9, <1>10, <1>11, <1>12, <1>13,
       <1>14, <1>15, <1>16, <1>17, <1>18, <1>19, <1>20, <1>21 DEF Next, Main, Over

LEMMA NextShownStays == Inv /\ [Next]_vars => ShownStays'
  <1>. SUFFICES ASSUME Inv, [Next]_vars PROVE ShownStays'
    OBVIOUS
  <1>0. TypeOK /\ ReadingType /\ LexedStays /\ ShownStays /\ HeapBound
    BY DEF Inv, FileInv, TypeInv, HeapInv
  <1>. USE <1>0 DEF ShownStays, Shown
  <1>1. CASE Usage /\ UNCHANGED <<file, changed>>
    BY <1>1 DEF Usage, At
  <1>2. CASE CreateMeasure /\ UNCHANGED <<file, changed>>
    BY <1>2 DEF CreateMeasure, Measure, Allocate, At
  <1>3. CASE CreateMeasureAgain /\ UNCHANGED <<file, changed>>
    BY <1>3 DEF CreateMeasureAgain, MeasureAgain, At, ReadingType
  <1>4. CASE CreateRead /\ UNCHANGED <<file, changed>>
    <2>1. /\ pc = "create read" /\ pc' = "parse"
          /\ lexed' = Content("content")
          /\ UNCHANGED <<file, changed>>
      BY <1>4 DEF CreateRead, Read, At
    <2>2. Content("content") # <<>> => "content" \in heap /\ file # <<>>
      BY ContentRead
    <2>3. changed = {} /\ "content" \in heap => Content("content") = file
      BY <2>1, ContentRead DEF LexedStays
    <2>. QED
      BY <2>1, <2>2, <2>3
  <1>5. CASE OutOfMemory /\ UNCHANGED <<file, changed>>
    BY <1>5 DEF OutOfMemory, GoWild, At
  <1>6. CASE ParseNothing /\ UNCHANGED <<file, changed>>
    BY <1>6 DEF ParseNothing, GoWild, At
  <1>7. CASE ParseSucceeds /\ UNCHANGED <<file, changed>>
    BY <1>7 DEF ParseSucceeds, Forgetting, MayLack, At, Lexing
  <1>8. CASE ParseFails /\ UNCHANGED <<file, changed>>
    BY <1>8 DEF ParseFails, Forgetting, MayLack, At, Lexing
  <1>9. CASE ParseAborts /\ UNCHANGED <<file, changed>>
    BY <1>9 DEF ParseAborts, MayLack, At
  <1>10. CASE TypesResolved /\ UNCHANGED <<file, changed>>
    BY <1>10 DEF TypesResolved, Forgetting, MayLack, At
  <1>11. CASE TypesRejected /\ UNCHANGED <<file, changed>>
    BY <1>11 DEF TypesRejected, Forgetting, MayLack, At
  <1>12. CASE TypesCrash /\ UNCHANGED <<file, changed>>
    BY <1>12 DEF TypesCrash, GoWild, At
  <1>13. CASE ReportLocation /\ UNCHANGED <<file, changed>>
    BY <1>13 DEF ReportLocation, GoWild, At
  <1>14. CASE ReportMeasure /\ UNCHANGED <<file, changed>>
    BY <1>14 DEF ReportMeasure, Measure, Allocate, At
  <1>15. CASE ReportMeasureAgain /\ UNCHANGED <<file, changed>>
    BY <1>15 DEF ReportMeasureAgain, MeasureAgain, At, ReadingType
  <1>16. CASE ReportRead /\ UNCHANGED <<file, changed>>
    <2>1. /\ pc = "report read" /\ pc' = "report write"
          /\ Read("report read", "line content")
          /\ UNCHANGED <<file, changed, lexed>>
          /\ refused' = FALSE => refused = FALSE /\ (reading'.text # <<>> => "context" \in heap')
          /\ reading'.text = <<>> => heap' \subseteq heap
      BY <1>16 DEF ReportRead, Read, At
    <2>2. reading'.text = Content("line content") /\ lexed # <<>>
      BY <2>1, ReadTyped DEF LexedStays
    <2>3. /\ Content("line content") # <<>> => "line content" \in heap
          /\ "line content" \in heap /\ "reporting" \notin changed =>
                Content("line content") = file
      BY <2>1, ContentRead
    <2>4. ASSUME changed = {}, "context" \in heap'
          PROVE  reading'.text = lexed
      <3>1. "context" \notin heap
        BY <2>1 DEF HeapBound, Created, Lost, Told
      <3>2. reading'.text # <<>>
        BY <2>1, <2>4, <3>1
      <3>. QED
        BY <2>1, <2>2, <2>3, <2>4, <3>2
    <2>5. ASSUME changed \cap {"between", "reporting"} = {}, refused' = FALSE
          PROVE  "context" \in heap'
      <3>1. "line content" \in heap /\ "reporting" \notin changed /\ file # <<>>
        BY <2>1, <2>2, <2>5
      <3>. QED
        BY <2>1, <2>2, <2>3, <2>5, <3>1
    <2>. QED
      BY <2>1, <2>4, <2>5
  <1>17. CASE ReportWrite /\ UNCHANGED <<file, changed>>
    BY <1>17 DEF ReportWrite, GoWild, Free, ReportDone, At
  <1>18. CASE CleanupSymbolTable /\ UNCHANGED <<file, changed>>
    BY <1>18 DEF CleanupSymbolTable, Free, At
  <1>19. CASE CleanupParser /\ UNCHANGED <<file, changed>>
    BY <1>19 DEF CleanupParser, Free, At
  <1>20. CASE Edit
    BY <1>20 DEF Edit, Gone, Phase
  <1>21. CASE UNCHANGED vars
    BY <1>21 DEF vars
  <1>. QED
    BY <1>1, <1>2, <1>3, <1>4, <1>5, <1>6, <1>7, <1>8, <1>9, <1>10, <1>11, <1>12, <1>13,
       <1>14, <1>15, <1>16, <1>17, <1>18, <1>19, <1>20, <1>21 DEF Next, Main, Over

LEMMA InvHolds == Spec => []Inv
  <1>1. Init => FileInv
    BY DEF Init, FileInv, LexedStays, ShownStays, Unprinted, Shown
  <1>2. Inv /\ [Next]_vars => FileInv'
    BY NextLexedStays, NextShownStays, NextUnprinted DEF FileInv
  <1>3. TypeInv /\ HeapInv /\ FileInv /\ [Next]_vars => FileInv'
    BY <1>2 DEF Inv
  <1>4. TypeInv /\ HeapInv /\ FileInv => Inv
    BY DEF Inv
  <1>. QED
    BY <1>1, <1>3, <1>4, TypeInvHolds, HeapInvHolds, PTL DEF Spec

-----------------------------------------------------------------------------
\* Memory errors.

\* While a token is reported that type resolution blamed there is a table, and
\* the token is not empty, if it was set; one that the parser blamed was.
Blames ==
    pc \in Shown =>
        /\ "table" \in heap => blamed = NoToken \/ blamed.length > 0
        /\ "table" \notin heap => blamed # NoToken

\* The token that is blamed has a location if it was set.
LEMMA LocatedIfSet ==
    ASSUME TypeInv
    PROVE  blamed.located <=> blamed # NoToken
  <1>1. CASE blamed = NoToken
    BY <1>1 DEF NoToken
  <1>2. CASE blamed # NoToken
    BY <1>2, TokenPlace DEF TypeInv, ReadingType, BlamedKnown
  <1>. QED
    BY <1>1, <1>2

LEMMA NextBlames == Inv /\ Blames /\ [Next]_vars => Blames'
  <1>. SUFFICES ASSUME Inv, Blames, [Next]_vars PROVE Blames'
    OBVIOUS
  <1>0. ASSUME UNCHANGED blamed, pc \in Shown, "table" \in heap' <=> "table" \in heap
        PROVE  Blames'
    BY <1>0 DEF Blames
  <1>1. CASE Usage /\ UNCHANGED <<file, changed>>
    BY <1>1 DEF Usage, At, Blames, Shown
  <1>2. CASE CreateMeasure /\ UNCHANGED <<file, changed>>
    BY <1>2 DEF CreateMeasure, Measure, Allocate, At, Blames, Shown
  <1>3. CASE CreateMeasureAgain /\ UNCHANGED <<file, changed>>
    BY <1>3 DEF CreateMeasureAgain, MeasureAgain, At, Blames, Shown
  <1>4. CASE CreateRead /\ UNCHANGED <<file, changed>>
    BY <1>4 DEF CreateRead, Read, At, Blames, Shown
  <1>5. CASE OutOfMemory /\ UNCHANGED <<file, changed>>
    BY <1>5 DEF OutOfMemory, GoWild, At, Blames, Shown
  <1>6. CASE ParseNothing /\ UNCHANGED <<file, changed>>
    BY <1>6 DEF ParseNothing, GoWild, At, Blames, Shown
  <1>7. CASE ParseSucceeds /\ UNCHANGED <<file, changed>>
    BY <1>7 DEF ParseSucceeds, Forgetting, MayLack, At, Blames, Shown
  <1>8. CASE ParseFails /\ UNCHANGED <<file, changed>>
    <2>1. "table" \notin heap
      BY <1>8 DEF Inv, HeapInv, HeapBound, Created, ParseFails, At
    <2>2. "table" \notin heap'
      BY <2>1, <1>8 DEF ParseFails, Forgetting
    <2>3. lexed \in Seq(Chars) /\ blamed' \in Within(lexed, Tokens(lexed))
      BY <1>8 DEF ParseFails, Inv, TypeInv, ReadingType
    <2>4. blamed'.located = TRUE
      BY <2>3, TokenPlace
    <2>5. blamed' # NoToken
      BY <2>4 DEF NoToken
    <2>. QED
      BY <2>2, <2>5 DEF Blames
  <1>9. CASE ParseAborts /\ UNCHANGED <<file, changed>>
    BY <1>9 DEF ParseAborts, MayLack, At, Blames, Shown
  <1>10. CASE TypesResolved /\ UNCHANGED <<file, changed>>
    BY <1>10 DEF TypesResolved, Forgetting, MayLack, At, Blames, Shown
  <1>11. CASE TypesRejected /\ UNCHANGED <<file, changed>>
    <2>1. "table" \in heap'
      BY <1>11 DEF TypesRejected, Forgetting
    <2>2. blamed'.length > 0 \/ blamed' = NoToken
      BY <1>11 DEF TypesRejected
    <2>. QED
      BY <2>1, <2>2 DEF Blames
  <1>12. CASE TypesCrash /\ UNCHANGED <<file, changed>>
    BY <1>12 DEF TypesCrash, GoWild, At, Blames, Shown
  <1>13. CASE ReportLocation /\ UNCHANGED <<file, changed>>
    <2>1. /\ UNCHANGED blamed /\ pc \in Shown
          /\ "table" \in heap' <=> "table" \in heap
      BY <1>13 DEF ReportLocation, GoWild, At, Shown
    <2>. QED
      BY <1>0, <2>1
  <1>14. CASE ReportMeasure /\ UNCHANGED <<file, changed>>
    <2>1. /\ UNCHANGED blamed /\ pc \in Shown
          /\ "table" \in heap' <=> "table" \in heap
      BY <1>14 DEF ReportMeasure, Measure, Allocate, At, Shown
    <2>. QED
      BY <1>0, <2>1
  <1>15. CASE ReportMeasureAgain /\ UNCHANGED <<file, changed>>
    <2>1. /\ UNCHANGED blamed /\ pc \in Shown
          /\ "table" \in heap' <=> "table" \in heap
      BY <1>15 DEF ReportMeasureAgain, MeasureAgain, At, Shown
    <2>. QED
      BY <1>0, <2>1
  <1>16. CASE ReportRead /\ UNCHANGED <<file, changed>>
    <2>1. /\ UNCHANGED blamed /\ pc \in Shown
          /\ "table" \in heap' <=> "table" \in heap
      BY <1>16 DEF ReportRead, Read, At, Shown
    <2>. QED
      BY <1>0, <2>1
  <1>17. CASE ReportWrite /\ UNCHANGED <<file, changed>>
    BY <1>17 DEF ReportWrite, GoWild, Free, ReportDone, At, Blames, Shown
  <1>18. CASE CleanupSymbolTable /\ UNCHANGED <<file, changed>>
    BY <1>18 DEF CleanupSymbolTable, Free, At, Blames, Shown
  <1>19. CASE CleanupParser /\ UNCHANGED <<file, changed>>
    BY <1>19 DEF CleanupParser, Free, At, Blames, Shown
  <1>20. CASE Edit
    BY <1>20 DEF Edit, Gone, Blames, Shown
  <1>21. CASE UNCHANGED vars
    BY <1>21 DEF vars, Blames, Shown
  <1>. QED
    BY <1>1, <1>2, <1>3, <1>4, <1>5, <1>6, <1>7, <1>8, <1>9, <1>10, <1>11, <1>12, <1>13,
       <1>14, <1>15, <1>16, <1>17, <1>18, <1>19, <1>20, <1>21 DEF Next, Main, Over

\* A reading writes past its block only when the file changes meanwhile.
LEMMA ReadingFits ==
    ASSUME Inv, NEW point, NEW block, Read(point, block), wild' = "overrun"
    PROVE  /\ point \in {"create again", "create read"} => "lexing" \in changed
           /\ point \in {"report again", "report read"} => "reporting" \in changed
  <1>1. /\ TypeOK /\ ReadingType
        /\ pc = point
        /\ Len(Content(block)) > reading.allotted
    BY DEF Read, At, Inv, TypeInv
  <1>2. Len(Content(block)) \in 0 .. Len(file) /\ Len(file) \in Nat
    BY <1>1, ContentRead, FileIsText
  <1>3. reading.allotted # Len(file)
    BY <1>1, <1>2
  <1>. QED
    BY <1>1, <1>3 DEF Inv, FileInv, LexedStays, ShownStays

\* The length of the token that is blamed is a number.
LEMMA BlamedLength ==
    ASSUME TypeInv
    PROVE  blamed.length \in Nat
  <1>1. CASE blamed = NoToken
    BY <1>1 DEF NoToken
  <1>2. CASE blamed \in Within(lexed, Tokens(lexed))
    <2>1. lexed \in Seq(Chars)
      BY DEF TypeInv, ReadingType
    <2>2. blamed.length \in 0 .. 2
      BY <1>2, <2>1, TokenPlace
    <2>. QED
      BY <2>2
  <1>. QED
    BY <1>1, <1>2 DEF TypeInv, BlamedKnown

\* A step without a memory error keeps what is said of them.
LEMMA TameStep ==
    ASSUME wild' = "no"
    PROVE  WildExplained'
  BY DEF WildExplained

LEMMA NextWildExplained ==
    Inv /\ Blames /\ WildExplained /\ [Next]_vars => WildExplained'
  <1>. SUFFICES ASSUME Inv, Blames, WildExplained, [Next]_vars PROVE WildExplained'
    OBVIOUS
  <1>0. refused = TRUE \/ refused = FALSE
    BY DEF Inv, TypeInv, TypeOK
  <1>1. CASE Usage /\ UNCHANGED <<file, changed>>
    BY <1>1, TameStep DEF Usage, At
  <1>2. CASE CreateMeasure /\ UNCHANGED <<file, changed>>
    BY <1>2, TameStep DEF CreateMeasure, Measure, Allocate, At
  <1>3. CASE CreateMeasureAgain /\ UNCHANGED <<file, changed>>
    BY <1>3, TameStep DEF CreateMeasureAgain, MeasureAgain, At
  <1>4. CASE CreateRead /\ UNCHANGED <<file, changed>>
    <2>1. Read("create read", "content") /\ UNCHANGED changed
      BY <1>4 DEF CreateRead
    <2>2. wild' = "overrun" => "lexing" \in changed
      BY <2>1, ReadingFits
    <2>3. wild' \in {"no", "overrun"}
      BY <2>1 DEF Read
    <2>. QED
      BY <2>1, <2>2, <2>3 DEF WildExplained
  <1>5. CASE OutOfMemory /\ UNCHANGED <<file, changed>>
    BY <1>5 DEF OutOfMemory, GoWild, At, WildExplained
  <1>6. CASE ParseNothing /\ UNCHANGED <<file, changed>>
    <2>1. /\ pc = "parse" /\ ~Lexing
          /\ wild' = "no cells"
          /\ UNCHANGED <<file, changed, refused>>
      BY <1>6 DEF ParseNothing, At, GoWild
    <2>2. refused = FALSE /\ changed = {} => file = <<>>
      BY <2>1 DEF Lexing, Inv, FileInv, LexedStays
    <2>. QED
      BY <2>1, <2>2, <1>0 DEF WildExplained
  <1>7. CASE ParseSucceeds /\ UNCHANGED <<file, changed>>
    BY <1>7, TameStep DEF ParseSucceeds, Forgetting, MayLack, At
  <1>8. CASE ParseFails /\ UNCHANGED <<file, changed>>
    BY <1>8, TameStep DEF ParseFails, Forgetting, MayLack, At
  <1>9. CASE ParseAborts /\ UNCHANGED <<file, changed>>
    BY <1>9, TameStep DEF ParseAborts, MayLack, At
  <1>10. CASE TypesResolved /\ UNCHANGED <<file, changed>>
    BY <1>10, TameStep DEF TypesResolved, Forgetting, MayLack, At
  <1>11. CASE TypesRejected /\ UNCHANGED <<file, changed>>
    BY <1>11, TameStep DEF TypesRejected, Forgetting, MayLack, At
  <1>12. CASE TypesCrash /\ UNCHANGED <<file, changed>>
    BY <1>12 DEF TypesCrash, GoWild, At, WildExplained
  <1>13. CASE ReportLocation /\ UNCHANGED <<file, changed>>
    <2>1. CASE blamed.located
      BY <1>13, <2>1, TameStep DEF ReportLocation, At
    <2>2. CASE ~blamed.located
      <3>1. pc = "report" /\ wild' = "no location" /\ UNCHANGED heap
        BY <1>13, <2>2 DEF ReportLocation, At, GoWild
      <3>2. blamed = NoToken
        BY <2>2, LocatedIfSet DEF Inv
      <3>. QED
        BY <3>1, <3>2 DEF Blames, Shown, WildExplained
    <2>. QED
      BY <2>1, <2>2
  <1>14. CASE ReportMeasure /\ UNCHANGED <<file, changed>>
    BY <1>14, TameStep DEF ReportMeasure, Measure, Allocate, At
  <1>15. CASE ReportMeasureAgain /\ UNCHANGED <<file, changed>>
    BY <1>15, TameStep DEF ReportMeasureAgain, MeasureAgain, At
  <1>16. CASE ReportRead /\ UNCHANGED <<file, changed>>
    <2>1. Read("report read", "line content") /\ UNCHANGED changed
      BY <1>16 DEF ReportRead
    <2>2. wild' = "overrun" => "reporting" \in changed
      BY <2>1, ReadingFits
    <2>3. wild' \in {"no", "overrun"}
      BY <2>1 DEF Read
    <2>. QED
      BY <2>1, <2>2, <2>3 DEF WildExplained
  <1>17. CASE ReportWrite /\ UNCHANGED <<file, changed>>
    <2>1. /\ pc = "report write"
          /\ UNCHANGED <<file, changed, blamed, refused>>
      BY <1>17 DEF ReportWrite, At, GoWild
    <2>2. CASE "context" \notin heap
      <3>1. wild' = "literal freed"
        BY <1>17, <2>2 DEF ReportWrite, GoWild
      <3>. QED
        BY <2>1, <2>2, <3>1, <1>0 DEF Inv, FileInv, ShownStays, WildExplained
    <2>3. CASE "context" \in heap /\ MarkerEnds(blamed)
      BY <1>17, <2>3, TameStep DEF ReportWrite
    <2>4. CASE "context" \in heap /\ ~MarkerEnds(blamed)
      <3>1. wild' = "no terminator" /\ heap' \subseteq heap
        BY <1>17, <2>4 DEF ReportWrite, Free
      <3>2. blamed.length = 0
        BY <2>4, BlamedLength DEF MarkerEnds, Inv
      <3>3. blamed.located
        BY <2>1 DEF Inv, TypeInv, BlamedKnown
      <3>4. blamed # NoToken
        BY <3>3, LocatedIfSet DEF Inv
      <3>5. ~(blamed.length > 0)
        BY <3>2
      <3>6. "table" \notin heap'
        BY <2>1, <3>1, <3>4, <3>5 DEF Blames, Shown
      <3>. QED
        BY <2>1, <3>1, <3>2, <3>6 DEF WildExplained
    <2>. QED
      BY <2>2, <2>3, <2>4
  <1>18. CASE CleanupSymbolTable /\ UNCHANGED <<file, changed>>
    BY <1>18, TameStep DEF CleanupSymbolTable, Free, At
  <1>19. CASE CleanupParser /\ UNCHANGED <<file, changed>>
    BY <1>19, TameStep DEF CleanupParser, Free, At
  <1>20. CASE Edit
    BY <1>20, TameStep DEF Edit, Gone
  <1>21. CASE UNCHANGED vars
    BY <1>21 DEF vars, WildExplained
  <1>. QED
    BY <1>1, <1>2, <1>3, <1>4, <1>5, <1>6, <1>7, <1>8, <1>9, <1>10, <1>11, <1>12, <1>13,
       <1>14, <1>15, <1>16, <1>17, <1>18, <1>19, <1>20, <1>21 DEF Next, Main, Over

LEMMA NextReportAligned ==
    Inv /\ ReportAligned /\ [Next]_vars => ReportAligned'
  <1>. SUFFICES ASSUME Inv, ReportAligned, [Next]_vars PROVE ReportAligned'
    OBVIOUS
  <1>0. Unprinted
    BY DEF Inv, FileInv
  <1>1. CASE Usage /\ UNCHANGED <<file, changed>>
    BY <1>1 DEF Usage, At, ReportAligned
  <1>2. CASE CreateMeasure /\ UNCHANGED <<file, changed>>
    BY <1>2 DEF CreateMeasure, Measure, Allocate, At, ReportAligned
  <1>3. CASE CreateMeasureAgain /\ UNCHANGED <<file, changed>>
    BY <1>3 DEF CreateMeasureAgain, MeasureAgain, At, ReportAligned
  <1>4. CASE CreateRead /\ UNCHANGED <<file, changed>>
    BY <1>4, <1>0 DEF CreateRead, Read, At, Unprinted, ReportAligned
  <1>5. CASE OutOfMemory /\ UNCHANGED <<file, changed>>
    BY <1>5 DEF OutOfMemory, GoWild, At, ReportAligned
  <1>6. CASE ParseNothing /\ UNCHANGED <<file, changed>>
    BY <1>6 DEF ParseNothing, GoWild, At, ReportAligned
  <1>7. CASE ParseSucceeds /\ UNCHANGED <<file, changed>>
    BY <1>7 DEF ParseSucceeds, Forgetting, MayLack, At, ReportAligned
  <1>8. CASE ParseFails /\ UNCHANGED <<file, changed>>
    BY <1>8, <1>0 DEF ParseFails, Forgetting, MayLack, At, Unprinted, ReportAligned
  <1>9. CASE ParseAborts /\ UNCHANGED <<file, changed>>
    BY <1>9 DEF ParseAborts, MayLack, At, ReportAligned
  <1>10. CASE TypesResolved /\ UNCHANGED <<file, changed>>
    BY <1>10 DEF TypesResolved, Forgetting, MayLack, At, ReportAligned
  <1>11. CASE TypesRejected /\ UNCHANGED <<file, changed>>
    BY <1>11, <1>0 DEF TypesRejected, Forgetting, MayLack, At, Unprinted, ReportAligned
  <1>12. CASE TypesCrash /\ UNCHANGED <<file, changed>>
    BY <1>12 DEF TypesCrash, GoWild, At, ReportAligned
  <1>13. CASE ReportLocation /\ UNCHANGED <<file, changed>>
    BY <1>13 DEF ReportLocation, GoWild, At, ReportAligned
  <1>14. CASE ReportMeasure /\ UNCHANGED <<file, changed>>
    BY <1>14 DEF ReportMeasure, Measure, Allocate, At, ReportAligned
  <1>15. CASE ReportMeasureAgain /\ UNCHANGED <<file, changed>>
    BY <1>15 DEF ReportMeasureAgain, MeasureAgain, At, ReportAligned
  <1>16. CASE ReportRead /\ UNCHANGED <<file, changed>>
    BY <1>16 DEF ReportRead, Read, At, ReportAligned
  <1>17. CASE ReportWrite /\ UNCHANGED <<file, changed>>
    <2>1. CASE "context" \notin heap
      BY <1>17, <2>1 DEF ReportWrite, GoWild, ReportAligned
    <2>2. CASE "context" \in heap
      <3>. SUFFICES ASSUME changed = {}
                    PROVE  Aligned(lexed, blamed, printed'.context, printed'.marker)
        BY <1>17, <2>2 DEF ReportWrite, ReportAligned, Aligned
      <3>0. /\ printed' = [context |-> LineOf(reading.text, blamed.row), marker |-> Marker(blamed)]
            /\ pc = "report write"
        BY <1>17, <2>2 DEF ReportWrite, At
      <3>1. /\ printed'.context = LineOf(reading.text, blamed.row)
            /\ printed'.marker = Marker(blamed)
            /\ pc = "report write"
        BY <3>0
      <3>2. reading.text = lexed
        BY <2>2, <3>1 DEF Inv, FileInv, ShownStays
      <3>3. blamed \in Within(lexed, Tokens(lexed)) /\ lexed \in Seq(Chars)
        <4>1. blamed.located
          BY <3>1 DEF Inv, TypeInv, BlamedKnown
        <4>2. blamed # NoToken
          BY <4>1 DEF NoToken
        <4>. QED
          BY <4>2 DEF Inv, TypeInv, ReadingType, BlamedKnown
      <3>. QED
        BY <3>1, <3>2, <3>3, TokenAligned
    <2>. QED
      BY <2>1, <2>2
  <1>18. CASE CleanupSymbolTable /\ UNCHANGED <<file, changed>>
    BY <1>18 DEF CleanupSymbolTable, Free, At, ReportAligned
  <1>19. CASE CleanupParser /\ UNCHANGED <<file, changed>>
    BY <1>19 DEF CleanupParser, Free, At, ReportAligned
  <1>20. CASE Edit
    <2>1. changed' = {} => changed = {}
      BY <1>20 DEF Edit
    <2>. QED
      BY <1>20, <2>1 DEF Edit, ReportAligned
  <1>21. CASE UNCHANGED vars
    BY <1>21 DEF vars, ReportAligned
  <1>. QED
    BY <1>1, <1>2, <1>3, <1>4, <1>5, <1>6, <1>7, <1>8, <1>9, <1>10, <1>11, <1>12, <1>13,
       <1>14, <1>15, <1>16, <1>17, <1>18, <1>19, <1>20, <1>21 DEF Next, Main, Over

\* Unless an allocation was refused: a reading writes past its block only when
\* the file changes while it is read, the lexer has no cells only for a file
\* without text, a literal is freed only when the file changed after it was read
\* for the lexer, a token without a location is blamed only by type resolution
\* and an empty one only by the parser.
THEOREM WildIsExplained == Spec => []WildExplained
  <1>1. Init => Blames /\ WildExplained
    BY DEF Init, Blames, Shown, WildExplained
  <1>. QED
    BY <1>1, NextBlames, NextWildExplained, InvHolds, PTL DEF Spec

\* On a file that nobody changes from when it is read for the lexer until it is
\* read for the report, the marker of a report stands under the token in the line
\* that is shown, whatever the text and wherever the token is.
THEOREM ReportsAreAligned == Spec => []ReportAligned
  <1>1. Init => ReportAligned
    BY DEF Init, ReportAligned
  <1>. QED
    BY <1>1, NextReportAligned, InvHolds, PTL DEF Spec
=============================================================================
