---------------------------- MODULE Lexer_proofs -----------------------------
(***************************************************************************)
(* Proofs about the lexer and its clients, and that it implements          *)
(* TokenCursor, for every text, every pair of bytes behind it, every peek  *)
(* buffer of two cells or more and every bound on the tokens a client      *)
(* holds.                                                                  *)
(***************************************************************************)
EXTENDS LexerCursor, FiniteSetTheorems, SequenceTheorems, TLAPS

\* A set of natural numbers that is not empty has a least element.
LEMMA LeastExists ==
    ASSUME NEW S, S \subseteq Nat, S # {}
    PROVE  /\ Min(S) \in S
           /\ \A y \in S : Min(S) <= y
  <1>1. \E x \in S : \A y \in S : ~ (<<y, x>> \in OpToRel(<, Nat))
    BY NatLessThanWellFounded, WFMin
  <1>2. PICK x \in S : \A y \in S : ~ (<<y, x>> \in OpToRel(<, Nat))
    BY <1>1
  <1>3. \A y \in S : ~ (y < x)
    BY <1>2 DEF OpToRel
  <1>4. \A y \in S : x <= y
    BY <1>3
  <1>. QED
    BY <1>4 DEF Min

-----------------------------------------------------------------------------
\* The loops of the scanner.

\* A loop that starts at lo stops at the first place of S up to hi, or behind
\* hi, and never before lo.
LEMMA StopsFirst ==
    ASSUME NEW lo \in Nat, NEW hi \in Nat, NEW S, S \subseteq lo .. hi
    PROVE  LET stop == Min(S \cup {Max({lo, hi + 1})})
           IN  /\ stop \in Nat /\ lo <= stop
               /\ stop <= hi + 1 \/ stop = lo
               /\ stop <= hi => stop \in S
               /\ \A i \in lo .. hi : i < stop => i \notin S
  <1>. DEFINE last == Max({lo, hi + 1})
              stop == Min(S \cup {last})
  <1>1. last \in {lo, hi + 1} /\ lo <= last /\ hi + 1 <= last
    BY DEF Max
  <1>. HIDE DEF last
  <1>2. stop \in S \cup {last} /\ \A y \in S \cup {last} : stop <= y
    <2>1. S \cup {last} \subseteq Nat
      BY <1>1
    <2>. QED
      BY <2>1, LeastExists
  <1>. HIDE DEF stop
  <1>3. stop \in Nat /\ lo <= stop
    BY <1>1, <1>2
  <1>4. stop <= hi + 1 \/ stop = lo
    BY <1>1, <1>2
  <1>5. stop <= hi => stop \in S
    BY <1>1, <1>2
  <1>6. \A i \in lo .. hi : i < stop => i \notin S
    BY <1>2, <1>3
  <1>. QED
    BY <1>3, <1>4, <1>5, <1>6 DEF stop, last

\* The memory the head can reach: a file of n characters and two bytes.
Memory(m, n) == n \in Nat /\ m \in Seq(STRING) /\ Len(m) = n + 2

\* trim_left passes over white space only.
LEMMA TrimLeft ==
    ASSUME NEW m, NEW n, Memory(m, n), NEW h \in 1 .. n + 2
    PROVE  /\ trim_left(m, n, h) \in h .. n + 2
           /\ \A k \in h .. trim_left(m, n, h) - 1 : m[k] \in Space
           /\ trim_left(m, n, h) <= n => m[trim_left(m, n, h)] \notin Space
           /\ trim_left(m, n, h) <= n + 1 \/ trim_left(m, n, h) = h
  <1>. DEFINE S == {i \in h .. n : m[i] \notin Space}
              p == trim_left(m, n, h)
  <1>1. n \in Nat /\ h \in Nat /\ S \subseteq h .. n
    BY DEF Memory
  <1>2. p = Min(S \cup {Max({h, n + 1})})
    BY DEF trim_left, StopAt
  <1>. HIDE DEF S, p
  <1>3. /\ p \in Nat /\ h <= p
        /\ p <= n + 1 \/ p = h
        /\ p <= n => p \in S
        /\ \A i \in h .. n : i < p => i \notin S
    BY <1>1, <1>2, StopsFirst
  <1>4. p \in h .. n + 2
    BY <1>1, <1>3
  <1>5. \A k \in h .. p - 1 : k \in h .. n /\ k < p
    BY <1>1, <1>3
  <1>6. \A k \in h .. p - 1 : m[k] \in Space
    BY <1>3, <1>5 DEF S
  <1>7. p <= n => m[p] \notin Space
    BY <1>3 DEF S
  <1>. QED
    BY <1>3, <1>4, <1>6, <1>7 DEF p

-----------------------------------------------------------------------------
\* What the scanner finds.

\* A lexeme of a known type from p up to somewhere in memory, or nothing when
\* the assertion of skip_char failed.
Found(s, n, p) ==
    /\ s.has_error \in BOOLEAN /\ s.asserts \in BOOLEAN
    /\ s.type \in TokenTypes /\ s.from = p /\ s.next \in p .. n + 2

LEMMA LexemeFound ==
    ASSUME NEW n \in Nat, NEW p \in Nat, NEW q \in p .. n + 2, NEW type \in TokenTypes
    PROVE  Found(Lexeme(type, p, q), n, p)
  BY DEF Found, Lexeme

LEMMA BrokenFound ==
    ASSUME NEW n \in Nat, NEW p \in Nat, NEW q \in p .. n + 2
    PROVE  Found(Broken(p, q), n, p)
  BY DEF Found, Lexeme, Broken, TokenTypes

LEMMA AssertsFound ==
    ASSUME NEW n \in Nat, NEW p \in Nat, p <= n + 2
    PROVE  Found(Asserts(p), n, p)
  BY DEF Found, Lexeme, Asserts, TokenTypes

KeywordTypes == {Keywords[i] : i \in DOMAIN Keywords}

LEMMA KeywordOrName ==
    ASSUME NEW text
    PROVE  check_for_keyword(text) \in {"IDENTIFIER"} \cup KeywordTypes
  <1>. DEFINE hits == {i \in DOMAIN Keywords : /\ Len(text) <= Len(Spelling[i])
                                               /\ text = SubSeq(Spelling[i], 1, Len(text))}
  <1>1. check_for_keyword(text) = IF hits = {} THEN "IDENTIFIER" ELSE Keywords[Min(hits)]
    BY DEF check_for_keyword
  <1>2. hits \subseteq DOMAIN Keywords /\ DOMAIN Keywords \subseteq Nat
    BY DEF Keywords
  <1>. HIDE DEF hits
  <1>3. CASE hits = {}
    BY <1>1, <1>3
  <1>4. CASE hits # {}
    <2>1. Min(hits) \in DOMAIN Keywords
      BY <1>2, <1>4, LeastExists
    <2>2. Keywords[Min(hits)] \in KeywordTypes
      BY <2>1 DEF KeywordTypes
    <2>. QED
      BY <1>1, <1>4, <2>2
  <1>. QED
    BY <1>3, <1>4

LEMMA KeywordType == ASSUME NEW text PROVE check_for_keyword(text) \in TokenTypes
  BY KeywordOrName DEF TokenTypes, KeywordTypes

LEMMA IdentifierFound ==
    ASSUME NEW m, NEW n \in Nat, NEW p \in 1 .. n
    PROVE  Found(ScanIdentifier(m, n, p), n, p)
  <1>. DEFINE S == {i \in p + 1 .. n + 1 : m[i] \notin Letter \cup Digit}
              e == Min(S \cup {Max({p + 1, (n + 1) + 1})})
  <1>1. ScanIdentifier(m, n, p) =
           IF e > n + 1 THEN Asserts(p)
           ELSE Lexeme(check_for_keyword(SubSeq(m, p, e - 1)), p, e)
    BY DEF ScanIdentifier, StopAt
  <1>2. S \subseteq p + 1 .. n + 1 /\ p + 1 \in Nat /\ n + 1 \in Nat
    OBVIOUS
  <1>. HIDE DEF S
  <1>3. e \in Nat /\ p + 1 <= e
    BY <1>2, StopsFirst
  <1>. HIDE DEF e
  <1>4. e <= n + 1 => e \in p .. n + 2
    BY <1>3
  <1>5. Found(Asserts(p), n, p)
    BY AssertsFound
  <1>6. e <= n + 1 => Found(Lexeme(check_for_keyword(SubSeq(m, p, e - 1)), p, e), n, p)
    BY <1>4, KeywordType, LexemeFound
  <1>7. e > n + 1 \/ e <= n + 1
    BY <1>3
  <1>. QED
    BY <1>1, <1>5, <1>6, <1>7

LEMMA NumberFound ==
    ASSUME NEW m, NEW n \in Nat, NEW p \in 1 .. n
    PROVE  Found(ScanNumber(m, n, p), n, p)
  <1>. DEFINE S == {i \in p + 1 .. n + 1 : m[i] \notin Digit}
              e == Min(S \cup {Max({p + 1, (n + 1) + 1})})
              T == {i \in e + 1 .. n + 1 : m[i] \notin Digit}
              f == Min(T \cup {Max({e + 1, (n + 1) + 1})})
              point == e <= n + 1 /\ m[e] = "." /\ m[e + 1] \in Digit
  <1>1. ScanNumber(m, n, p) =
           IF e > n + 1 \/ (point /\ (e > n \/ f > n + 1)) THEN Asserts(p)
           ELSE IF point THEN Lexeme("FLOAT_LITERAL", p, f)
           ELSE Lexeme("INTEGER_LITERAL", p, e)
    BY DEF ScanNumber, StopAt
  <1>2. /\ S \subseteq p + 1 .. n + 1 /\ T \subseteq e + 1 .. n + 1
        /\ p + 1 \in Nat /\ n + 1 \in Nat
    OBVIOUS
  <1>. HIDE DEF S, T, point
  <1>3. e \in Nat /\ p + 1 <= e
    BY <1>2, StopsFirst
  <1>. HIDE DEF e
  <1>4. f \in Nat /\ e + 1 <= f
    <2>1. e + 1 \in Nat
      BY <1>3
    <2>. QED
      BY <1>2, <2>1, StopsFirst
  <1>. HIDE DEF f
  <1>5. /\ ~ (e > n + 1) => e \in p .. n + 2
        /\ ~ (f > n + 1) => f \in p .. n + 2
    BY <1>3, <1>4
  <1>6. Found(Asserts(p), n, p)
    BY AssertsFound
  <1>7. "FLOAT_LITERAL" \in TokenTypes /\ "INTEGER_LITERAL" \in TokenTypes
    BY DEF TokenTypes
  <1>8. ~ (f > n + 1) => Found(Lexeme("FLOAT_LITERAL", p, f), n, p)
    BY <1>5, <1>7, LexemeFound
  <1>9. ~ (e > n + 1) => Found(Lexeme("INTEGER_LITERAL", p, e), n, p)
    BY <1>5, <1>7, LexemeFound
  <1>. QED
    BY <1>1, <1>6, <1>8, <1>9

LEMMA StringFound ==
    ASSUME NEW m, NEW n \in Nat, NEW p \in 1 .. n
    PROVE  Found(ScanString(m, n, p), n, p)
  <1>. DEFINE S == {i \in p + 1 .. n : m[i] = "quote"}
              q == Min(S \cup {Max({p + 1, n + 1})})
  <1>1. ScanString(m, n, p) = IF q > n THEN Broken(p, q) ELSE Lexeme("STRING_LITERAL", p, q + 1)
    BY DEF ScanString, StopAt
  <1>2. S \subseteq p + 1 .. n /\ p + 1 \in Nat
    OBVIOUS
  <1>. HIDE DEF S
  <1>3. q \in Nat /\ p + 1 <= q /\ (q <= n + 1 \/ q = p + 1)
    BY <1>2, StopsFirst
  <1>. HIDE DEF q
  <1>4. q \in p .. n + 2 /\ (~ (q > n) => q + 1 \in p .. n + 2)
    BY <1>3
  <1>5. "STRING_LITERAL" \in TokenTypes
    BY DEF TokenTypes
  <1>. QED
    BY <1>1, <1>4, <1>5, BrokenFound, LexemeFound

LEMMA LineCommentFound ==
    ASSUME NEW m, NEW n \in Nat, NEW p \in 1 .. n
    PROVE  Found(ScanLineComment(m, n, p), n, p)
  <1>. DEFINE S == {i \in p + 2 .. n : m[i] = "\n"}
              q == Min(S \cup {Max({p + 2, n + 1})})
  <1>1. ScanLineComment(m, n, p) = Lexeme("LINE_COMMENT", p, q)
    BY DEF ScanLineComment, StopAt
  <1>2. S \subseteq p + 2 .. n /\ p + 2 \in Nat
    OBVIOUS
  <1>. HIDE DEF S
  <1>3. q \in Nat /\ p + 2 <= q /\ (q <= n + 1 \/ q = p + 2)
    BY <1>2, StopsFirst
  <1>. HIDE DEF q
  <1>4. q \in p .. n + 2
    BY <1>3
  <1>5. "LINE_COMMENT" \in TokenTypes
    BY DEF TokenTypes
  <1>. QED
    BY <1>1, <1>4, <1>5, LexemeFound

LEMMA BlockCommentFound ==
    ASSUME NEW m, NEW n \in Nat, NEW p \in 1 .. n
    PROVE  Found(ScanBlockComment(m, n, p), n, p)
  <1>. DEFINE S == {i \in p + 2 .. n : m[i] = "*" /\ m[i + 1] = "/"}
              q == Min(S \cup {Max({p + 2, n + 1})})
  <1>1. ScanBlockComment(m, n, p) = IF q > n THEN Broken(p, q)
                                    ELSE Lexeme("BLOCK_COMMENT", p, q + 2)
    BY DEF ScanBlockComment, StopAt
  <1>2. S \subseteq p + 2 .. n /\ p + 2 \in Nat
    OBVIOUS
  <1>. HIDE DEF S
  <1>3. q \in Nat /\ p + 2 <= q /\ (q <= n + 1 \/ q = p + 2)
    BY <1>2, StopsFirst
  <1>. HIDE DEF q
  <1>4. q \in p .. n + 2 /\ (~ (q > n) => q + 2 \in p .. n + 2)
    BY <1>3
  <1>5. "BLOCK_COMMENT" \in TokenTypes
    BY DEF TokenTypes
  <1>. QED
    BY <1>1, <1>4, <1>5, BrokenFound, LexemeFound

LEMMA PunctuationFound ==
    ASSUME NEW m, NEW n \in Nat, NEW p \in 1 .. n, m[p] \in Punctuation
    PROVE  Found(ScanPunctuation(m, n, p), n, p)
  <1>1. "ARROW" \in TokenTypes /\ m[p] \in TokenTypes
    BY DEF TokenTypes
  <1>2. p + 1 \in p .. n + 2 /\ p + 2 \in p .. n + 2 /\ p <= n + 2
    OBVIOUS
  <1>. QED
    BY <1>1, <1>2, AssertsFound, LexemeFound DEF ScanPunctuation

LEMMA ScanFound ==
    ASSUME NEW m, NEW n \in Nat, NEW p \in 1 .. n + 2
    PROVE  Found(Scan(m, n, p), n, p)
  <1>1. "EOF" \in TokenTypes /\ "INVALID" \in TokenTypes
    BY DEF TokenTypes
  <1>2. p \in p .. n + 2
    OBVIOUS
  <1>3. Found(Lexeme("EOF", p, p), n, p) /\ Found(Lexeme("INVALID", p, p), n, p)
    BY <1>1, <1>2, LexemeFound
  <1>4. CASE p > n
    BY <1>3, <1>4 DEF Scan
  <1>5. CASE ~ (p > n)
    <2>1. p \in 1 .. n
      BY <1>5
    <2>. QED
      BY <1>3, <1>5, <2>1, IdentifierFound, NumberFound, StringFound, LineCommentFound,
         BlockCommentFound, PunctuationFound DEF Scan
  <1>. QED
    BY <1>4, <1>5

-----------------------------------------------------------------------------
\* The longest lexeme.

\* The token types are told apart.
LEMMA TypesApart ==
    /\ KeywordTypes = {"FOR", "WHILE", "DO", "IF", "ELSE", "NULL", "CALL"}
    /\ \A type \in Punctuation :
          /\ type \notin KeywordTypes
          /\ type \notin {"INVALID", "EOF", "IDENTIFIER", "INTEGER_LITERAL", "FLOAT_LITERAL",
                          "STRING_LITERAL", "LINE_COMMENT", "BLOCK_COMMENT", "ARROW"}
  <1>1. KeywordTypes = {"FOR", "WHILE", "DO", "IF", "ELSE", "NULL", "CALL"}
    BY DEF KeywordTypes, Keywords
  <1>. QED
    BY <1>1 DEF Punctuation

\* The characters are told apart.
LEMMA CharactersApart ==
    /\ Letter \cap Digit = {}
    /\ \A c \in {"quote", "/", "-", ".", "*", "\n"} : c \notin Letter \cup Digit
    /\ \A c \in Digit : c \notin Punctuation
    /\ {"quote", "/", "-"} \subseteq Punctuation
    /\ \A c \in Space : c \notin Letter \cup Digit \cup Punctuation
  BY DEF Letter, Digit, Punctuation, Space

\* The first character of a lexeme tells what it can be.
LEMMA LexemeFirst ==
    ASSUME NEW s \in Seq(STRING), IsLexeme(s)
    PROVE  \/ s[1] \in Letter /\ IsIdentifier(s)
           \/ s[1] \in Digit /\ (IsDigits(s) \/ IsFloat(s))
           \/ s[1] = "quote" /\ IsString(s)
           \/ s[1] = "/" /\ s[2] = "/" /\ IsLineComment(s)
           \/ s[1] = "/" /\ s[2] = "*" /\ IsBlockComment(s)
           \/ s[1] = "-" /\ s[2] = ">" /\ Len(s) = 2
           \/ Len(s) = 1 /\ IsPunctuation(s) /\ s[1] \in Punctuation \ {"quote"}
  <1>1. CASE IsIdentifier(s)
    BY <1>1 DEF IsIdentifier
  <1>2. CASE IsDigits(s)
    <2>1. Len(s) \in Nat \ {0} /\ DOMAIN s = 1 .. Len(s)
      BY <1>2, EmptySeq DEF IsDigits
    <2>2. 1 \in DOMAIN s
      BY <2>1
    <2>. QED
      BY <1>2, <2>2 DEF IsDigits
  <1>3. CASE IsFloat(s)
    <2>1. PICK k \in DOMAIN s : s[k] = "." /\ IsDigits(SubSeq(s, 1, k - 1))
      BY <1>3 DEF IsFloat
    <2>2. Len(s) \in Nat /\ DOMAIN s = 1 .. Len(s) /\ k \in 1 .. Len(s)
      BY <2>1
    <2>. DEFINE u == SubSeq(s, 1, k - 1)
    <2>3. \A i \in 1 .. k - 1 : s[i] \in STRING
      BY <2>2
    <2>4. u \in Seq(STRING) /\ \A i \in 1 .. k - 1 : u[i] = s[i] /\ Len(u) = k - 1
      <3>1. /\ u \in Seq(STRING)
            /\ Len(u) = IF 1 <= k - 1 THEN (k - 1) - 1 + 1 ELSE 0
            /\ \A i \in 1 .. (k - 1) - 1 + 1 : u[i] = s[1 + i - 1]
        BY <2>2, <2>3, SubSeqProperties
      <3>. HIDE DEF u
      <3>. QED
        BY <2>2, <3>1
    <2>. HIDE DEF u
    <2>5. u # <<>> /\ \A i \in DOMAIN u : u[i] \in Digit
      BY <2>1 DEF IsDigits, u
    <2>6. Len(u) \in Nat \ {0} /\ DOMAIN u = 1 .. Len(u)
      BY <2>4, <2>5, EmptySeq
    <2>7. 1 \in DOMAIN u /\ (k # 1 => 1 \in 1 .. k - 1)
      BY <2>2, <2>6
    <2>8. CASE k = 1
      <3>1. u = <<>>
        BY <2>8 DEF u
      <3>. QED
        BY <2>5, <3>1
    <2>9. CASE k # 1
      BY <1>3, <2>4, <2>5, <2>7, <2>9
    <2>. QED
      BY <2>8, <2>9
  <1>4. CASE IsString(s)
    <2>1. s[1] = "quote"
      BY <1>4 DEF IsString
    <2>. QED
      BY <1>4, <2>1
  <1>5. CASE IsLineComment(s)
    BY <1>5 DEF IsLineComment
  <1>6. CASE IsBlockComment(s)
    BY <1>6 DEF IsBlockComment
  <1>7. CASE IsArrow(s)
    BY <1>7 DEF IsArrow
  <1>8. CASE IsPunctuation(s)
    BY <1>8 DEF IsPunctuation
  <1>. QED
    BY <1>1, <1>2, <1>3, <1>4, <1>5, <1>6, <1>7, <1>8 DEF IsLexeme

\* The characters of a stretch of the memory.
LEMMA Stretch ==
    ASSUME NEW m, NEW n, Memory(m, n), NEW p \in 1 .. n, NEW e \in p .. n + 2
    PROVE  LET s == SubSeq(m, p, e)
           IN  /\ s \in Seq(STRING) /\ Len(s) = e - p + 1 /\ DOMAIN s = 1 .. e - p + 1
               /\ \A i \in 1 .. e - p + 1 : s[i] = m[p + i - 1]
               /\ \A k \in p .. e : k - p + 1 \in DOMAIN s /\ s[k - p + 1] = m[k]
               /\ s[1] = m[p] /\ (e > p => s[2] = m[p + 1])
  <1>. DEFINE s == SubSeq(m, p, e)
  <1>1. n \in Nat /\ m \in Seq(STRING) /\ Len(m) = n + 2
    BY DEF Memory
  <1>2. p \in Int /\ e \in Int /\ p <= e /\ e <= n + 2 /\ 1 <= p
    BY <1>1
  <1>3. \A i \in p .. e : m[i] \in STRING
    BY <1>1
  <1>4. /\ s \in Seq(STRING)
        /\ Len(s) = IF p <= e THEN e - p + 1 ELSE 0
        /\ \A i \in 1 .. e - p + 1 : s[i] = m[p + i - 1]
    BY <1>2, <1>3, SubSeqProperties
  <1>. HIDE DEF s
  <1>5. Len(s) = e - p + 1 /\ DOMAIN s = 1 .. e - p + 1
    BY <1>2, <1>4
  <1>6. \A k \in p .. e : k - p + 1 \in 1 .. e - p + 1 /\ p + (k - p + 1) - 1 = k
    BY <1>2
  <1>7. \A k \in p .. e : k - p + 1 \in DOMAIN s /\ s[k - p + 1] = m[k]
    BY <1>4, <1>5, <1>6
  <1>8. /\ 1 \in 1 .. e - p + 1 /\ p + 1 - 1 = p
        /\ e > p => 2 \in 1 .. e - p + 1 /\ p + 2 - 1 = p + 1
    BY <1>2
  <1>9. s[1] = m[p] /\ (e > p => s[2] = m[p + 1])
    BY <1>4, <1>8
  <1>. QED
    BY <1>4, <1>5, <1>7, <1>9 DEF s

\* What LongestMatch says of a token of the type over the characters from p up
\* to q.
Longest(type, p, q, m, n) ==
    /\ type = "EOF" => p > n
    /\ type = "INVALID" =>
         \A e \in p .. n : IsLexeme(SubSeq(m, p, e)) => q > p /\ IsPunctuation(SubSeq(m, p, e))
    /\ type \notin {"EOF", "INVALID"} =>
         /\ IsOfType(SubSeq(m, p, q - 1), type)
         /\ \A e \in q .. n : ~ IsLexeme(SubSeq(m, p, e))

LEMMA NameIsOfType ==
    ASSUME NEW s, IsIdentifier(s), NEW type \in {"IDENTIFIER"} \cup KeywordTypes
    PROVE  IsOfType(s, type) /\ type \notin {"EOF", "INVALID"}
  BY TypesApart DEF IsOfType

\* What IsOfType asks of the other types.
LEMMA OfTypes ==
    ASSUME NEW s
    PROVE  /\ IsDigits(s)       => IsOfType(s, "INTEGER_LITERAL")
           /\ IsFloat(s)        => IsOfType(s, "FLOAT_LITERAL")
           /\ IsString(s)       => IsOfType(s, "STRING_LITERAL")
           /\ IsLineComment(s)  => IsOfType(s, "LINE_COMMENT")
           /\ IsBlockComment(s) => IsOfType(s, "BLOCK_COMMENT")
           /\ IsArrow(s)        => IsOfType(s, "ARROW")
           /\ \A c \in Punctuation : s = <<c>> => IsOfType(s, c)
  <1>1. {Keywords[i] : i \in DOMAIN Keywords} = {"FOR", "WHILE", "DO", "IF", "ELSE", "NULL", "CALL"}
    BY TypesApart DEF KeywordTypes
  <1>2. \A type \in {"INTEGER_LITERAL", "FLOAT_LITERAL", "STRING_LITERAL", "LINE_COMMENT",
                     "BLOCK_COMMENT", "ARROW"} :
           /\ type \notin Punctuation
           /\ type \notin {"IDENTIFIER"} \cup {Keywords[i] : i \in DOMAIN Keywords}
    BY <1>1, TypesApart
  <1>3. \A c \in Punctuation : c \notin {"IDENTIFIER"} \cup {Keywords[i] : i \in DOMAIN Keywords}
    BY <1>1, TypesApart
  <1>. QED
    BY <1>2, <1>3, TypesApart DEF IsOfType

LEMMA IdentifierLongest ==
    ASSUME NEW m, NEW n, Memory(m, n), NEW p \in 1 .. n, m[p] \in Letter
    PROVE  LET s == ScanIdentifier(m, n, p)
           IN  ~ s.asserts => Longest(s.type, p, s.next, m, n)
  <1>. DEFINE S == {i \in p + 1 .. n + 1 : m[i] \notin Letter \cup Digit}
              q == Min(S \cup {Max({p + 1, (n + 1) + 1})})
              type == check_for_keyword(SubSeq(m, p, q - 1))
  <1>1. ScanIdentifier(m, n, p) = IF q > n + 1 THEN Asserts(p) ELSE Lexeme(type, p, q)
    BY DEF ScanIdentifier, StopAt
  <1>2. n \in Nat /\ p \in Nat
    BY DEF Memory
  <1>3. S \subseteq p + 1 .. n + 1 /\ p + 1 \in Nat /\ n + 1 \in Nat
    BY <1>2
  <1>4. \A i : i \in S <=> i \in p + 1 .. n + 1 /\ m[i] \notin Letter \cup Digit
    OBVIOUS
  <1>. HIDE DEF S
  <1>5. /\ q \in Nat /\ p + 1 <= q /\ (q <= n + 1 => q \in S)
        /\ \A i \in p + 1 .. n + 1 : i < q => i \notin S
    BY <1>3, StopsFirst
  <1>6. type \in {"IDENTIFIER"} \cup KeywordTypes
    BY KeywordOrName
  <1>. HIDE DEF q, type
  <1>. SUFFICES ASSUME q <= n + 1 PROVE Longest(type, p, q, m, n)
    BY <1>1, <1>5, <1>2 DEF Lexeme, Asserts
  <1>7. m[q] \notin Letter \cup Digit /\ \A i \in p .. q - 1 : m[i] \in Letter \cup Digit
    BY <1>2, <1>4, <1>5
  <1>8. IsIdentifier(SubSeq(m, p, q - 1))
    <2>. DEFINE s == SubSeq(m, p, q - 1)
    <2>1. q - 1 \in p .. n + 2
      BY <1>2, <1>5
    <2>2. /\ s \in Seq(STRING) /\ Len(s) = (q - 1) - p + 1 /\ DOMAIN s = 1 .. (q - 1) - p + 1
          /\ \A i \in 1 .. (q - 1) - p + 1 : s[i] = m[p + i - 1]
          /\ s[1] = m[p]
      BY <2>1, Stretch
    <2>. HIDE DEF s
    <2>3. \A i \in DOMAIN s : p + i - 1 \in p .. q - 1
      BY <1>2, <1>5, <2>2
    <2>4. s # <<>>
      BY <1>2, <1>5, <2>2
    <2>. QED
      BY <1>7, <2>2, <2>3, <2>4 DEF IsIdentifier, s
  <1>9. ASSUME NEW e \in q .. n
        PROVE  ~ IsLexeme(SubSeq(m, p, e))
    <2>. DEFINE s == SubSeq(m, p, e)
    <2>1. e \in p .. n + 2 /\ q \in p .. e
      BY <1>2, <1>5
    <2>2. /\ s \in Seq(STRING) /\ Len(s) = e - p + 1
          /\ q - p + 1 \in DOMAIN s /\ s[q - p + 1] = m[q]
          /\ s[1] = m[p]
      BY <2>1, Stretch
    <2>. HIDE DEF s
    <2>3. ~ IsIdentifier(s)
      BY <1>7, <2>2 DEF IsIdentifier
    <2>4. Len(s) # 1
      BY <1>2, <1>5, <2>1, <2>2
    <2>. QED
      BY <2>2, <2>3, <2>4, LexemeFirst, CharactersApart DEF s
  <1>. QED
    BY <1>6, <1>8, <1>9, NameIsOfType DEF Longest

\* A part of a text is digits.
LEMMA DigitsPart ==
    ASSUME NEW s \in Seq(STRING), NEW a \in 1 .. Len(s) + 1, NEW b \in 0 .. Len(s)
    PROVE  IsDigits(SubSeq(s, a, b)) <=> a <= b /\ \A i \in a .. b : s[i] \in Digit
  <1>. DEFINE u == SubSeq(s, a, b)
  <1>1. Len(s) \in Nat /\ a \in Int /\ b \in Int /\ 1 <= a /\ b <= Len(s)
    OBVIOUS
  <1>2. \A i \in a .. b : s[i] \in STRING
    BY <1>1
  <1>3. /\ u \in Seq(STRING)
        /\ Len(u) = IF a <= b THEN b - a + 1 ELSE 0
        /\ \A i \in 1 .. b - a + 1 : u[i] = s[a + i - 1]
    BY <1>1, <1>2, SubSeqProperties
  <1>. HIDE DEF u
  <1>4. CASE a <= b
    <2>1. DOMAIN u = 1 .. b - a + 1 /\ u # <<>>
      BY <1>1, <1>3, <1>4
    <2>2. /\ \A i \in 1 .. b - a + 1 : a + i - 1 \in a .. b
          /\ \A i \in a .. b : i - a + 1 \in 1 .. b - a + 1 /\ a + (i - a + 1) - 1 = i
      BY <1>1
    <2>3. (\A i \in DOMAIN u : u[i] \in Digit) <=> \A i \in a .. b : s[i] \in Digit
      BY <1>3, <2>1, <2>2
    <2>. QED
      BY <1>4, <2>1, <2>3 DEF IsDigits, u
  <1>5. CASE ~ (a <= b)
    <2>1. u = <<>>
      BY <1>3, <1>5, EmptySeq
    <2>. QED
      BY <1>5, <2>1 DEF IsDigits, u
  <1>. QED
    BY <1>4, <1>5

LEMMA DigitsStretch ==
    ASSUME NEW m, NEW n, Memory(m, n), NEW p \in 1 .. n, NEW e \in p .. n + 2
    PROVE  IsDigits(SubSeq(m, p, e)) <=> \A i \in p .. e : m[i] \in Digit
  <1>1. /\ n \in Nat /\ m \in Seq(STRING) /\ Len(m) = n + 2
        /\ p \in 1 .. Len(m) + 1 /\ e \in 0 .. Len(m) /\ p <= e
    BY DEF Memory
  <1>. QED
    BY <1>1, DigitsPart

LEMMA FloatStretch ==
    ASSUME NEW m, NEW n, Memory(m, n), NEW p \in 1 .. n, NEW e \in p .. n + 2
    PROVE  IsFloat(SubSeq(m, p, e)) <=>
             \E k \in p + 1 .. e - 1 : /\ m[k] = "."
                                       /\ \A i \in p .. k - 1 : m[i] \in Digit
                                       /\ \A i \in k + 1 .. e : m[i] \in Digit
  <1>. DEFINE s == SubSeq(m, p, e)
  <1>1. /\ s \in Seq(STRING) /\ Len(s) = e - p + 1 /\ DOMAIN s = 1 .. e - p + 1
        /\ \A i \in 1 .. e - p + 1 : s[i] = m[p + i - 1]
    BY Stretch, SMTT(30)
  <1>2. n \in Nat /\ p \in Nat /\ e \in Nat /\ p <= e
    BY DEF Memory
  <1>. HIDE DEF s
  <1>3. ASSUME NEW k \in DOMAIN s
        PROVE  /\ IsDigits(SubSeq(s, 1, k - 1)) <=>
                     1 <= k - 1 /\ \A i \in p .. p + k - 2 : m[i] \in Digit
               /\ IsDigits(SubSeq(s, k + 1, Len(s))) <=>
                     k + 1 <= Len(s) /\ \A i \in p + k .. e : m[i] \in Digit
    <2>1. k \in 1 .. e - p + 1 /\ k - 1 \in 0 .. Len(s) /\ k + 1 \in 1 .. Len(s) + 1
          /\ 1 \in 1 .. Len(s) + 1 /\ Len(s) \in 0 .. Len(s)
      BY <1>1, <1>2
    <2>2. (\A i \in 1 .. k - 1 : s[i] \in Digit) <=> \A i \in p .. p + k - 2 : m[i] \in Digit
      <3>1. \A i \in 1 .. k - 1 : i \in 1 .. e - p + 1 /\ p + i - 1 \in p .. p + k - 2
        BY <1>2, <2>1, SMTT(30)
      <3>2. \A i \in p .. p + k - 2 : /\ i - p + 1 \in 1 .. k - 1
                                     /\ i - p + 1 \in 1 .. e - p + 1
                                     /\ p + (i - p + 1) - 1 = i
        BY <1>2, <2>1, SMTT(30)
      <3>. QED
        BY <1>1, <3>1, <3>2
    <2>3. (\A i \in k + 1 .. Len(s) : s[i] \in Digit) <=> \A i \in p + k .. e : m[i] \in Digit
      <3>1. \A i \in k + 1 .. e - p + 1 : i \in 1 .. e - p + 1 /\ p + i - 1 \in p + k .. e
        BY <1>2, <2>1
      <3>2. \A i \in p + k .. e : /\ i - p + 1 \in k + 1 .. e - p + 1
                                  /\ i - p + 1 \in 1 .. e - p + 1
                                  /\ p + (i - p + 1) - 1 = i
        BY <1>2, <2>1, SMTT(30)
      <3>. QED
        BY <1>1, <3>1, <3>2
    <2>. QED
      BY <1>1, <2>1, <2>2, <2>3, DigitsPart
  <1>4. ASSUME IsFloat(s)
        PROVE  \E k \in p + 1 .. e - 1 : /\ m[k] = "."
                                         /\ \A i \in p .. k - 1 : m[i] \in Digit
                                         /\ \A i \in k + 1 .. e : m[i] \in Digit
    <2>1. PICK j \in DOMAIN s : /\ s[j] = "." /\ IsDigits(SubSeq(s, 1, j - 1))
                                /\ IsDigits(SubSeq(s, j + 1, Len(s)))
      BY <1>4 DEF IsFloat
    <2>. DEFINE k == p + j - 1
    <2>2. /\ 1 <= j - 1 /\ \A i \in p .. p + j - 2 : m[i] \in Digit
          /\ j + 1 <= Len(s) /\ \A i \in p + j .. e : m[i] \in Digit
      BY <1>3, <2>1
    <2>3. j \in 1 .. e - p + 1 /\ k \in p + 1 .. e - 1 /\ k - 1 = p + j - 2 /\ k + 1 = p + j
      <3>1. j \in 1 .. e - p + 1 /\ 1 <= j - 1 /\ j + 1 <= e - p + 1
        BY <1>1, <2>2
      <3>. QED
        BY <1>2, <3>1
    <2>4. m[k] = "."
      BY <1>1, <2>1, <2>3
    <2>. HIDE DEF k
    <2>. QED
      BY <2>2, <2>3, <2>4
  <1>5. ASSUME NEW k \in p + 1 .. e - 1, m[k] = ".",
               \A i \in p .. k - 1 : m[i] \in Digit,
               \A i \in k + 1 .. e : m[i] \in Digit
        PROVE  IsFloat(s)
    <2>. DEFINE j == k - p + 1
    <2>1. /\ j \in 1 .. e - p + 1 /\ p + j - 1 = k /\ p + j - 2 = k - 1 /\ p + j = k + 1
          /\ 1 <= j - 1 /\ j + 1 <= e - p + 1
      BY <1>2
    <2>2. s[j] = "."
      BY <1>1, <1>5, <2>1
    <2>. HIDE DEF j
    <2>3. IsDigits(SubSeq(s, 1, j - 1)) /\ IsDigits(SubSeq(s, j + 1, Len(s)))
      BY <1>1, <1>3, <1>5, <2>1
    <2>. QED
      BY <1>1, <2>1, <2>2, <2>3 DEF IsFloat
  <1>. QED
    BY <1>4, <1>5 DEF s

LEMMA NumberLongest ==
    ASSUME NEW m, NEW n, Memory(m, n), NEW p \in 1 .. n, m[p] \in Digit
    PROVE  LET s == ScanNumber(m, n, p)
           IN  ~ s.asserts => Longest(s.type, p, s.next, m, n)
  <1>. DEFINE S == {i \in p + 1 .. n + 1 : m[i] \notin Digit}
              q == Min(S \cup {Max({p + 1, (n + 1) + 1})})
              T == {i \in q + 1 .. n + 1 : m[i] \notin Digit}
              f == Min(T \cup {Max({q + 1, (n + 1) + 1})})
              point == q <= n + 1 /\ m[q] = "." /\ m[q + 1] \in Digit
  <1>1. ScanNumber(m, n, p) =
           IF q > n + 1 \/ (point /\ (q > n \/ f > n + 1)) THEN Asserts(p)
           ELSE IF point THEN Lexeme("FLOAT_LITERAL", p, f)
           ELSE Lexeme("INTEGER_LITERAL", p, q)
    BY DEF ScanNumber, StopAt
  <1>2. n \in Nat /\ p \in Nat
    BY DEF Memory
  <1>3. /\ S \subseteq p + 1 .. n + 1 /\ p + 1 \in Nat /\ n + 1 \in Nat
        /\ T \subseteq q + 1 .. n + 1
        /\ \A i : i \in S <=> i \in p + 1 .. n + 1 /\ m[i] \notin Digit
        /\ \A i : i \in T <=> i \in q + 1 .. n + 1 /\ m[i] \notin Digit
    BY <1>2
  <1>. HIDE DEF S, T
  <1>4. /\ q \in Nat /\ p + 1 <= q /\ (q <= n + 1 => q \in S)
        /\ \A i \in p + 1 .. n + 1 : i < q => i \notin S
    BY <1>3, StopsFirst
  <1>. HIDE DEF q
  <1>5. /\ f \in Nat /\ q + 1 <= f /\ (f <= n + 1 => f \in T)
        /\ \A i \in q + 1 .. n + 1 : i < f => i \notin T
    <2>1. q + 1 \in Nat
      BY <1>4
    <2>. QED
      BY <1>3, <2>1, StopsFirst
  <1>. HIDE DEF f
  <1>6. q <= n + 1 => m[q] \notin Digit /\ \A i \in p .. q - 1 : m[i] \in Digit
    BY <1>2, <1>3, <1>4
  <1>7. "." \notin Digit /\ m[p] \notin Letter \cup Punctuation
    BY CharactersApart
  \* A longer lexeme could only be a number.
  <1>8. ASSUME NEW e \in p + 1 .. n, IsLexeme(SubSeq(m, p, e))
        PROVE  IsDigits(SubSeq(m, p, e)) \/ IsFloat(SubSeq(m, p, e))
    <2>. DEFINE s == SubSeq(m, p, e)
    <2>1. e \in p .. n + 2 /\ e - p + 1 # 1
      BY <1>2
    <2>2. s \in Seq(STRING) /\ s[1] = m[p] /\ Len(s) = e - p + 1
      BY <2>1, Stretch
    <2>3. IsLexeme(s)
      BY <1>8
    <2>. HIDE DEF s
    <2>. QED
      BY <1>7, <2>1, <2>2, <2>3, LexemeFirst, CharactersApart DEF s
  <1>9. ASSUME q <= n + 1, ~ point
        PROVE  Longest("INTEGER_LITERAL", p, q, m, n)
    <2>1. IsDigits(SubSeq(m, p, q - 1))
      <3>1. q - 1 \in p .. n + 2
        BY <1>2, <1>4, <1>9
      <3>. QED
        BY <1>6, <1>9, <3>1, DigitsStretch
    <2>2. ASSUME NEW e \in q .. n, IsLexeme(SubSeq(m, p, e))
          PROVE  FALSE
      <3>1. e \in p + 1 .. n /\ e \in p .. n + 2 /\ q \in p .. e
        BY <1>2, <1>4
      <3>2. ~ IsDigits(SubSeq(m, p, e))
        BY <1>6, <1>9, <3>1, DigitsStretch
      <3>3. IsFloat(SubSeq(m, p, e))
        BY <1>8, <2>2, <3>1, <3>2
      <3>4. PICK k \in p + 1 .. e - 1 : /\ m[k] = "."
                                        /\ \A i \in p .. k - 1 : m[i] \in Digit
                                        /\ \A i \in k + 1 .. e : m[i] \in Digit
        BY <3>1, <3>3, FloatStretch
      <3>5. k = q
        <4>1. k \in Nat /\ (k < q => k \in p .. q - 1) /\ (q < k => q \in p .. k - 1)
          BY <1>2, <1>4, <3>1
        <4>2. k = q \/ k < q \/ q < k
          BY <1>4, <4>1
        <4>. QED
          BY <1>6, <1>7, <1>9, <3>4, <4>1, <4>2
      <3>6. k + 1 \in k + 1 .. e
        BY <1>2, <3>1
      <3>. QED
        BY <1>9, <3>4, <3>5, <3>6
    <2>. QED
      BY <2>1, <2>2, OfTypes DEF Longest
  <1>10. ASSUME q <= n, point, f <= n + 1
         PROVE  Longest("FLOAT_LITERAL", p, f, m, n)
    <2>1. q <= n + 1 /\ m[q] = "." /\ m[q + 1] \in Digit
      BY <1>10
    <2>2. m[f] \notin Digit /\ f # q + 1 /\ \A i \in q + 1 .. f - 1 : m[i] \in Digit
      BY <1>2, <1>3, <1>4, <1>5, <1>10, <2>1
    <2>3. IsFloat(SubSeq(m, p, f - 1))
      <3>1. f - 1 \in p .. n + 2 /\ q \in p + 1 .. (f - 1) - 1
        BY <1>2, <1>4, <1>5, <1>10, <2>2
      <3>. QED
        BY <1>6, <2>1, <2>2, <3>1, FloatStretch
    <2>4. ASSUME NEW e \in f .. n, IsLexeme(SubSeq(m, p, e))
          PROVE  FALSE
      <3>1. e \in p + 1 .. n /\ e \in p .. n + 2 /\ q \in p .. e /\ f \in q + 1 .. e
        BY <1>2, <1>4, <1>5
      <3>2. ~ IsDigits(SubSeq(m, p, e))
        BY <1>6, <2>1, <3>1, DigitsStretch
      <3>3. IsFloat(SubSeq(m, p, e))
        BY <1>8, <2>4, <3>1, <3>2
      <3>4. PICK k \in p + 1 .. e - 1 : /\ m[k] = "."
                                        /\ \A i \in p .. k - 1 : m[i] \in Digit
                                        /\ \A i \in k + 1 .. e : m[i] \in Digit
        BY <3>1, <3>3, FloatStretch
      <3>5. k = q
        <4>1. k \in Nat /\ (k < q => k \in p .. q - 1) /\ (q < k => q \in p .. k - 1)
          BY <1>2, <1>4, <3>1
        <4>2. k = q \/ k < q \/ q < k
          BY <1>4, <4>1
        <4>. QED
          BY <1>6, <1>7, <2>1, <3>4, <4>1, <4>2
      <3>. QED
        BY <2>2, <3>1, <3>4, <3>5
    <2>. QED
      BY <2>3, <2>4, OfTypes DEF Longest
  <1>11. n + 1 < q \/ q <= n + 1
    BY <1>2, <1>4
  <1>12. (q > n \/ q <= n) /\ (f > n + 1 \/ f <= n + 1) /\ (q > n + 1 \/ q <= n + 1)
    BY <1>2, <1>4, <1>5
  <1>. HIDE DEF point
  <1>. QED
    BY <1>1, <1>9, <1>10, <1>12 DEF Lexeme, Asserts

LEMMA StringLongest ==
    ASSUME NEW m, NEW n, Memory(m, n), NEW p \in 1 .. n, m[p] = "quote"
    PROVE  LET s == ScanString(m, n, p)
           IN  Longest(s.type, p, s.next, m, n)
  <1>. DEFINE S == {i \in p + 1 .. n : m[i] = "quote"}
              q == Min(S \cup {Max({p + 1, n + 1})})
  <1>1. ScanString(m, n, p) = IF q > n THEN Broken(p, q) ELSE Lexeme("STRING_LITERAL", p, q + 1)
    BY DEF ScanString, StopAt
  <1>2. n \in Nat /\ p \in Nat
    BY DEF Memory
  <1>3. /\ S \subseteq p + 1 .. n /\ p + 1 \in Nat
        /\ \A i : i \in S <=> i \in p + 1 .. n /\ m[i] = "quote"
    BY <1>2
  <1>. HIDE DEF S
  <1>4. /\ q \in Nat /\ p + 1 <= q /\ (q <= n => q \in S)
        /\ \A i \in p + 1 .. n : i < q => i \notin S
    BY <1>2, <1>3, StopsFirst
  <1>. HIDE DEF q
  <1>5. /\ q <= n => m[q] = "quote"
        /\ \A i \in p + 1 .. n : i < q => m[i] # "quote"
    BY <1>3, <1>4
  \* A lexeme from p is a string, and ends at the first double quote.
  <1>6. ASSUME NEW e \in p .. n, IsLexeme(SubSeq(m, p, e))
        PROVE  q <= n /\ e = q
    <2>. DEFINE s == SubSeq(m, p, e)
    <2>1. e \in p .. n + 2 /\ e \in Nat /\ p <= e /\ e <= n
      BY <1>2
    <2>2. /\ s \in Seq(STRING) /\ s[1] = m[p] /\ Len(s) = e - p + 1
          /\ DOMAIN s = 1 .. e - p + 1
          /\ \A k \in p .. e : k - p + 1 \in DOMAIN s /\ s[k - p + 1] = m[k]
          /\ \A i \in 1 .. e - p + 1 : s[i] = m[p + i - 1]
      BY <2>1, Stretch
    <2>3. IsLexeme(s)
      BY <1>6
    <2>. HIDE DEF s
    <2>4. IsString(s)
      BY <2>2, <2>3, LexemeFirst, CharactersApart
    <2>5. /\ e - p + 1 >= 2
          /\ \A i \in 1 .. e - p + 1 : s[i] = "quote" <=> i \in {1, e - p + 1}
      BY <2>2, <2>4 DEF IsString
    <2>6. e \in p + 1 .. n /\ m[e] = "quote"
      <3>1. e - p + 1 \in 1 .. e - p + 1 /\ p + (e - p + 1) - 1 = e
        BY <2>1, <2>5, <1>2
      <3>. QED
        BY <1>2, <2>1, <2>2, <2>5, <3>1
    <2>7. q <= e
      BY <1>4, <1>5, <2>1, <2>6
    <2>8. q \in p .. e /\ q <= n /\ m[q] = "quote"
      BY <1>2, <1>4, <1>5, <2>1, <2>7
    <2>9. q - p + 1 \in {1, e - p + 1}
      BY <2>2, <2>5, <2>8
    <2>. QED
      BY <1>2, <1>4, <2>1, <2>8, <2>9
  <1>7. CASE q > n
    <2>1. Longest("INVALID", p, q, m, n)
      BY <1>2, <1>4, <1>6, <1>7 DEF Longest
    <2>. QED
      BY <1>1, <1>7, <2>1 DEF Broken, Lexeme
  <1>8. CASE ~ (q > n)
    <2>. DEFINE s == SubSeq(m, p, q)
    <2>1. q \in p .. n + 2 /\ q <= n /\ (q + 1) - 1 = q
      BY <1>2, <1>4, <1>8
    <2>2. /\ s \in Seq(STRING) /\ Len(s) = q - p + 1
          /\ DOMAIN s = 1 .. q - p + 1
          /\ \A i \in 1 .. q - p + 1 : s[i] = m[p + i - 1]
      BY <2>1, Stretch
    <2>. HIDE DEF s
    <2>3. /\ q - p + 1 >= 2
          /\ \A i \in 1 .. q - p + 1 : \/ i = 1 /\ p + i - 1 = p
                                       \/ i = q - p + 1 /\ p + i - 1 = q
                                       \/ /\ p + i - 1 \in p + 1 .. n /\ p + i - 1 < q
                                          /\ i \notin {1, q - p + 1}
          /\ {1, q - p + 1} \subseteq 1 .. q - p + 1
      BY <1>2, <1>4, <2>1
    <2>4. \A i \in 1 .. q - p + 1 : s[i] = "quote" <=> i \in {1, q - p + 1}
      BY <1>5, <2>1, <2>2, <2>3
    <2>5. IsString(s)
      BY <2>2, <2>3, <2>4 DEF IsString
    <2>6. \A e \in q + 1 .. n : ~ IsLexeme(SubSeq(m, p, e))
      <3>1. \A e \in q + 1 .. n : e \in p .. n /\ e # q
        BY <1>2, <1>4
      <3>. QED
        BY <1>6, <3>1
    <2>7. Longest("STRING_LITERAL", p, q + 1, m, n)
      BY <2>1, <2>5, <2>6, OfTypes DEF Longest, s
    <2>. QED
      BY <1>1, <1>8, <2>7 DEF Lexeme
  <1>. QED
    BY <1>7, <1>8

LEMMA LineCommentLongest ==
    ASSUME NEW m, NEW n, Memory(m, n), NEW p \in 1 .. n, m[p] = "/", m[p + 1] = "/"
    PROVE  LET s == ScanLineComment(m, n, p)
           IN  Longest(s.type, p, s.next, m, n)
  <1>. DEFINE S == {i \in p + 2 .. n : m[i] = "\n"}
              q == Min(S \cup {Max({p + 2, n + 1})})
  <1>1. ScanLineComment(m, n, p) = Lexeme("LINE_COMMENT", p, q)
    BY DEF ScanLineComment, StopAt
  <1>2. n \in Nat /\ p \in Nat /\ p <= n
    BY DEF Memory
  <1>3. /\ S \subseteq p + 2 .. n /\ p + 2 \in Nat
        /\ \A i : i \in S <=> i \in p + 2 .. n /\ m[i] = "\n"
    BY <1>2
  <1>. HIDE DEF S
  <1>4. /\ q \in Nat /\ p + 2 <= q /\ (q <= n => q \in S) /\ (q <= n + 1 \/ q = p + 2)
        /\ \A i \in p + 2 .. n : i < q => i \notin S
    BY <1>2, <1>3, StopsFirst
  <1>. HIDE DEF q
  <1>5. IsLineComment(SubSeq(m, p, q - 1))
    <2>. DEFINE s == SubSeq(m, p, q - 1)
    <2>1. q - 1 \in p .. n + 2 /\ q - 1 > p
      BY <1>2, <1>4
    <2>2. /\ s \in Seq(STRING) /\ s[1] = m[p] /\ s[2] = m[p + 1]
          /\ Len(s) = (q - 1) - p + 1 /\ DOMAIN s = 1 .. (q - 1) - p + 1
          /\ \A i \in 1 .. (q - 1) - p + 1 : s[i] = m[p + i - 1]
      BY <2>1, Stretch
    <2>. HIDE DEF s
    <2>3. /\ (q - 1) - p + 1 >= 2
          /\ \A i \in 1 .. (q - 1) - p + 1 :
                i = 1 \/ i = 2 \/ (p + i - 1 \in p + 2 .. n /\ p + i - 1 < q)
      BY <1>2, <1>4
    <2>4. \A i \in DOMAIN s : s[i] # "\n"
      BY <1>3, <1>4, <2>2, <2>3
    <2>. QED
      BY <2>2, <2>3, <2>4 DEF IsLineComment, s
  <1>6. ASSUME NEW e \in q .. n
        PROVE  ~ IsLexeme(SubSeq(m, p, e))
    <2>. DEFINE s == SubSeq(m, p, e)
    <2>1. e \in p .. n + 2 /\ e > p /\ q \in p .. e /\ q <= n /\ e - p + 1 # 1
      BY <1>2, <1>4
    <2>2. /\ s \in Seq(STRING) /\ s[1] = m[p] /\ s[2] = m[p + 1] /\ Len(s) = e - p + 1
          /\ q - p + 1 \in DOMAIN s /\ s[q - p + 1] = m[q]
      BY <2>1, Stretch
    <2>. HIDE DEF s
    <2>3. ~ IsLineComment(s)
      BY <1>3, <1>4, <2>1, <2>2 DEF IsLineComment
    <2>. QED
      BY <2>1, <2>2, <2>3, LexemeFirst, CharactersApart DEF s
  <1>. QED
    BY <1>1, <1>5, <1>6, OfTypes DEF Longest, Lexeme

LEMMA BlockCommentLongest ==
    ASSUME NEW m, NEW n, Memory(m, n), NEW p \in 1 .. n, m[p] = "/", m[p + 1] = "*"
    PROVE  LET s == ScanBlockComment(m, n, p)
           IN  Longest(s.type, p, s.next, m, n)
  <1>. DEFINE S == {i \in p + 2 .. n : m[i] = "*" /\ m[i + 1] = "/"}
              q == Min(S \cup {Max({p + 2, n + 1})})
  <1>1. ScanBlockComment(m, n, p) = IF q > n THEN Broken(p, q)
                                    ELSE Lexeme("BLOCK_COMMENT", p, q + 2)
    BY DEF ScanBlockComment, StopAt
  <1>2. n \in Nat /\ p \in Nat /\ p <= n
    BY DEF Memory
  <1>3. /\ S \subseteq p + 2 .. n /\ p + 2 \in Nat
        /\ \A i : i \in S <=> i \in p + 2 .. n /\ m[i] = "*" /\ m[i + 1] = "/"
    BY <1>2
  <1>. HIDE DEF S
  <1>4. /\ q \in Nat /\ p + 2 <= q /\ (q <= n => q \in S)
        /\ \A i \in p + 2 .. n : i < q => i \notin S
    BY <1>2, <1>3, StopsFirst
  <1>. HIDE DEF q
  <1>5. /\ q <= n => m[q] = "*" /\ m[q + 1] = "/"
        /\ \A i \in p + 2 .. n : i < q => ~ (m[i] = "*" /\ m[i + 1] = "/")
    BY <1>3, <1>4
  \* Where a stretch of the memory closes the comment.
  <1>6. ASSUME NEW e \in p + 1 .. n + 2, NEW s, s = SubSeq(m, p, e)
        PROVE  /\ s \in Seq(STRING) /\ s[1] = "/" /\ s[2] = "*" /\ Len(s) = e - p + 1
               /\ DOMAIN s = 1 .. e - p + 1
               /\ \A i \in 1 .. e - p + 1 :
                     Closes(s, i) <=> /\ i >= 4
                                      /\ m[p + i - 2] = "*" /\ m[p + i - 1] = "/"
    <2>1. e \in p .. n + 2 /\ e > p
      BY <1>2
    <2>2. /\ s \in Seq(STRING) /\ s[1] = m[p] /\ s[2] = m[p + 1] /\ Len(s) = e - p + 1
          /\ DOMAIN s = 1 .. e - p + 1
          /\ \A i \in 1 .. e - p + 1 : s[i] = m[p + i - 1]
      BY <1>6, <2>1, Stretch
    <2>3. \A i \in 1 .. e - p + 1 : i >= 4 => i - 1 \in 1 .. e - p + 1 /\ p + (i - 1) - 1 = p + i - 2
      BY <1>2, <2>1
    <2>4. \A i \in 1 .. e - p + 1 : i >= 4 => s[i - 1] = m[p + i - 2] /\ i \in 4 .. Len(s)
      BY <1>2, <2>1, <2>2, <2>3
    <2>5. \A i \in 1 .. e - p + 1 : i \in 4 .. Len(s) => i >= 4
      BY <1>2, <2>1, <2>2
    <2>. QED
      BY <2>2, <2>4, <2>5 DEF Closes
  \* A block comment from p ends where the scanner stops.
  <1>7. ASSUME NEW e \in p + 1 .. n, IsLexeme(SubSeq(m, p, e))
        PROVE  e = q + 1
    <2>. DEFINE s == SubSeq(m, p, e)
    <2>1. e \in p + 1 .. n + 2 /\ e \in Nat /\ e - p + 1 # 1 /\ e <= n
      BY <1>2
    <2>2. /\ s \in Seq(STRING) /\ s[1] = "/" /\ s[2] = "*" /\ Len(s) = e - p + 1
          /\ DOMAIN s = 1 .. e - p + 1
          /\ \A i \in 1 .. e - p + 1 :
                Closes(s, i) <=> /\ i >= 4
                                 /\ m[p + i - 2] = "*" /\ m[p + i - 1] = "/"
      BY <1>6, <2>1
    <2>3. IsLexeme(s)
      BY <1>7
    <2>. HIDE DEF s
    <2>4. IsBlockComment(s)
      BY <2>1, <2>2, <2>3, LexemeFirst, CharactersApart
    <2>5. /\ e - p + 1 >= 4
          /\ \A i \in 1 .. e - p + 1 : Closes(s, i) <=> i = e - p + 1
      BY <2>2, <2>4 DEF IsBlockComment
    <2>6. m[e - 1] = "*" /\ m[e] = "/" /\ e - 1 \in p + 2 .. n
      <3>1. /\ e - p + 1 \in 1 .. e - p + 1 /\ p + (e - p + 1) - 2 = e - 1
            /\ p + (e - p + 1) - 1 = e
        BY <1>2, <2>1, <2>5
      <3>. QED
        BY <1>2, <2>1, <2>2, <2>5, <3>1
    <2>7. q <= e - 1
      <3>1. (e - 1) + 1 = e /\ e - 1 \in Nat
        BY <1>2, <2>1, <2>6
      <3>. QED
        BY <1>4, <1>5, <2>6, <3>1
    <2>8. q <= n /\ m[q] = "*" /\ m[q + 1] = "/"
      BY <1>2, <1>4, <1>5, <2>1, <2>7
    <2>. DEFINE i == q - p + 2
    <2>9. i \in 1 .. e - p + 1 /\ i >= 4 /\ p + i - 2 = q /\ p + i - 1 = q + 1
      BY <1>2, <1>4, <2>1, <2>7
    <2>10. i = e - p + 1
      BY <2>2, <2>5, <2>8, <2>9
    <2>. QED
      BY <1>2, <1>4, <2>1, <2>10
  <1>8. CASE q > n
    <2>1. ASSUME NEW e \in p .. n, IsLexeme(SubSeq(m, p, e))
          PROVE  IsPunctuation(SubSeq(m, p, e))
      <3>1. e = p
        <4>1. e = p \/ e \in p + 1 .. n
          BY <1>2
        <4>2. e \in p + 1 .. n => e # q + 1
          BY <1>2, <1>4, <1>8
        <4>. QED
          BY <1>7, <2>1, <4>1, <4>2
      <3>. DEFINE s == SubSeq(m, p, e)
      <3>2. /\ s \in Seq(STRING) /\ Len(s) = e - p + 1 /\ s[1] = m[p]
        BY <1>2, <3>1, Stretch
      <3>3. Len(s) = 1
        BY <1>2, <3>1, <3>2
      <3>. HIDE DEF s
      <3>. QED
        BY <3>2, <3>3, CharactersApart DEF IsPunctuation, s
    <2>2. Longest("INVALID", p, q, m, n)
      BY <1>2, <1>4, <2>1 DEF Longest
    <2>. QED
      BY <1>1, <1>8, <2>2 DEF Broken, Lexeme
  <1>9. CASE ~ (q > n)
    <2>. DEFINE e == q + 1
                s == SubSeq(m, p, e)
    <2>1. e \in p + 1 .. n + 2 /\ q <= n /\ (q + 2) - 1 = e /\ e - p + 1 >= 4
      BY <1>2, <1>4, <1>9
    <2>. HIDE DEF e
    <2>2. /\ s \in Seq(STRING) /\ s[1] = "/" /\ s[2] = "*" /\ Len(s) = e - p + 1
          /\ DOMAIN s = 1 .. e - p + 1
          /\ \A i \in 1 .. e - p + 1 :
                Closes(s, i) <=> /\ i >= 4
                                 /\ m[p + i - 2] = "*" /\ m[p + i - 1] = "/"
      BY <1>6, <2>1
    <2>. HIDE DEF s
    <2>3. \A i \in 1 .. e - p + 1 : Closes(s, i) <=> i = e - p + 1
      <3>1. /\ p + (e - p + 1) - 2 = q /\ p + (e - p + 1) - 1 = q + 1
            /\ e - p + 1 \in 1 .. e - p + 1
        BY <1>2, <1>4, <2>1 DEF e
      <3>2. \A i \in 1 .. e - p + 1 : i >= 4 /\ i # e - p + 1 =>
               p + i - 2 \in p + 2 .. n /\ p + i - 2 < q /\ (p + i - 2) + 1 = p + i - 1
        BY <1>2, <1>4, <2>1 DEF e
      <3>. QED
        BY <1>5, <2>1, <2>2, <3>1, <3>2
    <2>4. {i \in DOMAIN s : Closes(s, i)} = {Len(s)}
      <3>1. e - p + 1 \in 1 .. e - p + 1
        BY <1>2, <2>1
      <3>. QED
        BY <2>2, <2>3, <3>1
    <2>5. IsBlockComment(s)
      BY <2>1, <2>2, <2>4 DEF IsBlockComment
    <2>6. \A x \in q + 2 .. n : ~ IsLexeme(SubSeq(m, p, x))
      <3>1. \A x \in q + 2 .. n : x \in p + 1 .. n /\ x # q + 1
        BY <1>2, <1>4
      <3>. QED
        BY <1>7, <3>1
    <2>7. Longest("BLOCK_COMMENT", p, q + 2, m, n)
      BY <2>1, <2>5, <2>6, OfTypes DEF Longest, s
    <2>. QED
      BY <1>1, <1>9, <2>7 DEF Lexeme
  <1>. QED
    BY <1>8, <1>9

LEMMA PunctuationLongest ==
    ASSUME NEW m, NEW n, Memory(m, n), NEW p \in 1 .. n,
           m[p] \in Punctuation \ ({"quote"} \cup Letter),
           m[p] = "/" => m[p + 1] \notin {"/", "*"}
    PROVE  LET s == ScanPunctuation(m, n, p)
           IN  ~ s.asserts => Longest(s.type, p, s.next, m, n)
  <1>1. n \in Nat /\ p \in Nat /\ p <= n
    BY DEF Memory
  <1>2. CASE m[p] = "-" /\ m[p + 1] = ">"
    <2>1. CASE p + 1 > n
      BY <1>2, <2>1 DEF ScanPunctuation, Asserts, Lexeme
    <2>2. CASE ~ (p + 1 > n)
      <3>1. IsArrow(SubSeq(m, p, (p + 2) - 1))
        <4>. DEFINE s == SubSeq(m, p, p + 1)
        <4>1. p + 1 \in p .. n + 2 /\ p + 1 > p /\ (p + 2) - 1 = p + 1 /\ (p + 1) - p + 1 = 2
          BY <1>1
        <4>2. s \in Seq(STRING) /\ Len(s) = (p + 1) - p + 1 /\ s[1] = m[p] /\ s[2] = m[p + 1]
          BY <4>1, Stretch
        <4>. HIDE DEF s
        <4>3. s \in Seq(STRING) /\ Len(s) = 2 /\ s[1] = "-" /\ s[2] = ">"
          BY <1>2, <4>1, <4>2
        <4>4. s = <<"-", ">">>
          BY <4>3
        <4>. QED
          BY <4>1, <4>4 DEF IsArrow, s
      <3>2. ASSUME NEW e \in p + 2 .. n
            PROVE  ~ IsLexeme(SubSeq(m, p, e))
        <4>. DEFINE s == SubSeq(m, p, e)
        <4>1. e \in p .. n + 2 /\ e - p + 1 # 1 /\ e - p + 1 # 2
          BY <1>1
        <4>2. s \in Seq(STRING) /\ Len(s) = e - p + 1 /\ s[1] = m[p]
          BY <4>1, Stretch
        <4>. HIDE DEF s
        <4>. QED
          BY <1>2, <4>1, <4>2, LexemeFirst, CharactersApart DEF s
      <3>. QED
        BY <1>2, <2>2, <3>1, <3>2, OfTypes DEF ScanPunctuation, Lexeme, Longest
    <2>. QED
      BY <2>1, <2>2
  <1>3. CASE ~ (m[p] = "-" /\ m[p + 1] = ">")
    <2>1. SubSeq(m, p, (p + 1) - 1) = <<m[p]>>
      <3>. DEFINE s == SubSeq(m, p, p)
      <3>1. p \in p .. n + 2 /\ (p + 1) - 1 = p /\ p - p + 1 = 1
        BY <1>1
      <3>2. s \in Seq(STRING) /\ Len(s) = p - p + 1 /\ s[1] = m[p]
        BY <3>1, Stretch
      <3>. HIDE DEF s
      <3>3. s = <<m[p]>>
        BY <3>1, <3>2
      <3>. QED
        BY <3>1, <3>3 DEF s
    <2>2. ASSUME NEW e \in p + 1 .. n
          PROVE  ~ IsLexeme(SubSeq(m, p, e))
      <3>. DEFINE s == SubSeq(m, p, e)
      <3>1. e \in p .. n + 2 /\ e - p + 1 # 1 /\ e > p
        BY <1>1
      <3>2. s \in Seq(STRING) /\ Len(s) = e - p + 1 /\ s[1] = m[p] /\ s[2] = m[p + 1]
        BY <3>1, Stretch
      <3>. HIDE DEF s
      <3>. QED
        BY <1>3, <3>1, <3>2, LexemeFirst, CharactersApart DEF s
    <2>3. IsOfType(SubSeq(m, p, (p + 1) - 1), m[p]) /\ m[p] \notin {"EOF", "INVALID"}
      BY <2>1, OfTypes, TypesApart
    <2>. QED
      BY <1>3, <2>2, <2>3 DEF ScanPunctuation, Lexeme, Longest
  <1>. QED
    BY <1>2, <1>3

\* What the scanner finds is the longest lexeme from where it stands.
LEMMA ScanLongest ==
    ASSUME NEW m, NEW n, Memory(m, n), NEW p \in 1 .. n + 2,
           p <= n => m[p] \notin Space
    PROVE  LET s == Scan(m, n, p)
           IN  ~ s.asserts => Longest(s.type, p, s.next, m, n)
  <1>1. n \in Nat
    BY DEF Memory
  <1>2. CASE p > n
    BY <1>2 DEF Scan, Lexeme, Longest
  <1>3. CASE ~ (p > n)
    <2>1. p \in 1 .. n
      BY <1>1, <1>3
    <2>2. CASE m[p] \notin Letter \cup Digit \cup Punctuation
      <3>1. ASSUME NEW e \in p .. n
            PROVE  ~ IsLexeme(SubSeq(m, p, e))
        <4>. DEFINE s == SubSeq(m, p, e)
        <4>1. e \in p .. n + 2
          BY <1>1
        <4>2. s \in Seq(STRING) /\ s[1] = m[p]
          BY <2>1, <4>1, Stretch
        <4>. HIDE DEF s
        <4>. QED
          BY <2>2, <4>2, LexemeFirst, CharactersApart DEF s
      <3>2. Longest("INVALID", p, p, m, n)
        BY <3>1 DEF Longest
      <3>. QED
        BY <1>3, <2>2, <3>2, CharactersApart DEF Scan, Lexeme
    <2>3. CASE m[p] \in Letter \cup Digit \cup Punctuation
      BY <1>3, <2>1, <2>3, IdentifierLongest, NumberLongest, StringLongest, LineCommentLongest,
         BlockCommentLongest, PunctuationLongest DEF Scan
    <2>. QED
      BY <2>2, <2>3
  <1>. QED
    BY <1>2, <1>3

-----------------------------------------------------------------------------
\* Rows and columns.

Places == [row : Nat, column : Nat]

\* Where the head is after it has passed over the character c.
Moved(where, c) ==
    IF c = "\n" THEN [row |-> where.row + 1, column |-> 1]
    ELSE [where EXCEPT !.column = @ + 1]

\* The places along a text, one before each character and one behind the last.
Walk(f, start, text, n) ==
    f = [i \in 0 .. n |-> IF i = 0 THEN start ELSE Moved(f[i - 1], text[i])]

LEMMA WalkExists ==
    ASSUME NEW start, NEW text, NEW n \in Nat
    PROVE  \E f : Walk(f, start, text, n)
  <1>. DEFINE T == {k \in Nat : ~ \E f : Walk(f, start, text, k)}
  <1>1. T = {}
    <2>. SUFFICES ASSUME T # {} PROVE FALSE
      OBVIOUS
    <2>. DEFINE k == Min(T)
    <2>1. T \subseteq Nat
      OBVIOUS
    <2>2. k \in T /\ \A j \in T : k <= j
      BY <2>1, LeastExists
    <2>. HIDE DEF k
    <2>3. CASE k = 0
      <3>1. Walk([i \in 0 .. 0 |-> start], start, text, 0)
        BY DEF Walk
      <3>. QED
        BY <2>2, <2>3, <3>1
    <2>4. CASE k # 0
      <3>1. k \in Nat /\ k - 1 \in Nat /\ ~ (k <= k - 1)
        BY <2>2, <2>4
      <3>2. PICK f : Walk(f, start, text, k - 1)
        BY <2>2, <3>1
      <3>. DEFINE g == [i \in 0 .. k |-> IF i = k THEN Moved(f[k - 1], text[k]) ELSE f[i]]
      <3>3. \A i \in 0 .. k - 1 : f[i] = IF i = 0 THEN start ELSE Moved(f[i - 1], text[i])
        BY <3>1, <3>2 DEF Walk
      <3>4. /\ \A i \in 0 .. k - 1 : i \in 0 .. k /\ i # k /\ (i # 0 => i - 1 \in 0 .. k - 1)
            /\ \A i \in 0 .. k : i = k \/ i \in 0 .. k - 1
            /\ k - 1 \in 0 .. k - 1
        BY <3>1
      <3>5. \A i \in 0 .. k - 1 : g[i] = f[i]
        BY <3>4
      <3>6. g[k] = Moved(g[k - 1], text[k])
        BY <3>1, <3>4, <3>5
      <3>7. \A i \in 0 .. k - 1 : g[i] = IF i = 0 THEN start ELSE Moved(g[i - 1], text[i])
        BY <3>3, <3>4, <3>5
      <3>8. g = [i \in 0 .. k |-> g[i]]
        OBVIOUS
      <3>. HIDE DEF g
      <3>9. \A i \in 0 .. k : g[i] = IF i = 0 THEN start ELSE Moved(g[i - 1], text[i])
        BY <2>4, <3>4, <3>6, <3>7
      <3>10. Walk(g, start, text, k)
        BY <3>8, <3>9 DEF Walk
      <3>. QED
        BY <2>2, <3>10
    <2>. QED
      BY <2>3, <2>4
  <1>. QED
    BY <1>1

\* skip_char walks to the end of the text.
LEMMA SkipWalks ==
    ASSUME NEW start, NEW text, Len(text) \in Nat
    PROVE  \E f : Walk(f, start, text, Len(text)) /\ skip_char(start, text) = f[Len(text)]
  <1>. DEFINE f == CHOOSE g : g = [i \in 0 .. Len(text) |->
                                     IF i = 0 THEN start
                                     ELSE IF text[i] = "\n"
                                     THEN [row |-> g[i - 1].row + 1, column |-> 1]
                                     ELSE [g[i - 1] EXCEPT !.column = @ + 1]]
  <1>1. skip_char(start, text) = f[Len(text)]
    BY DEF skip_char
  <1>2. \E g : Walk(g, start, text, Len(text))
    BY WalkExists
  <1>3. Walk(f, start, text, Len(text))
    BY <1>2 DEF Walk, Moved
  <1>. QED
    BY <1>1, <1>3

\* The row and column of the position p, as LocationsExact counts them.
Breaks(m, p) == {k \in 1 .. p - 1 : m[k] = "\n"}

Located(where, m, p) ==
    /\ where \in Places
    /\ where.row = 1 + Cardinality(Breaks(m, p))
    /\ \/ Breaks(m, p) = {} /\ where.column = p
       \/ \E k \in Breaks(m, p) : /\ \A l \in Breaks(m, p) : l <= k
                                  /\ where.column = p - k

LEMMA StartLocated == ASSUME NEW m PROVE Located(Start, m, 1)
  <1>1. Breaks(m, 1) = {}
    BY DEF Breaks
  <1>2. Cardinality(Breaks(m, 1)) = 0
    BY <1>1, FS_EmptySet
  <1>. QED
    BY <1>1, <1>2 DEF Located, Places, Start

LEMMA MovedLocated ==
    ASSUME NEW m, NEW p \in Nat \ {0}, NEW where, Located(where, m, p)
    PROVE  Located(Moved(where, m[p]), m, p + 1)
  <1>. DEFINE A == Breaks(m, p)
              B == Breaks(m, p + 1)
  <1>1. IsFiniteSet(A) /\ p \notin A /\ A \subseteq 1 .. p - 1
    <2>1. A \subseteq 1 .. p - 1 /\ IsFiniteSet(1 .. p - 1)
      BY FS_Interval DEF Breaks
    <2>. QED
      BY <2>1, FS_Subset
  <1>2. Cardinality(A) \in Nat
    BY <1>1, FS_CardinalityType
  <1>3. where \in Places /\ where.row \in Nat /\ where.column \in Nat
    BY DEF Located, Places
  <1>4. \A k : k \in 1 .. (p + 1) - 1 <=> k \in 1 .. p - 1 \/ k = p
    OBVIOUS
  <1>5. CASE m[p] = "\n"
    <2>1. B = A \cup {p}
      BY <1>4, <1>5 DEF Breaks
    <2>2. Cardinality(B) = Cardinality(A) + 1
      BY <1>1, <2>1, FS_AddElement
    <2>3. Moved(where, m[p]) = [row |-> where.row + 1, column |-> 1]
      BY <1>5 DEF Moved
    <2>. DEFINE w == Moved(where, m[p])
    <2>4. w \in Places /\ w.row = where.row + 1 /\ w.column = 1
      BY <1>3, <2>3 DEF Places
    <2>. HIDE DEF w
    <2>5. w.row = 1 + Cardinality(B)
      BY <1>2, <1>3, <2>2, <2>4 DEF Located
    <2>6. p \in B /\ (\A l \in B : l <= p) /\ w.column = (p + 1) - p
      BY <1>1, <2>1, <2>4
    <2>. HIDE DEF A, B
    <2>7. \/ B = {} /\ w.column = p + 1
          \/ \E k \in B : /\ \A l \in B : l <= k
                          /\ w.column = (p + 1) - k
      BY <2>6
    <2>. QED
      BY <2>4, <2>5, <2>7 DEF Located, B, w
  <1>6. CASE m[p] # "\n"
    <2>1. B = A
      BY <1>4, <1>6 DEF Breaks
    <2>. DEFINE w == Moved(where, m[p])
    <2>2. w = [where EXCEPT !.column = where.column + 1]
      BY <1>6 DEF Moved
    <2>3. w \in [row : {where.row}, column : {where.column + 1}]
      BY <1>3, <2>2 DEF Places
    <2>. HIDE DEF w
    <2>4. w.row = where.row /\ w.column = where.column + 1
      BY <2>3
    <2>5. w \in Places
      BY <1>3, <2>3 DEF Places
    <2>6. w.row = 1 + Cardinality(B)
      BY <2>1, <2>4 DEF Located
    <2>7. \/ A = {} /\ where.column = p
          \/ \E k \in A : /\ \A l \in A : l <= k
                          /\ where.column = p - k
      BY DEF Located
    <2>8. \A k \in A : k \in Nat
      BY <1>1
    <2>. HIDE DEF A, B
    <2>9. \/ B = {} /\ w.column = p + 1
          \/ \E k \in B : /\ \A l \in B : l <= k
                          /\ w.column = (p + 1) - k
      BY <2>1, <2>4, <2>7, <2>8
    <2>. QED
      BY <2>5, <2>6, <2>9 DEF Located, B, w
  <1>. QED
    BY <1>5, <1>6

\* Passing over what lies between two positions leads from the place of one to
\* the place of the other.
LEMMA SkipLocated ==
    ASSUME NEW m, m \in Seq(STRING), NEW p \in Nat \ {0}, NEW q \in Nat,
           p <= q, q <= Len(m) + 1,
           NEW where, Located(where, m, p)
    PROVE  Located(skip_char(where, SubSeq(m, p, q - 1)), m, q)
  <1>. DEFINE text == SubSeq(m, p, q - 1)
              n == q - p
  <1>1. n \in Nat /\ Len(text) = n /\ \A i \in 1 .. n : text[i] = m[p + (i - 1)]
    <2>1. n \in Nat /\ Len(m) \in Nat
      OBVIOUS
    <2>2. CASE p = q
      <3>1. text = <<>> /\ n = 0
        BY <2>1, <2>2
      <3>. QED
        BY <3>1
    <2>3. CASE p < q
      <3>1. p \in 1 .. Len(m) /\ q - 1 \in p .. Len(m) /\ p <= q - 1
        BY <2>1, <2>3
      <3>2. Len(text) = (q - 1) - p + 1 /\ \A i \in 1 .. (q - 1) - p + 1 : text[i] = m[p + i - 1]
        BY <3>1, SubSeqProperties
      <3>3. (q - 1) - p + 1 = n /\ \A i \in 1 .. n : p + i - 1 = p + (i - 1)
        BY <2>1
      <3>. QED
        BY <2>1, <3>2, <3>3
    <2>. QED
      BY <2>2, <2>3
  <1>. HIDE DEF text, n
  <1>2. PICK f : Walk(f, where, text, n) /\ skip_char(where, text) = f[n]
    BY <1>1, SkipWalks
  <1>3. /\ f[0] = where
        /\ \A i \in 1 .. n : f[i] = Moved(f[i - 1], m[p + (i - 1)])
    <2>1. \A i \in 0 .. n : f[i] = IF i = 0 THEN where ELSE Moved(f[i - 1], text[i])
      BY <1>2 DEF Walk
    <2>2. 0 \in 0 .. n /\ \A i \in 1 .. n : i \in 0 .. n /\ i # 0
      BY <1>1
    <2>. QED
      BY <1>1, <2>1, <2>2
  <1>. DEFINE T == {i \in 0 .. n : ~ Located(f[i], m, p + i)}
  <1>4. T = {}
    <2>. SUFFICES ASSUME T # {} PROVE FALSE
      OBVIOUS
    <2>. DEFINE k == Min(T)
    <2>1. T \subseteq Nat
      BY <1>1
    <2>2. k \in T /\ \A j \in T : k <= j
      BY <2>1, LeastExists
    <2>. HIDE DEF k
    <2>3. k \in 0 .. n /\ ~ Located(f[k], m, p + k)
      BY <2>2
    <2>4. k # 0
      <3>1. p + 0 = p
        OBVIOUS
      <3>. QED
        BY <1>3, <2>3, <3>1
    <2>5. k \in 1 .. n /\ k - 1 \in 0 .. n /\ ~ (k <= k - 1)
      BY <1>1, <2>3, <2>4
    <2>6. Located(f[k - 1], m, p + (k - 1))
      BY <2>2, <2>5
    <2>7. p + (k - 1) \in Nat \ {0} /\ (p + (k - 1)) + 1 = p + k
      BY <2>5
    <2>8. Located(Moved(f[k - 1], m[p + (k - 1)]), m, (p + (k - 1)) + 1)
      BY <2>6, <2>7, MovedLocated
    <2>. QED
      BY <1>3, <2>3, <2>5, <2>7, <2>8
  <1>5. n \in 0 .. n /\ p + n = q
    BY <1>1 DEF n
  <1>6. Located(f[n], m, p + n)
    BY <1>4, <1>5
  <1>. QED
    BY <1>2, <1>5, <1>6 DEF text

-----------------------------------------------------------------------------
\* The peek buffer and the tokens held.

Token == [type : TokenTypes, from : Nat, length : Nat, row : Nat, column : Nat]

Cells(c) == [0 .. c - 1 -> Token \cup {Uninit}]

Struct(c) == [buffer : Cells(c) \cup {Blank(0)}, size : Nat, capacity : {c}]

\* A buffer that is there has a cell to spare, and the cells in use hold tokens;
\* one whose cells were refused holds none.
QueueOK(q) ==
    /\ q.capacity \in Nat /\ q \in Struct(q.capacity)
    /\ \/ q.capacity = 0 /\ q.size = 0
       \/ q.capacity >= 2 /\ q.size < q.capacity
    /\ q.buffer \in Cells(q.capacity) \/ q.size = 0
    /\ \A i \in 0 .. q.size - 1 : q.buffer[i] \in Token

LEMMA FreshOK ==
    ASSUME NEW c \in Nat, c = 0 \/ c >= 2, NEW cells \in {Blank(c), Blank(0)}
    PROVE  /\ QueueOK(Fresh(cells, c))
           /\ Fresh(cells, c).size = 0 /\ Fresh(cells, c).capacity = c
  <1>. DEFINE q == Fresh(cells, c)
  <1>1. q \in [buffer : {cells}, size : {0}, capacity : {c}]
    BY DEF Fresh
  <1>2. Blank(c) \in Cells(c)
    BY DEF Blank, Cells
  <1>. HIDE DEF q
  <1>3. q.size = 0 /\ q.capacity = c
    BY <1>1
  <1>4. q \in Struct(q.capacity)
    BY <1>1, <1>2, <1>3 DEF Struct
  <1>. QED
    BY <1>3, <1>4 DEF QueueOK, q

LEMMA EmptiedOK ==
    ASSUME NEW q, QueueOK(q)
    PROVE  QueueOK(Emptied(q)) /\ Emptied(q).size = 0
  <1>. DEFINE e == Emptied(q)
  <1>1. e \in [buffer : {q.buffer}, size : {0}, capacity : {q.capacity}]
    BY DEF Emptied, QueueOK, Struct
  <1>. HIDE DEF e
  <1>2. e.size = 0 /\ e.capacity = q.capacity /\ e.buffer = q.buffer
    BY <1>1
  <1>3. e \in Struct(e.capacity)
    BY <1>1, <1>2 DEF QueueOK, Struct
  <1>. QED
    BY <1>2, <1>3 DEF QueueOK, e

LEMMA PoppedOK ==
    ASSUME NEW q, QueueOK(q), q.size > 0
    PROVE  /\ QueueOK(Popped(q)) /\ Popped(q).size = q.size - 1
           /\ Popped(q).buffer = q.buffer /\ Popped(q).capacity = q.capacity
           /\ Front(q) \in Token
  <1>. DEFINE e == Popped(q)
  <1>1. q.size \in Nat /\ q.size - 1 \in Nat /\ q.capacity \in Nat
    BY DEF QueueOK, Struct
  <1>2. e \in [buffer : {q.buffer}, size : {q.size - 1}, capacity : {q.capacity}]
    BY DEF Popped, QueueOK, Struct
  <1>. HIDE DEF e
  <1>3. e.size = q.size - 1 /\ e.capacity = q.capacity /\ e.buffer = q.buffer
    BY <1>2
  <1>4. e \in Struct(e.capacity)
    BY <1>1, <1>2, <1>3 DEF QueueOK, Struct
  <1>5. \A i \in 0 .. e.size - 1 : i \in 0 .. q.size - 1
    BY <1>1, <1>3
  <1>6. QueueOK(e)
    BY <1>1, <1>3, <1>4, <1>5 DEF QueueOK
  <1>7. Front(q) \in Token
    BY <1>1 DEF Front, QueueOK
  <1>. QED
    BY <1>3, <1>6, <1>7 DEF e

\* A buffer whose cells were refused is not full: it does not grow, and writes
\* where there is no cell.
LEMMA UnbackedStrays ==
    ASSUME NEW q, QueueOK(q), Unbacked(q), NEW g \in Grown(q)
    PROVE  g.ok /\ q.size = 0 /\ g.queue.size = 0 /\ Strays(g, 0)
  <1>1. q.capacity \in Nat /\ q.capacity >= 2 /\ q.buffer = Blank(0)
    BY DEF QueueOK, Unbacked
  <1>2. q.size = 0
    <2>1. 0 \in 0 .. q.capacity - 1 /\ DOMAIN Blank(0) = {}
      BY <1>1 DEF Blank
    <2>. QED
      BY <1>1, <2>1 DEF QueueOK, Cells
  <1>3. g = [ok |-> TRUE, queue |-> q]
    BY <1>1, <1>2 DEF Grown, NeedsRoom
  <1>. QED
    BY <1>1, <1>2, <1>3 DEF Strays, IsCell, Blank

\* Growing is refused only to a buffer that is almost full, and one that has
\* grown has a cell for the token and one to spare.
LEMMA GrownRoom ==
    ASSUME NEW q, QueueOK(q), q.capacity > 0, ~ Unbacked(q), NEW g \in Grown(q)
    PROVE  /\ g.ok \in BOOLEAN
           /\ ~ g.ok => q.size > 0
           /\ g.ok => /\ g.queue.capacity \in Nat /\ g.queue \in Struct(g.queue.capacity)
                      /\ g.queue.buffer \in Cells(g.queue.capacity)
                      /\ g.queue.size = q.size
                      /\ q.size + 1 < g.queue.capacity
                      /\ \A i \in 0 .. q.size - 1 : g.queue.buffer[i] = q.buffer[i]
  <1>1. /\ q.size \in Nat /\ q.capacity \in Nat /\ q.capacity >= 2 /\ q.size < q.capacity
        /\ q \in Struct(q.capacity) /\ q.buffer \in Cells(q.capacity)
    BY DEF QueueOK, Struct, Unbacked
  <1>2. CASE g = [ok |-> TRUE, queue |-> q] /\ ~ NeedsRoom(q)
    BY <1>1, <1>2 DEF NeedsRoom
  <1>3. CASE g = [ok |-> FALSE, queue |-> q] /\ NeedsRoom(q)
    BY <1>1, <1>3 DEF NeedsRoom
  <1>4. CASE g = [ok |-> TRUE, queue |-> Reallocated(q)]
    <2>. DEFINE n == 2 * q.capacity
                r == Reallocated(q)
    <2>1. n \in Nat /\ q.size + 1 < n
      BY <1>1
    <2>2. r = [buffer   |-> [i \in 0 .. n - 1 |-> IF i < q.capacity THEN q.buffer[i] ELSE Uninit],
               size     |-> q.size,
               capacity |-> n]
      BY DEF Reallocated, ResizeFactor
    <2>3. \A i \in 0 .. n - 1 : i < q.capacity => q.buffer[i] \in Token \cup {Uninit}
      BY <1>1 DEF Cells
    <2>6. r.buffer \in Cells(n)
      BY <1>1, <2>1, <2>2, <2>3 DEF Cells
    <2>4. r.size = q.size /\ r.capacity = n /\ r \in Struct(n)
      BY <1>1, <2>1, <2>2, <2>6 DEF Struct
    <2>5. \A i \in 0 .. q.size - 1 : r.buffer[i] = q.buffer[i]
      BY <1>1, <2>1, <2>2
    <2>. QED
      BY <1>4, <2>1, <2>4, <2>5, <2>6
  <1>. QED
    BY <1>2, <1>3, <1>4 DEF Grown

\* A token stored in the first free cell.
LEMMA StoredOK ==
    ASSUME NEW q, QueueOK(q), NEW r, r.capacity \in Nat, r \in Struct(r.capacity),
           r.buffer \in Cells(r.capacity),
           r.size = q.size, q.size + 1 < r.capacity,
           \A i \in 0 .. q.size - 1 : r.buffer[i] = q.buffer[i],
           NEW t \in Token
    PROVE  LET s == Stored(r, q.size, t)
           IN  /\ QueueOK(s) /\ s.size = q.size + 1 /\ s.capacity > 0
               /\ s.buffer[q.size] = t
               /\ \A i \in 0 .. q.size - 1 : s.buffer[i] = q.buffer[i]
               /\ IsCell(r, q.size)
  <1>. DEFINE s == Stored(r, q.size, t)
              cells == [r.buffer EXCEPT ![q.size] = t]
  <1>1. q.size \in Nat /\ q.size \in 0 .. r.capacity - 1
    BY DEF QueueOK, Struct
  <1>2. r.buffer \in Cells(r.capacity)
    OBVIOUS
  <1>3. cells \in Cells(r.capacity) /\ cells[q.size] = t
    BY <1>1, <1>2 DEF Cells
  <1>4. \A i \in 0 .. q.size - 1 : i \in 0 .. r.capacity - 1 /\ i # q.size
    BY <1>1
  <1>5. \A i \in 0 .. q.size - 1 : cells[i] = q.buffer[i]
    BY <1>1, <1>2, <1>4 DEF Cells
  <1>6. s \in [buffer : {cells}, size : {q.size + 1}, capacity : {r.capacity}]
    BY DEF Stored, Struct
  <1>. HIDE DEF s, cells
  <1>7. s.buffer = cells /\ s.size = q.size + 1 /\ s.capacity = r.capacity
    BY <1>6
  <1>8. s \in Struct(s.capacity)
    BY <1>1, <1>3, <1>6, <1>7 DEF Struct
  <1>9. \A i \in 0 .. s.size - 1 : i \in 0 .. q.size - 1 \/ i = q.size
    BY <1>1, <1>7
  <1>10. \A i \in 0 .. s.size - 1 : s.buffer[i] \in Token
    BY <1>3, <1>5, <1>7, <1>9 DEF QueueOK
  <1>11. QueueOK(s)
    BY <1>1, <1>3, <1>7, <1>8, <1>10 DEF QueueOK
  <1>12. IsCell(r, q.size)
    BY <1>1, <1>2 DEF IsCell, Cells
  <1>13. s.capacity > 0
    BY <1>1, <1>7
  <1>. QED
    BY <1>1, <1>3, <1>5, <1>7, <1>11, <1>12, <1>13 DEF s

\* The tokens held, in the order of the file, given those taken and a buffer.
Waiting(q) == [i \in 1 .. q.size |-> q.buffer[q.size - i]]
HeldIn(t, q) == t \o Waiting(q)

LEMMA HeldIs == Held = HeldIn(taken, peek_buffer)
  BY DEF Held, HeldIn, Waiting, Items

LEMMA HeldFacts ==
    ASSUME NEW s \in Seq(Token), NEW q, QueueOK(q)
    PROVE  LET h == HeldIn(s, q)
           IN  /\ h \in Seq(Token)
               /\ Len(s) \in Nat /\ q.size \in Nat
               /\ Len(h) = Len(s) + q.size
               /\ \A i \in 1 .. Len(s) + q.size :
                     h[i] = IF i <= Len(s) THEN s[i] ELSE q.buffer[q.size - (i - Len(s))]
  <1>. DEFINE w == Waiting(q)
              h == HeldIn(s, q)
  <1>1. q.size \in Nat /\ Len(s) \in Nat
    BY DEF QueueOK, Struct
  <1>2. \A i \in 1 .. q.size : q.size - i \in 0 .. q.size - 1
    BY <1>1
  <1>3. w \in Seq(Token) /\ Len(w) = q.size /\ \A i \in 1 .. q.size : w[i] = q.buffer[q.size - i]
    <2>1. w \in [1 .. q.size -> Token]
      BY <1>2 DEF Waiting, QueueOK
    <2>2. \A i \in 1 .. q.size : w[i] = q.buffer[q.size - i]
      BY DEF Waiting
    <2>. HIDE DEF w
    <2>3. w \in Seq(Token)
      BY <1>1, <2>1, SeqDef
    <2>4. DOMAIN w = 1 .. q.size /\ DOMAIN w = 1 .. Len(w) /\ Len(w) \in Nat
      BY <2>1, <2>3
    <2>5. Len(w) = q.size
      BY <1>1, <2>4
    <2>. QED
      BY <2>2, <2>3, <2>5
  <1>4. h = s \o w
    BY DEF HeldIn
  <1>. HIDE DEF w, h
  <1>5. /\ h \in Seq(Token) /\ Len(h) = Len(s) + Len(w)
        /\ \A i \in 1 .. Len(s) + Len(w) : h[i] = IF i <= Len(s) THEN s[i] ELSE w[i - Len(s)]
    BY <1>3, <1>4, ConcatProperties
  <1>6. \A i \in 1 .. Len(s) + q.size : i <= Len(s) \/ i - Len(s) \in 1 .. q.size
    BY <1>1
  <1>7. \A i \in 1 .. Len(s) + q.size :
           h[i] = IF i <= Len(s) THEN s[i] ELSE q.buffer[q.size - (i - Len(s))]
    BY <1>3, <1>5, <1>6
  <1>. QED
    BY <1>1, <1>3, <1>5, <1>7 DEF h

\* A token that waits is taken.
LEMMA HeldTaken ==
    ASSUME NEW s \in Seq(Token), NEW q, QueueOK(q), q.size > 0
    PROVE  HeldIn(Append(s, Front(q)), Popped(q)) = HeldIn(s, q)
  <1>. DEFINE t == Front(q)
              u == Append(s, t)
              p == Popped(q)
  <1>1. t \in Token /\ t = q.buffer[q.size - 1]
        /\ QueueOK(p) /\ p.size = q.size - 1 /\ p.buffer = q.buffer
    BY PoppedOK DEF Front
  <1>. HIDE DEF t, p
  <1>2. /\ u \in Seq(Token) /\ Len(u) = Len(s) + 1 /\ Len(s) \in Nat
        /\ \A i \in 1 .. Len(s) : u[i] = s[i]
        /\ u[Len(s) + 1] = t
    BY <1>1
  <1>. HIDE DEF u
  <1>. DEFINE h == HeldIn(u, p)
              k == HeldIn(s, q)
  <1>3. /\ h \in Seq(Token) /\ Len(h) = Len(u) + p.size /\ q.size \in Nat
        /\ \A i \in 1 .. Len(u) + p.size :
              h[i] = IF i <= Len(u) THEN u[i] ELSE p.buffer[p.size - (i - Len(u))]
    BY <1>1, <1>2, HeldFacts DEF QueueOK, Struct
  <1>4. /\ k \in Seq(Token) /\ Len(k) = Len(s) + q.size
        /\ \A i \in 1 .. Len(s) + q.size :
              k[i] = IF i <= Len(s) THEN s[i] ELSE q.buffer[q.size - (i - Len(s))]
    BY HeldFacts
  <1>. HIDE DEF h, k
  <1>5. Len(h) = Len(k)
    BY <1>1, <1>2, <1>3, <1>4
  <1>6. ASSUME NEW i \in 1 .. Len(h)
        PROVE  h[i] = k[i]
    <2>1. i \in 1 .. Len(u) + p.size /\ i \in 1 .. Len(s) + q.size
      BY <1>3, <1>4, <1>5
    <2>2. CASE i <= Len(s)
      BY <1>2, <1>3, <1>4, <2>1, <2>2
    <2>3. CASE i = Len(s) + 1
      <3>1. q.size - (i - Len(s)) = q.size - 1 /\ ~ (i <= Len(s)) /\ i <= Len(u)
        BY <1>2, <1>3, <2>3
      <3>. QED
        BY <1>1, <1>2, <1>3, <1>4, <2>1, <2>3, <3>1
    <2>4. CASE i > Len(s) + 1
      <3>1. ~ (i <= Len(s)) /\ ~ (i <= Len(u))
        BY <1>2, <2>1, <2>4
      <3>2. (q.size - 1) - (i - (Len(s) + 1)) = q.size - (i - Len(s))
        BY <1>2, <1>3, <2>1
      <3>3. p.size - (i - Len(u)) = q.size - (i - Len(s))
        BY <1>1, <1>2, <3>2
      <3>. QED
        BY <1>1, <1>3, <1>4, <2>1, <3>1, <3>3
    <2>. QED
      BY <1>2, <2>2, <2>3, <2>4
  <1>7. h = k
    BY <1>3, <1>4, <1>5, <1>6, SeqEqual
  <1>. QED
    BY <1>7 DEF h, k, u, p, t

\* A token that was lexed is taken, or stored in an empty buffer.
LEMMA HeldLexed ==
    ASSUME NEW s \in Seq(Token), NEW q, QueueOK(q), q.size = 0, NEW t \in Token
    PROVE  HeldIn(Append(s, t), q) = Append(HeldIn(s, q), t)
  <1>1. \A u \in Seq(Token) : HeldIn(u, q) = u
    <2>. TAKE u \in Seq(Token)
    <2>. DEFINE h == HeldIn(u, q)
    <2>1. /\ h \in Seq(Token) /\ Len(u) \in Nat /\ Len(h) = Len(u) + q.size
          /\ \A i \in 1 .. Len(u) + q.size :
                h[i] = IF i <= Len(u) THEN u[i] ELSE q.buffer[q.size - (i - Len(u))]
      BY HeldFacts
    <2>. HIDE DEF h
    <2>2. Len(h) = Len(u) /\ \A i \in 1 .. Len(h) : h[i] = u[i]
      BY <2>1
    <2>3. h = u
      BY <2>1, <2>2, SeqEqual
    <2>. QED
      BY <2>3 DEF h
  <1>2. Append(s, t) \in Seq(Token)
    OBVIOUS
  <1>. QED
    BY <1>1, <1>2

LEMMA HeldPeeked ==
    ASSUME NEW s \in Seq(Token), NEW q, QueueOK(q), q.size = 0,
           NEW r, QueueOK(r), r.size = 1, NEW t \in Token, r.buffer[0] = t
    PROVE  HeldIn(s, r) = Append(HeldIn(s, q), t)
  <1>. DEFINE h == HeldIn(s, r)
              k == HeldIn(s, q)
              a == Append(k, t)
  <1>1. /\ h \in Seq(Token) /\ Len(s) \in Nat /\ Len(h) = Len(s) + r.size
        /\ \A i \in 1 .. Len(s) + r.size :
              h[i] = IF i <= Len(s) THEN s[i] ELSE r.buffer[r.size - (i - Len(s))]
    BY HeldFacts
  <1>2. /\ k \in Seq(Token) /\ Len(k) = Len(s) + q.size
        /\ \A i \in 1 .. Len(s) + q.size :
              k[i] = IF i <= Len(s) THEN s[i] ELSE q.buffer[q.size - (i - Len(s))]
    BY HeldFacts
  <1>. HIDE DEF h, k
  <1>3. /\ a \in Seq(Token) /\ Len(a) = Len(s) + 1
        /\ \A i \in 1 .. Len(s) : a[i] = k[i]
        /\ a[Len(s) + 1] = t
    BY <1>1, <1>2, AppendProperties
  <1>. HIDE DEF a
  <1>4. Len(h) = Len(a)
    BY <1>1, <1>3
  <1>5. ASSUME NEW i \in 1 .. Len(h)
        PROVE  h[i] = a[i]
    <2>1. CASE i <= Len(s)
      BY <1>1, <1>2, <1>3, <2>1
    <2>2. CASE i = Len(s) + 1
      <3>1. r.size - (i - Len(s)) = 0 /\ ~ (i <= Len(s))
        BY <1>1, <2>2
      <3>. QED
        BY <1>1, <1>3, <2>2, <3>1
    <2>. QED
      BY <1>1, <2>1, <2>2
  <1>6. h = a
    BY <1>1, <1>3, <1>4, <1>5, SeqEqual
  <1>. QED
    BY <1>6 DEF h, a, k

\* The last token that was taken goes back.
LEMMA HeldBack ==
    ASSUME NEW s \in Seq(Token), s # <<>>, NEW q, QueueOK(q),
           NEW r, QueueOK(r), r.size = q.size + 1, r.buffer[q.size] = s[Len(s)],
           \A i \in 0 .. q.size - 1 : r.buffer[i] = q.buffer[i]
    PROVE  LET u == SubSeq(s, 1, Len(s) - 1)
           IN  u \in Seq(Token) /\ HeldIn(u, r) = HeldIn(s, q)
  <1>. DEFINE u == SubSeq(s, 1, Len(s) - 1)
  <1>1. /\ Len(s) \in Nat \ {0} /\ u \in Seq(Token) /\ Len(u) = Len(s) - 1
        /\ \A i \in 1 .. Len(s) - 1 : u[i] = s[i]
    <2>1. Len(s) \in Nat \ {0}
      BY EmptySeq
    <2>2. \A i \in 1 .. Len(s) - 1 : s[i] \in Token /\ 1 + i - 1 = i
      OBVIOUS
    <2>3. 1 \in Int /\ Len(s) - 1 \in Int
      BY <2>1
    <2>4. /\ u \in Seq(Token)
          /\ Len(u) = IF 1 <= Len(s) - 1 THEN (Len(s) - 1) - 1 + 1 ELSE 0
          /\ \A i \in 1 .. (Len(s) - 1) - 1 + 1 : u[i] = s[1 + i - 1]
      BY <2>2, <2>3, SubSeqProperties
    <2>. HIDE DEF u
    <2>5. \A n \in Nat \ {0} : (n - 1) - 1 + 1 = n - 1 /\ (~ (1 <= n - 1) => n - 1 = 0)
      OBVIOUS
    <2>. QED
      BY <2>1, <2>2, <2>4, <2>5
  <1>. HIDE DEF u
  <1>. DEFINE h == HeldIn(u, r)
              k == HeldIn(s, q)
  <1>2. /\ h \in Seq(Token) /\ Len(h) = Len(u) + r.size /\ Len(u) \in Nat
        /\ \A i \in 1 .. Len(u) + r.size :
              h[i] = IF i <= Len(u) THEN u[i] ELSE r.buffer[r.size - (i - Len(u))]
    BY <1>1, HeldFacts
  <1>3. /\ k \in Seq(Token) /\ Len(k) = Len(s) + q.size /\ q.size \in Nat
        /\ \A i \in 1 .. Len(s) + q.size :
              k[i] = IF i <= Len(s) THEN s[i] ELSE q.buffer[q.size - (i - Len(s))]
    BY HeldFacts
  <1>. HIDE DEF h, k
  <1>4. Len(h) = Len(k)
    BY <1>1, <1>2, <1>3
  <1>5. ASSUME NEW i \in 1 .. Len(h)
        PROVE  h[i] = k[i]
    <2>1. i \in 1 .. Len(u) + r.size /\ i \in 1 .. Len(s) + q.size
      BY <1>2, <1>3, <1>4
    <2>5. i \in Int /\ i >= 1 /\ i <= Len(s) + q.size /\ Len(s) \in Int /\ q.size \in Int
      BY <1>1, <1>3, <2>1
    <2>6. Len(u) = Len(s) - 1 /\ r.size = q.size + 1
      BY <1>1
    <2>2. CASE i < Len(s)
      <3>1. i \in 1 .. Len(s) - 1 /\ i <= Len(s) - 1 /\ i <= Len(s)
        BY <2>2, <2>5
      <3>. QED
        BY <1>1, <1>2, <1>3, <2>1, <2>6, <3>1
    <2>3. CASE i = Len(s)
      <3>1. /\ ~ (i <= Len(s) - 1) /\ i <= Len(s)
            /\ (q.size + 1) - (i - (Len(s) - 1)) = q.size
        BY <2>3, <2>5
      <3>2. h[i] = r.buffer[q.size]
        BY <1>2, <2>1, <2>6, <3>1
      <3>3. k[i] = s[Len(s)]
        BY <1>3, <2>1, <2>3, <3>1
      <3>. QED
        BY <3>2, <3>3
    <2>4. CASE i > Len(s)
      <3>1. /\ ~ (i <= Len(s) - 1) /\ ~ (i <= Len(s))
            /\ (q.size + 1) - (i - (Len(s) - 1)) = q.size - (i - Len(s))
            /\ q.size - (i - Len(s)) \in 0 .. q.size - 1
        BY <2>4, <2>5
      <3>2. h[i] = r.buffer[q.size - (i - Len(s))]
        BY <1>2, <2>1, <2>6, <3>1
      <3>3. k[i] = q.buffer[q.size - (i - Len(s))]
        BY <1>3, <2>1, <3>1
      <3>. QED
        BY <3>1, <3>2, <3>3
    <2>. QED
      BY <2>2, <2>3, <2>4, <2>5
  <1>6. h = k
    BY <1>2, <1>3, <1>4, <1>5, SeqEqual
  <1>. QED
    BY <1>1, <1>6 DEF h, k, u

\* Nothing is held.
LEMMA HeldNone ==
    ASSUME NEW q, QueueOK(q), q.size = 0
    PROVE  HeldIn(<<>>, q) = <<>>
  <1>1. <<>> \in Seq(Token) /\ Len(<<>>) = 0
    OBVIOUS
  <1>. DEFINE e == <<>>
  <1>2. e \in Seq(Token) /\ Len(e) = 0
    BY <1>1
  <1>. HIDE DEF e
  <1>3. HeldIn(e, q) \in Seq(Token) /\ Len(HeldIn(e, q)) = 0
    <2>1. HeldIn(e, q) \in Seq(Token) /\ Len(HeldIn(e, q)) = Len(e) + q.size
      BY <1>2, HeldFacts
    <2>. QED
      BY <1>2, <2>1
  <1>4. HeldIn(e, q) = e
    BY <1>2, <1>3, SeqEqual
  <1>. QED
    BY <1>4 DEF e

-----------------------------------------------------------------------------
\* The inductive invariant.

\* Where the text goes on behind the token i.
EndOf(h, i) == IF i = 0 THEN 1 ELSE h[i].from + h[i].length

\* A token that stands behind the position e, with nothing but white space in
\* between, knows its row and column, and is the longest lexeme there.
LaidBehind(t, e, m, n) ==
    /\ t.from \in e .. n + 2
    /\ t.from + t.length <= n + 2
    /\ \A k \in e .. t.from - 1 : m[k] \in Space
    /\ Located([row |-> t.row, column |-> t.column], m, t.from)
    /\ Longest(t.type, t.from, t.from + t.length, m, n)

Laid(h, m, n) ==
    \A i \in DOMAIN h : EndOf(h, i - 1) \in 1 .. n + 2 /\ LaidBehind(h[i], EndOf(h, i - 1), m, n)

FixedOK == client \in Clients /\ file \in Files[client] /\ beyond \in Beyond[client]

\* The lexer stands right behind the last token held, and knows where that is.
HeadOK ==
    /\ head \in 1 .. Len(file) + 2
    /\ head = EndOf(Held, Len(Held))
    /\ Located(place, memory, head)

LInv ==
    /\ FixedOK
    /\ QueueOK(peek_buffer) /\ taken \in Seq(Token)
    /\ Laid(Held, memory, Len(file))
    /\ phase \in {"running", "destroyed", "asserted", "wild"}
    /\ phase = "running" => HeadOK
    /\ phase = "wild" => Unbacked(peek_buffer)
    /\ head \in 0 .. Len(file) + 2 /\ place \in Places
    /\ has_error \in BOOLEAN /\ result.ok \in BOOLEAN

LEMMA MemoryOK == ASSUME FixedOK PROVE Memory(memory, Len(file))
  <1>1. file \in Seq(STRING) /\ beyond \in Seq(STRING) /\ Len(beyond) = 2
    BY FilesAssumption, BeyondAssumption DEF FixedOK
  <1>2. Len(file) \in Nat
    BY <1>1
  <1>3. file \o beyond \in Seq(STRING) /\ Len(file \o beyond) = Len(file) + Len(beyond)
    BY <1>1, ConcatProperties
  <1>. QED
    BY <1>1, <1>2, <1>3 DEF Memory, memory

LEMMA LaidFurther ==
    ASSUME NEW m, NEW n \in Nat, NEW h \in Seq(Token), Laid(h, m, n),
           NEW t \in Token, EndOf(h, Len(h)) \in 1 .. n + 2,
           LaidBehind(t, EndOf(h, Len(h)), m, n)
    PROVE  LET a == Append(h, t)
           IN  /\ Laid(a, m, n)
               /\ EndOf(a, Len(a)) = t.from + t.length
  <1>. DEFINE a == Append(h, t)
  <1>1. /\ a \in Seq(Token) /\ Len(a) = Len(h) + 1 /\ Len(h) \in Nat
        /\ \A i \in 1 .. Len(h) : a[i] = h[i]
        /\ a[Len(h) + 1] = t
        /\ DOMAIN h = 1 .. Len(h) /\ DOMAIN a = 1 .. Len(h) + 1
    BY AppendProperties
  <1>. HIDE DEF a
  <1>2. \A i \in 0 .. Len(h) : EndOf(a, i) = EndOf(h, i)
    <2>1. \A i \in 0 .. Len(h) : i # 0 => i \in 1 .. Len(h)
      BY <1>1
    <2>. QED
      BY <1>1, <2>1 DEF EndOf
  <1>3. ASSUME NEW i \in DOMAIN a
        PROVE  EndOf(a, i - 1) \in 1 .. n + 2 /\ LaidBehind(a[i], EndOf(a, i - 1), m, n)
    <2>1. i - 1 \in 0 .. Len(h)
      BY <1>1
    <2>2. EndOf(a, i - 1) = EndOf(h, i - 1)
      BY <1>2, <2>1
    <2>3. CASE i = Len(h) + 1
      <3>1. i - 1 = Len(h)
        BY <1>1, <2>3
      <3>. QED
        BY <1>1, <2>2, <2>3, <3>1
    <2>4. CASE i # Len(h) + 1
      <3>1. i \in DOMAIN h /\ a[i] = h[i]
        BY <1>1, <2>4
      <3>. QED
        BY <2>2, <3>1 DEF Laid
    <2>. QED
      BY <2>3, <2>4
  <1>4. EndOf(a, Len(a)) = t.from + t.length
    BY <1>1 DEF EndOf
  <1>. QED
    BY <1>3, <1>4 DEF Laid, a

\* What a call that lexes finds.
Upcoming == LexFrom(memory, Len(file), head, place)

LEMMA FoundOK ==
    ASSUME LInv, Running
    PROVE  /\ Upcoming.token \in Token
           /\ Upcoming.has_error \in BOOLEAN
           /\ ~ Upcoming.asserts => LaidBehind(Upcoming.token, head, memory, Len(file))
           /\ Upcoming.head = Upcoming.token.from + Upcoming.token.length
           /\ Upcoming.head \in 1 .. Len(file) + 2
           /\ Located(Upcoming.place, memory, Upcoming.head)
  <1>. DEFINE n == Len(file)
              m == memory
              p == trim_left(m, n, head)
              here == skip_char(place, SubSeq(m, head, p - 1))
              s == Scan(m, n, p)
              there == skip_char(here, SubSeq(m, p, s.next - 1))
              t == Upcoming.token
  <1>1. Memory(m, n) /\ head \in 1 .. n + 2 /\ Located(place, m, head)
    BY MemoryOK DEF LInv, HeadOK, Running
  <1>2. n \in Nat /\ m \in Seq(STRING) /\ Len(m) = n + 2
    BY <1>1 DEF Memory
  <1>. HIDE DEF n, m
  <1>3. /\ p \in head .. n + 2
        /\ \A k \in head .. p - 1 : m[k] \in Space
        /\ p <= n => m[p] \notin Space
    BY <1>1, TrimLeft
  <1>4. Upcoming = [token |-> [type |-> s.type, from |-> s.from, length |-> s.next - s.from,
                             row |-> here.row, column |-> here.column],
                  head |-> s.next, place |-> there,
                  has_error |-> s.has_error, asserts |-> s.asserts]
    BY DEF Upcoming, LexFrom, LexAt, n, m
  <1>. HIDE DEF p
  <1>5. p \in 1 .. n + 2 /\ p \in Nat \ {0} /\ head \in Nat \ {0} /\ head <= p /\ p <= Len(m) + 1
    BY <1>1, <1>2, <1>3
  <1>6. Located(here, m, p)
    BY <1>1, <1>2, <1>5, SkipLocated
  <1>7. Found(s, n, p) /\ (~ s.asserts => Longest(s.type, p, s.next, m, n))
    BY <1>1, <1>2, <1>3, <1>5, ScanFound, ScanLongest
  <1>. HIDE DEF s, here
  <1>8. /\ s.has_error \in BOOLEAN /\ s.type \in TokenTypes /\ s.from = p
        /\ s.next \in p .. n + 2
    BY <1>7 DEF Found
  <1>9. s.next \in Nat /\ p <= s.next /\ s.next <= Len(m) + 1 /\ s.next \in 1 .. n + 2
        /\ s.next - p \in Nat /\ p + (s.next - p) = s.next
    BY <1>2, <1>5, <1>8
  <1>10. Located(there, m, s.next)
    BY <1>2, <1>5, <1>6, <1>9, SkipLocated
  <1>. HIDE DEF there
  <1>11. here \in Places /\ here = [row |-> here.row, column |-> here.column]
    BY <1>6 DEF Located, Places
  <1>12. /\ Upcoming.head = s.next /\ Upcoming.place = there /\ Upcoming.has_error = s.has_error
         /\ Upcoming.asserts = s.asserts
         /\ t.type = s.type /\ t.from = p /\ t.length = s.next - p
         /\ t.row = here.row /\ t.column = here.column
    BY <1>4, <1>8
  <1>13. t \in Token
    BY <1>4, <1>5, <1>8, <1>9, <1>11 DEF Token, Places
  <1>. HIDE DEF t
  <1>14. ASSUME ~ Upcoming.asserts
         PROVE  LaidBehind(t, head, m, n)
    <2>1. Located([row |-> t.row, column |-> t.column], m, t.from)
      BY <1>6, <1>11, <1>12
    <2>2. Longest(t.type, t.from, t.from + t.length, m, n)
      BY <1>7, <1>9, <1>12, <1>14
    <2>. QED
      BY <1>3, <1>9, <1>12, <2>1, <2>2 DEF LaidBehind
  <1>. QED
    BY <1>8, <1>9, <1>10, <1>12, <1>13, <1>14 DEF n, m, t

-----------------------------------------------------------------------------
\* Every call keeps the invariant.

LEMMA InitLInv == Init => LInv
  <1>. SUFFICES ASSUME Init PROVE LInv
    OBVIOUS
  <1>1. /\ client \in Clients /\ file \in Files[client] /\ beyond \in Beyond[client]
        /\ head = 1 /\ place = Start /\ has_error \in BOOLEAN
        /\ peek_buffer \in IF has_error THEN {Destroyed} ELSE Created(InitialCapacity)
        /\ taken = <<>> /\ result = Answer("create", ~has_error, Uninit)
        /\ phase = "running"
    BY DEF Init, Input, lexer_create
  <1>2. FixedOK
    BY <1>1 DEF FixedOK
  <1>3. QueueOK(peek_buffer) /\ peek_buffer.size = 0
    <2>1. 0 \in Nat /\ QueueOK(Destroyed) /\ Destroyed.size = 0
      BY FreshOK DEF Destroyed
    <2>2. \A q \in Created(InitialCapacity) : QueueOK(q) /\ q.size = 0
      BY CapacityAssumption, FreshOK DEF Created
    <2>. QED
      BY <1>1, <2>1, <2>2
  <1>4. Held = <<>> /\ Len(Held) = 0 /\ DOMAIN Held = {}
    BY <1>1, <1>3, HeldIs, HeldNone
  <1>5. taken \in Seq(Token)
    BY <1>1
  <1>6. Len(file) \in Nat
    BY <1>2, MemoryOK DEF Memory
  <1>7. HeadOK
    BY <1>1, <1>4, <1>6, StartLocated DEF HeadOK, EndOf
  <1>8. Laid(Held, memory, Len(file))
    BY <1>4 DEF Laid
  <1>9. /\ head \in 0 .. Len(file) + 2 /\ place \in Places
        /\ has_error \in BOOLEAN /\ result.ok \in BOOLEAN
    BY <1>1, <1>6 DEF Places, Start, Answer
  <1>. QED
    BY <1>1, <1>2, <1>3, <1>5, <1>7, <1>8, <1>9 DEF LInv

\* The text in memory stays.
LEMMA TextStays ==
    ASSUME LInv, UNCHANGED fixed
    PROVE  FixedOK' /\ memory' = memory /\ file' = file
  BY DEF LInv, FixedOK, memory, fixed

\* A call that leaves the head alone and holds the same tokens, one that lexes
\* and holds one token more, and one that does not return: the assertion of
\* skip_char fails, or the buffer whose cells were refused is written to.
KeepsCells == (peek_buffer'.capacity > 0) = (peek_buffer.capacity > 0)

Stayed ==
    /\ KeepsCells /\ UNCHANGED fixed /\ UNCHANGED lexed /\ UNCHANGED phase
    /\ Running \/ UNCHANGED peek_buffer
    /\ QueueOK(peek_buffer') /\ taken' \in Seq(Token)
    /\ Held' = Held /\ result'.ok \in BOOLEAN

Advanced ==
    /\ KeepsCells /\ Running /\ ~ Upcoming.asserts /\ UNCHANGED fixed /\ UNCHANGED phase
    /\ head' = Upcoming.head /\ place' = Upcoming.place
    /\ has_error' = (has_error \/ Upcoming.has_error)
    /\ QueueOK(peek_buffer') /\ taken' \in Seq(Token)
    /\ Held' = Append(Held, Upcoming.token) /\ result'.ok \in BOOLEAN

Stopped ==
    /\ UNCHANGED fixed
    /\ phase' = "asserted" \/ (phase' = "wild" /\ Unbacked(peek_buffer))
    /\ UNCHANGED <<lexed, peek_buffer, taken, result>>

LEMMA StayKeepsLInv == ASSUME LInv, Stayed PROVE LInv'
  <1>1. FixedOK' /\ memory' = memory /\ file' = file
    BY TextStays DEF Stayed
  <1>2. head' = head /\ place' = place /\ has_error' = has_error /\ phase' = phase
    BY DEF Stayed, lexed
  <1>3. HeadOK => HeadOK'
    <2>1. Located(place, memory, head) => Located(place', memory', head')
      BY <1>1, <1>2
    <2>2. EndOf(Held', Len(Held')) = EndOf(Held, Len(Held))
      BY DEF Stayed
    <2>. QED
      BY <1>1, <1>2, <2>1, <2>2 DEF HeadOK
  <1>4. Laid(Held', memory', Len(file'))
    BY <1>1 DEF LInv, Stayed
  <1>. QED
    BY <1>1, <1>2, <1>3, <1>4 DEF LInv, Stayed, Running

LEMMA AdvanceKeepsLInv == ASSUME LInv, Advanced PROVE LInv'
  <1>. DEFINE t == Upcoming.token
              n == Len(file)
  <1>1. FixedOK' /\ memory' = memory /\ file' = file
    BY TextStays DEF Advanced
  <1>2. /\ t \in Token /\ Upcoming.has_error \in BOOLEAN
        /\ LaidBehind(t, head, memory, n)
        /\ head' = t.from + t.length /\ head' \in 1 .. n + 2
        /\ Located(place', memory, head')
    BY FoundOK DEF Advanced
  <1>. HIDE DEF t
  <1>3. HeadOK /\ Laid(Held, memory, n) /\ n \in Nat
    BY MemoryOK DEF LInv, Advanced, Running, Memory
  <1>4. Held \in Seq(Token)
    BY HeldIs, HeldFacts DEF LInv
  <1>5. EndOf(Held, Len(Held)) \in 1 .. n + 2 /\ LaidBehind(t, EndOf(Held, Len(Held)), memory, n)
    BY <1>2, <1>3 DEF HeadOK
  <1>6. Laid(Held', memory, n) /\ EndOf(Held', Len(Held')) = t.from + t.length
    <2>1. Held' = Append(Held, t)
      BY DEF Advanced, t
    <2>. QED
      BY <1>2, <1>3, <1>4, <1>5, <2>1, LaidFurther
  <1>7. HeadOK'
    BY <1>1, <1>2, <1>6 DEF HeadOK
  <1>8. place' \in Places /\ head' \in 0 .. n + 2
    BY <1>2, <1>3 DEF Located
  <1>9. has_error' \in BOOLEAN
    BY <1>2 DEF LInv, Advanced
  <1>. QED
    BY <1>1, <1>6, <1>7, <1>8, <1>9 DEF LInv, Advanced, Running

LEMMA StopKeepsLInv == ASSUME LInv, Stopped PROVE LInv'
  <1>1. FixedOK' /\ memory' = memory /\ file' = file
    BY TextStays DEF Stopped
  <1>2. /\ head' = head /\ place' = place /\ has_error' = has_error
        /\ peek_buffer' = peek_buffer /\ taken' = taken /\ result' = result
    BY DEF Stopped, lexed
  <1>3. Held' = Held
    BY <1>2 DEF Held, Items
  <1>4. QueueOK(peek_buffer')
    BY <1>2 DEF LInv
  <1>. QED
    BY <1>1, <1>2, <1>3, <1>4 DEF LInv, Stopped

LEMMA NextTokenDoes ==
    ASSUME LInv, lexer_next_token
    PROVE  \/ /\ Stayed /\ peek_buffer.size > 0
              /\ taken' = Append(taken, Front(peek_buffer))
              /\ result' = Answer("next", TRUE, Front(peek_buffer))
           \/ /\ Advanced /\ peek_buffer.size = 0
              /\ taken' = Append(taken, Upcoming.token)
              /\ result' = Answer("next", TRUE, Upcoming.token)
           \/ Stopped
  <1>1. /\ Running /\ peek_buffer.capacity > 0 /\ UNCHANGED fixed
        /\ QueueOK(peek_buffer) /\ taken \in Seq(Token)
        /\ peek_buffer.size \in Nat
    BY DEF lexer_next_token, Usable, LInv, QueueOK, Struct
  <1>2. CASE /\ peek_buffer.size > 0
             /\ Taking(Front(peek_buffer))
             /\ peek_buffer' = Popped(peek_buffer)
             /\ UNCHANGED <<lexed, phase>>
    <2>1. /\ taken' = Append(taken, Front(peek_buffer)) /\ result'.ok = TRUE
          /\ UNCHANGED lexed /\ UNCHANGED phase
      BY <1>2 DEF Taking, Answer
    <2>2. QueueOK(peek_buffer') /\ Front(peek_buffer) \in Token
      BY <1>1, <1>2, PoppedOK
    <2>3. taken' \in Seq(Token)
      BY <1>1, <2>1, <2>2
    <2>4. Held' = Held
      <3>1. Held' = HeldIn(taken', peek_buffer')
        BY DEF Held, HeldIn, Waiting, Items
      <3>. QED
        BY <1>1, <1>2, <2>1, <3>1, HeldIs, HeldTaken
    <2>5. KeepsCells
      BY <1>1, <1>2, PoppedOK DEF KeepsCells
    <2>. QED
      BY <1>1, <1>2, <2>1, <2>2, <2>3, <2>4, <2>5 DEF Stayed, Taking
  <1>3. CASE Lexing(LAMBDA t : Taking(t) /\ UNCHANGED <<peek_buffer, phase>>, FALSE)
    <2>1. /\ peek_buffer.size = 0
          /\ \/ Stops("asserted")
             \/ /\ ~ Upcoming.asserts
                /\ head' = Upcoming.head /\ place' = Upcoming.place
                /\ has_error' = (has_error \/ Upcoming.has_error)
                /\ Taking(Upcoming.token) /\ UNCHANGED <<peek_buffer, phase>>
      BY <1>3 DEF Lexing, Upcoming, LexFrom, memory
    <2>2. CASE Stops("asserted")
      BY <1>1, <2>2 DEF Stops, Stopped
    <2>3. CASE /\ ~ Upcoming.asserts
               /\ head' = Upcoming.head /\ place' = Upcoming.place
               /\ has_error' = (has_error \/ Upcoming.has_error)
               /\ Taking(Upcoming.token) /\ UNCHANGED <<peek_buffer, phase>>
      <3>1. taken' = Append(taken, Upcoming.token) /\ result'.ok = TRUE
        BY <2>3 DEF Taking, Answer
      <3>2. peek_buffer' = peek_buffer /\ UNCHANGED phase
        BY <2>3
      <3>3. Upcoming.token \in Token
        BY <1>1, FoundOK
      <3>4. taken' \in Seq(Token) /\ QueueOK(peek_buffer')
        BY <1>1, <3>1, <3>2, <3>3
      <3>5. Held' = Append(Held, Upcoming.token)
        <4>1. Held' = HeldIn(taken', peek_buffer')
          BY DEF Held, HeldIn, Waiting, Items
        <4>2. \A t \in Token : HeldIn(Append(taken, t), peek_buffer)
                                = Append(HeldIn(taken, peek_buffer), t)
          BY <1>1, <2>1, HeldLexed
        <4>. QED
          BY <3>1, <3>2, <3>3, <4>1, <4>2, HeldIs
      <3>. QED
        BY <1>1, <2>1, <2>3, <3>1, <3>2, <3>4, <3>5 DEF Advanced, Taking, KeepsCells
    <2>. QED
      BY <2>1, <2>2, <2>3
  <1>. QED
    BY <1>2, <1>3 DEF lexer_next_token

LEMMA NextTokenKeepsLInv == ASSUME LInv, lexer_next_token PROVE LInv'
  BY NextTokenDoes, StayKeepsLInv, AdvanceKeepsLInv, StopKeepsLInv

LEMMA PeekTokenDoes ==
    ASSUME LInv, lexer_peek_token
    PROVE  \/ /\ Stayed /\ peek_buffer.size > 0 /\ taken' = taken
              /\ result' = Answer("peek", TRUE, Front(peek_buffer))
           \/ /\ Advanced /\ peek_buffer.size = 0 /\ taken' = taken
              /\ result' = Answer("peek", TRUE, Upcoming.token)
           \/ Stopped
  <1>1. /\ Running /\ peek_buffer.capacity > 0 /\ UNCHANGED fixed
        /\ QueueOK(peek_buffer) /\ taken \in Seq(Token)
        /\ peek_buffer.size \in Nat
    BY DEF lexer_peek_token, Usable, LInv, QueueOK, Struct
  <1>2. CASE /\ peek_buffer.size > 0
             /\ result' = Answer("peek", TRUE, Front(peek_buffer))
             /\ UNCHANGED <<lexed, peek_buffer, taken, phase>>
    <2>1. /\ UNCHANGED lexed /\ UNCHANGED phase /\ peek_buffer' = peek_buffer
          /\ taken' = taken /\ result'.ok = TRUE
      BY <1>2 DEF Answer
    <2>2. Held' = Held
      BY <2>1 DEF Held, Items
    <2>3. QueueOK(peek_buffer')
      BY <1>1, <2>1
    <2>4. taken' \in Seq(Token) /\ peek_buffer.size > 0
          /\ result' = Answer("peek", TRUE, Front(peek_buffer))
      BY <1>1, <1>2, <2>1
    <2>. QED
      BY <1>1, <2>1, <2>2, <2>3, <2>4 DEF Stayed, KeepsCells
  <1>3. ASSUME NEW g \in Grown(peek_buffer),
               Lexing(LAMBDA u : Caching(g, u), Strays(g, 0))
        PROVE  \/ /\ Advanced /\ peek_buffer.size = 0 /\ taken' = taken
                  /\ result' = Answer("peek", TRUE, Upcoming.token)
               \/ Stopped
    <2>1. /\ peek_buffer.size = 0
          /\ \/ Stops("asserted")
             \/ Strays(g, 0) /\ Stops("wild")
             \/ /\ ~ Upcoming.asserts /\ ~ Strays(g, 0)
                /\ head' = Upcoming.head /\ place' = Upcoming.place
                /\ has_error' = (has_error \/ Upcoming.has_error)
                /\ Caching(g, Upcoming.token)
      BY <1>3 DEF Lexing, Upcoming, LexFrom, memory
    <2>4. ASSUME ~ Unbacked(peek_buffer)
          PROVE  /\ g.ok /\ g.queue.capacity \in Nat /\ g.queue \in Struct(g.queue.capacity)
                 /\ g.queue.buffer \in Cells(g.queue.capacity)
                 /\ g.queue.size = peek_buffer.size /\ peek_buffer.size + 1 < g.queue.capacity
                 /\ \A i \in 0 .. peek_buffer.size - 1 : g.queue.buffer[i] = peek_buffer.buffer[i]
                 /\ ~ Strays(g, 0)
      <3>1. /\ g.ok /\ g.queue.capacity \in Nat /\ g.queue \in Struct(g.queue.capacity)
            /\ g.queue.buffer \in Cells(g.queue.capacity)
            /\ g.queue.size = peek_buffer.size /\ peek_buffer.size + 1 < g.queue.capacity
            /\ \A i \in 0 .. peek_buffer.size - 1 : g.queue.buffer[i] = peek_buffer.buffer[i]
        BY <1>1, <2>1, <2>4, GrownRoom
      <3>. QED
        BY <2>1, <3>1 DEF Strays, IsCell, Cells
    <2>2. CASE Stops("asserted")
      BY <1>1, <2>2 DEF Stops, Stopped
    <2>5. CASE Strays(g, 0) /\ Stops("wild")
      BY <1>1, <2>4, <2>5 DEF Stops, Stopped
    <2>3. CASE /\ ~ Upcoming.asserts /\ ~ Strays(g, 0)
               /\ head' = Upcoming.head /\ place' = Upcoming.place
               /\ has_error' = (has_error \/ Upcoming.has_error)
               /\ Caching(g, Upcoming.token)
      <3>. DEFINE t == Upcoming.token
      <3>1. t \in Token
        BY <1>1, FoundOK
      <3>2. /\ peek_buffer' = IF g.ok THEN Stored(g.queue, 0, t) ELSE peek_buffer
            /\ phase' = phase
        BY <2>3 DEF Caching
      <3>3. result'.ok = TRUE /\ taken' = taken
        BY <2>3 DEF Caching, Answer
      <3>. HIDE DEF t
      <3>4. /\ g.ok /\ g.queue.capacity \in Nat /\ g.queue \in Struct(g.queue.capacity)
            /\ g.queue.buffer \in Cells(g.queue.capacity)
            /\ g.queue.size = peek_buffer.size /\ peek_buffer.size + 1 < g.queue.capacity
            /\ \A i \in 0 .. peek_buffer.size - 1 : g.queue.buffer[i] = peek_buffer.buffer[i]
        BY <1>1, <2>3, <2>4, UnbackedStrays
      <3>. DEFINE r == Stored(g.queue, 0, t)
      <3>5. QueueOK(r) /\ r.size = 1 /\ r.buffer[0] = t /\ r.capacity > 0
        BY <1>1, <2>1, <3>1, <3>4, StoredOK
      <3>6. peek_buffer' = r /\ phase' = phase
        BY <3>2, <3>4, <3>5
      <3>. HIDE DEF r
      <3>7. Held' = Append(Held, t)
        <4>1. Held' = HeldIn(taken', peek_buffer')
          BY DEF Held, HeldIn, Waiting, Items
        <4>. QED
          BY <1>1, <2>1, <3>1, <3>3, <3>5, <3>6, <4>1, HeldIs, HeldPeeked
      <3>8. /\ QueueOK(peek_buffer') /\ taken' \in Seq(Token) /\ result'.ok \in BOOLEAN
            /\ KeepsCells
        BY <1>1, <3>3, <3>5, <3>6 DEF KeepsCells
      <3>. QED
        BY <1>1, <2>1, <2>3, <3>3, <3>6, <3>7, <3>8 DEF Advanced, Caching, t
    <2>. QED
      BY <2>1, <2>2, <2>3, <2>5
  <1>. QED
    BY <1>2, <1>3 DEF lexer_peek_token

LEMMA PeekTokenKeepsLInv == ASSUME LInv, lexer_peek_token PROVE LInv'
  BY PeekTokenDoes, StayKeepsLInv, AdvanceKeepsLInv, StopKeepsLInv

LEMMA PutBackTokenDoes ==
    ASSUME LInv, lexer_put_back_token
    PROVE  \/ /\ Stayed /\ taken' = taken
              /\ result' = Answer("put_back", FALSE, Uninit)
           \/ /\ Stayed /\ taken # <<>> /\ taken' = SubSeq(taken, 1, Len(taken) - 1)
              /\ result' = Answer("put_back", TRUE, Uninit)
           \/ Stopped
  <1>1. /\ Running /\ peek_buffer.capacity > 0
        /\ UNCHANGED fixed /\ taken # <<>>
        /\ QueueOK(peek_buffer) /\ taken \in Seq(Token)
    BY DEF lexer_put_back_token, Usable, LInv
  <1>. DEFINE back == taken[Len(taken)]
  <1>2. back \in Token
    <2>1. Len(taken) \in Nat \ {0}
      BY <1>1, EmptySeq
    <2>. QED
      BY <1>1, <2>1
  <1>3. PICK g \in Grown(peek_buffer) :
           \/ /\ ~g.ok
              /\ result' = Answer("put_back", FALSE, Uninit)
              /\ UNCHANGED <<lexed, peek_buffer, taken, phase>>
           \/ /\ Strays(g, g.queue.size)
              /\ Stops("wild")
           \/ /\ g.ok /\ ~Strays(g, g.queue.size)
              /\ result' = Answer("put_back", TRUE, Uninit)
              /\ peek_buffer' = Stored(g.queue, g.queue.size, back)
              /\ taken' = SubSeq(taken, 1, Len(taken) - 1)
              /\ UNCHANGED <<lexed, phase>>
    BY DEF lexer_put_back_token
  <1>. HIDE DEF back
  <1>8. CASE Unbacked(peek_buffer)
    <2>1. g.ok /\ g.queue.size = 0 /\ Strays(g, 0)
      BY <1>1, <1>8, UnbackedStrays
    <2>. QED
      BY <1>1, <1>3, <1>8, <2>1 DEF Stops, Stopped
  <1>4. ASSUME ~ Unbacked(peek_buffer)
        PROVE  /\ g.ok \in BOOLEAN
               /\ g.ok => /\ g.queue.capacity \in Nat /\ g.queue \in Struct(g.queue.capacity)
                          /\ g.queue.buffer \in Cells(g.queue.capacity)
                          /\ g.queue.size = peek_buffer.size
                          /\ peek_buffer.size + 1 < g.queue.capacity
                          /\ \A i \in 0 .. peek_buffer.size - 1 :
                                g.queue.buffer[i] = peek_buffer.buffer[i]
    BY <1>1, <1>4, GrownRoom
  <1>6. CASE ~ Unbacked(peek_buffer) /\ ~ g.ok
    <2>1. /\ peek_buffer' = peek_buffer /\ taken' = taken /\ phase' = phase
          /\ UNCHANGED lexed /\ result' = Answer("put_back", FALSE, Uninit)
      BY <1>3, <1>6 DEF Strays
    <2>2. Held' = Held
      BY <2>1 DEF Held, Items
    <2>3. QueueOK(peek_buffer') /\ result'.ok \in BOOLEAN
      BY <1>1, <2>1 DEF Answer
    <2>. QED
      BY <1>1, <2>1, <2>2, <2>3 DEF Stayed, KeepsCells
  <1>7. CASE ~ Unbacked(peek_buffer) /\ g.ok
    <2>. DEFINE r == Stored(g.queue, peek_buffer.size, back)
    <2>1. /\ QueueOK(r) /\ r.size = peek_buffer.size + 1 /\ r.capacity > 0
          /\ r.buffer[peek_buffer.size] = back
          /\ \A i \in 0 .. peek_buffer.size - 1 : r.buffer[i] = peek_buffer.buffer[i]
          /\ IsCell(g.queue, peek_buffer.size)
      BY <1>1, <1>2, <1>4, <1>7, StoredOK
    <2>2. /\ peek_buffer' = r /\ phase' = phase /\ UNCHANGED lexed
          /\ taken' = SubSeq(taken, 1, Len(taken) - 1)
          /\ result' = Answer("put_back", TRUE, Uninit)
      BY <1>3, <1>4, <1>7, <2>1 DEF Strays
    <2>. HIDE DEF r
    <2>3. /\ SubSeq(taken, 1, Len(taken) - 1) \in Seq(Token)
          /\ HeldIn(SubSeq(taken, 1, Len(taken) - 1), r) = HeldIn(taken, peek_buffer)
      BY <1>1, <2>1, HeldBack DEF back
    <2>4. Held' = Held
      <3>1. Held' = HeldIn(taken', peek_buffer')
        BY DEF Held, HeldIn, Waiting, Items
      <3>. QED
        BY <2>2, <2>3, <3>1, HeldIs
    <2>5. QueueOK(peek_buffer') /\ taken' \in Seq(Token) /\ result'.ok \in BOOLEAN
      BY <2>1, <2>2, <2>3 DEF Answer
    <2>6. KeepsCells
      BY <1>1, <2>1, <2>2 DEF KeepsCells
    <2>. QED
      BY <1>1, <2>2, <2>4, <2>5, <2>6 DEF Stayed
  <1>. QED
    BY <1>4, <1>6, <1>7, <1>8

LEMMA PutBackTokenKeepsLInv == ASSUME LInv, lexer_put_back_token PROVE LInv'
  BY PutBackTokenDoes, StayKeepsLInv, StopKeepsLInv

\* Nothing is held after a reset, and after the end.
LEMMA HeldNothing ==
    ASSUME taken' = <<>>, QueueOK(peek_buffer'), peek_buffer'.size = 0
    PROVE  Held' = <<>>
  <1>1. Held' = HeldIn(taken', peek_buffer')
    BY DEF Held, HeldIn, Waiting, Items
  <1>. QED
    BY <1>1, HeldNone

LEMMA ResetKeepsLInv == ASSUME LInv, lexer_reset PROVE LInv'
  <1>1. /\ UNCHANGED fixed /\ phase' = "running"
        /\ head' = 1 /\ place' = Start /\ has_error' = FALSE /\ taken' = <<>>
        /\ peek_buffer' = Emptied(peek_buffer) /\ result'.ok = TRUE
    BY DEF lexer_reset, Running, Answer
  <1>2. FixedOK' /\ memory' = memory /\ file' = file /\ Len(file) \in Nat
    BY <1>1, TextStays, MemoryOK DEF LInv, Memory
  <1>3. QueueOK(peek_buffer') /\ peek_buffer'.size = 0
    BY <1>1, EmptiedOK DEF LInv
  <1>4. Held' = <<>>
    BY <1>1, <1>3, HeldNothing
  <1>5. Len(Held') = 0 /\ DOMAIN Held' = {}
    BY <1>4
  <1>6. HeadOK'
    BY <1>1, <1>2, <1>5, StartLocated DEF HeadOK, EndOf
  <1>7. Laid(Held', memory', Len(file'))
    BY <1>5 DEF Laid
  <1>8. taken' \in Seq(Token)
    BY <1>1
  <1>9. head' \in 0 .. Len(file') + 2 /\ place' \in Places
    BY <1>1, <1>2 DEF Places, Start
  <1>. QED
    BY <1>1, <1>2, <1>3, <1>6, <1>7, <1>8, <1>9 DEF LInv

LEMMA DestroyKeepsLInv == ASSUME LInv, lexer_destroy PROVE LInv'
  <1>1. /\ UNCHANGED fixed /\ phase' = "destroyed"
        /\ head' = 0 /\ place' = [row |-> 0, column |-> 0] /\ has_error' = FALSE
        /\ taken' = <<>> /\ peek_buffer' = Destroyed /\ result'.ok = TRUE
    BY DEF lexer_destroy, Answer
  <1>2. FixedOK' /\ memory' = memory /\ file' = file /\ Len(file) \in Nat
    BY <1>1, TextStays, MemoryOK DEF LInv, Memory
  <1>3. QueueOK(peek_buffer') /\ peek_buffer'.size = 0
    <2>1. 0 \in Nat /\ QueueOK(Destroyed) /\ Destroyed.size = 0
      BY FreshOK DEF Destroyed
    <2>. QED
      BY <1>1, <2>1
  <1>4. Held' = <<>>
    BY <1>1, <1>3, HeldNothing
  <1>5. DOMAIN Held' = {}
    BY <1>4
  <1>6. Laid(Held', memory', Len(file'))
    BY <1>5 DEF Laid
  <1>7. taken' \in Seq(Token)
    BY <1>1
  <1>8. head' \in 0 .. Len(file') + 2 /\ place' \in Places
    BY <1>1, <1>2 DEF Places
  <1>. QED
    BY <1>1, <1>2, <1>3, <1>6, <1>7, <1>8 DEF LInv

LEMMA NextLInv == ASSUME LInv, [Next]_vars PROVE LInv'
  <1>1. CASE lexer_next_token
    BY <1>1, NextTokenKeepsLInv
  <1>2. CASE lexer_peek_token
    BY <1>2, PeekTokenKeepsLInv
  <1>3. CASE lexer_put_back_token
    BY <1>3, PutBackTokenKeepsLInv
  <1>4. CASE lexer_reset
    BY <1>4, ResetKeepsLInv
  <1>5. CASE lexer_destroy
    BY <1>5, DestroyKeepsLInv
  <1>6. CASE UNCHANGED vars
    <2>1. /\ UNCHANGED fixed /\ UNCHANGED lexed /\ UNCHANGED phase
          /\ peek_buffer' = peek_buffer /\ taken' = taken /\ result' = result
      BY <1>6 DEF vars, fixed, lexed
    <2>2. Held' = Held
      BY <2>1 DEF Held, Items
    <2>3. QueueOK(peek_buffer') /\ taken' \in Seq(Token) /\ result'.ok \in BOOLEAN
      BY <2>1 DEF LInv
    <2>. QED
      BY <2>1, <2>2, <2>3, StayKeepsLInv DEF Stayed, KeepsCells
  <1>. QED
    BY <1>1, <1>2, <1>3, <1>4, <1>5, <1>6 DEF Next, ReadOn, AnyCall

LEMMA LInvAlways == Spec => []LInv
  <1>1. Init => LInv
    BY InitLInv
  <1>2. LInv /\ [Next]_vars => LInv'
    BY NextLInv
  <1>. QED
    BY <1>1, <1>2, PTL DEF Spec

-----------------------------------------------------------------------------
\* What follows from it.

\* What the clients hold are tokens of known types that lie in the file or in
\* the two bytes behind it, and the lexer's fields are of their types
\* (lexer.h:12-32, lexer.c:127-290).
THEOREM TypeCorrect == Spec => []TypeOK
  <1>1. LInv => TypeOK
    <2>. SUFFICES ASSUME LInv PROVE TypeOK
      OBVIOUS
    <2>1. /\ head \in 0 .. Len(file) + 2 /\ place \in Places
          /\ has_error \in BOOLEAN /\ result.ok \in BOOLEAN
          /\ phase \in {"running", "destroyed", "asserted", "wild"}
          /\ QueueOK(peek_buffer) /\ taken \in Seq(Token)
          /\ Laid(Held, memory, Len(file)) /\ Len(file) \in Nat
      BY MemoryOK DEF LInv, Memory
    <2>2. /\ peek_buffer.size \in Nat /\ peek_buffer.capacity \in Nat
          /\ \/ DOMAIN peek_buffer.buffer = 0 .. peek_buffer.capacity - 1
             \/ Unbacked(peek_buffer)
      <3>1. /\ peek_buffer.size \in Nat /\ peek_buffer.capacity \in Nat
            /\ peek_buffer.buffer \in Cells(peek_buffer.capacity) \cup {Blank(0)}
        BY <2>1 DEF QueueOK, Struct
      <3>2. CASE peek_buffer.buffer \in Cells(peek_buffer.capacity)
        BY <3>1, <3>2 DEF Cells
      <3>3. CASE peek_buffer.buffer = Blank(0)
        <4>1. CASE peek_buffer.capacity = 0
          BY <3>1, <3>3, <4>1 DEF Blank
        <4>. QED
          BY <3>1, <3>3, <4>1 DEF Unbacked
      <3>. QED
        BY <3>1, <3>2, <3>3
    <2>3. Held \in Seq(Token)
      BY <2>1, HeldIs, HeldFacts
    <2>4. ASSUME NEW i \in DOMAIN Held
          PROVE  /\ Held[i].type \in TokenTypes
                 /\ Held[i].from \in 1 .. Len(file) + 2
                 /\ Held[i].length \in Nat
      <3>1. Held[i] \in Token
        BY <2>3
      <3>2. EndOf(Held, i - 1) \in 1 .. Len(file) + 2
            /\ Held[i].from \in EndOf(Held, i - 1) .. Len(file) + 2
        BY <2>1 DEF Laid, LaidBehind
      <3>3. Held[i].type \in TokenTypes /\ Held[i].length \in Nat
        BY <3>1 DEF Token
      <3>4. Held[i].from \in 1 .. Len(file) + 2
        BY <2>1, <3>2
      <3>. QED
        BY <3>3, <3>4
    <2>5. place \in [row : Nat, column : Nat]
      BY <2>1 DEF Places
    <2>. QED
      BY <2>1, <2>2, <2>4, <2>5 DEF TypeOK
  <1>. QED
    BY <1>1, LInvAlways, PTL

\* Neither peeking nor putting back writes outside the cells of the peek
\* buffer, however many tokens are put back (peek_queue.c:50, :84, reached from
\* lexer.c:117 and :124), unless malloc refused all of them.
THEOREM NeverWild == Spec => []NoWildAccess
  <1>1. LInv => NoWildAccess
    BY DEF LInv, NoWildAccess
  <1>. QED
    BY <1>1, LInvAlways, PTL

\* Whatever calls the client makes, the tokens it was given and those that wait
\* cover the text up to the head but for white space, in order and without
\* overlap (lexer.c:102-125, :324-330).
THEOREM NothingIsSkipped == Spec => []NothingSkipped
  <1>1. LInv => NothingSkipped
    <2>. SUFFICES ASSUME LInv PROVE NothingSkipped
      OBVIOUS
    <2>1. /\ Laid(Held, memory, Len(file)) /\ Len(file) \in Nat
          /\ phase = "running" => head = EndOf(Held, Len(Held))
      BY MemoryOK DEF LInv, Memory, HeadOK
    <2>2. \A i : End(i) = EndOf(Held, i)
      BY DEF End, EndOf
    <2>3. ASSUME NEW i \in DOMAIN Held
          PROVE  /\ End(i - 1) <= Held[i].from
                 /\ \A k \in End(i - 1) .. Held[i].from - 1 : memory[k] \in Space
      <3>. DEFINE e == EndOf(Held, i - 1)
      <3>1. /\ e \in 1 .. Len(file) + 2 /\ Held[i].from \in e .. Len(file) + 2
            /\ \A k \in e .. Held[i].from - 1 : memory[k] \in Space
        BY <2>1 DEF Laid, LaidBehind
      <3>2. e = End(i - 1)
        BY <2>2
      <3>. HIDE DEF e
      <3>3. e <= Held[i].from
        BY <2>1, <3>1
      <3>. QED
        BY <3>1, <3>2, <3>3
    <2>. QED
      BY <2>1, <2>2, <2>3 DEF NothingSkipped
  <1>. QED
    BY <1>1, LInvAlways, PTL

\* The row and column of a token are those of its first character, counted from
\* the start of the file (skip_char, lexer.c:308-322, and lexer.c:133).
THEOREM LocationsAreExact == Spec => []LocationsExact
  <1>1. LInv => LocationsExact
    <2>. SUFFICES ASSUME LInv, NEW i \in DOMAIN Held
                  PROVE  LET p     == Held[i].from
                             lines == {k \in 1 .. p - 1 : memory[k] = "\n"}
                         IN  /\ Held[i].row = 1 + Cardinality(lines)
                             /\ \/ lines = {} /\ Held[i].column = p
                                \/ \E k \in lines : /\ \A l \in lines : l <= k
                                                    /\ Held[i].column = p - k
      BY DEF LocationsExact
    <2>1. Located([row |-> Held[i].row, column |-> Held[i].column], memory, Held[i].from)
      BY DEF LInv, Laid, LaidBehind
    <2>. QED
      BY <2>1 DEF Located, Breaks
  <1>. QED
    BY <1>1, LInvAlways, PTL

\* A token is a lexeme of its type, and no longer stretch of the file from the
\* same place is a lexeme: every scanning loop stops where it should, and the
\* order of the branches hides none (lexer.c:143-290).
THEOREM TokensAreLongest == Spec => []LongestMatch
  <1>1. LInv => LongestMatch
    <2>. SUFFICES ASSUME LInv PROVE LongestMatch
      OBVIOUS
    <2>1. /\ Laid(Held, memory, Len(file)) /\ Len(file) \in Nat
          /\ QueueOK(peek_buffer) /\ taken \in Seq(Token)
      BY MemoryOK DEF LInv, Memory
    <2>2. Held \in Seq(Token)
      BY <2>1, HeldIs, HeldFacts
    <2>3. ASSUME NEW i \in DOMAIN Held
          PROVE  LET t == Held[i]
                     Longer(e) == SubSeq(memory, t.from, e)
                     ends == t.from + t.length .. Len(file)
                 IN  /\ t.type = "EOF" => t.from > Len(file)
                     /\ t.type = "INVALID" =>
                          \A e \in t.from .. Len(file) :
                             IsLexeme(Longer(e)) => t.length > 0 /\ IsPunctuation(Longer(e))
                     /\ t.type \notin {"EOF", "INVALID"} =>
                          /\ IsOfType(Text(t), t.type)
                          /\ \A e \in ends : ~IsLexeme(Longer(e))
      <3>. DEFINE t == Held[i]
      <3>1. Longest(t.type, t.from, t.from + t.length, memory, Len(file))
        BY <2>1 DEF Laid, LaidBehind
      <3>2. t.from \in Nat /\ t.length \in Nat
        <4>1. t \in Token
          BY <2>2
        <4>. QED
          BY <4>1 DEF Token
      <3>3. /\ Text(t) = SubSeq(memory, t.from, (t.from + t.length) - 1)
            /\ t.from + t.length > t.from => t.length > 0
        BY <3>2 DEF Text
      <3>. QED
        BY <3>1, <3>3 DEF Longest
    <2>. QED
      BY <2>3 DEF LongestMatch
  <1>. QED
    BY <1>1, LInvAlways, PTL

-----------------------------------------------------------------------------
\* The tape.

\* What lexing finds, time after time, k times.
Lexes(g, m, n, k) ==
    g = [i \in 1 .. k |-> IF i = 1 THEN LexFrom(m, n, 1, Start)
                          ELSE LexFrom(m, n, g[i - 1].head, g[i - 1].place)]

LEMMA LexesExists ==
    ASSUME NEW m, NEW n, NEW k \in Nat
    PROVE  \E g : Lexes(g, m, n, k)
  <1>. DEFINE T == {j \in Nat : ~ \E g : Lexes(g, m, n, j)}
  <1>1. T = {}
    <2>. SUFFICES ASSUME T # {} PROVE FALSE
      OBVIOUS
    <2>. DEFINE j == Min(T)
    <2>1. T \subseteq Nat
      OBVIOUS
    <2>2. j \in T /\ \A i \in T : j <= i
      BY <2>1, LeastExists
    <2>. HIDE DEF j
    <2>3. CASE j = 0
      <3>. DEFINE g == [i \in 1 .. 0 |-> 0]
      <3>1. \A i \in 1 .. 0 : FALSE
        OBVIOUS
      <3>2. Lexes(g, m, n, 0)
        BY <3>1 DEF Lexes
      <3>. QED
        BY <2>2, <2>3, <3>2
    <2>4. CASE j # 0
      <3>1. j \in Nat /\ j - 1 \in Nat /\ ~ (j <= j - 1)
        BY <2>2, <2>4
      <3>2. PICK f : Lexes(f, m, n, j - 1)
        BY <2>2, <3>1
      <3>. DEFINE Next1(h, i) == IF i = 1 THEN LexFrom(m, n, 1, Start)
                                 ELSE LexFrom(m, n, h[i - 1].head, h[i - 1].place)
                  g == [i \in 1 .. j |-> IF i = j THEN Next1(f, j) ELSE f[i]]
      <3>3. \A i \in 1 .. j - 1 : f[i] = Next1(f, i)
        BY <3>1, <3>2 DEF Lexes
      <3>4. /\ \A i \in 1 .. j - 1 : i \in 1 .. j /\ i # j /\ (i # 1 => i - 1 \in 1 .. j - 1)
            /\ \A i \in 1 .. j : i = j \/ i \in 1 .. j - 1
            /\ j # 1 => j - 1 \in 1 .. j - 1
            /\ j \in 1 .. j
        BY <2>4, <3>1
      <3>5. \A i \in 1 .. j - 1 : g[i] = f[i]
        BY <3>4
      <3>6. g[j] = Next1(f, j)
        BY <3>4
      <3>7. g = [i \in 1 .. j |-> g[i]]
        OBVIOUS
      <3>. HIDE DEF g
      <3>8. g[j] = Next1(g, j)
        BY <3>4, <3>5, <3>6
      <3>9. \A i \in 1 .. j - 1 : g[i] = Next1(g, i)
        BY <3>3, <3>4, <3>5
      <3>10. \A i \in 1 .. j : g[i] = Next1(g, i)
        BY <3>4, <3>8, <3>9
      <3>11. Lexes(g, m, n, j)
        BY <3>7, <3>10 DEF Lexes
      <3>. QED
        BY <2>2, <3>11
    <2>. QED
      BY <2>3, <2>4
  <1>. QED
    BY <1>1

LEMMA LexingsLex ==
    ASSUME NEW f, NEW b, Len(f) \in Nat
    PROVE  Lexes(Lexings(f, b), f \o b, Len(f), Len(f) + 1)
  <1>. DEFINE F == CHOOSE g : g = [i \in 1 .. Len(f) + 1 |->
                               IF i = 1 THEN LexFrom(f \o b, Len(f), 1, Start)
                               ELSE LexFrom(f \o b, Len(f), g[i - 1].head, g[i - 1].place)]
  <1>1. Lexings(f, b) = F
    BY DEF Lexings
  <1>2. \E g : Lexes(g, f \o b, Len(f), Len(f) + 1)
    BY LexesExists
  <1>3. Lexes(F, f \o b, Len(f), Len(f) + 1)
    BY <1>2 DEF Lexes
  <1>. QED
    BY <1>1, <1>3

\* What lexing finds lies behind the head, and a token that is not empty moves
\* the head.
LEMMA LexMoves ==
    ASSUME NEW m, NEW n, Memory(m, n), NEW at \in 1 .. n + 2, NEW where
    PROVE  LET x == LexFrom(m, n, at, where)
           IN  /\ x.head \in at .. n + 2
               /\ x.token.length # 0 => x.head \in at + 1 .. n + 2
               /\ at > n => x.token.length = 0
  <1>. DEFINE p == trim_left(m, n, at)
              s == Scan(m, n, p)
              x == LexFrom(m, n, at, where)
  <1>1. n \in Nat
    BY DEF Memory
  <1>2. p \in at .. n + 2
    BY TrimLeft
  <1>3. x.head = s.next /\ x.token.length = s.next - s.from
    BY DEF LexFrom, LexAt
  <1>4. at > n => s.next = p /\ s.from = p
    <2>1. at > n => p > n
      BY <1>1, <1>2
    <2>. QED
      BY <2>1 DEF Scan, Lexeme
  <1>. HIDE DEF p, x
  <1>5. p \in 1 .. n + 2 /\ p \in Nat /\ at \in Nat /\ at <= p
    BY <1>1, <1>2
  <1>6. s.from = p /\ s.next \in p .. n + 2
    BY <1>1, <1>5, ScanFound DEF Found
  <1>. HIDE DEF s
  <1>. QED
    BY <1>1, <1>3, <1>4, <1>5, <1>6 DEF x

\* Lexing on from an empty token finds it again.
LEMMA LexRepeats ==
    ASSUME NEW m, NEW n, Memory(m, n), NEW at \in 1 .. n + 2, NEW where,
           LexFrom(m, n, at, where).token.length = 0
    PROVE  LET x == LexFrom(m, n, at, where)
           IN  LexFrom(m, n, x.head, x.place) = x
  <1>. DEFINE p == trim_left(m, n, at)
              here == skip_char(where, SubSeq(m, at, p - 1))
              s == Scan(m, n, p)
              x == LexFrom(m, n, at, where)
  <1>1. n \in Nat /\ m \in Seq(STRING)
    BY DEF Memory
  <1>2. /\ p \in at .. n + 2 /\ (p <= n => m[p] \notin Space)
    BY TrimLeft
  <1>3. /\ x = LexAt(m, p, here, s)
        /\ x.head = s.next /\ x.token.length = s.next - s.from
        /\ x.place = skip_char(here, SubSeq(m, p, s.next - 1))
    BY DEF LexFrom, LexAt
  <1>. HIDE DEF p, here, x
  <1>4. p \in 1 .. n + 2 /\ p \in Nat
    BY <1>1, <1>2
  <1>5. s.from = p /\ s.next \in p .. n + 2
    BY <1>1, <1>4, ScanFound DEF Found
  <1>. HIDE DEF s
  <1>6. s.next = p
    BY <1>1, <1>3, <1>4, <1>5 DEF x
  <1>7. SubSeq(m, p, p - 1) = <<>>
    <2>. DEFINE u == SubSeq(m, p, p - 1)
    <2>1. \A i \in p .. p - 1 : FALSE
      BY <1>4
    <2>2. p \in Int /\ p - 1 \in Int /\ ~ (p <= p - 1)
      BY <1>4
    <2>3. \A i \in p .. p - 1 : m[i] \in STRING
      BY <2>1
    <2>4. u \in Seq(STRING) /\ Len(u) = IF p <= p - 1 THEN (p - 1) - p + 1 ELSE 0
      BY <2>2, <2>3, SubSeqProperties
    <2>. HIDE DEF u
    <2>. QED
      BY <2>2, <2>4, EmptySeq DEF u
  <1>8. skip_char(here, <<>>) = here
    <2>. DEFINE e == <<>>
    <2>1. Len(e) = 0
      OBVIOUS
    <2>. HIDE DEF e
    <2>2. PICK f : Walk(f, here, e, Len(e)) /\ skip_char(here, e) = f[Len(e)]
      BY <2>1, SkipWalks
    <2>3. f[0] = here
      BY <2>1, <2>2 DEF Walk
    <2>. QED
      BY <2>1, <2>2, <2>3 DEF e
  <1>9. x.head = p /\ x.place = here
    BY <1>3, <1>6, <1>7, <1>8
  <1>10. trim_left(m, n, p) = p
    <2>. DEFINE q == trim_left(m, n, p)
    <2>1. /\ q \in p .. n + 2 /\ \A k \in p .. q - 1 : m[k] \in Space
          /\ q <= n + 1 \/ q = p
      BY <1>4, TrimLeft
    <2>. HIDE DEF q
    <2>2. p <= n => ~ (p < q)
      <3>1. p < q => p \in p .. q - 1
        BY <1>1, <1>4, <2>1
      <3>. QED
        BY <1>2, <2>1, <3>1
    <2>3. q = p
      BY <1>1, <1>4, <2>1, <2>2
    <2>. QED
      BY <2>3 DEF q
  <1>11. LexFrom(m, n, p, here) = LexAt(m, p, here, s)
    BY <1>7, <1>8, <1>10 DEF LexFrom, s
  <1>. QED
    BY <1>3, <1>9, <1>11 DEF x

\* Where the tape ends.
Endings(F) == {i \in DOMAIN F : F[i].asserts \/ F[i].token.length = 0}

LEMMA LexingStops ==
    ASSUME NEW m, NEW n, Memory(m, n), NEW F, Lexes(F, m, n, n + 1)
    PROVE  Endings(F) # {}
  <1>1. n \in Nat /\ DOMAIN F = 1 .. n + 1
    BY DEF Memory, Lexes
  <1>2. /\ F[1] = LexFrom(m, n, 1, Start)
        /\ \A i \in 2 .. n + 1 : F[i] = LexFrom(m, n, F[i - 1].head, F[i - 1].place)
    <2>1. 1 \in 1 .. n + 1 /\ \A i \in 2 .. n + 1 : i \in 1 .. n + 1 /\ i # 1
      BY <1>1
    <2>. QED
      BY <2>1 DEF Lexes
  <1>. SUFFICES ASSUME Endings(F) = {} PROVE FALSE
    OBVIOUS
  <1>3. \A i \in 1 .. n + 1 : F[i].token.length # 0
    BY <1>1 DEF Endings
  <1>4. \A at \in 1 .. n + 2 : \A where :
           /\ LexFrom(m, n, at, where).token.length # 0 =>
                LexFrom(m, n, at, where).head \in at + 1 .. n + 2
           /\ at > n => LexFrom(m, n, at, where).token.length = 0
    BY LexMoves
  <1>. DEFINE T == {i \in 1 .. n + 1 : F[i].head \notin i + 1 .. n + 2}
  <1>5. T = {}
    <2>. SUFFICES ASSUME T # {} PROVE FALSE
      OBVIOUS
    <2>. DEFINE j == Min(T)
    <2>1. T \subseteq Nat
      BY <1>1
    <2>2. j \in T /\ \A i \in T : j <= i
      BY <2>1, LeastExists
    <2>. HIDE DEF j
    <2>3. j \in 1 .. n + 1 /\ F[j].head \notin j + 1 .. n + 2
      BY <2>2
    <2>4. CASE j = 1
      <3>1. 1 \in 1 .. n + 2 /\ 1 \in 1 .. n + 1
        BY <1>1
      <3>. QED
        BY <1>2, <1>3, <1>4, <2>3, <2>4, <3>1
    <2>5. CASE j # 1
      <3>. DEFINE at == F[j - 1].head
      <3>1. j \in 2 .. n + 1 /\ j - 1 \in 1 .. n + 1 /\ ~ (j <= j - 1)
        BY <1>1, <2>3, <2>5
      <3>2. at \in (j - 1) + 1 .. n + 2
        BY <2>2, <3>1
      <3>. HIDE DEF at
      <3>3. at \in 1 .. n + 2 /\ at >= j
        BY <1>1, <3>1, <3>2
      <3>4. F[j].head \in at + 1 .. n + 2
        BY <1>2, <1>3, <1>4, <2>3, <3>1, <3>3 DEF at
      <3>. QED
        BY <1>1, <2>3, <3>3, <3>4
    <2>. QED
      BY <2>4, <2>5
  <1>6. CASE n = 0
    <2>1. 1 \in 1 .. n + 2 /\ 1 > n /\ 1 \in 1 .. n + 1
      BY <1>6
    <2>. QED
      BY <1>2, <1>3, <1>4, <2>1
  <1>7. CASE n # 0
    <2>. DEFINE at == F[n].head
    <2>1. n \in 1 .. n + 1 /\ n + 1 \in 2 .. n + 1 /\ n + 1 \in 1 .. n + 1 /\ (n + 1) - 1 = n
      BY <1>1, <1>7
    <2>2. at \in n + 1 .. n + 2
      BY <1>5, <2>1
    <2>. HIDE DEF at
    <2>3. at \in 1 .. n + 2 /\ at > n
      BY <1>1, <2>2
    <2>. QED
      BY <1>2, <1>3, <1>4, <2>1, <2>3 DEF at
  <1>. QED
    BY <1>6, <1>7

Reading == Lexings(file, beyond)

\* The place on the tape of the token that comes after k others.
Nth(k) == IF k < Len(tape) THEN k + 1 ELSE Len(tape)

\* The tape shows what lexing finds, one token after the other, up to the first
\* that stops it.
LEMMA TapeShows ==
    ASSUME FixedOK, tape = Tape(Lexings(file, beyond))
    PROVE  /\ Len(tape) \in 1 .. Len(file) + 1
           /\ \A i \in 1 .. Len(tape) :
                 tape[i] = IF Reading[i].asserts THEN Uninit ELSE Reading[i].token
           /\ Reading[1] = LexFrom(memory, Len(file), 1, Start)
           /\ \A i \in 1 .. Len(file) :
                 Reading[i + 1] = LexFrom(memory, Len(file), Reading[i].head, Reading[i].place)
           /\ Reading[Len(tape)].asserts \/ Reading[Len(tape)].token.length = 0
  <1>. DEFINE n == Len(file)
              F == Reading
              last == Min(Endings(F))
              Show(i) == IF F[i].asserts THEN Uninit ELSE F[i].token
  <1>1. Memory(memory, n) /\ n \in Nat
    BY MemoryOK DEF Memory
  <1>2. Lexes(F, memory, n, n + 1)
    BY <1>1, LexingsLex DEF Reading, memory
  <1>3. Endings(F) # {}
    BY <1>1, <1>2, LexingStops
  <1>4. DOMAIN F = 1 .. n + 1
    BY <1>2 DEF Lexes
  <1>5. tape = [i \in 1 .. last |-> Show(i)]
    BY DEF Tape, Reading, Endings
  <1>. HIDE DEF F, n
  <1>6. last \in Endings(F)
    <2>1. Endings(F) \subseteq Nat
      BY <1>1, <1>4 DEF Endings
    <2>. QED
      BY <1>3, <2>1, LeastExists
  <1>. HIDE DEF last
  <1>7. last \in 1 .. n + 1 /\ last \in Nat /\ (F[last].asserts \/ F[last].token.length = 0)
    BY <1>1, <1>4, <1>6 DEF Endings
  <1>8. Len(tape) = last /\ \A i \in 1 .. last : tape[i] = Show(i)
    <2>. DEFINE X == {Show(i) : i \in 1 .. last}
    <2>1. tape \in [1 .. last -> X]
      BY <1>5
    <2>2. tape \in Seq(X)
      BY <1>7, <2>1, SeqDef
    <2>3. DOMAIN tape = 1 .. last /\ DOMAIN tape = 1 .. Len(tape) /\ Len(tape) \in Nat
      BY <2>1, <2>2
    <2>4. Len(tape) = last
      BY <1>7, <2>3
    <2>. QED
      BY <1>5, <2>4
  <1>9. F[1] = LexFrom(memory, n, 1, Start)
    <2>1. 1 \in 1 .. n + 1
      BY <1>1
    <2>. QED
      BY <1>2, <2>1 DEF Lexes
  <1>10. \A i \in 1 .. n : F[i + 1] = LexFrom(memory, n, F[i].head, F[i].place)
    <2>1. \A i \in 1 .. n : i + 1 \in 1 .. n + 1 /\ i + 1 # 1 /\ (i + 1) - 1 = i
      BY <1>1
    <2>. QED
      BY <1>2, <2>1 DEF Lexes
  <1>. QED
    BY <1>7, <1>8, <1>9, <1>10 DEF F, n

-----------------------------------------------------------------------------
\* The invariant of the refinement.

\* The tokens held are the first of the tape, and lexing on finds the next.
OnTape ==
    /\ \A i \in DOMAIN Held : Held[i] = tape[Nth(i - 1)]
    /\ Running => Upcoming = Reading[Nth(Len(Held))]

CursorStep == Cursor!Next \/ InvalidResetAnswersTrue \/ UNCHANGED Cursor!vars

CInv == LInv /\ tape = Tape(Lexings(file, beyond)) /\ OnTape

LEMMA HeldLength == ASSUME LInv PROVE Held \in Seq(Token) /\ Len(Held) \in Nat
  BY HeldIs, HeldFacts DEF LInv

\* At the start of the tape.
AtStart ==
    FixedOK /\ tape = Tape(Lexings(file, beyond)) /\ Held = <<>> /\ head = 1 /\ place = Start

LEMMA StartOnTape == AtStart => OnTape
  <1>. SUFFICES ASSUME AtStart PROVE OnTape
    OBVIOUS
  <1>1. Nth(0) = 1
    <2>1. Len(tape) \in 1 .. Len(file) + 1 /\ Len(file) \in Nat
      BY TapeShows, MemoryOK DEF Memory, AtStart
    <2>2. 0 + 1 = 1 /\ 0 < Len(tape)
      BY <2>1
    <2>. QED
      BY <2>2 DEF Nth
  <1>2. Len(Held) = 0 /\ DOMAIN Held = {}
    BY DEF AtStart
  <1>3. Upcoming = Reading[1]
    BY TapeShows DEF Upcoming, AtStart
  <1>. QED
    BY <1>1, <1>2, <1>3 DEF OnTape

LEMMA NextStartOnTape == AtStart' => OnTape'
  BY StartOnTape, PTL

\* The token found next is the next of the tape.
LEMMA FoundOnTape ==
    ASSUME CInv, Running, ~ Upcoming.asserts
    PROVE  Upcoming.token = tape[Nth(Len(Held))]
  <1>1. Len(tape) \in Nat \ {0} /\ Len(Held) \in Nat
    <2>1. Len(tape) \in 1 .. Len(file) + 1 /\ Len(file) \in Nat
      BY TapeShows, MemoryOK DEF Memory, CInv, LInv
    <2>. QED
      BY <2>1, HeldLength DEF CInv
  <1>2. Nth(Len(Held)) \in 1 .. Len(tape)
    BY <1>1 DEF Nth
  <1>3. Upcoming = Reading[Nth(Len(Held))]
    BY DEF CInv, OnTape
  <1>. QED
    BY <1>2, <1>3, TapeShows DEF CInv, LInv

\* What the lexer finds behind the token it found.
LEMMA FoundNext ==
    ASSUME CInv, Running, ~ Upcoming.asserts
    PROVE  LexFrom(memory, Len(file), Upcoming.head, Upcoming.place)
             = Reading[Nth(Len(Held) + 1)]
  <1>. DEFINE k == Len(Held)
              l == Len(tape)
              n == Len(file)
              x == Upcoming
  <1>1. l \in 1 .. n + 1 /\ n \in Nat /\ k \in Nat
    BY TapeShows, MemoryOK, HeldLength DEF Memory, CInv, LInv
  <1>2. x = Reading[Nth(k)]
    BY DEF CInv, OnTape
  <1>3. /\ \A i \in 1 .. n : Reading[i + 1] = LexFrom(memory, n, Reading[i].head, Reading[i].place)
        /\ Reading[l].asserts \/ Reading[l].token.length = 0
    BY TapeShows DEF CInv, LInv
  <1>. HIDE DEF k, l, n, x
  <1>4. CASE k + 1 < l
    <2>1. Nth(k) = k + 1 /\ Nth(k + 1) = (k + 1) + 1 /\ k + 1 \in 1 .. n
      BY <1>1, <1>4 DEF Nth, l
    <2>. QED
      BY <1>2, <1>3, <2>1 DEF k, n, x
  <1>5. CASE ~ (k + 1 < l)
    <2>1. Nth(k) = l /\ Nth(k + 1) = l
      BY <1>1, <1>5 DEF Nth, l
    <2>2. x = Reading[l] /\ x.token.length = 0
      BY <1>2, <1>3, <2>1 DEF x
    <2>3. Memory(memory, n) /\ head \in 1 .. n + 2
      BY MemoryOK DEF CInv, LInv, HeadOK, Running, n
    <2>4. x = LexFrom(memory, n, head, place)
      BY DEF x, Upcoming, n
    <2>5. LexFrom(memory, n, x.head, x.place) = x
      BY <2>2, <2>3, <2>4, LexRepeats
    <2>. QED
      BY <2>1, <2>2, <2>5 DEF k, n, x
  <1>. QED
    BY <1>4, <1>5

\* A call that leaves the head alone and holds the same tokens.
LEMMA StayOnTape ==
    ASSUME CInv, UNCHANGED fixed, tape' = tape, UNCHANGED lexed, phase' = phase, Held' = Held
    PROVE  OnTape'
  <1>1. memory' = memory /\ file' = file /\ Reading' = Reading
    BY TextStays DEF CInv, Reading, fixed
  <1>2. head' = head /\ place' = place
    BY DEF lexed
  <1>3. Upcoming' = Upcoming
    BY <1>1, <1>2 DEF Upcoming
  <1>4. \A k : Nth(k)' = Nth(k)
    BY DEF Nth
  <1>. QED
    BY <1>1, <1>3, <1>4 DEF CInv, OnTape, Running, Nth

\* A call that lexes and holds one token more.
LEMMA AdvanceOnTape ==
    ASSUME CInv, Running, ~ Upcoming.asserts, UNCHANGED fixed, tape' = tape,
           head' = Upcoming.head, place' = Upcoming.place,
           Held' = Append(Held, Upcoming.token)
    PROVE  OnTape'
  <1>. DEFINE k == Len(Held)
              t == Upcoming.token
  <1>1. memory' = memory /\ file' = file /\ Reading' = Reading
    BY TextStays DEF CInv, Reading, fixed
  <1>2. Upcoming' = LexFrom(memory, Len(file), Upcoming.head, Upcoming.place)
    BY <1>1 DEF Upcoming
  <1>3. t = tape[Nth(k)] /\ Upcoming' = Reading[Nth(k + 1)]
    BY <1>2, FoundOnTape, FoundNext
  <1>4. t \in Token /\ Held \in Seq(Token)
    BY FoundOK, HeldLength DEF CInv
  <1>. HIDE DEF t
  <1>5. Held' = Append(Held, t)
    BY DEF t
  <1>6. /\ Len(Held') = k + 1 /\ k \in Nat
        /\ \A i \in 1 .. k : Held'[i] = Held[i]
        /\ Held'[k + 1] = t
        /\ DOMAIN Held = 1 .. k /\ DOMAIN Held' = 1 .. k + 1
    BY <1>4, <1>5, AppendProperties
  <1>. HIDE DEF k
  <1>7. ASSUME NEW i \in 1 .. k + 1
        PROVE  Held'[i] = tape[Nth(i - 1)]
    <2>1. CASE i = k + 1
      <3>1. i - 1 = k
        BY <1>6, <2>1
      <3>. QED
        BY <1>3, <1>6, <2>1, <3>1
    <2>2. CASE i # k + 1
      <3>1. i \in 1 .. k
        BY <1>6, <2>2
      <3>. QED
        BY <1>6, <3>1 DEF CInv, OnTape
    <2>. QED
      BY <2>1, <2>2
  <1>8. \A i \in DOMAIN Held' : Held'[i] = tape[Nth(i - 1)]
    BY <1>6, <1>7
  <1>. QED
    BY <1>1, <1>3, <1>6, <1>8 DEF OnTape, Nth

\* A call that does not return is none of the cursor's.
LEMMA StopOnTape ==
    ASSUME CInv, Stopped, tape' = tape
    PROVE  OnTape' /\ CursorStep
  <1>1. /\ phase' # "running" /\ peek_buffer' = peek_buffer
        /\ taken' = taken /\ result' = result
    BY DEF Stopped
  <1>2. Held' = Held
    BY <1>1 DEF Held, Items
  <1>3. OnTape'
    BY <1>1, <1>2 DEF CInv, OnTape, Running, Nth
  <1>4. UNCHANGED Cursor!vars
    BY <1>1 DEF Cursor!vars
  <1>. QED
    BY <1>3, <1>4 DEF CursorStep

-----------------------------------------------------------------------------
\* Every call keeps the invariant and is a step of the cursor.

\* A token that waits in the peek buffer is the next of the tape.
LEMMA FrontOnTape ==
    ASSUME CInv, peek_buffer.size > 0
    PROVE  Front(peek_buffer) = tape[Nth(Len(taken))]
  <1>1. /\ QueueOK(peek_buffer) /\ taken \in Seq(Token)
        /\ \A i \in DOMAIN Held : Held[i] = tape[Nth(i - 1)]
    BY DEF CInv, LInv, OnTape
  <1>. DEFINE k == Len(taken)
              q == peek_buffer
  <1>2. /\ Held \in Seq(Token) /\ k \in Nat /\ q.size \in Nat
        /\ Len(Held) = k + q.size
        /\ \A i \in 1 .. k + q.size :
              Held[i] = IF i <= k THEN taken[i] ELSE q.buffer[q.size - (i - k)]
    BY <1>1, HeldFacts, HeldIs
  <1>3. DOMAIN Held = 1 .. Len(Held)
    BY <1>2
  <1>. HIDE DEF k, q
  <1>4. /\ k + 1 \in 1 .. k + q.size /\ ~ (k + 1 <= k) /\ (k + 1) - k = 1 /\ (k + 1) - 1 = k
    BY <1>2 DEF q
  <1>5. Held[k + 1] = q.buffer[q.size - 1]
    BY <1>2, <1>4
  <1>6. Held[k + 1] = tape[Nth(k)]
    BY <1>1, <1>2, <1>3, <1>4
  <1>. QED
    BY <1>5, <1>6 DEF Front, k, q

\* A call that lexes finds the peek buffer empty, so that the token it finds is
\* the next of the tape.
LEMMA UpcomingOnTape ==
    ASSUME CInv, Running, ~ Upcoming.asserts, peek_buffer.size = 0
    PROVE  Upcoming.token = tape[Nth(Len(taken))]
  <1>1. Len(Held) = Len(taken)
    <2>1. /\ Len(taken) \in Nat /\ Len(Held) = Len(taken) + peek_buffer.size
      BY HeldFacts, HeldIs DEF CInv, LInv
    <2>. QED
      BY <2>1
  <1>. QED
    BY <1>1, FoundOnTape

LEMMA NextTokenOnTape ==
    ASSUME CInv, lexer_next_token, tape' = tape
    PROVE  OnTape' /\ CursorStep
  <1>1. /\ \A t : Len(Append(taken, t)) = Len(taken) + 1
        /\ peek_buffer.capacity > 0
    BY DEF CInv, LInv, lexer_next_token, Usable
  <1>2. CASE /\ Stayed /\ peek_buffer.size > 0
             /\ taken' = Append(taken, Front(peek_buffer))
             /\ result' = Answer("next", TRUE, Front(peek_buffer))
    <2>1. OnTape'
      BY <1>2, StayOnTape DEF Stayed
    <2>2. Cursor!NextToken
      BY <1>1, <1>2, FrontOnTape
         DEF Stayed, KeepsCells, Cursor!NextToken, Cursor!Upcoming, Cursor!Answer, Answer, Nth
    <2>. QED
      BY <2>1, <2>2 DEF CursorStep, Cursor!Next
  <1>3. CASE /\ Advanced /\ peek_buffer.size = 0
             /\ taken' = Append(taken, Upcoming.token)
             /\ result' = Answer("next", TRUE, Upcoming.token)
    <2>1. OnTape'
      BY <1>3, AdvanceOnTape DEF Advanced
    <2>2. Upcoming.token = tape[Nth(Len(taken))]
      BY <1>3, UpcomingOnTape DEF Advanced
    <2>3. Cursor!NextToken
      BY <1>1, <1>3, <2>2
         DEF Advanced, KeepsCells, Cursor!NextToken, Cursor!Upcoming, Cursor!Answer, Answer, Nth
    <2>. QED
      BY <2>1, <2>3 DEF CursorStep, Cursor!Next
  <1>4. CASE Stopped
    BY <1>4, StopOnTape
  <1>. QED
    BY <1>2, <1>3, <1>4, NextTokenDoes DEF CInv

LEMMA PeekTokenOnTape ==
    ASSUME CInv, lexer_peek_token, tape' = tape
    PROVE  OnTape' /\ CursorStep
  <1>0. peek_buffer.capacity > 0
    BY DEF lexer_peek_token, Usable
  <1>1. CASE /\ Stayed /\ peek_buffer.size > 0 /\ taken' = taken
             /\ result' = Answer("peek", TRUE, Front(peek_buffer))
    <2>1. OnTape'
      BY <1>1, StayOnTape DEF Stayed
    <2>2. Cursor!PeekToken
      BY <1>0, <1>1, FrontOnTape
         DEF Stayed, KeepsCells, Cursor!PeekToken, Cursor!Upcoming, Cursor!Answer, Answer, Nth
    <2>. QED
      BY <2>1, <2>2 DEF CursorStep, Cursor!Next
  <1>2. CASE /\ Advanced /\ peek_buffer.size = 0 /\ taken' = taken
             /\ result' = Answer("peek", TRUE, Upcoming.token)
    <2>1. OnTape'
      BY <1>2, AdvanceOnTape DEF Advanced
    <2>2. Upcoming.token = tape[Nth(Len(taken))]
      BY <1>2, UpcomingOnTape DEF Advanced
    <2>3. Cursor!PeekToken
      BY <1>0, <1>2, <2>2
         DEF Advanced, KeepsCells, Cursor!PeekToken, Cursor!Upcoming, Cursor!Answer, Answer, Nth
    <2>. QED
      BY <2>1, <2>3 DEF CursorStep, Cursor!Next
  <1>3. CASE Stopped
    BY <1>3, StopOnTape
  <1>. QED
    BY <1>1, <1>2, <1>3, PeekTokenDoes DEF CInv

LEMMA PutBackTokenOnTape ==
    ASSUME CInv, lexer_put_back_token, tape' = tape
    PROVE  OnTape' /\ CursorStep
  <1>1. peek_buffer.capacity > 0
    BY DEF lexer_put_back_token, Usable
  <1>2. Stayed => OnTape'
    BY StayOnTape DEF Stayed
  <1>3. CASE Stayed /\ taken' = taken /\ result' = Answer("put_back", FALSE, Uninit)
    <2>1. Cursor!PutBackRefused
      BY <1>1, <1>3 DEF Stayed, KeepsCells, Cursor!PutBackRefused, Cursor!Answer, Answer
    <2>. QED
      BY <1>2, <1>3, <2>1 DEF CursorStep, Cursor!Next
  <1>4. CASE /\ Stayed /\ taken # <<>> /\ taken' = SubSeq(taken, 1, Len(taken) - 1)
             /\ result' = Answer("put_back", TRUE, Uninit)
    <2>1. taken \in Seq(Token) /\ Len(taken) \in Nat \ {0}
      BY <1>4, EmptySeq DEF CInv, LInv
    <2>2. Len(taken') = Len(taken) - 1
      <3>. DEFINE u == SubSeq(taken, 1, Len(taken) - 1)
      <3>1. \A i \in 1 .. Len(taken) - 1 : taken[i] \in Token
        BY <2>1
      <3>2. 1 \in Int /\ Len(taken) - 1 \in Int
        BY <2>1
      <3>3. Len(u) = IF 1 <= Len(taken) - 1 THEN (Len(taken) - 1) - 1 + 1 ELSE 0
        BY <3>1, <3>2, SubSeqProperties
      <3>. HIDE DEF u
      <3>4. \A n \in Nat \ {0} : (n - 1) - 1 + 1 = n - 1 /\ (~ (1 <= n - 1) => n - 1 = 0)
        OBVIOUS
      <3>5. Len(u) = Len(taken) - 1
        BY <2>1, <3>3, <3>4
      <3>. QED
        BY <1>4, <3>5 DEF u
    <2>3. Cursor!PutBack
      BY <1>1, <1>4, <2>1, <2>2
         DEF Stayed, KeepsCells, Cursor!PutBack, Cursor!Answer, Answer
    <2>. QED
      BY <1>2, <1>4, <2>3 DEF CursorStep, Cursor!Next
  <1>5. CASE Stopped
    BY <1>5, StopOnTape
  <1>. QED
    BY <1>3, <1>4, <1>5, PutBackTokenDoes DEF CInv

LEMMA ResetOnTape ==
    ASSUME CInv, lexer_reset, tape' = tape
    PROVE  OnTape' /\ CursorStep
  <1>1. /\ UNCHANGED fixed /\ head' = 1 /\ place' = Start /\ taken' = <<>>
        /\ peek_buffer' = Emptied(peek_buffer)
        /\ result' = Answer("reset", TRUE, Uninit)
    BY DEF lexer_reset
  <1>2. Held' = <<>>
    BY <1>1, EmptiedOK, HeldNothing DEF CInv, LInv
  <1>3. FixedOK' /\ tape' = Tape(Lexings(file', beyond'))
    BY <1>1, TextStays DEF CInv, fixed
  <1>4. OnTape'
    BY <1>1, <1>2, <1>3, NextStartOnTape DEF AtStart
  <1>5. Len(taken') = 0
    BY <1>1
  <1>6. peek_buffer'.capacity = peek_buffer.capacity /\ peek_buffer.capacity \in Nat
    BY <1>1 DEF CInv, LInv, QueueOK, Struct, Emptied
  <1>7. CASE peek_buffer.capacity > 0
    <2>1. Cursor!Reset
      BY <1>1, <1>5, <1>6, <1>7 DEF Cursor!Reset, Cursor!Answer, Answer
    <2>. QED
      BY <1>4, <2>1 DEF CursorStep, Cursor!Next
  <1>8. CASE peek_buffer.capacity = 0
    <2>1. InvalidResetAnswersTrue
      BY <1>1, <1>6, <1>8 DEF InvalidResetAnswersTrue
    <2>. QED
      BY <1>4, <2>1 DEF CursorStep
  <1>. QED
    BY <1>6, <1>7, <1>8

LEMMA DestroyOnTape ==
    ASSUME CInv, lexer_destroy, tape' = tape
    PROVE  OnTape' /\ CursorStep
  <1>1. /\ phase' = "destroyed" /\ taken' = <<>> /\ peek_buffer' = Destroyed
        /\ result' = Answer("destroy", TRUE, Uninit)
    BY DEF lexer_destroy
  <1>2. Held' = <<>>
    <2>1. 0 \in Nat /\ QueueOK(Destroyed) /\ Destroyed.size = 0
      BY FreshOK DEF Destroyed
    <2>. QED
      BY <1>1, <2>1, HeldNothing
  <1>3. OnTape'
    <2>1. DOMAIN Held' = {}
      BY <1>2
    <2>. QED
      BY <1>1, <2>1 DEF OnTape, Running
  <1>4. Cursor!Destroy
    <2>1. Len(taken') = 0
      BY <1>1
    <2>2. peek_buffer'.capacity = 0
      BY <1>1 DEF Destroyed, Fresh
    <2>. QED
      BY <1>1, <2>1, <2>2 DEF Cursor!Destroy, Cursor!Answer, Answer
  <1>. QED
    BY <1>3, <1>4 DEF CursorStep, Cursor!Next

LEMMA StepOnTape == ASSUME CInv, [TapedNext]_<<vars, tape>> PROVE CInv' /\ CursorStep
  <1>1. CASE TapedNext
    <2>1. Next /\ tape' = tape
      BY <1>1 DEF TapedNext
    <2>2. LInv'
      BY <2>1, NextLInv DEF CInv
    <2>3. OnTape' /\ CursorStep
      BY <2>1, NextTokenOnTape, PeekTokenOnTape, PutBackTokenOnTape, ResetOnTape,
         DestroyOnTape DEF Next, ReadOn, AnyCall
    <2>4. UNCHANGED fixed
      BY <2>1 DEF Next, ReadOn, AnyCall, lexer_next_token, lexer_peek_token,
                  lexer_put_back_token, lexer_reset, lexer_destroy
    <2>. QED
      BY <2>1, <2>2, <2>3, <2>4 DEF CInv, fixed
  <1>2. CASE UNCHANGED <<vars, tape>>
    <2>1. UNCHANGED vars /\ tape' = tape
      BY <1>2
    <2>2. LInv'
      BY <2>1, NextLInv DEF CInv
    <2>3. /\ UNCHANGED fixed /\ UNCHANGED lexed /\ phase' = phase
          /\ peek_buffer' = peek_buffer /\ taken' = taken /\ result' = result
      BY <2>1 DEF vars, fixed, lexed
    <2>4. Held' = Held
      BY <2>3 DEF Held, Items
    <2>5. OnTape'
      BY <2>1, <2>3, <2>4, StayOnTape
    <2>6. UNCHANGED Cursor!vars
      BY <2>1, <2>3 DEF Cursor!vars
    <2>. QED
      BY <2>1, <2>2, <2>3, <2>5, <2>6 DEF CInv, CursorStep, fixed
  <1>. QED
    BY <1>1, <1>2

LEMMA InitOnTape == ASSUME TapedInit PROVE CInv /\ Cursor!Init
  <1>1. LInv
    BY InitLInv DEF TapedInit, Init
  <1>2. /\ head = 1 /\ place = Start /\ taken = <<>> /\ tape = Tape(Lexings(file, beyond))
        /\ has_error \in BOOLEAN
        /\ peek_buffer \in IF has_error THEN {Destroyed} ELSE Created(InitialCapacity)
        /\ result = Answer("create", ~has_error, Uninit)
    BY DEF TapedInit, lexer_create
  <1>3. peek_buffer.size = 0 /\ (peek_buffer.capacity > 0 <=> ~ has_error)
    <2>1. Destroyed.size = 0 /\ Destroyed.capacity = 0
      BY DEF Destroyed, Fresh
    <2>2. \A q \in Created(InitialCapacity) : q.size = 0 /\ q.capacity > 0
      BY CapacityAssumption DEF Created, Fresh
    <2>. QED
      BY <1>2, <2>1, <2>2
  <1>4. Held = <<>>
    BY <1>1, <1>2, <1>3, HeldIs, HeldNone DEF LInv
  <1>5. CInv
    BY <1>1, <1>2, <1>4, StartOnTape DEF AtStart, CInv, LInv
  <1>6. Cursor!Init
    <2>1. Len(taken) = 0 /\ (peek_buffer.capacity > 0) \in BOOLEAN
      BY <1>2
    <2>2. (peek_buffer.capacity > 0) = (~ has_error)
      BY <1>2, <1>3
    <2>. QED
      BY <1>2, <2>1, <2>2 DEF Cursor!Init, Cursor!Answer, Answer
  <1>. QED
    BY <1>5, <1>6

\* The lexer is a cursor on the tape of the file's tokens: whatever order the
\* client takes, peeks, puts back and resets in, it is given the same tokens,
\* those of reading from the start to the end (lexer.h:45-81, lexer.c:77-125);
\* only the answer of a reset is not the cursor's, for a lexer that could not be
\* created (lexer.c:86).
THEOREM RefinesCursor == TapedSpec => ImplementsCursor
  <1>1. TapedInit => CInv /\ Cursor!Init
    BY InitOnTape
  <1>2. CInv /\ [TapedNext]_<<vars, tape>>
        => CInv' /\ [Cursor!Next \/ InvalidResetAnswersTrue]_(Cursor!vars)
    BY StepOnTape DEF CursorStep
  <1>. QED
    BY <1>1, <1>2, PTL DEF TapedSpec, ImplementsCursor
=============================================================================
