------------------------ MODULE ParserTokens_proofs -------------------------
(***************************************************************************)
(* Facts about the lexer as the parser uses it and about the call stack,   *)
(* for the proofs about both parts of the parser.                          *)
(***************************************************************************)
EXTENDS ParserTokens, FiniteSetTheorems, SequenceTheorems, TLAPS

Tokens == [type : Operators \cup OtherTypes \cup {"EOF"}, at : Nat \ {0}]

\* What is pending was read, tokens are numbered as they are read, and nothing
\* comes after the end of the file.
Sound(v) ==
    /\ v \in [file : Files, pending : Seq(Tokens), read : Seq(Tokens)]
    /\ \A i \in DOMAIN v.read :
          /\ v.read[i].at = i
          /\ v.read[i].type \in v.file.types \cup {"EOF"}
          /\ v.read[i].type = "EOF" => i = Len(v.read)
    /\ \A j \in DOMAIN v.pending :
          /\ v.pending[j].at \in DOMAIN v.read
          /\ v.pending[j] = v.read[v.pending[j].at]
          /\ v.pending[j].type = "EOF" => j = Len(v.pending)

\* What was read stays.
Extended(v, w) ==
    /\ w.file = v.file
    /\ \A i \in DOMAIN v.read : i \in DOMAIN w.read /\ w.read[i] = v.read[i]

LEMMA ExtendedTransitive ==
    ASSUME NEW u, NEW v, NEW w, Extended(u, v), Extended(v, w)
    PROVE  Extended(u, w)
  BY DEF Extended

\* Lexing a token that the file may hold, or the end, keeps a view sound.
LEMMA LexedSound ==
    ASSUME NEW v, Sound(v), v.pending = <<>>, ~AtEnd(v),
           NEW type \in v.file.types \cup {"EOF"}
    PROVE  /\ Sound(Lexed(v, type))
           /\ Extended(v, Lexed(v, type))
           /\ Lexed(v, type).pending = <<[type |-> type, at |-> Len(v.read) + 1]>>
           /\ Lexed(v, type).read = Append(v.read, [type |-> type, at |-> Len(v.read) + 1])
  <1>. DEFINE n == Len(v.read) + 1
              t == [type |-> type, at |-> n]
              w == Lexed(v, type)
  <1>1. /\ v \in [file : Files, pending : Seq(Tokens), read : Seq(Tokens)]
        /\ Len(v.read) \in Nat /\ n \in Nat \ {0}
    BY DEF Sound
  <1>2. v.file.types \subseteq Operators \cup OtherTypes
    BY <1>1, FilesAssumption
  <1>3. t \in Tokens /\ t.at = n /\ t.type = type
    BY <1>1, <1>2 DEF Tokens
  <1>4. /\ w \in [file : {v.file}, pending : {<<t>>}, read : {Append(v.read, t)}]
    BY <1>1 DEF Lexed
  <1>5. /\ w.file = v.file /\ w.pending = <<t>> /\ w.read = Append(v.read, t)
    BY <1>4
  <1>. HIDE DEF t, w
  <1>6. w.pending \in Seq(Tokens) /\ w.read \in Seq(Tokens) /\ Len(w.read) = n
    BY <1>1, <1>3, <1>5
  <1>7. w \in [file : Files, pending : Seq(Tokens), read : Seq(Tokens)]
    BY <1>1, <1>4, <1>5, <1>6
  <1>8. \A i \in DOMAIN v.read : i \in DOMAIN w.read /\ w.read[i] = v.read[i] /\ i < n
    BY <1>1, <1>3, <1>5, <1>6
  <1>9. w.read[n] = t /\ n \in DOMAIN w.read
    BY <1>1, <1>3, <1>5, <1>6
  <1>10. \A i \in DOMAIN w.read : i = n \/ i \in DOMAIN v.read
    BY <1>1, <1>5, <1>6
  <1>11. \A i \in DOMAIN v.read : v.read[i].type # "EOF"
    BY <1>1 DEF Sound, AtEnd
  <1>12. \A i \in DOMAIN w.read :
            /\ w.read[i].at = i
            /\ w.read[i].type \in w.file.types \cup {"EOF"}
            /\ w.read[i].type = "EOF" => i = Len(w.read)
    BY <1>3, <1>5, <1>6, <1>8, <1>9, <1>10, <1>11 DEF Sound
  <1>13. \A j \in DOMAIN w.pending :
            /\ w.pending[j].at \in DOMAIN w.read
            /\ w.pending[j] = w.read[w.pending[j].at]
            /\ w.pending[j].type = "EOF" => j = Len(w.pending)
    BY <1>3, <1>5, <1>9
  <1>14. Extended(v, w)
    BY <1>5, <1>8 DEF Extended
  <1>15. Sound(w)
    BY <1>7, <1>12, <1>13 DEF Sound
  <1>. QED
    BY <1>5, <1>14, <1>15 DEF t, w

\* A peek has a token pending, and changes nothing if there was one.
LEMMA PeekedSound ==
    ASSUME NEW v, Sound(v), NEW w \in Peeked(v)
    PROVE  /\ Sound(w) /\ Extended(v, w)
           /\ w.pending # <<>>
           /\ v.pending # <<>> => w = v
  <1>1. CASE v.pending # <<>>
    BY <1>1 DEF Peeked, Extended
  <1>2. CASE v.pending = <<>> /\ AtEnd(v)
    <2>. DEFINE n == Len(v.read)
                t == v.read[n]
    <2>1. /\ v \in [file : Files, pending : Seq(Tokens), read : Seq(Tokens)]
          /\ n \in DOMAIN v.read /\ t \in Tokens /\ t.at = n
      BY <1>2 DEF Sound, AtEnd
    <2>2. w = [v EXCEPT !.pending = <<t>>]
      BY <1>2 DEF Peeked
    <2>3. w \in [file : {v.file}, pending : {<<t>>}, read : {v.read}]
      BY <2>1, <2>2
    <2>4. w.file = v.file /\ w.pending = <<t>> /\ w.read = v.read
      BY <2>3
    <2>. HIDE DEF n, t
    <2>5. w \in [file : Files, pending : Seq(Tokens), read : Seq(Tokens)]
      <3>1. <<t>> \in Seq(Tokens) /\ v.file \in Files /\ v.read \in Seq(Tokens)
        BY <2>1
      <3>. QED
        BY <2>3, <3>1
    <2>6. \A j \in DOMAIN w.pending : j = 1 /\ w.pending[j] = t /\ Len(w.pending) = 1
      BY <2>4
    <2>7. Sound(w)
      BY <2>1, <2>4, <2>5, <2>6 DEF Sound, t
    <2>. QED
      BY <1>2, <2>4, <2>7 DEF Extended
  <1>3. CASE v.pending = <<>> /\ ~AtEnd(v)
    <2>1. PICK type \in v.file.types \cup {"EOF"} : w = Lexed(v, type)
      BY <1>3 DEF Peeked
    <2>. DEFINE t == [type |-> type, at |-> Len(v.read) + 1]
    <2>2. Sound(w) /\ Extended(v, w) /\ w.pending = <<t>>
      BY <1>3, <2>1, LexedSound
    <2>3. w.pending # <<>>
      <3>. HIDE DEF t
      <3>. QED
        BY <2>2
    <2>. QED
      BY <1>3, <2>2, <2>3
  <1>. QED
    BY <1>1, <1>2, <1>3

\* A token that is taken is the first that was pending.
LEMMA TakenSound ==
    ASSUME NEW v, Sound(v), v.pending # <<>>
    PROVE  /\ Sound(Taken(v)) /\ Extended(v, Taken(v))
           /\ Taken(v).pending = Tail(v.pending) /\ Taken(v).read = v.read
           /\ Head(v.pending) \in Tokens
           /\ Head(v.pending).at \in DOMAIN v.read
           /\ v.read[Head(v.pending).at] = Head(v.pending)
           /\ Head(v.pending).type = "EOF" => v.pending = <<Head(v.pending)>>
  <1>. DEFINE w == Taken(v)
              rest == Tail(v.pending)
  <1>1. /\ v \in [file : Files, pending : Seq(Tokens), read : Seq(Tokens)]
        /\ v.pending \in Seq(Tokens)
    BY DEF Sound
  <1>2. w \in [file : {v.file}, pending : {rest}, read : {v.read}]
    BY <1>1 DEF Taken
  <1>3. w.file = v.file /\ w.pending = rest /\ w.read = v.read
    BY <1>2
  <1>4. /\ rest \in Seq(Tokens) /\ Len(rest) = Len(v.pending) - 1 /\ Len(v.pending) \in Nat
        /\ \A j \in DOMAIN rest : j + 1 \in DOMAIN v.pending /\ rest[j] = v.pending[j + 1]
        /\ 1 \in DOMAIN v.pending /\ Head(v.pending) = v.pending[1]
    BY <1>1
  <1>. HIDE DEF rest, w
  <1>5. w \in [file : Files, pending : Seq(Tokens), read : Seq(Tokens)]
    BY <1>1, <1>2, <1>4
  <1>6. \A j \in DOMAIN w.pending :
           /\ w.pending[j].at \in DOMAIN w.read
           /\ w.pending[j] = w.read[w.pending[j].at]
           /\ w.pending[j].type = "EOF" => j = Len(w.pending)
    BY <1>3, <1>4 DEF Sound
  <1>7. Sound(w)
    BY <1>3, <1>5, <1>6 DEF Sound
  <1>8. Extended(v, w)
    BY <1>3 DEF Extended
  <1>9. Head(v.pending).type = "EOF" => v.pending = <<Head(v.pending)>>
    BY <1>1, <1>4 DEF Sound
  <1>10. /\ Head(v.pending) \in Tokens
         /\ Head(v.pending).at \in DOMAIN v.read
         /\ v.read[Head(v.pending).at] = Head(v.pending)
    BY <1>1, <1>4 DEF Sound
  <1>. QED
    BY <1>3, <1>7, <1>8, <1>9, <1>10 DEF w, rest

\* A token that was read may be put back, unless it is the end of the file.
LEMMA PutBackSound ==
    ASSUME NEW v, Sound(v), NEW t, t.at \in DOMAIN v.read, v.read[t.at] = t, t.type # "EOF"
    PROVE  /\ Sound(PutBack(v, t)) /\ Extended(v, PutBack(v, t))
           /\ PutBack(v, t).pending = <<t>> \o v.pending /\ PutBack(v, t).read = v.read
  <1>. DEFINE w == PutBack(v, t)
              more == <<t>> \o v.pending
  <1>1. /\ v \in [file : Files, pending : Seq(Tokens), read : Seq(Tokens)]
        /\ v.pending \in Seq(Tokens) /\ t \in Tokens
    BY DEF Sound
  <1>2. w \in [file : {v.file}, pending : {more}, read : {v.read}]
    BY <1>1 DEF PutBack
  <1>3. w.file = v.file /\ w.pending = more /\ w.read = v.read
    BY <1>2
  <1>4. /\ more \in Seq(Tokens) /\ Len(more) = Len(v.pending) + 1 /\ Len(v.pending) \in Nat
        /\ \A j \in DOMAIN more : \/ j = 1 /\ more[j] = t
                                  \/ j - 1 \in DOMAIN v.pending /\ more[j] = v.pending[j - 1]
    BY <1>1
  <1>. HIDE DEF more, w
  <1>5. w \in [file : Files, pending : Seq(Tokens), read : Seq(Tokens)]
    BY <1>1, <1>2, <1>4
  <1>6. \A j \in DOMAIN w.pending :
           /\ w.pending[j].at \in DOMAIN w.read
           /\ w.pending[j] = w.read[w.pending[j].at]
           /\ w.pending[j].type = "EOF" => j = Len(w.pending)
    BY <1>1, <1>3, <1>4 DEF Sound
  <1>7. Sound(w)
    BY <1>3, <1>5, <1>6 DEF Sound
  <1>8. Extended(v, w)
    BY <1>3 DEF Extended
  <1>. QED
    BY <1>3, <1>7, <1>8 DEF w, more

LEMMA SoundTyped == Sound(tokens) => TokensTyped
  <1>. SUFFICES ASSUME Sound(tokens) PROVE TokensTyped
    OBVIOUS
  <1>1. \A i \in DOMAIN tokens.read :
           tokens.read[i] \in [type : tokens.file.types \cup {"EOF"}, at : {i}]
    <2>. TAKE i \in DOMAIN tokens.read
    <2>1. tokens.read[i] \in Tokens
      BY DEF Sound
    <2>2. tokens.read[i].at = i /\ tokens.read[i].type \in tokens.file.types \cup {"EOF"}
      BY DEF Sound
    <2>. QED
      BY <2>1, <2>2 DEF Tokens
  <1>2. \A i \in DOMAIN tokens.pending :
           tokens.pending[i] \in {tokens.read[j] : j \in DOMAIN tokens.read}
    BY DEF Sound
  <1>. QED
    BY <1>1, <1>2 DEF TokensTyped

-----------------------------------------------------------------------------
\* The call stack is a sequence, of whatever trees its frames keep.
Stacked(s) == s \in Seq({s[i] : i \in DOMAIN s})

LEMMA StackedAny ==
    ASSUME NEW S, NEW s \in Seq(S)
    PROVE  Stacked(s)
  <1>. DEFINE R == {s[i] : i \in DOMAIN s}
  <1>1. Len(s) \in Nat /\ DOMAIN s = 1 .. Len(s) /\ s = [i \in 1 .. Len(s) |-> s[i]]
    OBVIOUS
  <1>2. s \in [1 .. Len(s) -> R]
    BY <1>1
  <1>3. s \in Seq(R)
    BY <1>1, <1>2, SeqDef
  <1>. QED
    BY <1>3 DEF Stacked

LEMMA StackEmpty ==
    ASSUME NEW s, Stacked(s)
    PROVE  /\ Len(s) \in Nat /\ DOMAIN s = 1 .. Len(s)
           /\ s = <<>> <=> Len(s) = 0
  <1>. DEFINE S == {s[i] : i \in DOMAIN s}
  <1>1. s \in Seq(S)
    BY DEF Stacked
  <1>. HIDE DEF S
  <1>. QED
    BY <1>1

LEMMA StackBelow ==
    ASSUME NEW s, Stacked(s), s # <<>>
    PROVE  LET b == SubSeq(s, 1, Len(s) - 1)
           IN  /\ Stacked(b)
               /\ Len(s) \in Nat \ {0} /\ DOMAIN s = 1 .. Len(s)
               /\ Len(b) = Len(s) - 1
               /\ \A i \in 1 .. Len(b) : b[i] = s[i]
  <1>. DEFINE S == {s[i] : i \in DOMAIN s}
              b == SubSeq(s, 1, Len(s) - 1)
  <1>1. s \in Seq(S)
    BY DEF Stacked
  <1>. HIDE DEF S
  <1>2. Len(s) \in Nat \ {0} /\ DOMAIN s = 1 .. Len(s)
    BY <1>1
  <1>3. b \in Seq(S) /\ Len(b) = Len(s) - 1 /\ \A i \in 1 .. Len(b) : b[i] = s[i]
    BY <1>1, <1>2
  <1>4. Stacked(b)
    BY <1>3, StackedAny
  <1>. QED
    BY <1>2, <1>3, <1>4

LEMMA StackPush ==
    ASSUME NEW b, Stacked(b), NEW f
    PROVE  /\ Stacked(b \o <<f>>)
           /\ Len(b) \in Nat /\ Len(b \o <<f>>) = Len(b) + 1
           /\ \A i \in 1 .. Len(b) : (b \o <<f>>)[i] = b[i]
           /\ (b \o <<f>>)[Len(b) + 1] = f
  <1>. DEFINE S == {b[i] : i \in DOMAIN b} \cup {f}
              s == b \o <<f>>
  <1>1. b \in Seq(S) /\ <<f>> \in Seq(S)
    <2>1. b \in Seq({b[i] : i \in DOMAIN b})
      BY DEF Stacked
    <2>. QED
      BY <2>1
  <1>. HIDE DEF S
  <1>2. /\ s \in Seq(S) /\ Len(b) \in Nat /\ Len(s) = Len(b) + 1
        /\ \A i \in 1 .. Len(b) : s[i] = b[i]
        /\ s[Len(b) + 1] = f
    BY <1>1
  <1>3. Stacked(s)
    BY <1>2, StackedAny
  <1>. QED
    BY <1>2, <1>3

LEMMA StackPushTwo ==
    ASSUME NEW b, Stacked(b), NEW f, NEW g
    PROVE  /\ Stacked(b \o <<f, g>>)
           /\ Len(b) \in Nat /\ Len(b \o <<f, g>>) = Len(b) + 2
           /\ \A i \in 1 .. Len(b) : (b \o <<f, g>>)[i] = b[i]
           /\ (b \o <<f, g>>)[Len(b) + 1] = f
           /\ (b \o <<f, g>>)[Len(b) + 2] = g
  <1>. DEFINE S == {b[i] : i \in DOMAIN b} \cup {f, g}
              s == b \o <<f, g>>
  <1>1. b \in Seq(S) /\ <<f, g>> \in Seq(S)
    <2>1. b \in Seq({b[i] : i \in DOMAIN b})
      BY DEF Stacked
    <2>. QED
      BY <2>1
  <1>. HIDE DEF S
  <1>2. /\ s \in Seq(S) /\ Len(b) \in Nat /\ Len(s) = Len(b) + 2
        /\ \A i \in 1 .. Len(b) : s[i] = b[i]
        /\ s[Len(b) + 1] = f /\ s[Len(b) + 2] = g
    BY <1>1
  <1>3. Stacked(s)
    BY <1>2, StackedAny
  <1>. QED
    BY <1>2, <1>3

\* What the call stack is after a call, a return and the two jumps.
LEMMA CallStack ==
    ASSUME Stacked(stack), stack # <<>>, NEW callee, NEW at, NEW tree, Call(callee, at, tree)
    PROVE  /\ Stacked(stack') /\ Len(stack) \in Nat \ {0} /\ Len(stack') = Len(stack) + 1
           /\ DOMAIN stack = 1 .. Len(stack) /\ DOMAIN stack' = 1 .. Len(stack')
           /\ \A i \in 1 .. Len(stack) - 1 : stack'[i] = stack[i]
           /\ stack'[Len(stack)] = Frame(Top.proc, at, tree)
           /\ stack'[Len(stack) + 1] = Frame(callee, "start", Null)
           /\ returned' = Nothing
  <1>. DEFINE f == Frame(Top.proc, at, tree)
              g == Frame(callee, "start", Null)
              b == Below
  <1>1. stack' = b \o <<f, g>> /\ returned' = Nothing
    BY DEF Call
  <1>2. /\ Stacked(b) /\ Len(stack) \in Nat \ {0} /\ Len(b) = Len(stack) - 1
        /\ DOMAIN stack = 1 .. Len(stack)
        /\ \A i \in 1 .. Len(b) : b[i] = stack[i]
    BY StackBelow DEF Below
  <1>. HIDE DEF f, g, b
  <1>3. /\ Stacked(stack') /\ Len(stack') = Len(b) + 2
        /\ \A i \in 1 .. Len(b) : stack'[i] = b[i]
        /\ stack'[Len(b) + 1] = f /\ stack'[Len(b) + 2] = g
    <2>1. \A bb, ff, gg : Stacked(bb) =>
             /\ Stacked(bb \o <<ff, gg>>)
             /\ Len(bb \o <<ff, gg>>) = Len(bb) + 2
             /\ \A i \in 1 .. Len(bb) : (bb \o <<ff, gg>>)[i] = bb[i]
             /\ (bb \o <<ff, gg>>)[Len(bb) + 1] = ff
             /\ (bb \o <<ff, gg>>)[Len(bb) + 2] = gg
      BY StackPushTwo
    <2>. QED
      BY <1>1, <1>2, <2>1
  <1>4. DOMAIN stack' = 1 .. Len(stack')
    BY <1>3 DEF Stacked
  <1>. QED
    BY <1>1, <1>2, <1>3, <1>4 DEF f, g

LEMMA ReturnStack ==
    ASSUME Stacked(stack), stack # <<>>, NEW result, Return(result)
    PROVE  /\ Stacked(stack') /\ Len(stack) \in Nat \ {0} /\ Len(stack') = Len(stack) - 1
           /\ DOMAIN stack = 1 .. Len(stack) /\ DOMAIN stack' = 1 .. Len(stack')
           /\ \A i \in 1 .. Len(stack') : stack'[i] = stack[i]
           /\ returned' = result
  <1>1. stack' = SubSeq(stack, 1, Len(stack) - 1) /\ returned' = result
    BY DEF Return, Below
  <1>2. /\ Stacked(stack') /\ Len(stack) \in Nat \ {0} /\ Len(stack') = Len(stack) - 1
        /\ DOMAIN stack = 1 .. Len(stack)
        /\ \A i \in 1 .. Len(stack') : stack'[i] = stack[i]
    BY <1>1, StackBelow
  <1>3. DOMAIN stack' = 1 .. Len(stack')
    BY <1>2 DEF Stacked
  <1>. QED
    BY <1>1, <1>2, <1>3

\* The top frame is replaced by another.
Replaced(frame) == stack' = Below \o <<frame>> /\ returned' = Nothing

LEMMA ReplacedStack ==
    ASSUME Stacked(stack), stack # <<>>, NEW f, Replaced(f)
    PROVE  /\ Stacked(stack') /\ Len(stack) \in Nat \ {0} /\ Len(stack') = Len(stack)
           /\ DOMAIN stack = 1 .. Len(stack) /\ DOMAIN stack' = 1 .. Len(stack')
           /\ \A i \in 1 .. Len(stack) - 1 : stack'[i] = stack[i]
           /\ stack'[Len(stack)] = f
           /\ returned' = Nothing
  <1>. DEFINE b == Below
  <1>1. stack' = b \o <<f>> /\ returned' = Nothing
    BY DEF Replaced
  <1>2. /\ Stacked(b) /\ Len(stack) \in Nat \ {0} /\ Len(b) = Len(stack) - 1
        /\ DOMAIN stack = 1 .. Len(stack)
        /\ \A i \in 1 .. Len(b) : b[i] = stack[i]
    BY StackBelow DEF Below
  <1>. HIDE DEF b
  <1>3. /\ Stacked(stack') /\ Len(stack') = Len(b) + 1
        /\ \A i \in 1 .. Len(b) : stack'[i] = b[i]
        /\ stack'[Len(b) + 1] = f
    BY <1>1, <1>2, StackPush
  <1>4. DOMAIN stack' = 1 .. Len(stack')
    BY <1>3 DEF Stacked
  <1>. QED
    BY <1>1, <1>2, <1>3, <1>4

\* The stack begins with one frame, and nothing is read.
LEMMA EnteredSound ==
    ASSUME NEW entry, Entered(entry)
    PROVE  /\ Stacked(stack) /\ Len(stack) = 1 /\ DOMAIN stack = {1}
           /\ stack[1] = Frame(entry, "start", Null)
           /\ returned = Nothing
           /\ Sound(tokens) /\ tokens.read = <<>> /\ tokens.pending = <<>>
  <1>. DEFINE f == Frame(entry, "start", Null)
  <1>1. stack = <<f>> /\ returned = Nothing
    BY DEF Entered
  <1>2. PICK file \in Files : tokens = [file |-> file, pending |-> <<>>, read |-> <<>>]
    BY DEF Entered
  <1>3. tokens \in [file : Files, pending : {<<>>}, read : {<<>>}]
    BY <1>2
  <1>4. tokens.read = <<>> /\ tokens.pending = <<>> /\ tokens.file \in Files
    BY <1>3
  <1>5. Sound(tokens)
    <2>1. <<>> \in Seq(Tokens)
      OBVIOUS
    <2>2. tokens \in [file : Files, pending : Seq(Tokens), read : Seq(Tokens)]
      BY <1>2, <2>1
    <2>. QED
      BY <1>4, <2>2 DEF Sound
  <1>. HIDE DEF f
  <1>6. Stacked(stack) /\ Len(stack) = 1 /\ DOMAIN stack = {1} /\ stack[1] = f
    <2>1. stack \in Seq({f}) /\ Len(stack) = 1 /\ DOMAIN stack = {1} /\ stack[1] = f
      BY <1>1
    <2>. QED
      BY <2>1, StackedAny
  <1>. QED
    BY <1>1, <1>4, <1>5, <1>6 DEF f
=============================================================================
