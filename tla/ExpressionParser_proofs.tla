----------------------- MODULE ExpressionParser_proofs -----------------------
(***************************************************************************)
(* Proofs about the calls of the expression parser and the tokens it       *)
(* takes, for files of any length and any operators and levels.            *)
(***************************************************************************)
EXTENDS ExpressionParserSafety, ParserTokens_proofs

\* The tokens held in a view, and what is true of it while an expression is
\* parsed: what is pending is in the order of the file, and the end of the file
\* is never taken.
HeldOf(v) == {i \in DOMAIN v.read : \A j \in DOMAIN v.pending : v.pending[j].at # i}

Sorted(v) == \A i, j \in DOMAIN v.pending : i < j => v.pending[i].at < v.pending[j].at

NoEnd(v) == \A i \in HeldOf(v) : v.read[i].type # "EOF"

Clean(v) == Sound(v) /\ Sorted(v) /\ NoEnd(v)

\* Whatever is pending comes after i.
Above(v, i) ==
    /\ i \in DOMAIN v.read /\ v.read[i].type # "EOF"
    /\ \A j \in DOMAIN v.pending : i < v.pending[j].at

\* From v to w the lexer went on: it took tokens and gave none back.
Advanced(v, w) ==
    /\ Clean(w)
    /\ Extended(v, w)
    /\ HeldOf(v) \subseteq HeldOf(w)
    /\ \A i : Above(v, i) => Above(w, i)

LEMMA HeldIsHeldOf == Held = HeldOf(tokens)
  BY DEF Held, IsPending, HeldOf

LEMMA AdvancedTransitive ==
    ASSUME NEW u, NEW v, NEW w, Advanced(u, v), Advanced(v, w)
    PROVE  Advanced(u, w)
  BY ExtendedTransitive DEF Advanced

LEMMA AdvancedSame ==
    ASSUME NEW v, Clean(v)
    PROVE  Advanced(v, v)
  BY DEF Advanced, Extended

\* The tokens held are finitely many.
LEMMA HeldFinite ==
    ASSUME NEW v, Sound(v)
    PROVE  IsFiniteSet(HeldOf(v)) /\ Cardinality(HeldOf(v)) \in Nat
  <1>1. Len(v.read) \in Nat /\ HeldOf(v) \subseteq 1 .. Len(v.read)
    BY DEF Sound, HeldOf
  <1>2. IsFiniteSet(1 .. Len(v.read))
    BY <1>1, FS_Interval
  <1>. QED
    BY <1>1, <1>2, FS_Subset, FS_CardinalityType

\* A peek takes nothing.  At the end of the file something is pending.
LEMMA PeekedAdvanced ==
    ASSUME NEW v, Clean(v), NEW w \in Peeked(v)
    PROVE  /\ Advanced(v, w)
           /\ HeldOf(w) = HeldOf(v)
           /\ w.pending # <<>>
           /\ v.pending = <<>> => /\ ~AtEnd(v)
                                  /\ \E type \in v.file.types \cup {"EOF"} : w = Lexed(v, type)
  <1>1. CASE v.pending # <<>>
    BY <1>1, AdvancedSame DEF Peeked
  <1>2. CASE v.pending = <<>>
    <2>. DEFINE n == Len(v.read)
    <2>1. /\ v \in [file : Files, pending : Seq(Tokens), read : Seq(Tokens)]
          /\ n \in Nat
      BY DEF Clean, Sound
    <2>2. HeldOf(v) = DOMAIN v.read
      BY <1>2 DEF HeldOf
    <2>3. ~AtEnd(v)
      BY <2>1, <2>2 DEF AtEnd, Clean, NoEnd
    <2>4. PICK type \in v.file.types \cup {"EOF"} : w = Lexed(v, type)
      BY <1>2, <2>3 DEF Peeked
    <2>. DEFINE t == [type |-> type, at |-> n + 1]
    <2>5. /\ Sound(w) /\ Extended(v, w)
          /\ w.pending = <<t>> /\ w.read = Append(v.read, t)
      BY <1>2, <2>3, <2>4, LexedSound DEF Clean
    <2>6. t.at = n + 1
      OBVIOUS
    <2>. HIDE DEF t
    <2>7. DOMAIN w.pending = {1} /\ w.pending[1] = t
      BY <2>5
    <2>8. DOMAIN v.read = 1 .. n /\ DOMAIN w.read = 1 .. n + 1
      BY <2>1, <2>5
    <2>9. HeldOf(w) = HeldOf(v)
      BY <2>1, <2>2, <2>6, <2>7, <2>8 DEF HeldOf
    <2>10. Sorted(w)
      BY <2>7 DEF Sorted
    <2>11. NoEnd(w)
      BY <2>2, <2>5, <2>9 DEF Clean, NoEnd, Extended
    <2>12. \A i : Above(v, i) => Above(w, i)
      BY <2>1, <2>5, <2>6, <2>7, <2>8 DEF Above, Extended
    <2>13. w.pending # <<>>
      BY <2>5
    <2>. QED
      BY <1>2, <2>3, <2>4, <2>5, <2>9, <2>10, <2>11, <2>12, <2>13 DEF Advanced, Clean
  <1>. QED
    BY <1>1, <1>2

\* A token that is taken is held from then on, and comes before all that is
\* pending.
LEMMA TakenAdvanced ==
    ASSUME NEW v, Clean(v), v.pending # <<>>, Head(v.pending).type # "EOF"
    PROVE  LET t == Head(v.pending)
           IN  /\ Advanced(v, Taken(v))
               /\ t \in Tokens
               /\ t.at \in HeldOf(Taken(v)) /\ t.at \notin HeldOf(v)
               /\ Above(Taken(v), t.at) /\ Taken(v).read[t.at] = t
               /\ \A i : Above(v, i) => i < t.at
  <1>. DEFINE t == Head(v.pending)
              w == Taken(v)
  <1>1. /\ v \in [file : Files, pending : Seq(Tokens), read : Seq(Tokens)]
        /\ v.pending \in Seq(Tokens) /\ v.read \in Seq(Tokens)
        /\ Len(v.pending) \in Nat \ {0} /\ Len(v.read) \in Nat
    BY DEF Clean, Sound
  <1>2. /\ Sound(w) /\ Extended(v, w)
        /\ w.pending = Tail(v.pending) /\ w.read = v.read
        /\ t \in Tokens /\ t.at \in DOMAIN v.read /\ v.read[t.at] = t
    BY TakenSound DEF Clean
  <1>3. /\ t = v.pending[1] /\ 1 \in DOMAIN v.pending
        /\ \A j \in DOMAIN w.pending :
              j + 1 \in DOMAIN v.pending /\ j + 1 > 1 /\ w.pending[j] = v.pending[j + 1]
        /\ \A j \in DOMAIN v.pending :
              j = 1 \/ (j - 1 \in DOMAIN w.pending /\ w.pending[j - 1] = v.pending[j])
        /\ DOMAIN w.pending \subseteq Nat /\ DOMAIN v.pending \subseteq Nat
    BY <1>1, <1>2
  <1>. HIDE DEF w, t
  <1>4. \A j \in DOMAIN v.pending : v.pending[j].at \in Nat
    <2>1. \A j \in DOMAIN v.pending : v.pending[j] \in Tokens
      BY <1>1
    <2>. QED
      BY <2>1 DEF Tokens
  <1>5. \A j \in DOMAIN w.pending : t.at < w.pending[j].at
    BY <1>3 DEF Clean, Sorted
  <1>6. HeldOf(w) = HeldOf(v) \cup {t.at} /\ t.at \notin HeldOf(v)
    <2>1. t.at \in HeldOf(w)
      BY <1>2, <1>3, <1>4, <1>5 DEF HeldOf
    <2>2. t.at \notin HeldOf(v)
      BY <1>3 DEF HeldOf
    <2>3. HeldOf(v) \subseteq HeldOf(w)
      BY <1>2, <1>3 DEF HeldOf
    <2>4. \A i \in HeldOf(w) : i = t.at \/ i \in HeldOf(v)
      BY <1>2, <1>3 DEF HeldOf
    <2>. QED
      BY <2>1, <2>2, <2>3, <2>4
  <1>7. Sorted(w)
    <2>. SUFFICES ASSUME NEW i \in DOMAIN w.pending, NEW j \in DOMAIN w.pending, i < j
                  PROVE  w.pending[i].at < w.pending[j].at
      BY DEF Sorted
    <2>1. i + 1 < j + 1
      BY <1>3
    <2>. QED
      BY <1>3, <2>1 DEF Clean, Sorted
  <1>8. NoEnd(w)
    BY <1>2, <1>6 DEF Clean, NoEnd, t
  <1>9. \A i : Above(v, i) => Above(w, i) /\ i < t.at
    BY <1>2, <1>3 DEF Above
  <1>10. Above(w, t.at)
    BY <1>2, <1>5 DEF Above, t
  <1>. QED
    BY <1>2, <1>6, <1>7, <1>8, <1>9, <1>10 DEF Advanced, Clean, w, t

\* A token that comes before all that is pending may be put back; what comes
\* before it still comes before all that is pending.
LEMMA PutBackClean ==
    ASSUME NEW v, Clean(v), NEW t, Above(v, t.at), v.read[t.at] = t
    PROVE  /\ Clean(PutBack(v, t)) /\ Extended(v, PutBack(v, t))
           /\ PutBack(v, t).pending = <<t>> \o v.pending /\ PutBack(v, t).read = v.read
           /\ HeldOf(PutBack(v, t)) = HeldOf(v) \ {t.at}
           /\ \A i : Above(v, i) /\ i < t.at => Above(PutBack(v, t), i)
  <1>. DEFINE w == PutBack(v, t)
  <1>1. /\ v \in [file : Files, pending : Seq(Tokens), read : Seq(Tokens)]
        /\ v.pending \in Seq(Tokens) /\ v.read \in Seq(Tokens)
        /\ Len(v.pending) \in Nat /\ Len(v.read) \in Nat
    BY DEF Clean, Sound
  <1>2. t.at \in DOMAIN v.read /\ t \in Tokens /\ t.type # "EOF"
    BY <1>1 DEF Above
  <1>3. /\ Sound(w) /\ Extended(v, w)
        /\ w.pending = <<t>> \o v.pending /\ w.read = v.read
    BY <1>2, PutBackSound DEF Clean
  <1>4. /\ w.pending[1] = t /\ 1 \in DOMAIN w.pending
        /\ \A j \in DOMAIN v.pending : j + 1 \in DOMAIN w.pending /\ w.pending[j + 1] = v.pending[j]
        /\ \A j \in DOMAIN w.pending :
              j = 1 \/ (j - 1 \in DOMAIN v.pending /\ w.pending[j] = v.pending[j - 1])
        /\ DOMAIN w.pending \subseteq Nat \ {0} /\ DOMAIN v.pending \subseteq Nat
    BY <1>1, <1>2, <1>3
  <1>. HIDE DEF w
  <1>5. HeldOf(w) = HeldOf(v) \ {t.at}
    <2>1. \A i \in HeldOf(w) : i \in HeldOf(v) /\ i # t.at
      BY <1>3, <1>4 DEF HeldOf
    <2>2. \A i \in HeldOf(v) : i # t.at => i \in HeldOf(w)
      BY <1>3, <1>4 DEF HeldOf
    <2>. QED
      BY <2>1, <2>2
  <1>6. Sorted(w)
    <2>. SUFFICES ASSUME NEW i \in DOMAIN w.pending, NEW j \in DOMAIN w.pending, i < j
                  PROVE  w.pending[i].at < w.pending[j].at
      BY DEF Sorted
    <2>1. j - 1 \in DOMAIN v.pending /\ w.pending[j] = v.pending[j - 1]
      BY <1>4
    <2>2. CASE i = 1
      BY <1>4, <2>1, <2>2 DEF Above
    <2>3. CASE i # 1
      <3>1. i - 1 \in DOMAIN v.pending /\ w.pending[i] = v.pending[i - 1] /\ i - 1 < j - 1
        BY <1>4, <2>3
      <3>. QED
        BY <2>1, <3>1 DEF Clean, Sorted
    <2>. QED
      BY <2>2, <2>3
  <1>7. NoEnd(w)
    BY <1>3, <1>5 DEF Clean, NoEnd
  <1>8. \A i : Above(v, i) /\ i < t.at => Above(w, i)
    BY <1>3, <1>4 DEF Above
  <1>. QED
    BY <1>3, <1>5, <1>6, <1>7, <1>8 DEF Clean, w

-----------------------------------------------------------------------------
\* The inductive invariant.  Every frame but one at its start was entered with a
\* token of its own; the operators that wait for their operand were taken in
\* the order of the stack, and whatever is pending comes after them, so that
\* each can be put back.

ExpressionPoints ==
    {<<"function_or_expression", "start">>, <<"function", "start">>,
     <<"beginning", "start">>, <<"beginning", "in_parens">>, <<"beginning", "arguments">>,
     <<"beginning", "rest">>, <<"expression", "start">>, <<"expression", "right_child">>,
     <<"call_list", "start">>, <<"call_list", "argument">>}

FramesOK ==
    /\ Stacked(stack)
    /\ \A i \in DOMAIN stack :
          /\ <<stack[i].proc, stack[i].at>> \in ExpressionPoints
          /\ stack[i].at = "start" => i = Len(stack)
    /\ returned.outcome \in {"none", "success", "failure"}

Waiting(i) == stack[i].at = "right_child"

OperatorsHeld ==
    /\ \A i \in DOMAIN stack : Waiting(i) =>
          /\ Above(tokens, stack[i].tree.at)
          /\ tokens.read[stack[i].tree.at] =
                [type |-> stack[i].tree.type, at |-> stack[i].tree.at]
    /\ \A i, j \in DOMAIN stack :
          i < j /\ Waiting(i) /\ Waiting(j) => stack[i].tree.at < stack[j].tree.at

\* A frame at its start has not taken its token yet.
Deep ==
    Len(stack) <= Cardinality(HeldOf(tokens)) +
                  (IF stack # <<>> /\ Top.at = "start" THEN 1 ELSE 0)

ParenAhead == tokens.pending # <<>> /\ Head(tokens.pending).type = "left_paren"

ParenSeen == Is("call_list", "start") => ParenAhead

Fresh ==
    Is("function_or_expression", "start") =>
        Len(stack) = 1 /\ tokens.read = <<>> /\ tokens.pending = <<>>

Inv == FramesOK /\ Clean(tokens) /\ OperatorsHeld /\ Deep /\ ParenSeen /\ Fresh

LEMMA InitInv == Init => Inv
  <1>. SUFFICES ASSUME Init PROVE Inv
    OBVIOUS
  <1>1. /\ Stacked(stack) /\ Len(stack) = 1 /\ DOMAIN stack = {1}
        /\ stack[1] = Frame("function_or_expression", "start", Null)
        /\ returned = Nothing
        /\ Sound(tokens) /\ tokens.read = <<>> /\ tokens.pending = <<>>
    <2>1. Entered("function_or_expression")
      BY DEF Init
    <2>. QED
      BY <2>1, EnteredSound
  <1>2. Top = stack[1] /\ Top.proc = "function_or_expression" /\ Top.at = "start"
    BY <1>1 DEF Top, Frame
  <1>3. stack # <<>>
    <2>1. Len(stack) # 0
      BY <1>1
    <2>2. \A s : Stacked(s) /\ Len(s) # 0 => s # <<>>
      BY StackEmpty
    <2>. QED
      BY <1>1, <2>1, <2>2
  <1>4. FramesOK
    BY <1>1, <1>2 DEF FramesOK, Nothing, ExpressionPoints
  <1>5. HeldOf(tokens) = {} /\ Clean(tokens)
    BY <1>1 DEF Clean, Sorted, NoEnd, HeldOf
  <1>6. OperatorsHeld
    BY <1>1, <1>2 DEF OperatorsHeld, Waiting
  <1>7. Deep
    <2>1. Cardinality(HeldOf(tokens)) = 0
      BY <1>5, FS_EmptySet
    <2>. QED
      BY <1>1, <1>2, <1>3, <2>1 DEF Deep
  <1>8. ParenSeen /\ Fresh
    BY <1>1, <1>2 DEF ParenSeen, Fresh, Is
  <1>. QED
    BY <1>4, <1>5, <1>6, <1>7, <1>8 DEF Inv

\* A token was taken; and it is the operator that a node stands for.
Grew == \E i \in HeldOf(tokens') : i \notin HeldOf(tokens)

OperatorTaken(tree) ==
    /\ Above(tokens', tree.at)
    /\ tokens'.read[tree.at] = [type |-> tree.type, at |-> tree.at]
    /\ \A i : Above(tokens, i) => i < tree.at

\* The caller has taken a token, now or earlier, and the lexer went on.
CallFits(callee, at, tree) ==
    /\ <<Top.proc, at>> \in ExpressionPoints /\ at # "start"
    /\ <<callee, "start">> \in ExpressionPoints /\ callee # "function_or_expression"
    /\ Advanced(tokens, tokens')
    /\ Top.at = "start" => Grew
    /\ callee = "call_list" => ParenAhead'
    /\ at = "right_child" => OperatorTaken(tree)

\* Such a call of callee, after which the caller goes on at `at`, keeps the
\* invariant.
LEMMA CallKeepsInv ==
    ASSUME Inv, stack # <<>>, NEW callee, NEW at, NEW tree,
           Call(callee, at, tree), CallFits(callee, at, tree)
    PROVE  Inv'
  <1>1. PICK n \in Nat \ {0} : n = Len(stack)
    BY StackBelow DEF Inv, FramesOK
  <1>2. /\ Stacked(stack') /\ Len(stack') = n + 1
        /\ DOMAIN stack = 1 .. n /\ DOMAIN stack' = 1 .. n + 1
        /\ \A i \in 1 .. n - 1 : stack'[i] = stack[i]
        /\ stack'[n] = Frame(Top.proc, at, tree)
        /\ stack'[n + 1] = Frame(callee, "start", Null)
        /\ returned' = Nothing
    <2>1. Stacked(stack)
      BY DEF Inv, FramesOK
    <2>. QED
      BY <1>1, <2>1, CallStack
  <1>3. /\ stack'[n].proc = Top.proc /\ stack'[n].at = at /\ stack'[n].tree = tree
        /\ stack'[n + 1].proc = callee /\ stack'[n + 1].at = "start"
    BY <1>2 DEF Frame
  <1>4. Top' = stack'[n + 1] /\ stack' # <<>>
    BY <1>2, StackEmpty DEF Top
  <1>5. Advanced(tokens, tokens') /\ at # "start"
    BY DEF CallFits
  <1>6. \A i \in 1 .. n + 1 : i \in 1 .. n - 1 \/ i = n \/ i = n + 1
    OBVIOUS
  <1>7. FramesOK'
    <2>1. \A i \in 1 .. n - 1 : /\ <<stack'[i].proc, stack'[i].at>> \in ExpressionPoints
                                /\ stack'[i].at # "start"
      BY <1>1, <1>2 DEF Inv, FramesOK
    <2>2. <<Top.proc, at>> \in ExpressionPoints /\ <<callee, "start">> \in ExpressionPoints
      BY DEF CallFits
    <2>. QED
      BY <1>2, <1>3, <1>5, <1>6, <2>1, <2>2 DEF FramesOK, Nothing
  <1>8. OperatorsHeld'
    <2>1. \A i \in DOMAIN stack' : Waiting(i)' => i \in 1 .. n - 1 \/ (i = n /\ at = "right_child")
      BY <1>2, <1>3, <1>6 DEF Waiting
    <2>0. \A i \in 1 .. n - 1 : /\ i \in DOMAIN stack /\ stack'[i] = stack[i]
                                /\ Waiting(i)' => Waiting(i)
      <3>1. \A i \in 1 .. n - 1 : i \in 1 .. n
        OBVIOUS
      <3>. QED
        BY <1>2, <3>1 DEF Waiting
    <2>2. \A i \in 1 .. n - 1 : Waiting(i)' =>
             /\ Above(tokens, stack'[i].tree.at)
             /\ tokens.read[stack'[i].tree.at] =
                   [type |-> stack'[i].tree.type, at |-> stack'[i].tree.at]
      BY <2>0 DEF Inv, OperatorsHeld
    <2>3. \A i, j \in 1 .. n - 1 : i < j /\ Waiting(i)' /\ Waiting(j)' =>
             stack'[i].tree.at < stack'[j].tree.at
      BY <2>0 DEF Inv, OperatorsHeld
    <2>4. at = "right_child" => OperatorTaken(tree)
      BY DEF CallFits
    <2>5. ASSUME NEW i \in DOMAIN stack', Waiting(i)'
          PROVE  /\ Above(tokens', stack'[i].tree.at)
                 /\ tokens'.read[stack'[i].tree.at] =
                       [type |-> stack'[i].tree.type, at |-> stack'[i].tree.at]
      <3>1. CASE i \in 1 .. n - 1
        BY <1>5, <2>2, <2>5, <3>1 DEF Advanced, Extended, Above
      <3>2. CASE i = n /\ at = "right_child"
        BY <1>3, <2>4, <3>2 DEF OperatorTaken
      <3>. QED
        BY <2>1, <2>5, <3>1, <3>2
    <2>6. ASSUME NEW i \in DOMAIN stack', NEW j \in DOMAIN stack', i < j, Waiting(i)', Waiting(j)'
          PROVE  stack'[i].tree.at < stack'[j].tree.at
      <3>1. CASE i \in 1 .. n - 1 /\ j \in 1 .. n - 1
        BY <2>3, <2>6, <3>1
      <3>2. CASE i \in 1 .. n - 1 /\ j = n /\ at = "right_child"
        BY <1>3, <2>2, <2>4, <2>6, <3>2 DEF OperatorTaken
      <3>3. i # n
        <4>1. j \in 1 .. n + 1 /\ (j \in 1 .. n - 1 \/ j = n)
          BY <1>2, <2>1, <2>6
        <4>. QED
          BY <2>6, <4>1
      <3>. QED
        BY <2>1, <2>6, <3>1, <3>2, <3>3
    <2>. QED
      BY <2>5, <2>6 DEF OperatorsHeld
  <1>9. Deep'
    <2>. DEFINE K == Cardinality(HeldOf(tokens))
                L == Cardinality(HeldOf(tokens'))
    <2>1. /\ HeldOf(tokens) \subseteq HeldOf(tokens')
          /\ IsFiniteSet(HeldOf(tokens')) /\ L \in Nat /\ K \in Nat
      BY <1>5, HeldFinite DEF Advanced, Inv, Clean
    <2>2. K <= L /\ (K = L => HeldOf(tokens) = HeldOf(tokens'))
      BY <2>1, FS_Subset
    <2>3. Top.at = "start" => Grew
      BY DEF CallFits
    <2>4. Top.at = "start" => K # L
      BY <2>2, <2>3 DEF Grew
    <2>5. n <= K + 1 /\ (Top.at # "start" => n <= K)
      BY <1>1, <2>1 DEF Inv, Deep
    <2>6. Top'.at = "start"
      BY <1>3, <1>4
    <2>. HIDE DEF K, L
    <2>7. n + 1 <= L + 1
      BY <2>1, <2>2, <2>4, <2>5
    <2>. QED
      BY <1>2, <1>4, <2>6, <2>7 DEF Deep, L
  <1>10. ParenSeen' /\ Fresh'
    <2>1. callee # "function_or_expression"
      BY DEF CallFits
    <2>2. callee = "call_list" => ParenAhead'
      BY DEF CallFits
    <2>3. Top'.proc = callee
      BY <1>3, <1>4
    <2>. QED
      BY <2>1, <2>2, <2>3 DEF ParenSeen, Fresh, Is
  <1>. QED
    BY <1>5, <1>7, <1>8, <1>9, <1>10 DEF Inv, Advanced

\* A function that returns leaves its callers as they are.
LEMMA ReturnLeaves ==
    ASSUME Inv, stack # <<>>, NEW result, Return(result),
           result.outcome \in {"success", "failure"}
    PROVE  /\ FramesOK' /\ ParenSeen' /\ Fresh'
           /\ Len(stack) \in Nat \ {0} /\ Len(stack') = Len(stack) - 1
           /\ stack' # <<>> => Top'.at # "start"
           /\ Len(stack) \in DOMAIN stack
           /\ \A i \in DOMAIN stack' : /\ i \in DOMAIN stack /\ stack'[i] = stack[i]
                                       /\ i < Len(stack)
                                       /\ Waiting(i)' => Waiting(i)
  <1>1. PICK n \in Nat \ {0} : n = Len(stack)
    BY StackBelow DEF Inv, FramesOK
  <1>2. /\ Stacked(stack') /\ Len(stack') = n - 1
        /\ DOMAIN stack = 1 .. n /\ DOMAIN stack' = 1 .. n - 1
        /\ \A i \in 1 .. n - 1 : stack'[i] = stack[i]
        /\ returned' = result
    <2>1. Stacked(stack)
      BY DEF Inv, FramesOK
    <2>. QED
      BY <1>1, <2>1, ReturnStack
  <1>3. \A i \in 1 .. n - 1 : i \in 1 .. n /\ i < n
    OBVIOUS
  <1>4. \A i \in 1 .. n - 1 : /\ <<stack'[i].proc, stack'[i].at>> \in ExpressionPoints
                              /\ stack'[i].at # "start"
    <2>1. \A i \in DOMAIN stack : /\ <<stack[i].proc, stack[i].at>> \in ExpressionPoints
                                  /\ stack[i].at = "start" => i = n
      BY <1>1 DEF Inv, FramesOK
    <2>. QED
      BY <1>2, <1>3, <2>1
  <1>5. FramesOK'
    BY <1>2, <1>4 DEF FramesOK
  <1>6. stack' # <<>> => Top'.at # "start"
    <2>. SUFFICES ASSUME stack' # <<>> PROVE Top'.at # "start"
      OBVIOUS
    <2>1. Len(stack') # 0
      BY <1>2, StackEmpty
    <2>2. n - 1 \in 1 .. n - 1
      BY <1>2, <2>1
    <2>. QED
      BY <1>2, <1>4, <2>2 DEF Top
  <1>7. ParenSeen' /\ Fresh'
    BY <1>6 DEF ParenSeen, Fresh, Is
  <1>8. \A i \in 1 .. n - 1 : Waiting(i)' => Waiting(i)
    BY <1>2 DEF Waiting
  <1>9. Len(stack) \in DOMAIN stack
    BY <1>1, <1>2
  <1>. QED
    BY <1>1, <1>2, <1>3, <1>5, <1>6, <1>7, <1>8, <1>9

\* A return keeps the invariant if the lexer went on.
LEMMA ReturnKeepsInv ==
    ASSUME Inv, stack # <<>>, NEW result, Return(result),
           result.outcome \in {"success", "failure"}, Advanced(tokens, tokens')
    PROVE  Inv'
  <1>1. /\ FramesOK' /\ ParenSeen' /\ Fresh'
        /\ Len(stack) \in Nat \ {0} /\ Len(stack') = Len(stack) - 1
        /\ stack' # <<>> => Top'.at # "start"
        /\ \A i \in DOMAIN stack' : /\ i \in DOMAIN stack /\ stack'[i] = stack[i]
                                    /\ Waiting(i)' => Waiting(i)
    BY ReturnLeaves
  <1>2. OperatorsHeld'
    <2>1. \A i \in DOMAIN stack' : Waiting(i)' =>
             /\ Above(tokens', stack'[i].tree.at)
             /\ tokens'.read[stack'[i].tree.at] =
                   [type |-> stack'[i].tree.type, at |-> stack'[i].tree.at]
      BY <1>1 DEF Inv, OperatorsHeld, Advanced, Extended, Above
    <2>2. \A i, j \in DOMAIN stack' :
             i < j /\ Waiting(i)' /\ Waiting(j)' => stack'[i].tree.at < stack'[j].tree.at
      BY <1>1 DEF Inv, OperatorsHeld
    <2>. QED
      BY <2>1, <2>2 DEF OperatorsHeld
  <1>3. Deep'
    <2>. DEFINE K == Cardinality(HeldOf(tokens))
                L == Cardinality(HeldOf(tokens'))
    <2>1. /\ HeldOf(tokens) \subseteq HeldOf(tokens')
          /\ IsFiniteSet(HeldOf(tokens')) /\ L \in Nat /\ K \in Nat
      BY HeldFinite DEF Advanced, Inv, Clean
    <2>2. K <= L
      BY <2>1, FS_Subset
    <2>3. Len(stack) <= K + 1
      BY <1>1, <2>1 DEF Inv, Deep
    <2>. HIDE DEF K, L
    <2>4. Len(stack') <= L
      BY <1>1, <2>1, <2>2, <2>3
    <2>. QED
      BY <1>1, <2>1, <2>4 DEF Deep, L
  <1>. QED
    BY <1>1, <1>2, <1>3 DEF Inv, Advanced

\* What comes before all that is pending is held.
LEMMA AboveHeld ==
    ASSUME NEW v, Clean(v), NEW i, Above(v, i)
    PROVE  i \in HeldOf(v)
  <1>1. \A j \in DOMAIN v.pending : v.pending[j] \in Tokens
    BY DEF Clean, Sound
  <1>2. \A j \in DOMAIN v.pending : v.pending[j].at \in Nat
    BY <1>1 DEF Tokens
  <1>3. i \in Nat
    BY DEF Above, Clean, Sound
  <1>. QED
    BY <1>2, <1>3 DEF Above, HeldOf

OperatorWaiting(t) == t = [type |-> Top.tree.type, at |-> Top.tree.at]

\* An operand that failed: its operator is given back.
LEMMA GivingBackKeepsInv ==
    ASSUME Inv, Is("expression", "right_child"), Return(Failure),
           NEW t, OperatorWaiting(t),
           tokens' = PutBack(tokens, t)
    PROVE  Inv'
  <1>0. PICK n \in Nat \ {0} : n = Len(stack)
    BY StackBelow DEF Inv, FramesOK, Is
  <1>1. /\ stack # <<>> /\ Top.at = "right_child" /\ Top = stack[n]
    BY <1>0 DEF Is, Top
  <1>2. /\ FramesOK' /\ ParenSeen' /\ Fresh'
        /\ Len(stack') = n - 1
        /\ stack' # <<>> => Top'.at # "start"
        /\ n \in DOMAIN stack
        /\ \A i \in DOMAIN stack' : /\ i \in DOMAIN stack /\ stack'[i] = stack[i]
                                    /\ i < n
                                    /\ Waiting(i)' => Waiting(i)
    <2>1. Failure.outcome \in {"success", "failure"}
      BY DEF Failure
    <2>. QED
      BY <1>0, <1>1, <2>1, ReturnLeaves
  <1>3. /\ Clean(tokens) /\ Above(tokens, t.at) /\ tokens.read[t.at] = t
        /\ t.at = Top.tree.at
    BY <1>1, <1>2 DEF Inv, OperatorsHeld, Waiting, OperatorWaiting
  <1>5. /\ Clean(tokens') /\ Extended(tokens, tokens')
        /\ HeldOf(tokens') = HeldOf(tokens) \ {t.at}
        /\ \A i : Above(tokens, i) /\ i < t.at => Above(tokens', i)
    <2>1. \A v, u : Clean(v) /\ Above(v, u.at) /\ v.read[u.at] = u =>
             /\ Clean(PutBack(v, u)) /\ Extended(v, PutBack(v, u))
             /\ HeldOf(PutBack(v, u)) = HeldOf(v) \ {u.at}
             /\ \A i : Above(v, i) /\ i < u.at => Above(PutBack(v, u), i)
      BY PutBackClean
    <2>. QED
      BY <1>3, <2>1
  <1>6. OperatorsHeld'
    <2>1. \A i \in DOMAIN stack' : Waiting(i)' => Waiting(i) /\ stack[i].tree.at < t.at
      BY <1>1, <1>2, <1>3 DEF Inv, OperatorsHeld, Waiting
    <2>2. \A i \in DOMAIN stack' : Waiting(i)' =>
             /\ Above(tokens', stack'[i].tree.at)
             /\ tokens'.read[stack'[i].tree.at] =
                   [type |-> stack'[i].tree.type, at |-> stack'[i].tree.at]
      <3>1. \A i \in DOMAIN stack' : Waiting(i)' =>
               /\ Above(tokens, stack'[i].tree.at) /\ stack'[i].tree.at < t.at
               /\ tokens.read[stack'[i].tree.at] =
                     [type |-> stack'[i].tree.type, at |-> stack'[i].tree.at]
        BY <1>2, <2>1 DEF Inv, OperatorsHeld
      <3>. QED
        BY <1>5, <3>1 DEF Extended, Above
    <2>3. \A i, j \in DOMAIN stack' :
             i < j /\ Waiting(i)' /\ Waiting(j)' => stack'[i].tree.at < stack'[j].tree.at
      BY <1>2 DEF Inv, OperatorsHeld
    <2>. QED
      BY <2>2, <2>3 DEF OperatorsHeld
  <1>7. Deep'
    <2>1. t.at \in HeldOf(tokens)
      BY <1>3, AboveHeld
    <2>2. IsFiniteSet(HeldOf(tokens)) /\ Cardinality(HeldOf(tokens)) \in Nat
      BY <1>3, HeldFinite DEF Clean
    <2>3. PICK K \in Nat : K = Cardinality(HeldOf(tokens))
      BY <2>2
    <2>4. Cardinality(HeldOf(tokens')) = K - 1
      BY <1>5, <2>1, <2>2, <2>3, FS_RemoveElement
    <2>5. Len(stack) <= K
      BY <1>1, <2>3 DEF Inv, Deep
    <2>6. Len(stack') = n - 1
      BY <1>2
    <2>7. n - 1 <= K - 1
      BY <1>0, <2>3, <2>5
    <2>8. ~(stack' # <<>> /\ Top'.at = "start")
      BY <1>2
    <2>. QED
      BY <1>0, <2>3, <2>4, <2>6, <2>7, <2>8 DEF Deep
  <1>. QED
    BY <1>2, <1>5, <1>6, <1>7 DEF Inv

-----------------------------------------------------------------------------
\* Every step keeps the invariant.

\* A token is looked at and taken.
LEMMA NextTaken ==
    ASSUME NEW u, Clean(u), NEW v \in Peeked(u), Head(v.pending).type # "EOF"
    PROVE  LET t == Head(v.pending)
               w == Taken(v)
           IN  /\ Advanced(u, w)
               /\ t \in Tokens /\ w.read[t.at] = t
               /\ t.at \in HeldOf(w) /\ t.at \notin HeldOf(u)
               /\ Above(w, t.at)
               /\ \A i : Above(u, i) => i < t.at
  <1>1. /\ Advanced(u, v) /\ HeldOf(v) = HeldOf(u) /\ v.pending # <<>>
    BY PeekedAdvanced
  <1>2. Clean(v) /\ \A i : Above(u, i) => Above(v, i)
    BY <1>1 DEF Advanced
  <1>3. LET t == Head(v.pending)
        IN  /\ Advanced(v, Taken(v))
            /\ t \in Tokens
            /\ t.at \in HeldOf(Taken(v)) /\ t.at \notin HeldOf(v)
            /\ Above(Taken(v), t.at) /\ Taken(v).read[t.at] = t
            /\ \A i : Above(v, i) => i < t.at
    BY <1>1, <1>2, TakenAdvanced
  <1>4. Advanced(u, Taken(v))
    BY <1>1, <1>3, AdvancedTransitive
  <1>. QED
    BY <1>1, <1>2, <1>3, <1>4

LEMMA BeginningKeepsInv == Inv /\ ExpressionBeginning => Inv'
  <1>. SUFFICES ASSUME Inv, ExpressionBeginning PROVE Inv'
    OBVIOUS
  <1>1. /\ stack # <<>> /\ Top.proc = "beginning" /\ Clean(tokens)
    BY DEF ExpressionBeginning, Is, Inv
  <1>2. PICK v \in Peeked(tokens) :
           LET t == Head(v.pending) IN
           \/ /\ t.type = "left_paren"
              /\ tokens' = Taken(v)
              /\ Call("beginning", "in_parens", Null)
           \/ /\ t.type = "identifier"
              /\ \E w \in Peeked(Taken(v)) :
                   /\ tokens' = w
                   /\ IF Head(w.pending).type = "left_paren"
                      THEN Call("call_list", "arguments", Leaf(t))
                      ELSE Call("expression", "rest", Leaf(t))
           \/ /\ t.type = "literal"
              /\ tokens' = Taken(v)
              /\ Call("expression", "rest", Leaf(t))
           \/ /\ t.type \notin {"left_paren", "identifier", "literal"}
              /\ tokens' = v
              /\ Return(Failure)
    BY DEF ExpressionBeginning
  <1>. DEFINE t == Head(v.pending)
  <1>3. t.type # "EOF" => /\ Advanced(tokens, Taken(v))
                          /\ t.at \in HeldOf(Taken(v)) /\ t.at \notin HeldOf(tokens)
    BY <1>1, NextTaken
  <1>. HIDE DEF t
  <1>4. CASE t.type = "left_paren"
    <2>1. tokens' = Taken(v) /\ Call("beginning", "in_parens", Null)
      BY <1>2, <1>4 DEF t
    <2>2. CallFits("beginning", "in_parens", Null)
      BY <1>1, <1>3, <1>4, <2>1 DEF CallFits, Grew, ExpressionPoints
    <2>. QED
      BY <1>1, <2>1, <2>2, CallKeepsInv
  <1>5. CASE t.type = "identifier"
    <2>1. PICK w \in Peeked(Taken(v)) :
             /\ tokens' = w
             /\ IF Head(w.pending).type = "left_paren"
                THEN Call("call_list", "arguments", Leaf(t))
                ELSE Call("expression", "rest", Leaf(t))
      BY <1>2, <1>5 DEF t
    <2>2. /\ Advanced(Taken(v), w) /\ HeldOf(w) = HeldOf(Taken(v)) /\ w.pending # <<>>
      BY <1>3, <1>5, PeekedAdvanced DEF Advanced
    <2>3. Advanced(tokens, tokens') /\ Grew
      BY <1>3, <1>5, <2>1, <2>2, AdvancedTransitive DEF Grew
    <2>4. CASE Head(w.pending).type = "left_paren"
      <3>1. Call("call_list", "arguments", Leaf(t))
        BY <2>1, <2>4
      <3>2. CallFits("call_list", "arguments", Leaf(t))
        BY <1>1, <2>1, <2>2, <2>3, <2>4 DEF CallFits, ExpressionPoints, ParenAhead
      <3>. QED
        BY <1>1, <3>1, <3>2, CallKeepsInv
    <2>5. CASE Head(w.pending).type # "left_paren"
      <3>1. Call("expression", "rest", Leaf(t))
        BY <2>1, <2>5
      <3>2. CallFits("expression", "rest", Leaf(t))
        BY <1>1, <2>3 DEF CallFits, ExpressionPoints
      <3>. QED
        BY <1>1, <3>1, <3>2, CallKeepsInv
    <2>. QED
      BY <2>4, <2>5
  <1>6. CASE t.type = "literal"
    <2>1. tokens' = Taken(v) /\ Call("expression", "rest", Leaf(t))
      BY <1>2, <1>6 DEF t
    <2>2. CallFits("expression", "rest", Leaf(t))
      BY <1>1, <1>3, <1>6, <2>1 DEF CallFits, Grew, ExpressionPoints
    <2>. QED
      BY <1>1, <2>1, <2>2, CallKeepsInv
  <1>7. CASE t.type \notin {"left_paren", "identifier", "literal"}
    <2>1. tokens' = v /\ Return(Failure)
      BY <1>2, <1>7 DEF t
    <2>2. Advanced(tokens, tokens')
      BY <1>1, <2>1, PeekedAdvanced
    <2>3. Failure.outcome \in {"success", "failure"}
      BY DEF Failure
    <2>. QED
      BY <1>1, <2>1, <2>2, <2>3, ReturnKeepsInv
  <1>. QED
    BY <1>4, <1>5, <1>6, <1>7

LEMMA AfterParensKeepsInv == Inv /\ AfterParens => Inv'
  <1>. SUFFICES ASSUME Inv, AfterParens PROVE Inv'
    OBVIOUS
  <1>1. /\ stack # <<>> /\ Top.proc = "beginning" /\ Top.at = "in_parens" /\ Clean(tokens)
    BY DEF AfterParens, Is, Inv
  <1>2. Failure.outcome \in {"success", "failure"}
    BY DEF Failure
  <1>3. CASE returned.outcome = "failure"
    <2>1. Return(Failure) /\ tokens' = tokens
      BY <1>3 DEF AfterParens
    <2>2. Advanced(tokens, tokens')
      BY <1>1, <2>1, AdvancedSame
    <2>. QED
      BY <1>1, <1>2, <2>1, <2>2, ReturnKeepsInv
  <1>4. CASE returned.outcome = "success"
    <2>. DEFINE tree == [returned.tree EXCEPT !.enclosed = TRUE]
    <2>1. PICK v \in Peeked(tokens) :
             \/ /\ Head(v.pending).type # "right_paren"
                /\ tokens' = v
                /\ Return(Failure)
             \/ /\ Head(v.pending).type = "right_paren"
                /\ tokens' = Taken(v)
                /\ Call("expression", "rest", tree)
      BY <1>4 DEF AfterParens
    <2>. HIDE DEF tree
    <2>2. CASE Head(v.pending).type # "right_paren"
      <3>1. tokens' = v /\ Return(Failure)
        BY <2>1, <2>2
      <3>2. Advanced(tokens, tokens')
        BY <1>1, <3>1, PeekedAdvanced
      <3>. QED
        BY <1>1, <1>2, <3>1, <3>2, ReturnKeepsInv
    <2>3. CASE Head(v.pending).type = "right_paren"
      <3>1. tokens' = Taken(v) /\ Call("expression", "rest", tree)
        BY <2>1, <2>3
      <3>2. Advanced(tokens, tokens')
        BY <1>1, <2>3, <3>1, NextTaken
      <3>3. CallFits("expression", "rest", tree)
        BY <1>1, <3>2 DEF CallFits, ExpressionPoints
      <3>. QED
        BY <1>1, <3>1, <3>3, CallKeepsInv
    <2>. QED
      BY <2>2, <2>3
  <1>. QED
    BY <1>3, <1>4 DEF AfterParens

LEMMA AfterArgumentsKeepsInv == Inv /\ AfterArguments => Inv'
  <1>. SUFFICES ASSUME Inv, AfterArguments PROVE Inv'
    OBVIOUS
  <1>1. /\ stack # <<>> /\ Top.proc = "beginning" /\ Top.at = "arguments" /\ Clean(tokens)
        /\ tokens' = tokens
    BY DEF AfterArguments, Is, Inv
  <1>2. Advanced(tokens, tokens')
    BY <1>1, AdvancedSame
  <1>3. CASE Return(Failure)
    <2>1. Failure.outcome \in {"success", "failure"}
      BY DEF Failure
    <2>. QED
      BY <1>1, <1>2, <1>3, <2>1, ReturnKeepsInv
  <1>4. ASSUME NEW tree, Call("expression", "rest", tree)
        PROVE  Inv'
    <2>1. CallFits("expression", "rest", tree)
      BY <1>1, <1>2 DEF CallFits, ExpressionPoints
    <2>. QED
      BY <1>1, <1>4, <2>1, CallKeepsInv
  <1>. QED
    BY <1>3, <1>4 DEF AfterArguments

LEMMA AfterRestKeepsInv == Inv /\ AfterRest => Inv'
  <1>. SUFFICES ASSUME Inv, AfterRest PROVE Inv'
    OBVIOUS
  <1>1. stack # <<>> /\ Clean(tokens) /\ tokens' = tokens
    BY DEF AfterRest, Is, Inv
  <1>2. Advanced(tokens, tokens')
    BY <1>1, AdvancedSame
  <1>3. PICK tree : Return(Success(tree))
    BY DEF AfterRest
  <1>4. Success(tree).outcome \in {"success", "failure"}
    BY DEF Success
  <1>. QED
    BY <1>1, <1>2, <1>3, <1>4, ReturnKeepsInv

\* A leaf stands for the token it was made from.
LEMMA LeafOfToken ==
    ASSUME NEW t \in Tokens
    PROVE  /\ Leaf(t).type = t.type /\ Leaf(t).at = t.at
           /\ t = [type |-> t.type, at |-> t.at]
  BY DEF Leaf, Node, Tokens

LEMMA ExpressionKeepsInv == Inv /\ Expression => Inv'
  <1>. SUFFICES ASSUME Inv, Expression PROVE Inv'
    OBVIOUS
  <1>1. /\ stack # <<>> /\ Top.proc = "expression" /\ Clean(tokens)
    BY DEF Expression, Is, Inv
  <1>2. PICK v \in Peeked(tokens) :
           LET t == Head(v.pending) IN
           \/ /\ t.type \in Operators
              /\ tokens' = Taken(v)
              /\ Call("beginning", "right_child", Leaf(t))
           \/ /\ t.type \notin Operators
              /\ tokens' = v
              /\ Return(Failure)
    BY DEF Expression
  <1>. DEFINE t == Head(v.pending)
  <1>3. t.type # "EOF" => /\ Advanced(tokens, Taken(v))
                          /\ t \in Tokens /\ Taken(v).read[t.at] = t
                          /\ t.at \in HeldOf(Taken(v)) /\ t.at \notin HeldOf(tokens)
                          /\ Above(Taken(v), t.at)
                          /\ \A i : Above(tokens, i) => i < t.at
    BY <1>1, NextTaken
  <1>. HIDE DEF t
  <1>4. CASE t.type \in Operators
    <2>1. tokens' = Taken(v) /\ Call("beginning", "right_child", Leaf(t))
      BY <1>2, <1>4 DEF t
    <2>2. t.type # "EOF"
      BY <1>4, TokenAssumption
    <2>3. /\ t \in Tokens /\ Leaf(t).type = t.type /\ Leaf(t).at = t.at
          /\ t = [type |-> t.type, at |-> t.at]
      BY <1>3, <2>2, LeafOfToken
    <2>4. OperatorTaken(Leaf(t))
      BY <1>3, <2>1, <2>2, <2>3 DEF OperatorTaken
    <2>5. CallFits("beginning", "right_child", Leaf(t))
      BY <1>1, <1>3, <2>1, <2>2, <2>4 DEF CallFits, Grew, ExpressionPoints
    <2>. QED
      BY <1>1, <2>1, <2>5, CallKeepsInv
  <1>5. CASE t.type \notin Operators
    <2>1. tokens' = v /\ Return(Failure)
      BY <1>2, <1>5 DEF t
    <2>2. Advanced(tokens, tokens')
      BY <1>1, <2>1, PeekedAdvanced
    <2>3. Failure.outcome \in {"success", "failure"}
      BY DEF Failure
    <2>. QED
      BY <1>1, <2>1, <2>2, <2>3, ReturnKeepsInv
  <1>. QED
    BY <1>4, <1>5

LEMMA AfterRightChildKeepsInv == Inv /\ AfterRightChild => Inv'
  <1>. SUFFICES ASSUME Inv, AfterRightChild PROVE Inv'
    OBVIOUS
  <1>1. /\ Is("expression", "right_child") /\ stack # <<>> /\ Clean(tokens)
    BY DEF AfterRightChild, Is, Inv
  <1>2. CASE returned.outcome = "failure"
    <2>1. PICK t : /\ OperatorWaiting(t)
                   /\ tokens' = PutBack(tokens, t)
                   /\ Return(Failure)
      BY <1>2 DEF AfterRightChild, OperatorWaiting
    <2>. QED
      BY <1>1, <2>1, GivingBackKeepsInv
  <1>3. CASE returned.outcome = "success"
    <2>1. PICK tree : Return(Success(tree)) /\ tokens' = tokens
      BY <1>3 DEF AfterRightChild
    <2>2. Success(tree).outcome \in {"success", "failure"}
      BY DEF Success
    <2>3. Advanced(tokens, tokens')
      BY <1>1, <2>1, AdvancedSame
    <2>. QED
      BY <1>1, <2>1, <2>2, <2>3, ReturnKeepsInv
  <1>. QED
    BY <1>2, <1>3 DEF AfterRightChild

\* The opening parenthesis is there, whoever called.
LEMMA CallListKeepsInv == Inv /\ CallList => Inv'
  <1>. SUFFICES ASSUME Inv, CallList PROVE Inv'
    OBVIOUS
  <1>1. /\ stack # <<>> /\ Top.proc = "call_list" /\ Clean(tokens) /\ ParenAhead
    BY DEF CallList, Is, Inv, ParenSeen
  <1>2. Peeked(tokens) = {tokens} /\ Head(tokens.pending).type = "left_paren"
    BY <1>1 DEF Peeked, ParenAhead
  <1>. DEFINE u == Taken(tokens)
              t == Head(tokens.pending)
              list == Node("parameters", 0, <<>>)
  <1>3. PICK v \in Peeked(u) :
           \/ /\ Head(v.pending).type = "right_paren"
              /\ tokens' = Taken(v)
              /\ Return(Success(list))
           \/ /\ Head(v.pending).type # "right_paren"
              /\ tokens' = v
              /\ Call("beginning", "argument", list)
    BY <1>2 DEF CallList
  <1>4. Advanced(tokens, u) /\ t.at \in HeldOf(u) /\ t.at \notin HeldOf(tokens)
    BY <1>1, <1>2, NextTaken
  <1>. HIDE DEF u, t, list
  <1>5. CASE Head(v.pending).type = "right_paren"
    <2>1. tokens' = Taken(v) /\ Return(Success(list))
      BY <1>3, <1>5
    <2>2. Advanced(u, tokens')
      BY <1>4, <1>5, <2>1, NextTaken DEF Advanced
    <2>3. Advanced(tokens, tokens')
      BY <1>4, <2>2, AdvancedTransitive
    <2>4. Success(list).outcome \in {"success", "failure"}
      BY DEF Success
    <2>. QED
      BY <1>1, <2>1, <2>3, <2>4, ReturnKeepsInv
  <1>6. CASE Head(v.pending).type # "right_paren"
    <2>1. tokens' = v /\ Call("beginning", "argument", list)
      BY <1>3, <1>6
    <2>2. Advanced(u, tokens')
      BY <1>4, <2>1, PeekedAdvanced DEF Advanced
    <2>3. Advanced(tokens, tokens') /\ Grew
      BY <1>4, <2>2, AdvancedTransitive DEF Advanced, Grew
    <2>4. CallFits("beginning", "argument", list)
      BY <1>1, <2>3 DEF CallFits, ExpressionPoints
    <2>. QED
      BY <1>1, <2>1, <2>4, CallKeepsInv
  <1>. QED
    BY <1>5, <1>6

LEMMA AfterArgumentKeepsInv == Inv /\ AfterArgument => Inv'
  <1>. SUFFICES ASSUME Inv, AfterArgument PROVE Inv'
    OBVIOUS
  <1>1. /\ stack # <<>> /\ Top.proc = "call_list" /\ Top.at = "argument" /\ Clean(tokens)
    BY DEF AfterArgument, Is, Inv
  <1>2. Failure.outcome \in {"success", "failure"}
    BY DEF Failure
  <1>3. CASE returned.outcome = "failure"
    <2>1. Return(Failure) /\ tokens' = tokens
      BY <1>3 DEF AfterArgument
    <2>2. Advanced(tokens, tokens')
      BY <1>1, <2>1, AdvancedSame
    <2>. QED
      BY <1>1, <1>2, <2>1, <2>2, ReturnKeepsInv
  <1>4. CASE returned.outcome = "success"
    <2>. DEFINE list == [Top.tree EXCEPT !.children = Append(@, returned.tree)]
    <2>1. PICK v \in Peeked(tokens) :
             LET next == Head(v.pending).type IN
             \/ /\ next = "right_paren"
                /\ tokens' = Taken(v)
                /\ Return(Success(list))
             \/ /\ next = "comma"
                /\ tokens' = Taken(v)
                /\ Call("beginning", "argument", list)
             \/ /\ next \notin {"right_paren", "comma"}
                /\ tokens' = v
                /\ Return(Failure)
      BY <1>4 DEF AfterArgument
    <2>. HIDE DEF list
    <2>2. Success(list).outcome \in {"success", "failure"}
      BY DEF Success
    <2>3. CASE Head(v.pending).type = "right_paren"
      <3>1. tokens' = Taken(v) /\ Return(Success(list))
        BY <2>1, <2>3
      <3>2. Advanced(tokens, tokens')
        BY <1>1, <2>3, <3>1, NextTaken
      <3>. QED
        BY <1>1, <2>2, <3>1, <3>2, ReturnKeepsInv
    <2>4. CASE Head(v.pending).type = "comma"
      <3>1. tokens' = Taken(v) /\ Call("beginning", "argument", list)
        BY <2>1, <2>4
      <3>2. Advanced(tokens, tokens')
        BY <1>1, <2>4, <3>1, NextTaken
      <3>3. CallFits("beginning", "argument", list)
        BY <1>1, <3>2 DEF CallFits, ExpressionPoints
      <3>. QED
        BY <1>1, <3>1, <3>3, CallKeepsInv
    <2>5. CASE Head(v.pending).type \notin {"right_paren", "comma"}
      <3>1. tokens' = v /\ Return(Failure)
        BY <2>1, <2>5
      <3>2. Advanced(tokens, tokens')
        BY <1>1, <3>1, PeekedAdvanced
      <3>. QED
        BY <1>1, <1>2, <3>1, <3>2, ReturnKeepsInv
    <2>. QED
      BY <2>3, <2>4, <2>5
  <1>. QED
    BY <1>3, <1>4 DEF AfterArgument

-----------------------------------------------------------------------------
\* The lookahead that tells a function from an expression.

\* With nothing pending and more to come, a peek lexes one token.
LEMMA PeekLexes ==
    ASSUME NEW v, Sound(v), v.pending = <<>>, ~AtEnd(v), NEW w \in Peeked(v)
    PROVE  \E p \in Tokens : /\ Sound(w)
                             /\ w.pending = <<p>>
                             /\ w.read = Append(v.read, p)
                             /\ p.at = Len(v.read) + 1
  <1>1. PICK type \in v.file.types \cup {"EOF"} : w = Lexed(v, type)
    BY DEF Peeked
  <1>. DEFINE p == [type |-> type, at |-> Len(v.read) + 1]
  <1>2. Sound(w) /\ w.pending = <<p>> /\ w.read = Append(v.read, p) /\ p.at = Len(v.read) + 1
    BY <1>1, LexedSound
  <1>. HIDE DEF p
  <1>3. p \in Tokens
    <2>1. 1 \in DOMAIN w.pending /\ w.pending[1] = p /\ w.pending \in Seq(Tokens)
      BY <1>2 DEF Sound
    <2>. QED
      BY <2>1
  <1>. QED
    BY <1>2, <1>3

\* Sequences of the first three tokens of a file.
LEMMA OneToken ==
    ASSUME NEW p
    PROVE  Append(<<>>, p) = <<p>> /\ Tail(<<p>>) = <<>> /\ Head(<<p>>) = p /\ <<p>> # <<>>
  OBVIOUS

LEMMA TwoTokens ==
    ASSUME NEW p, NEW q
    PROVE  Append(<<p>>, q) = <<p, q>> /\ <<p>> \o <<q>> = <<p, q>>
  <1>. DEFINE S == {p, q}
  <1>1. /\ <<p, q>> \in Seq(S) /\ Len(<<p, q>>) = 2
        /\ <<p, q>>[1] = p /\ <<p, q>>[2] = q
    OBVIOUS
  <1>2. /\ Append(<<p>>, q) \in Seq(S) /\ Len(Append(<<p>>, q)) = 2
        /\ Append(<<p>>, q)[1] = p /\ Append(<<p>>, q)[2] = q
    OBVIOUS
  <1>3. /\ <<p>> \o <<q>> \in Seq(S) /\ Len(<<p>> \o <<q>>) = 2
        /\ (<<p>> \o <<q>>)[1] = p /\ (<<p>> \o <<q>>)[2] = q
    OBVIOUS
  <1>4. \A i \in 1 .. 2 : i = 1 \/ i = 2
    OBVIOUS
  <1>. HIDE DEF S
  <1>5. \A s \in Seq(S) : Len(s) = 2 /\ s[1] = p /\ s[2] = q => s = <<p, q>>
    BY <1>1, <1>4, SeqEqual
  <1>. QED
    BY <1>2, <1>3, <1>5

LEMMA ThreeTokens ==
    ASSUME NEW p, NEW q, NEW r
    PROVE  Append(<<p, q>>, r) = <<p, q, r>> /\ <<p>> \o <<q, r>> = <<p, q, r>>
  <1>. DEFINE S == {p, q, r}
  <1>1. /\ <<p, q, r>> \in Seq(S) /\ Len(<<p, q, r>>) = 3
        /\ <<p, q, r>>[1] = p /\ <<p, q, r>>[2] = q /\ <<p, q, r>>[3] = r
    OBVIOUS
  <1>2. /\ Append(<<p, q>>, r) \in Seq(S) /\ Len(Append(<<p, q>>, r)) = 3
        /\ Append(<<p, q>>, r)[1] = p /\ Append(<<p, q>>, r)[2] = q
        /\ Append(<<p, q>>, r)[3] = r
    OBVIOUS
  <1>3. /\ <<p>> \o <<q, r>> \in Seq(S) /\ Len(<<p>> \o <<q, r>>) = 3
        /\ (<<p>> \o <<q, r>>)[1] = p /\ (<<p>> \o <<q, r>>)[2] = q
        /\ (<<p>> \o <<q, r>>)[3] = r
    OBVIOUS
  <1>4. \A i \in 1 .. 3 : i = 1 \/ i = 2 \/ i = 3
    OBVIOUS
  <1>. HIDE DEF S
  <1>5. \A s \in Seq(S) : Len(s) = 3 /\ s[1] = p /\ s[2] = q /\ s[3] = r => s = <<p, q, r>>
    BY <1>1, <1>4, SeqEqual
  <1>. QED
    BY <1>2, <1>3, <1>5

\* What was looked at is pending again, and decided what comes next.
LookedAhead ==
    /\ Sound(tokens') /\ tokens'.pending = tokens'.read
    /\ \E function \in BOOLEAN : Decide(function) /\ (function <=> StartsFunction')

LEMMA LooksAhead == Inv /\ parser_parse_function_or_expression => LookedAhead
  <1>. SUFFICES ASSUME Inv, parser_parse_function_or_expression PROVE LookedAhead
    OBVIOUS
  <1>1. Sound(tokens) /\ tokens.pending = <<>> /\ tokens.read = <<>>
    BY DEF Inv, Clean, Fresh, parser_parse_function_or_expression
  <1>2. PICK v \in Peeked(tokens) : LET paren == Head(v.pending) IN
           \/ /\ paren.type # "left_paren"
              /\ tokens' = v
              /\ Decide(FALSE)
           \/ /\ paren.type = "left_paren"
              /\ \E w \in Peeked(Taken(v)) : LET after == Head(w.pending) IN
                   \/ /\ after.type # "identifier"
                      /\ tokens' = PutBack(w, paren)
                      /\ Decide(IsFunction(after.type, "none"))
                   \/ /\ after.type = "identifier"
                      /\ \E x \in Peeked(Taken(w)) :
                           /\ tokens' = PutBack(PutBack(x, after), paren)
                           /\ Decide(IsFunction(after.type, Head(x.pending).type))
    BY DEF parser_parse_function_or_expression
  <1>3. PICK p \in Tokens : /\ Sound(v) /\ v.pending = <<p>> /\ v.read = <<p>> /\ p.at = 1
    <2>1. ~AtEnd(tokens) /\ Len(tokens.read) = 0
      BY <1>1 DEF AtEnd
    <2>. QED
      BY <1>1, <2>1, PeekLexes, OneToken
  <1>4. Head(v.pending) = p
    BY <1>3, OneToken
  <1>5. CASE p.type # "left_paren"
    <2>1. tokens' = v /\ Decide(FALSE)
      BY <1>2, <1>4, <1>5
    <2>2. ~StartsFunction'
      <3>1. Len(tokens'.read) = 1
        BY <1>3, <2>1
      <3>. QED
        BY <3>1 DEF StartsFunction
    <2>. QED
      BY <1>3, <2>1, <2>2 DEF LookedAhead
  <1>6. CASE p.type = "left_paren"
    <2>. DEFINE u == Taken(v)
    <2>1. PICK w \in Peeked(u) : LET after == Head(w.pending) IN
             \/ /\ after.type # "identifier"
                /\ tokens' = PutBack(w, p)
                /\ Decide(IsFunction(after.type, "none"))
             \/ /\ after.type = "identifier"
                /\ \E x \in Peeked(Taken(w)) :
                     /\ tokens' = PutBack(PutBack(x, after), p)
                     /\ Decide(IsFunction(after.type, Head(x.pending).type))
      BY <1>2, <1>4, <1>6
    <2>2. Sound(u) /\ u.pending = <<>> /\ u.read = <<p>>
      <3>1. v.pending # <<>> /\ Tail(v.pending) = <<>>
        BY <1>3, OneToken
      <3>. QED
        BY <1>3, <3>1, TakenSound
    <2>. HIDE DEF u
    <2>3. PICK q \in Tokens : Sound(w) /\ w.pending = <<q>> /\ w.read = <<p, q>> /\ q.at = 2
      <3>1. ~AtEnd(u) /\ Len(u.read) = 1
        BY <1>6, <2>2 DEF AtEnd
      <3>2. PICK q \in Tokens : /\ Sound(w) /\ w.pending = <<q>>
                                /\ w.read = Append(u.read, q) /\ q.at = Len(u.read) + 1
        BY <2>2, <3>1, PeekLexes
      <3>. QED
        BY <2>2, <3>1, <3>2, TwoTokens
    <2>4. Head(w.pending) = q /\ w.read[1] = p /\ w.read[2] = q /\ DOMAIN w.read = {1, 2}
      BY <2>3, OneToken
    <2>5. CASE q.type # "identifier"
      <3>1. tokens' = PutBack(w, p) /\ Decide(IsFunction(q.type, "none"))
        BY <2>1, <2>4, <2>5
      <3>2. Sound(tokens') /\ tokens'.pending = <<p, q>> /\ tokens'.read = <<p, q>>
        <4>1. p.at \in DOMAIN w.read /\ w.read[p.at] = p /\ p.type # "EOF"
          BY <1>3, <1>6, <2>4
        <4>2. /\ Sound(tokens') /\ tokens'.pending = <<p>> \o w.pending
              /\ tokens'.read = w.read
          BY <2>3, <3>1, <4>1, PutBackSound
        <4>. QED
          BY <2>3, <4>2, TwoTokens
      <3>3. StartsFunction' <=> q.type = "right_paren"
        <4>1. Type(1)' = p.type /\ Type(2)' = q.type /\ Len(tokens'.read) = 2
          BY <3>2 DEF Type
        <4>. QED
          BY <1>6, <2>5, <4>1 DEF StartsFunction
      <3>4. IsFunction(q.type, "none") <=> q.type = "right_paren"
        BY <2>5 DEF IsFunction
      <3>5. IsFunction(q.type, "none") \in BOOLEAN
        BY DEF IsFunction
      <3>. QED
        BY <3>1, <3>2, <3>3, <3>4, <3>5 DEF LookedAhead
    <2>6. CASE q.type = "identifier"
      <3>. DEFINE y == Taken(w)
      <3>1. PICK x \in Peeked(y) :
               /\ tokens' = PutBack(PutBack(x, q), p)
               /\ Decide(IsFunction(q.type, Head(x.pending).type))
        BY <2>1, <2>4, <2>6
      <3>2. Sound(y) /\ y.pending = <<>> /\ y.read = <<p, q>>
        <4>1. w.pending # <<>> /\ Tail(w.pending) = <<>>
          BY <2>3, OneToken
        <4>. QED
          BY <2>3, <4>1, TakenSound
      <3>. HIDE DEF y
      <3>3. PICK r \in Tokens : Sound(x) /\ x.pending = <<r>> /\ x.read = <<p, q, r>>
        <4>1. ~AtEnd(y) /\ Len(y.read) = 2
          BY <2>6, <3>2 DEF AtEnd
        <4>2. PICK r \in Tokens : /\ Sound(x) /\ x.pending = <<r>>
                                  /\ x.read = Append(y.read, r)
          BY <3>2, <4>1, PeekLexes
        <4>. QED
          BY <3>2, <4>2, ThreeTokens
      <3>4. Head(x.pending) = r
        BY <3>3, OneToken
      <3>5. x.read[1] = p /\ x.read[2] = q /\ 1 \in DOMAIN x.read /\ 2 \in DOMAIN x.read
        BY <3>3
      <3>. DEFINE z == PutBack(x, q)
      <3>6. Sound(z) /\ z.pending = <<q>> \o <<r>> /\ z.read = <<p, q, r>>
        BY <2>3, <2>6, <3>3, <3>5, PutBackSound
      <3>7. tokens' = PutBack(z, p)
        BY <3>1
      <3>. HIDE DEF z
      <3>8. Sound(tokens') /\ tokens'.pending = <<p, q, r>> /\ tokens'.read = <<p, q, r>>
        <4>1. p.at \in DOMAIN z.read /\ z.read[p.at] = p /\ p.type # "EOF"
          BY <1>3, <1>6, <3>6
        <4>2. /\ Sound(tokens') /\ tokens'.pending = <<p>> \o z.pending
              /\ tokens'.read = z.read
          BY <3>6, <3>7, <4>1, PutBackSound
        <4>. QED
          BY <3>6, <4>2, TwoTokens, ThreeTokens
      <3>9. StartsFunction' <=> r.type = "colon"
        <4>1. /\ Type(1)' = p.type /\ Type(2)' = q.type /\ Type(3)' = r.type
              /\ Len(tokens'.read) = 3
          BY <3>8 DEF Type
        <4>. QED
          BY <1>6, <2>6, <4>1 DEF StartsFunction
      <3>10. IsFunction(q.type, r.type) <=> r.type = "colon"
        BY <2>6 DEF IsFunction
      <3>11. IsFunction(q.type, r.type) \in BOOLEAN
        BY DEF IsFunction
      <3>12. Decide(IsFunction(q.type, r.type))
        BY <3>1, <3>4
      <3>. QED
        BY <3>8, <3>9, <3>10, <3>11, <3>12 DEF LookedAhead
    <2>. QED
      BY <2>5, <2>6
  <1>. QED
    BY <1>5, <1>6

\* A tail call leaves a frame at its start.
LEMMA TailCallStack ==
    ASSUME Stacked(stack), stack # <<>>, NEW callee, TailCall(callee)
    PROVE  /\ Stacked(stack') /\ Len(stack') = Len(stack) /\ stack' # <<>>
           /\ DOMAIN stack = 1 .. Len(stack) /\ DOMAIN stack' = 1 .. Len(stack)
           /\ Len(stack) \in Nat \ {0}
           /\ \A i \in 1 .. Len(stack) - 1 : stack'[i] = stack[i]
           /\ stack'[Len(stack)] = Frame(callee, "start", Null)
           /\ Top'.proc = callee /\ Top'.at = "start"
           /\ returned' = Nothing
  <1>1. Replaced(Frame(callee, "start", Null))
    BY DEF TailCall, Replaced
  <1>2. /\ Stacked(stack') /\ Len(stack') = Len(stack) /\ Len(stack) \in Nat \ {0}
        /\ DOMAIN stack = 1 .. Len(stack) /\ DOMAIN stack' = 1 .. Len(stack')
        /\ \A i \in 1 .. Len(stack) - 1 : stack'[i] = stack[i]
        /\ stack'[Len(stack)] = Frame(callee, "start", Null)
        /\ returned' = Nothing
    BY <1>1, ReplacedStack
  <1>3. stack' # <<>>
    <2>1. Len(stack') # 0
      BY <1>2
    <2>. QED
      BY <1>2, <2>1, StackEmpty
  <1>4. Top' = Frame(callee, "start", Null)
    BY <1>2 DEF Top
  <1>. QED
    BY <1>2, <1>3, <1>4 DEF Frame

LEMMA LookaheadKeepsInv == Inv /\ parser_parse_function_or_expression => Inv'
  <1>. SUFFICES ASSUME Inv, parser_parse_function_or_expression PROVE Inv'
    OBVIOUS
  <1>1. /\ Stacked(stack) /\ stack # <<>> /\ Len(stack) = 1
    BY DEF Inv, FramesOK, Fresh, Is, parser_parse_function_or_expression
  <1>2. Sound(tokens') /\ tokens'.pending = tokens'.read
    BY LooksAhead DEF LookedAhead
  <1>3. PICK callee \in {"function", "beginning"} : TailCall(callee)
    BY LooksAhead DEF LookedAhead, Decide
  <1>4. /\ Stacked(stack') /\ Len(stack') = 1 /\ stack' # <<>>
        /\ DOMAIN stack' = 1 .. 1
        /\ stack'[1] = Frame(callee, "start", Null)
        /\ Top'.proc = callee /\ Top'.at = "start"
        /\ returned' = Nothing
    BY <1>1, <1>3, TailCallStack
  <1>5. \A i \in DOMAIN stack' : /\ i = 1
                                 /\ stack'[i].proc = callee /\ stack'[i].at = "start"
    BY <1>4 DEF Frame
  <1>6. FramesOK'
    BY <1>4, <1>5 DEF FramesOK, ExpressionPoints, Nothing
  <1>7. HeldOf(tokens') = {} /\ Clean(tokens')
    <2>1. \A i \in DOMAIN tokens'.read : tokens'.pending[i].at = i
      BY <1>2 DEF Sound
    <2>2. HeldOf(tokens') = {}
      BY <1>2, <2>1 DEF HeldOf
    <2>3. Sorted(tokens')
      BY <1>2, <2>1 DEF Sorted
    <2>. QED
      BY <1>2, <2>2, <2>3 DEF Clean, NoEnd
  <1>8. OperatorsHeld'
    BY <1>5 DEF OperatorsHeld, Waiting
  <1>9. Deep'
    <2>1. Cardinality(HeldOf(tokens')) = 0
      BY <1>7, FS_EmptySet
    <2>. QED
      BY <1>4, <2>1 DEF Deep
  <1>10. ParenSeen' /\ Fresh'
    BY <1>4 DEF ParenSeen, Fresh, Is
  <1>. QED
    BY <1>6, <1>7, <1>8, <1>9, <1>10 DEF Inv

LEMMA NextInv == Inv /\ [Next]_vars => Inv'
  <1>. SUFFICES ASSUME Inv, [Next]_vars PROVE Inv'
    OBVIOUS
  <1>1. CASE parser_parse_function_or_expression
    BY <1>1, LookaheadKeepsInv
  <1>2. CASE ExpressionBeginning
    BY <1>2, BeginningKeepsInv
  <1>3. CASE AfterParens
    BY <1>3, AfterParensKeepsInv
  <1>4. CASE AfterArguments
    BY <1>4, AfterArgumentsKeepsInv
  <1>5. CASE AfterRest
    BY <1>5, AfterRestKeepsInv
  <1>6. CASE Expression
    BY <1>6, ExpressionKeepsInv
  <1>7. CASE AfterRightChild
    BY <1>7, AfterRightChildKeepsInv
  <1>8. CASE CallList
    BY <1>8, CallListKeepsInv
  <1>9. CASE AfterArgument
    BY <1>9, AfterArgumentKeepsInv
  <1>10. CASE UNCHANGED vars
    BY <1>10 DEF vars, Inv, FramesOK, Clean, Sound, Sorted, NoEnd, HeldOf, OperatorsHeld,
                 Waiting, Deep, Top, ParenSeen, ParenAhead, Fresh, Is, Above, Stacked
  <1>. QED
    BY <1>1, <1>2, <1>3, <1>4, <1>5, <1>6, <1>7, <1>8, <1>9, <1>10
    DEF Next, ExpressionStep, Finished

LEMMA InvAlways == Spec => []Inv
  BY InitInv, NextInv, PTL DEF Spec

-----------------------------------------------------------------------------
\* The frames of the call stack are at program points of the functions of the
\* expression parser, only the innermost is at its start, and the tokens are
\* those of the file, whatever the file.
THEOREM TypeCorrect == Spec => []TypeOK
  <1>1. Inv => TypeOK
    <2>. SUFFICES ASSUME Inv PROVE TypeOK
      OBVIOUS
    <2>1. TokensTyped
      BY SoundTyped DEF Inv, Clean
    <2>2. \A i \in DOMAIN stack :
             /\ <<stack[i].proc, stack[i].at>> \in ExpressionPoints
             /\ stack[i].at = "start" => i = Len(stack)
      BY DEF Inv, FramesOK
    <2>3. returned.outcome \in {"none", "success", "failure"}
      BY DEF Inv, FramesOK
    <2>. QED
      BY <2>1, <2>2, <2>3 DEF TypeOK, ExpressionPoints
  <1>. QED
    BY <1>1, InvAlways, PTL

\* The recursion of the expression parser is never deeper than the tokens it
\* holds, however long the file: no function calls its way back to itself
\* without taking a token.
THEOREM DepthIsBounded == Spec => []DepthBounded
  <1>1. Inv => DepthBounded
    <2>. SUFFICES ASSUME Inv PROVE DepthBounded
      OBVIOUS
    <2>1. PICK K \in Nat : K = Cardinality(HeldOf(tokens))
      BY HeldFinite DEF Inv, Clean
    <2>2. Held = HeldOf(tokens)
      BY HeldIsHeldOf
    <2>3. Len(stack) \in Nat
      BY StackEmpty DEF Inv, FramesOK
    <2>4. Len(stack) <= K + 1
      BY <2>1, <2>3 DEF Inv, Deep
    <2>. QED
      BY <2>1, <2>2, <2>3, <2>4 DEF DepthBounded
  <1>. QED
    BY <1>1, InvAlways, PTL

\* The lookahead takes `(` `)` and `(` identifier `:` for a function and all else
\* for an expression, and gives back what it looked at in the order of the file.
THEOREM LookaheadIsExact == Spec => LookaheadExact
  <1>. DEFINE Exact == Is("function_or_expression", "start") =>
                         /\ tokens'.pending = tokens'.read
                         /\ Is("function", "start")' <=> StartsFunction'
  <1>1. Inv /\ [Next]_vars => [Exact]_vars
    <2>. SUFFICES ASSUME Inv, Next, Is("function_or_expression", "start"), ~UNCHANGED vars
                  PROVE  /\ tokens'.pending = tokens'.read
                         /\ Is("function", "start")' <=> StartsFunction'
      OBVIOUS
    <2>1. parser_parse_function_or_expression
      BY DEF Next, Finished, ExpressionStep, Is, ExpressionBeginning, AfterParens,
             AfterArguments, AfterRest, Expression, AfterRightChild, CallList, AfterArgument
    <2>2. tokens'.pending = tokens'.read
      BY <2>1, LooksAhead DEF LookedAhead
    <2>3. PICK function \in BOOLEAN : Decide(function) /\ (function <=> StartsFunction')
      BY <2>1, LooksAhead DEF LookedAhead
    <2>4. Stacked(stack) /\ stack # <<>>
      BY DEF Inv, FramesOK, Is
    <2>5. CASE function
      <3>1. TailCall("function")
        BY <2>3, <2>5 DEF Decide
      <3>2. Is("function", "start")'
        BY <2>4, <3>1, TailCallStack DEF Is
      <3>. QED
        BY <2>2, <2>3, <2>5, <3>2
    <2>6. CASE ~function
      <3>1. TailCall("beginning")
        BY <2>3, <2>6 DEF Decide
      <3>2. Top'.proc = "beginning"
        BY <2>4, <3>1, TailCallStack
      <3>3. ~Is("function", "start")'
        BY <3>2 DEF Is
      <3>. QED
        BY <2>2, <2>3, <2>6, <3>3
    <2>. QED
      BY <2>5, <2>6
  <1>. QED
    BY <1>1, InvAlways, PTL DEF Spec, LookaheadExact
=============================================================================
