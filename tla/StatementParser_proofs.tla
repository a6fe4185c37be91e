----------------------- MODULE StatementParser_proofs ------------------------
(***************************************************************************)
(* Proofs about the calls of the statement parser and the tokens it takes, *)
(* for files of any length and any operators.                              *)
(***************************************************************************)
EXTENDS StatementParserSafety, ParserTokens_proofs

\* From v to w the lexer did what the parser may have it do.
Reached(v, w) == Sound(w) /\ Extended(v, w)

LEMMA ReachedTransitive ==
    ASSUME NEW u, NEW v, NEW w, Reached(u, v), Reached(v, w)
    PROVE  Reached(u, w)
  BY ExtendedTransitive DEF Reached

LEMMA ReachedSame ==
    ASSUME NEW v, Sound(v)
    PROVE  Reached(v, v)
  BY DEF Reached, Extended

\* A token is looked at, and may be taken.
LEMMA NextReached ==
    ASSUME NEW u, Sound(u), NEW v \in Peeked(u)
    PROVE  LET t == Head(v.pending)
           IN  /\ Reached(u, v) /\ Reached(u, Taken(v))
               /\ v.pending # <<>>
               /\ t \in Tokens /\ t.at \in DOMAIN Taken(v).read /\ Taken(v).read[t.at] = t
               /\ u.pending # <<>> => v = u
  <1>1. /\ Sound(v) /\ Extended(u, v) /\ v.pending # <<>>
        /\ u.pending # <<>> => v = u
    BY PeekedSound
  <1>2. /\ Sound(Taken(v)) /\ Extended(v, Taken(v)) /\ Taken(v).read = v.read
        /\ Head(v.pending) \in Tokens
        /\ Head(v.pending).at \in DOMAIN v.read
        /\ v.read[Head(v.pending).at] = Head(v.pending)
    BY <1>1, TakenSound
  <1>3. Reached(u, v) /\ Reached(v, Taken(v))
    BY <1>1, <1>2 DEF Reached
  <1>4. Reached(u, Taken(v))
    BY <1>3, ReachedTransitive
  <1>. QED
    BY <1>1, <1>2, <1>3, <1>4

\* And after that another.
LEMMA FurtherReached ==
    ASSUME NEW u, NEW v, Reached(u, v), NEW w \in Peeked(v)
    PROVE  Reached(u, w) /\ Reached(u, Taken(w)) /\ w.pending # <<>>
  <1>1. Reached(v, w) /\ Reached(v, Taken(w)) /\ w.pending # <<>>
    BY NextReached DEF Reached
  <1>. QED
    BY <1>1, ReachedTransitive

\* A token that was read and is not the end may be put back.
LEMMA PutBackReached ==
    ASSUME NEW v, Sound(v), NEW t, t.at \in DOMAIN v.read, v.read[t.at] = t, t.type # "EOF"
    PROVE  Reached(v, PutBack(v, t)) /\ PutBack(v, t).pending # <<>>
  <1>1. /\ Sound(PutBack(v, t)) /\ Extended(v, PutBack(v, t))
        /\ PutBack(v, t).pending = <<t>> \o v.pending
    BY PutBackSound
  <1>2. v.pending \in Seq(Tokens)
    BY DEF Sound
  <1>3. <<t>> \o v.pending # <<>>
    BY <1>2
  <1>. QED
    BY <1>1, <1>3 DEF Reached

-----------------------------------------------------------------------------
\* The inductive invariant.

Point(proc, at) == [proc |-> proc, at |-> at] \in Points

LEMMA PointIs ==
    ASSUME NEW proc, NEW at
    PROVE  Point(proc, at) <=>
              \/ proc = "file" /\ at \in {"start", "statements"}
              \/ proc = "statement" /\ at \in {"start", "members", "condition", "body", "else",
                                               "type", "value"}
              \/ proc = "function" /\ at \in {"start", "parameters", "body"}
              \/ proc = "function_or_expression" /\ at = "start"
              \/ proc = "beginning" /\ at \in {"start", "in_parens", "arguments", "rest"}
              \/ proc = "expression" /\ at \in {"start", "right_child"}
              \/ proc = "call_list" /\ at \in {"start", "argument"}
  BY DEF Point, Points

FramesOK ==
    /\ Stacked(stack)
    /\ \A i \in DOMAIN stack : /\ Point(stack[i].proc, stack[i].at)
                               /\ stack[i].at = "start" => i = Len(stack)
    /\ returned.outcome \in {"none", "success", "failure"}
    /\ done \in BOOLEAN

\* An operator that waits for its operand was read.
OperatorRead(tree, v) ==
    /\ tree.type \in Operators
    /\ tree.at \in DOMAIN v.read
    /\ v.read[tree.at] = [type |-> tree.type, at |-> tree.at]

OperatorsRead ==
    \A i \in DOMAIN stack : stack[i].at = "right_child" => OperatorRead(stack[i].tree, tokens)

\* Who calls for a statement, and for the right side of a declaration.
ForStatement == {"statements", "members", "body", "else"}

CalledAt(proc, at) ==
    /\ proc = "statement" => at \in ForStatement
    /\ proc \in {"function", "function_or_expression"} => at = "value"

Callers ==
    \A i \in DOMAIN stack : /\ stack[i].proc = "file" <=> i = 1
                            /\ i > 1 => CalledAt(stack[i].proc, stack[i - 1].at)

\* Once the end of the file was a statement, it is still pending, and all that
\* is left is to return.
EndAhead == tokens.pending # <<>> /\ Head(tokens.pending).type = "EOF"

EndIsLast ==
    /\ done => EndAhead
    /\ done /\ stack # <<>> => Top.at \in ForStatement \cup {"value"}
    /\ stack = <<>> /\ returned.outcome = "success" => done

\* The parenthesis of a function is there.
FunctionAhead == Is("function", "start") => tokens.pending # <<>>

SInv == FramesOK /\ Sound(tokens) /\ OperatorsRead /\ Callers /\ EndIsLast /\ FunctionAhead

LEMMA OperatorStaysRead ==
    ASSUME NEW tree, NEW v, NEW w, OperatorRead(tree, v), Reached(v, w)
    PROVE  OperatorRead(tree, w)
  BY DEF OperatorRead, Reached, Extended

LEMMA InitSInv == StatementInit => SInv
  <1>. SUFFICES ASSUME StatementInit PROVE SInv
    OBVIOUS
  <1>1. /\ Stacked(stack) /\ Len(stack) = 1 /\ DOMAIN stack = {1}
        /\ stack[1] = Frame("file", "start", Null)
        /\ returned = Nothing
        /\ Sound(tokens) /\ tokens.read = <<>> /\ tokens.pending = <<>>
        /\ done = FALSE
    <2>1. Entered("file") /\ done = FALSE
      BY DEF StatementInit
    <2>. QED
      BY <2>1, EnteredSound
  <1>2. stack[1].proc = "file" /\ stack[1].at = "start"
    BY <1>1 DEF Frame
  <1>3. Top = stack[1] /\ returned.outcome = "none"
    BY <1>1 DEF Top, Nothing
  <1>4. FramesOK
    BY <1>1, <1>2, <1>3, PointIs DEF FramesOK
  <1>5. OperatorsRead /\ Callers
    BY <1>1, <1>2 DEF OperatorsRead, Callers
  <1>6. EndIsLast /\ FunctionAhead
    BY <1>1, <1>2, <1>3 DEF EndIsLast, FunctionAhead, Is
  <1>. QED
    BY <1>1, <1>4, <1>5, <1>6 DEF SInv

-----------------------------------------------------------------------------
\* The three ways to go on keep the invariant.

CallFits(callee, at, tree) ==
    /\ Point(Top.proc, at) /\ at # "start"
    /\ Point(callee, "start") /\ callee \notin {"file", "function"}
    /\ CalledAt(callee, at)
    /\ Reached(tokens, tokens')
    /\ at = "right_child" => OperatorRead(tree, tokens')
    /\ ~done /\ done' = done

LEMMA CallKeepsSInv ==
    ASSUME SInv, stack # <<>>, NEW callee, NEW at, NEW tree,
           Call(callee, at, tree), CallFits(callee, at, tree)
    PROVE  SInv'
  <1>1. PICK n \in Nat \ {0} : n = Len(stack)
    BY StackBelow DEF SInv, FramesOK
  <1>2. /\ Stacked(stack') /\ Len(stack') = n + 1
        /\ DOMAIN stack = 1 .. n /\ DOMAIN stack' = 1 .. n + 1
        /\ \A i \in 1 .. n - 1 : stack'[i] = stack[i]
        /\ stack'[n] = Frame(Top.proc, at, tree)
        /\ stack'[n + 1] = Frame(callee, "start", Null)
        /\ returned' = Nothing
    <2>1. Stacked(stack)
      BY DEF SInv, FramesOK
    <2>. QED
      BY <1>1, <2>1, CallStack
  <1>3. /\ stack'[n].proc = Top.proc /\ stack'[n].at = at /\ stack'[n].tree = tree
        /\ stack'[n + 1].proc = callee /\ stack'[n + 1].at = "start"
        /\ Top = stack[n]
    BY <1>1, <1>2 DEF Frame, Top
  <1>4. Top' = stack'[n + 1] /\ stack' # <<>>
    BY <1>2, StackEmpty DEF Top
  <1>5. Reached(tokens, tokens') /\ at # "start" /\ Sound(tokens') /\ done' = FALSE
    BY DEF CallFits, Reached, SInv, FramesOK
  <1>6. \A i \in 1 .. n + 1 : i \in 1 .. n - 1 \/ i = n \/ i = n + 1
    OBVIOUS
  <1>7. \A i \in 1 .. n - 1 : /\ i \in 1 .. n /\ i # n
                              /\ i > 1 => i - 1 \in 1 .. n - 1
    OBVIOUS
  <1>8. FramesOK'
    <2>1. \A i \in 1 .. n - 1 : /\ Point(stack'[i].proc, stack'[i].at)
                                /\ stack'[i].at # "start"
      BY <1>1, <1>2, <1>7 DEF SInv, FramesOK
    <2>2. Point(Top.proc, at) /\ Point(callee, "start")
      BY DEF CallFits
    <2>3. returned'.outcome = "none"
      BY <1>2 DEF Nothing
    <2>. QED
      BY <1>2, <1>3, <1>5, <1>6, <2>1, <2>2, <2>3 DEF FramesOK
  <1>9. OperatorsRead'
    <2>1. \A i \in 1 .. n - 1 : stack'[i].at = "right_child" => OperatorRead(stack'[i].tree, tokens')
      BY <1>2, <1>5, <1>7, OperatorStaysRead DEF SInv, OperatorsRead
    <2>2. at = "right_child" => OperatorRead(tree, tokens')
      BY DEF CallFits
    <2>. QED
      BY <1>2, <1>3, <1>6, <2>1, <2>2 DEF OperatorsRead
  <1>10. Callers'
    <2>1. \A i \in 1 .. n : /\ stack[i].proc = "file" <=> i = 1
                            /\ i > 1 => CalledAt(stack[i].proc, stack[i - 1].at)
      BY <1>2 DEF SInv, Callers
    <2>2. \A i \in 1 .. n - 1 : /\ stack'[i].proc = "file" <=> i = 1
                                /\ i > 1 => CalledAt(stack'[i].proc, stack'[i - 1].at)
      BY <1>2, <1>7, <2>1
    <2>3. n > 1 => n - 1 \in 1 .. n - 1
      OBVIOUS
    <2>4. /\ stack'[n].proc = "file" <=> n = 1
          /\ n > 1 => CalledAt(stack'[n].proc, stack'[n - 1].at)
      BY <1>2, <1>3, <2>1, <2>3
    <2>5. CalledAt(callee, at) /\ callee # "file"
      BY DEF CallFits
    <2>6. n + 1 # 1 /\ (n + 1) - 1 = n
      OBVIOUS
    <2>7. /\ stack'[n + 1].proc = "file" <=> n + 1 = 1
          /\ CalledAt(stack'[n + 1].proc, stack'[(n + 1) - 1].at)
      BY <1>3, <2>5, <2>6
    <2>. DEFINE Fits(i) == /\ stack'[i].proc = "file" <=> i = 1
                           /\ i > 1 => CalledAt(stack'[i].proc, stack'[i - 1].at)
    <2>8. Fits(n) /\ Fits(n + 1) /\ \A i \in 1 .. n - 1 : Fits(i)
      BY <2>2, <2>4, <2>7
    <2>. HIDE DEF Fits
    <2>9. \A i \in 1 .. n + 1 : Fits(i)
      BY <1>6, <2>8
    <2>. QED
      BY <1>2, <2>9 DEF Callers, Fits
  <1>11. EndIsLast' /\ FunctionAhead'
    <2>1. callee # "function"
      BY DEF CallFits
    <2>. QED
      BY <1>3, <1>4, <1>5, <2>1 DEF EndIsLast, FunctionAhead, Is
  <1>. QED
    BY <1>5, <1>8, <1>9, <1>10, <1>11 DEF SInv

\* What a return may do: once the end was a statement only the callers of
\* statements and functions are left, and the file ends no other way.
ReturnFits(result) ==
    /\ result.outcome \in {"success", "failure"}
    /\ Reached(tokens, tokens')
    /\ done' \in BOOLEAN
    /\ done' => EndAhead' /\ Top.proc \in {"file", "statement", "function"}
    /\ Top.proc = "file" /\ result.outcome = "success" => done'

LEMMA ReturnKeepsSInv ==
    ASSUME SInv, stack # <<>>, NEW result, Return(result), ReturnFits(result)
    PROVE  SInv'
  <1>1. PICK n \in Nat \ {0} : n = Len(stack)
    BY StackBelow DEF SInv, FramesOK
  <1>2. /\ Stacked(stack') /\ Len(stack') = n - 1
        /\ DOMAIN stack = 1 .. n /\ DOMAIN stack' = 1 .. n - 1
        /\ \A i \in 1 .. n - 1 : stack'[i] = stack[i]
        /\ returned' = result
    <2>1. Stacked(stack)
      BY DEF SInv, FramesOK
    <2>. QED
      BY <1>1, <2>1, ReturnStack
  <1>3. \A i \in 1 .. n - 1 : /\ i \in 1 .. n /\ i # n
                              /\ i > 1 => i - 1 \in 1 .. n - 1
    OBVIOUS
  <1>4. Reached(tokens, tokens') /\ Sound(tokens') /\ done' \in BOOLEAN
    BY DEF ReturnFits, Reached
  <1>5. \A i \in 1 .. n : /\ stack[i].proc = "file" <=> i = 1
                          /\ i > 1 => CalledAt(stack[i].proc, stack[i - 1].at)
    BY <1>2 DEF SInv, Callers
  <1>6. Top = stack[n] /\ n \in 1 .. n
    BY <1>1 DEF Top
  <1>7. stack' = <<>> <=> n = 1
    <2>1. stack' = <<>> <=> n - 1 = 0
      BY <1>2, StackEmpty
    <2>2. n - 1 = 0 <=> n = 1
      OBVIOUS
    <2>. QED
      BY <2>1, <2>2
  <1>8. n # 1 => n > 1 /\ n - 1 \in 1 .. n - 1
    OBVIOUS
  <1>9. stack' # <<>> => /\ Top' = stack[n - 1] /\ Top'.at # "start"
                         /\ CalledAt(Top.proc, Top'.at) /\ Top.proc # "file"
    <2>. SUFFICES ASSUME stack' # <<>>
                  PROVE  /\ Top' = stack[n - 1] /\ Top'.at # "start"
                         /\ CalledAt(Top.proc, Top'.at) /\ Top.proc # "file"
      OBVIOUS
    <2>1. n > 1 /\ n - 1 \in 1 .. n - 1 /\ n # 1
      BY <1>7, <1>8
    <2>2. Top' = stack[n - 1]
      BY <1>2, <2>1 DEF Top
    <2>3. n - 1 \in DOMAIN stack /\ n - 1 # n
      BY <1>2, <1>3, <2>1
    <2>4. stack[n - 1].at # "start"
      BY <1>1, <2>3 DEF SInv, FramesOK
    <2>5. CalledAt(Top.proc, stack[n - 1].at) /\ Top.proc # "file"
      BY <1>5, <1>6, <2>1
    <2>. QED
      BY <2>2, <2>4, <2>5
  <1>10. FramesOK'
    <2>1. \A i \in 1 .. n - 1 : /\ Point(stack'[i].proc, stack'[i].at)
                                /\ stack'[i].at # "start"
      BY <1>1, <1>2, <1>3 DEF SInv, FramesOK
    <2>2. returned'.outcome \in {"success", "failure"}
      BY <1>2 DEF ReturnFits
    <2>. QED
      BY <1>2, <1>4, <2>1, <2>2 DEF FramesOK
  <1>11. OperatorsRead'
    BY <1>2, <1>3, <1>4, OperatorStaysRead DEF SInv, OperatorsRead
  <1>12. Callers'
    <2>1. \A i \in 1 .. n - 1 : /\ stack'[i].proc = "file" <=> i = 1
                                /\ i > 1 => CalledAt(stack'[i].proc, stack'[i - 1].at)
      BY <1>2, <1>3, <1>5
    <2>. QED
      BY <1>2, <2>1 DEF Callers
  <1>13. EndIsLast'
    <2>1. done' => EndAhead' /\ Top.proc \in {"file", "statement", "function"}
      BY DEF ReturnFits
    <2>2. done' /\ stack' # <<>> => Top'.at \in ForStatement \cup {"value"}
      BY <1>9, <2>1 DEF CalledAt
    <2>3. stack' = <<>> => Top.proc = "file"
      BY <1>5, <1>6, <1>7
    <2>4. stack' = <<>> /\ returned'.outcome = "success" => done'
      BY <1>2, <2>3 DEF ReturnFits
    <2>. QED
      BY <2>1, <2>2, <2>4 DEF EndIsLast
  <1>14. FunctionAhead'
    BY <1>9 DEF FunctionAhead, Is
  <1>. QED
    BY <1>4, <1>10, <1>11, <1>12, <1>13, <1>14 DEF SInv

\* A jump within a function, or to the function called in its place.
JumpFits(proc, at) ==
    /\ Point(proc, at) /\ at # "right_child"
    /\ Top.proc # "file" /\ proc # "file"
    /\ \A below : CalledAt(Top.proc, below) => CalledAt(proc, below)
    /\ Reached(tokens, tokens')
    /\ proc = "function" /\ at = "start" => tokens'.pending # <<>>
    /\ ~done /\ done' = done

LEMMA JumpKeepsSInv ==
    ASSUME SInv, stack # <<>>, NEW proc, NEW at, NEW tree,
           Replaced(Frame(proc, at, tree)), JumpFits(proc, at)
    PROVE  SInv'
  <1>1. PICK n \in Nat \ {0} : n = Len(stack)
    BY StackBelow DEF SInv, FramesOK
  <1>2. /\ Stacked(stack') /\ Len(stack') = n
        /\ DOMAIN stack = 1 .. n /\ DOMAIN stack' = 1 .. n
        /\ \A i \in 1 .. n - 1 : stack'[i] = stack[i]
        /\ stack'[n] = Frame(proc, at, tree)
        /\ returned' = Nothing
    <2>1. Stacked(stack)
      BY DEF SInv, FramesOK
    <2>. QED
      BY <1>1, <2>1, ReplacedStack
  <1>3. stack'[n].proc = proc /\ stack'[n].at = at /\ Top = stack[n]
    BY <1>1, <1>2 DEF Frame, Top
  <1>4. Top' = stack'[n] /\ stack' # <<>>
    BY <1>2, StackEmpty DEF Top
  <1>5. Reached(tokens, tokens') /\ at # "right_child" /\ Sound(tokens') /\ done' = FALSE
    BY DEF JumpFits, Reached, SInv, FramesOK
  <1>6. \A i \in 1 .. n : i \in 1 .. n - 1 \/ i = n
    OBVIOUS
  <1>7. \A i \in 1 .. n - 1 : /\ i \in 1 .. n /\ i # n
                              /\ i > 1 => i - 1 \in 1 .. n - 1
    OBVIOUS
  <1>8. FramesOK'
    <2>1. \A i \in 1 .. n - 1 : /\ Point(stack'[i].proc, stack'[i].at)
                                /\ stack'[i].at # "start"
      BY <1>1, <1>2, <1>7 DEF SInv, FramesOK
    <2>2. Point(proc, at)
      BY DEF JumpFits
    <2>3. returned'.outcome = "none"
      BY <1>2 DEF Nothing
    <2>. QED
      BY <1>2, <1>3, <1>5, <1>6, <2>1, <2>2, <2>3 DEF FramesOK
  <1>9. OperatorsRead'
    <2>1. \A i \in 1 .. n - 1 : stack'[i].at = "right_child" => OperatorRead(stack'[i].tree, tokens')
      BY <1>2, <1>5, <1>7, OperatorStaysRead DEF SInv, OperatorsRead
    <2>. QED
      BY <1>2, <1>3, <1>5, <1>6, <2>1 DEF OperatorsRead
  <1>10. Callers'
    <2>. DEFINE Fits(i) == /\ stack'[i].proc = "file" <=> i = 1
                           /\ i > 1 => CalledAt(stack'[i].proc, stack'[i - 1].at)
    <2>1. \A i \in 1 .. n : /\ stack[i].proc = "file" <=> i = 1
                            /\ i > 1 => CalledAt(stack[i].proc, stack[i - 1].at)
      BY <1>2 DEF SInv, Callers
    <2>2. \A i \in 1 .. n - 1 : Fits(i)
      BY <1>2, <1>7, <2>1
    <2>3. n > 1 /\ n - 1 \in 1 .. n - 1 /\ n \in 1 .. n
      <3>1. n # 1
        BY <1>3, <2>1 DEF JumpFits
      <3>. QED
        BY <3>1
    <2>4. CalledAt(Top.proc, stack'[n - 1].at)
      BY <1>2, <1>3, <2>1, <2>3
    <2>5. CalledAt(proc, stack'[n - 1].at) /\ proc # "file"
      BY <2>4 DEF JumpFits
    <2>6. Fits(n)
      BY <1>3, <2>3, <2>5
    <2>. HIDE DEF Fits
    <2>7. \A i \in 1 .. n : Fits(i)
      BY <1>6, <2>2, <2>6
    <2>. QED
      BY <1>2, <2>7 DEF Callers, Fits
  <1>11. EndIsLast' /\ FunctionAhead'
    <2>1. proc = "function" /\ at = "start" => tokens'.pending # <<>>
      BY DEF JumpFits
    <2>. QED
      BY <1>3, <1>4, <1>5, <2>1 DEF EndIsLast, FunctionAhead, Is
  <1>. QED
    BY <1>5, <1>8, <1>9, <1>10, <1>11 DEF SInv

\* While a function is at its start, or waits for anything but a statement or a
\* value, the end of the file was not a statement.
Busy == ~done /\ stack # <<>> /\ Top.proc # "file" /\ Sound(tokens)

LEMMA BusyAt ==
    ASSUME SInv, stack # <<>>, Top.at \notin ForStatement \cup {"value"}, Top.proc # "file"
    PROVE  Busy
  BY DEF SInv, FramesOK, EndIsLast, Busy

LEMMA BusyReturns ==
    ASSUME SInv, Busy, NEW result, Return(result), result.outcome \in {"success", "failure"},
           Reached(tokens, tokens'), done' = done
    PROVE  SInv'
  <1>1. ReturnFits(result)
    BY DEF ReturnFits, Busy, SInv, FramesOK
  <1>. QED
    BY <1>1, ReturnKeepsSInv DEF Busy

LEMMA BusyFails ==
    ASSUME SInv, Busy, Return(Failure), Reached(tokens, tokens'), done' = done
    PROVE  SInv'
  <1>1. Failure.outcome \in {"success", "failure"}
    BY DEF Failure
  <1>. QED
    BY <1>1, BusyReturns

LEMMA BusySucceeds ==
    ASSUME SInv, Busy, NEW tree, Return(Success(tree)), Reached(tokens, tokens'), done' = done
    PROVE  SInv'
  <1>1. Success(tree).outcome \in {"success", "failure"}
    BY DEF Success
  <1>. QED
    BY <1>1, BusyReturns

LEMMA BusyCalls ==
    ASSUME SInv, Busy, NEW callee, NEW at, NEW tree, Call(callee, at, tree),
           Point(Top.proc, at), at \notin {"start", "right_child"},
           Point(callee, "start"), callee \notin {"file", "function"}, CalledAt(callee, at),
           Reached(tokens, tokens'), done' = done
    PROVE  SInv'
  <1>1. CallFits(callee, at, tree)
    BY DEF CallFits, Busy
  <1>. QED
    BY <1>1, CallKeepsSInv DEF Busy

LEMMA BusyGoes ==
    ASSUME SInv, Busy, NEW at, NEW tree, Goto(at, tree),
           Point(Top.proc, at), at \notin {"start", "right_child"},
           Reached(tokens, tokens'), done' = done
    PROVE  SInv'
  <1>1. JumpFits(Top.proc, at)
    BY DEF JumpFits, Busy
  <1>2. Replaced(Frame(Top.proc, at, tree))
    BY DEF Goto, Replaced
  <1>. QED
    BY <1>1, <1>2, JumpKeepsSInv DEF Busy

-----------------------------------------------------------------------------
\* Every step of the expression parser keeps the invariant.

\* The lookahead gives back what it took.
LEMMA LookaheadReached ==
    ASSUME Sound(tokens), parser_parse_function_or_expression
    PROVE  Reached(tokens, tokens') /\ tokens'.pending # <<>>
  <1>1. PICK v \in Peeked(tokens) : LET paren == Head(v.pending) IN
           \/ tokens' = v
           \/ /\ paren.type = "left_paren"
              /\ \E w \in Peeked(Taken(v)) : LET after == Head(w.pending) IN
                   \/ tokens' = PutBack(w, paren)
                   \/ /\ after.type = "identifier"
                      /\ \E x \in Peeked(Taken(w)) :
                            tokens' = PutBack(PutBack(x, after), paren)
    BY DEF parser_parse_function_or_expression
  <1>. DEFINE p == Head(v.pending)
              u == Taken(v)
  <1>2. /\ Reached(tokens, v) /\ Reached(tokens, u) /\ v.pending # <<>>
        /\ p.at \in DOMAIN u.read /\ u.read[p.at] = p
    BY NextReached
  <1>. HIDE DEF p, u
  <1>3. CASE tokens' = v
    BY <1>2, <1>3
  <1>4. ASSUME p.type = "left_paren", NEW w \in Peeked(u)
        PROVE  /\ tokens' = PutBack(w, p) => Reached(tokens, tokens') /\ tokens'.pending # <<>>
               /\ \A x \in Peeked(Taken(w)) :
                     /\ Head(w.pending).type = "identifier"
                     /\ tokens' = PutBack(PutBack(x, Head(w.pending)), p)
                     => Reached(tokens, tokens') /\ tokens'.pending # <<>>
    <2>. DEFINE q == Head(w.pending)
                y == Taken(w)
    <2>1. /\ Reached(u, w) /\ Reached(u, y)
          /\ q.at \in DOMAIN y.read /\ y.read[q.at] = q
      BY <1>2, NextReached DEF Reached
    <2>. HIDE DEF q, y
    <2>2. Reached(tokens, w) /\ Reached(tokens, y)
      BY <1>2, <2>1, ReachedTransitive
    <2>3. \A z : Reached(u, z) => p.at \in DOMAIN z.read /\ z.read[p.at] = p
      BY <1>2 DEF Reached, Extended
    <2>4. \A z : Reached(u, z) =>
             Sound(z) /\ Reached(z, PutBack(z, p)) /\ PutBack(z, p).pending # <<>>
      BY <1>4, <2>3, PutBackReached DEF Reached
    <2>5. ASSUME tokens' = PutBack(w, p)
          PROVE  Reached(tokens, tokens') /\ tokens'.pending # <<>>
      BY <2>1, <2>2, <2>4, <2>5, ReachedTransitive
    <2>6. ASSUME NEW x \in Peeked(y), q.type = "identifier",
                 tokens' = PutBack(PutBack(x, q), p)
          PROVE  Reached(tokens, tokens') /\ tokens'.pending # <<>>
      <3>1. Reached(y, x)
        BY <2>1, <2>6, NextReached DEF Reached
      <3>2. Sound(x) /\ q.at \in DOMAIN x.read /\ x.read[q.at] = q
        BY <2>1, <3>1 DEF Reached, Extended
      <3>3. Reached(x, PutBack(x, q))
        BY <2>6, <3>2, PutBackReached
      <3>4. Reached(u, PutBack(x, q)) /\ Reached(tokens, PutBack(x, q))
        BY <2>1, <2>2, <3>1, <3>3, ReachedTransitive
      <3>5. /\ Reached(PutBack(x, q), tokens') /\ tokens'.pending # <<>>
        BY <2>4, <2>6, <3>4
      <3>. QED
        BY <3>4, <3>5, ReachedTransitive
    <2>. QED
      BY <2>5, <2>6 DEF q, y
  <1>. QED
    BY <1>1, <1>3, <1>4 DEF p, u

LEMMA LookaheadKeepsSInv ==
    ASSUME SInv, parser_parse_function_or_expression, done' = done
    PROVE  SInv'
  <1>1. /\ stack # <<>> /\ Top.proc = "function_or_expression" /\ Top.at = "start"
        /\ Sound(tokens)
    BY DEF SInv, Is, parser_parse_function_or_expression
  <1>2. Busy
    BY <1>1, BusyAt DEF ForStatement
  <1>3. Reached(tokens, tokens') /\ tokens'.pending # <<>>
    BY <1>1, LookaheadReached
  <1>4. PICK callee \in {"function", "beginning"} : TailCall(callee)
    BY DEF parser_parse_function_or_expression, Decide
  <1>5. JumpFits(callee, "start")
    <2>1. Point(callee, "start")
      BY PointIs
    <2>2. \A below : CalledAt(Top.proc, below) => CalledAt(callee, below)
      BY <1>1 DEF CalledAt
    <2>. QED
      BY <1>1, <1>2, <1>3, <2>1, <2>2 DEF JumpFits, Busy
  <1>6. Replaced(Frame(callee, "start", Null))
    BY <1>4 DEF TailCall, Replaced
  <1>. QED
    BY <1>1, <1>5, <1>6, JumpKeepsSInv

LEMMA BeginningKeepsSInv ==
    ASSUME SInv, ExpressionBeginning, done' = done
    PROVE  SInv'
  <1>1. /\ stack # <<>> /\ Top.proc = "beginning" /\ Top.at = "start" /\ Sound(tokens)
    BY DEF SInv, Is, ExpressionBeginning
  <1>2. Busy
    BY <1>1, BusyAt DEF ForStatement
  <1>3. PICK v \in Peeked(tokens) : LET t == Head(v.pending) IN
           \/ tokens' = Taken(v) /\ Call("beginning", "in_parens", Null)
           \/ \E w \in Peeked(Taken(v)) :
                 /\ tokens' = w
                 /\ Call("call_list", "arguments", Leaf(t)) \/ Call("expression", "rest", Leaf(t))
           \/ tokens' = Taken(v) /\ Call("expression", "rest", Leaf(t))
           \/ tokens' = v /\ Return(Failure)
    BY DEF ExpressionBeginning
  <1>4. Reached(tokens, v) /\ Reached(tokens, Taken(v))
    BY <1>1, NextReached
  <1>5. Reached(tokens, tokens')
    BY <1>3, <1>4, FurtherReached
  <1>6. CASE Return(Failure)
    BY <1>2, <1>5, <1>6, BusyFails
  <1>7. ASSUME NEW callee \in {"beginning", "expression", "call_list"},
               NEW at \in {"in_parens", "arguments", "rest"}, NEW tree, Call(callee, at, tree)
        PROVE  SInv'
    <2>1. Point(Top.proc, at) /\ Point(callee, "start") /\ CalledAt(callee, at)
      BY <1>1, PointIs DEF CalledAt
    <2>. QED
      BY <1>2, <1>5, <1>7, <2>1, BusyCalls
  <1>. QED
    BY <1>3, <1>6, <1>7

LEMMA AfterParensKeepsSInv ==
    ASSUME SInv, AfterParens, done' = done
    PROVE  SInv'
  <1>1. /\ stack # <<>> /\ Top.proc = "beginning" /\ Top.at = "in_parens" /\ Sound(tokens)
    BY DEF SInv, Is, AfterParens
  <1>2. Busy
    BY <1>1, BusyAt DEF ForStatement
  <1>3. /\ Reached(tokens, tokens')
        /\ Return(Failure) \/ \E tree : Call("expression", "rest", tree)
    BY <1>1, NextReached, ReachedSame DEF AfterParens
  <1>4. CASE Return(Failure)
    BY <1>2, <1>3, <1>4, BusyFails
  <1>5. ASSUME NEW tree, Call("expression", "rest", tree)
        PROVE  SInv'
    <2>1. Point(Top.proc, "rest") /\ Point("expression", "start") /\ CalledAt("expression", "rest")
      BY <1>1, PointIs DEF CalledAt
    <2>. QED
      BY <1>2, <1>3, <1>5, <2>1, BusyCalls
  <1>. QED
    BY <1>3, <1>4, <1>5

LEMMA AfterArgumentsKeepsSInv ==
    ASSUME SInv, AfterArguments, done' = done
    PROVE  SInv'
  <1>1. /\ stack # <<>> /\ Top.proc = "beginning" /\ Top.at = "arguments" /\ Sound(tokens)
    BY DEF SInv, Is, AfterArguments
  <1>2. Busy
    BY <1>1, BusyAt DEF ForStatement
  <1>3. /\ Reached(tokens, tokens')
        /\ Return(Failure) \/ \E tree : Call("expression", "rest", tree)
    BY <1>1, ReachedSame DEF AfterArguments
  <1>4. CASE Return(Failure)
    BY <1>2, <1>3, <1>4, BusyFails
  <1>5. ASSUME NEW tree, Call("expression", "rest", tree)
        PROVE  SInv'
    <2>1. Point(Top.proc, "rest") /\ Point("expression", "start") /\ CalledAt("expression", "rest")
      BY <1>1, PointIs DEF CalledAt
    <2>. QED
      BY <1>2, <1>3, <1>5, <2>1, BusyCalls
  <1>. QED
    BY <1>3, <1>4, <1>5

LEMMA AfterRestKeepsSInv ==
    ASSUME SInv, AfterRest, done' = done
    PROVE  SInv'
  <1>1. /\ stack # <<>> /\ Top.proc = "beginning" /\ Top.at = "rest" /\ Sound(tokens)
    BY DEF SInv, Is, AfterRest
  <1>2. Busy
    BY <1>1, BusyAt DEF ForStatement
  <1>3. Reached(tokens, tokens') /\ \E tree : Return(Success(tree))
    BY <1>1, ReachedSame DEF AfterRest
  <1>. QED
    BY <1>2, <1>3, BusySucceeds

LEMMA ExpressionKeepsSInv ==
    ASSUME SInv, Expression, done' = done
    PROVE  SInv'
  <1>1. /\ stack # <<>> /\ Top.proc = "expression" /\ Top.at = "start" /\ Sound(tokens)
    BY DEF SInv, Is, Expression
  <1>2. Busy
    BY <1>1, BusyAt DEF ForStatement
  <1>3. PICK v \in Peeked(tokens) : LET t == Head(v.pending) IN
           \/ /\ t.type \in Operators
              /\ tokens' = Taken(v)
              /\ Call("beginning", "right_child", Leaf(t))
           \/ /\ t.type \notin Operators
              /\ tokens' = v
              /\ Return(Failure)
    BY DEF Expression
  <1>. DEFINE t == Head(v.pending)
  <1>4. /\ Reached(tokens, v) /\ Reached(tokens, Taken(v))
        /\ t \in Tokens /\ t.at \in DOMAIN Taken(v).read /\ Taken(v).read[t.at] = t
    BY <1>1, NextReached
  <1>. HIDE DEF t
  <1>5. CASE t.type \in Operators
    <2>1. tokens' = Taken(v) /\ Call("beginning", "right_child", Leaf(t))
      BY <1>3, <1>5 DEF t
    <2>2. /\ Leaf(t).type = t.type /\ Leaf(t).at = t.at
          /\ t = [type |-> t.type, at |-> t.at]
      BY <1>4 DEF Leaf, Node, Tokens
    <2>3. OperatorRead(Leaf(t), tokens')
      BY <1>4, <1>5, <2>1, <2>2 DEF OperatorRead
    <2>4. /\ Point(Top.proc, "right_child") /\ Point("beginning", "start")
          /\ CalledAt("beginning", "right_child")
      BY <1>1, PointIs DEF CalledAt
    <2>5. CallFits("beginning", "right_child", Leaf(t))
      BY <1>2, <1>4, <2>1, <2>3, <2>4 DEF CallFits, Busy
    <2>. QED
      BY <1>1, <2>1, <2>5, CallKeepsSInv
  <1>6. CASE t.type \notin Operators
    <2>1. tokens' = v /\ Return(Failure)
      BY <1>3, <1>6 DEF t
    <2>. QED
      BY <1>2, <1>4, <2>1, BusyFails
  <1>. QED
    BY <1>5, <1>6

LEMMA AfterRightChildKeepsSInv ==
    ASSUME SInv, AfterRightChild, done' = done
    PROVE  SInv'
  <1>1. /\ stack # <<>> /\ Top.proc = "expression" /\ Top.at = "right_child" /\ Sound(tokens)
    BY DEF SInv, Is, AfterRightChild
  <1>2. Busy
    BY <1>1, BusyAt DEF ForStatement
  <1>3. CASE returned.outcome = "failure"
    <2>1. OperatorRead(Top.tree, tokens)
      <3>1. Len(stack) \in DOMAIN stack
        BY <1>1, StackBelow DEF SInv, FramesOK
      <3>. QED
        BY <1>1, <3>1 DEF SInv, OperatorsRead, Top
    <2>2. PICK t : /\ t = [type |-> Top.tree.type, at |-> Top.tree.at]
                   /\ tokens' = PutBack(tokens, t)
                   /\ Return(Failure)
      BY <1>3 DEF AfterRightChild
    <2>3. t.type = Top.tree.type /\ t.at = Top.tree.at
      BY <2>2
    <2>4. t.at \in DOMAIN tokens.read /\ tokens.read[t.at] = t /\ t.type # "EOF"
      BY <2>1, <2>2, <2>3, TokenAssumption DEF OperatorRead
    <2>5. Reached(tokens, tokens')
      BY <1>1, <2>2, <2>4, PutBackReached
    <2>. QED
      BY <1>2, <2>2, <2>5, BusyFails
  <1>4. CASE returned.outcome = "success"
    <2>1. Reached(tokens, tokens') /\ \E tree : Return(Success(tree))
      BY <1>1, <1>4, ReachedSame DEF AfterRightChild
    <2>. QED
      BY <1>2, <2>1, BusySucceeds
  <1>. QED
    BY <1>3, <1>4 DEF AfterRightChild

LEMMA CallListKeepsSInv ==
    ASSUME SInv, CallList, done' = done
    PROVE  SInv'
  <1>1. /\ stack # <<>> /\ Top.proc = "call_list" /\ Top.at = "start" /\ Sound(tokens)
    BY DEF SInv, Is, CallList
  <1>2. Busy
    BY <1>1, BusyAt DEF ForStatement
  <1>3. PICK u \in Peeked(tokens) :
           \/ tokens' = Taken(u) /\ Return(Failure)
           \/ \E v \in Peeked(Taken(u)) :
                 \/ tokens' = Taken(v) /\ \E tree : Return(Success(tree))
                 \/ tokens' = v /\ \E tree : Call("beginning", "argument", tree)
    BY DEF CallList
  <1>4. Reached(tokens, Taken(u))
    BY <1>1, NextReached
  <1>5. Reached(tokens, tokens')
    BY <1>3, <1>4, FurtherReached
  <1>6. CASE Return(Failure)
    BY <1>2, <1>5, <1>6, BusyFails
  <1>7. CASE \E tree : Return(Success(tree))
    BY <1>2, <1>5, <1>7, BusySucceeds
  <1>8. ASSUME NEW tree, Call("beginning", "argument", tree)
        PROVE  SInv'
    <2>1. /\ Point(Top.proc, "argument") /\ Point("beginning", "start")
          /\ CalledAt("beginning", "argument")
      BY <1>1, PointIs DEF CalledAt
    <2>. QED
      BY <1>2, <1>5, <1>8, <2>1, BusyCalls
  <1>. QED
    BY <1>3, <1>6, <1>7, <1>8

LEMMA AfterArgumentKeepsSInv ==
    ASSUME SInv, AfterArgument, done' = done
    PROVE  SInv'
  <1>1. /\ stack # <<>> /\ Top.proc = "call_list" /\ Top.at = "argument" /\ Sound(tokens)
    BY DEF SInv, Is, AfterArgument
  <1>2. Busy
    BY <1>1, BusyAt DEF ForStatement
  <1>3. /\ Reached(tokens, tokens')
        /\ \/ Return(Failure)
           \/ \E tree : Return(Success(tree))
           \/ \E tree : Call("beginning", "argument", tree)
    BY <1>1, NextReached, ReachedSame DEF AfterArgument
  <1>4. CASE Return(Failure)
    BY <1>2, <1>3, <1>4, BusyFails
  <1>5. CASE \E tree : Return(Success(tree))
    BY <1>2, <1>3, <1>5, BusySucceeds
  <1>6. ASSUME NEW tree, Call("beginning", "argument", tree)
        PROVE  SInv'
    <2>1. /\ Point(Top.proc, "argument") /\ Point("beginning", "start")
          /\ CalledAt("beginning", "argument")
      BY <1>1, PointIs DEF CalledAt
    <2>. QED
      BY <1>2, <1>3, <1>6, <2>1, BusyCalls
  <1>. QED
    BY <1>3, <1>4, <1>5, <1>6

LEMMA ExpressionStepKeepsSInv ==
    ASSUME SInv, ExpressionStep, done' = done
    PROVE  SInv'
  <1>1. CASE parser_parse_function_or_expression
    BY <1>1, LookaheadKeepsSInv
  <1>2. CASE ExpressionBeginning
    BY <1>2, BeginningKeepsSInv
  <1>3. CASE AfterParens
    BY <1>3, AfterParensKeepsSInv
  <1>4. CASE AfterArguments
    BY <1>4, AfterArgumentsKeepsSInv
  <1>5. CASE AfterRest
    BY <1>5, AfterRestKeepsSInv
  <1>6. CASE Expression
    BY <1>6, ExpressionKeepsSInv
  <1>7. CASE AfterRightChild
    BY <1>7, AfterRightChildKeepsSInv
  <1>8. CASE CallList
    BY <1>8, CallListKeepsSInv
  <1>9. CASE AfterArgument
    BY <1>9, AfterArgumentKeepsSInv
  <1>. QED
    BY <1>1, <1>2, <1>3, <1>4, <1>5, <1>6, <1>7, <1>8, <1>9 DEF ExpressionStep

-----------------------------------------------------------------------------
\* Every step of the statement parser keeps the invariant.

LEMMA ParseFileKeepsSInv ==
    ASSUME SInv, ParseFile
    PROVE  SInv'
  <1>1. /\ stack # <<>> /\ Top.proc = "file" /\ Top.at = "start" /\ Sound(tokens)
        /\ tokens' = tokens /\ done' = done
    BY DEF SInv, Is, ParseFile
  <1>2. ~done
    BY <1>1 DEF SInv, FramesOK, EndIsLast, ForStatement
  <1>3. PICK tree : Call("statement", "statements", tree)
    BY DEF ParseFile
  <1>4. CallFits("statement", "statements", tree)
    <2>1. Point(Top.proc, "statements") /\ Point("statement", "start")
      BY <1>1, PointIs
    <2>2. Reached(tokens, tokens')
      BY <1>1, ReachedSame
    <2>. QED
      BY <1>1, <1>2, <2>1, <2>2 DEF CallFits, CalledAt, ForStatement
  <1>. QED
    BY <1>1, <1>3, <1>4, CallKeepsSInv

\* The end of a file is accepted only after the statement that was the end.
LEMMA AfterFileStatementKeepsSInv ==
    ASSUME SInv, AfterFileStatement
    PROVE  SInv'
  <1>1. /\ stack # <<>> /\ Top.proc = "file" /\ Top.at = "statements" /\ Sound(tokens)
        /\ tokens' = tokens /\ done' = done /\ done \in BOOLEAN
    BY DEF SInv, FramesOK, Is, AfterFileStatement, Bubble
  <1>2. Reached(tokens, tokens')
    BY <1>1, ReachedSame
  <1>3. done' => EndAhead'
    BY <1>1 DEF SInv, EndIsLast, EndAhead
  <1>4. CASE Return(Failure)
    <2>1. ReturnFits(Failure)
      BY <1>1, <1>2, <1>3 DEF ReturnFits, Failure
    <2>. QED
      BY <1>1, <1>4, <2>1, ReturnKeepsSInv
  <1>5. ASSUME NEW tree, done, Return(Success(tree))
        PROVE  SInv'
    <2>1. ReturnFits(Success(tree))
      BY <1>1, <1>2, <1>3, <1>5 DEF ReturnFits, Success
    <2>. QED
      BY <1>1, <1>5, <2>1, ReturnKeepsSInv
  <1>6. ASSUME NEW tree, ~done, Call("statement", "statements", tree)
        PROVE  SInv'
    <2>1. Point(Top.proc, "statements") /\ Point("statement", "start")
      BY <1>1, PointIs
    <2>2. CallFits("statement", "statements", tree)
      BY <1>1, <1>2, <1>6, <2>1 DEF CallFits, CalledAt, ForStatement
    <2>. QED
      BY <1>1, <1>6, <2>2, CallKeepsSInv
  <1>. QED
    BY <1>4, <1>5, <1>6 DEF AfterFileStatement, Bubble

\* Where a statement starts.
LEMMA AtStart ==
    ASSUME SInv, At("start")
    PROVE  /\ stack # <<>> /\ Top.proc = "statement" /\ Top.at = "start" /\ Sound(tokens)
           /\ Busy
  <1>1. stack # <<>> /\ Top.proc = "statement" /\ Top.at = "start" /\ Sound(tokens)
    BY DEF SInv, At, Is
  <1>. QED
    BY <1>1, BusyAt DEF ForStatement

LEMMA CommentKeepsSInv ==
    ASSUME SInv, Comment
    PROVE  SInv'
  <1>1. Busy /\ Sound(tokens) /\ done' = done
    BY AtStart DEF Comment
  <1>2. Reached(tokens, tokens') /\ \E tree : Return(Success(tree))
    BY <1>1, NextReached DEF Comment
  <1>. QED
    BY <1>1, <1>2, BusySucceeds

LEMMA NoStatementKeepsSInv ==
    ASSUME SInv, NoStatement
    PROVE  SInv'
  <1>1. Busy /\ Sound(tokens) /\ done' = done
    BY AtStart DEF NoStatement
  <1>2. Reached(tokens, tokens') /\ Return(Failure)
    BY <1>1, NextReached DEF NoStatement
  <1>. QED
    BY <1>1, <1>2, BusyFails

LEMMA EndOfFileKeepsSInv ==
    ASSUME SInv, EndOfFile
    PROVE  SInv'
  <1>1. stack # <<>> /\ Top.proc = "statement" /\ Sound(tokens) /\ done' = TRUE
    BY AtStart DEF EndOfFile
  <1>2. PICK v \in Peeked(tokens) : /\ Head(v.pending).type = "EOF"
                                    /\ tokens' = v
                                    /\ \E tree : Return(Success(tree))
    BY DEF EndOfFile
  <1>3. Reached(tokens, tokens') /\ EndAhead'
    BY <1>1, <1>2, NextReached DEF EndAhead
  <1>4. PICK tree : Return(Success(tree))
    BY <1>2
  <1>5. ReturnFits(Success(tree))
    BY <1>1, <1>3 DEF ReturnFits, Success
  <1>. QED
    BY <1>1, <1>4, <1>5, ReturnKeepsSInv

\* A function that waited for a statement or a value returns: either the end of
\* the file was not a statement, or no token is touched.
LEMMA WaitingReturns ==
    ASSUME SInv, stack # <<>>, Top.proc \in {"statement", "function"},
           NEW result, Return(result), result.outcome \in {"success", "failure"},
           Reached(tokens, tokens'), done' = done, done => tokens' = tokens
    PROVE  SInv'
  <1>1. done \in BOOLEAN /\ Top.proc # "file"
    BY DEF SInv, FramesOK
  <1>2. done' => EndAhead'
    BY DEF SInv, EndIsLast, EndAhead
  <1>3. ReturnFits(result)
    BY <1>1, <1>2 DEF ReturnFits
  <1>. QED
    BY <1>3, ReturnKeepsSInv

LEMMA BubbleKeepsSInv ==
    ASSUME SInv, stack # <<>>, Top.proc \in {"statement", "function"}, Bubble, done' = done
    PROVE  SInv'
  <1>1. Return(Failure) /\ tokens' = tokens
    BY DEF Bubble
  <1>2. Reached(tokens, tokens')
    BY <1>1, ReachedSame DEF SInv
  <1>3. Failure.outcome \in {"success", "failure"}
    BY DEF Failure
  <1>. QED
    BY <1>1, <1>2, <1>3, WaitingReturns

\* After the end of the file was a statement, it is what a peek shows.
LEMMA PeekAtEnd ==
    ASSUME SInv, NEW v \in Peeked(tokens)
    PROVE  done => v = tokens /\ Head(v.pending).type = "EOF"
  BY NextReached DEF SInv, EndIsLast, EndAhead

\* The loop over the members of a scope.
LEMMA MembersKeepsSInv ==
    ASSUME SInv, stack # <<>>, Top.proc = "statement", done' = done,
           NEW scope, NEW v, Members(scope, v),
           Reached(tokens, v), Reached(tokens, Taken(v)),
           done => v = tokens /\ Head(v.pending).type = "EOF"
    PROVE  SInv'
  <1>1. CASE /\ Head(v.pending).type = "right_curly"
             /\ tokens' = Taken(v) /\ Return(Success(scope))
    <2>1. Success(scope).outcome \in {"success", "failure"}
      BY DEF Success
    <2>2. done => tokens' = tokens
      BY <1>1
    <2>. QED
      BY <1>1, <2>1, <2>2, WaitingReturns
  <1>2. CASE Head(v.pending).type = "EOF" /\ tokens' = v /\ Return(Failure)
    <2>1. Failure.outcome \in {"success", "failure"}
      BY DEF Failure
    <2>. QED
      BY <1>2, <2>1, WaitingReturns
  <1>3. CASE /\ Head(v.pending).type \notin {"right_curly", "EOF"}
             /\ tokens' = v /\ Call("statement", "members", scope)
    <2>1. Point(Top.proc, "members") /\ Point("statement", "start")
      BY PointIs
    <2>2. CallFits("statement", "members", scope)
      BY <1>3, <2>1 DEF CallFits, CalledAt, ForStatement
    <2>. QED
      BY <1>3, <2>2, CallKeepsSInv
  <1>. QED
    BY <1>1, <1>2, <1>3 DEF Members

LEMMA ScopeKeepsSInv ==
    ASSUME SInv, Scope
    PROVE  SInv'
  <1>1. /\ stack # <<>> /\ Top.proc = "statement" /\ ~done /\ Sound(tokens) /\ done' = done
    BY AtStart DEF Scope, Busy
  <1>2. PICK u \in Peeked(tokens) : \E v \in Peeked(Taken(u)) : Members(Node("scope", 0, <<>>), v)
    BY DEF Scope
  <1>3. PICK v \in Peeked(Taken(u)) : Members(Node("scope", 0, <<>>), v)
    BY <1>2
  <1>4. Reached(tokens, Taken(u))
    BY <1>1, NextReached
  <1>5. Reached(tokens, v) /\ Reached(tokens, Taken(v))
    BY <1>4, FurtherReached
  <1>. QED
    BY <1>1, <1>3, <1>5, MembersKeepsSInv

LEMMA AfterMemberKeepsSInv ==
    ASSUME SInv, AfterMember
    PROVE  SInv'
  <1>1. /\ stack # <<>> /\ Top.proc = "statement" /\ Sound(tokens) /\ done' = done
    BY DEF SInv, AfterMember, At, Is
  <1>2. CASE Bubble
    BY <1>1, <1>2, BubbleKeepsSInv
  <1>3. ASSUME NEW scope, NEW v \in Peeked(tokens), Members(scope, v)
        PROVE  SInv'
    BY <1>1, <1>3, NextReached, PeekAtEnd, MembersKeepsSInv
  <1>. QED
    BY <1>2, <1>3 DEF AfterMember

LEMMA ConditionKeepsSInv ==
    ASSUME SInv, Condition
    PROVE  SInv'
  <1>1. /\ Top.proc = "statement" /\ Busy /\ Sound(tokens) /\ done' = done
    BY AtStart DEF Condition
  <1>2. Reached(tokens, tokens') /\ \E tree : Call("beginning", "condition", tree)
    BY <1>1, NextReached DEF Condition
  <1>3. PICK tree : Call("beginning", "condition", tree)
    BY <1>2
  <1>4. /\ Point(Top.proc, "condition") /\ Point("beginning", "start")
        /\ CalledAt("beginning", "condition")
    BY <1>1, PointIs DEF CalledAt
  <1>. QED
    BY <1>1, <1>2, <1>3, <1>4, BusyCalls

LEMMA AfterConditionKeepsSInv ==
    ASSUME SInv, AfterCondition
    PROVE  SInv'
  <1>1. /\ stack # <<>> /\ Top.proc = "statement" /\ Top.at = "condition"
        /\ Sound(tokens) /\ done' = done
    BY DEF SInv, AfterCondition, At, Is
  <1>2. Busy
    BY <1>1, BusyAt DEF ForStatement
  <1>3. CASE Bubble
    BY <1>1, <1>3, BubbleKeepsSInv
  <1>4. ASSUME NEW tree, Call("statement", "body", tree), tokens' = tokens
        PROVE  SInv'
    <2>1. /\ Point(Top.proc, "body") /\ Point("statement", "start")
          /\ CalledAt("statement", "body")
      BY <1>1, PointIs DEF CalledAt, ForStatement
    <2>2. Reached(tokens, tokens')
      BY <1>1, <1>4, ReachedSame
    <2>. QED
      BY <1>1, <1>2, <1>4, <2>1, <2>2, BusyCalls
  <1>. QED
    BY <1>3, <1>4 DEF AfterCondition

LEMMA AfterBodyKeepsSInv ==
    ASSUME SInv, AfterBody
    PROVE  SInv'
  <1>1. /\ stack # <<>> /\ Top.proc = "statement" /\ Sound(tokens) /\ done' = done
    BY DEF SInv, AfterBody, At, Is
  <1>2. CASE Bubble
    BY <1>1, <1>2, BubbleKeepsSInv
  <1>3. ASSUME NEW tree, Return(Success(tree)), tokens' = tokens
        PROVE  SInv'
    <2>1. Success(tree).outcome \in {"success", "failure"}
      BY DEF Success
    <2>2. Reached(tokens, tokens')
      BY <1>1, <1>3, ReachedSame
    <2>. QED
      BY <1>1, <1>3, <2>1, <2>2, WaitingReturns
  <1>4. ASSUME NEW tree, NEW v \in Peeked(tokens), tokens' = v, Return(Success(tree))
        PROVE  SInv'
    <2>1. Success(tree).outcome \in {"success", "failure"}
      BY DEF Success
    <2>2. Reached(tokens, tokens') /\ (done => tokens' = tokens)
      BY <1>1, <1>4, NextReached, PeekAtEnd
    <2>. QED
      BY <1>1, <1>4, <2>1, <2>2, WaitingReturns
  <1>5. ASSUME NEW tree, NEW v \in Peeked(tokens), Head(v.pending).type = "else",
               tokens' = Taken(v), Call("statement", "else", tree)
        PROVE  SInv'
    <2>1. ~done /\ Reached(tokens, tokens')
      BY <1>1, <1>5, NextReached, PeekAtEnd
    <2>2. Point(Top.proc, "else") /\ Point("statement", "start")
      BY <1>1, PointIs
    <2>3. CallFits("statement", "else", tree)
      BY <1>1, <2>1, <2>2 DEF CallFits, CalledAt, ForStatement
    <2>. QED
      BY <1>1, <1>5, <2>3, CallKeepsSInv
  <1>. QED
    BY <1>2, <1>3, <1>4, <1>5 DEF AfterBody

LEMMA AfterElseKeepsSInv ==
    ASSUME SInv, AfterElse
    PROVE  SInv'
  <1>1. /\ stack # <<>> /\ Top.proc = "statement" /\ Sound(tokens) /\ done' = done
    BY DEF SInv, AfterElse, At, Is
  <1>2. CASE Bubble
    BY <1>1, <1>2, BubbleKeepsSInv
  <1>3. ASSUME NEW tree, Return(Success(tree)), tokens' = tokens
        PROVE  SInv'
    <2>1. Success(tree).outcome \in {"success", "failure"}
      BY DEF Success
    <2>2. Reached(tokens, tokens')
      BY <1>1, <1>3, ReachedSame
    <2>. QED
      BY <1>1, <1>3, <2>1, <2>2, WaitingReturns
  <1>. QED
    BY <1>2, <1>3 DEF AfterElse

LEMMA CallStatementKeepsSInv ==
    ASSUME SInv, CallStatement
    PROVE  SInv'
  <1>1. /\ Top.proc = "statement" /\ Busy /\ Sound(tokens) /\ done' = done
    BY AtStart DEF CallStatement
  <1>2. PICK u \in Peeked(tokens) : \E v \in Peeked(Taken(u)) :
           \/ tokens' = v /\ Return(Failure)
           \/ tokens' = Taken(v) /\ \E tree : Call("call_list", "value", tree)
    BY DEF CallStatement
  <1>3. Reached(tokens, Taken(u))
    BY <1>1, NextReached
  <1>4. Reached(tokens, tokens')
    BY <1>2, <1>3, FurtherReached
  <1>5. CASE Return(Failure)
    BY <1>1, <1>4, <1>5, BusyFails
  <1>6. ASSUME NEW tree, Call("call_list", "value", tree)
        PROVE  SInv'
    <2>1. /\ Point(Top.proc, "value") /\ Point("call_list", "start")
          /\ CalledAt("call_list", "value")
      BY <1>1, PointIs DEF CalledAt
    <2>. QED
      BY <1>1, <1>4, <1>6, <2>1, BusyCalls
  <1>. QED
    BY <1>2, <1>5, <1>6

LEMMA AssignmentKeepsSInv ==
    ASSUME SInv, Assignment
    PROVE  SInv'
  <1>1. /\ Top.proc = "statement" /\ Busy /\ Sound(tokens) /\ done' = done
    BY AtStart DEF Assignment
  <1>2. PICK u \in Peeked(tokens) : \E v \in Peeked(Taken(u)) :
           \/ tokens' = Taken(v) /\ \E tree : Call("beginning", "value", tree)
           \/ tokens' = Taken(v) /\ \E tree : Goto("type", tree)
           \/ tokens' = v /\ Return(Failure)
    BY DEF Assignment
  <1>3. Reached(tokens, Taken(u))
    BY <1>1, NextReached
  <1>4. Reached(tokens, tokens')
    BY <1>2, <1>3, FurtherReached
  <1>5. CASE Return(Failure)
    BY <1>1, <1>4, <1>5, BusyFails
  <1>6. ASSUME NEW tree, Call("beginning", "value", tree)
        PROVE  SInv'
    <2>1. /\ Point(Top.proc, "value") /\ Point("beginning", "start")
          /\ CalledAt("beginning", "value")
      BY <1>1, PointIs DEF CalledAt
    <2>. QED
      BY <1>1, <1>4, <1>6, <2>1, BusyCalls
  <1>7. ASSUME NEW tree, Goto("type", tree)
        PROVE  SInv'
    <2>1. Point(Top.proc, "type")
      BY <1>1, PointIs
    <2>. QED
      BY <1>1, <1>4, <1>7, <2>1, BusyGoes
  <1>. QED
    BY <1>2, <1>5, <1>6, <1>7

LEMMA DeclaredTypeKeepsSInv ==
    ASSUME SInv, DeclaredType
    PROVE  SInv'
  <1>1. /\ stack # <<>> /\ Top.proc = "statement" /\ Top.at = "type"
        /\ Sound(tokens) /\ done' = done
    BY DEF SInv, DeclaredType, At, Is
  <1>2. Busy
    BY <1>1, BusyAt DEF ForStatement
  <1>3. /\ Reached(tokens, tokens')
        /\ \/ \E tree : Goto("type", tree)
           \/ \E tree : Call("function_or_expression", "value", tree)
           \/ Return(Failure)
    BY <1>1, NextReached DEF DeclaredType
  <1>4. CASE Return(Failure)
    BY <1>1, <1>2, <1>3, <1>4, BusyFails
  <1>5. ASSUME NEW tree, Call("function_or_expression", "value", tree)
        PROVE  SInv'
    <2>1. /\ Point(Top.proc, "value") /\ Point("function_or_expression", "start")
          /\ CalledAt("function_or_expression", "value")
      BY <1>1, PointIs DEF CalledAt
    <2>. QED
      BY <1>1, <1>2, <1>3, <1>5, <2>1, BusyCalls
  <1>6. ASSUME NEW tree, Goto("type", tree)
        PROVE  SInv'
    <2>1. Point(Top.proc, "type")
      BY <1>1, PointIs
    <2>. QED
      BY <1>1, <1>2, <1>3, <1>6, <2>1, BusyGoes
  <1>. QED
    BY <1>3, <1>4, <1>5, <1>6

LEMMA AfterValueKeepsSInv ==
    ASSUME SInv, AfterValue
    PROVE  SInv'
  <1>1. /\ stack # <<>> /\ Top.proc = "statement" /\ Sound(tokens) /\ done' = done
    BY DEF SInv, AfterValue, At, Is
  <1>2. CASE Bubble
    BY <1>1, <1>2, BubbleKeepsSInv
  <1>3. ASSUME NEW tree, NEW v \in Peeked(tokens), Head(v.pending).type = "semicolon",
               tokens' = Taken(v), Return(Success(tree))
        PROVE  SInv'
    <2>1. Success(tree).outcome \in {"success", "failure"}
      BY DEF Success
    <2>2. Reached(tokens, tokens') /\ (done => tokens' = tokens)
      BY <1>1, <1>3, NextReached, PeekAtEnd
    <2>. QED
      BY <1>1, <1>3, <2>1, <2>2, WaitingReturns
  <1>4. ASSUME NEW v \in Peeked(tokens), tokens' = v, Return(Failure)
        PROVE  SInv'
    <2>1. Failure.outcome \in {"success", "failure"}
      BY DEF Failure
    <2>2. Reached(tokens, tokens') /\ (done => tokens' = tokens)
      BY <1>1, <1>4, NextReached, PeekAtEnd
    <2>. QED
      BY <1>1, <1>4, <2>1, <2>2, WaitingReturns
  <1>. QED
    BY <1>2, <1>3, <1>4 DEF AfterValue

-----------------------------------------------------------------------------
\* Function declarations.

LEMMA FunctionDeclarationKeepsSInv ==
    ASSUME SInv, FunctionDeclaration
    PROVE  SInv'
  <1>1. /\ stack # <<>> /\ Top.proc = "function" /\ Top.at = "start"
        /\ Sound(tokens) /\ done' = done /\ tokens.pending # <<>>
    BY DEF SInv, FunctionAhead, FunctionDeclaration, Is
  <1>2. Busy
    BY <1>1, BusyAt DEF ForStatement
  <1>3. Reached(tokens, tokens')
    BY <1>1, TakenSound DEF FunctionDeclaration, Reached
  <1>4. PICK tree : Goto("parameters", tree)
    BY DEF FunctionDeclaration
  <1>5. Point(Top.proc, "parameters")
    BY <1>1, PointIs
  <1>. QED
    BY <1>1, <1>2, <1>3, <1>4, <1>5, BusyGoes

\* One token more, whether it is the wanted one or not.
LEMMA TerminalReached ==
    ASSUME NEW u, NEW attempts, NEW type, \A r \in attempts : Reached(u, r.view)
    PROVE  \A r \in Terminal(attempts, type) : Reached(u, r.view)
  <1>. SUFFICES ASSUME NEW r \in Terminal(attempts, type) PROVE Reached(u, r.view)
    OBVIOUS
  <1>1. CASE r \in attempts
    BY <1>1
  <1>2. ASSUME NEW s \in attempts, NEW v \in Peeked(s.view),
               r = IF Head(v.pending).type = type
                   THEN [ok |-> TRUE, view |-> Taken(v), got |-> Append(s.got, Head(v.pending))]
                   ELSE [ok |-> FALSE, view |-> v, got |-> s.got]
        PROVE  Reached(u, r.view)
    <2>1. Reached(u, v) /\ Reached(u, Taken(v))
      BY <1>2, FurtherReached
    <2>2. r.view = Taken(v) \/ r.view = v
      BY <1>2
    <2>. QED
      BY <2>1, <2>2
  <1>3. \/ r \in attempts
        \/ \E s \in attempts : \E v \in Peeked(s.view) :
              r = IF Head(v.pending).type = type
                  THEN [ok |-> TRUE, view |-> Taken(v), got |-> Append(s.got, Head(v.pending))]
                  ELSE [ok |-> FALSE, view |-> v, got |-> s.got]
    BY DEF Terminal
  <1>. QED
    BY <1>1, <1>2, <1>3

LEMMA TerminalsReached ==
    ASSUME NEW u, NEW v, Reached(u, v), NEW r \in Terminals(v)
    PROVE  Reached(u, r.view)
  <1>. DEFINE none == {[ok |-> TRUE, view |-> v, got |-> <<>>]}
  <1>1. \A s \in none : Reached(u, s.view)
    OBVIOUS
  <1>. HIDE DEF none
  <1>2. \A attempts, type : (\A s \in attempts : Reached(u, s.view))
                            => \A s \in Terminal(attempts, type) : Reached(u, s.view)
    BY TerminalReached
  <1>3. \A s \in Terminal(none, "identifier") : Reached(u, s.view)
    BY <1>1, <1>2
  <1>4. \A s \in Terminal(Terminal(none, "identifier"), "colon") : Reached(u, s.view)
    BY <1>2, <1>3
  <1>5. \A s \in Terminal(Terminal(Terminal(none, "identifier"), "colon"), "identifier") :
           Reached(u, s.view)
    BY <1>2, <1>4
  <1>. QED
    BY <1>5 DEF Terminals, none

LEMMA ParameterKeepsSInv ==
    ASSUME SInv, Parameter
    PROVE  SInv'
  <1>1. /\ stack # <<>> /\ Top.proc = "function" /\ Top.at = "parameters"
        /\ Sound(tokens) /\ done' = done
    BY DEF SInv, Parameter, Is
  <1>2. Busy
    BY <1>1, BusyAt DEF ForStatement
  <1>3. PICK u \in Peeked(tokens) : \E r \in Terminals(u) :
           \/ tokens' = r.view /\ Return(Failure)
           \/ \E v \in Peeked(r.view) :
                 /\ tokens' = IF Head(v.pending).type = "right_paren"
                              THEN PutBack(Taken(v), Head(v.pending)) ELSE Taken(v)
                 /\ (\E tree : Goto("parameters", tree)) \/ Return(Failure)
    BY DEF Parameter
  <1>4. \A r \in Terminals(u) : Reached(tokens, r.view)
    BY <1>1, NextReached, TerminalsReached
  <1>5. ASSUME NEW r \in Terminals(u), NEW v \in Peeked(r.view),
               tokens' = IF Head(v.pending).type = "right_paren"
                         THEN PutBack(Taken(v), Head(v.pending)) ELSE Taken(v)
        PROVE  Reached(tokens, tokens')
    <2>. DEFINE t == Head(v.pending)
                w == Taken(v)
    <2>1. Reached(r.view, w) /\ t.at \in DOMAIN w.read /\ w.read[t.at] = t
      BY <1>4, NextReached DEF Reached
    <2>2. tokens' = w \/ (t.type = "right_paren" /\ tokens' = PutBack(w, t))
      BY <1>5
    <2>. HIDE DEF t, w
    <2>3. Reached(tokens, w) /\ Sound(w)
      BY <1>4, <2>1, ReachedTransitive DEF Reached
    <2>4. CASE tokens' = w
      BY <2>3, <2>4
    <2>5. CASE t.type = "right_paren" /\ tokens' = PutBack(w, t)
      <3>1. t.type # "EOF"
        BY <2>5
      <3>2. Reached(w, tokens')
        BY <2>1, <2>3, <2>5, <3>1, PutBackReached
      <3>. QED
        BY <2>3, <3>2, ReachedTransitive
    <2>. QED
      BY <2>2, <2>4, <2>5
  <1>6. Reached(tokens, tokens')
    BY <1>3, <1>4, <1>5
  <1>7. CASE Return(Failure)
    BY <1>1, <1>2, <1>6, <1>7, BusyFails
  <1>8. ASSUME NEW tree, Goto("parameters", tree)
        PROVE  SInv'
    <2>1. Point(Top.proc, "parameters")
      BY <1>1, PointIs
    <2>. QED
      BY <1>1, <1>2, <1>6, <1>8, <2>1, BusyGoes
  <1>. QED
    BY <1>3, <1>7, <1>8

LEMMA ParametersUnfinishedKeepsSInv ==
    ASSUME SInv, ParametersUnfinished
    PROVE  SInv'
  <1>1. /\ stack # <<>> /\ Top.proc = "function" /\ Top.at = "parameters"
        /\ Sound(tokens) /\ done' = done
    BY DEF SInv, ParametersUnfinished, Is
  <1>2. Busy
    BY <1>1, BusyAt DEF ForStatement
  <1>3. Reached(tokens, tokens') /\ Return(Failure)
    BY <1>1, NextReached DEF ParametersUnfinished
  <1>. QED
    BY <1>1, <1>2, <1>3, BusyFails

LEMMA ReturnTypeKeepsSInv ==
    ASSUME SInv, ReturnType
    PROVE  SInv'
  <1>1. /\ stack # <<>> /\ Top.proc = "function" /\ Top.at = "parameters"
        /\ Sound(tokens) /\ done' = done
    BY DEF SInv, ReturnType, Is
  <1>2. Busy
    BY <1>1, BusyAt DEF ForStatement
  <1>3. PICK u \in Peeked(tokens) : \E v \in Peeked(Taken(u)) :
           \/ tokens' = Taken(v) /\ Return(Failure)
           \/ \E w \in Peeked(Taken(v)) :
                 /\ tokens' = Taken(w)
                 /\ (\E tree : Call("statement", "body", tree)) \/ Return(Failure)
    BY DEF ReturnType
  <1>4. Reached(tokens, Taken(u))
    BY <1>1, NextReached
  <1>5. \A v \in Peeked(Taken(u)) : Reached(tokens, Taken(v))
    BY <1>4, FurtherReached
  <1>6. \A v \in Peeked(Taken(u)) : \A w \in Peeked(Taken(v)) : Reached(tokens, Taken(w))
    BY <1>5, FurtherReached
  <1>7. Reached(tokens, tokens')
    BY <1>3, <1>5, <1>6
  <1>8. CASE Return(Failure)
    BY <1>1, <1>2, <1>7, <1>8, BusyFails
  <1>9. ASSUME NEW tree, Call("statement", "body", tree)
        PROVE  SInv'
    <2>1. /\ Point(Top.proc, "body") /\ Point("statement", "start")
          /\ CalledAt("statement", "body")
      BY <1>1, PointIs DEF CalledAt, ForStatement
    <2>. QED
      BY <1>1, <1>2, <1>7, <1>9, <2>1, BusyCalls
  <1>. QED
    BY <1>3, <1>8, <1>9

LEMMA AfterFunctionBodyKeepsSInv ==
    ASSUME SInv, AfterFunctionBody
    PROVE  SInv'
  <1>1. /\ stack # <<>> /\ Top.proc = "function" /\ Sound(tokens)
        /\ tokens' = tokens /\ done' = done
    BY DEF SInv, AfterFunctionBody, Is
  <1>2. PICK tree : Return(Success(tree))
    BY DEF AfterFunctionBody
  <1>3. Success(tree).outcome \in {"success", "failure"}
    BY DEF Success
  <1>4. Reached(tokens, tokens')
    BY <1>1, ReachedSame
  <1>. QED
    BY <1>1, <1>2, <1>3, <1>4, WaitingReturns

-----------------------------------------------------------------------------
\* The invariant is inductive.
LEMMA NextSInv ==
    ASSUME SInv, [StatementNext]_allvars
    PROVE  SInv'
  <1>1. CASE ExpressionStep /\ done' = done
    BY <1>1, ExpressionStepKeepsSInv
  <1>2. CASE ParseFile
    BY <1>2, ParseFileKeepsSInv
  <1>3. CASE AfterFileStatement
    BY <1>3, AfterFileStatementKeepsSInv
  <1>4. CASE Comment
    BY <1>4, CommentKeepsSInv
  <1>5. CASE NoStatement
    BY <1>5, NoStatementKeepsSInv
  <1>6. CASE EndOfFile
    BY <1>6, EndOfFileKeepsSInv
  <1>7. CASE Scope
    BY <1>7, ScopeKeepsSInv
  <1>8. CASE AfterMember
    BY <1>8, AfterMemberKeepsSInv
  <1>9. CASE Condition
    BY <1>9, ConditionKeepsSInv
  <1>10. CASE AfterCondition
    BY <1>10, AfterConditionKeepsSInv
  <1>11. CASE AfterBody
    BY <1>11, AfterBodyKeepsSInv
  <1>12. CASE AfterElse
    BY <1>12, AfterElseKeepsSInv
  <1>13. CASE CallStatement
    BY <1>13, CallStatementKeepsSInv
  <1>14. CASE Assignment
    BY <1>14, AssignmentKeepsSInv
  <1>15. CASE DeclaredType
    BY <1>15, DeclaredTypeKeepsSInv
  <1>16. CASE AfterValue
    BY <1>16, AfterValueKeepsSInv
  <1>17. CASE FunctionDeclaration
    BY <1>17, FunctionDeclarationKeepsSInv
  <1>18. CASE Parameter
    BY <1>18, ParameterKeepsSInv
  <1>19. CASE ParametersUnfinished
    BY <1>19, ParametersUnfinishedKeepsSInv
  <1>20. CASE ReturnType
    BY <1>20, ReturnTypeKeepsSInv
  <1>21. CASE AfterFunctionBody
    BY <1>21, AfterFunctionBodyKeepsSInv
  <1>22. CASE UNCHANGED allvars
    <2>1. stack' = stack /\ returned' = returned /\ tokens' = tokens /\ done' = done
      BY <1>22 DEF allvars
    <2>2. FramesOK' /\ Sound(tokens)'
      BY <2>1 DEF SInv, FramesOK, Stacked, Sound, Point, Points, Tokens
    <2>3. OperatorsRead' /\ Callers'
      BY <2>1 DEF SInv, OperatorsRead, OperatorRead, Callers, CalledAt, ForStatement
    <2>4. EndIsLast' /\ FunctionAhead'
      BY <2>1 DEF SInv, EndIsLast, EndAhead, FunctionAhead, Is, Top, ForStatement
    <2>. QED
      BY <2>2, <2>3, <2>4 DEF SInv
  <1>. QED
    BY <1>1, <1>2, <1>3, <1>4, <1>5, <1>6, <1>7, <1>8, <1>9, <1>10, <1>11, <1>12, <1>13, <1>14,
       <1>15, <1>16, <1>17, <1>18, <1>19, <1>20, <1>21, <1>22
       DEF StatementNext, StatementStep, FileEnded

LEMMA SInvAlways == StatementSpec => []SInv
  <1>1. StatementInit => SInv
    BY InitSInv
  <1>2. SInv /\ [StatementNext]_allvars => SInv'
    BY NextSInv
  <1>. QED
    BY <1>1, <1>2, PTL DEF StatementSpec

\* The functions of the parser that wait for one another, and the places they
\* wait at, are those of the source, and what is pending was read from the file
\* and is numbered as it was read (parser.c:43-1037).
THEOREM TypeCorrect == StatementSpec => []TypeOK
  <1>1. SInv => TypeOK
    <2>. SUFFICES ASSUME SInv PROVE TypeOK
      OBVIOUS
    <2>1. TokensTyped
      BY SoundTyped DEF SInv
    <2>. QED
      BY <2>1 DEF SInv, FramesOK, Point, TypeOK
  <1>. QED
    BY <1>1, SInvAlways, PTL

\* A file the parser accepts was read to its end: no token of it was left
\* behind or given back (parser_parse_file, parser.c:71-86, and the end of a
\* file as a statement, :267-272).
THEOREM WholeFileRead == StatementSpec => []WholeFile
  <1>1. SInv => WholeFile
    <2>. SUFFICES ASSUME SInv, Answered
                  PROVE  done /\ \A i \in DOMAIN tokens.read : i \in Held <=> Type(i) # "EOF"
      BY DEF WholeFile
    <2>1. done /\ EndAhead /\ Sound(tokens)
      BY DEF Answered, SInv, EndIsLast
    <2>. DEFINE h == Head(tokens.pending)
    <2>2. /\ tokens.pending = <<h>> /\ h.type = "EOF"
          /\ h.at \in DOMAIN tokens.read /\ tokens.read[h.at] = h
      BY <2>1, TakenSound DEF EndAhead
    <2>. HIDE DEF h
    <2>3. \A i \in DOMAIN tokens.read : IsPending(i) <=> h.at = i
      BY <2>2 DEF IsPending
    <2>4. \A i \in DOMAIN tokens.read : tokens.read[i].type = "EOF" <=> h.at = i
      BY <2>1, <2>2 DEF Sound
    <2>. QED
      BY <2>1, <2>3, <2>4 DEF Held, Type
  <1>. QED
    BY <1>1, SInvAlways, PTL
=============================================================================
