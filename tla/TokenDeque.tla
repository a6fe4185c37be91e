----------------------------- MODULE TokenDeque -----------------------------
(***************************************************************************)
(* What peek_queue.h promises: a sequence of tokens, front first, that can *)
(* be extended at either end and consumed from the front.  A push may be   *)
(* refused, and then nothing changes.                                      *)
(***************************************************************************)
EXTENDS Sequences

CONSTANTS Token, Nothing

VARIABLES items, result

vars == <<items, result>>

Answer(call, ok, t) == [call |-> call, ok |-> ok, token |-> t]

Init == /\ items = <<>>
        /\ result = Answer("create", TRUE, Nothing)

PushBack(t) == /\ items' = Append(items, t)
               /\ result' = Answer("push", TRUE, Nothing)

PushFront(t) == /\ items' = <<t>> \o items
                /\ result' = Answer("push_front", TRUE, Nothing)

PushRefused == /\ \/ result' = Answer("push", FALSE, Nothing)
                  \/ result' = Answer("push_front", FALSE, Nothing)
               /\ UNCHANGED items

Pop == /\ items # <<>>
       /\ items' = Tail(items)
       /\ result' = Answer("pop", TRUE, Head(items))

LookAtFront == /\ items # <<>>
               /\ result' = Answer("front", TRUE, Head(items))
               /\ UNCHANGED items

NothingThere == /\ items = <<>>
                /\ \/ result' = Answer("pop", FALSE, Nothing)
                   \/ result' = Answer("front", FALSE, Nothing)
                /\ UNCHANGED items

Clear == /\ items' = <<>>
         /\ \/ result' = Answer("empty", TRUE, Nothing)
            \/ result' = Answer("destroy", TRUE, Nothing)

Next == \/ \E t \in Token : PushBack(t) \/ PushFront(t)
        \/ PushRefused
        \/ Pop
        \/ LookAtFront
        \/ NothingThere
        \/ Clear

Spec == Init /\ [][Next]_vars
=============================================================================
