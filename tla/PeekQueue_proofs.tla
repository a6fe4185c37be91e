-------------------------- MODULE PeekQueue_proofs ---------------------------
(***************************************************************************)
(* Proofs about PeekQueue for every set of tokens, every set of positive   *)
(* initial capacities and every bound.  The inductive invariant Inv has    *)
(* two cases.  A queue that was given its cells is Backed: the room a push *)
(* needs follows from RoomToSpare, and what a pop may hand out from        *)
(* LiveCellsWritten; neither is inductive without the shape of the struct. *)
(* A queue whose cells were refused is Bare, and stays as it was created   *)
(* until it is destroyed.                                                  *)
(***************************************************************************)
EXTENDS PeekQueue, SequenceTheorems, TLAPS

Calls == {"create", "push", "push_front", "front", "pop", "empty", "destroy"}

Answers == [call : Calls, ok : BOOLEAN, token : Token \cup {Uninit}]

Resized(q, n) == [q EXCEPT !.size = n]

Typed == result \in Answers /\ wild \in BOOLEAN

Shape == /\ queue.capacity \in Nat
         /\ queue \in Struct(queue.capacity)
         /\ Typed

Backed == Shape /\ RoomToSpare /\ LiveCellsWritten /\ ~wild

Bare == /\ queue.capacity \in Nat \ {0}
        /\ queue = Fresh(Blank(0), queue.capacity)
        /\ Typed

Inv == Backed \/ Bare

\* A fresh buffer of any capacity is a queue struct of the right shape.
LEMMA CreatedType ==
    ASSUME NEW c \in Nat
    PROVE  /\ Fresh(Blank(c), c) \in Struct(c)
           /\ Fresh(Blank(c), c).capacity = c
           /\ Fresh(Blank(c), c).size = 0
  BY DEF Fresh, Blank, Cells, Struct

\* Both pushes (peek_queue.c:39-43, :78-82): when growing succeeds there is a
\* cell for the token with another free one above it, and the tokens that were
\* in use are where they were; when it fails the queue is untouched.
LEMMA GrownHasRoom ==
    ASSUME Shape, RoomToSpare, queue.capacity > 0,
           NEW g \in Grown(queue)
    PROVE  /\ g.ok \in BOOLEAN
           /\ ~g.ok => g.queue = queue
           /\ g.ok => /\ g.queue.capacity \in Nat
                      /\ g.queue.size = queue.size
                      /\ queue.size + 1 < g.queue.capacity
                      /\ g.queue \in Struct(g.queue.capacity)
                      /\ \A i \in 0 .. queue.size - 1 :
                            g.queue.buffer[i] = queue.buffer[i]
  <1>. DEFINE n == ResizeFactor * queue.capacity
  <1>1. queue.capacity \in Nat /\ queue.size \in Nat
    BY DEF Shape, Struct
  <1>2. queue.size < queue.capacity
    BY CreatedType DEF RoomToSpare, Destroyed
  <1>3. CASE ~NeedsRoom(queue)
    <2>1. g = [ok |-> TRUE, queue |-> queue]
      BY <1>3 DEF Grown
    <2>2. queue.size + 1 < queue.capacity
      BY <1>1, <1>3 DEF NeedsRoom
    <2>3. queue \in Struct(queue.capacity)
      BY DEF Shape
    <2>. QED
      BY <2>1, <2>2, <2>3, <1>1
  <1>4. CASE NeedsRoom(queue) /\ ~g.ok
    <2>1. g = [ok |-> FALSE, queue |-> queue]
      BY <1>4 DEF Grown
    <2>. QED
      BY <2>1
  <1>5. CASE NeedsRoom(queue) /\ g.ok
    <2>1. g = [ok |-> TRUE, queue |-> Reallocated(queue)]
      BY <1>5 DEF Grown
    <2>2. n \in Nat /\ queue.size + 1 < n
      BY <1>1, <1>2 DEF ResizeFactor
    <2>3. Reallocated(queue) \in Struct(n)
      BY <1>1, <2>2 DEF Reallocated, Cells, Struct, Shape
    <2>4. \A i \in 0 .. queue.size - 1 :
             Reallocated(queue).buffer[i] = queue.buffer[i]
      BY <1>1, <1>2, <2>2 DEF Reallocated
    <2>. QED
      BY <2>1, <2>2, <2>3, <2>4 DEF Reallocated
  <1>. QED
    BY <1>3, <1>4, <1>5, <1>1 DEF Grown

\* Writing a token one above the cells in use keeps the invariant.
LEMMA StoredKeepsInv ==
    ASSUME NEW q, NEW t \in Token, Backed,
           q.capacity \in Nat, q.size = queue.size,
           queue.size + 1 < q.capacity,
           q \in Struct(q.capacity),
           \A i \in 0 .. queue.size - 1 : q.buffer[i] = queue.buffer[i],
           queue' = Stored(q, q.size, t),
           result' \in Answers,
           wild' = FALSE
    PROVE  Backed'
  <1>1. queue.size \in Nat
    BY DEF Backed, Shape, Struct
  <1>2. queue' = [buffer   |-> [q.buffer EXCEPT ![q.size] = t],
                  size     |-> q.size + 1,
                  capacity |-> q.capacity]
    BY DEF Stored, Struct
  <1>3. queue' \in Struct(q.capacity)
    BY <1>1, <1>2 DEF Cells, Struct
  <1>4. Shape'
    <2>1. queue'.capacity = q.capacity
      BY <1>2
    <2>. QED
      BY <1>3, <2>1 DEF Shape, Typed
  <1>5. RoomToSpare'
    BY <1>1, <1>2 DEF RoomToSpare
  <1>6. LiveCellsWritten'
    <2>. SUFFICES ASSUME NEW i \in 0 .. queue'.size - 1
                  PROVE  queue'.buffer[i] \in Token
      BY DEF LiveCellsWritten
    <2>1. CASE i = q.size
      BY <2>1, <1>1, <1>2 DEF Cells, Struct
    <2>2. CASE i # q.size
      <3>1. i \in 0 .. queue.size - 1
        BY <2>2, <1>1, <1>2
      <3>2. queue.buffer[i] \in Token
        BY <3>1 DEF Backed, LiveCellsWritten
      <3>. QED
        BY <2>2, <3>1, <3>2, <1>1, <1>2 DEF Cells, Struct
    <2>. QED
      BY <2>1, <2>2
  <1>. QED
    BY <1>4, <1>5, <1>6 DEF Backed

\* The end of a push whose growth succeeded, for both pushes: there is a cell
\* for the token.
LEMMA PushKeepsInv ==
    ASSUME Backed, queue.capacity > 0,
           NEW t \in Token, NEW g \in Grown(queue), g.ok,
           NEW call \in Calls,
           Pushing(call, g.queue, g.queue.size, t, FALSE)
    PROVE  /\ Backed'
           /\ queue' = Stored(g.queue, g.queue.size, t)
           /\ result' = Answer(call, TRUE, Uninit)
  <1>1. Shape /\ RoomToSpare /\ queue.size \in Nat /\ wild = FALSE
    BY DEF Backed, Shape, Typed, Struct
  <1>2. /\ g.ok \in BOOLEAN
        /\ g.queue.capacity \in Nat
        /\ g.queue.size = queue.size
        /\ queue.size + 1 < g.queue.capacity
        /\ g.queue \in Struct(g.queue.capacity)
        /\ \A i \in 0 .. queue.size - 1 : g.queue.buffer[i] = queue.buffer[i]
    BY <1>1, GrownHasRoom
  <1>3. IsCell(g.queue, g.queue.size)
    BY <1>1, <1>2 DEF IsCell, Struct, Cells
  <1>4. /\ wild' = FALSE
        /\ queue' = Stored(g.queue, g.queue.size, t)
        /\ result' = Answer(call, TRUE, Uninit)
    BY <1>1, <1>3 DEF Pushing
  <1>5. result' \in Answers
    BY <1>4 DEF Answer, Answers
  <1>. QED
    BY <1>1, <1>2, <1>4, <1>5, StoredKeepsInv

\* A refused push leaves the queue, hence the invariant.
LEMMA RefusalKeepsInv ==
    ASSUME Backed, result' \in Answers, UNCHANGED <<queue, wild>>
    PROVE  Backed'
  BY DEF Backed, Shape, RoomToSpare, LiveCellsWritten, Typed

\* Every answer the functions give is of the type of answers.
LEMMA AnswerType ==
    ASSUME NEW call \in Calls, NEW ok \in BOOLEAN,
           NEW t \in Token \cup {Uninit}
    PROVE  Answer(call, ok, t) \in Answers
  BY DEF Answer, Answers

\* What pop and front hand out is a token some push wrote, in a real cell.
LEMMA FrontIsWritten ==
    ASSUME Backed, queue.size > 0
    PROVE  Front(queue) \in Token /\ IsCell(queue, queue.size - 1)
  <1>1. queue.size \in Nat /\ queue.capacity \in Nat
    BY DEF Backed, Shape, Struct
  <1>2. queue # Destroyed
    BY CreatedType DEF Destroyed
  <1>. QED
    BY <1>1, <1>2 DEF Backed, Shape, Struct, Cells, RoomToSpare, LiveCellsWritten, Front, IsCell

\* A call that leaves the buffer alone and does not raise the size, with an
\* answer of the right type, keeps the invariant.
LEMMA ShrinkingKeepsInv ==
    ASSUME Backed,
           queue'.size \in Nat, queue'.size <= queue.size,
           queue' = Resized(queue, queue'.size),
           result' \in Answers,
           wild' = FALSE
    PROVE  Backed'
  <1>1. queue \in Struct(queue.capacity) /\ queue.capacity \in Nat
        /\ queue.size \in Nat
    BY DEF Backed, Shape, Struct
  <1>2. /\ queue'.capacity = queue.capacity
        /\ queue'.buffer = queue.buffer
        /\ queue' \in Struct(queue'.capacity)
    BY <1>1 DEF Struct, Resized
  <1>3. Shape'
    BY <1>1, <1>2 DEF Shape, Typed
  <1>4. RoomToSpare'
    <2>1. CASE queue.size < queue.capacity
      BY <2>1, <1>1, <1>2 DEF RoomToSpare
    <2>2. CASE queue = Destroyed
      <3>1. queue'.size = queue.size
        BY <2>2, <1>1, CreatedType DEF Destroyed
      <3>2. queue' = queue
        BY <3>1, <1>1 DEF Struct, Resized
      <3>. QED
        BY <2>2, <3>2 DEF RoomToSpare, Destroyed, Fresh
    <2>. QED
      BY <2>1, <2>2 DEF Backed, RoomToSpare
  <1>5. LiveCellsWritten'
    BY <1>1, <1>2 DEF Backed, LiveCellsWritten
  <1>. QED
    BY <1>3, <1>4, <1>5 DEF Backed

\* Whether malloc gave the cells or not, creation satisfies the invariant.
THEOREM InitInv == Init => Inv
  <1>. SUFFICES ASSUME Init PROVE Inv
    OBVIOUS
  <1>1. PICK c \in Nat \ {0} : queue \in Created(c)
    BY CapacitiesAssumption DEF Init
  <1>2. Typed
    BY DEF Init, Typed, Answers, Answer, Calls
  <1>3. CASE queue = Fresh(Blank(c), c)
    <2>1. Shape
      BY <1>2, <1>3, CreatedType DEF Shape
    <2>2. RoomToSpare /\ LiveCellsWritten
      BY <1>3, CreatedType DEF RoomToSpare, LiveCellsWritten
    <2>. QED
      BY <2>1, <2>2 DEF Init, Inv, Backed
  <1>4. CASE queue = Fresh(Blank(0), c)
    BY <1>2, <1>4 DEF Fresh, Inv, Bare
  <1>. QED
    BY <1>1, <1>3, <1>4 DEF Created

\* What destroy leaves is a queue without cells of the right shape.
LEMMA DestroyedBacked ==
    ASSUME queue' = Destroyed, Typed', ~wild'
    PROVE  Backed'
  <1>1. queue'.capacity = 0 /\ queue'.size = 0 /\ queue' \in Struct(0)
    BY CreatedType DEF Destroyed
  <1>2. Shape'
    BY <1>1 DEF Shape
  <1>3. RoomToSpare' /\ LiveCellsWritten'
    BY <1>1 DEF RoomToSpare, Destroyed, LiveCellsWritten, Fresh, Blank
  <1>. QED
    BY <1>2, <1>3 DEF Backed

\* No call of a queue that has its cells breaks the invariant.
LEMMA NextBacked ==
    ASSUME PushOnlyWhenEmpty, Backed, [Next]_vars PROVE Backed'
  <1>0. /\ Shape /\ RoomToSpare /\ LiveCellsWritten /\ wild = FALSE
        /\ queue.size \in Nat /\ queue.capacity \in Nat
    BY DEF Backed, Shape, Typed, Struct
  <1>1. ASSUME NEW t \in Token, peek_queue_push(t) PROVE Backed'
    <2>1. PICK g \in Grown(queue) :
             \/ ~g.ok /\ Refused("push")
             \/ g.ok /\ Pushing("push", g.queue, 0, t, LoopWraps(g.queue))
      BY <1>1 DEF peek_queue_push
    <2>2. queue.capacity > 0 /\ queue.size = 0
      BY <1>1, PushOnlyWhenEmpty DEF peek_queue_push, MayPush
    <2>3. g.ok \in BOOLEAN /\ (g.ok => g.queue.size = 0)
      BY <1>0, <2>2, GrownHasRoom
    <2>4. CASE ~g.ok
      BY <2>1, <2>4, AnswerType, RefusalKeepsInv DEF Refused, Calls
    <2>5. CASE g.ok
      <3>1. LoopWraps(g.queue) = FALSE /\ g.queue.size = 0
        BY <2>3, <2>5 DEF LoopWraps
      <3>2. Pushing("push", g.queue, 0, t, FALSE)
        BY <2>1, <2>5, <3>1
      <3>. QED
        BY <2>2, <2>5, <3>1, <3>2, PushKeepsInv DEF Calls
    <2>. QED
      BY <2>4, <2>5
  <1>2. ASSUME NEW t \in Token, peek_queue_push_front(t) PROVE Backed'
    <2>1. PICK g \in Grown(queue) :
             \/ ~g.ok /\ Refused("push_front")
             \/ g.ok /\ Pushing("push_front", g.queue, g.queue.size, t, FALSE)
      BY <1>2 DEF peek_queue_push_front
    <2>2. queue.capacity > 0
      BY <1>2 DEF peek_queue_push_front, MayPush
    <2>4. CASE ~g.ok
      BY <2>1, <2>4, AnswerType, RefusalKeepsInv DEF Refused, Calls
    <2>5. CASE g.ok
      BY <2>1, <2>2, <2>5, PushKeepsInv DEF Calls
    <2>. QED
      BY <2>4, <2>5
  <1>3. CASE peek_queue_front
    <2>1. queue' = queue
      BY <1>3 DEF peek_queue_front
    <2>2. CASE queue.size = 0
      <3>1. result' = Answer("front", FALSE, Uninit) /\ UNCHANGED <<queue, wild>>
        BY <1>3, <2>2 DEF peek_queue_front
      <3>2. result' \in Answers
        BY <3>1, AnswerType DEF Calls
      <3>. QED
        BY <3>1, <3>2, RefusalKeepsInv
    <2>3. CASE queue.size > 0
      <3>0. queue.size # 0
        BY <1>0, <2>3
      <3>1. Front(queue) \in Token /\ IsCell(queue, queue.size - 1)
        BY <2>3, FrontIsWritten
      <3>2. wild' = FALSE
        BY <1>0, <1>3, <2>3, <3>1 DEF peek_queue_front, IsCell
      <3>3. result' \in Answers
        <4>1. result' = Answer("front", TRUE, Front(queue))
          BY <1>3, <3>0 DEF peek_queue_front
        <4>. QED
          BY <3>1, <4>1, AnswerType DEF Calls
      <3>4. /\ queue' = Resized(queue, queue'.size)
            /\ queue'.size \in Nat /\ queue'.size <= queue.size
        BY <1>0, <2>1 DEF Resized, Shape, Struct
      <3>. QED
        BY <3>2, <3>3, <3>4, ShrinkingKeepsInv
    <2>. QED
      BY <1>0, <2>2, <2>3
  <1>4. CASE peek_queue_pop
    <2>1. CASE queue.size = 0
      <3>1. result' = Answer("pop", FALSE, Uninit) /\ UNCHANGED <<queue, wild>>
        BY <1>4, <2>1 DEF peek_queue_pop
      <3>2. result' \in Answers
        BY <3>1, AnswerType DEF Calls
      <3>. QED
        BY <3>1, <3>2, RefusalKeepsInv
    <2>2. CASE queue.size > 0
      <3>0. queue.size # 0
        BY <1>0, <2>2
      <3>1. Front(queue) \in Token /\ IsCell(queue, queue.size - 1)
        BY <2>2, FrontIsWritten
      <3>2. wild' = FALSE
        BY <1>0, <1>4, <2>2, <3>1 DEF peek_queue_pop, IsCell
      <3>3. result' \in Answers
        <4>1. result' = Answer("pop", TRUE, Front(queue))
          BY <1>4, <3>0 DEF peek_queue_pop
        <4>. QED
          BY <3>1, <4>1, AnswerType DEF Calls
      <3>4. queue' = [queue EXCEPT !.size = queue.size - 1]
        BY <1>4, <3>0 DEF peek_queue_pop, Popped
      <3>6. queue'.size = queue.size - 1
        BY <1>0, <3>4 DEF Shape, Struct
      <3>7. queue' = Resized(queue, queue'.size)
        BY <3>4, <3>6 DEF Resized
      <3>5. queue'.size \in Nat /\ queue'.size <= queue.size
        BY <1>0, <2>2, <3>6
      <3>. QED
        BY <3>2, <3>3, <3>7, <3>5, ShrinkingKeepsInv
    <2>. QED
      BY <1>0, <2>1, <2>2
  <1>5. CASE peek_queue_empty
    <2>1. wild' = FALSE /\ result' \in Answers
      BY <1>0, <1>5 DEF peek_queue_empty, Answers, Answer, Calls
    <2>2. queue' = Resized(queue, queue'.size) /\ queue'.size = 0
      BY <1>0, <1>5 DEF peek_queue_empty, Emptied, Resized, Shape, Struct
    <2>3. queue'.size \in Nat /\ queue'.size <= queue.size
      BY <1>0, <2>2
    <2>. QED
      BY <2>1, <2>2, <2>3, ShrinkingKeepsInv
  <1>6. CASE peek_queue_destroy
    <2>1. queue' = Destroyed /\ wild' = FALSE
      BY <1>0, <1>6 DEF peek_queue_destroy
    <2>2. Typed'
      BY <1>6, <2>1 DEF peek_queue_destroy, Answer, Answers, Calls, Typed
    <2>. QED
      BY <2>1, <2>2, DestroyedBacked
  <1>7. CASE UNCHANGED vars
    BY <1>7 DEF vars, Backed, Shape, Typed, RoomToSpare, LiveCellsWritten
  <1>. QED
    BY <1>1, <1>2, <1>3, <1>4, <1>5, <1>6, <1>7 DEF Next

\* What the calls of a queue without cells may answer before it is destroyed:
\* no push returns with a token in it, and there is none to take.
BareAnswers == {Answer(call, FALSE, Uninit) : call \in {"push", "push_front", "front", "pop"}}
               \cup {Answer("empty", TRUE, Uninit)}

\* A queue without cells stays as it is until it is destroyed.
LEMMA NextBare ==
    ASSUME Bare, [Next]_vars
    PROVE  \/ Bare' /\ UNCHANGED queue /\ result' \in BareAnswers \cup {result}
           \/ Backed' /\ peek_queue_destroy
  <1>0. /\ queue.capacity \in Nat \ {0} /\ queue.size = 0
        /\ queue.buffer = Blank(0) /\ Unbacked(queue) /\ Typed
    BY DEF Bare, Fresh, Unbacked
  <1>u. ASSUME UNCHANGED queue, result' \in BareAnswers \cup {result}, wild' \in {TRUE, wild}
        PROVE  Bare' /\ UNCHANGED queue /\ result' \in BareAnswers \cup {result}
    <2>3. BareAnswers \subseteq Answers
      BY AnswerType DEF BareAnswers, Calls
    <2>1. result' \in Answers
      BY <1>0, <1>u, <2>3 DEF Typed
    <2>2. wild' \in BOOLEAN
      BY <1>0, <1>u DEF Typed
    <2>. QED
      BY <1>u, <2>1, <2>2 DEF Bare, Typed
  <1>g. \A g \in Grown(queue) : g.ok => g.queue = queue
    BY <1>0 DEF Grown
  <1>p. ASSUME NEW call \in {"push", "push_front"}, NEW g \in Grown(queue),
               NEW t, NEW strays,
               \/ ~g.ok /\ Refused(call)
               \/ g.ok /\ Pushing(call, g.queue, 0, t, strays)
        PROVE  Bare' /\ UNCHANGED queue /\ result' \in BareAnswers \cup {result}
    <2>1. CASE Refused(call)
      BY <1>u, <2>1 DEF Refused, BareAnswers
    <2>2. CASE g.ok /\ Pushing(call, g.queue, 0, t, strays)
      <3>1. ~IsCell(g.queue, 0)
        BY <1>0, <1>g, <2>2 DEF IsCell, Blank
      <3>2. wild' = TRUE /\ UNCHANGED <<queue, result>>
        BY <2>2, <3>1 DEF Pushing
      <3>. QED
        BY <1>u, <3>2
    <2>. QED
      BY <1>p, <2>1, <2>2
  <1>1. ASSUME NEW t \in Token, peek_queue_push(t)
        PROVE  Bare' /\ UNCHANGED queue /\ result' \in BareAnswers \cup {result}
    <2>1. PICK g \in Grown(queue) :
             \/ ~g.ok /\ Refused("push")
             \/ g.ok /\ Pushing("push", g.queue, 0, t, LoopWraps(g.queue))
      BY <1>1 DEF peek_queue_push
    <2>. QED
      BY <1>p, <2>1
  <1>2. ASSUME NEW t \in Token, peek_queue_push_front(t)
        PROVE  Bare' /\ UNCHANGED queue /\ result' \in BareAnswers \cup {result}
    <2>1. PICK g \in Grown(queue) :
             \/ ~g.ok /\ Refused("push_front")
             \/ g.ok /\ Pushing("push_front", g.queue, g.queue.size, t, FALSE)
      BY <1>2 DEF peek_queue_push_front
    <2>2. g.ok => g.queue.size = 0
      BY <1>0, <1>g
    <2>. QED
      BY <1>p, <2>1, <2>2
  <1>3. CASE peek_queue_front
    <2>1. UNCHANGED <<queue, wild>> /\ result' = Answer("front", FALSE, Uninit)
      BY <1>0, <1>3 DEF peek_queue_front
    <2>. QED
      BY <1>u, <2>1 DEF BareAnswers
  <1>4. CASE peek_queue_pop
    <2>1. UNCHANGED <<queue, wild>> /\ result' = Answer("pop", FALSE, Uninit)
      BY <1>0, <1>4 DEF peek_queue_pop
    <2>. QED
      BY <1>u, <2>1 DEF BareAnswers
  <1>5. CASE peek_queue_empty
    <2>1. UNCHANGED <<queue, wild>> /\ result' = Answer("empty", TRUE, Uninit)
      BY <1>5 DEF peek_queue_empty, Emptied, Bare, Fresh
    <2>. QED
      BY <1>u, <2>1 DEF BareAnswers
  <1>6. CASE peek_queue_destroy
    <2>1. queue' = Destroyed /\ wild' = wild /\ ~wild
          /\ result' = Answer("destroy", TRUE, Uninit)
      BY <1>6 DEF peek_queue_destroy
    <2>2. result' \in Answers
      BY <2>1, AnswerType DEF Calls
    <2>3. wild' \in BOOLEAN /\ ~wild'
      BY <1>0, <2>1 DEF Typed
    <2>. QED
      BY <1>6, <2>1, <2>2, <2>3, DestroyedBacked DEF Typed
  <1>7. CASE UNCHANGED vars
    BY <1>u, <1>7 DEF vars
  <1>. QED
    BY <1>1, <1>2, <1>3, <1>4, <1>5, <1>6, <1>7 DEF Next

\* No call breaks the invariant.
THEOREM NextInv ==
    ASSUME PushOnlyWhenEmpty, Inv, [Next]_vars PROVE Inv'
  BY NextBacked, NextBare DEF Inv

\* What the invariant says of the properties, one lemma for all of them.
LEMMA InvImplies ==
    ASSUME Inv
    PROVE  TypeOK /\ RoomToSpare /\ NoWildAccess /\ LiveCellsWritten
  <1>1. CASE Backed
    BY <1>1 DEF Backed, Shape, Typed, TypeOK, NoWildAccess, Answers, Calls
  <1>2. CASE Bare
    <2>1. queue.size = 0 /\ queue.buffer = Blank(0)
      BY <1>2 DEF Bare, Fresh
    <2>2. TypeOK
      BY <1>2 DEF Bare, Typed, TypeOK, Answers, Calls
    <2>. QED
      BY <1>2, <2>1, <2>2
         DEF Bare, RoomToSpare, NoWildAccess, Unbacked, LiveCellsWritten
  <1>. QED
    BY <1>1, <1>2 DEF Inv

-----------------------------------------------------------------------------
\* The struct keeps its shape (exactly `capacity` cells, a natural size) for a
\* client that pushes only into an empty queue, as lexer_peek_token does.
THEOREM TypeCorrect == PushOnlyWhenEmpty /\ Spec => []TypeOK
  <1>. SUFFICES ASSUME PushOnlyWhenEmpty PROVE Spec => []TypeOK
    OBVIOUS
  <1>1. Inv /\ [Next]_vars => Inv'
    BY NextInv
  <1>2. Inv => TypeOK
    BY InvImplies
  <1>. QED
    BY <1>1, <1>2, InitInv, PTL DEF Spec

\* One cell stays free above the tokens in use, whatever the capacity the
\* queue was created with and however often it grew (peek_queue.c:39, :78).
THEOREM AlwaysRoomToSpare == PushOnlyWhenEmpty /\ Spec => []RoomToSpare
  <1>. SUFFICES ASSUME PushOnlyWhenEmpty PROVE Spec => []RoomToSpare
    OBVIOUS
  <1>1. Inv /\ [Next]_vars => Inv'
    BY NextInv
  <1>2. Inv => RoomToSpare
    BY InvImplies
  <1>. QED
    BY <1>1, <1>2, InitInv, PTL DEF Spec

\* No call touches memory outside the buffer or runs the endless copying loop
\* (peek_queue.c:46-50, :70, :84).
THEOREM NeverWild == PushOnlyWhenEmpty /\ Spec => []NoWildAccess
  <1>. SUFFICES ASSUME PushOnlyWhenEmpty PROVE Spec => []NoWildAccess
    OBVIOUS
  <1>1. Inv /\ [Next]_vars => Inv'
    BY NextInv
  <1>2. Inv => NoWildAccess
    BY InvImplies
  <1>. QED
    BY <1>1, <1>2, InitInv, PTL DEF Spec

\* Every token pop or front can return was written by a push, across any
\* number of reallocations (peek_queue.c:70, :91-105).
THEOREM AlwaysLiveCellsWritten == PushOnlyWhenEmpty /\ Spec => []LiveCellsWritten
  <1>. SUFFICES ASSUME PushOnlyWhenEmpty PROVE Spec => []LiveCellsWritten
    OBVIOUS
  <1>1. Inv /\ [Next]_vars => Inv'
    BY NextInv
  <1>2. Inv => LiveCellsWritten
    BY InvImplies
  <1>. QED
    BY <1>1, <1>2, InitInv, PTL DEF Spec

-----------------------------------------------------------------------------
ItemsFacts ==
    /\ Items \in Seq(Token)
    /\ Len(Items) = queue.size
    /\ \A i \in 1 .. queue.size : Items[i] = queue.buffer[queue.size - i]

\* The cells in use, read from the front, are a sequence of tokens.
LEMMA ItemsSeq == Backed => ItemsFacts
  <1>. SUFFICES ASSUME Backed PROVE ItemsFacts
    OBVIOUS
  <1>1. queue.size \in Nat
    BY DEF Backed, Shape, Struct
  <1>2. \A i \in 1 .. queue.size : queue.buffer[queue.size - i] \in Token
    BY <1>1 DEF Backed, LiveCellsWritten
  <1>3. Items \in Seq(Token)
    BY <1>1, <1>2 DEF Items
  <1>4. Len(Items) = queue.size
    BY <1>1, <1>3, LenProperties DEF Items
  <1>. QED
    BY <1>1, <1>3, <1>4 DEF Items, ItemsFacts

\* The same of the queue after a step.
LEMMA ItemsSeqPrime == Backed' => ItemsFacts'
  BY ItemsSeq, PTL

\* A successful push adds its token at the front when it writes the cell above
\* those in use, however the buffer was reallocated.
LEMMA StoredIsPushFront ==
    ASSUME Backed, Backed', queue.capacity > 0,
           NEW t \in Token, NEW g \in Grown(queue), g.ok,
           queue' = Stored(g.queue, g.queue.size, t)
    PROVE  Items' = <<t>> \o Items
  <1>1. ItemsFacts /\ ItemsFacts'
    BY ItemsSeq, ItemsSeqPrime
  <1>2. /\ g.queue.capacity \in Nat
        /\ g.queue.size = queue.size
        /\ queue.size + 1 < g.queue.capacity
        /\ g.queue \in Struct(g.queue.capacity)
        /\ \A i \in 0 .. queue.size - 1 : g.queue.buffer[i] = queue.buffer[i]
    BY GrownHasRoom DEF Backed
  <1>3. queue.size \in Nat
    BY DEF Backed, Shape, Struct
  <1>4. /\ queue'.size = queue.size + 1
        /\ queue'.buffer = [g.queue.buffer EXCEPT ![queue.size] = t]
    BY <1>2 DEF Stored, Struct
  <1>5. /\ queue'.buffer[queue.size] = t
        /\ \A i \in 0 .. queue.size - 1 : queue'.buffer[i] = queue.buffer[i]
    BY <1>2, <1>3, <1>4 DEF Struct, Cells
  <1>6. /\ <<t>> \o Items \in Seq(Token)
        /\ Len(<<t>> \o Items) = queue.size + 1
        /\ (<<t>> \o Items)[1] = t
        /\ \A i \in 2 .. queue.size + 1 : (<<t>> \o Items)[i] = Items[i - 1]
    BY <1>1, <1>3, ConcatProperties DEF ItemsFacts
  <1>7. \A i \in 1 .. queue.size + 1 : Items'[i] = (<<t>> \o Items)[i]
    <2>. SUFFICES ASSUME NEW i \in 1 .. queue.size + 1
                  PROVE  Items'[i] = (<<t>> \o Items)[i]
      OBVIOUS
    <2>1. Items'[i] = queue'.buffer[queue.size + 1 - i]
      BY <1>1, <1>4 DEF ItemsFacts
    <2>2. CASE i = 1
      BY <2>1, <2>2, <1>3, <1>5, <1>6
    <2>3. CASE i # 1
      <3>1. queue.size + 1 - i \in 0 .. queue.size - 1 /\ i - 1 \in 1 .. queue.size
        BY <2>3, <1>3
      <3>2. Items'[i] = queue.buffer[queue.size + 1 - i]
        BY <2>1, <3>1, <1>5
      <3>3. Items[i - 1] = queue.buffer[queue.size - (i - 1)]
        BY <3>1, <1>1 DEF ItemsFacts
      <3>4. queue.size - (i - 1) = queue.size + 1 - i
        BY <1>3
      <3>. QED
        BY <3>2, <3>3, <3>4, <1>6, <2>3
    <2>. QED
      BY <2>2, <2>3
  <1>8. Items' \in Seq(Token) /\ Len(Items') = queue.size + 1
    BY <1>1, <1>4 DEF ItemsFacts
  <1>. QED
    BY <1>6, <1>7, <1>8, SeqEqual

\* The token pop and front return is the first of the sequence.
LEMMA FrontIsHead ==
    ASSUME Backed, queue.size > 0
    PROVE  Items # <<>> /\ Front(queue) = Head(Items)
  <1>1. ItemsFacts
    BY ItemsSeq
  <1>2. queue.size \in Nat
    BY DEF Backed, Shape, Struct
  <1>3. Items # <<>>
    BY <1>1, <1>2 DEF ItemsFacts
  <1>4. Head(Items) = Items[1] /\ Items[1] = queue.buffer[queue.size - 1]
    BY <1>1, <1>2, <1>3 DEF ItemsFacts
  <1>. QED
    BY <1>3, <1>4 DEF Front

\* Taking the front cell out of use leaves the tail.
LEMMA PoppedIsTail ==
    ASSUME Backed, Backed', queue.size > 0, queue' = Popped(queue)
    PROVE  Items' = Tail(Items)
  <1>1. ItemsFacts /\ ItemsFacts'
    BY ItemsSeq, ItemsSeqPrime
  <1>2. queue.size \in Nat /\ queue \in Struct(queue.capacity)
    BY DEF Backed, Shape, Struct
  <1>3. queue'.size = queue.size - 1 /\ queue'.buffer = queue.buffer
    BY <1>2 DEF Popped, Struct
  <1>4. Items # <<>>
    BY <1>1, <1>2 DEF ItemsFacts
  <1>5. /\ Tail(Items) \in Seq(Token)
        /\ Len(Tail(Items)) = queue.size - 1
        /\ \A i \in 1 .. queue.size - 1 : Tail(Items)[i] = Items[i + 1]
    BY <1>1, <1>4, HeadTailProperties DEF ItemsFacts
  <1>6. Items' \in Seq(Token) /\ Len(Items') = queue.size - 1
    BY <1>1, <1>3 DEF ItemsFacts
  <1>7. \A i \in 1 .. queue.size - 1 : Items'[i] = Tail(Items)[i]
    <2>. SUFFICES ASSUME NEW i \in 1 .. queue.size - 1
                  PROVE  Items'[i] = Tail(Items)[i]
      OBVIOUS
    <2>1. Items'[i] = queue.buffer[queue.size - 1 - i]
      BY <1>1, <1>3 DEF ItemsFacts
    <2>2. i + 1 \in 1 .. queue.size /\ queue.size - (i + 1) = queue.size - 1 - i
      BY <1>2
    <2>3. Items[i + 1] = queue.buffer[queue.size - (i + 1)]
      BY <1>1, <2>2 DEF ItemsFacts
    <2>. QED
      BY <2>1, <2>2, <2>3, <1>5
  <1>. QED
    BY <1>5, <1>6, <1>7, SeqEqual

\* A queue with no cell in use is the empty sequence, and conversely.
LEMMA EmptyItems == ASSUME Backed PROVE queue.size = 0 <=> Items = <<>>
  <1>1. ItemsFacts
    BY ItemsSeq
  <1>. QED
    BY <1>1, EmptySeq DEF ItemsFacts

\* A queue a step has emptied is the empty sequence.
LEMMA EmptyItemsPrime == ASSUME Backed', queue'.size = 0 PROVE Items' = <<>>
  <1>1. ItemsFacts'
    BY ItemsSeqPrime
  <1>. QED
    BY <1>1, EmptySeq DEF ItemsFacts

\* Every call of a queue that has its cells is a step of the deque or leaves it
\* alone.
LEMMA BackedStep ==
    ASSUME PushOnlyWhenEmpty, Backed, Backed', [Next]_vars
    PROVE  [Deque!Next]_(Deque!vars)
  <1>0. /\ wild = FALSE /\ Shape /\ RoomToSpare
        /\ queue.size \in Nat /\ queue.capacity \in Nat
    BY DEF Backed, Shape, Typed, Struct
  <1>u. queue' = queue => Items' = Items
    BY DEF Items
  <1>1. ASSUME NEW t \in Token, peek_queue_push(t) PROVE Deque!Next
    <2>1. PICK g \in Grown(queue) :
             \/ ~g.ok /\ Refused("push")
             \/ g.ok /\ Pushing("push", g.queue, 0, t, LoopWraps(g.queue))
      BY <1>1 DEF peek_queue_push
    <2>2. queue.capacity > 0 /\ queue.size = 0
      BY <1>1, PushOnlyWhenEmpty DEF peek_queue_push, MayPush
    <2>3. g.ok \in BOOLEAN /\ (g.ok => g.queue.size = 0)
      BY <1>0, <2>2, GrownHasRoom
    <2>4. CASE ~g.ok
      <3>1. result' = Answer("push", FALSE, Uninit) /\ Items' = Items
        BY <1>u, <2>1, <2>4 DEF Refused
      <3>. QED
        BY <3>1 DEF Deque!Next, Deque!PushRefused, Deque!Answer, Answer
    <2>5. CASE g.ok
      <3>0. LoopWraps(g.queue) = FALSE /\ g.queue.size = 0
        BY <2>3, <2>5 DEF LoopWraps
      <3>1. /\ queue' = Stored(g.queue, g.queue.size, t)
            /\ result' = Answer("push", TRUE, Uninit)
        <4>1. Pushing("push", g.queue, 0, t, FALSE)
          BY <2>1, <2>5, <3>0
        <4>. QED
          BY <2>2, <2>5, <3>0, <4>1, PushKeepsInv DEF Calls
      <3>2. Items' = <<t>> \o Items
        BY <2>2, <2>5, <3>1, StoredIsPushFront
      <3>3. Items = <<>>
        BY <2>2, EmptyItems
      <3>4. Items' = Append(Items, t)
        BY <3>2, <3>3
      <3>. QED
        BY <3>1, <3>4 DEF Deque!Next, Deque!PushBack, Deque!Answer, Answer
    <2>. QED
      BY <2>4, <2>5
  <1>2. ASSUME NEW t \in Token, peek_queue_push_front(t) PROVE Deque!Next
    <2>1. PICK g \in Grown(queue) :
             \/ ~g.ok /\ Refused("push_front")
             \/ g.ok /\ Pushing("push_front", g.queue, g.queue.size, t, FALSE)
      BY <1>2 DEF peek_queue_push_front
    <2>2. queue.capacity > 0
      BY <1>2 DEF peek_queue_push_front, MayPush
    <2>4. CASE ~g.ok
      <3>1. result' = Answer("push_front", FALSE, Uninit) /\ Items' = Items
        BY <1>u, <2>1, <2>4 DEF Refused
      <3>. QED
        BY <3>1 DEF Deque!Next, Deque!PushRefused, Deque!Answer, Answer
    <2>5. CASE g.ok
      <3>2. /\ queue' = Stored(g.queue, g.queue.size, t)
            /\ result' = Answer("push_front", TRUE, Uninit)
        BY <2>1, <2>2, <2>5, PushKeepsInv DEF Calls
      <3>1. Items' = <<t>> \o Items
        BY <2>2, <2>5, <3>2, StoredIsPushFront
      <3>. QED
        BY <3>1, <3>2 DEF Deque!Next, Deque!PushFront, Deque!Answer, Answer
    <2>. QED
      BY <2>4, <2>5
  <1>3. CASE peek_queue_front
    <2>1. Items' = Items
      BY <1>3, <1>u DEF peek_queue_front
    <2>2. CASE queue.size = 0
      <3>1. result' = Answer("front", FALSE, Uninit)
        BY <1>3, <2>2 DEF peek_queue_front
      <3>. QED
        BY <2>1, <2>2, <3>1, EmptyItems
           DEF Deque!Next, Deque!NothingThere, Deque!Answer, Answer
    <2>3. CASE queue.size > 0
      <3>1. queue.size # 0
        BY <1>0, <2>3
      <3>2. result' = Answer("front", TRUE, Front(queue))
        BY <1>3, <3>1 DEF peek_queue_front
      <3>3. Items # <<>> /\ Front(queue) = Head(Items)
        BY <2>3, FrontIsHead
      <3>. QED
        BY <2>1, <3>2, <3>3 DEF Deque!Next, Deque!LookAtFront, Deque!Answer, Answer
    <2>. QED
      BY <1>0, <2>2, <2>3
  <1>4. CASE peek_queue_pop
    <2>1. CASE queue.size = 0
      <3>1. result' = Answer("pop", FALSE, Uninit) /\ Items' = Items
        BY <1>4, <1>u, <2>1 DEF peek_queue_pop
      <3>. QED
        BY <2>1, <3>1, EmptyItems
           DEF Deque!Next, Deque!NothingThere, Deque!Answer, Answer
    <2>2. CASE queue.size > 0
      <3>1. queue.size # 0
        BY <1>0, <2>2
      <3>2. result' = Answer("pop", TRUE, Front(queue)) /\ queue' = Popped(queue)
        BY <1>4, <3>1 DEF peek_queue_pop
      <3>3. Items # <<>> /\ Items' = Tail(Items) /\ Front(queue) = Head(Items)
        BY <2>2, <3>2, FrontIsHead, PoppedIsTail
      <3>. QED
        BY <3>2, <3>3 DEF Deque!Next, Deque!Pop, Deque!Answer, Answer
    <2>. QED
      BY <1>0, <2>1, <2>2
  <1>5. CASE peek_queue_empty
    <2>1. result' = Answer("empty", TRUE, Uninit) /\ queue'.size = 0
      BY <1>0, <1>5 DEF peek_queue_empty, Emptied, Shape, Struct
    <2>2. Items' = <<>>
      BY <2>1, EmptyItemsPrime
    <2>. QED
      BY <2>1, <2>2 DEF Deque!Next, Deque!Clear, Deque!Answer, Answer
  <1>6. CASE peek_queue_destroy
    <2>1. result' = Answer("destroy", TRUE, Uninit) /\ queue'.size = 0
      BY <1>6, CreatedType DEF peek_queue_destroy, Destroyed
    <2>2. Items' = <<>>
      BY <2>1, EmptyItemsPrime
    <2>. QED
      BY <2>1, <2>2 DEF Deque!Next, Deque!Clear, Deque!Answer, Answer
  <1>7. CASE UNCHANGED vars
    BY <1>7, <1>u DEF vars, Deque!vars
  <1>. QED
    BY <1>1, <1>2, <1>3, <1>4, <1>5, <1>6, <1>7 DEF Next

\* A queue with nothing in use is the empty sequence, its cells given or not.
LEMMA NoItems == ASSUME Inv, queue.size = 0 PROVE Items = <<>>
  <1>1. CASE Backed
    BY <1>1, EmptyItems
  <1>2. CASE Bare
    BY <1>2 DEF Items
  <1>. QED
    BY <1>1, <1>2 DEF Inv

\* Every call of a reachable queue is a step of the deque or leaves it alone; a
\* call that does not return leaves it alone.
THEOREM StepImplementsDeque ==
    ASSUME PushOnlyWhenEmpty, Inv, [Next]_vars
    PROVE  [Deque!Next]_(Deque!vars)
  <1>1. CASE Backed
    BY <1>1, NextBacked, BackedStep
  <1>2. CASE Bare
    <2>1. Items = <<>>
      BY <1>2, NoItems DEF Inv, Bare, Fresh
    <2>2. CASE UNCHANGED queue /\ result' \in BareAnswers \cup {result}
      <3>1. Items' = Items
        BY <2>2 DEF Items
      <3>2. CASE result' = result
        BY <3>1, <3>2 DEF Deque!vars
      <3>3. CASE result' = Answer("empty", TRUE, Uninit)
        BY <2>1, <3>1, <3>3 DEF Deque!Next, Deque!Clear, Deque!Answer, Answer
      <3>4. CASE result' \in {Answer("push", FALSE, Uninit), Answer("push_front", FALSE, Uninit)}
        BY <3>1, <3>4 DEF Deque!Next, Deque!PushRefused, Deque!Answer, Answer
      <3>5. CASE result' \in {Answer("front", FALSE, Uninit), Answer("pop", FALSE, Uninit)}
        BY <2>1, <3>1, <3>5 DEF Deque!Next, Deque!NothingThere, Deque!Answer, Answer
      <3>. QED
        BY <2>2, <3>2, <3>3, <3>4, <3>5 DEF BareAnswers
    <2>3. CASE Backed' /\ peek_queue_destroy
      <3>1. result' = Answer("destroy", TRUE, Uninit) /\ queue'.size = 0
        BY <2>3, CreatedType DEF peek_queue_destroy, Destroyed
      <3>2. Items' = <<>>
        BY <2>3, <3>1, EmptyItemsPrime
      <3>. QED
        BY <3>1, <3>2 DEF Deque!Next, Deque!Clear, Deque!Answer, Answer
    <2>. QED
      BY <1>2, <2>2, <2>3, NextBare
  <1>. QED
    BY <1>1, <1>2 DEF Inv

\* The buffer, its growth and its failures implement the deque peek_queue.h
\* describes, for every client that pushes only into an empty queue.
THEOREM RefinesDeque == PushOnlyWhenEmpty /\ Spec => ImplementsDeque
  <1>. SUFFICES ASSUME PushOnlyWhenEmpty PROVE Spec => Deque!Spec
    BY DEF ImplementsDeque
  <1>1. Init => Deque!Init
    <2>. SUFFICES ASSUME Init PROVE Deque!Init
      OBVIOUS
    <2>1. Inv /\ queue.size = 0
      BY InitInv DEF Init, Created, Fresh
    <2>2. Items = <<>>
      BY <2>1, NoItems
    <2>. QED
      BY <2>2 DEF Init, Deque!Init, Deque!Answer, Answer
  <1>2. Inv /\ [Next]_vars => Inv'
    BY NextInv
  <1>3. Inv /\ [Next]_vars => [Deque!Next]_(Deque!vars)
    BY StepImplementsDeque
  <1>. QED
    BY <1>1, <1>2, <1>3, InitInv, PTL DEF Spec, Deque!Spec
=============================================================================
