----------------------------- MODULE PeekQueue ------------------------------
(***************************************************************************)
(* The peek_queue (lexer/peek_queue.c) as a component: one action per      *)
(* exported function, called by an arbitrary client.                       *)
(*                                                                         *)
(* `wild` records that a call stepped outside what C defines: it touched a *)
(* cell that is not in the buffer or ran the copying loop of               *)
(* peek_queue_push, whose unsigned counter never goes below zero.  Such a  *)
(* call does not return, and nothing more is said about the program.       *)
(*                                                                         *)
(* PushOnlyWhenEmpty is the discipline of the only caller of               *)
(* peek_queue_push, lexer_peek_token (lexer/lexer.c:107-117).  MaxSize     *)
(* bounds the tokens the client leaves in the queue.                       *)
(***************************************************************************)
EXTENDS Integers, Sequences, PeekQueueOps

CONSTANTS Token, Capacities, MaxSize, PushOnlyWhenEmpty

ASSUME TokenAssumption == Uninit \notin Token
ASSUME CapacitiesAssumption == Capacities \subseteq Nat \ {0}
ASSUME MaxSizeAssumption == MaxSize \in Nat
ASSUME DisciplineAssumption == PushOnlyWhenEmpty \in BOOLEAN

VARIABLES queue,   \* the C struct
          result,  \* what the last call returned
          wild     \* undefined behaviour happened

vars == <<queue, result, wild>>

Answer(call, ok, t) == [call |-> call, ok |-> ok, token |-> t]

Init == /\ \E capacity \in Capacities : queue \in Created(capacity)
        /\ result = Answer("create", TRUE, Uninit)
        /\ wild = FALSE

\* A client may put a token into a queue that was not destroyed.
MayPush == ~wild /\ queue.capacity > 0 /\ queue.size < MaxSize

\* for (u64 i = size; i >= 0; --i): entered with a token in the queue, the
\* condition never fails and i wraps to the largest u64.
LoopWraps(q) == q.size > 0

\* The end of both pushes: the token is written, unless the write is outside
\* the buffer or the loop before it does not end.
Pushing(call, q, i, t, strays) ==
    \/ /\ strays \/ ~IsCell(q, i)
       /\ wild' = TRUE
       /\ UNCHANGED <<queue, result>>
    \/ /\ ~(strays \/ ~IsCell(q, i))
       /\ queue' = Stored(q, i, t)
       /\ result' = Answer(call, TRUE, Uninit)
       /\ UNCHANGED wild

Refused(call) ==
    /\ result' = Answer(call, FALSE, Uninit)
    /\ UNCHANGED <<queue, wild>>

peek_queue_push(t) ==
    /\ MayPush
    /\ PushOnlyWhenEmpty => queue.size = 0
    /\ \E grown \in Grown(queue) :
         \/ /\ ~grown.ok
            /\ Refused("push")
         \/ /\ grown.ok
            /\ Pushing("push", grown.queue, 0, t, LoopWraps(grown.queue))

peek_queue_push_front(t) ==
    /\ MayPush
    /\ \E grown \in Grown(queue) :
         \/ /\ ~grown.ok
            /\ Refused("push_front")
         \/ /\ grown.ok
            /\ Pushing("push_front", grown.queue, grown.queue.size, t, FALSE)

peek_queue_front ==
    /\ ~wild
    /\ \/ /\ queue.size = 0
          /\ result' = Answer("front", FALSE, Uninit)
          /\ UNCHANGED wild
       \/ /\ queue.size > 0
          /\ result' = Answer("front", TRUE, Front(queue))
          /\ wild' = ~IsCell(queue, queue.size - 1)
    /\ UNCHANGED queue

peek_queue_pop ==
    /\ ~wild
    /\ \/ /\ queue.size = 0
          /\ result' = Answer("pop", FALSE, Uninit)
          /\ UNCHANGED <<queue, wild>>
       \/ /\ queue.size > 0
          /\ result' = Answer("pop", TRUE, Front(queue))
          /\ wild' = ~IsCell(queue, queue.size - 1)
          /\ queue' = Popped(queue)

peek_queue_empty ==
    /\ ~wild
    /\ queue' = Emptied(queue)
    /\ result' = Answer("empty", TRUE, Uninit)
    /\ UNCHANGED wild

peek_queue_destroy ==
    /\ ~wild
    /\ queue' = Destroyed
    /\ result' = Answer("destroy", TRUE, Uninit)
    /\ UNCHANGED wild

Next == \/ \E t \in Token : peek_queue_push(t) \/ peek_queue_push_front(t)
        \/ peek_queue_front
        \/ peek_queue_pop
        \/ peek_queue_empty
        \/ peek_queue_destroy

Spec == Init /\ [][Next]_vars

-----------------------------------------------------------------------------
Cells(capacity) == [0 .. capacity - 1 -> Token \cup {Uninit}]

Struct(c) == [buffer : Cells(c), size : Nat, capacity : {c}]

\* The struct, the answer and the flag keep their types: the buffer has
\* exactly `capacity` cells, or none when malloc refused them at creation and
\* the queue was never used, and the size is a natural number.
TypeOK ==
    /\ queue.capacity \in Nat
    /\ queue \in Struct(queue.capacity) \cup {Fresh(Blank(0), queue.capacity)}
    /\ result \in [call  : {"create", "push", "push_front", "front", "pop",
                            "empty", "destroy"},
                   ok    : BOOLEAN,
                   token : Token \cup {Uninit}]
    /\ wild \in BOOLEAN

\* The growth test runs before the write, so one cell is always free: the
\* size never reaches the capacity of a queue that was not destroyed
\* (peek_queue.c:39 and :78, the off-by-one that decides the write at :50/:84).
RoomToSpare == \/ queue.size < queue.capacity
               \/ queue = Destroyed

\* No call reads or writes outside the buffer or runs the copying loop without
\* end (peek_queue.c:46-50, :70, :84).  The exception: malloc refused the cells
\* at creation, whose answer nobody looks at (:15), and the first push of a
\* queue large enough not to grow writes to NULL.
NoWildAccess == wild => Unbacked(queue)

\* A token that pop and front can hand out was written by a push: growing,
\* emptying and refilling never expose a cell malloc left uninitialised
\* (peek_queue.c:70 after :93-102).
LiveCellsWritten == \A i \in 0 .. queue.size - 1 : queue.buffer[i] \in Token

\* The buffer seen as a sequence, front first.
Items == [i \in 1 .. queue.size |-> queue.buffer[queue.size - i]]

Deque == INSTANCE TokenDeque WITH items <- Items, Nothing <- Uninit

\* The array, its growth and its failures implement the deque of the header:
\* order is kept at both ends, and a refused push changes nothing
\* (peek_queue.h:31-80).
ImplementsDeque == Deque!Spec
=============================================================================
