---------------------------- MODULE PeekQueueOps ----------------------------
(***************************************************************************)
(* The peek_queue of lexer/peek_queue.c as a value and the functions of    *)
(* that file as operators on it.  PeekQueue makes a state machine of them, *)
(* Lexer embeds them.                                                      *)
(*                                                                         *)
(* A queue is the C struct: an array `buffer` of `capacity` cells indexed  *)
(* from 0, of which the first `size` are in use.  The BACK of the queue is *)
(* cell 0 and its FRONT is cell size-1.  Cells that malloc returned and    *)
(* nobody wrote hold Uninit; a NULL buffer is one of no cells.             *)
(***************************************************************************)
LOCAL INSTANCE Integers

CONSTANT Uninit

\* DEFAULT_PEEK_QUEUE_RESIZE_FACTOR
ResizeFactor == 2

\* What malloc returns for a number of tokens: cells nobody wrote.
Blank(count) == [i \in 0 .. count - 1 |-> Uninit]

Fresh(cells, capacity) == [buffer |-> cells, size |-> 0, capacity |-> capacity]

\* peek_queue_create does not look at what malloc answers: it may be NULL.
Created(capacity) == {Fresh(Blank(capacity), capacity), Fresh(Blank(0), capacity)}

\* A queue whose cells malloc refused.
Unbacked(q) == q.capacity > 0 /\ q.buffer = Blank(0)

\* The zeroed struct peek_queue_destroy leaves: no cells, and no capacity.
Destroyed == Fresh(Blank(0), 0)

Emptied_Kept(q) == q

Emptied(q) == [q EXCEPT !.size = 0]

IsCell(q, i) == i \in DOMAIN q.buffer

NeedsRoom_Late(q) == q.size > q.capacity
NeedsRoom_Full(q) == q.size + 1 > q.capacity

NeedsRoom(q) == q.size + 1 >= q.capacity

Reallocated_Uncounted(q) ==
    [q EXCEPT !.buffer = [i \in 0 .. ResizeFactor * q.capacity - 1 |->
                             IF i < q.capacity THEN q.buffer[i] ELSE Uninit]]

Reallocated_NoCopy(q) ==
    [q EXCEPT !.buffer = Blank(ResizeFactor * q.capacity),
              !.capacity = ResizeFactor * q.capacity]

\* reallocate_buffer: the old cells are copied, the new ones are not written.
Reallocated(q) ==
    [buffer   |-> [i \in 0 .. ResizeFactor * q.capacity - 1 |->
                     IF i < q.capacity THEN q.buffer[i] ELSE Uninit],
     size     |-> q.size,
     capacity |-> ResizeFactor * q.capacity]

\* What the growth at the top of both pushes may come to.  memcpy_s reports an
\* error when either buffer is NULL, unless it was asked to copy no byte at all.
Grown(q) ==
    IF ~NeedsRoom(q) THEN {[ok |-> TRUE, queue |-> q]}
    ELSE (IF Unbacked(q) THEN {} ELSE {[ok |-> TRUE, queue |-> Reallocated(q)]})
         \cup (IF q.capacity > 0 THEN {[ok |-> FALSE, queue |-> q]} ELSE {})

Stored_OneHigh(q, i, t) ==
    [q EXCEPT !.buffer[i + 1] = t, !.size = q.size + 1]

\* One token written into cell i, and the size one larger.
Stored(q, i, t) == [q EXCEPT !.buffer[i] = t, !.size = q.size + 1]

Front_Oldest(q) == q.buffer[0]

Front(q) == q.buffer[q.size - 1]

Popped(q) == [q EXCEPT !.size = q.size - 1]
=============================================================================
