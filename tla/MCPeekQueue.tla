---------------------------- MODULE MCPeekQueue -----------------------------
(***************************************************************************)
(* Values for model checking PeekQueue.  Initial capacities 1 and 2 make   *)
(* the queue grow on its first, second and fourth token; the program       *)
(* creates it with 32 (lexer/lexer.c:59).                                  *)
(***************************************************************************)
EXTENDS PeekQueue

MCCapacities == {1, 2}
=============================================================================
