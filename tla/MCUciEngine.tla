---------------------------- MODULE MCUciEngine -----------------------------
(* Small instances of the dialogue for TLC. *)
EXTENDS UciEngine

Go(ponder, infinite, capped, maxDepth) ==
  [ponder |-> ponder, infinite |-> infinite, capped |-> capped,
   maxDepth |-> maxDepth]

MCRequests ==
  {Go(FALSE, FALSE, FALSE, 0),    \* go btime .. wtime ..
   Go(TRUE, FALSE, FALSE, 0),     \* go ponder btime .. wtime ..
   Go(FALSE, TRUE, FALSE, 0),     \* go infinite
   Go(FALSE, FALSE, TRUE, 0),     \* go byoyomi .., go movetime .., go nodes ..
   Go(TRUE, FALSE, TRUE, 0),      \* go ponder byoyomi ..
   Go(FALSE, FALSE, FALSE, 1)}    \* go depth 1
=============================================================================
