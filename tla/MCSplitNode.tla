---------------------------- MODULE MCSplitNode -----------------------------
(* Small instances of a shared node for TLC. *)
EXTENDS SplitNode, TLC

CONSTANTS m1, m2, m3, t0, t1, t2

MCThreads == {t0, t1, t2}
MCValues == 1..3

\* safety, with symmetry
MCMoves == {m1, m2, m3}
Interchangeable ==
  Permutations(MCMoves) \cup Permutations(MCThreads \ {Master})

(* States that differ only in dead values are the same: a thread has read   *)
(* its locals again before it uses them, once it is idle or has entered the *)
(* loop, and the fields of a SplitPoint out of use are stored by Split.     *)
Searching(t) == pc[t] \in {"reduced", "full", "null", "pv", "update"}
LiveView ==
  <<node, moves, bestMove, dismissed, pc, aborts, entry, spLock,
    IF inSplit THEN <<spAlpha, spBest, betaCutoff, isSlave>> ELSE <<>>,
    [t \in Threads |->
       <<IF Searching(t) \/ (t = Master /\ ~inSplit) THEN alpha[t] ELSE 0,
         IF pc[t] \in {"idle", "enter", "join"} THEN 0 ELSE best[t],
         IF pc[t] = "decide" \/ Searching(t) THEN move[t] ELSE NoMove,
         IF pc[t] = "update" THEN value[t] ELSE 0>>]>>

\* liveness, without
MCTwoMoves == {m1, m2}
MCTwoValues == 1..2
=============================================================================
