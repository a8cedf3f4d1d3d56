---------------------------- MODULE MCThreadPool ----------------------------
(* Small instances of the thread pool for TLC. *)
EXTENDS ThreadPool

(* States that differ only in dead values are the same: the fields of a    *)
(* split point that is not in use are all stored by the split() that takes *)
(* it, and the splitPoint of an AVAILABLE thread by the one that books it. *)
LiveView ==
  <<state, activeSplitPoints, options, allThreadsShouldExit, isSlave, locks,
    pc, idx, tsp, budget,
    [t \in Threads |-> IF state[t] = "AVAILABLE" THEN NoSP ELSE splitPoint[t]],
    {<<s, parent[s], nodes[s], crew[s]>> : s \in {r \in SplitPoints : InUse(r)}}>>
=============================================================================
