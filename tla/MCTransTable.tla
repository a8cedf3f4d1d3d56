---------------------------- MODULE MCTransTable ----------------------------
(* Small instances of a cluster for TLC. *)
EXTENDS TransTable, TLC

CONSTANTS t0, t1, k1, k2, k3

MCSymmetry == Permutations(Keys)

\* the greatest drop and the greatest promotion
MCMoves == {[kind |-> "drop", ptype |-> 15, to |-> 81]}
MCResults == {[type |-> Exact, depth |-> 4]}

(* Dead values: the arguments of a store that is over, what was last stored *)
(* for positions without an entry, and all of that after a race.            *)
LiveView ==
  <<table, searching, pc, met, twice,
    IF met \/ twice THEN <<>> ELSE [k \in {j \in Keys : Present(j)} |-> latest[k]],
    [t \in Threads |->
       <<IF pc[t] = "idle" THEN <<>>
         ELSE <<todo[t], at[t], IF met \/ twice THEN <<>> ELSE <<told[t]>>>>,
         IF pc[t] = "scan" THEN <<replace[t], calm[t]>> ELSE <<>>>>]>>

(* Bound: no step after two threads have met or stored the same position. *)
NoRace == ~met /\ ~twice

(* Every move, not only those of the instance, survives its 16 bits. *)
ASSUME CodecAssumption == \A m \in AllMoves : FromMove16(ToMove16(m)) = m
=============================================================================
