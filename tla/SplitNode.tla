----------------------------- MODULE SplitNode ------------------------------
(***************************************************************************)
(* The move loop of one node of the main search (search.cpp, search<>():   *)
(* steps 10 to 20), searched by one thread until it splits the node and    *)
(* then by all the threads of the split point at once.  They share the     *)
(* move picker and alpha, bestValue and is_betaCutoff of the SplitPoint,   *)
(* under its lock except for the reads of alpha before a child is          *)
(* searched.  A search is aborted, and then returns any value, when the    *)
(* engine is told to stop or when a beta cutoff occurs at this split point *)
(* or at an ancestor of it.                                                *)
(*                                                                         *)
(* The searches of the children are an oracle: every move has a value, and *)
(* a search of it with a window returns a bound on, or the, value.  The    *)
(* heuristics (futility pruning, reduced searches) are choices; the        *)
(* history variable dismissed holds the moves given up on a heuristic.     *)
(***************************************************************************)
EXTENDS Integers, FiniteSets

CONSTANTS Threads, Master,   \* Master is the thread that reaches the node
          NoThread,
          Moves, NoMove,
          Values,            \* the values of moves and of searches
          Infinite,          \* VALUE_INFINITE
          MatedInMax         \* VALUE_MATED_IN_PLY_MAX

ASSUME ThreadsAssumption == Master \in Threads /\ NoThread \notin Threads
ASSUME MovesAssumption == Moves # {} /\ NoMove \notin Moves
ASSUME ValuesAssumption ==
  /\ Values \subseteq Int
  /\ Infinite \in Int /\ MatedInMax \in Int /\ -Infinite < MatedInMax
  /\ \A v \in Values : -Infinite < v /\ v < Infinite

VARIABLES
  val, oldAlpha, beta, pvNode,   \* the node: values of its moves, its window
  moves,                         \* the moves left in the move picker
  bestMove,                      \* ss->bestMove of the node
  dismissed,                     \* history: moves given up on a heuristic
  inSplit, spLock, spAlpha, spBest, betaCutoff, isSlave,  \* the SplitPoint
  pc, alpha, best, move, value,  \* the threads: where they are, their locals
  stopRequest, ancestorCutoff,   \* set from outside
  entry                          \* what step 20 stores, or NoEntry

node   == <<val, oldAlpha, beta, pvNode>>
point  == <<inSplit, spLock, spAlpha, spBest, betaCutoff, isSlave>>
locals == <<alpha, best, move, value>>
aborts == <<stopRequest, ancestorCutoff>>
vars   == <<node, moves, bestMove, dismissed, point, pc, locals, aborts, entry>>

NoEntry == [type |-> "none", value |-> 0, move |-> NoMove]
Entries == [type : {"none", "upper", "exact", "lower"},
            value : Values \cup {0}, move : Moves \cup {NoMove}]

PC == {"idle", "enter", "loop", "decide", "reduced", "full", "null", "pv",
       "update", "after", "end", "join", "returned"}

TypeOK ==
  /\ val \in [Moves -> Values]
  /\ oldAlpha \in Int /\ beta \in Int /\ pvNode \in BOOLEAN
  /\ moves \in SUBSET Moves
  /\ bestMove \in Moves \cup {NoMove}
  /\ dismissed \in SUBSET Moves
  /\ inSplit \in BOOLEAN /\ betaCutoff \in BOOLEAN
  /\ spLock \in Threads \cup {NoThread}
  /\ spAlpha \in Int /\ spBest \in Int
  /\ isSlave \in SUBSET Threads
  /\ pc \in [Threads -> PC]
  /\ alpha \in [Threads -> Int]
  /\ best \in [Threads -> Int]
  /\ move \in [Threads -> Moves \cup {NoMove}]
  /\ value \in [Threads -> Int]
  /\ stopRequest \in BOOLEAN /\ ancestorCutoff \in BOOLEAN
  /\ entry \in Entries

-----------------------------------------------------------------------------
(* Thread::cutoff_occurred(): the split point, while there is one, and its *)
(* ancestors.  A search returns garbage when it was aborted.               *)
CutoffOccurred == (inSplit /\ betaCutoff) \/ ancestorCutoff
Aborted == stopRequest \/ CutoffOccurred

(* The values a (fail soft) search of move m with window (a, b) returns.   *)
Outcomes(m, a, b) ==
  IF Aborted THEN Values
  ELSE IF val[m] <= a THEN {v \in Values : val[m] <= v /\ v <= a}
  ELSE IF val[m] >= b THEN {v \in Values : b <= v /\ v <= val[m]}
  ELSE {val[m]}

Goto(t, l) == pc' = [pc EXCEPT ![t] = l]

(* sp->lock, which a node searched by one thread does without. *)
MayLock == inSplit => spLock = NoThread
TakeLock(t) == spLock' = IF inSplit THEN t ELSE spLock
DropLock == spLock' = NoThread

(* Where a value, alpha and bestValue are read from when sp->lock is held. *)
MutSharedAlpha(t) == alpha[t]
MutSharedBest(t) == best[t]

SharedAlpha(t) == IF inSplit THEN spAlpha ELSE alpha[t]
SharedBest(t) == IF inSplit THEN spBest ELSE best[t]

Init ==
  /\ val \in [Moves -> Values]
  /\ oldAlpha \in Values /\ beta \in Values
  /\ oldAlpha < beta
  /\ pvNode \in BOOLEAN
  /\ ~pvNode => oldAlpha = beta - 1
  /\ moves = Moves
  /\ bestMove = NoMove
  /\ dismissed = {}
  /\ inSplit = FALSE
  /\ spLock = NoThread
  /\ spAlpha = 0 /\ spBest = 0
  /\ betaCutoff = FALSE
  /\ isSlave = {}
  /\ pc = [t \in Threads |-> IF t = Master THEN "loop" ELSE "idle"]
  /\ alpha = [t \in Threads |-> IF t = Master THEN oldAlpha ELSE 0]
  /\ best = [t \in Threads |-> IF t = Master THEN -Infinite ELSE 0]
  /\ move = [t \in Threads |-> NoMove]
  /\ value = [t \in Threads |-> 0]
  /\ stopRequest = FALSE /\ ancestorCutoff = FALSE
  /\ entry = NoEntry

-----------------------------------------------------------------------------
(* split_point_start: a thread of the split point takes the lock. *)
Enter(t) ==
  /\ pc[t] = "enter"
  /\ MayLock
  /\ TakeLock(t)
  /\ best' = [best EXCEPT ![t] = spBest]
  /\ Goto(t, "loop")
  /\ UNCHANGED <<node, moves, bestMove, dismissed, inSplit, spAlpha, spBest,
                 betaCutoff, isSlave, alpha, move, value, aborts, entry>>

(* The condition of the loop of step 10: a move is taken from the picker   *)
(* before the test of cutoff_occurred().  Only the first move of a PV node *)
(* is searched with the full window from the start.                        *)
NextMove(t) ==
  /\ pc[t] = "loop"
  /\ best[t] < beta
  /\ \E m \in moves :
       /\ moves' = moves \ {m}
       /\ IF CutoffOccurred
          THEN Goto(t, "end") /\ UNCHANGED <<move, spLock>>
          ELSE /\ move' = [move EXCEPT ![t] = m]
               /\ Goto(t, IF pvNode /\ moves = Moves THEN "pv" ELSE "decide")
               /\ DropLock
  /\ UNCHANGED <<node, bestMove, dismissed, inSplit, spAlpha, spBest,
                 betaCutoff, isSlave, alpha, best, value, aborts, entry>>

NoMoreMoves(t) ==
  /\ pc[t] = "loop"
  /\ best[t] >= beta \/ moves = {}
  /\ Goto(t, "end")
  /\ UNCHANGED <<node, moves, bestMove, dismissed, point, locals, aborts,
                 entry>>

(* Step 12: in a node that is not PV a move may be pruned, because of its  *)
(* number or its exchange value, when bestValue, the racy local one, is no *)
(* mate, or because its futility value is below beta.                      *)
Prune(t) ==
  /\ pc[t] = "decide"
  /\ ~pvNode
  /\ best[t] > MatedInMax
  /\ MayLock
  /\ TakeLock(t)
  /\ dismissed' = dismissed \cup {move[t]}
  /\ Goto(t, "loop")
  /\ UNCHANGED <<node, moves, bestMove, inSplit, spAlpha, spBest, betaCutoff,
                 isSlave, locals, aborts, entry>>

Futile(t) ==
  /\ pc[t] = "decide"
  /\ ~pvNode
  /\ MayLock
  /\ TakeLock(t)
  /\ \E v \in Values :
       /\ v < beta
       /\ IF v > SharedBest(t)
          THEN /\ best' = [best EXCEPT ![t] = v]
               /\ spBest' = IF inSplit THEN v ELSE spBest
          ELSE UNCHANGED <<best, spBest>>
  /\ dismissed' = dismissed \cup {move[t]}
  /\ Goto(t, "loop")
  /\ UNCHANGED <<node, moves, bestMove, inSplit, spAlpha, betaCutoff, isSlave,
                 alpha, move, value, aborts, entry>>

(* Step 14: alpha is read, without the lock, and the move may be searched  *)
(* at reduced depth; when that fails low the move is given up.             *)
ReadAlpha(t) == alpha' = [alpha EXCEPT ![t] = SharedAlpha(t)]

StartReduced(t) ==
  /\ pc[t] = "decide"
  /\ ReadAlpha(t)
  /\ Goto(t, "reduced")
  /\ UNCHANGED <<node, moves, bestMove, dismissed, point, best, move, value,
                 aborts, entry>>

ReducedFailsLow(t) ==
  /\ pc[t] = "reduced"
  /\ \E v \in Values : v <= alpha[t] /\ value' = [value EXCEPT ![t] = v]
  /\ dismissed' = dismissed \cup {move[t]}
  /\ Goto(t, "update")
  /\ UNCHANGED <<node, moves, bestMove, point, alpha, best, move, aborts,
                 entry>>

ReducedFailsHigh(t) ==
  /\ pc[t] = "reduced"
  /\ Goto(t, "full")
  /\ UNCHANGED <<node, moves, bestMove, dismissed, point, locals, aborts,
                 entry>>

(* Step 15: alpha is read again and the move is searched with a null       *)
(* window; in a PV node a value inside the window is searched for exactly. *)
StartFull(t) ==
  /\ pc[t] \in {"decide", "full"}
  /\ ReadAlpha(t)
  /\ Goto(t, "null")
  /\ UNCHANGED <<node, moves, bestMove, dismissed, point, best, move, value,
                 aborts, entry>>

NullWindow(t) ==
  /\ pc[t] = "null"
  /\ \E v \in Outcomes(move[t], alpha[t], alpha[t] + 1) :
       /\ value' = [value EXCEPT ![t] = v]
       /\ Goto(t, IF pvNode /\ v > alpha[t] /\ v < beta THEN "pv" ELSE "update")
  /\ UNCHANGED <<node, moves, bestMove, dismissed, point, alpha, best, move,
                 aborts, entry>>

PvSearch(t) ==
  /\ pc[t] = "pv"
  /\ \E v \in Outcomes(move[t], alpha[t], beta) :
       value' = [value EXCEPT ![t] = v]
  /\ Goto(t, "update")
  /\ UNCHANGED <<node, moves, bestMove, dismissed, point, alpha, best, move,
                 aborts, entry>>

(* Step 17: the value is compared with bestValue and alpha, those of the   *)
(* split point under its lock.  A thread of a split point ignores a value  *)
(* that an aborted search may have returned.                               *)
MutTrustsValue == TRUE
TrustsValue == ~(inSplit /\ CutoffOccurred)

Update(t) ==
  /\ pc[t] = "update"
  /\ MayLock
  /\ TakeLock(t)
  /\ LET v == value[t]
         improves == v > SharedBest(t) /\ TrustsValue
         raises == improves /\ v > SharedAlpha(t)
         newAlpha == IF raises /\ pvNode /\ v < beta THEN v ELSE SharedAlpha(t)
         newBest == IF improves THEN v ELSE SharedBest(t)
     IN /\ alpha' = [alpha EXCEPT ![t] = newAlpha]
        /\ best' = [best EXCEPT ![t] = newBest]
        /\ IF inSplit
           THEN /\ spAlpha' = newAlpha
                /\ spBest' = newBest
                /\ betaCutoff' = (betaCutoff \/ (raises /\ ~(pvNode /\ v < beta)))
           ELSE UNCHANGED <<spAlpha, spBest, betaCutoff>>
        /\ bestMove' = IF raises THEN move[t] ELSE bestMove
  /\ Goto(t, IF inSplit THEN "loop" ELSE "after")
  /\ UNCHANGED <<node, moves, dismissed, inSplit, isSlave, move, value, aborts,
                 entry>>

(* Step 18: after a move the thread of the node may split it, when it is   *)
(* not aborted and idle threads S can be had.                              *)
Continue ==
  /\ pc[Master] = "after"
  /\ Goto(Master, "loop")
  /\ UNCHANGED <<node, moves, bestMove, dismissed, point, locals, aborts,
                 entry>>

Split ==
  /\ pc[Master] = "after"
  /\ best[Master] < beta
  /\ ~stopRequest /\ ~CutoffOccurred
  /\ \E S \in SUBSET (Threads \ {Master}) :
       /\ S # {}
       /\ isSlave' = S \cup {Master}
       /\ pc' = [t \in Threads |-> IF t \in S \cup {Master} THEN "enter" ELSE pc[t]]
  /\ inSplit' = TRUE
  /\ spAlpha' = alpha[Master]
  /\ spBest' = best[Master]
  /\ betaCutoff' = FALSE
  /\ UNCHANGED <<node, moves, bestMove, dismissed, spLock, locals, aborts,
                 entry>>

(* The end of the loop at a split point: the thread leaves it. *)
MutClearSlave(t) == UNCHANGED isSlave
ClearSlave(t) == isSlave' = isSlave \ {t}

Leave(t) ==
  /\ pc[t] = "end"
  /\ inSplit
  /\ ClearSlave(t)
  /\ DropLock
  /\ Goto(t, IF t = Master THEN "join" ELSE "idle")
  /\ UNCHANGED <<node, moves, bestMove, dismissed, inSplit, spAlpha, spBest,
                 betaCutoff, locals, aborts, entry>>

(* The end of split(), when all threads have left: the master goes on with *)
(* the loop of the node.                                                   *)
Collect ==
  /\ pc[Master] = "join"
  /\ isSlave = {}
  /\ inSplit' = FALSE
  /\ alpha' = [alpha EXCEPT ![Master] = spAlpha]
  /\ best' = [best EXCEPT ![Master] = spBest]
  /\ Goto(Master, "loop")
  /\ UNCHANGED <<node, moves, bestMove, dismissed, spLock, spAlpha, spBest,
                 betaCutoff, isSlave, move, value, aborts, entry>>

(* Step 20: unless the search is aborted its result is stored in the       *)
(* transposition table; the node returns.                                  *)
Result(b) ==
  [type |-> IF b <= oldAlpha THEN "upper" ELSE IF b >= beta THEN "lower"
            ELSE "exact",
   value |-> b,
   move |-> IF b <= oldAlpha THEN NoMove ELSE bestMove]

MutMayStore == TRUE
MayStore == ~Aborted

Return ==
  /\ pc[Master] = "end"
  /\ ~inSplit
  /\ entry' = IF MayStore THEN Result(best[Master]) ELSE entry
  /\ Goto(Master, "returned")
  /\ UNCHANGED <<node, moves, bestMove, dismissed, point, locals, aborts>>

(* poll() sets StopRequest, another thread is_betaCutoff of an ancestor.   *)
Stop ==
  /\ pc[Master] # "returned"
  /\ ~stopRequest
  /\ stopRequest' = TRUE
  /\ UNCHANGED <<node, moves, bestMove, dismissed, point, pc, locals,
                 ancestorCutoff, entry>>

AncestorCutoff ==
  /\ pc[Master] # "returned"
  /\ ~ancestorCutoff
  /\ ancestorCutoff' = TRUE
  /\ UNCHANGED <<node, moves, bestMove, dismissed, point, pc, locals,
                 stopRequest, entry>>

(* The node has returned to its parent. *)
Returned == pc[Master] = "returned" /\ UNCHANGED vars

Step(t) ==
  \/ Enter(t) \/ NextMove(t) \/ NoMoreMoves(t) \/ Prune(t) \/ Futile(t)
  \/ StartReduced(t) \/ ReducedFailsLow(t) \/ ReducedFailsHigh(t)
  \/ StartFull(t) \/ NullWindow(t) \/ PvSearch(t) \/ Update(t) \/ Leave(t)

MasterStep == Continue \/ Split \/ Collect \/ Return

Next == (\E t \in Threads : Step(t)) \/ MasterStep \/ Stop \/ AncestorCutoff
          \/ Returned

Spec == Init /\ [][Next]_vars

(* Threads are scheduled; a lock that is free again and again is got.      *)
Fairness ==
  /\ WF_vars(MasterStep)
  /\ \A t \in Threads : SF_vars(Step(t))

FairSpec == Spec /\ Fairness

-----------------------------------------------------------------------------
(* What the table is told is true of the node, whatever the interleaving,  *)
(* the cutoffs and the moment of a stop: a lower bound is reached by the   *)
(* stored move, an exact value is the value of the stored move and of no   *)
(* better one, an upper bound bounds every move; moves dismissed on a      *)
(* heuristic are outside the claim.                                        *)
Unbeaten(v) == \A m \in Moves \ dismissed : val[m] <= v

StoredSound ==
  LET e == entry
  IN /\ e.type = "upper" => e.value <= oldAlpha /\ Unbeaten(e.value)
     /\ e.type = "exact" => /\ e.move \in Moves /\ val[e.move] = e.value
                            /\ Unbeaten(e.value)
     /\ e.type = "lower" => /\ e.move \in Moves /\ val[e.move] >= e.value
                            /\ e.value >= beta

(* The window of the split point while threads search in it: bestValue is  *)
(* within alpha, alpha below beta, and a beta cutoff is flagged exactly    *)
(* when bestValue has reached beta.                                        *)
Window ==
  inSplit => /\ spAlpha < beta /\ oldAlpha <= spAlpha
             /\ ~betaCutoff => spBest <= spAlpha
             /\ betaCutoff <=> spBest >= beta

(* While a split point lasts its alpha and bestValue only grow and its     *)
(* cutoff is for ever, so a thread that read them without the lock has     *)
(* seen a bound that is still valid.                                       *)
SharedBoundsGrow ==
  [][inSplit /\ inSplit' => /\ spAlpha' >= spAlpha /\ spBest' >= spBest
                            /\ betaCutoff => betaCutoff']_vars

(* The search of a node ends: no thread waits for ever for the lock or at  *)
(* the end of the split point.                                             *)
NodeReturns == <>(pc[Master] = "returned")
=============================================================================
