----------------------------- MODULE RootSearch -----------------------------
(***************************************************************************)
(* The iterative deepening of gpsfish: id_loop() with its aspiration       *)
(* window, the root node of search<PV, false, true>() over the list Rml,   *)
(* run_checkmate(), do_skill_level() and what poll() does to the requests  *)
(* (gpsfish_dev/src/search.cpp).                                           *)
(*                                                                         *)
(* Abstractions.  A root move is a model value and its score any member of *)
(* Scores: what the search below the root returns is data.  The order of   *)
(* MovePicker is any permutation.  Of the clock only its verdict is kept:  *)
(* "time is up" is a choice wherever the code compares a time, node count  *)
(* or easy move condition under the limits that ask for it.  The depths at *)
(* which a rule starts, the window's deltas and the scores are parameters. *)
(***************************************************************************)
EXTENDS Integers, Sequences, FiniteSets, SequencesExt

CONSTANTS
  Moves,              \* the legal root moves
  NoMove,             \* MOVE_NONE
  Scores,             \* what the search of a root move may return
  INF,                \* VALUE_INFINITE
  MateIn2,            \* value_mate_in(2), the best score a root move can have
  RootMates,          \* value_mate_in(1), value_mate_in(3): the root itself is a mate
  MateInMax,          \* VALUE_MATE_IN_PLY_MAX
  KnownWin,           \* VALUE_KNOWN_WIN
  MinDelta, MaxDelta, Grain,  \* 16, 24, 8: the aspiration window's half width
  RetreatWidening,    \* 63: the window's widening after a checkmate was found
  WindowDepth,        \* 5: first depth searched with an aspiration window
  MateDepth,          \* 5: first depth that stops after two mate scores
  MaxDepth,           \* PLY_MAX or Limits.maxDepth
  MaxCheckmates,      \* BOUND: calls of run_checkmate(); the code doubles its node count
  MultiPVs,           \* the values of the option MultiPV
  SkillPV,            \* Max(UCIMultiPV, 4) of a handicapped engine
  SkillLevel,         \* the option Skill Level when it is below 20
  EasyMargin,         \* EasyMoveMargin
  Limits              \* subset of {"clock", "movetime", "infinite"}

N == Cardinality(Moves)
Unset == INF + 1      \* an element of bestValues[] not written yet
Values == -INF .. INF

ASSUME RootAssumption ==
  /\ IsFiniteSet(Moves) /\ Moves # {} /\ NoMove \notin Moves
  /\ {INF, MateIn2, MateInMax, KnownWin, MinDelta, MaxDelta, Grain, RetreatWidening,
      MaxDepth, SkillPV} \subseteq Nat \ {0}
  /\ {SkillLevel, EasyMargin, MaxCheckmates} \subseteq Nat
  /\ KnownWin < MateInMax /\ MateInMax < MateIn2 /\ MateIn2 < INF
  /\ Scores \subseteq (1 - MateIn2) .. MateIn2 /\ Scores # {}
  /\ RootMates \subseteq MateInMax .. (INF - 1)
  /\ MinDelta <= MaxDelta /\ MaxDelta <= KnownWin
  /\ WindowDepth \in Nat /\ WindowDepth >= 4
  /\ MateDepth \in Nat /\ MateDepth >= 2
  /\ MultiPVs \subseteq Nat \ {0}

VARIABLES
  multiPV, skill, limit,     \* set by think() for the whole search
  ponder,                    \* Limits.ponder
  stop, stopOnPonderhit,     \* StopRequest, StopOnPonderhit
  order, pvScore,            \* Rml: its order, and pv_score of every move
  depth, best,               \* the iteration and bestValues[]
  alpha, beta, delta,        \* the window id_loop() asks for
  bestMove, skillBest,
  checkmates,                \* run_checkmate() calls made
  pc,                        \* "head": loop condition; "move", "judge": in the do-while; "done"
  ranks,                     \* non_pv_score, written again by every search of the root
  moveCount, sAlpha, bestValue  \* locals of the root node

request == <<ponder, stop, stopOnPonderhit>>
list    == <<order, pvScore>>
window  == <<alpha, beta, delta>>
answer  == <<bestMove, skillBest>>
node    == <<ranks, moveCount, sAlpha, bestValue>>
setup   == <<multiPV, skill, limit>>
vars    == <<setup, request, list, depth, best, window, answer, checkmates, pc, node>>

Abs(x) == IF x < 0 THEN -x ELSE x
Lesser(a, b) == IF a < b THEN a ELSE b
Greater(a, b) == IF a > b THEN a ELSE b

-----------------------------------------------------------------------------
(* The root move list *)

\* RootMove::operator<(), from the better to the worse.
Better(pv, npv, a, b) == pv[a] > pv[b] \/ (pv[a] = pv[b] /\ npv[a] > npv[b])

\* The members of S from the better to the worse.
Sorted(S, pv, npv) ==
  CHOOSE s \in [1 .. Cardinality(S) -> S] :
    IsInjective(s) /\ \A i, j \in DOMAIN s : i < j => ~Better(pv, npv, s[j], s[i])

\* sort_multipv() loses the move after the sorted ones.
MutSortPrefix(o, n, pv, npv) ==
  Sorted({o[i] : i \in 1 .. n}, pv, npv) \o SubSeq(o, n + 2, Len(o))

\* sort_multipv(n): the first n moves sorted, the others left where they are.
SortPrefix(o, n, pv, npv) ==
  Sorted({o[i] : i \in 1 .. n}, pv, npv) \o SubSeq(o, n + 1, Len(o))

\* A new search sorts the moves by MovePicker's order alone.
MutRankAndSort(pv) ==
  \E rank \in [Moves -> (1 - N) .. 0] :
    /\ IsInjective(rank)
    /\ ranks' = rank
    /\ order' = SortPrefix(order, N, [m \in Moves |-> 0], rank)
    /\ pvScore' = pv

\* The constructor of MovePickerExt<false, true>: ranks are the order of MovePicker.
RankAndSort(pv) ==
  \E rank \in [Moves -> (1 - N) .. 0] :
    /\ IsInjective(rank)
    /\ ranks' = rank
    /\ order' = SortPrefix(order, N, pv, rank)
    /\ pvScore' = pv

\* Entry of the root node, search(pos, ss+1, a, b, depth * ONE_PLY), unless RootMate.
StartSearch(a, pv) ==
  /\ RankAndSort(pv)
  /\ sAlpha' = Greater(-MateIn2, a)
  /\ bestValue' = a
  /\ moveCount' = 0
  /\ pc' = "move"

NodeBeta == Lesser(MateIn2, beta)
NodeOpen == moveCount < N /\ bestValue < NodeBeta

\* Outside a search of the root its locals have no value.
Outside(r, n, a, v) == r = [m \in Moves |-> 0] /\ n = 0 /\ a = -INF /\ v = -INF

-----------------------------------------------------------------------------
Init ==
  /\ skill \in BOOLEAN
  /\ multiPV \in IF skill THEN {SkillPV} ELSE MultiPVs
  /\ limit \in Limits
  /\ ponder \in BOOLEAN
  /\ stop = FALSE /\ stopOnPonderhit = FALSE
  /\ order \in SetToSeqs(Moves)
  /\ pvScore = [m \in Moves |-> -INF]
  /\ depth = 0 /\ best = [d \in 1 .. MaxDepth |-> Unset]
  /\ alpha = -INF /\ beta = INF /\ delta = 0
  /\ bestMove = NoMove /\ skillBest = NoMove
  /\ checkmates = 0
  /\ pc = "head"
  /\ Outside(ranks, moveCount, sAlpha, bestValue)

\* The half width is not kept above its minimum.
MutHalfWidth(d) ==
  Lesser(Abs(best[d - 1] - best[d - 2]) + Abs(best[d - 2] - best[d - 3]) \div 2, MaxDelta)

\* The half width of the window from the last three values.
HalfWidth(d) ==
  LET change == Abs(best[d - 1] - best[d - 2]) + Abs(best[d - 2] - best[d - 3]) \div 2
      width  == Lesser(Greater(change, MinDelta), MaxDelta)
  IN  ((width + Grain - 1) \div Grain) * Grain

\* The window of iteration d: a new one, or the one the last iteration left.
Windowed(d) == multiPV = 1 /\ d >= WindowDepth /\ Abs(best[d - 1]) < KnownWin
\* aspirationDelta is reset when no new window is made.
MutFirstDelta(d) == IF Windowed(d) THEN HalfWidth(d) ELSE 0

FirstDelta(d) == IF Windowed(d) THEN HalfWidth(d) ELSE delta
FirstAlpha(d) == IF Windowed(d) THEN Greater(best[d - 1] - HalfWidth(d), -INF) ELSE alpha
FirstBeta(d)  == IF Windowed(d) THEN Lesser(best[d - 1] + HalfWidth(d), INF) ELSE beta

\* run_checkmate(): the moves the checkmate solver refutes lose their score.  When
\* the best move is one of them, id_loop() retreats and widens the window.
Refute(refuted) == [m \in Moves |-> IF m \in refuted THEN -INF ELSE pvScore[m]]

NextIteration ==
  /\ pc = "head" /\ ~stop /\ depth < MaxDepth
  /\ \E check \in BOOLEAN, refuted \in SUBSET Moves :
       LET d == depth + 1
           w == FirstDelta(d)
           pv == Refute(refuted)
           retreat == check /\ pv[order[1]] <= -MateInMax
       IN  /\ check => depth >= 1 /\ checkmates < MaxCheckmates
           /\ refuted # {} => check
           /\ depth' = IF retreat THEN d - Lesser(4, d \div 2) ELSE d
           /\ delta' = w
           /\ alpha' = IF retreat THEN Greater(FirstAlpha(d) - RetreatWidening * w, -INF)
                                  ELSE FirstAlpha(d)
           /\ beta' = IF retreat THEN Lesser(FirstBeta(d) + RetreatWidening * w, INF)
                                 ELSE FirstBeta(d)
           /\ checkmates' = IF check THEN checkmates + 1 ELSE checkmates
           /\ StartSearch(alpha', pv)
  /\ UNCHANGED <<setup, request, best, answer>>

\* Iteration 1 of a root that the mate test of search() finds won: it returns before
\* MovePicker ranks the list and before any move is searched.  checkmateTested is
\* never reset in id_loop(), so that no later search of the root tests again.
RootMate ==
  /\ pc = "head" /\ ~stop /\ depth = 0
  /\ depth' = 1
  /\ bestValue' \in RootMates
  /\ pc' = "judge"
  /\ UNCHANGED <<setup, request, list, best, window, answer, checkmates, ranks, moveCount, sAlpha>>

\* A move that failed low keeps the score of an earlier iteration.
MutScored(better, v, old) == IF better THEN v ELSE old

\* The moves searched with the full window: the first lines, all of them at depth 1.
IsPvMove(n) == depth <= 1 \/ n <= multiPV

\* A move that is not the new best one is sorted behind those that were.
Scored(better, v, old) == IF better THEN v ELSE -INF

\* One turn of the root node's loop: the next move is searched and scored.
SearchMove ==
  /\ pc = "move" /\ ~stop /\ NodeOpen
  /\ \E v \in Scores :
       LET n    == moveCount + 1
           a    == IF IsPvMove(n) /\ multiPV > 1 THEN -INF ELSE sAlpha
           better == IsPvMove(n) \/ v > a
           move == order[n]
       IN  /\ moveCount' = n
           /\ bestValue' = Greater(bestValue, v)
           /\ pvScore' = [pvScore EXCEPT ![move] = Scored(better, v, @)]
           /\ order' = IF better THEN SortPrefix(order, n, pvScore', ranks) ELSE order
           /\ sAlpha' = IF ~better THEN a
                        ELSE IF multiPV > 1 THEN pvScore'[order'[Lesser(n, multiPV)]]
                        ELSE Greater(a, v)
           /\ pc' = IF n < N /\ bestValue' < NodeBeta THEN "move" ELSE "judge"
  /\ UNCHANGED <<setup, request, ranks, depth, best, window, answer, checkmates>>

\* The search of a move was aborted: its value counts for bestValue, nothing else.
AbortMove ==
  /\ pc = "move" /\ stop
  /\ \E v \in Scores : bestValue' = Greater(bestValue, v)
  /\ moveCount' = moveCount + 1
  /\ pc' = "judge"
  /\ UNCHANGED <<setup, request, list, depth, best, window, answer, checkmates, ranks, sAlpha>>

\* poll(), called below the root while a move is searched.
PollStop ==
  /\ pc = "move" /\ ~stop /\ NodeOpen
  /\ stop' = TRUE /\ ponder' = FALSE
  /\ UNCHANGED <<setup, stopOnPonderhit, list, depth, best, window, answer, checkmates, pc, node>>

PollPonderhit ==
  /\ pc = "move" /\ ~stop /\ NodeOpen /\ ponder
  /\ ponder' = FALSE /\ stop' = stopOnPonderhit
  /\ UNCHANGED <<setup, stopOnPonderhit, list, depth, best, window, answer, checkmates, pc, node>>

PollTime ==
  /\ pc = "move" /\ ~stop /\ NodeOpen /\ ~ponder /\ limit # "infinite"
  /\ stop' = TRUE
  /\ UNCHANGED <<setup, ponder, stopOnPonderhit, list, depth, best, window, answer, checkmates, pc, node>>

-----------------------------------------------------------------------------
(* After a search of the root *)

\* do_skill_level(): any of the first lines down to the first gap, if one has a score.
SkillChoice ==
  LET size == Lesser(multiPV, N)
      near == {i \in 1 .. size : /\ pvScore[order[i]] > -INF
                                 /\ \A j \in 2 .. i : pvScore[order[j - 1]] <= pvScore[order[j]] + EasyMargin}
  IN  IF near = {} THEN {NoMove} ELSE {order[i] : i \in near}

\* The value of an iteration that failed low is not recorded.
MutRecordValue ==
  IF bestValue > alpha THEN best' = [best EXCEPT ![depth] = bestValue] ELSE UNCHANGED best

RecordValue == best' = [best EXCEPT ![depth] = bestValue]

\* The mate stop forgets that the engine may be pondering.
MutMateStop ==
  /\ ~stop /\ depth >= MateDepth
  /\ Abs(bestValue) >= MateInMax /\ Abs(best[depth - 1]) >= MateInMax

\* The last two iterations returned a mate score, and no ponderhit is waited for.
MateStop ==
  /\ ~ponder /\ ~stop /\ depth >= MateDepth
  /\ Abs(bestValue) >= MateInMax /\ Abs(best[depth - 1]) >= MateInMax

\* The rest of an iteration's body, after the do-while loop.
EndIteration(hit) ==
  /\ pc' = "head"
  /\ bestMove' = order[1]
  /\ RecordValue
  /\ IF skill /\ depth = 1 + SkillLevel THEN skillBest' \in SkillChoice ELSE UNCHANGED skillBest
  /\ \E early \in BOOLEAN :
       /\ early => limit = "clock" /\ ~stop /\ ~MateStop
       /\ stop' = (stop \/ MateStop \/ (early /\ ~ponder))
       /\ stopOnPonderhit' = (hit \/ (early /\ ponder))
  /\ Outside(ranks', moveCount', sAlpha', bestValue')
  /\ UNCHANGED <<setup, ponder, list, depth, checkmates>>

\* The window was too narrow: search again with a wider one, unless the value is a win.
Widen(a, b, hit) ==
  /\ alpha' = a /\ beta' = b /\ delta' = delta + delta \div 2
  /\ IF Abs(bestValue) < KnownWin
     THEN /\ StartSearch(a, pvScore)
          /\ stopOnPonderhit' = hit
          /\ UNCHANGED <<setup, ponder, stop, depth, best, answer, checkmates>>
     ELSE EndIteration(hit)

FailHigh ==
  /\ pc = "judge" /\ ~stop /\ bestValue >= beta
  /\ Widen(alpha, Lesser(beta + delta, INF), stopOnPonderhit)

\* A fail low does not widen the window.
MutFailLow ==
  /\ pc = "judge" /\ ~stop /\ bestValue < beta /\ bestValue <= alpha
  /\ Widen(alpha, beta, FALSE)

FailLow ==
  /\ pc = "judge" /\ ~stop /\ bestValue < beta /\ bestValue <= alpha
  /\ Widen(Greater(alpha - delta, -INF), beta, FALSE)

\* A value inside the window, or one that a stop makes worthless.
Settle ==
  /\ pc = "judge" /\ (stop \/ (alpha < bestValue /\ bestValue < beta))
  /\ EndIteration(stopOnPonderhit)
  /\ UNCHANGED window

\* The loop ends; a handicapped engine answers its choice.
Finish ==
  /\ pc = "head" /\ (stop \/ depth = MaxDepth)
  /\ pc' = "done"
  /\ skillBest' \in IF skill /\ skillBest = NoMove THEN SkillChoice ELSE {skillBest}
  /\ bestMove' = IF skill THEN skillBest' ELSE bestMove
  /\ UNCHANGED <<setup, request, list, depth, best, window, checkmates, node>>

Think == \/ NextIteration \/ RootMate \/ SearchMove \/ AbortMove
         \/ FailHigh \/ FailLow \/ Settle \/ Finish
Poll  == PollStop \/ PollPonderhit \/ PollTime
Next  == Think \/ Poll

Spec     == Init /\ [][Next]_vars
FairSpec == Spec /\ WF_vars(Think)

-----------------------------------------------------------------------------
(* Properties *)

TypeOK ==
  /\ skill \in BOOLEAN /\ multiPV \in Nat \ {0} /\ limit \in Limits
  /\ ponder \in BOOLEAN /\ stop \in BOOLEAN /\ stopOnPonderhit \in BOOLEAN
  /\ order \in [1 .. N -> Moves] /\ IsInjective(order)
  /\ pvScore \in [Moves -> Values] /\ ranks \in [Moves -> Int]
  /\ depth \in 0 .. MaxDepth /\ best \in [1 .. MaxDepth -> Values \cup {Unset}]
  /\ alpha \in Values /\ beta \in Values /\ delta \in Nat
  /\ bestMove \in Moves \cup {NoMove} /\ skillBest \in Moves \cup {NoMove}
  /\ checkmates \in 0 .. MaxCheckmates
  /\ pc \in {"head", "move", "judge", "done"}
  /\ moveCount \in 0 .. N /\ sAlpha \in Values /\ bestValue \in Values

\* The window is a window at every point of id_loop(), also when an iteration keeps
\* the one the last iteration left, and a window that cannot be widened is full:
\* else the do-while loop would search the same window for ever (search.cpp:886-919).
WindowOK ==
  /\ -INF <= alpha /\ alpha < beta /\ beta <= INF
  /\ delta = 0 => alpha = -INF /\ beta = INF

\* bestValues[] is an array on the stack: an iteration, also one that id_loop()
\* retreated to, has all earlier elements it reads written (search.cpp:860-861, 954).
HistoryWritten ==
  \A d \in 1 .. depth : best[d] = Unset => d = depth /\ pc \in {"move", "judge"}

\* No move was scored and no iteration recorded a value yet.
Unscored == /\ \A m \in Moves : pvScore[m] = -INF
            /\ \A d \in 1 .. MaxDepth : best[d] = Unset

\* When a search of the root ends unaborted with a value above alpha, that value is
\* the score of the head of the list, the move id_loop() answers.  The one search that
\* may return a value no move has is the first of all, when the root itself is a mate
\* (search.cpp:1229-1251): then the list is still as Rml.init() made it.  And no move
\* left unsearched by a beta cutoff keeps a score of an earlier search that beats the
\* head's, whatever the number of lines: the next search sorts the whole list
\* (search.cpp:3165).
HeadIsBest ==
  /\ pc = "judge" /\ ~stop /\ bestValue > alpha =>
       IF moveCount = 0 THEN Unscored ELSE pvScore[order[1]] = bestValue
  /\ pc \in {"judge", "head"} /\ ~stop =>
       \A m \in Moves : pvScore[m] <= pvScore[order[1]]

\* A request to stop ends pondering: only poll() on a command of the GUI, or a
\* decision taken while not pondering, stops a search.
StopNotPondering == stop => ~ponder

\* The head of the list, the move a stop would answer, is replaced only by a move
\* that was just searched to the end and has a better score, by one that ties with it
\* and that MovePicker prefers, or after the head was refuted by the checkmate solver
\* or never had a score.
HeadKept ==
  [][order'[1] # order[1] =>
       \/ pvScore'[order[1]] = -INF
       \/ pvScore'[order'[1]] = pvScore[order[1]]
       \/ /\ moveCount' = moveCount + 1
          /\ order'[1] = order[moveCount']
          /\ pvScore'[order'[1]] > pvScore[order[1]]]_vars

\* Every search repeated within an iteration has a strictly wider window.
WindowWidens ==
  [][pc = "judge" /\ pc' = "move" =>
       /\ alpha' <= alpha /\ beta <= beta'
       /\ alpha' < alpha \/ beta < beta']_vars

\* The iterative deepening ends: no search is repeated for ever.
Termination == <>(pc = "done")

=============================================================================
