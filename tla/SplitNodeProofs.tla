--------------------------- MODULE SplitNodeProofs ---------------------------
(***************************************************************************)
(* Proofs about SplitNode, for any number of threads, moves and values:    *)
(* what the node stores is sound (StoredSound), the window of its split    *)
(* point is in order (Window) and only narrows (SharedBoundsGrow).         *)
(***************************************************************************)
EXTENDS SplitNode, TLAPS

(* The types the proofs need. *)
Types ==
  /\ val \in [Moves -> Values]
  /\ oldAlpha \in Int /\ beta \in Int /\ oldAlpha < beta
  /\ pvNode \in BOOLEAN /\ (~pvNode => oldAlpha = beta - 1)
  /\ moves \in SUBSET Moves
  /\ inSplit \in BOOLEAN /\ betaCutoff \in BOOLEAN
  /\ spAlpha \in Int /\ spBest \in Int
  /\ isSlave \in SUBSET Threads
  /\ pc \in [Threads -> PC]
  /\ alpha \in [Threads -> Int]
  /\ best \in [Threads -> Int]
  /\ move \in [Threads -> Moves \cup {NoMove}]
  /\ value \in [Threads -> Int]

(* Where threads may be: others than the master only in a split point,     *)
(* which lasts until all of them have left it.                             *)
PcHeld == {"decide", "reduced", "full", "null", "pv", "update"}
PcSlave == PcHeld \cup {"enter", "loop", "end"}

Control ==
  /\ \A t \in Threads :
       /\ pc[t] \in PcHeld => move[t] \in Moves
       /\ pc[t] = "idle" => t # Master
       /\ pc[t] # "idle" => t = Master \/ inSplit
       /\ pc[t] \in {"after", "returned"} => ~inSplit
       /\ pc[t] = "join" => t = Master
       /\ pc[t] \in {"join", "enter"} => inSplit
       /\ inSplit => (t \in isSlave <=> pc[t] \in PcSlave)
  /\ moves = Moves => ~inSplit /\ pc[Master] \in {"loop", "end", "returned"}

(* The values of alpha and bestValue that count. *)
A == SharedAlpha(Master)
B == SharedBest(Master)

(* The window of the node, in a split point or not. *)
Bounds ==
  /\ oldAlpha <= A /\ A < beta
  /\ B <= A \/ B >= beta
  /\ A > oldAlpha => B >= A
  /\ inSplit => (betaCutoff <=> B >= beta)
  /\ \A t \in Threads : pc[t] \in {"reduced", "null", "pv", "update"} =>
                          oldAlpha <= alpha[t] /\ alpha[t] <= A

(* A value that comes back is a bound on its move, unless the search that  *)
(* returned it was aborted, and so the node, or the split point, with it.  *)
Lost == stopRequest \/ ancestorCutoff
Closed == Lost \/ B >= beta

ValueOK ==
  \A t \in Threads : pc[t] = "update" =>
    \/ Lost \/ (inSplit /\ betaCutoff)
    \/ /\ value[t] <= alpha[t]
       /\ move[t] \in dismissed \/ val[move[t]] <= value[t]
    \/ alpha[t] < value[t] /\ value[t] < beta /\ val[move[t]] = value[t]
    \/ alpha[t] < value[t] /\ value[t] >= beta /\ val[move[t]] >= value[t]

(* No move is lost: it is still to be searched, or being searched, or was  *)
(* given up, or bestValue covers it.                                       *)
Held(m) == \E t \in Threads : pc[t] \in PcHeld /\ move[t] = m
Accounted ==
  Closed \/ \A m \in Moves : m \in moves \cup dismissed \/ Held(m) \/ val[m] <= B

(* bestMove is worth bestValue once that exceeds the original alpha. *)
BestOK ==
  \/ Lost
  \/ B <= oldAlpha
  \/ /\ bestMove \in Moves
     /\ val[bestMove] >= B
     /\ B < beta => val[bestMove] = B

(* The loop of the node ends for a reason. *)
EndOK == pc[Master] = "end" /\ ~inSplit => Closed \/ moves = {}

EntryOK == pc[Master] # "returned" => entry = NoEntry

IInv == /\ Types /\ Control /\ Bounds /\ ValueOK /\ Accounted /\ BestOK
        /\ EndOK /\ EntryOK /\ StoredSound

-----------------------------------------------------------------------------
LEMMA MasterType == Master \in Threads
  BY ThreadsAssumption

LEMMA ValuesInt == Values \subseteq Int /\ Infinite \in Int
  BY ValuesAssumption

LEMMA OutcomesType ==
  ASSUME NEW m, NEW a, NEW b, NEW v \in Outcomes(m, a, b), Types, m \in Moves
  PROVE  v \in Values
  BY DEF Outcomes, Types

LEMMA TypesStep == Types /\ Control /\ [Next]_vars => Types'
  <1> SUFFICES ASSUME Types, Control, [Next]_vars PROVE Types'
    OBVIOUS
  <1> USE MasterType, ValuesInt DEF Types, Goto, PC
  <1>1. ASSUME NEW t \in Threads, Enter(t) PROVE Types'
    BY <1>1 DEF Enter, node, aborts
  <1>2. ASSUME NEW t \in Threads, NextMove(t) PROVE Types'
    BY <1>2 DEF NextMove, node, aborts
  <1>3. ASSUME NEW t \in Threads, NoMoreMoves(t) PROVE Types'
    BY <1>3 DEF NoMoreMoves, node, aborts, point, locals
  <1>4. ASSUME NEW t \in Threads, Prune(t) PROVE Types'
    BY <1>4 DEF Prune, node, aborts, locals
  <1>5. ASSUME NEW t \in Threads, Futile(t) PROVE Types'
    BY <1>5 DEF Futile, node, aborts
  <1>6. ASSUME NEW t \in Threads, StartReduced(t) PROVE Types'
    BY <1>6 DEF StartReduced, ReadAlpha, SharedAlpha, node, aborts, point
  <1>7. ASSUME NEW t \in Threads, ReducedFailsLow(t) PROVE Types'
    BY <1>7 DEF ReducedFailsLow, node, aborts, point
  <1>8. ASSUME NEW t \in Threads, ReducedFailsHigh(t) PROVE Types'
    BY <1>8 DEF ReducedFailsHigh, node, aborts, point, locals
  <1>9. ASSUME NEW t \in Threads, StartFull(t) PROVE Types'
    BY <1>9 DEF StartFull, ReadAlpha, SharedAlpha, node, aborts, point
  <1>10. ASSUME NEW t \in Threads, NullWindow(t) PROVE Types'
    <2>1. move[t] \in Moves
      BY <1>10 DEF NullWindow, Control, PcHeld
    <2>2. PICK v \in Outcomes(move[t], alpha[t], alpha[t] + 1) :
            /\ value' = [value EXCEPT ![t] = v]
            /\ Goto(t, IF pvNode /\ v > alpha[t] /\ v < beta THEN "pv" ELSE "update")
      BY <1>10 DEF NullWindow
    <2>3. v \in Values
      BY <2>1, OutcomesType
    <2> QED
      BY <1>10, <2>2, <2>3 DEF NullWindow, node, aborts, point
  <1>11. ASSUME NEW t \in Threads, PvSearch(t) PROVE Types'
    BY <1>11, OutcomesType DEF PvSearch, node, aborts, point, Control, PcHeld
  <1>12. ASSUME NEW t \in Threads, Update(t) PROVE Types'
    BY <1>12 DEF Update, node, aborts, SharedAlpha, SharedBest
  <1>13. ASSUME NEW t \in Threads, Leave(t) PROVE Types'
    BY <1>13 DEF Leave, ClearSlave, node, aborts, locals
  <1>14. CASE Continue
    BY <1>14 DEF Continue, node, aborts, point, locals
  <1>15. CASE Split
    BY <1>15 DEF Split, node, aborts, locals
  <1>16. CASE Collect
    BY <1>16 DEF Collect, node, aborts, locals
  <1>17. CASE Return
    BY <1>17 DEF Return, node, aborts, point, locals
  <1>18. CASE Stop \/ AncestorCutoff \/ UNCHANGED vars
    BY <1>18 DEF Stop, AncestorCutoff, vars, node, aborts, point, locals
  <1> QED
    BY <1>1, <1>2, <1>3, <1>4, <1>5, <1>6, <1>7, <1>8, <1>9, <1>10, <1>11, <1>12,
       <1>13, <1>14, <1>15, <1>16, <1>17, <1>18
    DEF Next, Step, MasterStep, Returned

LEMMA ControlStep == Types /\ Control /\ [Next]_vars => Control'
  <1> SUFFICES ASSUME Types, Control, [Next]_vars PROVE Control'
    OBVIOUS
  <1> USE MasterType DEF Types, Control, Goto, PcHeld, PcSlave
  <1>1. ASSUME NEW t \in Threads, Enter(t) PROVE Control'
    BY <1>1 DEF Enter, node, aborts
  <1>2. ASSUME NEW t \in Threads, NextMove(t) PROVE Control'
    BY <1>2 DEF NextMove, node, aborts
  <1>3. ASSUME NEW t \in Threads, NoMoreMoves(t) PROVE Control'
    BY <1>3 DEF NoMoreMoves, node, aborts, point, locals
  <1>4. ASSUME NEW t \in Threads, Prune(t) PROVE Control'
    BY <1>4 DEF Prune, node, aborts, locals
  <1>5. ASSUME NEW t \in Threads, Futile(t) PROVE Control'
    BY <1>5 DEF Futile, node, aborts
  <1>6. ASSUME NEW t \in Threads, StartReduced(t) PROVE Control'
    BY <1>6 DEF StartReduced, node, aborts, point
  <1>7. ASSUME NEW t \in Threads, ReducedFailsLow(t) PROVE Control'
    BY <1>7 DEF ReducedFailsLow, node, aborts, point
  <1>8. ASSUME NEW t \in Threads, ReducedFailsHigh(t) PROVE Control'
    BY <1>8 DEF ReducedFailsHigh, node, aborts, point, locals
  <1>9. ASSUME NEW t \in Threads, StartFull(t) PROVE Control'
    BY <1>9 DEF StartFull, node, aborts, point
  <1>10. ASSUME NEW t \in Threads, NullWindow(t) PROVE Control'
    <2>1. Goto(t, "pv") \/ Goto(t, "update")
      BY <1>10 DEF NullWindow
    <2> QED
      BY <1>10, <2>1 DEF NullWindow, node, aborts, point
  <1>11. ASSUME NEW t \in Threads, PvSearch(t) PROVE Control'
    BY <1>11 DEF PvSearch, node, aborts, point
  <1>12. ASSUME NEW t \in Threads, Update(t) PROVE Control'
    BY <1>12 DEF Update, node, aborts
  <1>13. ASSUME NEW t \in Threads, Leave(t) PROVE Control'
    BY <1>13 DEF Leave, ClearSlave, node, aborts, locals
  <1>14. CASE Continue
    BY <1>14 DEF Continue, node, aborts, point, locals
  <1>15. CASE Split
    BY <1>15 DEF Split, node, aborts, locals
  <1>16. CASE Collect
    <2>1. inSplit /\ isSlave = {}
      BY <1>16 DEF Collect
    <2>2. \A u \in Threads \ {Master} : pc[u] = "idle"
      BY <2>1 DEF PC
    <2>3. moves # Moves
      BY <2>1
    <2>4. pc' = [pc EXCEPT ![Master] = "loop"] /\ inSplit' = FALSE
          /\ UNCHANGED <<moves, move>>
      BY <1>16 DEF Collect
    <2> QED
      BY <2>2, <2>3, <2>4
  <1>17. CASE Return
    BY <1>17 DEF Return, node, aborts, point, locals
  <1>18. CASE Stop \/ AncestorCutoff \/ UNCHANGED vars
    BY <1>18 DEF Stop, AncestorCutoff, vars, node, aborts, point, locals
  <1> QED
    BY <1>1, <1>2, <1>3, <1>4, <1>5, <1>6, <1>7, <1>8, <1>9, <1>10, <1>11, <1>12,
       <1>13, <1>14, <1>15, <1>16, <1>17, <1>18
    DEF Next, Step, MasterStep, Returned

-----------------------------------------------------------------------------
(* alpha and bestValue change in Futile and Update only. *)
LEMMA SameBounds ==
  ASSUME Types, Control, [Next]_vars,
         \A t \in Threads : ~Futile(t) /\ ~Update(t)
  PROVE  /\ A' = A /\ B' = B
         /\ UNCHANGED <<node, bestMove>>
         /\ inSplit /\ inSplit' => UNCHANGED betaCutoff
         /\ inSplit' /\ ~inSplit => betaCutoff' = FALSE /\ B < beta
  <1> USE MasterType DEF A, B, SharedAlpha, SharedBest
  <1> DEFINE Goal ==
        /\ A' = A /\ B' = B
        /\ UNCHANGED <<node, bestMove>>
        /\ inSplit /\ inSplit' => UNCHANGED betaCutoff
        /\ inSplit' /\ ~inSplit => betaCutoff' = FALSE /\ B < beta
  <1>1. ASSUME NEW t \in Threads, Enter(t) PROVE Goal
    BY <1>1 DEF Enter, Control
  <1>2. ASSUME NEW t \in Threads, NextMove(t) PROVE Goal
    BY <1>2 DEF NextMove
  <1>3. ASSUME NEW t \in Threads, StartReduced(t) \/ StartFull(t) PROVE Goal
    <2>1. ReadAlpha(t) /\ UNCHANGED <<node, bestMove, point, best>>
      BY <1>3 DEF StartReduced, StartFull
    <2>2. inSplit \/ t = Master
      BY <1>3 DEF StartReduced, StartFull, Control
    <2> QED
      BY <2>1, <2>2 DEF ReadAlpha, point, Types
  <1>4. ASSUME NEW t \in Threads,
               NoMoreMoves(t) \/ Prune(t) \/ ReducedFailsLow(t)
                 \/ ReducedFailsHigh(t) \/ NullWindow(t) \/ PvSearch(t)
        PROVE  Goal
    BY <1>4 DEF NoMoreMoves, Prune, ReducedFailsLow, ReducedFailsHigh,
                NullWindow, PvSearch, point, locals
  <1>5. ASSUME NEW t \in Threads, Leave(t) PROVE Goal
    BY <1>5 DEF Leave, locals
  <1>6. CASE Split
    <2>1. /\ ~inSplit
          /\ inSplit' /\ spAlpha' = alpha[Master] /\ spBest' = best[Master]
          /\ betaCutoff' = FALSE /\ best[Master] < beta
          /\ UNCHANGED <<node, bestMove>>
      BY <1>6 DEF Split, Control
    <2> QED
      BY <2>1
  <1>7. CASE Collect
    <2>1. inSplit /\ inSplit' = FALSE /\ UNCHANGED <<node, bestMove>>
          /\ alpha'[Master] = spAlpha /\ best'[Master] = spBest
      BY <1>7 DEF Collect, Control, Types
    <2> QED
      BY <2>1
  <1>8. CASE Continue \/ Return \/ Stop \/ AncestorCutoff \/ UNCHANGED vars
    BY <1>8 DEF Continue, Return, Stop, AncestorCutoff, vars, point, locals
  <1> QED
    BY <1>1, <1>2, <1>3, <1>4, <1>5, <1>6, <1>7, <1>8
    DEF Next, Step, MasterStep, Returned

(* A futile move may raise bestValue, though not above alpha. *)
LEMMA FutileBounds ==
  ASSUME Types, Control, Bounds, NEW t \in Threads, Futile(t)
  PROVE  /\ A' = A /\ (B' = B \/ (B' > B /\ B' <= oldAlpha))
         /\ B' \in Values \/ (B' = B /\ \E v \in Values : v <= B)
         /\ UNCHANGED <<node, bestMove, inSplit, betaCutoff>>
  <1>1. /\ ~pvNode /\ (inSplit \/ t = Master)
        /\ UNCHANGED <<node, bestMove, inSplit, betaCutoff, spAlpha, alpha>>
    BY DEF Futile, Control
  <1>2. PICK v \in Values :
          /\ v < beta
          /\ IF v > SharedBest(t)
             THEN /\ best' = [best EXCEPT ![t] = v]
                  /\ spBest' = IF inSplit THEN v ELSE spBest
             ELSE UNCHANGED <<best, spBest>>
    BY DEF Futile
  <1>3. v \in Int /\ v <= oldAlpha
    BY <1>1, <1>2, ValuesInt DEF Types
  <1>4. SharedBest(t) = B /\ B \in Int
    BY <1>1, MasterType DEF SharedBest, B, Types
  <1>5. (B' = B /\ v <= B) \/ (B' = v /\ v > B)
    BY <1>1, <1>2, <1>3, <1>4 DEF B, SharedBest, Types
  <1> QED
    BY <1>1, <1>3, <1>5 DEF A, SharedAlpha

(* A value raises alpha and bestValue, or only bestValue, or neither. *)
LEMMA UpdateBounds ==
  ASSUME Types, Control, Bounds, NEW t \in Threads, Update(t)
  PROVE  /\ UNCHANGED <<node, inSplit, moves, dismissed, value, move, aborts>>
         /\ Goto(t, IF inSplit THEN "loop" ELSE "after")
         /\ alpha'[t] = A'
         /\ \A u \in Threads \ {t} : alpha'[u] = alpha[u]
         /\ \/ /\ A' = A /\ B' = B /\ UNCHANGED bestMove
               /\ value[t] <= B \/ ~TrustsValue
               /\ inSplit => UNCHANGED betaCutoff
            \/ /\ TrustsValue /\ value[t] > B /\ value[t] <= A
               /\ A' = A /\ B' = value[t] /\ UNCHANGED bestMove
               /\ inSplit => UNCHANGED betaCutoff
            \/ /\ TrustsValue /\ value[t] > B /\ value[t] > A /\ value[t] < beta
               /\ A' = value[t] /\ B' = value[t] /\ bestMove' = move[t]
               /\ inSplit => UNCHANGED betaCutoff
            \/ /\ TrustsValue /\ value[t] > B /\ value[t] >= beta
               /\ A' = A /\ B' = value[t] /\ bestMove' = move[t]
               /\ inSplit => betaCutoff'
  <1> DEFINE v == value[t]
             improves == v > B /\ TrustsValue
             raises == improves /\ v > A
             newAlpha == IF raises /\ pvNode /\ v < beta THEN v ELSE A
             newBest == IF improves THEN v ELSE B
  <1>1. inSplit \/ t = Master
    BY DEF Update, Control
  <1>2. SharedAlpha(t) = A /\ SharedBest(t) = B
    BY <1>1 DEF A, B, SharedAlpha, SharedBest
  <1>3. /\ alpha' = [alpha EXCEPT ![t] = newAlpha]
        /\ best' = [best EXCEPT ![t] = newBest]
        /\ IF inSplit
           THEN /\ spAlpha' = newAlpha
                /\ spBest' = newBest
                /\ betaCutoff' = (betaCutoff \/ (raises /\ ~(pvNode /\ v < beta)))
           ELSE UNCHANGED <<spAlpha, spBest, betaCutoff>>
        /\ bestMove' = IF raises THEN move[t] ELSE bestMove
    BY <1>2 DEF Update
  <1>4. /\ UNCHANGED <<node, inSplit, moves, dismissed, value, move, aborts>>
        /\ Goto(t, IF inSplit THEN "loop" ELSE "after")
    BY DEF Update
  <1>5. A \in Int /\ B \in Int /\ v \in Int
    BY MasterType DEF A, B, SharedAlpha, SharedBest, Types
  <1>6. /\ A' = newAlpha /\ B' = newBest
        /\ alpha'[t] = newAlpha
        /\ \A u \in Threads \ {t} : alpha'[u] = alpha[u]
    <2>1. CASE inSplit
      BY <1>3, <1>4, <2>1 DEF A, B, SharedAlpha, SharedBest, Types
    <2>2. CASE ~inSplit
      BY <1>1, <1>3, <1>4, <2>2 DEF A, B, SharedAlpha, SharedBest, Types
    <2> QED
      BY <2>1, <2>2
  <1>7. raises /\ ~pvNode => v >= beta
    BY <1>5 DEF Bounds, Types
  <1>8. betaCutoff \in BOOLEAN /\ TrustsValue \in BOOLEAN
    BY DEF Types, TrustsValue
  <1>9. CASE ~improves
    BY <1>3, <1>4, <1>5, <1>6, <1>8, <1>9
  <1>10. CASE improves /\ ~raises
    BY <1>3, <1>4, <1>5, <1>6, <1>8, <1>10
  <1>11. CASE raises /\ v < beta
    BY <1>3, <1>4, <1>5, <1>6, <1>7, <1>8, <1>11
  <1>12. CASE raises /\ v >= beta
    BY <1>3, <1>4, <1>5, <1>6, <1>8, <1>12 DEF Types
  <1> QED
    BY <1>5, <1>9, <1>10, <1>11, <1>12 DEF Types

(* A thread that searches a child has read alpha, or keeps what it read. *)
PcRead == {"reduced", "null", "pv", "update"}

LEMMA LocalAlpha ==
  ASSUME Types, Control, [Next]_vars, NEW u \in Threads, pc'[u] \in PcRead
  PROVE  \/ pc[u] \in PcRead /\ alpha'[u] = alpha[u]
         \/ alpha'[u] = A
  <1> USE MasterType DEF Types, Goto, PcRead
  <1> DEFINE Goal == \/ pc[u] \in PcRead /\ alpha'[u] = alpha[u]
                     \/ alpha'[u] = A
  <1>1. ASSUME NEW t \in Threads, StartReduced(t) \/ StartFull(t) PROVE Goal
    <2>1. SharedAlpha(t) = A
      BY <1>1 DEF StartReduced, StartFull, Control, A, SharedAlpha
    <2>2. /\ alpha' = [alpha EXCEPT ![t] = SharedAlpha(t)]
          /\ \E l \in PC : Goto(t, l)
      BY <1>1 DEF StartReduced, StartFull, ReadAlpha, PC
    <2> QED
      BY <2>1, <2>2
  <1>2. ASSUME NEW t \in Threads, NextMove(t) PROVE Goal
    <2>1. UNCHANGED alpha
      BY <1>2 DEF NextMove
    <2>2. CASE pc' = [pc EXCEPT ![t] = "pv"]
      <3>1. moves = Moves
        BY <1>2, <2>2 DEF NextMove
      <3>2. ~inSplit /\ t = Master
        BY <1>2, <3>1 DEF NextMove, Control
      <3>3. alpha[Master] = A
        BY <3>2 DEF A, SharedAlpha
      <3> QED
        BY <2>1, <2>2, <3>2, <3>3
    <2>3. CASE pc' = [pc EXCEPT ![t] = "decide"] \/ pc' = [pc EXCEPT ![t] = "end"]
      BY <2>1, <2>3
    <2> QED
      BY <1>2, <2>2, <2>3 DEF NextMove
  <1>3. ASSUME NEW t \in Threads, Enter(t) \/ NoMoreMoves(t) \/ Prune(t)
                 \/ Futile(t) \/ ReducedFailsHigh(t) \/ Leave(t)
        PROVE  Goal
    <2>1. UNCHANGED alpha
      BY <1>3 DEF Enter, NoMoreMoves, Prune, Futile, ReducedFailsHigh, Leave, locals
    <2>2. \E l \in {"loop", "end", "full", "join", "idle"} : Goto(t, l)
      BY <1>3 DEF Enter, NoMoreMoves, Prune, Futile, ReducedFailsHigh, Leave
    <2> QED
      BY <2>1, <2>2
  <1>4. ASSUME NEW t \in Threads,
               ReducedFailsLow(t) \/ NullWindow(t) \/ PvSearch(t)
        PROVE  Goal
    <2>1. UNCHANGED alpha /\ pc[t] \in PcRead
      BY <1>4 DEF ReducedFailsLow, NullWindow, PvSearch
    <2>2. \E l \in {"pv", "update"} : Goto(t, l)
      BY <1>4 DEF ReducedFailsLow, NullWindow, PvSearch
    <2> QED
      BY <2>1, <2>2
  <1>5. ASSUME NEW t \in Threads, Update(t) PROVE Goal
    <2>1. \A w \in Threads \ {t} : alpha'[w] = alpha[w]
      BY <1>5 DEF Update
    <2>2. pc' = [pc EXCEPT ![t] = IF inSplit THEN "loop" ELSE "after"]
      BY <1>5 DEF Update
    <2> QED
      BY <2>1, <2>2
  <1>6. CASE Split
    BY <1>6 DEF Split, locals
  <1>7. CASE Collect
    <2>1. /\ alpha' = [alpha EXCEPT ![Master] = spAlpha]
          /\ pc' = [pc EXCEPT ![Master] = "loop"]
      BY <1>7 DEF Collect
    <2> QED
      BY <2>1
  <1>8. CASE Continue \/ Return \/ Stop \/ AncestorCutoff \/ UNCHANGED vars
    BY <1>8 DEF Continue, Return, Stop, AncestorCutoff, vars, locals
  <1> QED
    BY <1>1, <1>2, <1>3, <1>4, <1>5, <1>6, <1>7, <1>8
    DEF Next, Step, MasterStep, Returned

LEMMA BoundTypes ==
  Types => /\ A \in Int /\ B \in Int /\ oldAlpha \in Int /\ beta \in Int
           /\ \A u \in Threads : alpha[u] \in Int /\ value[u] \in Int
           /\ betaCutoff \in BOOLEAN
  BY MasterType DEF A, B, SharedAlpha, SharedBest, Types

LEMMA BoundsStep ==
  ASSUME Types, Control, Bounds, [Next]_vars
  PROVE  Bounds'
  <1>1. /\ A \in Int /\ B \in Int /\ oldAlpha \in Int /\ beta \in Int
        /\ \A u \in Threads : alpha[u] \in Int /\ value[u] \in Int
        /\ betaCutoff \in BOOLEAN
    BY BoundTypes
  <1>2. A' \in Int /\ B' \in Int
    <2>1. Types'
      BY TypesStep
    <2> QED
      BY <2>1, MasterType DEF A, B, SharedAlpha, SharedBest, Types
  <1>3. ASSUME NEW t \in Threads, Update(t) PROVE Bounds'
    <2>1. value[t] \in Int
      BY <1>1
    <2>2. UNCHANGED <<oldAlpha, beta, inSplit>>
      BY <1>3, UpdateBounds DEF node
    <2>3. /\ oldAlpha <= A' /\ A' < beta
          /\ B' <= A' \/ B' >= beta
          /\ A' > oldAlpha => B' >= A'
          /\ A' >= A
      BY <1>1, <1>3, <2>1, UpdateBounds DEF Bounds
    <2>4. inSplit => (betaCutoff' <=> B' >= beta)
      <3> SUFFICES ASSUME inSplit PROVE betaCutoff' <=> B' >= beta
        OBVIOUS
      <3>1. betaCutoff <=> B >= beta
        BY DEF Bounds
      <3>2. TrustsValue => ~betaCutoff
        BY DEF TrustsValue, CutoffOccurred
      <3>3. \/ B' = B /\ betaCutoff' = betaCutoff
            \/ TrustsValue /\ B' <= A /\ B' > B /\ betaCutoff' = betaCutoff
            \/ TrustsValue /\ B' < beta /\ B' > B /\ betaCutoff' = betaCutoff
            \/ TrustsValue /\ B' >= beta /\ betaCutoff'
        BY <1>3, UpdateBounds
      <3> QED
        BY <1>1, <1>2, <3>1, <3>2, <3>3 DEF Bounds
    <2>5. \A u \in Threads : pc'[u] \in PcRead =>
                               oldAlpha <= alpha'[u] /\ alpha'[u] <= A'
      BY <1>1, <1>2, <2>3, LocalAlpha DEF Bounds, PcRead
    <2> QED
      BY <2>2, <2>3, <2>4, <2>5 DEF Bounds, PcRead
  <1>4. ASSUME NEW t \in Threads, Futile(t) PROVE Bounds'
    <2>1. /\ A' = A /\ (B' = B \/ (B' > B /\ B' <= oldAlpha))
          /\ UNCHANGED <<oldAlpha, beta, inSplit, betaCutoff>>
      BY <1>4, FutileBounds DEF node
    <2>2. \A u \in Threads : pc'[u] \in PcRead =>
                               oldAlpha <= alpha'[u] /\ alpha'[u] <= A
      BY <1>1, <1>2, LocalAlpha DEF Bounds, PcRead
    <2> QED
      BY <1>1, <1>2, <2>1, <2>2 DEF Bounds, PcRead
  <1>5. CASE \A t \in Threads : ~Futile(t) /\ ~Update(t)
    <2>1. /\ A' = A /\ B' = B /\ UNCHANGED <<oldAlpha, beta>>
          /\ inSplit /\ inSplit' => UNCHANGED betaCutoff
          /\ inSplit' /\ ~inSplit => betaCutoff' = FALSE /\ B < beta
      BY <1>5, SameBounds DEF node
    <2>2. \A u \in Threads : pc'[u] \in PcRead =>
                               oldAlpha <= alpha'[u] /\ alpha'[u] <= A
      BY <1>1, <1>2, LocalAlpha DEF Bounds, PcRead
    <2> QED
      BY <1>1, <1>2, <2>1, <2>2 DEF Bounds, PcRead
  <1> QED
    BY <1>3, <1>4, <1>5

-----------------------------------------------------------------------------
(* Where the value of a child comes from, for every thread at "update". *)
LEMMA NewValue ==
  ASSUME Types, Control, Bounds, [Next]_vars,
         NEW u \in Threads, pc'[u] = "update", pc[u] # "update"
  PROVE  /\ UNCHANGED <<node, move, alpha, aborts, inSplit, betaCutoff>>
         /\ \/ value'[u] <= alpha[u] /\ move[u] \in dismissed'
            \/ /\ pc[u] = "null"
               /\ value'[u] \in Outcomes(move[u], alpha[u], alpha[u] + 1)
               /\ pvNode => value'[u] <= alpha[u] \/ value'[u] >= beta
            \/ /\ pc[u] = "pv"
               /\ value'[u] \in Outcomes(move[u], alpha[u], beta)
  <1> USE DEF Types, Goto
  <1> DEFINE Goal ==
         /\ UNCHANGED <<node, move, alpha, aborts, inSplit, betaCutoff>>
         /\ \/ value'[u] <= alpha[u] /\ move[u] \in dismissed'
            \/ /\ pc[u] = "null"
               /\ value'[u] \in Outcomes(move[u], alpha[u], alpha[u] + 1)
               /\ pvNode => value'[u] <= alpha[u] \/ value'[u] >= beta
            \/ /\ pc[u] = "pv"
               /\ value'[u] \in Outcomes(move[u], alpha[u], beta)
  <1>1. ASSUME NEW t \in Threads,
               Enter(t) \/ NextMove(t) \/ NoMoreMoves(t) \/ Prune(t) \/ Futile(t)
                 \/ StartReduced(t) \/ ReducedFailsHigh(t) \/ StartFull(t)
                 \/ Update(t) \/ Leave(t)
        PROVE  FALSE
    <2>1. \E l \in PC \ {"update"} : Goto(t, l)
      BY <1>1 DEF Enter, NextMove, NoMoreMoves, Prune, Futile, StartReduced,
                  ReducedFailsHigh, StartFull, Update, Leave, PC
    <2> QED
      BY <2>1
  <1>2. ASSUME NEW t \in Threads, ReducedFailsLow(t) PROVE Goal
    <2>1. /\ t = u
          /\ UNCHANGED <<node, move, alpha, aborts, point>>
          /\ dismissed' = dismissed \cup {move[t]}
      BY <1>2 DEF ReducedFailsLow
    <2>2. value'[t] <= alpha[t]
      BY <1>2 DEF ReducedFailsLow
    <2> QED
      BY <2>1, <2>2 DEF point
  <1>3. ASSUME NEW t \in Threads, NullWindow(t) PROVE Goal
    <2>1. PICK v \in Outcomes(move[t], alpha[t], alpha[t] + 1) :
            /\ value' = [value EXCEPT ![t] = v]
            /\ Goto(t, IF pvNode /\ v > alpha[t] /\ v < beta THEN "pv" ELSE "update")
      BY <1>3 DEF NullWindow
    <2>2. t = u /\ ~(pvNode /\ v > alpha[t] /\ v < beta)
      BY <2>1
    <2>3. v \in Int /\ value'[u] = v /\ pc[u] = "null"
      <3>1. move[t] \in Moves
        BY <1>3 DEF NullWindow, Control, PcHeld
      <3> QED
        BY <1>3, <2>1, <2>2, <3>1, OutcomesType, ValuesInt DEF NullWindow
    <2>4. UNCHANGED <<node, move, alpha, aborts, point>>
      BY <1>3 DEF NullWindow
    <2> QED
      BY <2>1, <2>2, <2>3, <2>4 DEF point
  <1>4. ASSUME NEW t \in Threads, PvSearch(t) PROVE Goal
    <2>1. t = u /\ pc[t] = "pv"
      BY <1>4 DEF PvSearch
    <2>2. value'[t] \in Outcomes(move[t], alpha[t], beta)
      BY <1>4 DEF PvSearch
    <2>3. UNCHANGED <<node, move, alpha, aborts, point>>
      BY <1>4 DEF PvSearch
    <2> QED
      BY <2>1, <2>2, <2>3 DEF point
  <1>5. CASE Split
    BY <1>5 DEF Split
  <1>6. CASE Collect
    BY <1>6 DEF Collect
  <1>7. CASE Continue \/ Return
    BY <1>7 DEF Continue, Return
  <1>8. CASE Stop \/ AncestorCutoff \/ UNCHANGED vars
    BY <1>8 DEF Stop, AncestorCutoff, vars
  <1> QED
    BY <1>1, <1>2, <1>3, <1>4, <1>5, <1>6, <1>7, <1>8
    DEF Next, Step, MasterStep, Returned

(* A thread that stays at "update" keeps its move, its value and alpha;    *)
(* what aborts a search is for ever while it does.                         *)
LEMMA OldValue ==
  ASSUME Types, Control, [Next]_vars,
         NEW u \in Threads, pc'[u] = "update", pc[u] = "update"
  PROVE  /\ UNCHANGED node
         /\ value'[u] = value[u] /\ alpha'[u] = alpha[u] /\ move'[u] = move[u]
         /\ dismissed \subseteq dismissed'
         /\ Lost => Lost'
         /\ inSplit => inSplit'
         /\ inSplit /\ betaCutoff => betaCutoff'
  <1> USE DEF Types, Goto
  <1> DEFINE Goal ==
         /\ UNCHANGED node
         /\ value'[u] = value[u] /\ alpha'[u] = alpha[u] /\ move'[u] = move[u]
         /\ dismissed \subseteq dismissed'
         /\ Lost => Lost'
         /\ inSplit => inSplit'
         /\ inSplit /\ betaCutoff => betaCutoff'
  <1>1. ASSUME NEW t \in Threads, Enter(t) \/ NextMove(t) \/ NoMoreMoves(t)
                 \/ Prune(t) \/ Futile(t)
        PROVE  Goal
    <2>1. t # u
      BY <1>1 DEF Enter, NextMove, NoMoreMoves, Prune, Futile
    <2>2. /\ UNCHANGED <<node, value, alpha, aborts, inSplit, betaCutoff>>
          /\ dismissed \subseteq dismissed'
      BY <1>1 DEF Enter, NextMove, NoMoreMoves, Prune, Futile, point, locals
    <2>3. move'[u] = move[u]
      BY <1>1, <2>1 DEF Enter, NextMove, NoMoreMoves, Prune, Futile, locals
    <2> QED
      BY <2>2, <2>3 DEF Lost, aborts
  <1>2. ASSUME NEW t \in Threads, StartReduced(t) \/ ReducedFailsLow(t)
                 \/ ReducedFailsHigh(t) \/ StartFull(t) \/ NullWindow(t)
                 \/ PvSearch(t)
        PROVE  Goal
    <2>1. t # u
      BY <1>2 DEF StartReduced, ReducedFailsLow, ReducedFailsHigh, StartFull,
                  NullWindow, PvSearch
    <2>2. /\ UNCHANGED <<node, move, aborts, point>>
          /\ dismissed \subseteq dismissed'
      BY <1>2 DEF StartReduced, ReducedFailsLow, ReducedFailsHigh, StartFull,
                  NullWindow, PvSearch, locals
    <2>3. value'[u] = value[u] /\ alpha'[u] = alpha[u]
      BY <1>2, <2>1 DEF StartReduced, ReducedFailsLow, ReducedFailsHigh,
                        StartFull, NullWindow, PvSearch, ReadAlpha, locals
    <2> QED
      BY <2>2, <2>3 DEF Lost, aborts, point
  <1>3. ASSUME NEW t \in Threads, Update(t) PROVE Goal
    <2>1. t # u
      BY <1>3 DEF Update
    <2>2. /\ UNCHANGED <<node, move, value, dismissed, aborts, inSplit>>
          /\ alpha'[u] = alpha[u]
          /\ inSplit /\ betaCutoff => betaCutoff'
      BY <1>3, <2>1 DEF Update
    <2> QED
      BY <2>2 DEF Lost, aborts
  <1>4. ASSUME NEW t \in Threads, Leave(t) PROVE Goal
    BY <1>4 DEF Leave, locals, Lost, aborts
  <1>5. CASE Split
    <2>1. ~inSplit /\ u = Master /\ pc[Master] = "after"
      BY <1>5, MasterType DEF Split, Control
    <2> QED
      BY <2>1
  <1>6. CASE Collect
    <2>1. u \in isSlave
      <3>1. inSplit
        BY <1>6 DEF Collect, Control
      <3> QED
        BY <3>1 DEF Control, PcSlave, PcHeld
    <2> QED
      BY <1>6, <2>1 DEF Collect
  <1>7. CASE Continue \/ Return \/ Stop \/ AncestorCutoff \/ UNCHANGED vars
    BY <1>7 DEF Continue, Return, Stop, AncestorCutoff, vars, point, locals,
                Lost, aborts
  <1> QED
    BY <1>1, <1>2, <1>3, <1>4, <1>5, <1>6, <1>7
    DEF Next, Step, MasterStep, Returned

LEMMA ValueStep ==
  ASSUME Types, Control, Bounds, ValueOK, [Next]_vars
  PROVE  ValueOK'
  <1> DEFINE OK(u) ==
        \/ Lost \/ (inSplit /\ betaCutoff)
        \/ /\ value[u] <= alpha[u]
           /\ move[u] \in dismissed \/ val[move[u]] <= value[u]
        \/ alpha[u] < value[u] /\ value[u] < beta /\ val[move[u]] = value[u]
        \/ alpha[u] < value[u] /\ value[u] >= beta /\ val[move[u]] >= value[u]
  <1>1. ASSUME NEW u \in Threads, pc'[u] = "update", pc[u] = "update"
        PROVE  OK(u)'
    <2>1. /\ UNCHANGED <<val, beta>>
          /\ value'[u] = value[u] /\ alpha'[u] = alpha[u] /\ move'[u] = move[u]
          /\ dismissed \subseteq dismissed'
          /\ Lost => Lost'
          /\ inSplit /\ betaCutoff => inSplit' /\ betaCutoff'
      BY <1>1, OldValue DEF node
    <2>2. OK(u)
      BY <1>1 DEF ValueOK
    <2> HIDE DEF Lost
    <2> QED
      BY <2>1, <2>2
  <1>2. ASSUME NEW u \in Threads, pc'[u] = "update", pc[u] # "update"
        PROVE  OK(u)'
    <2>1. /\ UNCHANGED <<val, oldAlpha, beta, pvNode, move, alpha,
                         stopRequest, ancestorCutoff, inSplit, betaCutoff>>
          /\ \/ value'[u] <= alpha[u] /\ move[u] \in dismissed'
             \/ /\ pc[u] = "null"
                /\ value'[u] \in Outcomes(move[u], alpha[u], alpha[u] + 1)
                /\ pvNode => value'[u] <= alpha[u] \/ value'[u] >= beta
             \/ /\ pc[u] = "pv"
                /\ value'[u] \in Outcomes(move[u], alpha[u], beta)
      BY <1>2, NewValue DEF node, aborts
    <2>2. CASE Aborted
      BY <2>1, <2>2 DEF Aborted, CutoffOccurred, Lost
    <2>3. CASE ~Aborted
      <3>1. CASE value'[u] <= alpha[u] /\ move[u] \in dismissed'
        BY <2>1, <3>1
      <3> DEFINE m == move[u]
                 v == value'[u]
      <3>2. ASSUME pc[u] \in PcHeld PROVE m \in Moves /\ val[m] \in Int
        BY <3>2, ValuesInt DEF Control, Types
      <3>3. /\ alpha[u] \in Int /\ beta \in Int /\ oldAlpha \in Int
            /\ pvNode \in BOOLEAN /\ (~pvNode => oldAlpha = beta - 1)
        BY DEF Types
      <3>4. CASE /\ pc[u] = "null"
                 /\ v \in Outcomes(m, alpha[u], alpha[u] + 1)
                 /\ pvNode => v <= alpha[u] \/ v >= beta
        <4>1. val[m] \in Int /\ oldAlpha <= alpha[u]
          BY <3>2, <3>4 DEF PcHeld, Bounds
        <4>2. v \in Int
          BY <3>2, <3>4, OutcomesType, ValuesInt DEF PcHeld
        <4>3. \/ v <= alpha[u] /\ val[m] <= v
              \/ v >= alpha[u] + 1 /\ v <= val[m]
          BY <2>3, <3>3, <3>4, <4>1, <4>2 DEF Outcomes
        <4> QED
          BY <2>1, <3>3, <3>4, <4>1, <4>2, <4>3
      <3>5. CASE pc[u] = "pv" /\ v \in Outcomes(m, alpha[u], beta)
        <4>1. val[m] \in Int /\ alpha[u] < beta
          BY <3>2, <3>3, <3>5, BoundTypes DEF PcHeld, Bounds
        <4>2. v \in Int
          BY <3>2, <3>5, OutcomesType, ValuesInt DEF PcHeld
        <4>3. \/ v <= alpha[u] /\ val[m] <= v
              \/ v >= beta /\ v <= val[m]
              \/ alpha[u] < v /\ v < beta /\ v = val[m]
          BY <2>3, <3>3, <3>5, <4>1, <4>2 DEF Outcomes
        <4> QED
          BY <2>1, <3>3, <4>1, <4>2, <4>3
      <3> QED
        BY <2>1, <3>1, <3>4, <3>5
    <2> QED
      BY <2>2, <2>3
  <1> QED
    BY <1>1, <1>2 DEF ValueOK

-----------------------------------------------------------------------------
(* Growth: what is closed stays closed, dismissed moves stay dismissed. *)
LEMMA Growth ==
  ASSUME Types, Control, Bounds, [Next]_vars
  PROVE  /\ UNCHANGED node /\ B' >= B /\ B' \in Int
         /\ Lost => Lost'
         /\ Closed => Closed'
         /\ dismissed \subseteq dismissed'
  <1>1. B \in Int /\ beta \in Int /\ B' \in Int
    <2>1. Types'
      BY TypesStep
    <2> QED
      BY <2>1, BoundTypes, MasterType DEF B, SharedBest, Types
  <1>2. UNCHANGED node /\ B' >= B
    <2>1. ASSUME NEW t \in Threads, Update(t) PROVE UNCHANGED node /\ B' >= B
      BY <1>1, <2>1, UpdateBounds, BoundTypes
    <2>2. ASSUME NEW t \in Threads, Futile(t) PROVE UNCHANGED node /\ B' >= B
      BY <1>1, <2>2, FutileBounds
    <2>3. CASE \A t \in Threads : ~Futile(t) /\ ~Update(t)
      <3>1. B' = B /\ UNCHANGED <<node, bestMove>>
        BY <2>3, SameBounds
      <3> QED
        BY <1>1, <3>1
    <2> QED
      BY <2>1, <2>2, <2>3
  <1>3. (Lost => Lost') /\ dismissed \subseteq dismissed'
    <2>1. ASSUME NEW t \in Threads, Step(t)
          PROVE  UNCHANGED aborts /\ dismissed \subseteq dismissed'
      BY <2>1 DEF Step, Enter, NextMove, NoMoreMoves, Prune, Futile,
                  StartReduced, ReducedFailsLow, ReducedFailsHigh, StartFull,
                  NullWindow, PvSearch, Update, Leave
    <2>2. CASE MasterStep
      BY <2>2 DEF MasterStep, Continue, Split, Collect, Return, Lost, aborts
    <2>3. CASE Stop \/ AncestorCutoff \/ UNCHANGED vars
      BY <2>3 DEF Stop, AncestorCutoff, vars, Lost, aborts
    <2> QED
      BY <2>1, <2>2, <2>3 DEF Next, Returned, Lost, aborts
  <1> QED
    BY <1>1, <1>2, <1>3 DEF Closed, node

(* A move in hand stays in hand until it is dismissed or its value used. *)
LEMMA HeldStep ==
  ASSUME Types, Control, [Next]_vars, NEW w \in Threads, pc[w] \in PcHeld
  PROVE  \/ pc'[w] \in PcHeld /\ move'[w] = move[w]
         \/ (Prune(w) \/ Futile(w)) /\ move[w] \in dismissed'
         \/ Update(w)
  <1> USE DEF Types, Goto
  <1> DEFINE Goal == \/ pc'[w] \in PcHeld /\ move'[w] = move[w]
                     \/ (Prune(w) \/ Futile(w)) /\ move[w] \in dismissed'
                     \/ Update(w)
  <1>1. ASSUME NEW t \in Threads,
               Enter(t) \/ NextMove(t) \/ NoMoreMoves(t) \/ Leave(t)
        PROVE  Goal
    <2>1. t # w /\ pc'[w] = pc[w]
      BY <1>1 DEF Enter, NextMove, NoMoreMoves, Leave, PcHeld
    <2>2. move'[w] = move[w]
      BY <1>1, <2>1 DEF Enter, NextMove, NoMoreMoves, Leave, locals
    <2> QED
      BY <2>1, <2>2
  <1>2. ASSUME NEW t \in Threads, Prune(t) \/ Futile(t) PROVE Goal
    BY <1>2 DEF Prune, Futile, locals
  <1>3. ASSUME NEW t \in Threads, StartReduced(t) \/ ReducedFailsLow(t)
                 \/ ReducedFailsHigh(t) \/ StartFull(t) \/ NullWindow(t)
                 \/ PvSearch(t)
        PROVE  Goal
    <2>1. UNCHANGED move
      BY <1>3 DEF StartReduced, ReducedFailsLow, ReducedFailsHigh, StartFull,
                  NullWindow, PvSearch, locals
    <2>2. \E l \in PcHeld : Goto(t, l)
      BY <1>3 DEF StartReduced, ReducedFailsLow, ReducedFailsHigh, StartFull,
                  NullWindow, PvSearch, PcHeld
    <2> QED
      BY <2>1, <2>2
  <1>4. ASSUME NEW t \in Threads, Update(t) PROVE Goal
    BY <1>4 DEF Update
  <1>5. CASE Split
    <2>1. ~inSplit /\ w = Master /\ pc[Master] = "after"
      BY <1>5, MasterType DEF Split, Control, PcHeld
    <2> QED
      BY <2>1 DEF PcHeld
  <1>6. CASE Continue \/ Collect \/ Return
    <2>1. w # Master
      BY <1>6 DEF Continue, Collect, Return, PcHeld
    <2> QED
      BY <1>6, <2>1 DEF Continue, Collect, Return, locals
  <1>7. CASE Stop \/ AncestorCutoff \/ UNCHANGED vars
    BY <1>7 DEF Stop, AncestorCutoff, vars, locals
  <1> QED
    BY <1>1, <1>2, <1>3, <1>4, <1>5, <1>6, <1>7
    DEF Next, Step, MasterStep, Returned

(* A move leaves the picker into the hand of a thread, or is dropped       *)
(* because of a cutoff.                                                    *)
LEMMA PickerStep ==
  ASSUME Types, Control, Bounds, [Next]_vars, NEW m \in moves, m \notin moves'
  PROVE  Closed \/ \E t \in Threads : pc'[t] \in PcHeld /\ move'[t] = m
  <1>1. PICK t \in Threads : NextMove(t)
    BY DEF Next, Step, MasterStep, Returned, Enter, NoMoreMoves, Prune, Futile,
           StartReduced, ReducedFailsLow, ReducedFailsHigh, StartFull,
           NullWindow, PvSearch, Update, Leave, Continue, Split, Collect,
           Return, Stop, AncestorCutoff, vars
  <1>2. PICK n \in moves :
          /\ moves' = moves \ {n}
          /\ IF CutoffOccurred
             THEN Goto(t, "end") /\ UNCHANGED <<move, spLock>>
             ELSE /\ move' = [move EXCEPT ![t] = n]
                  /\ Goto(t, IF pvNode /\ moves = Moves THEN "pv" ELSE "decide")
                  /\ DropLock
    BY <1>1 DEF NextMove
  <1>3. n = m
    BY <1>2
  <1>4. CASE CutoffOccurred
    BY <1>4 DEF CutoffOccurred, Closed, Lost, Bounds
  <1>5. CASE ~CutoffOccurred
    BY <1>2, <1>3, <1>5 DEF Goto, PcHeld, Types
  <1> QED
    BY <1>4, <1>5

LEMMA AccountedStep ==
  ASSUME Types, Control, Bounds, ValueOK, Accounted, [Next]_vars
  PROVE  Accounted'
  <1>1. /\ UNCHANGED val /\ B' >= B /\ B' \in Int /\ B \in Int
        /\ Closed => Closed'
        /\ dismissed \subseteq dismissed'
    BY Growth, BoundTypes DEF node
  <1> SUFFICES ASSUME ~Closed', NEW m \in Moves
               PROVE  (m \in moves \cup dismissed \/ Held(m) \/ val[m] <= B)'
    BY DEF Accounted
  <1>2. ~Closed
    BY <1>1
  <1>3. val[m] \in Int
    BY ValuesInt DEF Types
  <1>4. CASE m \in dismissed \/ val[m] <= B
    BY <1>1, <1>3, <1>4
  <1>5. CASE m \in moves
    BY <1>2, <1>5, PickerStep DEF Held
  <1>6. ASSUME NEW w \in Threads, pc[w] \in PcHeld, move[w] = m
        PROVE  (m \in moves \cup dismissed \/ Held(m) \/ val[m] <= B)'
    <2>1. CASE ~Update(w)
      BY <1>6, <2>1, HeldStep DEF Held
    <2>2. CASE Update(w)
      <3>1. TrustsValue /\ ~Lost /\ ~(inSplit /\ betaCutoff)
        BY <1>2 DEF TrustsValue, CutoffOccurred, Closed, Lost, Bounds
      <3>2. \/ m \in dismissed
            \/ val[m] <= value[w]
            \/ value[w] >= beta
        <4>1. value[w] \in Int
          BY BoundTypes
        <4> QED
          BY <1>3, <1>6, <2>2, <3>1, <4>1 DEF ValueOK, Update
      <3>3. /\ value[w] <= B' /\ value[w] \in Int
            /\ UNCHANGED beta
        BY <1>1, <2>2, <3>1, UpdateBounds, BoundTypes DEF node
      <3>4. ~(value[w] >= beta)
        BY <1>1, <3>3, BoundTypes DEF Closed
      <3> QED
        BY <1>1, <1>3, <3>2, <3>3, <3>4
    <2> QED
      BY <2>1, <2>2
  <1> QED
    BY <1>2, <1>4, <1>5, <1>6 DEF Accounted, Held

-----------------------------------------------------------------------------
LEMMA BestStep ==
  ASSUME Types, Control, Bounds, ValueOK, BestOK, [Next]_vars
  PROVE  BestOK'
  <1>1. /\ UNCHANGED <<val, oldAlpha, beta>>
        /\ Lost => Lost'
    BY Growth DEF node
  <1>2. /\ A \in Int /\ B \in Int /\ oldAlpha \in Int /\ beta \in Int
        /\ \A u \in Threads : alpha[u] \in Int /\ value[u] \in Int
        /\ \A m \in Moves : val[m] \in Int
    BY BoundTypes, ValuesInt DEF Types
  <1>3. CASE Lost
    BY <1>1, <1>3 DEF BestOK
  <1>4. CASE B' = B /\ UNCHANGED bestMove
    BY <1>1, <1>4 DEF BestOK
  <1>5. ASSUME NEW t \in Threads, Futile(t) PROVE BestOK'
    <2>1. B' = B \/ B' <= oldAlpha
      BY <1>5, FutileBounds
    <2>2. UNCHANGED bestMove
      BY <1>5, FutileBounds
    <2> QED
      BY <1>1, <1>4, <2>1, <2>2 DEF BestOK
  <1>6. ASSUME NEW t \in Threads, Update(t), ~Lost,
               ~(B' = B /\ UNCHANGED bestMove)
        PROVE  BestOK'
    <2>1. \/ /\ TrustsValue /\ value[t] > B /\ value[t] <= A
             /\ A' = A /\ B' = value[t] /\ UNCHANGED bestMove
          \/ /\ TrustsValue /\ value[t] > A
             /\ B' = value[t] /\ bestMove' = move[t]
          \/ /\ TrustsValue /\ value[t] >= beta
             /\ B' = value[t] /\ bestMove' = move[t]
      BY <1>6, UpdateBounds
    <2>2. CASE value[t] > B /\ value[t] <= A /\ B' = value[t]
      <3>1. A = oldAlpha
        BY <1>2, <2>2 DEF Bounds
      <3> QED
        BY <1>1, <2>2, <3>1 DEF BestOK
    <2>3. CASE /\ TrustsValue /\ (value[t] > A \/ value[t] >= beta)
               /\ B' = value[t] /\ bestMove' = move[t]
      <3>1. move[t] \in Moves /\ pc[t] = "update"
        BY <1>6 DEF Update, Control, PcHeld
      <3>2. ~(inSplit /\ betaCutoff)
        BY <2>3 DEF TrustsValue, CutoffOccurred
      <3>3. alpha[t] <= A /\ A < beta
        BY <3>1 DEF Bounds
      <3>4. \/ value[t] < beta /\ val[move[t]] = value[t]
            \/ value[t] >= beta /\ val[move[t]] >= value[t]
        BY <1>2, <1>6, <2>3, <3>1, <3>2, <3>3 DEF ValueOK
      <3> QED
        BY <1>1, <1>2, <2>3, <3>1, <3>4 DEF BestOK
    <2> QED
      BY <2>1, <2>2, <2>3
  <1>7. CASE \A t \in Threads : ~Futile(t) /\ ~Update(t)
    BY <1>4, <1>7, SameBounds
  <1> QED
    BY <1>3, <1>4, <1>5, <1>6, <1>7

LEMMA EndStep ==
  ASSUME Types, Control, Bounds, EndOK, [Next]_vars
  PROVE  EndOK'
  <1> SUFFICES ASSUME pc'[Master] = "end", ~inSplit'
               PROVE  Closed' \/ moves' = {}
    BY DEF EndOK
  <1> USE MasterType DEF Goto, Types
  <1>1. Closed => Closed'
    BY Growth
  <1>2. CASE pc[Master] = "end"
    <2>1. ~inSplit
      BY <1>2 DEF Next, Step, MasterStep, Returned, Enter, NextMove, NoMoreMoves,
           Prune, Futile, StartReduced, ReducedFailsLow, ReducedFailsHigh,
           StartFull, NullWindow, PvSearch, Update, Leave, Continue, Split,
           Collect, Return, Stop, AncestorCutoff, vars, point
    <2>2. moves = {} => moves' = {}
      BY DEF Next, Step, MasterStep, Returned, Enter, NextMove, NoMoreMoves,
           Prune, Futile, StartReduced, ReducedFailsLow, ReducedFailsHigh,
           StartFull, NullWindow, PvSearch, Update, Leave, Continue, Split,
           Collect, Return, Stop, AncestorCutoff, vars
    <2> QED
      BY <1>1, <1>2, <2>1, <2>2 DEF EndOK
  <1>3. CASE pc[Master] # "end"
    <2>1. NextMove(Master) \/ NoMoreMoves(Master)
      <3>1. ASSUME NEW t \in Threads, Step(t), t # Master PROVE FALSE
        <4>1. \E l \in PC : Goto(t, l)
          BY <3>1 DEF Step, Enter, NextMove, NoMoreMoves, Prune, Futile,
               StartReduced, ReducedFailsLow, ReducedFailsHigh, StartFull,
               NullWindow, PvSearch, Update, Leave, PC
        <4> QED
          BY <1>3, <3>1, <4>1
      <3>2. ASSUME Step(Master), ~NextMove(Master), ~NoMoreMoves(Master)
            PROVE  FALSE
        <4>1. \E l \in PC \ {"end"} : Goto(Master, l)
          BY <3>2 DEF Step, Enter, Prune, Futile, StartReduced, ReducedFailsLow,
               ReducedFailsHigh, StartFull, NullWindow, PvSearch, Update, Leave, PC
        <4> QED
          BY <4>1
      <3>3. CASE MasterStep
        BY <3>3 DEF MasterStep, Continue, Split, Collect, Return
      <3>4. CASE Stop \/ AncestorCutoff \/ UNCHANGED vars
        BY <1>3, <3>4 DEF Stop, AncestorCutoff, vars
      <3> QED
        BY <3>1, <3>2, <3>3, <3>4 DEF Next, Returned
    <2>2. ~inSplit /\ SharedBest(Master) = best[Master]
      BY <2>1 DEF NextMove, NoMoreMoves, point, SharedBest
    <2>3. CASE NoMoreMoves(Master)
      BY <1>1, <2>2, <2>3 DEF NoMoreMoves, Closed, B
    <2>4. CASE NextMove(Master)
      <3>1. CutoffOccurred
        <4>1. ~CutoffOccurred => \E l \in PC \ {"end"} : Goto(Master, l)
          BY <2>4 DEF NextMove, PC
        <4> QED
          BY <4>1
      <3> QED
        BY <1>1, <2>2, <3>1 DEF CutoffOccurred, Closed, Lost
    <2> QED
      BY <2>1, <2>3, <2>4
  <1> QED
    BY <1>2, <1>3

(* Only Return stores an entry. *)
LEMMA EntryStep ==
  ASSUME Types, Control, Bounds, Accounted, BestOK, EndOK, EntryOK, StoredSound,
         [Next]_vars
  PROVE  EntryOK' /\ StoredSound'
  <1> USE MasterType DEF Types, Goto
  <1>1. UNCHANGED node /\ dismissed \subseteq dismissed'
    BY Growth
  <1>2. CASE Return
    <2>1. /\ pc'[Master] = "returned" /\ pc[Master] = "end" /\ ~inSplit
          /\ UNCHANGED <<dismissed, bestMove>>
          /\ entry' = IF MayStore THEN Result(best[Master]) ELSE entry
      BY <1>2 DEF Return
    <2>2. EntryOK'
      BY <2>1 DEF EntryOK
    <2>3. CASE ~MayStore
      BY <1>1, <2>1, <2>2, <2>3 DEF StoredSound, Unbeaten, node
    <2>4. CASE MayStore
      <3>1. B = best[Master] /\ ~Lost
        BY <2>1, <2>4 DEF B, SharedBest, MayStore, Aborted, CutoffOccurred, Lost
      <3>2. B \in Int /\ oldAlpha \in Int /\ beta \in Int /\ oldAlpha < beta
            /\ \A m \in Moves : val[m] \in Int
        BY BoundTypes, ValuesInt
      <3>3. B < beta => Unbeaten(B)
        <4> SUFFICES ASSUME B < beta, NEW m \in Moves \ dismissed
                     PROVE  val[m] <= B
          BY DEF Unbeaten
        <4>1. ~Closed /\ moves = {}
          BY <2>1, <3>1, <3>2 DEF Closed, EndOK
        <4>2. ~Held(m)
          BY <2>1 DEF Held, Control, PcHeld
        <4> QED
          BY <4>1, <4>2 DEF Accounted
      <3>4. B > oldAlpha => /\ bestMove \in Moves /\ val[bestMove] >= B
                            /\ B < beta => val[bestMove] = B
        BY <3>1, <3>2 DEF BestOK
      <3>5. /\ entry'.type = IF B <= oldAlpha THEN "upper"
                             ELSE IF B >= beta THEN "lower" ELSE "exact"
            /\ entry'.value = B
            /\ entry'.move = IF B <= oldAlpha THEN NoMove ELSE bestMove
        BY <2>1, <2>4, <3>1 DEF Result
      <3>6. StoredSound'
        BY <1>1, <2>1, <3>2, <3>3, <3>4, <3>5 DEF StoredSound, Unbeaten, node
      <3> QED
        BY <2>2, <3>6
    <2> QED
      BY <2>3, <2>4
  <1>3. CASE ~Return
    <2>1. UNCHANGED entry
      BY <1>3 DEF Next, Step, MasterStep, Returned, Enter, NextMove,
           NoMoreMoves, Prune, Futile, StartReduced, ReducedFailsLow,
           ReducedFailsHigh, StartFull, NullWindow, PvSearch, Update, Leave,
           Continue, Split, Collect, Stop, AncestorCutoff, vars
    <2>2. pc[Master] = "returned" => pc'[Master] = "returned"
      BY DEF Next, Step, MasterStep, Returned, Enter, NextMove,
           NoMoreMoves, Prune, Futile, StartReduced, ReducedFailsLow,
           ReducedFailsHigh, StartFull, NullWindow, PvSearch, Update, Leave,
           Continue, Split, Collect, Return, Stop, AncestorCutoff, vars, Control
    <2>3. EntryOK'
      BY <2>1, <2>2 DEF EntryOK
    <2>4. StoredSound'
      BY <1>1, <2>1 DEF StoredSound, Unbeaten, node
    <2> QED
      BY <2>3, <2>4
  <1> QED
    BY <1>2, <1>3

-----------------------------------------------------------------------------
LEMMA InitInv == Init => IInv
  <1> SUFFICES ASSUME Init PROVE IInv
    OBVIOUS
  <1> USE MasterType, ValuesInt, MovesAssumption DEF Init
  <1>1. -Infinite \in Int /\ \A v \in Values : -Infinite < v
    BY ValuesAssumption
  <1>2. Types
    <2>1. /\ pc \in [Threads -> PC]
          /\ move \in [Threads -> Moves \cup {NoMove}]
      BY DEF PC
    <2>2. oldAlpha \in Int /\ beta \in Int
      OBVIOUS
    <2>3. /\ alpha \in [Threads -> Int]
          /\ value \in [Threads -> Int]
      BY <2>2
    <2>4. best \in [Threads -> Int]
      <3>1. best = [t \in Threads |-> IF t = Master THEN -Infinite ELSE 0]
        OBVIOUS
      <3> QED
        BY ONLY <1>1, <3>1
    <2> QED
      BY <2>1, <2>2, <2>3, <2>4 DEF Types
  <1>3. Control
    BY DEF Control, PcHeld, PcSlave
  <1>4. A = oldAlpha /\ B = -Infinite /\ pc[Master] = "loop"
    BY DEF A, B, SharedAlpha, SharedBest
  <1>5. Bounds
    BY <1>1, <1>4 DEF Bounds
  <1>6. ValueOK /\ EndOK /\ EntryOK
    BY <1>4 DEF ValueOK, EndOK, EntryOK
  <1>7. Accounted /\ BestOK
    BY <1>1, <1>4 DEF Accounted, BestOK
  <1>8. StoredSound
    BY DEF StoredSound, NoEntry
  <1> QED
    BY <1>2, <1>3, <1>5, <1>6, <1>7, <1>8 DEF IInv

LEMMA InductiveInv == IInv /\ [Next]_vars => IInv'
  <1> SUFFICES ASSUME IInv, [Next]_vars PROVE IInv'
    OBVIOUS
  <1> USE DEF IInv
  <1>1. Types' /\ Control'
    BY TypesStep, ControlStep
  <1>2. Bounds' /\ ValueOK' /\ Accounted'
    BY BoundsStep, ValueStep, AccountedStep
  <1>3. BestOK' /\ EndOK'
    BY BestStep, EndStep
  <1>4. EntryOK' /\ StoredSound'
    BY EntryStep
  <1> QED
    BY <1>1, <1>2, <1>3, <1>4

LEMMA AlwaysInv == Spec => []IInv
  BY InitInv, InductiveInv, PTL DEF Spec

(* What step 20 of search() stores in the transposition table is true of   *)
(* the node, for any number of threads that shared it and any interleaving *)
(* of their reads of alpha, cutoffs and a stop.                            *)
THEOREM NodeSound == Spec => []StoredSound
  <1>1. IInv => StoredSound
    BY DEF IInv
  <1> QED
    BY <1>1, AlwaysInv, PTL

(* The window of a split point is in order while threads search in it, and *)
(* is_betaCutoff is set exactly when bestValue has reached beta.           *)
THEOREM NodeWindow == Spec => []Window
  <1>1. IInv => Window
    <2> SUFFICES ASSUME IInv, inSplit PROVE Window
      BY DEF Window
    <2>1. A = spAlpha /\ B = spBest
      BY DEF A, B, SharedAlpha, SharedBest
    <2>2. A \in Int /\ B \in Int /\ beta \in Int
      BY BoundTypes DEF IInv
    <2> QED
      BY <2>1, <2>2 DEF IInv, Bounds, Window
  <1> QED
    BY <1>1, AlwaysInv, PTL

(* alpha and bestValue of a split point only grow, and its cutoff is for   *)
(* ever: what a thread read without the lock is still a bound.             *)
THEOREM NodeBoundsGrow == Spec => SharedBoundsGrow
  <1> DEFINE Grow ==
        inSplit /\ inSplit' => /\ spAlpha' >= spAlpha /\ spBest' >= spBest
                               /\ betaCutoff => betaCutoff'
  <1>1. IInv /\ [Next]_vars => [Grow]_vars
    <2> SUFFICES ASSUME IInv, [Next]_vars, inSplit, inSplit' PROVE Grow
      OBVIOUS
    <2>1. A = spAlpha /\ B = spBest /\ A' = spAlpha' /\ B' = spBest'
      BY DEF A, B, SharedAlpha, SharedBest
    <2>2. A \in Int /\ B \in Int /\ UNCHANGED beta /\ beta \in Int /\ B' >= B
          /\ B' \in Int
      BY Growth, BoundTypes DEF IInv, node
    <2>3. A' >= A
      <3>1. ASSUME NEW t \in Threads, Update(t) PROVE A' >= A
        BY <2>2, <3>1, UpdateBounds, BoundTypes DEF IInv
      <3>2. ASSUME NEW t \in Threads, Futile(t) PROVE A' >= A
        BY <2>2, <3>2, FutileBounds DEF IInv
      <3>3. CASE \A t \in Threads : ~Futile(t) /\ ~Update(t)
        BY <2>2, <3>3, SameBounds DEF IInv
      <3> QED
        BY <3>1, <3>2, <3>3
    <2>4. betaCutoff => betaCutoff'
      <3>1. (betaCutoff <=> B >= beta) /\ (betaCutoff' <=> B' >= beta')
        BY InductiveInv DEF IInv, Bounds
      <3> QED
        BY <2>2, <3>1
    <2> QED
      BY <2>1, <2>2, <2>3, <2>4
  <1> QED
    BY <1>1, AlwaysInv, PTL DEF Spec, SharedBoundsGrow
-----------------------------------------------------------------------------
(***************************************************************************)
(* Types.  That the value step 20 stores is a value of the search, and not *)
(* the -VALUE_INFINITE bestValue starts with, needs the whole invariant:   *)
(* while bestValue is that, no move has been dealt with, so the loop       *)
(* cannot have ended but for a cutoff elsewhere or a stop.                 *)
(***************************************************************************)
OtherTypes ==
  /\ bestMove \in Moves \cup {NoMove}
  /\ dismissed \in SUBSET Moves
  /\ spLock \in Threads \cup {NoThread}
  /\ stopRequest \in BOOLEAN /\ ancestorCutoff \in BOOLEAN
  /\ beta \in Values

Scored == B \in Values \cup {-Infinite}
ValueScored == \A t \in Threads : pc[t] = "update" => value[t] \in Values
LocalScored == \A t \in Threads : pc[t] \notin {"idle", "enter"} =>
                 best[t] = -Infinite \/ B \in Values
Undone == Closed \/ B \in Values \/ \A m \in Moves : m \in moves \/ Held(m)

TInv == OtherTypes /\ Scored /\ ValueScored /\ LocalScored /\ Undone
        /\ entry \in Entries

LEMMA ValuesRange ==
  /\ Infinite \in Int /\ MatedInMax \in Int /\ -Infinite < MatedInMax
  /\ \A v \in Values : v \in Int /\ -Infinite < v
  BY ValuesAssumption

LEMMA OtherTypesStep ==
  ASSUME IInv, OtherTypes, [Next]_vars
  PROVE  OtherTypes'
  <1> USE MasterType DEF IInv, OtherTypes
  <1>1. UNCHANGED beta
    BY Growth DEF node
  <1>2. ASSUME NEW t \in Threads, Step(t) PROVE OtherTypes'
    <2>1. UNCHANGED aborts
      BY <1>2 DEF Step, Enter, NextMove, NoMoreMoves, Prune, Futile, StartReduced,
         ReducedFailsLow, ReducedFailsHigh, StartFull, NullWindow, PvSearch, Update, Leave
    <2>2. spLock' \in Threads \cup {NoThread}
      BY <1>2 DEF Step, Enter, NextMove, NoMoreMoves, Prune, Futile, StartReduced,
         ReducedFailsLow, ReducedFailsHigh, StartFull, NullWindow, PvSearch, Update,
         Leave, TakeLock, DropLock, point
    <2>3. pc[t] \in PcHeld => move[t] \in Moves
      BY DEF Control
    <2>4. dismissed' = dismissed \/ (pc[t] \in PcHeld /\ dismissed' = dismissed \cup {move[t]})
      BY <1>2 DEF Step, Enter, NextMove, NoMoreMoves, Prune, Futile, StartReduced,
         ReducedFailsLow, ReducedFailsHigh, StartFull, NullWindow, PvSearch, Update,
         Leave, PcHeld
    <2>5. bestMove' = bestMove \/ (pc[t] \in PcHeld /\ bestMove' = move[t])
      BY <1>2 DEF Step, Enter, NextMove, NoMoreMoves, Prune, Futile, StartReduced,
         ReducedFailsLow, ReducedFailsHigh, StartFull, NullWindow, PvSearch, Update,
         Leave, PcHeld
    <2> QED
      BY <1>1, <2>1, <2>2, <2>3, <2>4, <2>5 DEF aborts
  <1>3. CASE MasterStep
    BY <1>1, <1>3 DEF MasterStep, Continue, Split, Collect, Return, point, aborts
  <1>4. CASE Stop \/ AncestorCutoff \/ UNCHANGED vars
    BY <1>1, <1>4 DEF Stop, AncestorCutoff, vars, point, aborts
  <1> QED
    BY <1>2, <1>3, <1>4 DEF Next, Returned

(* bestValue becomes a value of a move or of the futility test. *)
LEMMA ScoreStep ==
  ASSUME IInv, ValueScored, [Next]_vars
  PROVE  B' = B \/ B' \in Values
  <1> USE DEF IInv
  <1>1. ASSUME NEW t \in Threads, Update(t) PROVE B' = B \/ B' \in Values
    <2>1. value[t] \in Values
      BY <1>1 DEF Update, ValueScored
    <2>2. B' = B \/ B' = value[t]
      BY <1>1, UpdateBounds
    <2> QED
      BY <2>1, <2>2
  <1>2. ASSUME NEW t \in Threads, Futile(t) PROVE B' = B \/ B' \in Values
    BY <1>2, FutileBounds
  <1>3. CASE \A t \in Threads : ~Futile(t) /\ ~Update(t)
    BY <1>3, SameBounds
  <1> QED
    BY <1>1, <1>2, <1>3

LEMMA ValueScoredStep ==
  ASSUME IInv, ValueScored, [Next]_vars
  PROVE  ValueScored'
  <1> USE MasterType DEF IInv, Types, Goto
  <1> SUFFICES ASSUME NEW u \in Threads, pc'[u] = "update" PROVE value'[u] \in Values
    BY DEF ValueScored
  <1>1. ASSUME NEW t \in Threads, ReducedFailsLow(t) PROVE value'[u] \in Values
    BY <1>1 DEF ReducedFailsLow, ValueScored
  <1>2. ASSUME NEW t \in Threads, NullWindow(t) PROVE value'[u] \in Values
    <2>1. move[t] \in Moves
      BY <1>2 DEF NullWindow, Control, PcHeld
    <2>2. PICK v \in Outcomes(move[t], alpha[t], alpha[t] + 1) :
            /\ value' = [value EXCEPT ![t] = v]
            /\ Goto(t, IF pvNode /\ v > alpha[t] /\ v < beta THEN "pv" ELSE "update")
      BY <1>2 DEF NullWindow
    <2>3. v \in Values
      BY <2>1, OutcomesType
    <2> QED
      BY <2>2, <2>3 DEF ValueScored
  <1>3. ASSUME NEW t \in Threads, PvSearch(t) PROVE value'[u] \in Values
    <2>1. move[t] \in Moves
      BY <1>3 DEF PvSearch, Control, PcHeld
    <2>2. PICK v \in Outcomes(move[t], alpha[t], beta) :
            value' = [value EXCEPT ![t] = v] /\ Goto(t, "update")
      BY <1>3 DEF PvSearch
    <2>3. v \in Values
      BY <2>1, OutcomesType
    <2> QED
      BY <2>2, <2>3 DEF ValueScored
  <1>4. ASSUME NEW t \in Threads,
               Step(t), ~ReducedFailsLow(t), ~NullWindow(t), ~PvSearch(t)
        PROVE  value'[u] \in Values
    <2>1. value' = value
      BY <1>4 DEF Step, Enter, NextMove, NoMoreMoves, Prune, Futile, StartReduced,
         ReducedFailsHigh, StartFull, Update, Leave, locals
    <2>2. \E l \in PC \ {"update"} : Goto(t, l)
      BY <1>4 DEF Step, Enter, NextMove, NoMoreMoves, Prune, Futile, StartReduced,
         ReducedFailsHigh, StartFull, Update, Leave, PC
    <2> QED
      BY <2>1, <2>2 DEF ValueScored
  <1>5. CASE MasterStep
    BY <1>5 DEF MasterStep, Continue, Split, Collect, Return, locals, ValueScored
  <1>6. CASE Stop \/ AncestorCutoff \/ UNCHANGED vars
    BY <1>6 DEF Stop, AncestorCutoff, vars, locals, ValueScored
  <1> QED
    BY <1>1, <1>2, <1>3, <1>4, <1>5, <1>6 DEF Next, Returned

(* What a thread holds as bestValue it had of the node. *)
LEMMA LocalScoredStep ==
  ASSUME IInv, Scored, ValueScored, LocalScored, [Next]_vars
  PROVE  LocalScored'
  <1> USE MasterType DEF IInv, Types, Goto
  <1> SUFFICES ASSUME NEW u \in Threads, pc'[u] \notin {"idle", "enter"}
               PROVE  best'[u] = -Infinite \/ B' \in Values
    BY DEF LocalScored
  <1>1. B' = B \/ B' \in Values
    BY ScoreStep
  <1> DEFINE Goal == \/ pc[u] \notin {"idle", "enter"} /\ best'[u] = best[u]
                     \/ best'[u] = B'
  <1>2. ASSUME NEW t \in Threads, Enter(t) PROVE Goal
    <2>1. inSplit /\ inSplit' = inSplit /\ spBest' = spBest
      BY <1>2 DEF Enter, Control
    <2> QED
      BY <1>2, <2>1 DEF Enter, B, SharedBest
  <1>3. ASSUME NEW t \in Threads, Futile(t) PROVE Goal
    <2>1. (inSplit \/ t = Master) /\ inSplit' = inSplit
      BY <1>3 DEF Futile, Control
    <2>2. CASE best' = best
      BY <1>3, <2>2 DEF Futile
    <2>3. CASE best' # best
      <3>1. PICK v \in Values : best' = [best EXCEPT ![t] = v]
                                /\ spBest' = IF inSplit THEN v ELSE spBest
        BY <1>3, <2>3 DEF Futile
      <3>2. B' = v
        BY <2>1, <3>1 DEF B, SharedBest
      <3> QED
        BY <1>3, <3>1, <3>2 DEF Futile
    <2> QED
      BY <2>2, <2>3
  <1>4. ASSUME NEW t \in Threads, Update(t) PROVE Goal
    <2>1. (inSplit \/ t = Master) /\ inSplit' = inSplit
      BY <1>4 DEF Update, Control
    <2>2. PICK b : best' = [best EXCEPT ![t] = b] /\ (inSplit => spBest' = b)
      BY <1>4 DEF Update
    <2>3. B' = b
      BY <2>1, <2>2 DEF B, SharedBest
    <2> QED
      BY <1>4, <2>2, <2>3 DEF Update
  <1>5. ASSUME NEW t \in Threads, Step(t), ~Enter(t), ~Futile(t), ~Update(t)
        PROVE  Goal
    <2>1. best' = best
      BY <1>5 DEF Step, NextMove, NoMoreMoves, Prune, StartReduced, ReducedFailsLow,
         ReducedFailsHigh, StartFull, NullWindow, PvSearch, Leave, locals
    <2>2. pc[t] \notin {"idle", "enter"} /\ \E l \in PC : Goto(t, l)
      BY <1>5 DEF Step, NextMove, NoMoreMoves, Prune, StartReduced, ReducedFailsLow,
         ReducedFailsHigh, StartFull, NullWindow, PvSearch, Leave, PC
    <2> QED
      BY <2>1, <2>2
  <1>6. ASSUME Collect PROVE Goal
    BY <1>6 DEF Collect, B, SharedBest
  <1>7. ASSUME Continue \/ Split \/ Return PROVE Goal
    BY <1>7 DEF Continue, Split, Return, locals
  <1>8. ASSUME Stop \/ AncestorCutoff \/ UNCHANGED vars PROVE Goal
    BY <1>8 DEF Stop, AncestorCutoff, vars, locals
  <1>9. Goal
    BY <1>2, <1>3, <1>4, <1>5, <1>6, <1>7, <1>8 DEF Next, MasterStep, Returned
  <1> QED
    BY <1>1, <1>9 DEF LocalScored, Scored

LEMMA UndoneStep ==
  ASSUME IInv, TInv, [Next]_vars
  PROVE  Undone'
  <1> USE DEF IInv, TInv
  <1> SUFFICES ASSUME ~Closed', B' \notin Values, NEW m \in Moves
               PROVE  (m \in moves \/ Held(m))'
    BY DEF Undone
  <1>1. ~Closed /\ B' = B /\ B = -Infinite
    BY Growth, ScoreStep DEF Scored
  <1>2. CASE m \in moves
    BY <1>1, <1>2, PickerStep DEF Held
  <1>3. ASSUME NEW w \in Threads, pc[w] \in PcHeld, move[w] = m
        PROVE  (m \in moves \/ Held(m))'
    <2>1. ~Prune(w)
      <3>1. best[w] = -Infinite
        BY <1>1, <1>3 DEF LocalScored, PcHeld
      <3> QED
        BY <3>1, ValuesRange DEF Prune
    <2>2. ~Futile(w)
      <3>1. Futile(w) => B' \in Values \/ \E v \in Values : v <= B
        BY FutileBounds
      <3> QED
        BY <1>1, <3>1, ValuesRange
    <2>3. ~Update(w)
      <3> SUFFICES ASSUME Update(w) PROVE FALSE
        OBVIOUS
      <3>1. value[w] \in Values /\ ~(value[w] <= B)
        BY <1>1, ValuesRange DEF Update, ValueScored
      <3>2. TrustsValue
        BY <1>1 DEF TrustsValue, CutoffOccurred, Closed, Lost, Bounds
      <3>3. B' = value[w]
        BY <3>1, <3>2, UpdateBounds
      <3> QED
        BY <3>1, <3>3
    <2> QED
      BY <1>3, <2>1, <2>2, <2>3, HeldStep DEF Held
  <1> QED
    BY <1>1, <1>2, <1>3 DEF Undone, Held

LEMMA EntryTyped ==
  ASSUME IInv, TInv, [Next]_vars
  PROVE  entry' \in Entries
  <1> USE MasterType DEF IInv, TInv
  <1>1. CASE ~Return
    BY <1>1 DEF Next, Step, MasterStep, Returned, Enter, NextMove,
       NoMoreMoves, Prune, Futile, StartReduced, ReducedFailsLow,
       ReducedFailsHigh, StartFull, NullWindow, PvSearch, Update, Leave,
       Continue, Split, Collect, Stop, AncestorCutoff, vars
  <1>2. CASE Return
    <2>1. /\ pc[Master] = "end" /\ ~inSplit
          /\ entry' = IF MayStore THEN Result(best[Master]) ELSE entry
      BY <1>2 DEF Return
    <2>2. CASE MayStore
      <3>1. B = best[Master] /\ ~Lost
        BY <2>1, <2>2 DEF B, SharedBest, MayStore, Aborted, CutoffOccurred, Lost
      <3>2. B \in Values
        <4> SUFFICES ASSUME B \notin Values PROVE FALSE
          OBVIOUS
        <4>1. B = -Infinite
          BY DEF Scored
        <4>2. ~Closed
          BY <3>1, <4>1, ValuesRange DEF Closed, OtherTypes
        <4>3. moves = {}
          BY <2>1, <4>2 DEF EndOK
        <4>4. PICK m \in Moves : TRUE
          BY MovesAssumption
        <4>5. Held(m)
          BY <4>2, <4>3 DEF Undone
        <4> QED
          BY <2>1, <4>5 DEF Held, Control, PcHeld
      <3>3. Result(B) \in Entries
        BY <3>2 DEF Result, Entries, OtherTypes
      <3> QED
        BY <2>1, <2>2, <3>1, <3>3
    <2>3. CASE ~MayStore
      BY <2>1, <2>3
    <2> QED
      BY <2>2, <2>3
  <1> QED
    BY <1>1, <1>2

LEMMA InitTyped == Init => TInv
  <1> SUFFICES ASSUME Init PROVE TInv
    OBVIOUS
  <1> USE MasterType DEF Init
  <1>1. OtherTypes
    BY DEF OtherTypes
  <1>2. B = -Infinite /\ best[Master] = -Infinite /\ \A t \in Threads \ {Master} : pc[t] = "idle"
    BY DEF B, SharedBest
  <1>3. Scored /\ ValueScored /\ LocalScored /\ Undone
    BY <1>2 DEF Scored, ValueScored, LocalScored, Undone
  <1>4. entry \in Entries
    BY DEF NoEntry, Entries
  <1> QED
    BY <1>1, <1>3, <1>4 DEF TInv

(* Type correctness of the node: above all, the value it stores in the     *)
(* transposition table is a value of the search (step 20 of search()).     *)
THEOREM NodeTyped == Spec => []TypeOK
  <1>1. IInv /\ TInv /\ [Next]_vars => TInv'
    <2> SUFFICES ASSUME IInv, TInv, [Next]_vars PROVE TInv'
      OBVIOUS
    <2>1. Scored'
      BY ScoreStep DEF TInv, Scored
    <2> QED
      BY <2>1, OtherTypesStep, ValueScoredStep, LocalScoredStep, UndoneStep,
         EntryTyped DEF TInv
  <1>2. IInv /\ TInv => TypeOK
    BY DEF IInv, TInv, Types, OtherTypes, TypeOK
  <1> QED
    BY <1>1, <1>2, InitTyped, AlwaysInv, PTL DEF Spec
=============================================================================
