-------------------------- MODULE RootSearchProofs --------------------------
(* Theorems about RootSearch, for any moves, scores, deltas and depths. *)
EXTENDS RootSearch, FiniteSetTheorems, SequenceTheorems, WellFoundedInduction, TLAPS

\* What the window's invariant needs to know of the other variables.
Typed ==
  /\ ponder \in BOOLEAN /\ stop \in BOOLEAN /\ stopOnPonderhit \in BOOLEAN
  /\ depth \in 0 .. MaxDepth
  /\ best \in [1 .. MaxDepth -> Values \cup {Unset}]
  /\ alpha \in Int /\ beta \in Int /\ delta \in Nat
  /\ pc \in {"head", "move", "judge", "done"}
  /\ bestValue \in Values
  /\ pc \in {"move", "judge"} => depth >= 1

IInv == Typed /\ WindowOK /\ HistoryWritten /\ StopNotPondering

LEMMA Params ==
  /\ INF \in Nat /\ INF > MateIn2 /\ MateIn2 > MateInMax /\ MateInMax > KnownWin
  /\ KnownWin \in Nat /\ KnownWin > 0 /\ MateIn2 \in Nat /\ MateInMax \in Nat
  /\ MinDelta \in Nat /\ MinDelta > 0 /\ MaxDelta \in Nat /\ MaxDelta >= MinDelta
  /\ Grain \in Nat /\ Grain > 0 /\ RetreatWidening \in Nat
  /\ MaxDepth \in Nat /\ MaxDepth > 0 /\ WindowDepth \in Nat /\ WindowDepth >= 4
BY RootAssumption

LEMMA AbsNat == \A x \in Int : Abs(x) \in Nat /\ (x < 0 => Abs(x) = -x) /\ (x >= 0 => Abs(x) = x)
BY DEF Abs

\* A width of at least one grain is not rounded to nothing.
LEMMA Rounding ==
  ASSUME NEW w \in Nat, w > 0
  PROVE  /\ ((w + Grain - 1) \div Grain) * Grain \in Nat
         /\ ((w + Grain - 1) \div Grain) * Grain > 0
<1>1. Grain \in Nat /\ Grain > 0
  BY Params
<1>2. PICK q \in Nat : q = (w + Grain - 1) \div Grain
  BY <1>1, SMT
<1>3. q >= 1
  BY <1>1, <1>2, SMT
<1>4. q * Grain \in Nat /\ q * Grain > 0
  BY <1>1, <1>3, SMT
<1> QED
  BY <1>2, <1>4

LEMMA ScoreInRange ==
  ASSUME NEW v \in Scores PROVE v \in Values /\ v <= MateIn2
BY RootAssumption, Params DEF Values

\* The new window of iteration d is a proper one.
LEMMA NewWindow ==
  ASSUME NEW d \in Nat, d >= 1, d <= MaxDepth,
         best \in [1 .. MaxDepth -> Values \cup {Unset}], Windowed(d)
  PROVE  /\ HalfWidth(d) \in Nat /\ HalfWidth(d) > 0
         /\ best[d - 1] \in Int /\ -KnownWin < best[d - 1] /\ best[d - 1] < KnownWin
<1>1. d - 1 \in 1 .. MaxDepth /\ d - 2 \in 1 .. MaxDepth /\ d - 3 \in 1 .. MaxDepth
  BY Params DEF Windowed
<1>2. best[d - 1] \in Int /\ best[d - 2] \in Int /\ best[d - 3] \in Int
  BY <1>1, Params DEF Values, Unset
<1>3. -KnownWin < best[d - 1] /\ best[d - 1] < KnownWin
  BY SMTT(30), <1>2, Params, AbsNat DEF Windowed
<1>4. Abs(best[d - 1] - best[d - 2]) \in Nat /\ Abs(best[d - 2] - best[d - 3]) \in Nat
  <2>1. best[d - 1] - best[d - 2] \in Int /\ best[d - 2] - best[d - 3] \in Int
    BY <1>2
  <2> QED
    BY <2>1, AbsNat
<1> DEFINE c == Abs(best[d - 1] - best[d - 2]) + Abs(best[d - 2] - best[d - 3]) \div 2
           w == Lesser(Greater(c, MinDelta), MaxDelta)
<1>5. c \in Int
  BY <1>4
<1>6. w \in Nat /\ w > 0
  <2> HIDE DEF c
  <2> QED
    BY <1>5, Params DEF Lesser, Greater
<1>7. HalfWidth(d) = ((w + Grain - 1) \div Grain) * Grain
  BY DEF HalfWidth
<1> QED
  <2> HIDE DEF w
  <2> QED
    BY <1>2, <1>3, <1>6, <1>7, Rounding

-----------------------------------------------------------------------------
LEMMA IInvInit == Init => IInv
<1> SUFFICES ASSUME Init PROVE IInv
  OBVIOUS
<1> USE Params
<1>1. Typed
  <2>1. bestValue = -INF /\ depth = 0 /\ pc = "head" /\ alpha = -INF /\ beta = INF /\ delta = 0
        /\ ponder \in BOOLEAN /\ stop = FALSE /\ stopOnPonderhit = FALSE /\ best = [d \in 1 .. MaxDepth |-> Unset]
    BY DEF Init, Outside
  <2>2. best \in [1 .. MaxDepth -> Values \cup {Unset}]
    BY <2>1
  <2>3. bestValue \in Values /\ alpha \in Int /\ beta \in Int /\ depth \in 0 .. MaxDepth
    BY <2>1 DEF Values
  <2> QED
    BY <2>1, <2>2, <2>3 DEF Typed
<1>2. WindowOK
  BY DEF Init, WindowOK
<1>3. HistoryWritten /\ StopNotPondering
  BY DEF Init, HistoryWritten, StopNotPondering
<1> QED
  BY <1>1, <1>2, <1>3 DEF IInv

\* Steps that leave the window, the history and the iteration alone.
LEMMA Quiet ==
  ASSUME IInv, depth' = depth, best' = best, alpha' = alpha, beta' = beta, delta' = delta,
         ponder' \in BOOLEAN, stop' \in BOOLEAN, stopOnPonderhit' \in BOOLEAN, stop' => ~ponder',
         pc = "move", pc' \in {"move", "judge"}, bestValue' \in Values
  PROVE  IInv'
<1>1. Typed'
  BY DEF IInv, Typed
<1>2. WindowOK' /\ StopNotPondering'
  BY DEF IInv, WindowOK, StopNotPondering
<1>3. HistoryWritten'
  BY DEF IInv, HistoryWritten
<1> QED
  BY <1>1, <1>2, <1>3 DEF IInv

LEMMA StepSearchMove == IInv /\ SearchMove => IInv'
<1> SUFFICES ASSUME IInv, SearchMove PROVE IInv'
  OBVIOUS
<1>1. PICK v \in Scores : bestValue' = Greater(bestValue, v) /\ pc' \in {"move", "judge"}
  BY DEF SearchMove
<1>2. bestValue' \in Values
  BY <1>1, ScoreInRange DEF IInv, Typed, Greater
<1>3. pc = "move" /\ ~stop
  BY DEF SearchMove
<1>4. UNCHANGED <<request, depth, best, window>>
  BY DEF SearchMove
<1>5. ponder' = ponder /\ stop' = stop /\ stopOnPonderhit' = stopOnPonderhit /\ depth' = depth /\ best' = best
      /\ alpha' = alpha /\ beta' = beta /\ delta' = delta
  BY <1>4 DEF request, window
<1>6. ponder \in BOOLEAN /\ stop \in BOOLEAN /\ stopOnPonderhit \in BOOLEAN
  BY DEF IInv, Typed
<1> QED
  BY <1>1, <1>2, <1>3, <1>5, <1>6, Quiet

LEMMA StepAbortMove == IInv /\ AbortMove => IInv'
<1> SUFFICES ASSUME IInv, AbortMove PROVE IInv'
  OBVIOUS
<1>1. PICK v \in Scores : bestValue' = Greater(bestValue, v)
  BY DEF AbortMove
<1>2. bestValue' \in Values
  BY <1>1, ScoreInRange DEF IInv, Typed, Greater
<1>3. pc = "move" /\ pc' = "judge" /\ UNCHANGED <<request, depth, best, window>>
  BY DEF AbortMove
<1>4. ponder' = ponder /\ stop' = stop /\ stopOnPonderhit' = stopOnPonderhit /\ depth' = depth /\ best' = best
      /\ alpha' = alpha /\ beta' = beta /\ delta' = delta
  BY <1>3 DEF request, window
<1>5. ponder \in BOOLEAN /\ stop \in BOOLEAN /\ stopOnPonderhit \in BOOLEAN /\ (stop => ~ponder)
  BY DEF IInv, Typed, StopNotPondering
<1> QED
  BY <1>2, <1>3, <1>4, <1>5, Quiet

LEMMA StepPoll == IInv /\ Poll => IInv'
<1> SUFFICES ASSUME IInv, Poll PROVE IInv'
  OBVIOUS
<1>1. pc = "move" /\ pc' = pc /\ UNCHANGED <<depth, best, window, node>>
  BY DEF Poll, PollStop, PollPonderhit, PollTime
<1>2. depth' = depth /\ best' = best /\ alpha' = alpha /\ beta' = beta /\ delta' = delta
      /\ bestValue' = bestValue /\ bestValue' \in Values
  BY <1>1 DEF window, node, IInv, Typed
<1>3. ponder \in BOOLEAN /\ stop \in BOOLEAN /\ stopOnPonderhit \in BOOLEAN
  BY DEF IInv, Typed
<1>4. ponder' = FALSE /\ stop' \in BOOLEAN /\ stopOnPonderhit' \in BOOLEAN
  BY <1>3 DEF Poll, PollStop, PollPonderhit, PollTime
<1> QED
  BY <1>1, <1>2, <1>4, Quiet

LEMMA StepFinish == IInv /\ Finish => IInv'
<1> SUFFICES ASSUME IInv, Finish PROVE IInv'
  OBVIOUS
<1>1. pc = "head" /\ pc' = "done" /\ UNCHANGED <<request, depth, best, window, node>>
  BY DEF Finish
<1>2. depth' = depth /\ best' = best /\ alpha' = alpha /\ beta' = beta /\ delta' = delta
      /\ bestValue' = bestValue /\ ponder' = ponder /\ stop' = stop
      /\ stopOnPonderhit' = stopOnPonderhit
  BY <1>1 DEF window, node, request
<1>3. Typed' /\ WindowOK' /\ StopNotPondering'
  BY <1>1, <1>2 DEF IInv, Typed, WindowOK, StopNotPondering
<1>4. HistoryWritten'
  BY <1>1, <1>2 DEF IInv, HistoryWritten
<1> QED
  BY <1>3, <1>4 DEF IInv

-----------------------------------------------------------------------------
(* The steps that end a search of the root *)

\* The end of an iteration records its value and may stop, but not while pondering.
LEMMA EndOfIteration ==
  ASSUME IInv, pc = "judge", NEW hit \in BOOLEAN, EndIteration(hit),
         alpha' \in Int, beta' \in Int, delta' \in Nat, WindowOK'
  PROVE  IInv'
<1>1. /\ pc' = "head" /\ depth' = depth /\ ponder' = ponder
      /\ best' = [best EXCEPT ![depth] = bestValue] /\ bestValue' = -INF
  BY DEF EndIteration, RecordValue, Outside
<1>2. PICK early \in BOOLEAN :
        /\ early => ~stop
        /\ stop' = (stop \/ MateStop \/ (early /\ ~ponder))
        /\ stopOnPonderhit' = (hit \/ (early /\ ponder))
  BY DEF EndIteration
<1>3. stop' \in BOOLEAN /\ stopOnPonderhit' \in BOOLEAN
  BY <1>2
<1>4. stop' => ~ponder'
  BY <1>1, <1>2 DEF MateStop, IInv, StopNotPondering
<1>5. depth \in 1 .. MaxDepth /\ bestValue \in Values /\ best \in [1 .. MaxDepth -> Values \cup {Unset}]
      /\ ponder \in BOOLEAN
  BY DEF IInv, Typed
<1>6. best' \in [1 .. MaxDepth -> Values \cup {Unset}]
  BY <1>1, <1>5
<1>7. -INF \in Values /\ bestValue # Unset
  BY <1>5, Params DEF Values, Unset
<1>8. Typed'
  BY <1>1, <1>3, <1>5, <1>6, <1>7 DEF Typed
<1>9. HistoryWritten'
  <2> SUFFICES ASSUME NEW d \in 1 .. depth PROVE best'[d] # Unset
    BY <1>1 DEF HistoryWritten
  <2>1. CASE d = depth
    BY <2>1, <1>1, <1>5, <1>7
  <2>2. CASE d # depth
    BY <2>2, <1>1, <1>5 DEF IInv, HistoryWritten
  <2> QED
    BY <2>1, <2>2
<1> QED
  BY <1>4, <1>8, <1>9 DEF IInv, StopNotPondering

\* A search that is repeated starts with the bounds it is given.
LEMMA SearchAgain ==
  ASSUME IInv, pc = "judge", ~stop, NEW a \in Values, NEW b \in Int, NEW hit \in BOOLEAN,
         Widen(a, b, hit), WindowOK'
  PROVE  IInv'
<1>1. alpha' = a /\ beta' = b /\ delta' = delta + delta \div 2
  BY DEF Widen
<1>2. alpha' \in Int /\ beta' \in Int /\ delta' \in Nat
  BY <1>1 DEF IInv, Typed, Values
<1>3. CASE ~(Abs(bestValue) < KnownWin)
  <2>1. EndIteration(hit)
    BY <1>3 DEF Widen
  <2> QED
    BY <2>1, <1>2, EndOfIteration
<1>4. CASE Abs(bestValue) < KnownWin
  <2>1. StartSearch(a, pvScore) /\ stopOnPonderhit' = hit
        /\ ponder' = ponder /\ stop' = stop /\ depth' = depth /\ best' = best
    BY <1>4 DEF Widen
  <2>2. pc' = "move" /\ bestValue' = a
    BY <2>1 DEF StartSearch
  <2>3. Typed'
    BY <1>2, <2>1, <2>2 DEF IInv, Typed
  <2>4. HistoryWritten' /\ StopNotPondering'
    BY <2>1, <2>2 DEF IInv, HistoryWritten, StopNotPondering
  <2> QED
    BY <2>3, <2>4 DEF IInv
<1> QED
  BY <1>3, <1>4

LEMMA Halves == \A n \in Nat : n + n \div 2 \in Nat /\ (n + n \div 2 = 0 => n = 0)
OBVIOUS

LEMMA StepFailHigh == IInv /\ FailHigh => IInv'
<1> SUFFICES ASSUME IInv, FailHigh PROVE IInv'
  OBVIOUS
<1> DEFINE b == Lesser(beta + delta, INF)
<1>1. pc = "judge" /\ ~stop /\ Widen(alpha, b, stopOnPonderhit)
  BY DEF FailHigh
<1>2. alpha \in Values /\ beta \in Int /\ delta \in Nat /\ stopOnPonderhit \in BOOLEAN
  BY Params DEF IInv, Typed, WindowOK, Values
<1>3. b \in Int /\ beta <= b /\ b <= INF
  BY <1>2, Params DEF Lesser, IInv, WindowOK
<1>4. WindowOK'
  <2>1. alpha' = alpha /\ beta' = b /\ delta' = delta + delta \div 2
    BY <1>1 DEF Widen
  <2>2. delta' = 0 => delta = 0
    BY <1>2, <2>1, Halves
  <2> HIDE DEF b
  <2> QED
    BY <1>2, <1>3, <2>1, <2>2, Params DEF IInv, WindowOK, Values
<1> QED
  <2> HIDE DEF b
  <2> QED
    BY <1>1, <1>2, <1>3, <1>4, SearchAgain

LEMMA StepFailLow == IInv /\ FailLow => IInv'
<1> SUFFICES ASSUME IInv, FailLow PROVE IInv'
  OBVIOUS
<1> DEFINE a == Greater(alpha - delta, -INF)
<1>1. pc = "judge" /\ ~stop /\ Widen(a, beta, FALSE)
  BY DEF FailLow
<1>2. alpha \in Int /\ beta \in Int /\ delta \in Nat /\ alpha < beta /\ beta <= INF /\ -INF <= alpha
  BY DEF IInv, Typed, WindowOK
<1>3. a \in Int /\ a <= alpha /\ -INF <= a
  BY <1>2, Params DEF Greater
<1>4. WindowOK'
  <2>1. alpha' = a /\ beta' = beta /\ delta' = delta + delta \div 2
    BY <1>1 DEF Widen
  <2>2. delta' = 0 => delta = 0
    BY <1>2, <2>1, Halves
  <2> HIDE DEF a
  <2> QED
    BY <1>2, <1>3, <2>1, <2>2, Params DEF IInv, WindowOK
<1>5. a \in Values
  <2> HIDE DEF a
  <2> QED
    BY <1>2, <1>3, Params DEF Values
<1> QED
  <2> HIDE DEF a
  <2> QED
    BY <1>1, <1>2, <1>4, <1>5, SearchAgain

LEMMA StepSettle == IInv /\ Settle => IInv'
<1> SUFFICES ASSUME IInv, Settle PROVE IInv'
  OBVIOUS
<1>1. pc = "judge" /\ EndIteration(stopOnPonderhit) /\ UNCHANGED window
  BY DEF Settle
<1>2. stopOnPonderhit \in BOOLEAN /\ alpha' \in Int /\ beta' \in Int /\ delta' \in Nat /\ WindowOK'
  BY <1>1 DEF window, IInv, Typed, WindowOK
<1> QED
  BY <1>1, <1>2, EndOfIteration

-----------------------------------------------------------------------------
(* The head of the loop *)

\* The bounds iteration d starts with, before a retreat widens them.
LEMMA FirstWindow ==
  ASSUME IInv, pc = "head", NEW d \in Nat, d = depth + 1, d <= MaxDepth
  PROVE  /\ FirstDelta(d) \in Nat /\ FirstAlpha(d) \in Int /\ FirstBeta(d) \in Int
         /\ -INF <= FirstAlpha(d) /\ FirstAlpha(d) < FirstBeta(d) /\ FirstBeta(d) <= INF
         /\ FirstDelta(d) = 0 => FirstAlpha(d) = -INF /\ FirstBeta(d) = INF
<1>1. CASE Windowed(d)
  <2>1. /\ HalfWidth(d) \in Nat /\ HalfWidth(d) > 0
        /\ best[d - 1] \in Int /\ -KnownWin < best[d - 1] /\ best[d - 1] < KnownWin
    BY <1>1, NewWindow DEF IInv, Typed
  <2>2. /\ FirstDelta(d) = HalfWidth(d)
        /\ FirstAlpha(d) = Greater(best[d - 1] - HalfWidth(d), -INF)
        /\ FirstBeta(d) = Lesser(best[d - 1] + HalfWidth(d), INF)
    BY <1>1 DEF FirstDelta, FirstAlpha, FirstBeta
  <2>3. -INF < best[d - 1] /\ best[d - 1] < INF
    BY <2>1, Params
  <2> QED
    BY <2>1, <2>2, <2>3, Params DEF Greater, Lesser
<1>2. CASE ~Windowed(d)
  <2>1. FirstDelta(d) = delta /\ FirstAlpha(d) = alpha /\ FirstBeta(d) = beta
    BY <1>2 DEF FirstDelta, FirstAlpha, FirstBeta
  <2> QED
    BY <2>1 DEF IInv, Typed, WindowOK
<1> QED
  BY <1>1, <1>2

LEMMA Retreated ==
  ASSUME NEW w \in Nat, NEW a \in Int, NEW b \in Int, -INF <= a, a < b, b <= INF
  PROVE  /\ Greater(a - RetreatWidening * w, -INF) \in Int
         /\ Lesser(b + RetreatWidening * w, INF) \in Int
         /\ -INF <= Greater(a - RetreatWidening * w, -INF)
         /\ Greater(a - RetreatWidening * w, -INF) <= a
         /\ b <= Lesser(b + RetreatWidening * w, INF)
         /\ Lesser(b + RetreatWidening * w, INF) <= INF
<1>1. PICK r \in Nat : r = RetreatWidening * w
  BY Params
<1> QED
  BY <1>1, Params DEF Greater, Lesser

LEMMA StepNextIteration == IInv /\ NextIteration => IInv'
<1> SUFFICES ASSUME IInv, NextIteration PROVE IInv'
  OBVIOUS
<1> DEFINE d == depth + 1
           w == FirstDelta(d)
<1>1. /\ pc = "head" /\ ~stop /\ depth < MaxDepth
      /\ best' = best /\ ponder' = ponder /\ stop' = stop /\ stopOnPonderhit' = stopOnPonderhit
  BY DEF NextIteration, request
<1>2. PICK retreat \in BOOLEAN :
        /\ depth' = IF retreat THEN d - Lesser(4, d \div 2) ELSE d
        /\ delta' = w
        /\ alpha' = IF retreat THEN Greater(FirstAlpha(d) - RetreatWidening * w, -INF)
                               ELSE FirstAlpha(d)
        /\ beta' = IF retreat THEN Lesser(FirstBeta(d) + RetreatWidening * w, INF)
                              ELSE FirstBeta(d)
        /\ \E pv : StartSearch(alpha', pv)
  BY DEF NextIteration
<1>3. depth \in Nat /\ depth <= MaxDepth /\ d \in Nat /\ d <= MaxDepth /\ d >= 1
  BY <1>1, Params DEF IInv, Typed
<1>4. /\ w \in Nat /\ FirstAlpha(d) \in Int /\ FirstBeta(d) \in Int
      /\ -INF <= FirstAlpha(d) /\ FirstAlpha(d) < FirstBeta(d) /\ FirstBeta(d) <= INF
      /\ w = 0 => FirstAlpha(d) = -INF /\ FirstBeta(d) = INF
  BY <1>1, <1>3, FirstWindow
<1>5. pc' = "move" /\ bestValue' = alpha'
  BY <1>2 DEF StartSearch
<1>6. depth' \in 1 .. d
  BY <1>2, <1>3 DEF Lesser
<1> HIDE DEF d, w
<1>7. /\ alpha' \in Int /\ beta' \in Int /\ -INF <= alpha' /\ beta' <= INF
      /\ alpha' <= FirstAlpha(d) /\ FirstBeta(d) <= beta'
  <2>1. CASE retreat
    BY <2>1, <1>2, <1>4, Retreated
  <2>2. CASE ~retreat
    BY <2>2, <1>2, <1>4
  <2> QED
    BY <2>1, <2>2
<1>8. WindowOK'
  BY <1>2, <1>4, <1>7, Params DEF WindowOK
<1>9. Typed'
  <2>1. bestValue' \in Values
    BY <1>5, <1>7, <1>8, Params DEF Values, WindowOK
  <2>2. delta' \in Nat /\ depth' \in 0 .. MaxDepth /\ depth' >= 1
    BY <1>2, <1>3, <1>4, <1>6, Params
  <2> QED
    BY <1>1, <1>5, <1>7, <2>1, <2>2 DEF IInv, Typed
<1>10. HistoryWritten'
  <2> SUFFICES ASSUME NEW e \in 1 .. depth', best[e] = Unset PROVE e = depth'
    BY <1>1, <1>5 DEF HistoryWritten
  <2>1. ~(e \in 1 .. depth)
    BY <1>1 DEF IInv, HistoryWritten
  <2>2. d = depth + 1
    BY DEF d
  <2> QED
    BY <2>1, <2>2, <1>3, <1>6
<1> QED
  BY <1>1, <1>8, <1>9, <1>10 DEF IInv, StopNotPondering

\* The mate test of the first iteration touches neither window nor history.
LEMMA StepRootMate == IInv /\ RootMate => IInv'
<1> SUFFICES ASSUME IInv, RootMate PROVE IInv'
  OBVIOUS
<1>1. /\ pc' = "judge" /\ depth = 0 /\ depth' = 1
      /\ UNCHANGED <<ponder, stop, stopOnPonderhit, best, alpha, beta, delta>>
  BY DEF RootMate, request, window
<1>2. bestValue' \in Values
  BY RootAssumption, Params DEF RootMate, Values
<1>3. Typed'
  BY <1>1, <1>2, Params DEF IInv, Typed
<1>4. WindowOK' /\ StopNotPondering'
  BY <1>1 DEF IInv, WindowOK, StopNotPondering
<1>5. HistoryWritten'
  BY <1>1 DEF HistoryWritten
<1> QED
  BY <1>3, <1>4, <1>5 DEF IInv

LEMMA Unchanged == IInv /\ UNCHANGED vars => IInv'
<1> SUFFICES ASSUME IInv, UNCHANGED vars PROVE IInv'
  OBVIOUS
<1>1. UNCHANGED <<ponder, stop, stopOnPonderhit, depth, best, alpha, beta, delta, pc, bestValue>>
  BY DEF vars, request, window, node
<1> QED
  BY <1>1 DEF IInv, Typed, WindowOK, HistoryWritten, StopNotPondering

-----------------------------------------------------------------------------
THEOREM RootInvariant == Spec => []IInv
<1>1. IInv /\ [Next]_vars => IInv'
  BY StepNextIteration, StepRootMate, StepSearchMove, StepAbortMove, StepFailHigh, StepFailLow, StepSettle,
     StepFinish, StepPoll, Unchanged DEF Next, Think
<1> QED
  BY <1>1, IInvInit, PTL DEF Spec

\* The window is proper whatever the scores: alpha is below beta, both within the
\* infinite values, and a half width of zero goes with the full window only.
THEOREM WindowIsProper == Spec => []WindowOK
BY RootInvariant, PTL DEF IInv

\* Every element of bestValues[] an iteration may read has been written.
THEOREM HistoryIsWritten == Spec => []HistoryWritten
BY RootInvariant, PTL DEF IInv

\* No decision of the engine stops a search that ponders.
THEOREM StopEndsPondering == Spec => []StopNotPondering
BY RootInvariant, PTL DEF IInv

\* A search of the root is repeated with a strictly wider window only.
THEOREM ResearchIsWider == Spec => WindowWidens
<1> DEFINE Wider == pc = "judge" /\ pc' = "move" =>
                      /\ alpha' <= alpha /\ beta <= beta'
                      /\ alpha' < alpha \/ beta < beta'
<1>1. IInv /\ [Next]_vars => [Wider]_vars
  <2> SUFFICES ASSUME IInv, Next, pc = "judge", pc' = "move" PROVE Wider
    OBVIOUS
  <2>1. FailHigh \/ FailLow
    BY DEF Next, Think, Poll, NextIteration, RootMate, SearchMove, AbortMove, Settle, EndIteration, Finish,
           PollStop, PollPonderhit, PollTime
  <2>2. alpha \in Int /\ beta \in Int /\ delta \in Nat /\ bestValue \in Int
        /\ -INF <= alpha /\ beta <= INF /\ (delta = 0 => alpha = -INF /\ beta = INF)
    BY Params DEF IInv, Typed, WindowOK, Values
  <2>3. Abs(bestValue) < KnownWin
    BY <2>1 DEF FailHigh, FailLow, Widen, EndIteration
  <2>4. -INF < bestValue /\ bestValue < INF
    BY <2>2, <2>3, AbsNat, Params
  <2>5. CASE FailHigh
    <3>1. bestValue >= beta /\ alpha' = alpha /\ beta' = Lesser(beta + delta, INF)
      BY <2>5 DEF FailHigh, Widen
    <3>2. beta' \in Int /\ beta' > beta
      BY <3>1, <2>2, <2>4, Params DEF Lesser
    <3> QED
      BY <3>1, <3>2, <2>2
  <2>6. CASE FailLow
    <3>1. bestValue <= alpha /\ beta' = beta /\ alpha' = Greater(alpha - delta, -INF)
      BY <2>6 DEF FailLow, Widen
    <3>2. alpha' \in Int /\ alpha' < alpha
      BY <3>1, <2>2, <2>4, Params DEF Greater
    <3> QED
      BY <3>1, <3>2, <2>2
  <2> QED
    BY <2>1, <2>5, <2>6
<1> QED
  BY <1>1, RootInvariant, PTL DEF Spec, WindowWidens
LEMMA LeastNat ==
  ASSUME NEW T, T \subseteq Nat, T # {}
  PROVE  \E x \in T : \A y \in T : x <= y
<1>1. IsWellFoundedOn(OpToRel(<, Nat), Nat)
  BY NatLessThanWellFounded
<1>2. PICK x \in T : \A y \in T : <<y, x>> \notin OpToRel(<, Nat)
  BY <1>1, WFMin
<1>3. \A y \in T : ~(y < x)
  BY <1>2 DEF OpToRel
<1> QED
  BY <1>3

-----------------------------------------------------------------------------
(* The sorted list *)

\* s lists n members of S, none twice, from the better to the worse.
Enumerates(s, n, S, pv, npv) ==
  /\ s \in [1 .. n -> S]
  /\ \A i, j \in 1 .. n : s[i] = s[j] => i = j
  /\ \A i, j \in 1 .. n : i < j => ~Better(pv, npv, s[j], s[i])

\* operator<() is a total preorder of the moves.
LEMMA Preorder ==
  ASSUME NEW pv \in [Moves -> Int], NEW npv \in [Moves -> Int],
         NEW a \in Moves, NEW b \in Moves, NEW c \in Moves
  PROVE  /\ ~Better(pv, npv, c, b) /\ ~Better(pv, npv, b, a) => ~Better(pv, npv, c, a)
         /\ Better(pv, npv, a, b) => ~Better(pv, npv, b, a)
         /\ ~Better(pv, npv, b, a) => pv[b] <= pv[a]
<1>1. pv[a] \in Int /\ pv[b] \in Int /\ pv[c] \in Int /\ npv[a] \in Int /\ npv[b] \in Int /\ npv[c] \in Int
  OBVIOUS
<1> QED
  BY <1>1 DEF Better

\* A move is inserted before the first one that is not better.
LEMMA Insert ==
  ASSUME NEW pv \in [Moves -> Int], NEW npv \in [Moves -> Int],
         NEW S \in SUBSET Moves, NEW x \in S, NEW n \in Nat, NEW t,
         Enumerates(t, n, S \ {x}, pv, npv)
  PROVE  \E s : Enumerates(s, n + 1, S, pv, npv)
<1> DEFINE T == {i \in 1 .. n + 1 : i = n + 1 \/ ~Better(pv, npv, t[i], x)}
<1>1. PICK k \in T : \A i \in T : k <= i
  <2>1. T \subseteq Nat /\ n + 1 \in T
    OBVIOUS
  <2> QED
    BY <2>1, LeastNat
<1>2. k \in 1 .. n + 1 /\ (k <= n => ~Better(pv, npv, t[k], x))
  BY <1>1
<1>3. \A i \in 1 .. n : i < k => Better(pv, npv, t[i], x)
  BY <1>1, <1>2
<1>4. \A i \in 1 .. n : t[i] \in S /\ t[i] # x /\ t[i] \in Moves
  BY DEF Enumerates
<1>5. x \in Moves
  OBVIOUS
<1>6. \A i, j \in 1 .. n : i < j => ~Better(pv, npv, t[j], t[i])
  BY DEF Enumerates
<1>7. \A j \in 1 .. n : j >= k => ~Better(pv, npv, t[j], x)
  <2> SUFFICES ASSUME NEW j \in 1 .. n, j >= k PROVE ~Better(pv, npv, t[j], x)
    OBVIOUS
  <2>1. k \in 1 .. n /\ ~Better(pv, npv, t[k], x)
    BY <1>2
  <2>2. j = k \/ ~Better(pv, npv, t[j], t[k])
    BY <2>1, <1>6
  <2> QED
    BY <2>1, <2>2, <1>4, <1>5, Preorder
<1> DEFINE s == [j \in 1 .. n + 1 |-> IF j < k THEN t[j] ELSE IF j = k THEN x ELSE t[j - 1]]
<1>8. \A j \in 1 .. n + 1 : /\ j < k => j \in 1 .. n /\ s[j] = t[j]
                            /\ j = k => s[j] = x
                            /\ j > k => j - 1 \in 1 .. n /\ s[j] = t[j - 1]
  BY <1>2
<1> HIDE DEF s, T
<1>9. s \in [1 .. n + 1 -> S]
  <2>1. \A j \in 1 .. n + 1 : s[j] \in S
    BY <1>2, <1>4, <1>8
  <2> QED
    BY <2>1 DEF s
<1>10. ASSUME NEW i \in 1 .. n + 1, NEW j \in 1 .. n + 1, i < j
       PROVE  s[i] # s[j] /\ ~Better(pv, npv, s[j], s[i])
  <2> \A a, b \in 1 .. n : t[a] = t[b] => a = b
    BY DEF Enumerates
  <2>1. CASE j < k
    BY <2>1, <1>2, <1>6, <1>8, <1>10
  <2>2. CASE j = k
    <3>1. s[j] = x /\ i \in 1 .. n /\ s[i] = t[i] /\ Better(pv, npv, t[i], x)
      BY <2>2, <1>2, <1>3, <1>8, <1>10
    <3> QED
      BY <3>1, <1>4, <1>5, Preorder
  <2>3. CASE j > k /\ i = k
    <3>1. s[i] = x /\ j - 1 \in 1 .. n /\ s[j] = t[j - 1] /\ j - 1 >= k
      BY <2>3, <1>2, <1>8, <1>10
    <3> QED
      BY <3>1, <1>4, <1>7
  <2>4. CASE i > k
    <3>1. /\ i - 1 \in 1 .. n /\ s[i] = t[i - 1]
          /\ j - 1 \in 1 .. n /\ s[j] = t[j - 1] /\ i - 1 < j - 1
      BY <2>4, <1>2, <1>8, <1>10
    <3> QED
      BY <3>1, <1>6
  <2>5. CASE j > k /\ i < k
    <3>1. i \in 1 .. n /\ s[i] = t[i] /\ j - 1 \in 1 .. n /\ s[j] = t[j - 1] /\ i < j - 1
      BY <2>5, <1>2, <1>8, <1>10
    <3> QED
      BY <3>1, <1>6
  <2> QED
    BY <2>1, <2>2, <2>3, <2>4, <2>5, <1>2
<1>11. \A i, j \in 1 .. n + 1 : s[i] = s[j] => i = j
  <2> SUFFICES ASSUME NEW i \in 1 .. n + 1, NEW j \in 1 .. n + 1, i # j PROVE s[i] # s[j]
    OBVIOUS
  <2> i < j \/ j < i
    OBVIOUS
  <2> QED
    BY <1>10
<1> QED
  BY <1>9, <1>10, <1>11 DEF Enumerates

\* Every set of moves can be sorted: else a smallest one that cannot would be a
\* smaller one with a move inserted.
LEMMA CanBeSorted ==
  ASSUME NEW pv \in [Moves -> Int], NEW npv \in [Moves -> Int], NEW S \in SUBSET Moves
  PROVE  \E s : Enumerates(s, Cardinality(S), S, pv, npv)
<1> DEFINE Bad(U) == ~ \E s : Enumerates(s, Cardinality(U), U, pv, npv)
           B == {n \in Nat : \E U \in SUBSET Moves : Cardinality(U) = n /\ Bad(U)}
<1>1. \A U \in SUBSET Moves : IsFiniteSet(U) /\ Cardinality(U) \in Nat
  BY RootAssumption, FS_Subset, FS_CardinalityType
<1> SUFFICES ASSUME Bad(S) PROVE FALSE
  OBVIOUS
<1>2. Cardinality(S) \in B
  BY <1>1
<1>3. PICK n \in B : \A m \in B : n <= m
  <2> B \subseteq Nat /\ B # {}
    BY <1>2
  <2> QED
    BY LeastNat
<1>4. PICK U \in SUBSET Moves : Cardinality(U) = n /\ Bad(U)
  BY <1>3
<1>5. CASE U = {}
  <2>1. n = 0
    BY <1>4, <1>5, FS_EmptySet
  <2>2. Enumerates([i \in 1 .. 0 |-> {}], 0, {}, pv, npv)
    BY DEF Enumerates
  <2> QED
    BY <1>4, <1>5, <2>1, <2>2
<1>6. CASE U # {}
  <2>1. PICK x \in U : TRUE
    BY <1>6
  <2>2. PICK m \in Nat : Cardinality(U \ {x}) = m /\ n = m + 1
    <3>1. U \ {x} \in SUBSET Moves
      OBVIOUS
    <3>2. Cardinality(U \ {x}) = n - 1
      BY <1>1, <1>4, <2>1, FS_RemoveElement
    <3> QED
      BY <3>1, <3>2, <1>1, <1>3
  <2>3. ~Bad(U \ {x})
    <3>1. m \notin B
      BY <1>3, <2>2
    <3> QED
      BY <3>1, <2>2
  <2>4. PICK t : Enumerates(t, m, U \ {x}, pv, npv)
    BY <2>2, <2>3
  <2> QED
    BY <1>4, <2>1, <2>2, <2>4, Insert
<1> QED
  BY <1>5, <1>6

\* What sort_multipv(n) makes of the list o: the same moves in the first n places,
\* the best of them at the head, and every other move where it was.
FrontSorted(p, o, n, pv) ==
  /\ p \in [1 .. N -> Moves] /\ IsInjective(p)
  /\ \A i \in n + 1 .. N : p[i] = o[i]
  /\ \A i \in 1 .. n : \E j \in 1 .. n : p[i] = o[j]
  /\ \A i \in 1 .. n : \E j \in 1 .. n : o[i] = p[j]
  /\ \A i \in 1 .. n : pv[p[i]] <= pv[p[1]]

LEMMA SortedPrefix ==
  ASSUME NEW pv \in [Moves -> Int], NEW npv \in [Moves -> Int],
         NEW o \in [1 .. N -> Moves], IsInjective(o), NEW n \in 1 .. N
  PROVE  FrontSorted(SortPrefix(o, n, pv, npv), o, n, pv)
<1> DEFINE S == {o[i] : i \in 1 .. n}
           f == [i \in 1 .. n |-> o[i]]
           s == Sorted(S, pv, npv)
           p == SortPrefix(o, n, pv, npv)
<1>1. N \in Nat
  BY RootAssumption, FS_CardinalityType DEF N
<1>2. S \in SUBSET Moves
  BY <1>1
<1>3. Cardinality(S) = n
  <2>1. f \in Bijection(1 .. n, S)
    BY <1>1 DEF Bijection, Injection, Surjection, IsInjective
  <2>2. IsFiniteSet(1 .. n) /\ Cardinality(1 .. n) = n
    BY <1>1, FS_Interval
  <2> QED
    BY <2>1, <2>2, FS_Bijection DEF ExistsBijection
<1>4. Enumerates(s, n, S, pv, npv)
  <2>1. PICK t : Enumerates(t, n, S, pv, npv)
    BY <1>2, <1>3, CanBeSorted
  <2> DEFINE P(e) == IsInjective(e) /\ \A i, j \in DOMAIN e : i < j => ~Better(pv, npv, e[j], e[i])
  <2>2. \A e \in [1 .. n -> S] : P(e) <=> Enumerates(e, n, S, pv, npv)
    BY DEF Enumerates, IsInjective
  <2>3. s = CHOOSE e \in [1 .. n -> S] : P(e)
    BY <1>3 DEF Sorted
  <2>4. t \in [1 .. n -> S] /\ P(t)
    BY <2>1, <2>2 DEF Enumerates
  <2> HIDE DEF P, s, S
  <2>5. s \in [1 .. n -> S] /\ P(s)
    BY <2>3, <2>4
  <2> QED
    BY <2>2, <2>5
<1>5. p = s \o SubSeq(o, n + 1, Len(o))
  BY DEF SortPrefix
<1> HIDE DEF s, p
<1>6. \A i \in 1 .. n : s[i] \in S /\ s[i] \in Moves
  BY <1>2, <1>4 DEF Enumerates
<1>7. s \in Seq(Moves) /\ Len(s) = n
  <2>1. s \in [1 .. n -> Moves]
    BY <1>2, <1>4 DEF Enumerates
  <2>2. n \in Nat
    BY <1>1
  <2> QED
    BY <2>1, <2>2
<1>8. o \in Seq(Moves) /\ Len(o) = N
  BY <1>1
<1>9. /\ SubSeq(o, n + 1, N) \in Seq(Moves) /\ Len(SubSeq(o, n + 1, N)) = N - n
      /\ \A i \in 1 .. N - n : SubSeq(o, n + 1, N)[i] = o[n + i]
  BY <1>1, <1>8
<1>10. /\ p \in Seq(Moves) /\ Len(p) = N
       /\ \A i \in 1 .. N : p[i] = IF i <= n THEN s[i] ELSE SubSeq(o, n + 1, N)[i - n]
  <2>1. Len(s) + Len(SubSeq(o, n + 1, N)) = N
    BY <1>1, <1>7, <1>9
  <2>2. p = s \o SubSeq(o, n + 1, N)
    BY <1>5, <1>8
  <2>3. PICK t \in Seq(Moves) : t = SubSeq(o, n + 1, N)
    BY <1>9
  <2>4. /\ s \o t \in Seq(Moves) /\ Len(s \o t) = Len(s) + Len(t)
        /\ \A i \in 1 .. Len(s) + Len(t) :
             (s \o t)[i] = IF i <= Len(s) THEN s[i] ELSE t[i - Len(s)]
    BY <1>7, ConcatProperties
  <2> QED
    BY <2>1, <2>2, <2>3, <2>4, <1>7, Zenon
<1>11. \A i \in 1 .. n : p[i] = s[i]
  BY <1>1, <1>10
<1>12. \A i \in n + 1 .. N : p[i] = o[i]
  <2> SUFFICES ASSUME NEW i \in n + 1 .. N PROVE p[i] = o[i]
    OBVIOUS
  <2>1. i - n \in 1 .. N - n /\ i \in 1 .. N /\ n + (i - n) = i /\ ~(i <= n)
    BY <1>1
  <2>2. p[i] = SubSeq(o, n + 1, N)[i - n]
    BY <2>1, <1>10
  <2> QED
    BY <2>1, <2>2, <1>9
<1>13. \A i \in 1 .. n : \E j \in 1 .. n : p[i] = o[j]
  BY <1>6, <1>11
<1>14. \A i \in 1 .. n : \E j \in 1 .. n : o[i] = p[j]
  <2>1. s \in Injection(1 .. n, S)
    BY <1>4 DEF Enumerates, Injection, IsInjective
  <2>2. IsFiniteSet(S) /\ Cardinality(1 .. n) = n
    <3>1. n \in Nat
      BY <1>1
    <3>2. Cardinality(1 .. n) = n
      BY <3>1, FS_Interval
    <3> HIDE DEF S
    <3> QED
      BY <1>2, <3>2, RootAssumption, FS_Subset
  <2>3. s \in Surjection(1 .. n, S)
    <3> HIDE DEF S
    <3> QED
      BY <2>1, <2>2, <1>3, FS_Injection
  <2> QED
    BY <2>3, <1>11 DEF Surjection
<1>15. \A i \in 1 .. n : pv[p[i]] <= pv[p[1]]
  <2> SUFFICES ASSUME NEW i \in 1 .. n PROVE pv[s[i]] <= pv[s[1]]
    <3> 1 \in 1 .. n
      BY <1>1
    <3> QED
      BY <1>11
  <2>1. 1 \in 1 .. n /\ s[i] \in Moves /\ s[1] \in Moves
    BY <1>1, <1>6
  <2>2. CASE i = 1
    BY <2>1, <2>2
  <2>3. CASE i # 1
    <3> 1 < i
      BY <1>1, <2>3
    <3>1. ~Better(pv, npv, s[i], s[1])
      BY <2>1, <1>4 DEF Enumerates
    <3> QED
      BY <3>1, <2>1, Preorder
  <2> QED
    BY <2>2, <2>3
<1>16. p \in [1 .. N -> Moves]
  BY <1>10
<1>17. IsInjective(p)
  <2> SUFFICES ASSUME NEW i \in 1 .. N, NEW j \in 1 .. N, p[i] = p[j] PROVE i = j
    BY <1>16 DEF IsInjective
  <2>1. \A a, b \in 1 .. N : o[a] = o[b] => a = b
    BY DEF IsInjective
  <2>2. CASE i \in 1 .. n /\ j \in 1 .. n
    BY <2>2, <1>4, <1>11 DEF Enumerates
  <2>3. CASE i \in n + 1 .. N /\ j \in n + 1 .. N
    BY <2>1, <2>3, <1>12
  <2>4. CASE i \in 1 .. n /\ j \in n + 1 .. N
    <3>1. PICK k \in 1 .. n : p[i] = o[k]
      BY <2>4, <1>13
    <3>2. k \in 1 .. N /\ k # j /\ p[j] = o[j]
      BY <1>1, <2>4, <1>12
    <3> QED
      BY <2>1, <3>1, <3>2
  <2>5. CASE j \in 1 .. n /\ i \in n + 1 .. N
    <3>1. PICK k \in 1 .. n : p[j] = o[k]
      BY <2>5, <1>13
    <3>2. k \in 1 .. N /\ k # i /\ p[i] = o[i]
      BY <1>1, <2>5, <1>12
    <3> QED
      BY <2>1, <3>1, <3>2
  <2> QED
    BY <2>2, <2>3, <2>4, <2>5, <1>1
<1> QED
  BY <1>12, <1>13, <1>14, <1>15, <1>16, <1>17 DEF FrontSorted, p
-----------------------------------------------------------------------------
(* The invariant of the root move list *)

OrderTyped ==
  /\ order \in [1 .. N -> Moves] /\ IsInjective(order)
  /\ pvScore \in [Moves -> -INF .. MateIn2] /\ ranks \in [Moves -> Int]

NodeTyped == moveCount \in 0 .. N /\ sAlpha \in Values /\ (pc = "move" => moveCount < N)

SetupTyped ==
  /\ skill \in BOOLEAN /\ multiPV \in Nat \ {0} /\ limit \in Limits
  /\ bestMove \in Moves \cup {NoMove} /\ skillBest \in Moves \cup {NoMove}
  /\ checkmates \in 0 .. MaxCheckmates

\* No move but the head has a score that would end a search of the root at once.
OthersLow == \A m \in Moves : m # order[1] => pvScore[m] < NodeBeta
HeadHighest == \A m \in Moves : pvScore[m] <= pvScore[order[1]]

NotStarted == bestValue = alpha /\ sAlpha = Greater(-MateIn2, alpha)

\* The best of the moves searched so far is the head, and the next one is compared
\* with a bound that is not above the value of the search.
Leading ==
  /\ \A i \in 1 .. moveCount : pvScore[order[i]] <= pvScore[order[1]]
  /\ alpha <= bestValue /\ pvScore[order[1]] <= bestValue
  /\ bestValue > alpha => pvScore[order[1]] = bestValue
  /\ multiPV = 1 => sAlpha = bestValue
  /\ multiPV > 1 => sAlpha <= pvScore[order[1]]

\* Between two searches the value of the last one bounds all scores: a new window
\* is made from that value, so again no move but the head can end the next search.
ListInv ==
  ~stop =>
    /\ pc # "done" => OthersLow
    /\ pc = "move" /\ moveCount = 0 => NotStarted
    /\ pc = "move" /\ moveCount > 0 => Leading /\ bestValue < NodeBeta
    /\ pc = "judge" => HeadHighest /\ IF moveCount = 0 THEN Unscored ELSE Leading
    /\ pc = "head" => HeadHighest /\ moveCount = 0
    /\ pc = "head" /\ depth = 0 => Unscored
    /\ pc = "head" /\ depth >= 1 => pvScore[order[1]] <= best[depth]

LInv == OrderTyped /\ NodeTyped /\ SetupTyped /\ ListInv

LEMMA NPositive == N \in Nat /\ N >= 1 /\ 1 \in 1 .. N
<1>1. N \in Nat /\ N # 0
  BY RootAssumption, FS_CardinalityType, FS_EmptySet DEF N
<1> QED
  BY <1>1

\* The list holds every legal move.
LEMMA Listed ==
  ASSUME NEW o \in [1 .. N -> Moves], IsInjective(o)
  PROVE  \A m \in Moves : \E i \in 1 .. N : o[i] = m
<1>1. o \in Injection(1 .. N, Moves)
  BY DEF Injection
<1>2. Cardinality(1 .. N) = Cardinality(Moves) /\ IsFiniteSet(1 .. N)
  <2>1. Cardinality(1 .. N) = N /\ IsFiniteSet(1 .. N)
    BY NPositive, FS_Interval
  <2> QED
    BY <2>1 DEF N
<1>3. o \in Surjection(1 .. N, Moves)
  BY <1>1, <1>2, RootAssumption, FS_Injection
<1> QED
  BY <1>3 DEF Surjection

LEMMA ScoreType ==
  /\ \A v \in Scores : v \in Int /\ -MateIn2 < v /\ v <= MateIn2 /\ v \in -INF .. MateIn2
  /\ -INF \in -INF .. MateIn2
BY RootAssumption, Params

LEMMA BetaType ==
  ASSUME NEW a \in Int, NEW b \in Int, -INF <= a, a < b
  PROVE  /\ Lesser(MateIn2, b) \in Int /\ -INF < Lesser(MateIn2, b)
         /\ Lesser(MateIn2, b) <= MateIn2 /\ Lesser(MateIn2, b) <= b
         /\ (b > MateIn2 => Lesser(MateIn2, b) = MateIn2)
         /\ (b <= MateIn2 => Lesser(MateIn2, b) = b)
BY Params DEF Lesser

-----------------------------------------------------------------------------
(* A search of the root starts *)

Restarts(pv) ==
  /\ \E rank \in [Moves -> (1 - N) .. 0] :
       ranks' = rank /\ order' = SortPrefix(order, N, pv, rank)
  /\ pvScore' = pv /\ moveCount' = 0 /\ pc' = "move"
  /\ bestValue' = alpha' /\ sAlpha' = Greater(-MateIn2, alpha')

\* The whole list is sorted; if at most one move could end the search at once, that
\* move is the head.
LEMMA Restart ==
  ASSUME OrderTyped, WindowOK', alpha' \in Int, beta' \in Int,
         NEW pv \in [Moves -> -INF .. MateIn2], Restarts(pv)
  PROVE  /\ OrderTyped' /\ NodeTyped'
         /\ \A m \in Moves : pv[m] <= pv[order'[1]]
         /\ (\E h \in Moves : \A m \in Moves : m # h => pv[m] < NodeBeta') => ListInv'
<1>1. PICK rank \in [Moves -> (1 - N) .. 0] :
        ranks' = rank /\ order' = SortPrefix(order, N, pv, rank)
  BY DEF Restarts
<1>2. rank \in [Moves -> Int] /\ pv \in [Moves -> Int]
  BY NPositive, Params
<1>3. /\ order' \in [1 .. N -> Moves] /\ IsInjective(order')
      /\ \A i \in 1 .. N : pv[order'[i]] <= pv[order'[1]]
  <2>1. N \in 1 .. N /\ order \in [1 .. N -> Moves] /\ IsInjective(order)
    BY NPositive DEF OrderTyped
  <2> QED
    BY <1>1, <1>2, <2>1, SortedPrefix DEF FrontSorted
<1>4. OrderTyped'
  BY <1>1, <1>2, <1>3 DEF OrderTyped, Restarts
<1>5. NodeTyped'
  <2>1. alpha' \in Values
    BY Params DEF WindowOK, Values
  <2>2. sAlpha' \in Values
    BY <2>1, Params DEF Restarts, Greater, Values
  <2> QED
    BY <2>2, NPositive DEF NodeTyped, Restarts
<1>6. \A m \in Moves : pv[m] <= pv[order'[1]]
  BY <1>3, Listed
<1>7. ASSUME NEW h \in Moves, \A m \in Moves : m # h => pv[m] < NodeBeta'
      PROVE  ListInv'
  <2>1. \A m \in Moves : m # order'[1] => pv[m] < NodeBeta'
    <3> SUFFICES ASSUME NEW m \in Moves, m # order'[1] PROVE pv[m] < NodeBeta'
      OBVIOUS
    <3>1. CASE m # h
      BY <3>1, <1>7
    <3>2. CASE m = h
      <4>1. order'[1] \in Moves /\ order'[1] # h
        BY <3>2, <1>3, NPositive
      <4>2. pv[order'[1]] < NodeBeta' /\ pv[h] <= pv[order'[1]]
        BY <4>1, <1>6, <1>7
      <4>3. NodeBeta' \in Int
        BY Params DEF NodeBeta, Lesser
      <4>4. pv[order'[1]] \in Int /\ pv[h] \in Int
        BY <4>1, <1>2
      <4> QED
        BY <3>2, <4>2, <4>3, <4>4
    <3> QED
      BY <3>1, <3>2
  <2>2. pc' = "move" /\ moveCount' = 0 /\ pvScore' = pv
        /\ bestValue' = alpha' /\ sAlpha' = Greater(-MateIn2, alpha')
    BY DEF Restarts
  <2>3. OthersLow' /\ NotStarted'
    BY <2>1, <2>2 DEF OthersLow, NotStarted, Greater
  <2> QED
    BY <2>2, <2>3 DEF ListInv
<1> QED
  BY <1>4, <1>5, <1>6, <1>7
-----------------------------------------------------------------------------
(* One move of the root is searched *)

\* Facts of a turn of the root node's loop: the move, its value and its bound.
Turn(n, v, a, better) ==
  /\ n = moveCount + 1 /\ n \in 1 .. N /\ v \in Scores
  /\ a = IF IsPvMove(n) /\ multiPV > 1 THEN -INF ELSE sAlpha
  /\ better = (IsPvMove(n) \/ v > a)
  /\ moveCount' = n /\ bestValue' = Greater(bestValue, v)
  /\ pvScore' = [pvScore EXCEPT ![order[n]] = IF better THEN v ELSE -INF]
  /\ order' = IF better THEN SortPrefix(order, n, pvScore', ranks) ELSE order
  /\ sAlpha' = IF ~better THEN a
               ELSE IF multiPV > 1 THEN pvScore'[order'[Lesser(n, multiPV)]]
               ELSE Greater(a, v)
  /\ pc' = IF n < N /\ bestValue' < NodeBeta THEN "move" ELSE "judge"
  /\ pc = "move" /\ ~stop /\ bestValue < NodeBeta
  /\ UNCHANGED <<ranks, multiPV, alpha, beta, stop, depth>>

LEMMA IsTurn ==
  ASSUME LInv, SearchMove
  PROVE  \E n, v, a : \E better \in BOOLEAN : Turn(n, v, a, better)
<1>1. PICK v \in Scores :
        LET n == moveCount + 1
            a == IF IsPvMove(n) /\ multiPV > 1 THEN -INF ELSE sAlpha
            better == IsPvMove(n) \/ v > a
            move == order[n]
        IN  /\ moveCount' = n
            /\ bestValue' = Greater(bestValue, v)
            /\ pvScore' = [pvScore EXCEPT ![move] = Scored(better, v, @)]
            /\ order' = IF better THEN SortPrefix(order, n, pvScore', ranks) ELSE order
            /\ sAlpha' = IF ~better THEN a
                         ELSE IF multiPV > 1 THEN pvScore'[order'[Lesser(n, multiPV)]]
                         ELSE Greater(a, v)
            /\ pc' = IF n < N /\ bestValue' < NodeBeta THEN "move" ELSE "judge"
  BY DEF SearchMove
<1> DEFINE n == moveCount + 1
           a == IF IsPvMove(n) /\ multiPV > 1 THEN -INF ELSE sAlpha
           better == IsPvMove(n) \/ v > a
<1>2. /\ moveCount' = n /\ bestValue' = Greater(bestValue, v)
      /\ pvScore' = [pvScore EXCEPT ![order[n]] = Scored(better, v, @)]
      /\ order' = IF better THEN SortPrefix(order, n, pvScore', ranks) ELSE order
      /\ sAlpha' = IF ~better THEN a
                   ELSE IF multiPV > 1 THEN pvScore'[order'[Lesser(n, multiPV)]]
                   ELSE Greater(a, v)
      /\ pc' = IF n < N /\ bestValue' < NodeBeta THEN "move" ELSE "judge"
  BY <1>1
<1>3. n \in 1 .. N
  BY NPositive DEF LInv, NodeTyped, SearchMove, NodeOpen
<1>4. pc = "move" /\ ~stop /\ bestValue < NodeBeta
      /\ UNCHANGED <<ranks, multiPV, alpha, beta, stop, depth>>
  BY DEF SearchMove, NodeOpen, setup, request, window
<1>5. better \in BOOLEAN
  OBVIOUS
<1>6. Turn(n, v, a, better)
  BY <1>2, <1>3, <1>4 DEF Turn, Scored
<1> HIDE DEF n, a, better
<1> QED
  BY <1>5, <1>6

\* The types after a turn, and what the list then holds.
LEMMA TurnTypes ==
  ASSUME IInv, LInv, NEW n, NEW v, NEW a, NEW better \in BOOLEAN, Turn(n, v, a, better)
  PROVE  /\ OrderTyped' /\ NodeTyped' /\ a \in Int
         /\ order[n] \in Moves /\ pvScore'[order[n]] = IF better THEN v ELSE -INF
         /\ \A m \in Moves : m # order[n] => pvScore'[m] = pvScore[m]
         /\ \A i \in 1 .. n : pvScore'[order'[i]] <= pvScore'[order'[1]]
                                \/ ~better
         /\ better => \A i \in 1 .. n : \E j \in 1 .. n : order[i] = order'[j]
         /\ better => \E j \in 1 .. n : order'[1] = order[j]
<1>1. n \in 1 .. N /\ v \in Scores /\ N \in Nat
  BY NPositive DEF Turn
<1>2. order[n] \in Moves
  BY <1>1 DEF LInv, OrderTyped
<1>3. /\ pvScore' \in [Moves -> -INF .. MateIn2]
      /\ pvScore'[order[n]] = IF better THEN v ELSE -INF
      /\ \A m \in Moves : m # order[n] => pvScore'[m] = pvScore[m]
  <2>1. pvScore' = [pvScore EXCEPT ![order[n]] = IF better THEN v ELSE -INF]
    BY DEF Turn
  <2>2. pvScore \in [Moves -> -INF .. MateIn2]
    BY DEF LInv, OrderTyped
  <2>3. (IF better THEN v ELSE -INF) \in -INF .. MateIn2
    BY <1>1, ScoreType
  <2> QED
    BY <2>1, <2>2, <2>3, <1>2
<1>4. ranks' \in [Moves -> Int] /\ ranks \in [Moves -> Int] /\ pvScore' \in [Moves -> Int]
  <2>1. ranks' = ranks
    BY DEF Turn
  <2>2. pvScore' \in [Moves -> Int]
    BY <1>3, Params
  <2> QED
    BY <2>1, <2>2 DEF LInv, OrderTyped
<1>5. ASSUME better
      PROVE  /\ order' \in [1 .. N -> Moves] /\ IsInjective(order')
             /\ \A i \in 1 .. n : \E j \in 1 .. n : order'[i] = order[j]
             /\ \A i \in 1 .. n : \E j \in 1 .. n : order[i] = order'[j]
             /\ \A i \in 1 .. n : pvScore'[order'[i]] <= pvScore'[order'[1]]
  <2>1. order' = SortPrefix(order, n, pvScore', ranks)
    BY <1>5 DEF Turn
  <2>2. order \in [1 .. N -> Moves] /\ IsInjective(order)
    BY DEF LInv, OrderTyped
  <2>3. FrontSorted(order', order, n, pvScore')
    BY <2>1, <2>2, <1>1, <1>4, SortedPrefix
  <2> QED
    BY <2>3 DEF FrontSorted
<1>6. order' \in [1 .. N -> Moves] /\ IsInjective(order')
  <2>1. ~better => order' = order
    BY DEF Turn
  <2> QED
    BY <2>1, <1>5 DEF LInv, OrderTyped
<1>7. OrderTyped'
  BY <1>3, <1>4, <1>6 DEF OrderTyped
<1>8. a \in Values
  <2>1. sAlpha \in Values /\ -INF \in Values
    BY Params DEF LInv, NodeTyped, Values
  <2> QED
    BY <2>1 DEF Turn
<1>9. a \in Int
  BY <1>8, Params DEF Values
<1>10. NodeTyped'
  <2>1. sAlpha' \in Values
    <3>1. CASE ~better
      BY <3>1, <1>8 DEF Turn
    <3>2. CASE better /\ multiPV > 1
      <4>1. Lesser(n, multiPV) \in 1 .. N
        BY <1>1, <3>2 DEF Lesser, LInv, SetupTyped
      <4>2. order'[Lesser(n, multiPV)] \in Moves
        BY <4>1, <1>6
      <4>3. sAlpha' = pvScore'[order'[Lesser(n, multiPV)]]
        BY <3>2 DEF Turn
      <4>4. pvScore'[order'[Lesser(n, multiPV)]] \in -INF .. MateIn2
        BY <4>2, <1>3
      <4> QED
        BY <4>3, <4>4, Params DEF Values
    <3>3. CASE better /\ ~(multiPV > 1)
      <4>1. sAlpha' = Greater(a, v)
        BY <3>3 DEF Turn
      <4>2. v \in Values
        BY <1>1, ScoreInRange
      <4> QED
        BY <4>1, <4>2, <1>8 DEF Greater
    <3> QED
      BY <3>1, <3>2, <3>3
  <2>2. moveCount' \in 0 .. N /\ (pc' = "move" => moveCount' < N)
    BY <1>1 DEF Turn
  <2> QED
    BY <2>1, <2>2 DEF NodeTyped
<1>11. better => \E j \in 1 .. n : order'[1] = order[j]
  <2>1. 1 \in 1 .. n
    BY <1>1
  <2> QED
    BY <2>1, <1>5
<1> QED
  BY <1>2, <1>3, <1>5, <1>7, <1>9, <1>10, <1>11

\* What a turn leaves of the moves searched before it, when a search goes on.
LEMMA TurnKeeps ==
  ASSUME IInv, LInv, NEW n, NEW v, NEW a, NEW better \in BOOLEAN, Turn(n, v, a, better)
  PROVE  ListInv'
<1>1. /\ n \in 1 .. N /\ v \in Int /\ -MateIn2 < v /\ v <= MateIn2 /\ N \in Nat /\ 1 \in 1 .. n
      /\ n = moveCount + 1 /\ moveCount \in Nat
  BY NPositive, ScoreType DEF Turn, LInv, NodeTyped
<1>2. /\ OrderTyped' /\ a \in Int /\ order[n] \in Moves
      /\ pvScore'[order[n]] = IF better THEN v ELSE -INF
      /\ \A m \in Moves : m # order[n] => pvScore'[m] = pvScore[m]
      /\ \A i \in 1 .. n : pvScore'[order'[i]] <= pvScore'[order'[1]] \/ ~better
      /\ better => \A i \in 1 .. n : \E j \in 1 .. n : order[i] = order'[j]
      /\ better => \E j \in 1 .. n : order'[1] = order[j]
  BY TurnTypes
<1>3. /\ \A m \in Moves : pvScore[m] \in Int /\ pvScore'[m] \in Int
      /\ \A i \in 1 .. N : order[i] \in Moves /\ order'[i] \in Moves
      /\ \A i, j \in 1 .. N : order[i] = order[j] => i = j
      /\ bestValue \in Int /\ alpha \in Int /\ beta \in Int
      /\ multiPV \in Nat /\ multiPV >= 1 /\ sAlpha \in Int
  <2>1. bestValue \in Int /\ alpha \in Int /\ beta \in Int
    BY Params DEF IInv, Typed, Values
  <2>2. multiPV \in Nat /\ multiPV >= 1 /\ sAlpha \in Int
    BY Params DEF LInv, NodeTyped, SetupTyped, Values
  <2>3. \A m \in Moves : pvScore[m] \in Int /\ pvScore'[m] \in Int
    BY <1>2, Params DEF LInv, OrderTyped
  <2>4. /\ \A i \in 1 .. N : order[i] \in Moves /\ order'[i] \in Moves
        /\ \A i, j \in 1 .. N : order[i] = order[j] => i = j
    BY <1>2 DEF LInv, OrderTyped, IsInjective
  <2> QED
    BY <2>1, <2>2, <2>3, <2>4
<1>4. PICK w, nb, h, g : /\ w = pvScore'[order'[1]] /\ nb = NodeBeta
                         /\ h = order[1] /\ g = order'[1]
  OBVIOUS
<1>5. /\ NodeBeta' = nb /\ nb \in Int /\ -INF < nb /\ w \in Int
      /\ h \in Moves /\ g \in Moves /\ order[n] \in Moves
  <2>1. NodeBeta' = nb
    BY <1>4 DEF Turn, NodeBeta
  <2>2. -INF <= alpha /\ alpha < beta
    BY DEF IInv, WindowOK
  <2>3. nb \in Int /\ -INF < nb
    BY <1>3, <1>4, <2>2, BetaType DEF NodeBeta
  <2>4. 1 \in 1 .. N
    BY NPositive
  <2>5. h \in Moves /\ g \in Moves
    BY <1>3, <1>4, <2>4
  <2>6. w \in Int
    BY <1>3, <1>4, <2>5
  <2> QED
    BY <1>2, <2>1, <2>3, <2>5, <2>6
<1>6. /\ bestValue < nb /\ (\A m \in Moves : m # h => pvScore[m] < nb)
      /\ bestValue' = Greater(bestValue, v) /\ stop' = stop /\ ~stop
      /\ pc' = (IF n < N /\ bestValue' < nb THEN "move" ELSE "judge")
      /\ alpha' = alpha /\ multiPV' = multiPV /\ moveCount' = n
  BY <1>4 DEF Turn, LInv, ListInv, OthersLow
<1>7. /\ bestValue' \in Int /\ bestValue <= bestValue' /\ v <= bestValue'
      /\ bestValue' = bestValue \/ bestValue' = v
  BY <1>1, <1>3, <1>6 DEF Greater
\* In each case: the list after the turn, and a value that ends the search leads it.
<1> DEFINE After == /\ Leading'
                    /\ \A m \in Moves : m # g => pvScore'[m] < nb
                    /\ v >= nb => w >= nb
<1>8. ASSUME n = 1 PROVE After
  <2>1. bestValue = alpha /\ sAlpha = Greater(-MateIn2, alpha)
    BY <1>1, <1>6, <1>8 DEF LInv, ListInv, NotStarted, Turn
  <2>2. better
    BY <1>3, <1>8 DEF Turn, IsPvMove
  <2>3. g = h /\ h = order[n] /\ w = v
    BY <1>2, <1>4, <1>8, <2>2
  <2>4. multiPV = 1 => sAlpha' = bestValue'
    <3> SUFFICES ASSUME multiPV = 1 PROVE sAlpha' = bestValue'
      OBVIOUS
    <3>1. a = sAlpha /\ sAlpha' = Greater(a, v)
      BY <2>2 DEF Turn
    <3> QED
      BY <1>1, <1>3, <1>6, <2>1, <3>1, Params DEF Greater
  <2>5. \A m \in Moves : m # g => pvScore'[m] < nb
    BY <1>2, <1>6, <2>3
  <2>6. multiPV > 1 => sAlpha' <= w
    <3> SUFFICES ASSUME multiPV > 1 PROVE sAlpha' <= w
      OBVIOUS
    <3>1. sAlpha' = pvScore'[order'[Lesser(n, multiPV)]]
      BY <2>2 DEF Turn
    <3>2. Lesser(n, multiPV) = 1
      BY <1>8 DEF Lesser
    <3> QED
      BY <3>1, <3>2, <1>4, <1>5
  <2>7. \A i \in 1 .. n : pvScore'[order'[i]] <= w
    BY <1>2, <1>4, <2>2
  <2>8. alpha <= bestValue' /\ w <= bestValue' /\ (bestValue' > alpha => w = bestValue')
    BY <1>3, <1>7, <2>1, <2>3
  <2>9. Leading'
    BY <1>4, <1>6, <2>4, <2>6, <2>7, <2>8 DEF Leading
  <2> QED
    BY <2>3, <2>5, <2>9
<1>9. ASSUME n > 1
      PROVE  /\ Leading /\ pvScore[h] <= bestValue /\ alpha <= bestValue
             /\ bestValue > alpha => pvScore[h] = bestValue
             /\ h # order[n] /\ pvScore'[h] = pvScore[h]
             /\ \A m \in Moves : pvScore[m] < nb
             /\ multiPV = 1 => sAlpha = bestValue
             /\ multiPV > 1 => sAlpha <= pvScore[h]
             /\ sAlpha <= bestValue
  <2>1. Leading
    BY <1>1, <1>9 DEF LInv, ListInv, Turn
  <2>2. h # order[n]
    BY <1>1, <1>3, <1>4, <1>9
  <2>3. /\ pvScore[h] <= bestValue /\ alpha <= bestValue
        /\ bestValue > alpha => pvScore[h] = bestValue
        /\ multiPV = 1 => sAlpha = bestValue
        /\ multiPV > 1 => sAlpha <= pvScore[h]
    BY <1>4, <2>1 DEF Leading
  <2>4. sAlpha <= bestValue
    BY <1>3, <1>5, <2>3
  <2>5. \A m \in Moves : pvScore[m] < nb
    BY <1>3, <1>5, <1>6, <2>3
  <2> QED
    BY <1>2, <1>5, <2>1, <2>2, <2>3, <2>4, <2>5
<1>10. ASSUME n > 1, ~better PROVE After
  <2>1. a = sAlpha /\ v <= a /\ order' = order /\ sAlpha' = a
    <3>1. ~IsPvMove(n) /\ ~(v > a)
      BY <1>10 DEF Turn
    <3> QED
      BY <3>1, <1>1, <1>2, <1>10 DEF Turn
  <2>2. bestValue' = bestValue
    BY <1>1, <1>3, <1>6, <1>9, <1>10, <2>1 DEF Greater
  <2>3. g = h /\ w = pvScore[h]
    BY <1>4, <1>9, <1>10, <2>1
  <2>4. pvScore'[order[n]] = -INF /\ -INF <= pvScore[h] /\ -INF < nb
    BY <1>2, <1>5, <1>10, Params DEF LInv, OrderTyped
  <2>5. \A m \in Moves : pvScore'[m] < nb
    BY <1>2, <1>9, <1>10, <2>4
  <2>6. \A i \in 1 .. n : pvScore'[order[i]] <= w
    <3> SUFFICES ASSUME NEW i \in 1 .. n PROVE pvScore'[order[i]] <= w
      OBVIOUS
    <3>1. CASE i = n
      BY <3>1, <2>3, <2>4
    <3>2. CASE i # n
      <4>1. i \in 1 .. moveCount /\ i \in 1 .. N /\ order[i] # order[n]
        BY <1>1, <1>3, <3>2
      <4>2. pvScore[order[i]] <= pvScore[h]
        BY <1>4, <1>9, <1>10, <4>1 DEF Leading
      <4> QED
        BY <1>2, <1>3, <2>3, <4>1, <4>2
    <3> QED
      BY <3>1, <3>2
  <2>7. Leading'
    BY <1>4, <1>6, <1>9, <1>10, <2>1, <2>2, <2>3, <2>6 DEF Leading
  <2>8. ~(v >= nb)
    BY <1>1, <1>3, <1>5, <1>6, <1>9, <1>10, <2>1, <1>2
  <2> QED
    BY <2>5, <2>7, <2>8
<1>11. ASSUME n > 1, better PROVE After
  <2>1. v <= w /\ pvScore[h] <= w
    <3>1. \A i \in 1 .. n : pvScore'[order[i]] <= w
      BY <1>2, <1>4, <1>11
    <3>2. 1 \in 1 .. n /\ n \in 1 .. n
      BY <1>1
    <3> QED
      BY <1>2, <1>4, <1>9, <1>11, <3>1, <3>2
  <2>2. w = v \/ w = pvScore[h]
    <3>1. PICK j \in 1 .. n : g = order[j]
      BY <1>2, <1>4, <1>11
    <3>2. CASE j = n
      BY <3>1, <3>2, <1>2, <1>4, <1>11
    <3>3. CASE j # n
      <4>1. j \in 1 .. moveCount /\ j \in 1 .. N /\ order[j] # order[n]
        BY <1>1, <1>3, <3>3
      <4>2. pvScore[order[j]] <= pvScore[h] /\ w = pvScore[order[j]]
        BY <1>2, <1>3, <1>4, <1>9, <1>11, <3>1, <4>1 DEF Leading
      <4> QED
        BY <4>2, <2>1, <1>3, <1>5
    <3> QED
      BY <3>2, <3>3
  <2>3. w <= bestValue' /\ alpha <= bestValue' /\ (bestValue' > alpha => w = bestValue')
    BY <1>1, <1>3, <1>5, <1>6, <1>9, <1>11, <2>1, <2>2 DEF Greater
  <2>4. multiPV = 1 => sAlpha' = bestValue'
    <3> SUFFICES ASSUME multiPV = 1 PROVE sAlpha' = bestValue'
      OBVIOUS
    <3>1. a = sAlpha /\ sAlpha' = Greater(a, v)
      BY <1>11 DEF Turn
    <3> QED
      BY <1>6, <1>9, <1>11, <3>1
  <2>5. multiPV > 1 => sAlpha' <= w
    <3> SUFFICES ASSUME multiPV > 1 PROVE sAlpha' <= w
      OBVIOUS
    <3>1. sAlpha' = pvScore'[order'[Lesser(n, multiPV)]]
      BY <1>11 DEF Turn
    <3>2. Lesser(n, multiPV) \in 1 .. n
      BY <1>1, <1>3 DEF Lesser
    <3> QED
      BY <3>1, <3>2, <1>2, <1>4, <1>11
  <2>6. \A i \in 1 .. n : pvScore'[order'[i]] <= w
    BY <1>2, <1>4, <1>11
  <2>7. Leading'
    BY <1>4, <1>6, <2>3, <2>4, <2>5, <2>6 DEF Leading
  <2>8. ASSUME NEW m \in Moves, m # g PROVE pvScore'[m] < nb
    <3>1. CASE m # order[n]
      BY <3>1, <1>2, <1>9, <1>11
    <3>2. CASE m = order[n]
      <4>1. w < nb
        BY <1>2, <1>4, <1>5, <1>9, <1>11, <2>8, <3>2
      <4> QED
        BY <4>1, <3>2, <1>1, <1>2, <1>5, <1>11, <2>1
    <3> QED
      BY <3>1, <3>2
  <2> QED
    BY <2>1, <2>7, <2>8, <1>1, <1>5
<1>12. After
  BY <1>1, <1>8, <1>10, <1>11
<1>13. OthersLow'
  BY <1>4, <1>5, <1>12 DEF OthersLow
<1>14. ASSUME pc' = "judge" PROVE HeadHighest'
  <2> SUFFICES ASSUME NEW m \in Moves PROVE pvScore'[m] <= w
    BY <1>4 DEF HeadHighest
  <2>1. CASE n = N
    <3>1. PICK i \in 1 .. N : order'[i] = m
      BY <1>2, Listed DEF OrderTyped
    <3>2. \A k \in 1 .. n : pvScore'[order'[k]] <= w
      BY <1>4, <1>6, <1>12 DEF Leading
    <3> QED
      BY <2>1, <3>1, <3>2
  <2>2. CASE n # N
    <3>1. v >= nb
      BY <1>1, <1>5, <1>6, <1>7, <1>14, <2>2
    <3>2. w >= nb
      BY <3>1, <1>12
    <3>3. CASE m = g
      BY <3>3, <1>4, <1>5
    <3>4. CASE m # g
      BY <3>2, <3>4, <1>3, <1>5, <1>12
    <3> QED
      BY <3>3, <3>4
  <2> QED
    BY <2>1, <2>2
<1>15. pc' = "move" => bestValue' < nb
  BY <1>6
<1> QED
  <2> HIDE DEF After
  <2>1. Leading' /\ moveCount' > 0
    BY <1>1, <1>6, <1>12 DEF After
  <2>2. pc' \in {"move", "judge"}
    BY <1>6
  <2> QED
    BY <1>5, <1>13, <1>14, <1>15, <2>1, <2>2 DEF ListInv

LEMMA ListSearchMove == IInv /\ LInv /\ SearchMove => LInv'
<1> SUFFICES ASSUME IInv, LInv, SearchMove PROVE LInv'
  OBVIOUS
<1>1. PICK n, v, a : \E better \in BOOLEAN : Turn(n, v, a, better)
  BY IsTurn
<1>2. OrderTyped' /\ NodeTyped'
  BY <1>1, TurnTypes
<1>3. ListInv'
  BY <1>1, TurnKeeps
<1>4. SetupTyped'
  <2>1. UNCHANGED <<setup, answer, checkmates>>
    BY DEF SearchMove
  <2> QED
    BY <2>1 DEF setup, answer, LInv, SetupTyped
<1> QED
  BY <1>2, <1>3, <1>4 DEF LInv

-----------------------------------------------------------------------------
(* The other steps *)

LEMMA ListInit == Init => LInv
<1> SUFFICES ASSUME Init PROVE LInv
  OBVIOUS
<1>1. /\ pc = "head" /\ depth = 0 /\ stop = FALSE /\ beta = INF /\ moveCount = 0 /\ sAlpha = -INF
      /\ pvScore = [m \in Moves |-> -INF] /\ ranks = [m \in Moves |-> 0]
      /\ bestMove = NoMove /\ skillBest = NoMove /\ checkmates = 0 /\ limit \in Limits
      /\ skill \in BOOLEAN /\ order \in SetToSeqs(Moves)
      /\ multiPV \in IF skill THEN {SkillPV} ELSE MultiPVs
      /\ best = [d \in 1 .. MaxDepth |-> Unset]
  BY DEF Init, Outside
<1>2. order \in [1 .. N -> Moves] /\ IsInjective(order)
  BY <1>1 DEF SetToSeqs, N, IsInjective
<1>3. OrderTyped
  <2>1. -INF \in -INF .. MateIn2 /\ 0 \in Int
    BY Params
  <2> QED
    BY <1>1, <1>2, <2>1 DEF OrderTyped
<1>4. NodeTyped
  BY <1>1, NPositive, Params DEF NodeTyped, Values
<1>5. SetupTyped
  <2>1. multiPV \in Nat \ {0}
    BY <1>1, RootAssumption
  <2>2. 0 \in 0 .. MaxCheckmates
    BY RootAssumption
  <2> QED
    BY <1>1, <2>1, <2>2 DEF SetupTyped
<1>6. ListInv
  <2>1. NodeBeta = MateIn2 /\ -INF < MateIn2
    BY <1>1, Params DEF NodeBeta, Lesser
  <2>2. order[1] \in Moves
    BY <1>2, NPositive
  <2>3. OthersLow /\ HeadHighest
    BY <1>1, <2>1, <2>2, Params DEF OthersLow, HeadHighest
  <2>4. Unscored
    BY <1>1 DEF Unscored
  <2> QED
    BY <1>1, <2>3, <2>4 DEF ListInv
<1> QED
  BY <1>3, <1>4, <1>5, <1>6 DEF LInv

LEMMA ListAbortMove == IInv /\ LInv /\ AbortMove => LInv'
<1> SUFFICES ASSUME IInv, LInv, AbortMove PROVE LInv'
  OBVIOUS
<1>1. /\ pc = "move" /\ stop /\ stop' = stop /\ moveCount' = moveCount + 1 /\ pc' = "judge"
      /\ UNCHANGED <<setup, order, pvScore, bestMove, skillBest, checkmates, ranks, sAlpha>>
  BY DEF AbortMove, request, list, answer
<1>2. OrderTyped'
  BY <1>1 DEF LInv, OrderTyped
<1>3. NodeTyped'
  BY <1>1, NPositive DEF LInv, NodeTyped
<1>4. SetupTyped' /\ ListInv'
  BY <1>1 DEF setup, LInv, SetupTyped, ListInv
<1> QED
  BY <1>2, <1>3, <1>4 DEF LInv

\* Steps that touch neither the list nor the bounds keep what is known of the list,
\* unless they stop the search.
LEMMA ListQuiet ==
  ASSUME LInv, pc' = pc, stop => stop',
         UNCHANGED <<setup, order, pvScore, ranks, moveCount, sAlpha, bestValue, alpha, beta,
                     depth, best, bestMove, skillBest, checkmates>>
  PROVE  LInv'
<1>1. OrderTyped' /\ NodeTyped' /\ SetupTyped'
  BY DEF setup, LInv, OrderTyped, NodeTyped, SetupTyped
<1>2. ListInv'
  <2> SUFFICES ASSUME ~stop' PROVE ListInv'
    BY DEF ListInv
  <2>1. ListInv /\ ~stop
    BY DEF LInv
  <2>2. multiPV' = multiPV
    BY DEF setup
  <2> QED
    BY <2>1, <2>2 DEF ListInv, OthersLow, HeadHighest, Leading, NotStarted, NodeBeta, Unscored
<1> QED
  BY <1>1, <1>2 DEF LInv

LEMMA ListPoll == IInv /\ LInv /\ Poll => LInv'
<1> SUFFICES ASSUME IInv, LInv, Poll PROVE LInv'
  OBVIOUS
<1>1. /\ pc' = pc /\ ~stop
      /\ UNCHANGED <<setup, list, depth, best, window, answer, checkmates, node>>
  BY DEF Poll, PollStop, PollPonderhit, PollTime
<1>2. UNCHANGED <<setup, order, pvScore, ranks, moveCount, sAlpha, bestValue, alpha, beta,
                  depth, best, bestMove, skillBest, checkmates>>
  BY <1>1 DEF list, window, answer, node
<1> QED
  BY <1>1, <1>2, ListQuiet

LEMMA ListUnchanged == LInv /\ UNCHANGED vars => LInv'
<1> SUFFICES ASSUME LInv, UNCHANGED vars PROVE LInv'
  OBVIOUS
<1>1. pc' = pc /\ stop' = stop
      /\ UNCHANGED <<setup, order, pvScore, ranks, moveCount, sAlpha, bestValue, alpha, beta,
                     depth, best, bestMove, skillBest, checkmates>>
  BY DEF vars, list, window, answer, node, request
<1> QED
  BY <1>1, ListQuiet

\* do_skill_level() answers a move of the list, or none.
LEMMA SkillMoves == ASSUME OrderTyped, SetupTyped PROVE SkillChoice \subseteq Moves \cup {NoMove}
<1>1. Lesser(multiPV, N) \in 1 .. N
  BY NPositive DEF Lesser, SetupTyped
<1>2. \A i \in 1 .. Lesser(multiPV, N) : order[i] \in Moves
  BY <1>1, NPositive DEF OrderTyped
<1> QED
  BY <1>2 DEF SkillChoice

LEMMA ListFinish == IInv /\ LInv /\ Finish => LInv'
<1> SUFFICES ASSUME IInv, LInv, Finish PROVE LInv'
  OBVIOUS
<1>1. /\ pc' = "done" /\ UNCHANGED <<setup, order, pvScore, checkmates, ranks, moveCount, sAlpha>>
      /\ skillBest' \in IF skill /\ skillBest = NoMove THEN SkillChoice ELSE {skillBest}
      /\ bestMove' = IF skill THEN skillBest' ELSE bestMove
  BY DEF Finish, list, node
<1>2. OrderTyped' /\ NodeTyped'
  BY <1>1 DEF LInv, OrderTyped, NodeTyped
<1>3. SkillChoice \subseteq Moves \cup {NoMove}
  BY SkillMoves DEF LInv
<1>4. SetupTyped'
  <2>1. skillBest' \in Moves \cup {NoMove}
    BY <1>1, <1>3 DEF LInv, SetupTyped
  <2>2. bestMove' \in Moves \cup {NoMove}
    BY <1>1, <2>1 DEF LInv, SetupTyped
  <2> QED
    BY <1>1, <2>1, <2>2 DEF setup, LInv, SetupTyped
<1>5. ListInv'
  BY <1>1 DEF ListInv
<1> QED
  BY <1>2, <1>4, <1>5 DEF LInv

-----------------------------------------------------------------------------
(* A search of the root ended *)

\* The value that is recorded bounds the scores of the list.
LEMMA ListEndIteration ==
  ASSUME IInv, LInv, pc = "judge", NEW hit \in BOOLEAN, EndIteration(hit),
         IInv', multiPV' = multiPV, beta <= beta'
  PROVE  LInv'
<1>1. /\ pc' = "head" /\ bestMove' = order[1] /\ best' = [best EXCEPT ![depth] = bestValue]
      /\ ranks' = [m \in Moves |-> 0] /\ moveCount' = 0 /\ sAlpha' = -INF
      /\ UNCHANGED <<setup, order, pvScore, depth, checkmates>>
      /\ IF skill /\ depth = 1 + SkillLevel THEN skillBest' \in SkillChoice ELSE UNCHANGED skillBest
  BY DEF EndIteration, RecordValue, Outside, list
<1>2. OrderTyped'
  BY <1>1 DEF LInv, OrderTyped
<1>3. NodeTyped'
  BY <1>1, NPositive, Params DEF NodeTyped, Values
<1>4. SetupTyped'
  <2>1. SkillChoice \subseteq Moves \cup {NoMove} /\ order[1] \in Moves
    BY SkillMoves, NPositive DEF LInv, OrderTyped
  <2>2. skillBest' \in Moves \cup {NoMove} /\ bestMove' \in Moves \cup {NoMove}
    BY <1>1, <2>1 DEF LInv, SetupTyped
  <2> QED
    BY <1>1, <2>2 DEF setup, LInv, SetupTyped
<1>5. ListInv'
  <2> SUFFICES ASSUME ~stop' PROVE ListInv'
    BY DEF ListInv
  <2>1. ~stop
    BY DEF EndIteration
  <2>2. OthersLow /\ HeadHighest /\ pvScore[order[1]] <= bestValue
    <3>1. CASE moveCount = 0
      <4>1. order[1] \in Moves /\ bestValue \in Values
        BY NPositive DEF LInv, OrderTyped, IInv, Typed
      <4> QED
        BY <2>1, <3>1, <4>1, Params DEF LInv, ListInv, Unscored, Values
    <3>2. CASE moveCount # 0
      BY <2>1, <3>2 DEF LInv, ListInv, Leading
    <3> QED
      BY <3>1, <3>2
  <2>3. depth \in 1 .. MaxDepth /\ best \in [1 .. MaxDepth -> Values \cup {Unset}]
    BY DEF IInv, Typed
  <2>4. best'[depth'] = bestValue /\ pvScore'[order'[1]] <= best'[depth']
    BY <1>1, <2>2, <2>3
  <2>5. NodeBeta <= NodeBeta' /\ NodeBeta \in Int /\ NodeBeta' \in Int
    <3>1. beta \in Int /\ beta' \in Int
      BY DEF IInv, Typed
    <3> QED
      BY <3>1, Params DEF NodeBeta, Lesser
  <2>6. \A m \in Moves : pvScore[m] \in Int
    BY Params DEF LInv, OrderTyped
  <2>7. OthersLow'
    BY <1>1, <2>2, <2>5, <2>6 DEF OthersLow
  <2>8. HeadHighest'
    BY <1>1, <2>2 DEF HeadHighest
  <2> QED
    BY <1>1, <2>3, <2>4, <2>7, <2>8 DEF ListInv
<1> QED
  BY <1>2, <1>3, <1>4, <1>5 DEF LInv

\* A search that is repeated sorts the list again.
LEMMA ListWiden ==
  ASSUME IInv, LInv, IInv', pc = "judge", ~stop, NEW a \in Int, NEW b \in Int, NEW hit \in BOOLEAN,
         Widen(a, b, hit), beta <= b
  PROVE  LInv'
<1>1. alpha' = a /\ beta' = b /\ beta \in Int
  BY DEF Widen, IInv, Typed
<1>2. CASE ~(Abs(bestValue) < KnownWin)
  <2>1. EndIteration(hit)
    BY <1>2 DEF Widen
  <2>2. multiPV' = multiPV
    BY <2>1 DEF EndIteration, setup
  <2> QED
    BY <1>1, <2>1, <2>2, ListEndIteration
<1>3. CASE Abs(bestValue) < KnownWin
  <2>1. StartSearch(a, pvScore) /\ UNCHANGED <<setup, stop, depth, best, answer, checkmates>>
    BY <1>3 DEF Widen
  <2>2. Restarts(pvScore)
    BY <1>1, <2>1 DEF StartSearch, RankAndSort, Restarts
  <2>3. pvScore \in [Moves -> -INF .. MateIn2] /\ OrderTyped /\ WindowOK' /\ alpha' \in Int /\ beta' \in Int
    BY DEF LInv, OrderTyped, IInv, Typed
  <2>4. \A m \in Moves : m # order[1] => pvScore[m] < NodeBeta'
    <3>1. NodeBeta <= NodeBeta' /\ NodeBeta \in Int /\ NodeBeta' \in Int
      BY <1>1, Params DEF NodeBeta, Lesser
    <3>2. \A m \in Moves : pvScore[m] \in Int
      BY Params DEF LInv, OrderTyped
    <3>3. OthersLow
      BY DEF LInv, ListInv
    <3> QED
      BY <3>1, <3>2, <3>3 DEF OthersLow
  <2>5. order[1] \in Moves
    BY NPositive DEF LInv, OrderTyped
  <2>6. OrderTyped' /\ NodeTyped' /\ ListInv'
    BY <2>2, <2>3, <2>4, <2>5, Restart
  <2>7. SetupTyped'
    BY <2>1 DEF setup, answer, LInv, SetupTyped
  <2> QED
    BY <2>6, <2>7 DEF LInv
<1> QED
  BY <1>2, <1>3

LEMMA ListFailHigh == IInv /\ IInv' /\ LInv /\ FailHigh => LInv'
<1> SUFFICES ASSUME IInv, IInv', LInv, FailHigh PROVE LInv'
  OBVIOUS
<1> DEFINE b == Lesser(beta + delta, INF)
<1>1. pc = "judge" /\ ~stop /\ Widen(alpha, b, stopOnPonderhit)
  BY DEF FailHigh
<1>2. alpha \in Int /\ b \in Int /\ stopOnPonderhit \in BOOLEAN /\ beta <= b
  BY Params DEF IInv, Typed, WindowOK, Lesser
<1> QED
  <2> HIDE DEF b
  <2> QED
    BY <1>1, <1>2, ListWiden

LEMMA ListFailLow == IInv /\ IInv' /\ LInv /\ FailLow => LInv'
<1> SUFFICES ASSUME IInv, IInv', LInv, FailLow PROVE LInv'
  OBVIOUS
<1> DEFINE a == Greater(alpha - delta, -INF)
<1>1. pc = "judge" /\ ~stop /\ Widen(a, beta, FALSE)
  BY DEF FailLow
<1>2. a \in Int /\ beta \in Int /\ beta <= beta
  BY Params DEF IInv, Typed, Greater
<1> QED
  <2> HIDE DEF a
  <2> QED
    BY <1>1, <1>2, ListWiden

LEMMA ListSettle == IInv /\ IInv' /\ LInv /\ Settle => LInv'
<1> SUFFICES ASSUME IInv, IInv', LInv, Settle PROVE LInv'
  OBVIOUS
<1>1. pc = "judge" /\ EndIteration(stopOnPonderhit) /\ UNCHANGED window
  BY DEF Settle
<1>2. stopOnPonderhit \in BOOLEAN /\ beta \in Int /\ beta' = beta
  BY <1>1 DEF window, IInv, Typed
<1>3. beta <= beta' /\ multiPV' = multiPV
  BY <1>1, <1>2 DEF EndIteration, setup
<1> QED
  BY <1>1, <1>2, <1>3, ListEndIteration

\* The next iteration: the refuted moves lose their score, and a new window reaches
\* above the value of the last iteration, which no score exceeds.
LEMMA ListNextIteration == IInv /\ IInv' /\ LInv /\ NextIteration => LInv'
<1> SUFFICES ASSUME IInv, IInv', LInv, NextIteration PROVE LInv'
  OBVIOUS
<1>1. PICK check \in BOOLEAN, refuted \in SUBSET Moves :
        LET d == depth + 1
            w == FirstDelta(d)
            pv == Refute(refuted)
            retreat == check /\ pv[order[1]] <= -MateInMax
        IN  /\ check => depth >= 1 /\ checkmates < MaxCheckmates
            /\ alpha' = IF retreat THEN Greater(FirstAlpha(d) - RetreatWidening * w, -INF)
                                   ELSE FirstAlpha(d)
            /\ beta' = IF retreat THEN Lesser(FirstBeta(d) + RetreatWidening * w, INF)
                                  ELSE FirstBeta(d)
            /\ checkmates' = IF check THEN checkmates + 1 ELSE checkmates
            /\ StartSearch(alpha', pv)
  BY DEF NextIteration
<1> DEFINE d == depth + 1
           w == FirstDelta(d)
           pv == Refute(refuted)
           retreat == check /\ pv[order[1]] <= -MateInMax
<1>2. /\ pc = "head" /\ ~stop /\ depth < MaxDepth
      /\ UNCHANGED <<setup, request, best, answer>>
  BY DEF NextIteration
<1>3. /\ check => depth >= 1 /\ checkmates < MaxCheckmates
      /\ beta' = IF retreat THEN Lesser(FirstBeta(d) + RetreatWidening * w, INF) ELSE FirstBeta(d)
      /\ checkmates' = IF check THEN checkmates + 1 ELSE checkmates
      /\ StartSearch(alpha', pv)
  BY <1>1
<1>4. d \in Nat /\ d = depth + 1 /\ d <= MaxDepth /\ depth \in Nat /\ d >= 1
  BY <1>2, Params DEF IInv, Typed
<1>5. /\ w \in Nat /\ FirstAlpha(d) \in Int /\ FirstBeta(d) \in Int
      /\ -INF <= FirstAlpha(d) /\ FirstAlpha(d) < FirstBeta(d) /\ FirstBeta(d) <= INF
  BY <1>2, <1>4, FirstWindow
<1>6. beta' \in Int /\ FirstBeta(d) <= beta'
  <2> HIDE DEF d, w, retreat
  <2>1. FirstBeta(d) <= Lesser(FirstBeta(d) + RetreatWidening * w, INF)
        /\ Lesser(FirstBeta(d) + RetreatWidening * w, INF) \in Int
    BY <1>5, Retreated
  <2> QED
    BY <2>1, <1>3, <1>5
<1>7. /\ pv \in [Moves -> -INF .. MateIn2]
      /\ \A m \in Moves : pv[m] = pvScore[m] \/ pv[m] = -INF
  <2>1. pvScore \in [Moves -> -INF .. MateIn2] /\ -INF \in -INF .. MateIn2
    BY Params DEF LInv, OrderTyped
  <2> QED
    BY <2>1 DEF Refute
<1>8. \A m \in Moves : m # order[1] => pv[m] < NodeBeta'
  <2> SUFFICES ASSUME NEW m \in Moves, m # order[1] PROVE pv[m] < NodeBeta'
    OBVIOUS
  <2>1. OthersLow /\ HeadHighest /\ (depth >= 1 => pvScore[order[1]] <= best[depth])
    BY <1>2 DEF LInv, ListInv
  <2>2. /\ pvScore[m] \in Int /\ pvScore[order[1]] \in Int
        /\ pvScore[m] <= pvScore[order[1]] /\ pvScore[m] < NodeBeta
    <3>1. order[1] \in Moves
      BY NPositive DEF LInv, OrderTyped
    <3> QED
      BY <2>1, <3>1, Params DEF OthersLow, HeadHighest, LInv, OrderTyped
  <2>3. NodeBeta' \in Int /\ -INF < NodeBeta' /\ NodeBeta \in Int
    <3>1. beta \in Int /\ -INF < beta'
      BY <1>5, <1>6, Params DEF IInv, Typed
    <3> QED
      BY <3>1, <1>6, Params DEF NodeBeta, Lesser
  <2>4. pvScore[m] < NodeBeta'
    <3>1. CASE Windowed(d)
      <4>1. /\ HalfWidth(d) \in Nat /\ HalfWidth(d) > 0
            /\ best[d - 1] \in Int /\ -KnownWin < best[d - 1] /\ best[d - 1] < KnownWin
        BY <1>4, <3>1, NewWindow DEF IInv, Typed
      <4>2. FirstBeta(d) = Lesser(best[d - 1] + HalfWidth(d), INF)
        BY <3>1 DEF FirstBeta
      <4>3. best[d - 1] < FirstBeta(d) /\ best[d - 1] < MateIn2
        BY <4>1, <4>2, Params DEF Lesser
      <4>4. best[d - 1] < NodeBeta'
        BY <4>1, <4>3, <1>5, <1>6, Params DEF NodeBeta, Lesser
      <4>5. d - 1 = depth /\ depth >= 1
        BY <1>4, <3>1, Params DEF Windowed
      <4>6. pvScore[order[1]] <= best[d - 1]
        BY <2>1, <4>5
      <4> QED
        BY <2>2, <2>3, <4>1, <4>4, <4>6
    <3>2. CASE ~Windowed(d)
      <4>1. FirstBeta(d) = beta
        BY <3>2 DEF FirstBeta
      <4>2. beta \in Int /\ beta' \in Int /\ beta <= beta'
        BY <4>1, <1>5, <1>6
      <4>3. NodeBeta <= NodeBeta'
        BY <4>2, Params DEF NodeBeta, Lesser
      <4> QED
        BY <2>2, <2>3, <4>3
    <3> QED
      BY <3>1, <3>2
  <2>5. pv[m] = pvScore[m] \/ pv[m] = -INF
    BY <1>7
  <2> HIDE DEF pv
  <2> QED
    BY <2>3, <2>4, <2>5
<1>9. Restarts(pv)
  BY <1>3 DEF StartSearch, RankAndSort, Restarts
<1>10. order[1] \in Moves /\ OrderTyped /\ WindowOK' /\ alpha' \in Int
  BY NPositive DEF LInv, OrderTyped, IInv, Typed
<1>11. OrderTyped' /\ NodeTyped' /\ ListInv'
  <2> HIDE DEF pv
  <2> QED
    BY <1>6, <1>7, <1>8, <1>9, <1>10, Restart
<1>12. SetupTyped'
  <2>1. checkmates' \in 0 .. MaxCheckmates
    BY <1>3, RootAssumption DEF LInv, SetupTyped
  <2> QED
    BY <2>1, <1>2 DEF setup, answer, LInv, SetupTyped
<1> QED
  BY <1>11, <1>12 DEF LInv

\* Iteration 1 of a root that is a mate: the list is still without any score.
LEMMA ListRootMate == IInv /\ LInv /\ RootMate => LInv'
<1> SUFFICES ASSUME IInv, LInv, RootMate PROVE LInv'
  OBVIOUS
<1>1. /\ pc = "head" /\ pc' = "judge" /\ ~stop /\ stop' = stop /\ depth = 0
      /\ UNCHANGED <<setup, order, pvScore, best, alpha, beta, bestMove, skillBest, checkmates,
                     ranks, moveCount, sAlpha>>
  BY DEF RootMate, request, list, window, answer
<1>2. OrderTyped' /\ SetupTyped'
  BY <1>1 DEF setup, LInv, OrderTyped, SetupTyped
<1>3. NodeTyped'
  BY <1>1 DEF LInv, NodeTyped
<1>4. OthersLow /\ HeadHighest /\ Unscored /\ moveCount = 0
  BY <1>1 DEF LInv, ListInv
<1>5. OthersLow' /\ HeadHighest' /\ Unscored'
  BY <1>1, <1>4 DEF OthersLow, HeadHighest, Unscored, NodeBeta
<1>6. ListInv'
  BY <1>1, <1>4, <1>5 DEF ListInv
<1> QED
  BY <1>2, <1>3, <1>6 DEF LInv

-----------------------------------------------------------------------------
THEOREM ListInvariant == Spec => []LInv
<1>1. LInv /\ IInv /\ IInv' /\ [Next]_vars => LInv'
  BY ListNextIteration, ListRootMate, ListSearchMove, ListAbortMove, ListFailHigh, ListFailLow, ListSettle,
     ListFinish, ListPoll, ListUnchanged DEF Next, Think
<1> QED
  BY <1>1, ListInit, RootInvariant, PTL DEF Spec

\* Every variable of id_loop() and of the root node keeps its type: the list is a
\* permutation of the legal moves, the window and all scores are values.
THEOREM RootTyped == Spec => []TypeOK
<1>1. IInv /\ LInv => TypeOK
  <2> SUFFICES ASSUME IInv, LInv PROVE TypeOK
    OBVIOUS
  <2>1. pvScore \in [Moves -> Values]
    BY Params DEF LInv, OrderTyped, Values
  <2>2. alpha \in Values /\ beta \in Values
    BY Params DEF IInv, Typed, WindowOK, Values
  <2> QED
    BY <2>1, <2>2 DEF TypeOK, IInv, Typed, LInv, OrderTyped, NodeTyped, SetupTyped
<1> QED
  BY <1>1, RootInvariant, ListInvariant, PTL

\* The head of the list is the best move: after a search that was not stopped its
\* score is the value of the search, and no move has a higher one, searched or not.
\* The exception is a root that is a mate itself: its first search returns with no
\* move scored, and only its first.
THEOREM HeadOfListIsBest == Spec => []HeadIsBest
<1>1. LInv => HeadIsBest
  BY DEF LInv, ListInv, Leading, HeadHighest, HeadIsBest
<1> QED
  BY <1>1, ListInvariant, PTL

\* What a stop would answer is replaced by a move that was searched to its end and is
\* better, or after the checkmate solver refuted it, or by one that ties with it.
THEOREM HeadIsKept == Spec => HeadKept
<1> DEFINE Kept == order'[1] # order[1] =>
                     \/ pvScore'[order[1]] = -INF
                     \/ pvScore'[order'[1]] = pvScore[order[1]]
                     \/ /\ moveCount' = moveCount + 1
                        /\ order'[1] = order[moveCount']
                        /\ pvScore'[order'[1]] > pvScore[order[1]]
<1>1. ASSUME LInv, LInv', NEW pv \in [Moves -> -INF .. MateIn2], Restarts(pv), ~stop,
             pc \in {"head", "judge"}, IInv, IInv',
             \A m \in Moves : pv[m] = pvScore[m] \/ pv[m] = -INF
      PROVE  Kept
  <2>1. HeadHighest /\ OrderTyped /\ WindowOK' /\ alpha' \in Int /\ beta' \in Int /\ pvScore' = pv
    BY <1>1 DEF LInv, ListInv, IInv, Typed, Restarts
  <2>2. \A m \in Moves : pv[m] <= pv[order'[1]]
    BY <1>1, <2>1, Restart
  <2>3. order[1] \in Moves /\ order'[1] \in Moves
    BY <1>1, NPositive DEF LInv, OrderTyped
  <2>4. PICK h \in Moves, g \in Moves : h = order[1] /\ g = order'[1]
    BY <2>3
  <2>5. /\ pvScore[h] \in Int /\ pvScore[g] \in Int /\ pv[h] \in Int /\ pv[g] \in Int /\ -INF <= pvScore[h]
    BY <1>1, Params DEF LInv, OrderTyped
  <2>6. pv[h] <= pv[g] /\ pvScore[g] <= pvScore[h]
    BY <2>1, <2>2, <2>4 DEF HeadHighest
  <2>7. (pv[h] = pvScore[h] \/ pv[h] = -INF) /\ (pv[g] = pvScore[g] \/ pv[g] = -INF)
    BY <1>1
  <2>8. pv[h] = -INF \/ pv[g] = pvScore[h]
    BY <2>5, <2>6, <2>7, Params
  <2> QED
    BY <2>1, <2>4, <2>8
<1>2. ASSUME IInv, LInv, LInv', SearchMove PROVE Kept
  <2> SUFFICES ASSUME order'[1] # order[1]
      PROVE  \/ pvScore'[order'[1]] = pvScore[order[1]]
             \/ /\ moveCount' = moveCount + 1
                /\ order'[1] = order[moveCount']
                /\ pvScore'[order'[1]] > pvScore[order[1]]
    OBVIOUS
  <2>1. PICK n, v, a : \E better \in BOOLEAN : Turn(n, v, a, better)
    BY <1>2, IsTurn
  <2>2. PICK better \in BOOLEAN : Turn(n, v, a, better)
    BY <2>1
  <2>3. /\ n \in 1 .. N /\ N \in Nat /\ n = moveCount + 1 /\ moveCount' = n /\ moveCount \in Nat /\ ~stop
        /\ pc = "move" /\ better
    BY <1>2, <2>2, NPositive DEF Turn, LInv, NodeTyped
  <2>4. /\ order[n] \in Moves
        /\ \A m \in Moves : m # order[n] => pvScore'[m] = pvScore[m]
        /\ \A i \in 1 .. n : \E j \in 1 .. n : order[i] = order'[j]
        /\ \A i \in 1 .. n : pvScore'[order'[i]] <= pvScore'[order'[1]]
        /\ \E j \in 1 .. n : order'[1] = order[j]
    <3>1. /\ order[n] \in Moves
          /\ \A m \in Moves : m # order[n] => pvScore'[m] = pvScore[m]
          /\ \A i \in 1 .. n : pvScore'[order'[i]] <= pvScore'[order'[1]] \/ ~better
          /\ better => \A i \in 1 .. n : \E j \in 1 .. n : order[i] = order'[j]
          /\ better => \E j \in 1 .. n : order'[1] = order[j]
      BY <1>2, <2>2, TurnTypes
    <3> QED
      BY <2>3, <3>1
  <2>5. PICK h, g : h = order[1] /\ g = order'[1]
    OBVIOUS
  <2>6. PICK j \in 1 .. n : g = order[j]
    BY <2>4, <2>5
  <2>7. n > 1 /\ 1 \in 1 .. n /\ j # 1
    BY <2>3, <2>5, <2>6
  <2>8. /\ \A m \in Moves : pvScore[m] \in Int /\ pvScore'[m] \in Int
        /\ \A i \in 1 .. N : order[i] \in Moves
        /\ \A i, k \in 1 .. N : order[i] = order[k] => i = k
    <3>1. \A m \in Moves : pvScore[m] \in Int /\ pvScore'[m] \in Int
      BY <1>2, Params DEF LInv, OrderTyped
    <3> QED
      BY <3>1, <1>2 DEF LInv, OrderTyped, IsInjective
  <2>9. /\ h \in Moves /\ g \in Moves /\ h # order[n] /\ pvScore'[h] = pvScore[h]
        /\ pvScore'[h] <= pvScore'[g]
    <3>1. h \in Moves /\ g \in Moves /\ h # order[n]
      BY <2>3, <2>5, <2>6, <2>7, <2>8
    <3>2. pvScore'[h] <= pvScore'[g]
      BY <2>4, <2>5, <2>7
    <3> QED
      BY <3>1, <3>2, <2>4
  <2>10. CASE j = n
    BY <2>3, <2>5, <2>6, <2>8, <2>9, <2>10
  <2>11. CASE j # n
    <3>1. j \in 1 .. moveCount /\ j \in 1 .. N /\ g # order[n]
      BY <2>3, <2>6, <2>8, <2>11
    <3>2. pvScore[g] <= pvScore[h]
      BY <1>2, <2>3, <2>5, <2>6, <2>7, <3>1 DEF LInv, ListInv, Leading
    <3>3. pvScore'[g] = pvScore[g]
      BY <2>4, <2>9, <3>1
    <3> QED
      BY <2>5, <2>8, <2>9, <3>2, <3>3
  <2> QED
    BY <2>10, <2>11
<1>3. ASSUME IInv, IInv', LInv, LInv', NextIteration PROVE Kept
  <2>1. PICK refuted \in SUBSET Moves : StartSearch(alpha', Refute(refuted))
    BY <1>3 DEF NextIteration
  <2>2. pc = "head" /\ ~stop
    BY <1>3 DEF NextIteration
  <2>3. /\ Refute(refuted) \in [Moves -> -INF .. MateIn2]
        /\ \A m \in Moves : Refute(refuted)[m] = pvScore[m] \/ Refute(refuted)[m] = -INF
    <3>1. pvScore \in [Moves -> -INF .. MateIn2] /\ -INF \in -INF .. MateIn2
      BY <1>3, Params DEF LInv, OrderTyped
    <3> QED
      BY <3>1 DEF Refute
  <2>4. Restarts(Refute(refuted))
    BY <2>1 DEF StartSearch, RankAndSort, Restarts
  <2> QED
    BY <1>1, <1>3, <2>2, <2>3, <2>4
<1>4. ASSUME IInv, IInv', LInv, LInv', FailHigh \/ FailLow PROVE Kept
  <2>1. PICK a, b, hit : Widen(a, b, hit)
    BY <1>4 DEF FailHigh, FailLow
  <2>2. pc = "judge" /\ ~stop
    BY <1>4 DEF FailHigh, FailLow
  <2>3. CASE Abs(bestValue) < KnownWin
    <3>1. alpha' = a /\ StartSearch(a, pvScore)
      BY <2>1, <2>3 DEF Widen
    <3>2. Restarts(pvScore)
      BY <3>1 DEF StartSearch, RankAndSort, Restarts
    <3>3. pvScore \in [Moves -> -INF .. MateIn2]
      BY <1>4 DEF LInv, OrderTyped
    <3> QED
      BY <1>1, <1>4, <2>2, <3>2, <3>3
  <2>4. CASE ~(Abs(bestValue) < KnownWin)
    BY <2>1, <2>4 DEF Widen, EndIteration, list
  <2> QED
    BY <2>3, <2>4
<1>5. ASSUME RootMate \/ AbortMove \/ Settle \/ Finish \/ Poll \/ UNCHANGED vars PROVE order' = order
  BY <1>5 DEF RootMate, AbortMove, Settle, EndIteration, Finish, Poll, PollStop, PollPonderhit, PollTime,
              vars, list
<1>6. IInv /\ IInv' /\ LInv /\ LInv' /\ [Next]_vars => [Kept]_vars
  <2> SUFFICES ASSUME IInv, IInv', LInv, LInv', Next PROVE Kept
    OBVIOUS
  <2>1. CASE RootMate \/ AbortMove \/ Settle \/ Finish \/ Poll
    <3>1. order' = order
      BY <2>1, <1>5
    <3> QED
      BY <3>1
  <2>2. CASE NextIteration
    BY <2>2, <1>3
  <2>3. CASE SearchMove
    BY <2>3, <1>2
  <2>4. CASE FailHigh \/ FailLow
    BY <2>4, <1>4
  <2> QED
    BY <2>1, <2>2, <2>3, <2>4 DEF Next, Think
<1> QED
  BY <1>6, RootInvariant, ListInvariant, PTL DEF Spec, HeadKept
=============================================================================
