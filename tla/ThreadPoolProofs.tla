-------------------------- MODULE ThreadPoolProofs --------------------------
(***************************************************************************)
(* Proofs that split() returns only when all its threads have returned,    *)
(* that the chain cutoff_occurred() walks is always in use, that a waiting *)
(* master is given work only below its own, and that the assertions of the *)
(* code hold, for any number of threads and split points.                  *)
(*                                                                         *)
(* The argument.  The flag of a slave is up exactly while it owes work     *)
(* (FlagsOK), only flags of threads the loops look at are ever up, as the  *)
(* number of threads does not change while a split point is in use         *)
(* (FlagsInUse, QuietOK); the master has done its own share when it looks  *)
(* at the flags (MasterOK), and it takes the split point's lock after it   *)
(* saw them down, so the last slave has added its nodes (JoinOK, CrewOK).  *)
(* That no split point is in use when think() changes the number of        *)
(* threads rests on the tree of split points: each is below the first one  *)
(* of thread 0, and someone works at every split point with one below it   *)
(* (Rooted).  The tree also shows where a waiting master may help: those   *)
(* who have its flag work below it, as do those they book (BookOK).        *)
(***************************************************************************)
EXTENDS ThreadPool, FiniteSetTheorems, TLAPS

-----------------------------------------------------------------------------
(* Type correctness.                                                       *)

(* A thread in the code of a split point has one, and the loop indices are *)
(* in range where they index threads[].                                    *)
PcFrame == {"booktest", "book", "order", "orderwake", "fin", "joinlock",
            "resume", "collect"}
PcIndex == {"book", "orderwake", "spin", "exitspin"}

FrameOK ==
  \A t \in Threads :
    /\ pc[t] \in PcFrame => activeSplitPoints[t] # 0
    /\ pc[t] \in PcIndex => idx[t] < MaxThreads

TypeInv == TypeOK /\ FrameOK

LEMMA ThreadZero == 0 \in Threads /\ NoSP \notin SplitPoints
  BY MaxThreadsAssumption DEF Threads, NoSP, SplitPoints

LEMMA SpType ==
  ASSUME TypeOK, NEW t \in Threads, activeSplitPoints[t] # 0
  PROVE  Sp(t) \in SplitPoints
  BY DEF TypeOK, Sp, SplitPoints

LEMMA PcMembers ==
  /\ {"none", "dead"} \subseteq PC /\ PcIdle \subseteq PC /\ PcWork \subseteq PC
  /\ PcSplit \subseteq PC /\ PcMain \subseteq PC
  BY DEF PC

LEMMA IndexType ==
  ASSUME TypeOK, NEW t \in Threads, idx[t] < MaxThreads
  PROVE  idx[t] \in Threads /\ idx[t] + 1 \in 0..MaxThreads
  BY MaxThreadsAssumption DEF TypeOK, Threads

(* A step that takes only thread t elsewhere keeps the frames in order if  *)
(* the frame and the index of t suit the place it goes to.                 *)
LEMMA GotoFrame ==
  ASSUME TypeInv, NEW t \in Threads, NEW l \in PC, Goto(t, l),
         \A u \in Threads \ {t} : /\ activeSplitPoints'[u] = activeSplitPoints[u]
                                  /\ idx'[u] = idx[u],
         l \in PcFrame => activeSplitPoints'[t] # 0,
         l \in PcIndex => idx'[t] < MaxThreads
  PROVE  pc' \in [Threads -> PC] /\ FrameOK'
  BY DEF TypeInv, TypeOK, FrameOK, Goto

LEMMA WakeFrame ==
  ASSUME TypeInv, NEW t \in Threads, NEW i, NEW l \in PC,
         WakeUp(t, i, l),
         \A u \in Threads \ {t} : /\ activeSplitPoints'[u] = activeSplitPoints[u]
                                  /\ idx'[u] = idx[u],
         l \in PcFrame => activeSplitPoints'[t] # 0,
         l \in PcIndex => idx'[t] < MaxThreads
  PROVE  pc' \in [Threads -> PC] /\ FrameOK'
  <1>1. pc' = [pc EXCEPT ![i] = IF @ = "asleep" THEN "sleeptest" ELSE @,
                         ![t] = l]
    BY DEF WakeUp
  <1>2. CASE i \notin Threads
    <2>1. Goto(t, l)
      BY <1>1, <1>2 DEF TypeInv, TypeOK, Goto
    <2> QED
      BY <2>1, GotoFrame
  <1>3. CASE i \in Threads
    <2>1. \A u \in Threads \ {t} :
            pc'[u] = pc[u] \/ pc'[u] = "sleeptest"
      BY <1>1, <1>3 DEF TypeInv, TypeOK
    <2>2. pc'[t] = l /\ pc' \in [Threads -> PC]
      <3>1. "sleeptest" \in PC
        BY PcMembers DEF PcIdle
      <3> QED
        BY <1>1, <1>3, <3>1 DEF TypeInv, TypeOK
    <2>3. \A u \in Threads :
            /\ pc'[u] \in PcFrame => activeSplitPoints'[u] # 0
            /\ pc'[u] \in PcIndex => idx'[u] < MaxThreads
      BY <2>1, <2>2 DEF TypeInv, FrameOK, PcFrame, PcIndex
    <2> QED
      BY <2>2, <2>3 DEF FrameOK
  <1> QED
    BY <1>2, <1>3

LEMMA InitTypeInv == Init => TypeInv
  <1> SUFFICES ASSUME Init PROVE TypeInv
    OBVIOUS
  <1> USE ThreadZero, MaxThreadsAssumption, MaxActiveAssumption,
          MaxSplitsAssumption
  <1>1. state \in [Threads -> ThreadState]
    BY DEF Init, ThreadState
  <1>2. pc \in [Threads -> PC]
    BY PcMembers DEF Init, PcMain
  <1>3. /\ splitPoint \in [Threads -> SplitPoints \cup {NoSP}]
        /\ activeSplitPoints \in [Threads -> 0..MaxActive]
        /\ sleepLock \in [Threads -> BOOLEAN]
        /\ tsp \in [Threads -> [0..MaxActive -> SplitPoints \cup {NoSP}]]
    BY DEF Init
  <1>4. idx \in [Threads -> 0..MaxThreads]
    BY DEF Init
  <1>5. /\ parent \in [SplitPoints -> SplitPoints \cup {NoSP}]
        /\ isSlave \in [SplitPoints -> SUBSET Threads]
        /\ nodes \in [SplitPoints -> SUBSET Threads]
        /\ crew \in [SplitPoints -> SUBSET Threads]
        /\ spLock \in [SplitPoints -> Threads \cup {Free}]
    BY DEF Init
  <1>6. /\ useSleepingThreads \in BOOLEAN
        /\ allThreadsShouldExit \in BOOLEAN
        /\ mpLock \in Threads \cup {Free}
        /\ destroyed \in SUBSET Threads
    BY DEF Init
  <1>8. activeThreads = 1 /\ budget = 0
    BY DEF Init
  <1>9. activeThreads \in 1..MaxThreads /\ budget \in 0..MaxSplits
    BY <1>8
  <1>7. FrameOK
    BY DEF FrameOK, Init, PcFrame, PcIndex
  <1> QED
    BY <1>1, <1>2, <1>3, <1>4, <1>5, <1>6, <1>7, <1>9 DEF TypeInv, TypeOK

LEMMA MainTypeInv == TypeInv /\ Main => TypeInv'
  <1> SUFFICES ASSUME TypeInv, Main PROVE TypeInv'
    OBVIOUS
  <1> USE ThreadZero, PcMembers DEF TypeInv
  <1>1. CASE Launch
    <2>1. CASE idx[0] < MaxThreads
      <3>1. pc' = [pc EXCEPT ![0] = "spin", ![idx[0]] = "top"]
        BY <1>1, <2>1 DEF Launch
      <3>2. pc' \in [Threads -> PC]
        BY <3>1 DEF TypeOK, PcMain, PcIdle
      <3>3. FrameOK'
        <4>1. idx' = idx /\ activeSplitPoints' = activeSplitPoints
          BY <1>1 DEF Launch, locals, shared
        <4> QED
          BY <2>1, <3>1, <4>1 DEF FrameOK, TypeOK, PcFrame, PcIndex
      <3> QED
        BY <1>1, <3>2, <3>3
        DEF Launch, TypeOK, shared, options, points, locks, locals
    <2>2. CASE ~(idx[0] < MaxThreads)
      <3>1. Goto(0, "uci") /\ UNCHANGED <<activeSplitPoints, idx>>
        BY <1>1, <2>2 DEF Launch, locals, shared
      <3>2. pc' \in [Threads -> PC] /\ FrameOK'
        BY <3>1, GotoFrame DEF PcMain, PcFrame, PcIndex
      <3> QED
        BY <1>1, <3>2
        DEF Launch, TypeOK, shared, options, points, locks, locals
    <2> QED
      BY <2>1, <2>2
  <1>2. CASE Launched
    <2>1. idx[0] < MaxThreads
      BY <1>2 DEF Launched, FrameOK, PcIndex
    <2>2. idx' \in [Threads -> 0..MaxThreads]
      BY <1>2, <2>1, IndexType DEF Launched, TypeOK
    <2>3. pc' \in [Threads -> PC] /\ FrameOK'
      <3>1. \A u \in Threads \ {0} : /\ activeSplitPoints'[u] = activeSplitPoints[u]
                                     /\ idx'[u] = idx[u]
        BY <1>2 DEF Launched, shared, TypeOK
      <3> QED
        BY <1>2, <3>1, GotoFrame DEF Launched, PcMain, PcFrame, PcIndex
    <2> QED
      BY <1>2, <2>2, <2>3
      DEF Launched, TypeOK, shared, options, points, locks
  <1>3. CASE Think
    <2>1. pc' \in [Threads -> PC] /\ FrameOK'
      BY <1>3, GotoFrame DEF Think, shared, locals, PcMain, PcFrame, PcIndex
    <2>2. useSleepingThreads' \in BOOLEAN
      BY <1>3, ModesAssumption DEF Think
    <2> QED
      BY <1>3, <2>1, <2>2 DEF Think, TypeOK, shared, points, locks, locals
  <1>4. CASE Resize
    <2>1. idx' \in [Threads -> 0..MaxThreads]
      BY <1>4, MaxThreadsAssumption DEF Resize, TypeOK
    <2>2. pc' \in [Threads -> PC] /\ FrameOK'
      <3>1. \A u \in Threads \ {0} : /\ activeSplitPoints'[u] = activeSplitPoints[u]
                                     /\ idx'[u] = idx[u]
        BY <1>4 DEF Resize, shared, TypeOK
      <3> QED
        BY <1>4, <3>1, GotoFrame DEF Resize, PcMain, PcFrame, PcIndex
    <2>3. activeThreads' \in 1..MaxThreads
      BY <1>4, SizesAssumption DEF Resize
    <2> QED
      BY <1>4, <2>1, <2>2, <2>3 DEF Resize, TypeOK, shared, points, locks
  <1>5. CASE Rouse
    <2>1. \A u \in Threads \ {0} : /\ activeSplitPoints'[u] = activeSplitPoints[u]
                                   /\ idx'[u] = idx[u]
      BY <1>5 DEF Rouse, shared, TypeOK
    <2>2. CASE idx[0] < activeThreads
      <3>1. idx[0] < MaxThreads
        BY <2>2, MaxThreadsAssumption DEF TypeOK
      <3>2. /\ WakeUp(0, idx[0], "rouse")
            /\ idx' = [idx EXCEPT ![0] = idx[0] + 1]
            /\ UNCHANGED budget
        BY <1>5, <2>2 DEF Rouse
      <3>3. idx[0] \in Threads /\ idx' \in [Threads -> 0..MaxThreads]
        BY <3>1, <3>2, IndexType DEF TypeOK
      <3>4. pc' \in [Threads -> PC] /\ FrameOK'
        BY <2>1, <3>2, <3>3, WakeFrame DEF PcMain, PcFrame, PcIndex
      <3> QED
        BY <1>5, <3>2, <3>3, <3>4
        DEF Rouse, TypeOK, shared, options, points, locks
    <2>3. CASE ~(idx[0] < activeThreads)
      <3>1. /\ Goto(0, "search")
            /\ budget' = MaxSplits
            /\ idx' = [idx EXCEPT ![0] = 0]
        BY <1>5, <2>3 DEF Rouse
      <3>2. idx' \in [Threads -> 0..MaxThreads] /\ budget' \in 0..MaxSplits
        BY <3>1, MaxThreadsAssumption, MaxSplitsAssumption DEF TypeOK
      <3>3. pc' \in [Threads -> PC] /\ FrameOK'
        BY <2>1, <3>1, GotoFrame DEF PcWork, PcFrame, PcIndex
      <3> QED
        BY <1>5, <3>2, <3>3 DEF Rouse, TypeOK, shared, options, points, locks
    <2> QED
      BY <2>2, <2>3
  <1>6. CASE EndThink
    <2>1. pc' \in [Threads -> PC] /\ FrameOK'
      BY <1>6, GotoFrame DEF EndThink, shared, locals, PcMain, PcFrame, PcIndex
    <2>2. activeThreads' \in 1..MaxThreads /\ budget' \in 0..MaxSplits
      BY <1>6, MaxThreadsAssumption, MaxSplitsAssumption DEF EndThink
    <2> QED
      BY <1>6, <2>1, <2>2 DEF EndThink, TypeOK, shared, points, locks, locals
  <1>7. CASE Exit
    <2>1. \A u \in Threads \ {0} : /\ activeSplitPoints'[u] = activeSplitPoints[u]
                                   /\ idx'[u] = idx[u]
      BY <1>7 DEF Exit, shared, TypeOK
    <2>2. idx' \in [Threads -> 0..MaxThreads]
      BY <1>7, MaxThreadsAssumption DEF Exit, TypeOK
    <2>3. pc' \in [Threads -> PC] /\ FrameOK'
      BY <1>7, <2>1, GotoFrame DEF Exit, PcMain, PcFrame, PcIndex
    <2> QED
      BY <1>7, <2>2, <2>3 DEF Exit, TypeOK, shared, options, points, locks
  <1>8. CASE ExitWake
    <2>1. UNCHANGED <<activeSplitPoints, idx>>
      BY <1>8 DEF ExitWake, shared, locals
    <2>2. pc' \in [Threads -> PC] /\ FrameOK'
      <3>1. CASE idx[0] >= MaxThreads
        BY <1>8, <2>1, <3>1, GotoFrame DEF ExitWake, PcMain, PcFrame, PcIndex
      <3>2. CASE ~(idx[0] >= MaxThreads)
        <4>1. idx[0] < MaxThreads
          BY <3>2, MaxThreadsAssumption DEF TypeOK
        <4>2. CASE idx[0] # 0
          BY <1>8, <2>1, <3>2, <4>1, <4>2, IndexType, WakeFrame
          DEF ExitWake, PcMain, PcFrame, PcIndex
        <4>3. CASE idx[0] = 0
          BY <1>8, <2>1, <3>2, <4>1, <4>3, GotoFrame
          DEF ExitWake, PcMain, PcFrame, PcIndex
        <4> QED
          BY <4>2, <4>3
      <3> QED
        BY <3>1, <3>2
    <2> QED
      BY <1>8, <2>2 DEF ExitWake, TypeOK, shared, options, points, locks, locals
  <1>9. CASE DestroyLocks
    <2>1. idx[0] < MaxThreads
      BY <1>9 DEF DestroyLocks, FrameOK, PcIndex
    <2>2. idx' \in [Threads -> 0..MaxThreads] /\ destroyed' \in SUBSET Threads
      BY <1>9, <2>1, IndexType DEF DestroyLocks, TypeOK
    <2>3. \A u \in Threads \ {0} : /\ activeSplitPoints'[u] = activeSplitPoints[u]
                                   /\ idx'[u] = idx[u]
      BY <1>9 DEF DestroyLocks, shared, TypeOK
    <2>4. pc' \in [Threads -> PC] /\ FrameOK'
      BY <1>9, <2>3, GotoFrame DEF DestroyLocks, PcMain, PcFrame, PcIndex
    <2> QED
      BY <1>9, <2>2, <2>4 DEF DestroyLocks, TypeOK, shared, options, points
  <1> QED
    BY <1>1, <1>2, <1>3, <1>4, <1>5, <1>6, <1>7, <1>8, <1>9 DEF Main

LEMMA SearchTypeInv ==
  ASSUME TypeInv, NEW t \in Threads,
         Split(t) \/ SplitSteps(t) \/ LeaveSteps(t) \/ SpuriousWakeup(t)
  PROVE  TypeInv'
  <1> USE PcMembers DEF TypeInv
  <1>1. CASE Split(t)
    <2> DEFINE s == <<t, activeSplitPoints[t] + 1>>
    <2>1. activeSplitPoints[t] + 1 \in 1..MaxActive
      BY <1>1, MaxActiveAssumption DEF Split, CanSplit, TypeOK
    <2>2. s \in SplitPoints
      BY <2>1 DEF SplitPoints
    <2>3. /\ parent' \in [SplitPoints -> SplitPoints \cup {NoSP}]
          /\ isSlave' \in [SplitPoints -> SUBSET Threads]
          /\ nodes' \in [SplitPoints -> SUBSET Threads]
          /\ crew' \in [SplitPoints -> SUBSET Threads]
          /\ splitPoint' \in [Threads -> SplitPoints \cup {NoSP}]
      BY <1>1, <2>2 DEF Split, TypeOK
    <2>4. /\ activeSplitPoints' \in [Threads -> 0..MaxActive]
          /\ activeSplitPoints'[t] # 0
      BY <1>1, <2>1 DEF Split, TypeOK
    <2>5. idx' \in [Threads -> 0..MaxThreads] /\ mpLock' \in Threads \cup {Free}
      BY <1>1, MaxThreadsAssumption DEF Split, TypeOK
    <2>6. budget' \in 0..MaxSplits
      BY <1>1, MaxSplitsAssumption DEF Split, TypeOK
    <2>7. \A u \in Threads \ {t} : /\ activeSplitPoints'[u] = activeSplitPoints[u]
                                   /\ idx'[u] = idx[u]
      BY <1>1 DEF Split, TypeOK
    <2>8. pc' \in [Threads -> PC] /\ FrameOK'
      BY <1>1, <2>4, <2>7, GotoFrame DEF Split, PcSplit, PcFrame, PcIndex
    <2> QED
      BY <1>1, <2>3, <2>4, <2>5, <2>6, <2>8 DEF Split, TypeOK, options
  <1>2. CASE BookTest(t)
    <2> DEFINE full == Cardinality(isSlave[Sp(t)]) + 1 >= MaxPerSplit
               more == idx' = [idx EXCEPT ![t] = idx[t] + 1] /\ UNCHANGED pc
    <2>1. /\ activeSplitPoints' = activeSplitPoints
          /\ pc[t] = "booktest"
          /\ activeSplitPoints[t] # 0
      BY <1>2 DEF BookTest, FrameOK, PcFrame, shared
    <2>2. CASE idx[t] >= activeThreads \/ full
      <3>1. /\ mpLock' = Free
            /\ idx' = [idx EXCEPT ![t] = 0]
            /\ Goto(t, "order")
        BY <1>2, <2>2 DEF BookTest
      <3>2. idx' \in [Threads -> 0..MaxThreads]
        BY <3>1, MaxThreadsAssumption DEF TypeOK
      <3>3. \A u \in Threads \ {t} : idx'[u] = idx[u]
        BY <3>1 DEF TypeOK
      <3>4. pc' \in [Threads -> PC] /\ FrameOK'
        BY <2>1, <3>1, <3>3, GotoFrame DEF PcSplit, PcFrame, PcIndex
      <3> QED
        BY <1>2, <3>1, <3>2, <3>4 DEF BookTest, TypeOK, shared, options, points
    <2>3. CASE ~(idx[t] >= activeThreads \/ full)
      <3>1. idx[t] < MaxThreads
        BY <2>3, MaxThreadsAssumption DEF TypeOK
      <3>2. \/ Goto(t, "book") /\ UNCHANGED idx
            \/ more
        BY <1>2, <2>3 DEF BookTest
      <3>3. idx' \in [Threads -> 0..MaxThreads]
        <4>1. idx[t] + 1 \in 0..MaxThreads /\ idx \in [Threads -> 0..MaxThreads]
          BY <3>1, IndexType DEF TypeOK
        <4> QED
          BY ONLY <3>2, <4>1
      <3>4. \A u \in Threads \ {t} : idx'[u] = idx[u]
        BY <3>2 DEF TypeOK
      <3>5. pc' \in [Threads -> PC] /\ FrameOK'
        <4>1. CASE Goto(t, "book") /\ UNCHANGED idx
          BY <2>1, <3>1, <4>1, GotoFrame DEF PcSplit, PcFrame, PcIndex
        <4>2. CASE more
          BY <2>1, <3>4, <4>2 DEF FrameOK, TypeOK, PcFrame, PcIndex
        <4> QED
          BY <3>2, <4>1, <4>2
      <3>6. UNCHANGED mpLock
        BY <1>2, <2>3 DEF BookTest
      <3> QED
        BY <1>2, <3>3, <3>5, <3>6 DEF BookTest, TypeOK, shared, options, points
    <2> QED
      BY <2>2, <2>3
  <1>3. CASE Book(t)
    <2>1. Sp(t) \in SplitPoints /\ idx[t] < MaxThreads
      BY <1>3, SpType DEF Book, FrameOK, PcFrame, PcIndex
    <2>2. idx[t] \in Threads /\ idx' \in [Threads -> 0..MaxThreads]
      BY <1>3, <2>1, IndexType DEF Book, TypeOK
    <2>3. /\ state' \in [Threads -> ThreadState]
          /\ splitPoint' \in [Threads -> SplitPoints \cup {NoSP}]
      BY <1>3, <2>1, <2>2 DEF Book, TypeOK, ThreadState
    <2>4. /\ isSlave' \in [SplitPoints -> SUBSET Threads]
          /\ crew' \in [SplitPoints -> SUBSET Threads]
      BY <1>3, <2>1, <2>2 DEF Book, TypeOK
    <2>5. \A u \in Threads \ {t} : idx'[u] = idx[u]
      BY <1>3 DEF Book, TypeOK
    <2>6. pc' \in [Threads -> PC] /\ FrameOK'
      BY <1>3, <2>5, GotoFrame DEF Book, PcSplit, PcFrame, PcIndex, FrameOK
    <2> QED
      BY <1>3, <2>2, <2>3, <2>4, <2>6 DEF Book, TypeOK, options, locks
  <1>4. CASE Order(t)
    <2> DEFINE more == idx' = [idx EXCEPT ![t] = idx[t] + 1]
               work == state' = [state EXCEPT ![idx[t]] = "WORKISWAITING"]
    <2>1. /\ activeSplitPoints' = activeSplitPoints
          /\ pc[t] = "order"
          /\ activeSplitPoints[t] # 0
      BY <1>4 DEF Order, FrameOK, PcFrame
    <2>2. CASE idx[t] >= activeThreads
      <3>1. Goto(t, "top") /\ idx' = [idx EXCEPT ![t] = 0] /\ UNCHANGED state
        BY <1>4, <2>2 DEF Order
      <3>2. idx' \in [Threads -> 0..MaxThreads]
        BY <3>1, MaxThreadsAssumption DEF TypeOK
      <3>3. \A u \in Threads \ {t} : idx'[u] = idx[u]
        BY <3>1 DEF TypeOK
      <3>4. pc' \in [Threads -> PC] /\ FrameOK'
        BY <2>1, <3>1, <3>3, GotoFrame DEF PcIdle, PcFrame, PcIndex
      <3> QED
        BY <1>4, <3>1, <3>2, <3>4 DEF Order, TypeOK, options, points, locks
    <2>3. CASE ~(idx[t] >= activeThreads)
      <3>1. idx[t] < MaxThreads
        BY <2>3, MaxThreadsAssumption DEF TypeOK
      <3>2. \/ work /\ Goto(t, "orderwake") /\ UNCHANGED idx
            \/ (work \/ UNCHANGED state) /\ more /\ UNCHANGED pc
        BY <1>4, <2>3 DEF Order
      <3>3. idx' \in [Threads -> 0..MaxThreads]
        <4>1. idx[t] + 1 \in 0..MaxThreads /\ idx \in [Threads -> 0..MaxThreads]
          BY <3>1, IndexType DEF TypeOK
        <4> QED
          BY ONLY <3>2, <4>1
      <3>4. state' \in [Threads -> ThreadState]
        BY <3>1, <3>2, IndexType DEF TypeOK, ThreadState
      <3>5. \A u \in Threads \ {t} : idx'[u] = idx[u]
        BY <3>2 DEF TypeOK
      <3>6. pc' \in [Threads -> PC] /\ FrameOK'
        <4>1. CASE Goto(t, "orderwake") /\ UNCHANGED idx
          BY <2>1, <3>1, <4>1, GotoFrame DEF PcSplit, PcFrame, PcIndex
        <4>2. CASE UNCHANGED pc
          BY <2>1, <3>5, <4>2 DEF FrameOK, TypeOK, PcFrame, PcIndex
        <4> QED
          BY <3>2, <4>1, <4>2
      <3> QED
        BY <1>4, <3>3, <3>4, <3>6 DEF Order, TypeOK, options, points, locks
    <2> QED
      BY <2>2, <2>3
  <1>5. CASE OrderWake(t)
    <2>1. activeSplitPoints[t] # 0 /\ idx[t] < MaxThreads
      BY <1>5 DEF OrderWake, FrameOK, PcFrame, PcIndex
    <2>2. idx[t] \in Threads /\ idx' \in [Threads -> 0..MaxThreads]
      BY <1>5, <2>1, IndexType DEF OrderWake, TypeOK
    <2>3. /\ activeSplitPoints' = activeSplitPoints
          /\ \A u \in Threads \ {t} : idx'[u] = idx[u]
      BY <1>5 DEF OrderWake, TypeOK, shared
    <2>4. pc' \in [Threads -> PC] /\ FrameOK'
      BY <1>5, <2>1, <2>2, <2>3, WakeFrame DEF OrderWake, PcSplit, PcFrame, PcIndex
    <2> QED
      BY <1>5, <2>2, <2>4 DEF OrderWake, TypeOK, shared, options, points, locks
  <1>6. CASE Collect(t)
    <2>1. activeSplitPoints[t] # 0
      BY <1>6 DEF Collect, FrameOK, PcFrame
    <2>2. splitPoint' \in [Threads -> SplitPoints \cup {NoSP}]
      BY <1>6, <2>1, SpType DEF Collect, RestoreSplitPoint, TypeOK
    <2>3. activeSplitPoints' \in [Threads -> 0..MaxActive]
      BY <1>6, <2>1, MaxActiveAssumption DEF Collect, TypeOK
    <2>4. \A u \in Threads \ {t} : /\ activeSplitPoints'[u] = activeSplitPoints[u]
                                   /\ idx'[u] = idx[u]
      BY <1>6 DEF Collect, TypeOK, locals
    <2>5. pc' \in [Threads -> PC] /\ FrameOK'
      BY <1>6, <2>4, GotoFrame DEF Collect, PcWork, PcFrame, PcIndex
    <2> QED
      BY <1>6, <2>2, <2>3, <2>5
      DEF Collect, TypeOK, options, points, locks, locals
  <1>7. CASE Leave(t)
    <2>1. /\ isSlave' \in [SplitPoints -> SUBSET Threads]
          /\ spLock' \in [SplitPoints -> Threads \cup {Free}]
      BY <1>7 DEF Leave, ClearFlag, TypeOK
    <2>2. pc' \in [Threads -> PC] /\ FrameOK'
      BY <1>7, GotoFrame DEF Leave, shared, locals, PcWork, PcFrame, PcIndex
    <2> QED
      BY <1>7, <2>1, <2>2 DEF Leave, TypeOK, shared, options, locals
  <1>8. CASE AddNodes(t)
    <2>1. /\ nodes' \in [SplitPoints -> SUBSET Threads]
          /\ spLock' \in [SplitPoints -> Threads \cup {Free}]
      BY <1>8 DEF AddNodes, TypeOK
    <2>2. pc' \in [Threads -> PC] /\ FrameOK'
      BY <1>8, GotoFrame DEF AddNodes, shared, locals, PcWork, PcFrame, PcIndex
    <2> QED
      BY <1>8, <2>1, <2>2 DEF AddNodes, TypeOK, shared, options, locals
  <1>9. CASE SpuriousWakeup(t)
    <2>1. pc' \in [Threads -> PC] /\ FrameOK'
      BY <1>9, GotoFrame DEF SpuriousWakeup, shared, locals, PcIdle, PcFrame, PcIndex
    <2> QED
      BY <1>9, <2>1
      DEF SpuriousWakeup, TypeOK, shared, options, points, locks, locals
  <1> QED
    BY <1>1, <1>2, <1>3, <1>4, <1>5, <1>6, <1>7, <1>8, <1>9
    DEF SplitSteps, LeaveSteps

LEMMA IdleTypeInv ==
  ASSUME TypeInv, NEW t \in Threads, IdleLoop(t)
  PROVE  TypeInv'
  <1> USE PcMembers DEF TypeInv
  <1>a. \A l \in PC : Goto(t, l) /\ UNCHANGED <<activeSplitPoints, idx>>
                       /\ (l \in PcFrame => activeSplitPoints[t] # 0)
                       /\ l \notin PcIndex
                       => pc' \in [Threads -> PC] /\ FrameOK'
    BY GotoFrame
  <1>b. /\ AfterWork(t) \in PC /\ AfterWork(t) \notin PcIndex
        /\ AfterWork(t) \in PcFrame => activeSplitPoints[t] # 0
    BY DEF AfterWork, Sp, PcIdle, PcFrame, PcIndex
  <1>c. \A l \in {"top", "dead", "sleeptest", "lock", "work", "retest", "asleep",
                  "search", "notify", "wake"} :
          l \in PC /\ l \notin PcFrame /\ l \notin PcIndex
    BY DEF PcIdle, PcWork, PcFrame, PcIndex
  <1>1. CASE Top(t)
    <2>1. pc' \in [Threads -> PC] /\ FrameOK'
      BY <1>1, <1>a, <1>c DEF Top, locals
    <2>2. state' \in [Threads -> ThreadState]
      BY <1>1 DEF Top, TypeOK, ThreadState
    <2> QED
      BY <1>1, <2>1, <2>2 DEF Top, TypeOK, options, points, locks, locals
  <1>2. CASE SleepTest(t)
    <2>1. pc' \in [Threads -> PC] /\ FrameOK'
      BY <1>2, <1>a, <1>c DEF SleepTest, locals
    <2>2. state' \in [Threads -> ThreadState]
      BY <1>2 DEF SleepTest, TypeOK, ThreadState
    <2> QED
      BY <1>2, <2>1, <2>2 DEF SleepTest, TypeOK, options, points, locks, locals
  <1>3. CASE TakeSleepLock(t)
    <2>1. pc' \in [Threads -> PC] /\ FrameOK'
      BY <1>3, <1>a, <1>c DEF TakeSleepLock, shared, locals
    <2>2. sleepLock' \in [Threads -> BOOLEAN]
      BY <1>3 DEF TakeSleepLock, TypeOK
    <2> QED
      BY <1>3, <2>1, <2>2
      DEF TakeSleepLock, TypeOK, shared, options, points, locals
  <1>4. CASE Retest(t)
    <2>1. pc' \in [Threads -> PC] /\ FrameOK'
      BY <1>4, <1>a, <1>c DEF Retest, shared, locals
    <2>2. sleepLock' \in [Threads -> BOOLEAN]
      BY <1>4 DEF Retest, TypeOK
    <2> QED
      BY <1>4, <2>1, <2>2 DEF Retest, TypeOK, shared, options, points, locals
  <1>5. CASE TakeWork(t)
    <2>1. pc' \in [Threads -> PC] /\ FrameOK'
      BY <1>5, <1>a, <1>b, <1>c DEF TakeWork
    <2>2. state' \in [Threads -> ThreadState]
      BY SMTT(30), <1>5 DEF TakeWork, TypeOK, ThreadState
    <2>3. tsp' \in [Threads -> [0..MaxActive -> SplitPoints \cup {NoSP}]]
      <3>1. CASE state[t] = "WORKISWAITING"
        <4>1. tsp' = [tsp EXCEPT ![t][activeSplitPoints[t]] = splitPoint[t]]
          BY <1>5, <3>1 DEF TakeWork
        <4> QED
          BY <4>1 DEF TypeOK
      <3>2. CASE state[t] # "WORKISWAITING"
        BY <1>5, <3>2 DEF TakeWork, TypeOK
      <3> QED
        BY <3>1, <3>2
    <2> QED
      BY <1>5, <2>1, <2>2, <2>3 DEF TakeWork, TypeOK, options, points, locks
  <1>d. DropTsp(t) => tsp' \in [Threads -> [0..MaxActive -> SplitPoints \cup {NoSP}]]
    BY DEF DropTsp, TypeOK
  <1>6. CASE BecomeAvailable(t)
    <2>1. pc' \in [Threads -> PC] /\ FrameOK'
      BY <1>6, <1>a, <1>b, <1>c DEF BecomeAvailable
    <2>2. state' \in [Threads -> ThreadState]
      BY <1>6 DEF BecomeAvailable, TypeOK, ThreadState
    <2>3. tsp' \in [Threads -> [0..MaxActive -> SplitPoints \cup {NoSP}]]
      BY <1>6, <1>d DEF BecomeAvailable, TypeOK
    <2> QED
      BY <1>6, <2>1, <2>2, <2>3
      DEF BecomeAvailable, TypeOK, options, points, locks
  <1>7. CASE Notify(t)
    <2>1. pc' \in [Threads -> PC] /\ FrameOK'
      BY <1>7, <1>a, <1>b, <1>c DEF Notify, shared
    <2>2. tsp' \in [Threads -> [0..MaxActive -> SplitPoints \cup {NoSP}]]
      BY <1>7, <1>d DEF Notify, TypeOK
    <2> QED
      BY <1>7, <2>1, <2>2 DEF Notify, TypeOK, shared, options, points, locks
  <1>8. CASE WakeMaster(t)
    <2>1. UNCHANGED <<activeSplitPoints, idx>>
      BY <1>8 DEF WakeMaster, shared
    <2>2. pc' \in [Threads -> PC] /\ FrameOK'
      BY <1>8, <1>b, <2>1, WakeFrame DEF WakeMaster
    <2> QED
      BY <1>8, <1>d, <2>2
      DEF WakeMaster, TypeOK, shared, options, points, locks
  <1>9. CASE TestFinished(t)
    <2>1. pc' \in [Threads -> PC] /\ FrameOK'
      BY <1>9, <1>a DEF TestFinished, shared, locals, FrameOK, PcFrame, PcIndex, PcIdle
    <2> QED
      BY <1>9, <2>1
      DEF TestFinished, TypeOK, shared, options, points, locks, locals
  <1>10. CASE JoinLock(t)
    <2>1. pc' \in [Threads -> PC] /\ FrameOK'
      BY <1>10, <1>a DEF JoinLock, shared, locals, FrameOK, PcFrame, PcIndex, PcIdle
    <2> QED
      BY <1>10, <2>1
      DEF JoinLock, TypeOK, shared, options, points, locks, locals
  <1>11. CASE Resume(t)
    <2>1. pc' \in [Threads -> PC] /\ FrameOK'
      BY <1>11, <1>a DEF Resume, locals, FrameOK, PcFrame, PcIndex, PcIdle
    <2>2. state' \in [Threads -> ThreadState]
      BY <1>11 DEF Resume, TypeOK, ThreadState
    <2> QED
      BY <1>11, <2>1, <2>2 DEF Resume, TypeOK, options, points, locks, locals
  <1> QED
    BY <1>1, <1>2, <1>3, <1>4, <1>5, <1>6, <1>7, <1>8, <1>9, <1>10, <1>11
    DEF IdleLoop

(* Type correctness of the thread pool, with the frames and loop indices   *)
(* it depends on, for any number of threads.                               *)
THEOREM TypeCorrect == Spec => []TypeOK
  <1>1. Init => TypeInv
    BY InitTypeInv
  <1>2. TypeInv /\ [Next]_vars => TypeInv'
    <2> SUFFICES ASSUME TypeInv, [Next]_vars PROVE TypeInv'
      OBVIOUS
    <2>1. CASE Main
      BY <2>1, MainTypeInv
    <2>2. CASE \E t \in Threads : \/ IdleLoop(t) \/ SplitSteps(t) \/ LeaveSteps(t)
                                  \/ Split(t) \/ SpuriousWakeup(t)
      BY <2>2, IdleTypeInv, SearchTypeInv
    <2>3. CASE UNCHANGED vars
      BY <2>3 DEF vars, shared, options, points, locks, locals, TypeInv, TypeOK,
                  FrameOK
    <2> QED
      BY <2>1, <2>2, <2>3 DEF Next, Terminated
  <1>3. TypeInv => TypeOK
    BY DEF TypeInv
  <1> QED
    BY <1>1, <1>2, <1>3, PTL DEF Spec

-----------------------------------------------------------------------------
(* Joins, cutoffs, helpful masters, assertions.                            *)

Busy(u) == state[u] \in {"BOOKED", "WORKISWAITING"}

(* Between two searches; thread 0 is in no split point. *)
Quiet == pc[0] \in PcMain

(* A thread that has left its split point, or that may sleep. *)
Gone == {"available", "notify", "wake"}
Loop == {"top", "sleeptest", "lock", "retest", "asleep", "work", "fin"}

(* What the state of a thread is at each place of its code. *)
StateOK ==
  \A t \in Threads :
    /\ pc[t] \in {"search", "leave", "available", "booktest", "book", "collect"}
         => state[t] = "SEARCHING"
    /\ pc[t] \in {"order", "orderwake"} =>
         /\ idx[t] <= t => state[t] = "SEARCHING"
         /\ idx[t] > t => state[t] = "WORKISWAITING"
    /\ pc[t] \in {"joinlock", "resume"} => state[t] = "AVAILABLE"
    /\ pc[t] \in Loop \cup {"notify", "wake"} =>
         state[t] \in {"INITIALIZING", "AVAILABLE", "BOOKED", "WORKISWAITING"}
    /\ pc[t] = "dead" => state[t] = "TERMINATED"
    /\ state[t] = "INITIALIZING" => activeSplitPoints[t] = 0
    /\ pc[t] = "none" => state[t] = "INITIALIZING"

(* Thread 0 has no idle loop of its own, and between searches no split     *)
(* point is in use.                                                        *)
QuietOK ==
  /\ Quiet => state[0] = "SEARCHING"
  /\ activeSplitPoints[0] = 0 => Quiet \/ pc[0] = "search"
  /\ allThreadsShouldExit => pc[0] \in {"exit", "exitspin", "exited"}
  /\ Quiet => splitPoint[0] = NoSP
  /\ Quiet => \A t \in Threads : activeSplitPoints[t] = 0
  /\ \A t \in Threads \ {0} : pc[t] \notin PcMain

(* The threads that init() has not created yet. *)
LaunchOK ==
  \A t \in Threads :
    /\ pc[0] \in {"launch", "spin"} => idx[0] >= 1
    /\ pc[0] = "launch" /\ t >= idx[0] => pc[t] = "none"
    /\ pc[0] = "spin" /\ t > idx[0] => pc[t] = "none"

(* The frames of a thread's stack: what each of its calls searches. *)
TspOf(u, d) ==
  /\ d > activeSplitPoints[u] => tsp[u][d] = NoSP
  /\ d = activeSplitPoints[u] /\ pc[u] \notin PcWork => tsp[u][d] = NoSP
  /\ d < activeSplitPoints[u] \/ (d = activeSplitPoints[u] /\ pc[u] \in PcWork)
       => (tsp[u][d] = NoSP <=> (u = 0 /\ d = 0))
  /\ tsp[u][d] # NoSP /\ Master(tsp[u][d]) = u => tsp[u][d] = <<u, d>>
  /\ \A e \in 0..MaxActive : d # e /\ tsp[u][d] = tsp[u][e] => tsp[u][d] = NoSP

TspOK == \A u \in Threads, d \in 0..MaxActive : TspOf(u, d)

(* Work that a thread has been given is at a split point it does not       *)
(* search yet; only a master orders itself to work at its own.             *)
BusyOK ==
  \A u \in Threads : Busy(u) =>
    /\ splitPoint[u] \in SplitPoints
    /\ \A d \in 0..MaxActive : d < activeSplitPoints[u] => tsp[u][d] # splitPoint[u]
    /\ Master(splitPoint[u]) = u =>
         splitPoint[u] = Sp(u) /\ state[u] = "WORKISWAITING"

(* The flag is_slave[u] of a split point, on which joins and helpful       *)
(* bookings are decided, is up exactly while u, a thread other than the    *)
(* master, owes it work.                                                   *)
FlagsOK ==
  \A s \in SplitPoints, u \in Threads :
    u \in isSlave[s] <=> /\ u # Master(s)
                         /\ (Assigned(u, s) \/ Searches(u, s))

(* Flags are up at split points in use only, of threads in use. *)
FlagsInUse ==
  \A s \in SplitPoints :
    /\ \A u \in isSlave[s] : InUse(s) /\ u < activeThreads
    /\ InUse(s) => Master(s) < activeThreads

(* A searching thread's splitPoint is the one it searches, and a split     *)
(* point's parent the one its master searched when it split.               *)
CallOK ==
  /\ \A t \in Threads : pc[t] \in {"search", "leave"} => splitPoint[t] = Tsp(t)
  /\ \A s \in SplitPoints : InUse(s) => parent[s] = tsp[Master(s)][s[2] - 1]

(* The booking loop: a thread that passed the test stays available to its  *)
(* master, so that at least one is booked, and those booked wait for their *)
(* order.                                                                  *)
BookOf(t) ==
  /\ pc[t] \in {"booktest", "book"} => mpLock = t
  /\ pc[t] = "book" =>
       idx[t] # t /\ IsAvailableTo(idx[t], t) /\ idx[t] < activeThreads
  /\ pc[t] = "booktest" =>
       \/ isSlave[Sp(t)] # {}
       \/ \E i \in Threads : /\ i >= idx[t] /\ i # t /\ i < activeThreads
                             /\ IsAvailableTo(i, t)
  /\ pc[t] = "order" /\ idx[t] = 0 => isSlave[Sp(t)] # {}
  /\ pc[t] = "orderwake" => idx[t] # t
  /\ pc[t] \in {"booktest", "book"} => \A i \in isSlave[Sp(t)] :
       i < idx[t] /\ state[i] = "BOOKED" /\ splitPoint[i] = Sp(t)
  /\ pc[t] \in {"order", "orderwake"} => \A i \in isSlave[Sp(t)] :
       i > idx[t] \/ (i = idx[t] /\ pc[t] = "order") =>
         state[i] = "BOOKED" /\ splitPoint[i] = Sp(t)
  /\ pc[t] \in PcSplit => splitPoint[t] = Sp(t)

BookOK == \A t \in Threads : BookOf(t)

(* A master has still to split or to do its share, or does it, or has its  *)
(* nodes counted; only in the last case it waits for its slaves.           *)
MasterOf(s) ==
  LET t == Master(s)
      last == s[2] = activeSplitPoints[t]
  IN /\ t \in nodes[s] =>
          /\ ~Assigned(t, s)
          /\ ~(last /\ pc[t] \in PcSplit)
          /\ tsp[t][s[2]] = s => last /\ pc[t] \in Gone
     /\ \/ t \in nodes[s]
        \/ tsp[t][s[2]] = s /\ (last => pc[t] \in {"search", "leave"})
        \/ last /\ pc[t] \in {"top", "sleeptest", "work"} /\ Assigned(t, s)
        \/ last /\ pc[t] \in PcSplit

MasterOK == \A s \in SplitPoints : InUse(s) => MasterOf(s)

(* A master on its way out of its idle loop: the flags are down, then no   *)
(* slave is in its last critical section.                                  *)
JoinOK ==
  \A t \in Threads :
    /\ pc[t] \in {"joinlock", "resume", "collect"} => isSlave[Sp(t)] = {}
    /\ pc[t] \in {"resume", "collect"} =>
         \A u \in Threads : ~(pc[u] = "leave" /\ Tsp(u) = Sp(t))
    /\ pc[t] = "leave" => spLock[Tsp(t)] = t /\ InUse(Tsp(t))

(* Whoever was assigned to a split point owes it work, is about to add its *)
(* nodes, or has added them.                                               *)
CrewOK ==
  \A s \in SplitPoints, u \in Threads : InUse(s) =>
    (u \in crew[s] <=> \/ u = Master(s) \/ u \in isSlave[s] \/ u \in nodes[s]
                       \/ (pc[u] = "leave" /\ Tsp(u) = s))

(* The split points in use are a tree: every one has a path from the first *)
(* of thread 0 down to it.  A master's split points lie on one path, and   *)
(* one that helps is given work only below its own split point.            *)
Below(above, u, s) ==
  /\ \A e \in 1..activeSplitPoints[u] : tsp[u][e] = s => <<u, e>> \in above[s]
  /\ Assigned(u, s) /\ activeSplitPoints[u] > 0 => Sp(u) \in above[s]

PathOf(above, s) ==
  /\ s \in above[s] /\ <<0, 1>> \in above[s]
  /\ \A j \in 1..s[2] : <<Master(s), j>> \in above[s]
  /\ parent[s] # NoSP => parent[s] \in above[s]
  /\ \A a \in above[s] :
       /\ InUse(a) /\ above[a] \subseteq above[s]
       /\ a # s => \E c \in above[s] : parent[c] = a

IsPath(above) ==
  \A s \in SplitPoints : InUse(s) =>
    PathOf(above, s) /\ \A u \in isSlave[s] : Below(above, u, s)

(* The path of a split point is the way up from it, and nothing else. *)
Closed(path) == \A c \in path : parent[c] # NoSP => parent[c] \in path

IsWayUp(above, s) ==
  /\ \A path \in SUBSET SplitPoints : s \in path /\ Closed(path) => above[s] \subseteq path
  /\ \A a \in above[s] : s \in above[a] => a = s

WaysUp(above) == \A s \in SplitPoints : InUse(s) => IsWayUp(above, s)

Rooted ==
  \E above \in [SplitPoints -> SUBSET SplitPoints] : IsPath(above) /\ WaysUp(above)

IInv ==
  /\ TypeInv
  /\ StateOK /\ QuietOK /\ LaunchOK /\ TspOK /\ BusyOK /\ FlagsOK /\ FlagsInUse /\ CallOK
  /\ BookOK /\ MasterOK /\ JoinOK /\ CrewOK /\ Rooted

-----------------------------------------------------------------------------
LEMMA Basics ==
  /\ MaxActive \in Nat \ {0} /\ MaxThreads \in Nat \ {0}
  /\ 0 \in Threads /\ NoSP \notin SplitPoints /\ Threads \subseteq Nat
  /\ \A t \in Threads : t < MaxThreads
  /\ \A s \in SplitPoints :
       s[1] \in Threads /\ s[2] \in 1..MaxActive /\ s = <<s[1], s[2]>>
  /\ \A t \in Threads, j \in 1..MaxActive : <<t, j>> \in SplitPoints
  /\ <<0, 1>> \in SplitPoints
  BY MaxThreadsAssumption, MaxActiveAssumption
  DEF Threads, NoSP, SplitPoints

(* A thread in split(), or at the end of its idle loop, has a split point. *)
LEMMA SplitFrames ==
  ASSUME IInv, NEW t \in Threads, pc[t] \in PcFrame
  PROVE  /\ Sp(t) \in SplitPoints /\ InUse(Sp(t)) /\ Master(Sp(t)) = t
         /\ isSlave[Sp(t)] \subseteq Threads /\ ~Quiet
         /\ pc[t] = "book" => idx[t] \in Threads
  <1>1. activeSplitPoints[t] # 0 /\ Sp(t) = <<t, activeSplitPoints[t]>>
    BY DEF IInv, TypeInv, FrameOK, Sp
  <1>2. Sp(t) \in SplitPoints
    BY <1>1, SpType DEF IInv, TypeInv
  <1>3. InUse(Sp(t)) /\ Master(Sp(t)) = t
    BY <1>1, <1>2, Basics DEF InUse, Master, IInv, TypeInv, TypeOK
  <1>4. pc[t] = "book" => idx[t] \in Threads
    BY IndexType DEF IInv, TypeInv, FrameOK, PcIndex
  <1> QED
    BY <1>1, <1>2, <1>3, <1>4 DEF IInv, TypeInv, TypeOK, QuietOK

(* The ways up change only where a split point is opened. *)
LEMMA WaysUpKept ==
  ASSUME NEW above, WaysUp(above), parent' = parent,
         \A s \in SplitPoints : InUse(s)' => InUse(s)
  PROVE  WaysUp(above)'
  BY DEF WaysUp, IsWayUp, Closed

(* A step that books nobody and opens or closes no split point keeps the   *)
(* tree: work goes from a thread's splitPoint to its innermost frame.      *)
LEMMA PathKept ==
  ASSUME IInv, UNCHANGED <<activeSplitPoints, parent>>,
         \A s \in SplitPoints : \A u \in isSlave'[s] :
           /\ u \in isSlave[s] /\ u \in Threads
           /\ Assigned(u, s)' => Assigned(u, s)
           /\ \A e \in 1..activeSplitPoints[u] : tsp'[u][e] = s =>
                \/ tsp[u][e] = s
                \/ e = activeSplitPoints[u] /\ Assigned(u, s)
  PROVE  Rooted'
  <1>1. PICK above \in [SplitPoints -> SUBSET SplitPoints] : IsPath(above) /\ WaysUp(above)
    BY DEF IInv, Rooted
  <1>2. \A s : InUse(s)' = InUse(s)
    BY DEF InUse
  <1>3. \A u \in Threads : Sp(u)' = Sp(u)
    BY DEF Sp
  <1>4. IsPath(above)'
    <2> SUFFICES ASSUME NEW s \in SplitPoints, InUse(s)
                 PROVE  PathOf(above, s)' /\ \A u \in isSlave'[s] : Below(above, u, s)'
      BY <1>2 DEF IsPath
    <2>1. PathOf(above, s) /\ \A u \in isSlave[s] : Below(above, u, s)
      BY <1>1 DEF IsPath
    <2>2. PathOf(above, s)'
      BY <1>2, <2>1 DEF PathOf
    <2>3. ASSUME NEW u \in isSlave'[s] PROVE Below(above, u, s)'
      <3>1. /\ u \in isSlave[s] /\ u \in Threads /\ Below(above, u, s)
            /\ Assigned(u, s)' => Assigned(u, s)
            /\ \A e \in 1..activeSplitPoints[u] : tsp'[u][e] = s =>
                 \/ tsp[u][e] = s
                 \/ e = activeSplitPoints[u] /\ Assigned(u, s)
        BY <2>1
      <3>2. \A e \in 1..activeSplitPoints[u] : e = activeSplitPoints[u] =>
              activeSplitPoints[u] > 0 /\ Sp(u) = <<u, e>>
        BY <3>1 DEF Sp
      <3> QED
        BY <3>1, <3>2, <1>3 DEF Below
    <2> QED
      BY <2>2, <2>3
  <1> QED
    BY <1>1, <1>2, <1>4, WaysUpKept DEF Rooted

(* What a thread in split() relies on is kept by the steps of the others   *)
(* that take away no flag of a booked thread and no available thread.      *)
LEMMA BookKept ==
  ASSUME IInv, NEW u \in Threads, pc'[u] = pc[u],
         pc[u] \in PcSplit => idx'[u] = idx[u] /\ splitPoint'[u] = splitPoint[u],
         pc[u] \in PcSplit => activeSplitPoints'[u] = activeSplitPoints[u],
         pc[u] \in {"booktest", "book"} => mpLock' = mpLock,
         pc[u] \in PcSplit => activeThreads' = activeThreads,
         pc[u] \in PcSplit => isSlave'[Sp(u)] \subseteq isSlave[Sp(u)],
         \A i \in Threads :
           pc[u] \in PcSplit /\ i \in isSlave[Sp(u)]
             /\ state[i] = "BOOKED" /\ splitPoint[i] = Sp(u) =>
             i \in isSlave'[Sp(u)] /\ state'[i] = "BOOKED" /\ splitPoint'[i] = splitPoint[i],
         \A i \in Threads :
           pc[u] \in {"booktest", "book"} /\ IsAvailableTo(i, u) => IsAvailableTo(i, u)'
  PROVE  BookOf(u)'
  <1> SUFFICES ASSUME pc[u] \in PcSplit PROVE BookOf(u)'
    BY DEF BookOf, PcSplit
  <1>1. /\ BookOf(u) /\ Sp(u)' = Sp(u) /\ isSlave[Sp(u)] \subseteq Threads
        /\ pc[u] = "book" => idx[u] \in Threads
    BY SplitFrames DEF IInv, BookOK, Sp, PcSplit, PcFrame
  <1>2. \A i \in isSlave[Sp(u)] : state[i] = "BOOKED" /\ splitPoint[i] = Sp(u) =>
          i \in isSlave'[Sp(u)] /\ state'[i] = "BOOKED" /\ splitPoint'[i] = splitPoint[i]
    BY <1>1
  <1>3. /\ isSlave'[Sp(u)] \subseteq isSlave[Sp(u)] /\ idx'[u] = idx[u]
        /\ splitPoint'[u] = splitPoint[u] /\ activeThreads' = activeThreads
    OBVIOUS
  <1>4. pc[u] \in {"booktest", "book"} => mpLock' = u
    BY <1>1 DEF BookOf
  <1>5. pc[u] = "book" =>
          idx[u] # u /\ IsAvailableTo(idx[u], u)' /\ idx[u] < activeThreads
    BY <1>1 DEF BookOf
  <1>6. pc[u] = "booktest" =>
          \/ isSlave'[Sp(u)] # {}
          \/ \E i \in Threads : /\ i >= idx[u] /\ i # u /\ i < activeThreads
                                /\ IsAvailableTo(i, u)'
    <2> SUFFICES ASSUME pc[u] = "booktest" PROVE
          \/ isSlave'[Sp(u)] # {}
          \/ \E i \in Threads : /\ i >= idx[u] /\ i # u /\ i < activeThreads
                                /\ IsAvailableTo(i, u)'
      OBVIOUS
    <2>1. CASE isSlave[Sp(u)] # {}
      BY <1>1, <1>2, <2>1 DEF BookOf
    <2>2. CASE isSlave[Sp(u)] = {}
      BY <1>1, <2>2 DEF BookOf
    <2> QED
      BY <2>1, <2>2
  <1>7. pc[u] = "order" /\ idx[u] = 0 => isSlave'[Sp(u)] # {}
    <2> SUFFICES ASSUME pc[u] = "order", idx[u] = 0 PROVE isSlave'[Sp(u)] # {}
      OBVIOUS
    <2>1. PICK i \in isSlave[Sp(u)] : TRUE
      BY <1>1 DEF BookOf
    <2>2. i \in Nat
      BY <1>1, Basics
    <2>3. i > idx[u] \/ i = idx[u]
      BY <2>2
    <2> QED
      BY <1>1, <1>2, <2>1, <2>3 DEF BookOf
  <1>8. /\ pc[u] \in {"booktest", "book"} => \A i \in isSlave'[Sp(u)] :
             i < idx[u] /\ state'[i] = "BOOKED" /\ splitPoint'[i] = Sp(u)
        /\ pc[u] \in {"order", "orderwake"} => \A i \in isSlave'[Sp(u)] :
             i > idx[u] \/ (i = idx[u] /\ pc[u] = "order") =>
               state'[i] = "BOOKED" /\ splitPoint'[i] = Sp(u)
    BY <1>1, <1>2, <1>3 DEF BookOf
  <1> QED
    BY <1>1, <1>3, <1>4, <1>5, <1>6, <1>7, <1>8 DEF BookOf

(* A step on which only program counters, options and indices change, in   *)
(* ways the invariant does not tell apart.                                 *)
LEMMA PcMove ==
  ASSUME IInv, TypeInv', LaunchOK', StateOK', BookOK',
         UNCHANGED <<state, splitPoint, activeSplitPoints, parent, isSlave,
                     nodes, crew, spLock, tsp>>,
         UNCHANGED activeThreads \/ (Quiet /\ Quiet'),
         allThreadsShouldExit' => pc'[0] \in {"exit", "exitspin", "exited"},
         \A u \in Threads :
           \/ pc'[u] = pc[u]
           \/ pc[u] \in PcMain /\ pc'[u] \in PcMain
           \/ pc[u] \in PcSplit /\ pc'[u] \in PcSplit
           \/ /\ pc[u] \in Loop \cup {"none"} /\ pc'[u] \in Loop
              /\ pc'[u] \in {"lock", "retest", "asleep", "fin"}
                    /\ activeSplitPoints[u] > 0
                  => u \in nodes[Sp(u)]
  PROVE  IInv'
  <1> USE Basics
  <1>0. /\ pc \in [Threads -> PC] /\ pc' \in [Threads -> PC]
        /\ activeSplitPoints \in [Threads -> 0..MaxActive]
    BY DEF IInv, TypeInv, TypeOK
  <1>a. Quiet => \A s \in SplitPoints : ~InUse(s)
    BY <1>0 DEF IInv, QuietOK, InUse, Master
  <1>2. QuietOK'
    <2>1. Quiet' <=> Quiet
      BY <1>0 DEF PcMain, PcSplit, Loop, Quiet
    <2>2. pc[0] = "search" => pc'[0] = "search"
      BY <1>0 DEF PcMain, PcSplit, Loop
    <2>3. \A t \in Threads \ {0} : pc'[t] \notin PcMain
      BY <1>0 DEF IInv, QuietOK, PcMain, PcSplit, Loop
    <2> QED
      BY <2>1, <2>2, <2>3 DEF IInv, QuietOK
  <1>3. TspOK'
    BY <1>0 DEF IInv, TspOK, TspOf, PcMain, Loop, PcSplit, PcWork
  <1>4. BusyOK'
    BY DEF IInv, BusyOK, Busy, Sp
  <1>5. FlagsOK'
    BY <1>0 DEF IInv, FlagsOK, Assigned, Searches, PcMain, PcSplit, Loop
  <1>6. FlagsInUse'
    BY <1>a DEF IInv, FlagsInUse, InUse
  <1>7. CallOK'
    BY <1>0 DEF IInv, CallOK, InUse, Tsp, PcMain, PcSplit, Loop
  <1>9. MasterOK'
    BY <1>0 DEF IInv, MasterOK, MasterOf, InUse, Assigned, Gone, Sp, PcMain, Loop, PcSplit, Master
  <1>10. JoinOK'
    <2>1. \A u \in Threads : /\ Tsp(u)' = Tsp(u) /\ Sp(u)' = Sp(u)
                             /\ InUse(Tsp(u))' = InUse(Tsp(u))
      BY DEF Tsp, Sp, InUse
    <2>2. \A u \in Threads :
            pc'[u] \in {"joinlock", "resume", "collect", "leave"} => pc'[u] = pc[u]
      BY <1>0 DEF PcMain, PcSplit, Loop
    <2> QED
      BY <2>1, <2>2 DEF IInv, JoinOK
  <1>11. CrewOK'
    BY <1>0 DEF IInv, CrewOK, InUse, Tsp, PcMain, PcSplit, Loop
  <1>12. Rooted'
    BY <1>0, PathKept DEF Assigned, IInv, TypeInv, TypeOK
  <1> QED
    BY <1>2, <1>3, <1>4, <1>5, <1>6, <1>7, <1>9, <1>10, <1>11, <1>12 DEF IInv

(* A move in the idle loop, or of thread 0 between searches, perhaps with  *)
(* a wake-up.                                                              *)
LEMMA LoopMove ==
  ASSUME IInv, TypeInv', LaunchOK',
         UNCHANGED <<state, splitPoint, activeSplitPoints, parent, isSlave,
                     nodes, crew, mpLock, spLock, tsp>>,
         UNCHANGED activeThreads \/ (Quiet /\ Quiet'),
         allThreadsShouldExit' => pc'[0] \in {"exit", "exitspin", "exited"},
         \A u \in Threads : pc[u] \in PcSplit => idx'[u] = idx[u],
         \A u \in Threads :
           \/ pc'[u] = pc[u]
           \/ pc[u] \in PcMain /\ pc'[u] \in PcMain
           \/ /\ pc[u] \in Loop \cup {"none"} /\ pc'[u] \in Loop
              /\ pc'[u] \in {"lock", "retest", "asleep", "fin"}
                    /\ activeSplitPoints[u] > 0
                  => u \in nodes[Sp(u)]
  PROVE  IInv'
  <1>1. Quiet => \A t \in Threads : pc[t] \notin PcSplit
    BY Basics DEF IInv, QuietOK, TypeInv, FrameOK, PcSplit, PcFrame
  <1>2. StateOK'
    BY Basics DEF IInv, StateOK, PcMain, Loop, PcSplit, QuietOK, Quiet
  <1>3. BookOK'
    <2> SUFFICES ASSUME NEW u \in Threads PROVE BookOf(u)'
      BY DEF BookOK
    <2>1. CASE pc[u] \in PcSplit
      <3>1. pc'[u] = pc[u] /\ activeThreads' = activeThreads
        BY <1>1, <2>1 DEF PcSplit, PcMain, Loop
      <3>2. \A i \in Threads : IsAvailableTo(i, u)' = IsAvailableTo(i, u)
        BY DEF IsAvailableTo
      <3> QED
        BY <3>1, <3>2, BookKept
    <2>2. CASE pc[u] \notin PcSplit
      BY <2>2 DEF BookOf, PcSplit, PcMain, Loop
    <2> QED
      BY <2>1, <2>2
  <1> QED
    BY <1>2, <1>3, PcMove

(* No thread is created. *)
LEMMA LaunchKept ==
  ASSUME IInv,
         \A u \in Threads : pc[u] = "none" => pc'[u] = "none",
         pc'[0] \in {"launch", "spin"} => pc'[0] = pc[0] /\ idx'[0] = idx[0]
  PROVE  LaunchOK'
  BY DEF IInv, LaunchOK

(* A master in its idle loop has its nodes counted, or its own share to do. *)
LEMMA MasterInLoop ==
  ASSUME IInv, NEW t \in Threads, activeSplitPoints[t] > 0, pc[t] \in Loop
  PROVE  /\ Sp(t) \in SplitPoints /\ InUse(Sp(t))
         /\ \/ t \in nodes[Sp(t)] /\ ~Assigned(t, Sp(t))
            \/ /\ Assigned(t, Sp(t)) /\ state[t] = "WORKISWAITING"
               /\ pc[t] \in {"top", "sleeptest", "work"}
  <1> USE Basics
  <1> DEFINE d == activeSplitPoints[t]
  <1>1. /\ d \in 1..MaxActive /\ Sp(t) = <<t, d>> /\ Sp(t) \in SplitPoints
        /\ Sp(t)[1] = t /\ Sp(t)[2] = d
    BY DEF IInv, TypeInv, TypeOK, Sp
  <1>2. InUse(Sp(t))
    BY <1>1 DEF InUse, Master
  <1>3. tsp[t][d] = NoSP
    BY <1>1 DEF IInv, TspOK, TspOf, Loop, PcWork
  <1>4. MasterOf(Sp(t))
    BY <1>1, <1>2 DEF IInv, MasterOK
  <1>5. \/ t \in nodes[Sp(t)] /\ ~Assigned(t, Sp(t))
        \/ Assigned(t, Sp(t)) /\ pc[t] \in {"top", "sleeptest", "work"}
    BY <1>1, <1>3, <1>4 DEF MasterOf, Master, Loop, PcSplit
  <1>6. Assigned(t, Sp(t)) => state[t] = "WORKISWAITING"
    BY <1>1 DEF IInv, BusyOK, Busy, Assigned, Master
  <1> QED
    BY <1>1, <1>2, <1>5, <1>6

(* A step of one thread in its idle loop. *)
LEMMA LoopStep ==
  ASSUME IInv, TypeInv', NEW t \in Threads, NEW l \in Loop,
         pc[t] \in Loop, Goto(t, l),
         l \in {"lock", "retest", "asleep", "fin"} /\ activeSplitPoints[t] > 0
           => t \in nodes[Sp(t)],
         UNCHANGED <<state, splitPoint, activeSplitPoints, parent, isSlave,
                     nodes, crew, mpLock, spLock, tsp, idx,
                     activeThreads, allThreadsShouldExit>>
  PROVE  IInv'
  <1>1. \A u \in Threads : pc'[u] = IF u = t THEN l ELSE pc[u]
    BY DEF Goto, IInv, TypeInv, TypeOK
  <1>2. LaunchOK'
    BY <1>1, LaunchKept, Basics DEF Loop
  <1>3. allThreadsShouldExit' => pc'[0] \in {"exit", "exitspin", "exited"}
    BY <1>1, Basics DEF IInv, QuietOK, Loop
  <1> QED
    BY <1>1, <1>2, <1>3, LoopMove

LEMMA TakeWorkInv ==
  ASSUME IInv, TypeInv', NEW t \in Threads, TakeWork(t)
  PROVE  IInv'
  <1> USE Basics
  <1> DEFINE d == activeSplitPoints[t]
  <1>1. CASE state[t] = "WORKISWAITING"
    <2>0. /\ pc \in [Threads -> PC] /\ pc' \in [Threads -> PC]
          /\ state \in [Threads -> ThreadState]
          /\ activeSplitPoints \in [Threads -> 0..MaxActive] /\ d \in 0..MaxActive
          /\ tsp \in [Threads -> [0..MaxActive -> SplitPoints \cup {NoSP}]]
      BY DEF IInv, TypeInv, TypeOK
    <2>1. /\ pc[t] = "work" /\ pc' = [pc EXCEPT ![t] = "search"]
          /\ state' = [state EXCEPT ![t] = "SEARCHING"]
          /\ tsp' = [tsp EXCEPT ![t][d] = splitPoint[t]]
          /\ splitPoint' = splitPoint /\ activeSplitPoints' = activeSplitPoints
          /\ activeThreads' = activeThreads /\ idx' = idx
          /\ allThreadsShouldExit' = allThreadsShouldExit
          /\ parent' = parent /\ isSlave' = isSlave /\ nodes' = nodes /\ crew' = crew
          /\ mpLock' = mpLock /\ spLock' = spLock
      BY <1>1 DEF TakeWork, Goto, options, points, locks
    <2>2. /\ splitPoint[t] \in SplitPoints /\ tsp[t][d] = NoSP
          /\ t # 0 \/ d # 0
          /\ Master(splitPoint[t]) = t => splitPoint[t] = <<t, d>>
          /\ \A e \in 0..MaxActive : e # d => tsp[t][e] # splitPoint[t]
      <3>1. /\ splitPoint[t] \in SplitPoints
            /\ \A e \in 0..MaxActive : e < d => tsp[t][e] # splitPoint[t]
            /\ Master(splitPoint[t]) = t => splitPoint[t] = Sp(t)
        BY <1>1 DEF IInv, BusyOK, Busy
      <3>2. /\ tsp[t][d] = NoSP /\ \A e \in 0..MaxActive : e > d => tsp[t][e] = NoSP
        BY <2>0, <2>1 DEF IInv, TspOK, TspOf, PcWork
      <3>3. t # 0 \/ d # 0
        BY <2>1 DEF IInv, QuietOK, Quiet, PcMain
      <3>4. Sp(t) = IF d = 0 THEN NoSP ELSE <<t, d>>
        BY DEF Sp
      <3>5. splitPoint[t] # NoSP
        BY <3>1
      <3>6. ASSUME NEW e \in 0..MaxActive, e # d PROVE tsp[t][e] # splitPoint[t]
        <4>1. e < d \/ e > d
          BY <2>0, <3>6
        <4> QED
          BY <4>1, <3>1, <3>2, <3>5
      <3>7. Master(splitPoint[t]) = t => splitPoint[t] = <<t, d>>
        BY <3>1, <3>4, <3>5
      <3> QED
        BY <3>1, <3>2, <3>3, <3>6, <3>7
    <2>3. \A u \in Threads, e \in 0..MaxActive :
            tsp'[u][e] = IF u = t /\ e = d THEN splitPoint[t] ELSE tsp[u][e]
      BY <2>0, <2>1
    <2>4. \A u \in Threads : /\ pc'[u] = IF u = t THEN "search" ELSE pc[u]
                             /\ state'[u] = IF u = t THEN "SEARCHING" ELSE state[u]
                             /\ Sp(u)' = Sp(u)
                             /\ Tsp(u)' = IF u = t THEN splitPoint[t] ELSE Tsp(u)
      BY <2>0, <2>1, <2>3 DEF Tsp, Sp
    <2>5. \A s : InUse(s)' = InUse(s)
      BY <2>1 DEF InUse
    <2> HIDE DEF d
    <2>11. StateOK'
      BY <2>1, <2>4 DEF IInv, StateOK, Loop
    <2>12. QuietOK' /\ LaunchOK'
      BY <2>1, <2>2, <2>4, LaunchKept DEF IInv, QuietOK, Quiet, PcMain
    <2>13. TspOK'
      <3> SUFFICES ASSUME NEW u \in Threads, NEW c \in 0..MaxActive PROVE TspOf(u, c)'
        BY DEF TspOK
      <3>1. \A e \in 0..MaxActive : TspOf(u, e)
        BY DEF IInv, TspOK
      <3>2. CASE u # t
        BY <3>1, <3>2, <2>0, <2>1, <2>3, <2>4 DEF TspOf
      <3>3. CASE u = t
        BY <3>1, <3>3, <2>0, <2>1, <2>2, <2>3, <2>4 DEF TspOf, PcWork, Master, d
      <3> QED
        BY <3>2, <3>3
    <2>14. BusyOK'
      BY <2>0, <2>1, <2>3, <2>4 DEF IInv, BusyOK, Busy
    <2>15. FlagsOK'
      <3> SUFFICES ASSUME NEW s \in SplitPoints, NEW u \in Threads
                   PROVE (Assigned(u, s) \/ Searches(u, s))' <=> Assigned(u, s) \/ Searches(u, s)
        BY <2>1 DEF IInv, FlagsOK
      <3>1. CASE u # t
        BY <3>1, <2>0, <2>1, <2>3, <2>4 DEF Assigned, Searches
      <3>2. CASE u = t
        <4>1. Assigned(t, s) <=> splitPoint[t] = s
          BY <1>1 DEF Assigned
        <4>2. ~Assigned(t, s)'
          BY <2>4 DEF Assigned
        <4>3. Searches(t, s) <=> \E e \in 0..d : e # d /\ tsp[t][e] = s
          BY <2>0, <2>1, <2>2 DEF Searches, d
        <4>4. Searches(t, s)' <=> \E e \in 0..d : tsp'[t][e] = s
          BY <2>0, <2>1, <2>4 DEF Searches, d
        <4>5. Searches(t, s)' <=> splitPoint[t] = s \/ Searches(t, s)
          <5>1. /\ d \in 0..d /\ tsp'[t][d] = splitPoint[t]
                /\ \A e \in 0..d : e # d => tsp'[t][e] = tsp[t][e]
            BY SMTT(30), <2>0, <2>3
          <5> QED
            BY <4>3, <4>4, <5>1
        <4> QED
          BY <3>2, <4>1, <4>2, <4>5
      <3> QED
        BY <3>1, <3>2
    <2>16. FlagsInUse'
      BY <2>1, <2>5 DEF IInv, FlagsInUse
    <2>17. CallOK'
      <3>1. \A s \in SplitPoints : InUse(s) => tsp'[Master(s)][s[2] - 1] = tsp[Master(s)][s[2] - 1]
        <4> SUFFICES ASSUME NEW s \in SplitPoints, InUse(s)
                     PROVE  tsp'[Master(s)][s[2] - 1] = tsp[Master(s)][s[2] - 1]
          OBVIOUS
        <4>1. Master(s) \in Threads /\ s[2] - 1 \in 0..MaxActive
              /\ s[2] - 1 < activeSplitPoints[Master(s)]
          BY <2>0, MaxActiveAssumption DEF InUse, Master
        <4>2. Master(s) = t => s[2] - 1 # d
          BY <4>1, <2>0 DEF d
        <4>3. tsp'[Master(s)][s[2] - 1] =
                IF Master(s) = t /\ s[2] - 1 = d THEN splitPoint[t]
                ELSE tsp[Master(s)][s[2] - 1]
          BY <4>1, <2>3
        <4> QED
          BY <4>2, <4>3
      <3> QED
        BY <2>1, <2>4, <2>5, <3>1 DEF IInv, CallOK
    <2>18. BookOK'
      <3> SUFFICES ASSUME NEW u \in Threads PROVE BookOf(u)'
        BY DEF BookOK
      <3>1. CASE u = t
        BY <3>1, <2>4 DEF BookOf, PcSplit
      <3>2. CASE u # t
        <4>1. \A i \in Threads : IsAvailableTo(i, u) => IsAvailableTo(i, u)'
          BY <1>1, <2>1, <2>4 DEF IsAvailableTo
        <4>2. \A i \in Threads : state[i] = "BOOKED" => state'[i] = "BOOKED"
          BY <1>1, <2>4
        <4> QED
          BY <3>2, <2>1, <2>4, <4>1, <4>2, BookKept
      <3> QED
        BY <3>1, <3>2
    <2>19. MasterOK'
      <3> SUFFICES ASSUME NEW s \in SplitPoints, InUse(s) PROVE MasterOf(s)'
        BY <2>5 DEF MasterOK
      <3>1. MasterOf(s)
        BY DEF IInv, MasterOK
      <3>2. Master(s) \in Threads /\ s[2] \in 0..MaxActive /\ s = <<Master(s), s[2]>>
        BY DEF Master
      <3>3. CASE Master(s) # t
        BY <3>1, <3>2, <3>3, <2>0, <2>1, <2>3, <2>4 DEF MasterOf, Assigned
      <3>4. CASE Master(s) = t
        <4>1. Assigned(t, s) <=> splitPoint[t] = s
          BY <1>1 DEF Assigned
        <4>2. ~Assigned(t, s)'
          BY <2>4 DEF Assigned
        <4>3. splitPoint[t] = s => s[2] = d
          BY <2>2, <3>4
        <4>4. tsp'[t][s[2]] = s <=> splitPoint[t] = s \/ (s[2] # d /\ tsp[t][s[2]] = s)
          BY <2>0, <2>2, <2>3, <3>2, <3>4, <4>3
        <4> QED
          BY <3>1, <3>2, <3>4, <4>1, <4>2, <4>3, <4>4, <2>1, <2>2, <2>4 DEF MasterOf, PcSplit, Gone, d
      <3> QED
        BY <3>3, <3>4
    <2>20. JoinOK'
      BY <2>1, <2>4, <2>5 DEF IInv, JoinOK
    <2>21. CrewOK'
      BY <2>1, <2>4, <2>5 DEF IInv, CrewOK
    <2>22. Rooted'
      <3> SUFFICES ASSUME NEW s \in SplitPoints, NEW u \in isSlave'[s]
                   PROVE  /\ u \in isSlave[s] /\ u \in Threads
                          /\ Assigned(u, s)' => Assigned(u, s)
                          /\ \A e \in 1..activeSplitPoints[u] : tsp'[u][e] = s =>
                               \/ tsp[u][e] = s
                               \/ e = activeSplitPoints[u] /\ Assigned(u, s)
        BY <2>1, PathKept
      <3>1. u \in isSlave[s] /\ u \in Threads
        BY <2>1 DEF IInv, TypeInv, TypeOK
      <3> QED
        BY <3>1, <1>1, <2>0, <2>1, <2>3, <2>4 DEF Assigned, d
    <2> QED
      BY <2>11, <2>12, <2>13, <2>14, <2>15, <2>16, <2>17, <2>18, <2>19, <2>20, <2>21, <2>22 DEF IInv
  <1>2. CASE state[t] # "WORKISWAITING"
    <2>1. /\ pc[t] = "work" /\ Goto(t, AfterWork(t))
          /\ UNCHANGED <<state, splitPoint, activeSplitPoints, parent, isSlave,
                         nodes, crew, mpLock, spLock, tsp, idx,
                         activeThreads, allThreadsShouldExit>>
      BY <1>2 DEF TakeWork, options, points, locks
    <2>2. activeSplitPoints[t] > 0 => t \in nodes[Sp(t)]
      BY <1>2, <2>1, MasterInLoop DEF Loop
    <2>3. AfterWork(t) \in Loop
      BY DEF AfterWork, Loop
    <2> QED
      BY <2>1, <2>2, <2>3, LoopStep DEF Loop
  <1> QED
    BY <1>1, <1>2

LEMMA TopInv ==
  ASSUME IInv, TypeInv', NEW t \in Threads, Top(t), ~allThreadsShouldExit
  PROVE  IInv'
  BY LoopStep DEF Top, Loop, options, points, locks, locals

LEMMA SleepTestInv ==
  ASSUME IInv, TypeInv', NEW t \in Threads, SleepTest(t), state[t] # "INITIALIZING"
  PROVE  IInv'
  <1>1. /\ pc[t] = "sleeptest" /\ Goto(t, IF SleepCondition(t) THEN "lock" ELSE "work")
        /\ UNCHANGED <<splitPoint, activeSplitPoints, parent, isSlave, nodes,
                       crew, mpLock, spLock, tsp, idx, activeThreads,
                       allThreadsShouldExit>>
        /\ state' = state
    BY DEF SleepTest, options, points, locks, locals, IInv, TypeInv, TypeOK
  <1>2. SleepCondition(t) /\ activeSplitPoints[t] > 0 => t \in nodes[Sp(t)]
    <2> SUFFICES ASSUME SleepCondition(t), activeSplitPoints[t] > 0
                 PROVE  t \in nodes[Sp(t)]
      OBVIOUS
    <2>1. /\ Sp(t) \in SplitPoints /\ InUse(Sp(t))
          /\ t \in nodes[Sp(t)] \/ state[t] = "WORKISWAITING"
      BY <1>1, MasterInLoop DEF Loop
    <2>2. Master(Sp(t)) = t
      BY DEF Sp, Master, IInv, TypeInv, TypeOK
    <2>3. t < activeThreads
      BY <2>1, <2>2 DEF IInv, FlagsInUse
    <2>4. t \in Nat /\ activeThreads \in Nat
      BY Basics DEF IInv, TypeInv, TypeOK
    <2> QED
      BY <2>1, <2>3, <2>4 DEF SleepCondition
  <1> QED
    BY <1>1, <1>2, LoopStep DEF Loop

LEMMA TakeSleepLockInv ==
  ASSUME IInv, TypeInv', NEW t \in Threads, TakeSleepLock(t)
  PROVE  IInv'
  <1>1. /\ pc[t] = "lock" /\ Goto(t, IF StayAwake(t) THEN "work" ELSE "retest")
        /\ UNCHANGED <<state, splitPoint, activeSplitPoints, parent, isSlave,
                       nodes, crew, mpLock, spLock, tsp, idx, activeThreads,
                       allThreadsShouldExit>>
    BY DEF TakeSleepLock, shared, options, points, locals
  <1>2. activeSplitPoints[t] > 0 => t \in nodes[Sp(t)]
    BY <1>1, MasterInLoop DEF Loop
  <1> QED
    BY <1>1, <1>2, LoopStep DEF Loop

LEMMA RetestInv ==
  ASSUME IInv, TypeInv', NEW t \in Threads, Retest(t)
  PROVE  IInv'
  <1>1. /\ pc[t] = "retest" /\ \E l \in {"asleep", "sleeptest"} : Goto(t, l)
        /\ UNCHANGED <<state, splitPoint, activeSplitPoints, parent, isSlave,
                       nodes, crew, mpLock, spLock, tsp, idx, activeThreads,
                       allThreadsShouldExit>>
    BY DEF Retest, shared, options, points, locals
  <1>2. activeSplitPoints[t] > 0 => t \in nodes[Sp(t)]
    BY <1>1, MasterInLoop DEF Loop
  <1> QED
    BY <1>1, <1>2, LoopStep DEF Loop

LEMMA SpuriousWakeupInv ==
  ASSUME IInv, TypeInv', NEW t \in Threads, SpuriousWakeup(t)
  PROVE  IInv'
  BY LoopStep DEF SpuriousWakeup, Loop, shared, options, points, locks, locals

LEMMA TestFinishedInv ==
  ASSUME IInv, TypeInv', NEW t \in Threads, TestFinished(t), ~AllFinished(Sp(t))
  PROVE  IInv'
  BY LoopStep DEF TestFinished, Loop, shared, options, points, locks, locals

LEMMA WakeEffect ==
  ASSUME TypeInv, NEW t \in Threads, NEW i, NEW l, WakeUp(t, i, l)
  PROVE  /\ pc'[t] = l
         /\ \A u \in Threads \ {t} :
              pc'[u] = pc[u] \/ (pc[u] = "asleep" /\ pc'[u] = "sleeptest")
         /\ \A u \in Threads \ {t} : pc[u] # "asleep" => pc'[u] = pc[u]
  BY DEF WakeUp, TypeInv, TypeOK

(* A step of thread 0 between two searches. *)
LEMMA MainMove ==
  ASSUME IInv, TypeInv', LaunchOK', pc[0] \in PcMain, pc'[0] \in PcMain,
         \A u \in Threads \ {0} :
           \/ pc'[u] = pc[u]
           \/ pc[u] = "asleep" /\ pc'[u] = "sleeptest"
           \/ pc[u] = "none" /\ pc'[u] = "top",
         UNCHANGED <<state, splitPoint, activeSplitPoints, parent, isSlave,
                     nodes, crew, mpLock, spLock, tsp>>,
         \A u \in Threads \ {0} : idx'[u] = idx[u],
         allThreadsShouldExit' => pc'[0] \in {"exit", "exitspin", "exited"}
  PROVE  IInv'
  <1>1. \A u \in Threads : pc[u] \in PcSplit => idx'[u] = idx[u]
    BY DEF PcSplit, PcMain
  <1>2. Quiet /\ Quiet'
    BY DEF Quiet
  <1>3. \A u \in Threads :
           \/ pc'[u] = pc[u]
           \/ pc[u] \in PcMain /\ pc'[u] \in PcMain
           \/ /\ pc[u] \in Loop \cup {"none"} /\ pc'[u] \in Loop
              /\ pc'[u] \in {"lock", "retest", "asleep", "fin"}
                    /\ activeSplitPoints[u] > 0
                  => u \in nodes[Sp(u)]
    BY DEF Loop
  <1> QED
    BY <1>1, <1>2, <1>3, LoopMove

LEMMA LaunchInv == IInv /\ TypeInv' /\ (Launch \/ Launched) => IInv'
  <1> USE Basics
  <1>1. ASSUME IInv, TypeInv', Launch PROVE IInv'
    <2>1. /\ pc[0] = "launch" /\ idx' = idx
          /\ UNCHANGED <<state, splitPoint, activeSplitPoints, parent, isSlave,
                         nodes, crew, mpLock, spLock, tsp>>
          /\ UNCHANGED allThreadsShouldExit
      BY <1>1 DEF Launch, shared, points, locks, locals
    <2>2. ~allThreadsShouldExit
      BY <1>1, <2>1 DEF IInv, QuietOK
    <2>3. pc \in [Threads -> PC] /\ idx \in [Threads -> 0..MaxThreads]
      BY <1>1 DEF IInv, TypeInv, TypeOK
    <2>4. CASE idx[0] < MaxThreads
      <3>1. idx[0] \in Threads /\ idx[0] # 0 /\ pc[idx[0]] = "none"
        BY <1>1, <2>1, <2>3, <2>4 DEF IInv, LaunchOK, Threads
      <3>2. pc' = [pc EXCEPT ![0] = "spin", ![idx[0]] = "top"]
        BY <1>1, <2>4 DEF Launch
      <3>3. /\ pc'[0] = "spin" /\ pc'[idx[0]] = "top"
            /\ \A u \in Threads : u # 0 /\ u # idx[0] => pc'[u] = pc[u]
        BY <2>3, <3>1, <3>2
      <3>4. LaunchOK'
        BY <1>1, <2>1, <2>3, <3>1, <3>3 DEF IInv, LaunchOK
      <3> QED
        BY <1>1, <2>1, <2>2, <3>1, <3>3, <3>4, MainMove DEF PcMain
    <2>5. CASE ~(idx[0] < MaxThreads)
      <3>1. pc' = [pc EXCEPT ![0] = "uci"]
        BY <1>1, <2>5 DEF Launch, Goto
      <3>2. pc'[0] = "uci" /\ \A u \in Threads \ {0} : pc'[u] = pc[u]
        BY <2>3, <3>1
      <3>3. LaunchOK'
        BY <3>2 DEF LaunchOK
      <3> QED
        BY <1>1, <2>1, <2>2, <3>2, <3>3, MainMove DEF PcMain
    <2> QED
      BY <2>4, <2>5
  <1>2. ASSUME IInv, TypeInv', Launched PROVE IInv'
    <2>1. /\ pc[0] = "spin" /\ pc' = [pc EXCEPT ![0] = "launch"]
          /\ idx' = [idx EXCEPT ![0] = idx[0] + 1]
          /\ UNCHANGED <<state, splitPoint, activeSplitPoints, parent, isSlave,
                         nodes, crew, mpLock, spLock, tsp>>
          /\ UNCHANGED allThreadsShouldExit
      BY <1>2 DEF Launched, Goto, shared, points, locks
    <2>2. ~allThreadsShouldExit
      BY <1>2, <2>1 DEF IInv, QuietOK
    <2>3. pc \in [Threads -> PC] /\ idx \in [Threads -> 0..MaxThreads]
      BY <1>2 DEF IInv, TypeInv, TypeOK
    <2>4. /\ pc'[0] = "launch" /\ idx'[0] = idx[0] + 1
          /\ \A u \in Threads \ {0} : pc'[u] = pc[u] /\ idx'[u] = idx[u]
      BY <2>1, <2>3
    <2>5. idx[0] >= 1 /\ \A u \in Threads : u > idx[0] => pc[u] = "none"
      BY <1>2, <2>1 DEF IInv, LaunchOK
    <2>6. LaunchOK'
      BY <2>3, <2>4, <2>5 DEF LaunchOK
    <2> QED
      BY <1>2, <2>1, <2>2, <2>4, <2>6, MainMove DEF PcMain
  <1> QED
    BY <1>1, <1>2

LEMMA ThinkInv == IInv /\ TypeInv' /\ (Think \/ Resize) => IInv'
  <1> USE Basics
  <1> SUFFICES ASSUME IInv, TypeInv', Think \/ Resize PROVE IInv'
    OBVIOUS
  <1>1. /\ pc[0] \in {"uci", "resize"} /\ \E l \in {"resize", "rouse"} : Goto(0, l)
        /\ \A u \in Threads \ {0} : idx'[u] = idx[u]
        /\ UNCHANGED <<state, splitPoint, activeSplitPoints, parent, isSlave,
                       nodes, crew, mpLock, spLock, tsp>>
        /\ UNCHANGED allThreadsShouldExit
    BY DEF Think, Resize, shared, points, locks, locals, IInv, TypeInv, TypeOK
  <1>2. /\ pc'[0] \in {"resize", "rouse"}
        /\ \A u \in Threads \ {0} : pc'[u] = pc[u]
    BY <1>1 DEF Goto, IInv, TypeInv, TypeOK
  <1>3. ~allThreadsShouldExit
    BY <1>1 DEF IInv, QuietOK
  <1>4. LaunchOK'
    BY <1>2 DEF LaunchOK
  <1> QED
    BY <1>1, <1>2, <1>3, <1>4, MainMove DEF PcMain

LEMMA RouseWakeInv ==
  ASSUME IInv, TypeInv', Rouse, idx[0] < activeThreads
  PROVE  IInv'
  <1> USE Basics
  <1>1. /\ pc[0] = "rouse" /\ WakeUp(0, idx[0], "rouse")
        /\ \A u \in Threads \ {0} : idx'[u] = idx[u]
        /\ UNCHANGED <<state, splitPoint, activeSplitPoints, parent, isSlave,
                       nodes, crew, mpLock, spLock, tsp>>
        /\ UNCHANGED allThreadsShouldExit
    BY DEF Rouse, shared, points, locks, IInv, TypeInv, TypeOK
  <1>2. /\ pc'[0] = "rouse"
        /\ \A u \in Threads \ {0} :
             pc'[u] = pc[u] \/ (pc[u] = "asleep" /\ pc'[u] = "sleeptest")
    BY <1>1, WakeEffect DEF IInv
  <1>3. ~allThreadsShouldExit
    BY <1>1 DEF IInv, QuietOK
  <1>4. LaunchOK'
    BY <1>2 DEF LaunchOK
  <1> QED
    BY <1>1, <1>2, <1>3, <1>4, MainMove DEF PcMain

LEMMA ExitInv == IInv /\ TypeInv' /\ (Exit \/ ExitWake \/ DestroyLocks) => IInv'
  <1> USE Basics
  <1> SUFFICES ASSUME IInv, TypeInv', Exit \/ ExitWake \/ DestroyLocks PROVE IInv'
    OBVIOUS
  <1>1. /\ pc[0] \in {"uci", "exit", "exitspin"}
        /\ \/ \E l \in {"exit", "exitspin", "exited"} : Goto(0, l)
           \/ WakeUp(0, idx[0], "exitspin")
        /\ \A u \in Threads \ {0} : idx'[u] = idx[u]
        /\ UNCHANGED <<state, splitPoint, activeSplitPoints, parent, isSlave,
                       nodes, crew, mpLock, spLock, tsp>>
    BY DEF Exit, ExitWake, DestroyLocks, shared, points, locks, locals, IInv,
           TypeInv, TypeOK
  <1>2. /\ pc'[0] \in {"exit", "exitspin", "exited"}
        /\ \A u \in Threads \ {0} :
             pc'[u] = pc[u] \/ (pc[u] = "asleep" /\ pc'[u] = "sleeptest")
    <2>1. CASE WakeUp(0, idx[0], "exitspin")
      BY <2>1, WakeEffect DEF IInv
    <2>2. CASE \E l \in {"exit", "exitspin", "exited"} : Goto(0, l)
      BY <2>2 DEF Goto, IInv, TypeInv, TypeOK
    <2> QED
      BY <1>1, <2>1, <2>2
  <1>3. LaunchOK'
    BY <1>2 DEF LaunchOK
  <1> QED
    BY <1>1, <1>2, <1>3, MainMove DEF PcMain

(* A step of one thread outside split() and search() that has no work. *)
LEMMA IdleMove ==
  ASSUME IInv, TypeInv', NEW t \in Threads, ~Busy(t), ~Busy(t)',
         \A u \in Threads \ {t} : pc'[u] = pc[u] /\ state'[u] = state[u],
         pc[t] \notin PcWork \cup PcSplit \cup PcMain \cup {"none"},
         pc'[t] \notin PcWork \cup PcSplit \cup PcMain \cup {"none"},
         activeSplitPoints[t] > 0 => t \in nodes[Sp(t)],
         \A u \in Threads \ {t} : pc[u] \in {"booktest", "book"} =>
           \A i \in Threads : IsAvailableTo(i, u) => IsAvailableTo(i, u)',
         UNCHANGED <<splitPoint, activeSplitPoints, parent, isSlave, nodes,
                     crew, mpLock, spLock, tsp, idx, activeThreads,
                     allThreadsShouldExit>>,
         StateOK', JoinOK'
  PROVE  IInv'
  <1> USE Basics
  <1>0. /\ activeSplitPoints \in [Threads -> 0..MaxActive]
        /\ tsp \in [Threads -> [0..MaxActive -> SplitPoints \cup {NoSP}]]
    BY DEF IInv, TypeInv, TypeOK
  <1>1. \A u \in Threads, s \in SplitPoints :
          /\ Assigned(u, s)' <=> Assigned(u, s)
          /\ Searches(u, s)' <=> Searches(u, s)
    <2> SUFFICES ASSUME NEW u \in Threads, NEW s \in SplitPoints
                 PROVE  /\ Assigned(u, s)' <=> Assigned(u, s)
                        /\ Searches(u, s)' <=> Searches(u, s)
      OBVIOUS
    <2>1. CASE u # t
      BY <2>1 DEF Assigned, Searches
    <2>2. CASE u = t
      BY <2>2 DEF Assigned, Searches, Busy, PcWork
    <2> QED
      BY <2>1, <2>2
  <1>2. /\ \A s : InUse(s)' = InUse(s)
        /\ \A u \in Threads : Sp(u)' = Sp(u) /\ Tsp(u)' = Tsp(u)
    BY DEF InUse, Sp, Tsp
  <1>3. t = 0 => activeSplitPoints[0] # 0
    BY DEF IInv, QuietOK, Quiet, PcWork
  <1>4. QuietOK' /\ LaunchOK'
    <2>1. Quiet' <=> Quiet
      BY DEF Quiet
    <2>2. Quiet => t # 0
      BY DEF Quiet
    <2>3. QuietOK'
      BY <1>3, <2>1, <2>2 DEF IInv, QuietOK, PcMain
    <2>4. LaunchOK'
      BY LaunchKept DEF PcMain
    <2> QED
      BY <2>3, <2>4
  <1>5. TspOK'
    <2> SUFFICES ASSUME NEW u \in Threads, NEW d \in 0..MaxActive PROVE TspOf(u, d)'
      BY DEF TspOK
    <2>1. TspOf(u, d) /\ (pc'[u] \in PcWork <=> pc[u] \in PcWork)
      BY DEF IInv, TspOK
    <2> QED
      BY <2>1 DEF TspOf
  <1>6. BusyOK'
    BY <1>2 DEF IInv, BusyOK, Busy
  <1>7. FlagsOK' /\ FlagsInUse'
    <2>1. FlagsOK'
      BY <1>1 DEF IInv, FlagsOK
    <2>2. FlagsInUse'
      BY <1>2 DEF IInv, FlagsInUse
    <2> QED
      BY <2>1, <2>2
  <1>8. CallOK'
    BY <1>2 DEF IInv, CallOK, PcWork
  <1>9. BookOK'
    <2> SUFFICES ASSUME NEW u \in Threads PROVE BookOf(u)'
      BY DEF BookOK
    <2>1. CASE u = t
      BY <2>1 DEF BookOf, PcSplit
    <2>2. CASE u # t
      <3>1. pc[u] \in PcSplit /\ t \in isSlave[Sp(u)] => state[t] # "BOOKED"
        BY DEF Busy
      <3> QED
        BY <2>2, <3>1, BookKept
    <2> QED
      BY <2>1, <2>2
  <1>10. MasterOK'
    <2> SUFFICES ASSUME NEW s \in SplitPoints, InUse(s) PROVE MasterOf(s)'
      BY <1>2 DEF MasterOK
    <2>1. MasterOf(s) /\ Master(s) \in Threads /\ s = <<Master(s), s[2]>>
      BY DEF IInv, MasterOK, Master
    <2>2. CASE Master(s) # t
      BY <1>1, <2>1, <2>2 DEF MasterOf
    <2>3. CASE Master(s) = t
      <3>1. s[2] = activeSplitPoints[t] => t \in nodes[s] /\ tsp[t][s[2]] = NoSP
        <4> SUFFICES ASSUME s[2] = activeSplitPoints[t]
                     PROVE  t \in nodes[s] /\ tsp[t][s[2]] = NoSP
          OBVIOUS
        <4>1. activeSplitPoints[t] > 0 /\ Sp(t) = s
          BY <1>0, <2>1, <2>3 DEF InUse, Sp
        <4>2. TspOf(t, activeSplitPoints[t])
          BY <1>0 DEF IInv, TspOK
        <4> QED
          BY <4>1, <4>2 DEF TspOf
      <3> QED
        BY <1>1, <2>1, <2>3, <3>1 DEF MasterOf
    <2> QED
      BY <2>2, <2>3
  <1>11. CrewOK'
    BY <1>2 DEF IInv, CrewOK, PcWork
  <1>12. Rooted'
    <2>1. isSlave \in [SplitPoints -> SUBSET Threads]
      BY DEF IInv, TypeInv, TypeOK
    <2> QED
      BY <1>1, <2>1, PathKept
  <1> QED
    BY <1>4, <1>5, <1>6, <1>7, <1>8, <1>9, <1>10, <1>11, <1>12 DEF IInv

LEMMA TopExitInv ==
  ASSUME IInv, TypeInv', NEW t \in Threads, Top(t), allThreadsShouldExit
  PROVE  IInv'
  <1> USE Basics
  <1>1. /\ pc[t] = "top" /\ pc' = [pc EXCEPT ![t] = "dead"]
        /\ state' = [state EXCEPT ![t] = "TERMINATED"]
        /\ UNCHANGED <<splitPoint, activeSplitPoints, parent, isSlave, nodes,
                       crew, mpLock, spLock, tsp, idx, activeThreads,
                       allThreadsShouldExit>>
    BY DEF Top, Goto, options, points, locks, locals
  <1>2. \A u \in Threads : /\ pc'[u] = IF u = t THEN "dead" ELSE pc[u]
                           /\ state'[u] = IF u = t THEN "TERMINATED" ELSE state[u]
    BY <1>1 DEF IInv, TypeInv, TypeOK
  <1>3. Quiet /\ activeSplitPoints[t] = 0
    BY DEF IInv, QuietOK, Quiet, PcMain
  <1>4. \A s \in SplitPoints : ~InUse(s)
    BY <1>3 DEF IInv, QuietOK, InUse, Master
  <1>5. ~Busy(t)
    <2>1. SUFFICES ASSUME Busy(t) PROVE FALSE
      OBVIOUS
    <2>2. splitPoint[t] \in SplitPoints /\ Master(splitPoint[t]) # t
      BY <1>3, <2>1 DEF IInv, BusyOK, Sp
    <2>3. t \in isSlave[splitPoint[t]]
      BY <2>1, <2>2 DEF IInv, FlagsOK, Assigned, Busy
    <2> QED
      BY <1>4, <2>2, <2>3 DEF IInv, FlagsInUse
  <1>6. StateOK'
    BY <1>1, <1>2 DEF IInv, StateOK, Loop
  <1>7. JoinOK'
    BY <1>1, <1>2 DEF IInv, JoinOK, Tsp, Sp, InUse
  <1>8. \A u \in Threads \ {t} : pc[u] \notin {"booktest", "book"}
    BY <1>3 DEF IInv, QuietOK, TypeInv, FrameOK, PcFrame
  <1> QED
    BY <1>1, <1>2, <1>3, <1>5, <1>6, <1>7, <1>8, IdleMove
    DEF Busy, PcWork, PcSplit, PcMain

LEMMA FirstSleepInv ==
  ASSUME IInv, TypeInv', NEW t \in Threads, SleepTest(t), state[t] = "INITIALIZING"
  PROVE  IInv'
  <1> USE Basics
  <1>1. /\ pc[t] = "sleeptest" /\ pc' = [pc EXCEPT ![t] = "lock"]
        /\ state' = [state EXCEPT ![t] = "AVAILABLE"]
        /\ UNCHANGED <<splitPoint, activeSplitPoints, parent, isSlave, nodes,
                       crew, mpLock, spLock, tsp, idx, activeThreads,
                       allThreadsShouldExit>>
    BY DEF SleepTest, SleepCondition, Goto, options, points, locks, locals,
           IInv, TypeInv, TypeOK
  <1>2. \A u \in Threads : /\ pc'[u] = IF u = t THEN "lock" ELSE pc[u]
                           /\ state'[u] = IF u = t THEN "AVAILABLE" ELSE state[u]
    BY <1>1 DEF IInv, TypeInv, TypeOK
  <1>3. activeSplitPoints[t] = 0
    BY DEF IInv, StateOK
  <1>4. StateOK'
    BY <1>1, <1>2 DEF IInv, StateOK, Loop
  <1>5. JoinOK'
    BY <1>1, <1>2 DEF IInv, JoinOK, Tsp, Sp, InUse
  <1>6. \A u, i \in Threads : IsAvailableTo(i, u) => IsAvailableTo(i, u)'
    BY <1>1, <1>2 DEF IsAvailableTo
  <1> QED
    BY <1>1, <1>2, <1>3, <1>4, <1>5, <1>6, IdleMove
    DEF Busy, PcWork, PcSplit, PcMain

(* A master at the end of its idle loop has its nodes counted. *)
LEMMA MasterAtEnd ==
  ASSUME IInv, NEW t \in Threads,
         pc[t] \in {"fin", "joinlock", "resume", "collect"}
  PROVE  t \in nodes[Sp(t)] /\ tsp[t][activeSplitPoints[t]] = NoSP
  <1>1. /\ Sp(t) \in SplitPoints /\ InUse(Sp(t)) /\ Master(Sp(t)) = t
        /\ Sp(t) = <<t, activeSplitPoints[t]>> /\ Sp(t)[2] = activeSplitPoints[t]
        /\ activeSplitPoints[t] \in 0..MaxActive
    BY SplitFrames DEF PcFrame, Sp, IInv, TypeInv, TypeOK, FrameOK
  <1>2. tsp[t][activeSplitPoints[t]] = NoSP
    BY <1>1 DEF IInv, TspOK, TspOf, PcWork
  <1>3. MasterOf(Sp(t))
    BY <1>1 DEF IInv, MasterOK
  <1> QED
    BY <1>1, <1>2, <1>3, Basics DEF MasterOf, PcSplit

(* A split point in use whose parent is s is searched for: its master is   *)
(* in a call on s.                                                         *)
LEMMA ChildSearches ==
  ASSUME IInv, NEW s \in SplitPoints, NEW c \in SplitPoints, InUse(c), parent[c] = s
  PROVE  Master(c) \in isSlave[s] \/ (Master(c) = Master(s) /\ s[2] < activeSplitPoints[Master(s)])
  <1> USE Basics
  <1> DEFINE m == Master(c)
  <1>1. /\ m \in Threads /\ c[2] \in 1..MaxActive /\ c[2] <= activeSplitPoints[m]
        /\ activeSplitPoints[m] \in 0..MaxActive
    BY DEF InUse, Master, IInv, TypeInv, TypeOK
  <1>2. tsp[m][c[2] - 1] = s /\ c[2] - 1 \in 0..activeSplitPoints[m] /\ c[2] - 1 \in 0..MaxActive
        /\ c[2] - 1 < activeSplitPoints[m]
    BY <1>1 DEF IInv, CallOK
  <1>3. Searches(m, s)
    BY <1>1, <1>2 DEF Searches
  <1>4. CASE m # Master(s)
    BY <1>1, <1>3, <1>4 DEF IInv, FlagsOK
  <1>5. CASE m = Master(s)
    <2>1. TspOf(m, c[2] - 1)
      BY <1>1, <1>2 DEF IInv, TspOK
    <2>2. s = <<m, c[2] - 1>>
      BY <1>2, <1>5, <2>1 DEF TspOf
    <2> QED
      BY <1>2, <1>5, <2>2
  <1> QED
    BY <1>4, <1>5

(* Below a split point whose flags are all down none is in use. *)
LEMMA NothingBelow ==
  ASSUME IInv, NEW t \in Threads, activeSplitPoints[t] > 0, isSlave[Sp(t)] = {},
         NEW s \in SplitPoints, InUse(s), s # Sp(t),
         NEW above \in [SplitPoints -> SUBSET SplitPoints], IsPath(above)
  PROVE  Sp(t) \notin above[s]
  <1> USE Basics
  <1>1. /\ Sp(t) \in SplitPoints /\ Master(Sp(t)) = t
        /\ Sp(t)[2] = activeSplitPoints[t]
    BY DEF Sp, Master, IInv, TypeInv, TypeOK
  <1>2. SUFFICES ASSUME Sp(t) \in above[s] PROVE FALSE
    OBVIOUS
  <1>3. PICK c \in above[s] : parent[c] = Sp(t)
    BY <1>2 DEF IsPath, PathOf
  <1>4. c \in SplitPoints /\ InUse(c)
    BY DEF IsPath, PathOf
  <1>5. activeSplitPoints[t] \in Nat
    BY DEF IInv, TypeInv, TypeOK
  <1> QED
    BY <1>1, <1>3, <1>4, <1>5, ChildSearches

(* A master whose slaves have finished has been given no other work, as    *)
(* that would be work below its split point.                               *)
LEMMA FinishedIsFree ==
  ASSUME IInv, NEW t \in Threads, pc[t] = "fin", AllFinished(Sp(t))
  PROVE  isSlave[Sp(t)] = {} /\ state[t] = "AVAILABLE"
  <1> USE Basics
  <1>1. /\ Sp(t) \in SplitPoints /\ InUse(Sp(t)) /\ Master(Sp(t)) = t
        /\ isSlave[Sp(t)] \subseteq Threads /\ activeSplitPoints[t] > 0
    BY SMTT(30), SplitFrames DEF PcFrame, IInv, TypeInv, TypeOK, FrameOK
  <1>2. isSlave[Sp(t)] = {}
    BY <1>1 DEF AllFinished, IInv, FlagsInUse
  <1>3. t \in nodes[Sp(t)]
    BY MasterAtEnd
  <1>4. ~Busy(t)
    <2>1. SUFFICES ASSUME Busy(t) PROVE FALSE
      OBVIOUS
    <2> DEFINE s == splitPoint[t]
    <2>2. s \in SplitPoints /\ Assigned(t, s)
      BY <2>1 DEF IInv, BusyOK, Busy, Assigned
    <2>3. ~Assigned(t, Sp(t))
      BY <1>1, <1>3 DEF IInv, MasterOK, MasterOf
    <2>4. s # Sp(t) /\ Master(s) # t
      BY <2>1, <2>2, <2>3 DEF IInv, BusyOK
    <2>5. t \in isSlave[s]
      BY <2>2, <2>4 DEF IInv, FlagsOK
    <2>6. InUse(s)
      BY <2>2, <2>5 DEF IInv, FlagsInUse
    <2>7. PICK above \in [SplitPoints -> SUBSET SplitPoints] : IsPath(above)
      BY DEF IInv, Rooted
    <2>8. Sp(t) \in above[s]
      BY <1>1, <2>2, <2>5, <2>6, <2>7 DEF IsPath, Below
    <2> QED
      BY <1>1, <1>2, <2>2, <2>4, <2>6, <2>7, <2>8, NothingBelow
  <1>5. state[t] \in {"INITIALIZING", "AVAILABLE", "BOOKED", "WORKISWAITING"}
    BY DEF IInv, StateOK, Loop
  <1>6. state[t] # "INITIALIZING"
    BY <1>1 DEF IInv, StateOK
  <1> QED
    BY <1>2, <1>4, <1>5, <1>6 DEF Busy

LEMMA JoinInv ==
  ASSUME IInv, TypeInv', NEW t \in Threads,
         \/ TestFinished(t) /\ AllFinished(Sp(t))
         \/ JoinLock(t)
         \/ Resume(t)
  PROVE  IInv'
  <1> USE Basics
  <1>1. /\ \/ /\ pc[t] = "fin" /\ AllFinished(Sp(t))
              /\ pc' = [pc EXCEPT ![t] = "joinlock"] /\ state' = state
           \/ /\ pc[t] = "joinlock" /\ spLock[Sp(t)] = Free
              /\ pc' = [pc EXCEPT ![t] = "resume"] /\ state' = state
           \/ /\ pc[t] = "resume" /\ pc' = [pc EXCEPT ![t] = "collect"]
              /\ state' = [state EXCEPT ![t] = "SEARCHING"]
        /\ UNCHANGED <<splitPoint, activeSplitPoints, parent, isSlave, nodes,
                       crew, mpLock, spLock, tsp, idx, activeThreads,
                       allThreadsShouldExit>>
    BY DEF TestFinished, JoinLock, Resume, Goto, shared, options, points, locks, locals
  <1>2. /\ \A u \in Threads \ {t} : pc'[u] = pc[u] /\ state'[u] = state[u]
        /\ \/ pc[t] = "fin" /\ pc'[t] = "joinlock" /\ state'[t] = state[t]
           \/ pc[t] = "joinlock" /\ pc'[t] = "resume" /\ state'[t] = state[t]
           \/ pc[t] = "resume" /\ pc'[t] = "collect" /\ state'[t] = "SEARCHING"
    BY <1>1 DEF IInv, TypeInv, TypeOK
  <1>3. state[t] = "AVAILABLE" /\ isSlave[Sp(t)] = {}
    BY <1>1, FinishedIsFree DEF IInv, StateOK, JoinOK
  <1>4. t \in nodes[Sp(t)] /\ activeSplitPoints[t] > 0
    <2>1. t \in nodes[Sp(t)] /\ pc[t] \in PcFrame
      BY <1>2, MasterAtEnd DEF PcFrame
    <2>2. activeSplitPoints[t] # 0 /\ activeSplitPoints[t] \in 0..MaxActive
      BY <2>1 DEF IInv, TypeInv, TypeOK, FrameOK
    <2> QED
      BY <2>1, <2>2
  <1>5. Sp(t) \in SplitPoints
    BY <1>2, SplitFrames DEF PcFrame
  <1>6. StateOK'
    BY <1>1, <1>2, <1>3, <1>4 DEF IInv, StateOK, Loop
  <1>7. JoinOK'
    <2>1. \A u \in Threads : /\ Sp(u)' = Sp(u) /\ Tsp(u)' = Tsp(u)
                             /\ InUse(Tsp(u))' = InUse(Tsp(u))
      BY <1>1 DEF Sp, Tsp, InUse
    <2>2. \A u \in Threads : pc'[u] = "leave" <=> pc[u] = "leave"
      BY <1>2
    <2>3. pc[t] = "joinlock" => \A u \in Threads : ~(pc[u] = "leave" /\ Tsp(u) = Sp(t))
      <3> SUFFICES ASSUME pc[t] = "joinlock", NEW u \in Threads, pc[u] = "leave",
                          Tsp(u) = Sp(t)
                   PROVE  FALSE
        OBVIOUS
      <3>1. spLock[Sp(t)] = u
        BY DEF IInv, JoinOK
      <3>2. u # MaxThreads
        BY DEF Threads
      <3> QED
        BY <1>1, <1>2, <3>1, <3>2 DEF Free
    <2>4. pc[t] = "resume" => \A u \in Threads : ~(pc[u] = "leave" /\ Tsp(u) = Sp(t))
      BY DEF IInv, JoinOK
    <2> QED
      BY <1>1, <1>2, <1>3, <2>1, <2>2, <2>3, <2>4 DEF IInv, JoinOK
  <1>8. \A u \in Threads, i \in Threads : IsAvailableTo(i, u) => IsAvailableTo(i, u)'
    <2> SUFFICES ASSUME NEW u \in Threads, NEW i \in Threads, IsAvailableTo(i, u)
                 PROVE  IsAvailableTo(i, u)'
      OBVIOUS
    <2>1. i # t
      BY <1>3, <1>4 DEF IsAvailableTo, Sp
    <2> QED
      BY <1>1, <1>2, <2>1 DEF IsAvailableTo
  <1> QED
    BY <1>1, <1>2, <1>3, <1>4, <1>6, <1>7, <1>8, IdleMove
    DEF Busy, PcWork, PcSplit, PcMain

(* Dropping tsp: the end of a launch.  The thread has no flag up for the   *)
(* split point it left.                                                    *)
LEMMA DropMove ==
  ASSUME IInv, TypeInv', NEW t \in Threads, pc[t] \in Gone,
         \/ pc'[t] = AfterWork(t) /\ DropTsp(t)
         \/ pc'[t] \in Gone /\ tsp' = tsp,
         \A u \in Threads \ {t} :
           \/ pc'[u] = pc[u]
           \/ pc[u] = "asleep" /\ pc'[u] = "sleeptest",
         \A u \in Threads \ {t} : state'[u] = state[u],
         \/ state'[t] = state[t] /\ pc[t] # "available"
         \/ state'[t] = "AVAILABLE" /\ pc[t] = "available",
         pc'[t] # "available",
         UNCHANGED <<splitPoint, activeSplitPoints, parent, isSlave, nodes,
                     crew, mpLock, spLock, idx, activeThreads,
                     allThreadsShouldExit>>
  PROVE  IInv'
  <1> USE Basics
  <1> DEFINE d == activeSplitPoints[t]
  <1>0. /\ activeSplitPoints \in [Threads -> 0..MaxActive] /\ d \in 0..MaxActive
        /\ tsp \in [Threads -> [0..MaxActive -> SplitPoints \cup {NoSP}]]
    BY DEF IInv, TypeInv, TypeOK
  <1>a. /\ \A s : InUse(s)' = InUse(s)
        /\ \A u \in Threads : Sp(u)' = Sp(u)
        /\ Sp(t) = IF d = 0 THEN NoSP ELSE <<t, d>>
        /\ \A u \in Threads \ {t} : Tsp(u)' = Tsp(u)
    BY <1>0 DEF InUse, Sp, Tsp, DropTsp
  <1>b. t = 0 => d # 0
    BY DEF IInv, QuietOK, Quiet, PcMain, Gone
  <1>c. /\ pc[t] = "available" => state[t] = "SEARCHING"
        /\ pc[t] # "available" => state[t] \in {"INITIALIZING", "AVAILABLE", "BOOKED", "WORKISWAITING"}
    BY DEF IInv, StateOK, Gone
  <1>d. \A u \in Threads : \A s : Assigned(u, s)' <=> Assigned(u, s)
    BY <1>c DEF Assigned
  <1>e. \A u \in Threads, e \in 0..MaxActive :
          \/ tsp'[u][e] = tsp[u][e]
          \/ u = t /\ e = d /\ tsp'[u][e] = NoSP /\ pc'[t] = AfterWork(t)
    <2>1. CASE tsp' = tsp
      BY <2>1
    <2>2. CASE pc'[t] = AfterWork(t) /\ DropTsp(t)
      <3>1. tsp' = [tsp EXCEPT ![t][d] = NoSP]
        BY <2>2 DEF DropTsp
      <3>2. \A u \in Threads, e \in 0..MaxActive :
              tsp'[u][e] = IF u = t /\ e = d THEN NoSP ELSE tsp[u][e]
        BY <1>0, <3>1
      <3> QED
        BY <2>2, <3>2
    <2> QED
      BY <2>1, <2>2
  <1>f. pc'[t] = AfterWork(t) \/ (pc'[t] \in Gone /\ pc'[t] # "available")
    OBVIOUS
  <1>g. AfterWork(t) \in {"top", "fin"} /\ (AfterWork(t) = "fin" => d # 0)
    BY <1>a DEF AfterWork
  <1>h. pc'[t] \in {"top", "fin", "notify", "wake"}
    BY <1>f, <1>g DEF Gone
  <1>i. pc[t] \in {"available", "notify", "wake"}
    BY DEF Gone
  <1> HIDE DEF d
  <1>1. StateOK'
    BY <1>c, <1>h, <1>i DEF IInv, StateOK, Loop, Gone, d
  <1>2. QuietOK' /\ LaunchOK'
    <2>1. Quiet' <=> Quiet
      BY <1>h, <1>i DEF Quiet, PcMain
    <2>2. QuietOK'
      BY <1>b, <1>h, <1>i, <2>1 DEF IInv, QuietOK, PcMain, d
    <2>3. LaunchOK'
      BY <1>h, <1>i, LaunchKept
    <2> QED
      BY <2>2, <2>3
  <1>3. TspOK'
    <2> SUFFICES ASSUME NEW u \in Threads, NEW c \in 0..MaxActive PROVE TspOf(u, c)'
      BY DEF TspOK
    <2>1. TspOf(u, c)
      BY DEF IInv, TspOK
    <2>2. CASE u # t
      BY <2>1, <2>2, <1>e DEF TspOf, PcWork
    <2>3. CASE u = t /\ tsp' = tsp /\ pc'[t] \in Gone
      BY <2>1, <2>3, <1>i DEF TspOf, PcWork, Gone
    <2>4. CASE u = t /\ pc'[t] = AfterWork(t) /\ DropTsp(t)
      <3>1. /\ pc'[t] \notin PcWork /\ pc[t] \in PcWork
            /\ \A e \in 0..MaxActive : tsp'[t][e] = IF e = d THEN NoSP ELSE tsp[t][e]
        BY <2>4, <1>0, <1>g, <1>i DEF PcWork, DropTsp, d
      <3> QED
        BY <2>1, <2>4, <3>1 DEF TspOf, d
    <2> QED
      BY <2>2, <2>3, <2>4
  <1>4. BusyOK'
    <2> SUFFICES ASSUME NEW u \in Threads, Busy(u)'
                 PROVE  /\ splitPoint[u] \in SplitPoints
                        /\ \A e \in 0..MaxActive : e < activeSplitPoints[u] => tsp'[u][e] # splitPoint[u]
                        /\ Master(splitPoint[u]) = u => splitPoint[u] = Sp(u) /\ state'[u] = "WORKISWAITING"
      BY <1>a DEF BusyOK
    <2>1. Busy(u) /\ state'[u] = state[u]
      BY <1>c DEF Busy
    <2>2. splitPoint[u] # NoSP
      BY <2>1 DEF IInv, BusyOK
    <2> QED
      BY <2>1, <2>2, <1>e DEF IInv, BusyOK
  <1>5. \A u \in Threads, s \in SplitPoints : Searches(u, s)' <=> Searches(u, s)
    <2> SUFFICES ASSUME NEW u \in Threads, NEW s \in SplitPoints
                 PROVE  Searches(u, s)' <=> Searches(u, s)
      OBVIOUS
    <2>1. CASE u # t
      <3>1. \A e \in 0..activeSplitPoints[u] : tsp'[u][e] = tsp[u][e]
        BY SMTT(30), <2>1, <1>0, <1>e
      <3>2. pc'[u] \notin {"leave", "available", "notify", "wake"} <=>
              pc[u] \notin {"leave", "available", "notify", "wake"}
        BY <2>1
      <3> QED
        BY <3>1, <3>2 DEF Searches
    <2>2. CASE u = t
      <3>0. 0..d \subseteq 0..MaxActive
        BY <1>0
      <3>1. \A e \in 0..d : e # d => tsp'[t][e] = tsp[t][e]
        BY <3>0, <1>e
      <3>2. tsp'[t][d] = s => pc'[t] \in Gone
        BY <1>0, <1>e, <1>f DEF DropTsp, d
      <3>3. Searches(t, s)' <=> \E e \in 0..d : e # d /\ tsp'[t][e] = s
        BY <3>2, <1>0 DEF Searches, Gone, d
      <3>4. Searches(t, s) <=> \E e \in 0..d : e # d /\ tsp[t][e] = s
        BY <1>0, <1>i DEF Searches, d
      <3> QED
        BY <2>2, <3>1, <3>3, <3>4
    <2> QED
      BY <2>1, <2>2
  <1>6. FlagsOK'
    BY <1>d, <1>5 DEF IInv, FlagsOK
  <1>7. FlagsInUse'
    BY <1>a DEF IInv, FlagsInUse
  <1>8. CallOK'
    <2>1. \A u \in Threads : pc'[u] \in {"search", "leave"} =>
            u # t /\ pc[u] \in {"search", "leave"}
      BY <1>h
    <2>2. ASSUME NEW s \in SplitPoints, InUse(s)
          PROVE  tsp'[Master(s)][s[2] - 1] = tsp[Master(s)][s[2] - 1]
      <3>1. Master(s) \in Threads /\ s[2] - 1 \in 0..MaxActive
            /\ s[2] - 1 < activeSplitPoints[Master(s)]
        BY <1>0, <2>2 DEF InUse, Master
      <3>2. Master(s) = t => s[2] - 1 # d
        BY <3>1, <1>0 DEF d
      <3> QED
        BY <3>1, <3>2, <1>e
    <2> QED
      BY <1>a, <2>1, <2>2 DEF IInv, CallOK
  <1>9. BookOK'
    <2> SUFFICES ASSUME NEW u \in Threads PROVE BookOf(u)'
      BY DEF BookOK
    <2>1. CASE u = t
      BY <2>1, <1>h DEF BookOf, PcSplit
    <2>2. CASE u # t /\ pc'[u] # pc[u]
      BY <2>2 DEF BookOf, PcSplit
    <2>3. CASE u # t /\ pc'[u] = pc[u]
      <3>1. \A i \in Threads : IsAvailableTo(i, u) => IsAvailableTo(i, u)'
        BY <1>c DEF IsAvailableTo
      <3>2. \A i \in Threads : state[i] = "BOOKED" => state'[i] = "BOOKED"
        BY <1>c
      <3> QED
        BY <2>3, <3>1, <3>2, BookKept
    <2> QED
      BY <2>1, <2>2, <2>3
  <1>10. MasterOK'
    <2> SUFFICES ASSUME NEW s \in SplitPoints, InUse(s) PROVE MasterOf(s)'
      BY <1>a DEF MasterOK
    <2>1. MasterOf(s) /\ Master(s) \in Threads /\ s = <<Master(s), s[2]>>
          /\ s[2] \in 0..MaxActive
      BY DEF IInv, MasterOK, Master
    <2>2. CASE Master(s) # t
      <3>1. /\ tsp'[Master(s)][s[2]] = tsp[Master(s)][s[2]]
            /\ \/ pc'[Master(s)] = pc[Master(s)]
               \/ pc[Master(s)] = "asleep" /\ pc'[Master(s)] = "sleeptest"
        BY <2>1, <2>2, <1>e
      <3> QED
        BY <1>d, <2>1, <2>2, <3>1 DEF MasterOf, Gone, PcSplit
    <2>3. CASE Master(s) = t
      <3>1. /\ s[2] # d => tsp'[t][s[2]] = tsp[t][s[2]]
            /\ s[2] = d => (tsp'[t][s[2]] = s => pc'[t] \in Gone)
        BY <2>1, <1>e, <1>f, <1>0 DEF DropTsp, d
      <3>2. s[2] = d => t \in nodes[s]
        BY <2>1, <2>3, <1>i DEF MasterOf, PcSplit, d
      <3> QED
        BY <1>d, <1>h, <2>1, <2>3, <3>1, <3>2 DEF MasterOf, PcSplit, d
    <2> QED
      BY <2>2, <2>3
  <1>11. JoinOK'
    <2>1. \A u \in Threads :
            pc'[u] \in {"joinlock", "resume", "collect", "leave"} =>
              u # t /\ pc'[u] = pc[u]
      BY <1>h
    <2> QED
      BY <1>a, <2>1 DEF IInv, JoinOK
  <1>12. CrewOK'
    <2>1. \A u \in Threads : pc'[u] = "leave" \/ pc[u] = "leave" =>
                               u # t /\ pc'[u] = pc[u]
      BY <1>h, <1>i
    <2> QED
      BY <1>a, <2>1 DEF IInv, CrewOK
  <1>13. Rooted'
    <2>1. isSlave \in [SplitPoints -> SUBSET Threads]
      BY DEF IInv, TypeInv, TypeOK
    <2>2. \A u \in Threads : \A e \in 1..activeSplitPoints[u] : e \in 0..MaxActive
      BY <1>0
    <2> SUFFICES ASSUME NEW s \in SplitPoints, NEW u \in isSlave'[s]
                 PROVE  /\ u \in isSlave[s] /\ u \in Threads
                        /\ Assigned(u, s)' => Assigned(u, s)
                        /\ \A e \in 1..activeSplitPoints[u] : tsp'[u][e] = s =>
                             \/ tsp[u][e] = s
                             \/ e = activeSplitPoints[u] /\ Assigned(u, s)
      BY PathKept
    <2>3. u \in isSlave[s] /\ u \in Threads
      BY <2>1
    <2>4. \A e \in 1..activeSplitPoints[u] : tsp'[u][e] = tsp[u][e] \/ tsp'[u][e] = NoSP
      BY <1>e, <2>2, <2>3
    <2> QED
      BY <1>d, <2>3, <2>4
  <1> QED
    BY <1>1, <1>2, <1>3, <1>4, <1>6, <1>7, <1>8, <1>9, <1>10, <1>11, <1>12, <1>13 DEF IInv

LEMMA EndLaunchInv ==
  ASSUME IInv, TypeInv', NEW t \in Threads,
         BecomeAvailable(t) \/ Notify(t) \/ WakeMaster(t)
  PROVE  IInv'
  <1> USE Basics
  <1>0. /\ pc \in [Threads -> PC] /\ state \in [Threads -> ThreadState]
    BY DEF IInv, TypeInv, TypeOK
  <1>1. CASE BecomeAvailable(t)
    <2>1. /\ pc[t] = "available" /\ state' = [state EXCEPT ![t] = "AVAILABLE"]
          /\ \/ pc' = [pc EXCEPT ![t] = "notify"] /\ tsp' = tsp
             \/ pc' = [pc EXCEPT ![t] = AfterWork(t)] /\ DropTsp(t)
          /\ UNCHANGED <<splitPoint, activeSplitPoints, parent, isSlave, nodes,
                         crew, mpLock, spLock, idx, activeThreads,
                         allThreadsShouldExit>>
      BY <1>1 DEF BecomeAvailable, Goto, options, points, locks
    <2>2. /\ state'[t] = "AVAILABLE"
          /\ \A u \in Threads \ {t} : pc'[u] = pc[u] /\ state'[u] = state[u]
          /\ \/ pc'[t] = "notify" /\ tsp' = tsp
             \/ pc'[t] = AfterWork(t) /\ DropTsp(t)
      BY <1>0, <2>1
    <2> QED
      BY <2>1, <2>2, DropMove DEF Gone, AfterWork
  <1>2. CASE Notify(t)
    <2>1. /\ pc[t] = "notify" /\ state' = state
          /\ \/ pc' = [pc EXCEPT ![t] = "wake"] /\ tsp' = tsp
             \/ pc' = [pc EXCEPT ![t] = AfterWork(t)] /\ DropTsp(t)
          /\ UNCHANGED <<splitPoint, activeSplitPoints, parent, isSlave, nodes,
                         crew, mpLock, spLock, idx, activeThreads,
                         allThreadsShouldExit>>
      BY <1>2 DEF Notify, Goto, shared, options, points, locks
    <2>2. /\ \A u \in Threads \ {t} : pc'[u] = pc[u]
          /\ \/ pc'[t] = "wake" /\ tsp' = tsp
             \/ pc'[t] = AfterWork(t) /\ DropTsp(t)
      BY <1>0, <2>1
    <2> QED
      BY <2>1, <2>2, DropMove DEF Gone, AfterWork
  <1>3. CASE WakeMaster(t)
    <2>1. /\ pc[t] = "wake" /\ state' = state /\ DropTsp(t)
          /\ WakeUp(t, Master(Tsp(t)), AfterWork(t))
          /\ UNCHANGED <<splitPoint, activeSplitPoints, parent, isSlave, nodes,
                         crew, mpLock, spLock, idx, activeThreads,
                         allThreadsShouldExit>>
      BY <1>3 DEF WakeMaster, shared, options, points, locks
    <2>2. /\ \A u \in Threads \ {t} :
               pc'[u] = pc[u] \/ (pc[u] = "asleep" /\ pc'[u] = "sleeptest")
          /\ pc'[t] = AfterWork(t)
      BY <2>1, WakeEffect DEF IInv
    <2> QED
      BY <2>1, <2>2, DropMove DEF Gone, AfterWork
  <1> QED
    BY <1>1, <1>2, <1>3

(* A thread in search() on a split point has its flag up, if it is not the *)
(* master, and the split point is in use.                                  *)
LEMMA SearchedInUse ==
  ASSUME IInv, NEW t \in Threads, pc[t] = "search", Tsp(t) # NoSP
  PROVE  /\ Tsp(t) \in SplitPoints /\ InUse(Tsp(t))
         /\ t # Master(Tsp(t)) => t \in isSlave[Tsp(t)]
         /\ t = Master(Tsp(t)) => Tsp(t) = <<t, activeSplitPoints[t]>>
  <1> USE Basics
  <1> DEFINE d == activeSplitPoints[t]
  <1>1. d \in 0..MaxActive /\ Tsp(t) = tsp[t][d] /\ Tsp(t) \in SplitPoints
    BY DEF Tsp, IInv, TypeInv, TypeOK
  <1>2. Searches(t, Tsp(t))
    BY <1>1 DEF Searches
  <1>3. t # Master(Tsp(t)) => t \in isSlave[Tsp(t)]
    BY <1>1, <1>2 DEF IInv, FlagsOK
  <1>4. t = Master(Tsp(t)) => Tsp(t) = <<t, d>>
    BY <1>1 DEF IInv, TspOK, TspOf
  <1>5. InUse(Tsp(t))
    <2>1. CASE t # Master(Tsp(t))
      BY <1>1, <1>3, <2>1 DEF IInv, FlagsInUse
    <2>2. CASE t = Master(Tsp(t))
      BY <1>1, <1>4, <2>2 DEF InUse, Master
    <2> QED
      BY <2>1, <2>2
  <1> QED
    BY <1>1, <1>3, <1>4, <1>5

LEMMA LeaveInv ==
  ASSUME IInv, TypeInv', NEW t \in Threads, Leave(t)
  PROVE  IInv'
  <1> USE Basics
  <1> DEFINE s0 == Tsp(t)
             d == activeSplitPoints[t]
  <1>0. /\ pc \in [Threads -> PC] /\ isSlave \in [SplitPoints -> SUBSET Threads]
        /\ activeSplitPoints \in [Threads -> 0..MaxActive] /\ d \in 0..MaxActive
        /\ spLock \in [SplitPoints -> Threads \cup {Free}]
    BY DEF IInv, TypeInv, TypeOK
  <1>1. /\ pc[t] = "search" /\ s0 # NoSP /\ spLock[s0] = Free
        /\ pc' = [pc EXCEPT ![t] = "leave"]
        /\ spLock' = [spLock EXCEPT ![s0] = t]
        /\ isSlave' = [isSlave EXCEPT ![s0] = isSlave[s0] \ {t}]
        /\ UNCHANGED <<state, splitPoint, activeSplitPoints, parent, nodes, crew,
                       mpLock, tsp, idx, activeThreads, allThreadsShouldExit>>
    BY DEF Leave, ClearFlag, Goto, shared, options, locals
  <1>2. /\ s0 \in SplitPoints /\ InUse(s0) /\ s0 = tsp[t][d]
        /\ t # Master(s0) => t \in isSlave[s0]
        /\ t = Master(s0) => s0 = <<t, d>>
    BY <1>1, SearchedInUse DEF Tsp
  <1>3. /\ \A u \in Threads : pc'[u] = IF u = t THEN "leave" ELSE pc[u]
        /\ \A s \in SplitPoints : isSlave'[s] = IF s = s0 THEN isSlave[s] \ {t} ELSE isSlave[s]
        /\ \A s \in SplitPoints : spLock'[s] = IF s = s0 THEN t ELSE spLock[s]
    BY <1>0, <1>1, <1>2
  <1>4. /\ \A s : InUse(s)' = InUse(s)
        /\ \A u \in Threads : Sp(u)' = Sp(u) /\ Tsp(u)' = Tsp(u)
        /\ \A u \in Threads : \A s : Assigned(u, s)' <=> Assigned(u, s)
    BY <1>1 DEF InUse, Sp, Tsp, Assigned
  <1>5. state[t] = "SEARCHING"
    BY <1>1 DEF IInv, StateOK
  <1> HIDE DEF s0, d
  <1>6. \A u \in Threads, s \in SplitPoints :
          Searches(u, s)' <=> Searches(u, s) /\ ~(u = t /\ s = s0)
    <2> SUFFICES ASSUME NEW u \in Threads, NEW s \in SplitPoints
                 PROVE  Searches(u, s)' <=> Searches(u, s) /\ ~(u = t /\ s = s0)
      OBVIOUS
    <2>1. CASE u # t
      BY <2>1, <1>1, <1>3 DEF Searches
    <2>2. CASE u = t
      <3>1. Searches(t, s) <=> \E e \in 0..d : tsp[t][e] = s
        BY <1>1 DEF Searches, d
      <3>2. Searches(t, s)' <=> \E e \in 0..d : e # d /\ tsp[t][e] = s
        BY <1>1, <1>3 DEF Searches, d
      <3>3. \A e \in 0..d : e # d => tsp[t][e] # s0
        <4> SUFFICES ASSUME NEW e \in 0..d, e # d PROVE tsp[t][e] # s0
          OBVIOUS
        <4>1. e \in 0..MaxActive
          BY <1>0
        <4> QED
          BY <1>0, <1>1, <1>2, <4>1 DEF IInv, TspOK, TspOf
      <3> QED
        BY <2>2, <1>0, <1>2, <3>1, <3>2, <3>3
    <2> QED
      BY <2>1, <2>2
  <1>11. StateOK'
    BY <1>1, <1>3, <1>5 DEF IInv, StateOK, Loop
  <1>12. QuietOK' /\ LaunchOK'
    <2>1. d = 0 => t # 0
      <3>1. TspOf(t, d)
        BY <1>0 DEF IInv, TspOK
      <3> QED
        BY <1>0, <1>1, <1>2, <3>1 DEF TspOf, PcWork, d
    <2>2. QuietOK'
      BY <1>1, <1>3, <2>1 DEF IInv, QuietOK, Quiet, PcMain, d
    <2>3. LaunchOK'
      BY <1>1, <1>3, LaunchKept
    <2> QED
      BY <2>2, <2>3
  <1>13. TspOK'
    BY <1>1, <1>3 DEF IInv, TspOK, TspOf, PcWork
  <1>14. BusyOK'
    BY <1>1, <1>4 DEF IInv, BusyOK, Busy
  <1>15. FlagsOK'
    <2> SUFFICES ASSUME NEW s \in SplitPoints, NEW u \in Threads
                 PROVE  u \in isSlave'[s] <=> /\ u # Master(s)
                                             /\ (Assigned(u, s)' \/ Searches(u, s)')
      BY DEF FlagsOK
    <2>1. u \in isSlave[s] <=> u # Master(s) /\ (Assigned(u, s) \/ Searches(u, s))
      BY DEF IInv, FlagsOK
    <2>2. ~Assigned(t, s0)
      BY <1>5 DEF Assigned
    <2> QED
      BY <1>3, <1>4, <1>6, <2>1, <2>2
  <1>16. FlagsInUse'
    BY <1>1, <1>3, <1>4 DEF IInv, FlagsInUse
  <1>17. CallOK'
    BY <1>1, <1>3, <1>4 DEF IInv, CallOK
  <1>18. BookOK'
    <2> SUFFICES ASSUME NEW u \in Threads PROVE BookOf(u)'
      BY DEF BookOK
    <2>1. CASE u = t
      BY <2>1, <1>3 DEF BookOf, PcSplit
    <2>2. CASE u # t
      <3>1. \A i \in Threads : IsAvailableTo(i, u) => IsAvailableTo(i, u)'
        <4> SUFFICES ASSUME NEW i \in Threads, IsAvailableTo(i, u)
                     PROVE  IsAvailableTo(i, u)'
          OBVIOUS
        <4>1. activeSplitPoints[i] # 0 => <<i, activeSplitPoints[i]>> \in SplitPoints
          BY <1>0
        <4> QED
          BY <2>2, <1>1, <1>3, <4>1 DEF IsAvailableTo
      <3>2. pc[u] \in PcSplit => Sp(u) \in SplitPoints
        BY SplitFrames DEF PcSplit, PcFrame
      <3> QED
        BY <2>2, <1>1, <1>3, <1>5, <3>1, <3>2, BookKept
    <2> QED
      BY <2>1, <2>2
  <1>19. MasterOK'
    <2> SUFFICES ASSUME NEW s \in SplitPoints, InUse(s) PROVE MasterOf(s)'
      BY <1>4 DEF MasterOK
    <2>1. MasterOf(s) /\ Master(s) \in Threads
      BY DEF IInv, MasterOK, Master
    <2> QED
      BY <2>1, <1>1, <1>3, <1>4 DEF MasterOf, Gone, PcSplit
  <1>20. JoinOK'
    <2>1. \A u \in Threads : pc'[u] \in {"joinlock", "resume", "collect"} =>
            /\ u # t /\ pc[u] = pc'[u] /\ Sp(u) \in SplitPoints
            /\ isSlave[Sp(u)] = {} /\ isSlave'[Sp(u)] = {} /\ Master(Sp(u)) = u
      BY <1>3, SplitFrames DEF PcFrame, IInv, JoinOK
    <2>2. ASSUME NEW u \in Threads, pc'[u] \in {"resume", "collect"}
          PROVE  \A w \in Threads : ~(pc'[w] = "leave" /\ Tsp(w) = Sp(u))
      <3>1. Sp(u) # s0
        BY <1>2, <2>1, <2>2
      <3>2. \A w \in Threads : ~(pc[w] = "leave" /\ Tsp(w) = Sp(u))
        BY <2>1, <2>2 DEF IInv, JoinOK
      <3> QED
        BY <1>3, <3>1, <3>2 DEF s0
    <2>3. ASSUME NEW u \in Threads, pc'[u] = "leave"
          PROVE  spLock'[Tsp(u)] = u /\ InUse(Tsp(u))
      <3>1. CASE u = t
        BY <3>1, <1>2, <1>3 DEF s0
      <3>2. CASE u # t
        <4>1. spLock[Tsp(u)] = u /\ InUse(Tsp(u))
          BY <3>2, <2>3, <1>3 DEF IInv, JoinOK
        <4>2. Tsp(u) \in SplitPoints \cup {NoSP} /\ Tsp(u) # NoSP
          <5>1. activeSplitPoints[u] \in 0..MaxActive
            BY <1>0
          <5>2. tsp \in [Threads -> [0..MaxActive -> SplitPoints \cup {NoSP}]]
            BY DEF IInv, TypeInv, TypeOK
          <5> QED
            BY <4>1, <5>1, <5>2 DEF InUse, Tsp
        <4>3. Tsp(u) # s0
          <5>1. u # Free
            BY DEF Free
          <5> QED
            BY <4>1, <5>1, <1>1
        <4> QED
          BY <4>1, <4>2, <4>3, <1>3
      <3> QED
        BY <3>1, <3>2
    <2> QED
      BY <1>4, <2>1, <2>2, <2>3 DEF JoinOK
  <1>21. CrewOK'
    <2> SUFFICES ASSUME NEW s \in SplitPoints, NEW u \in Threads, InUse(s)
                 PROVE  u \in crew[s] <=> \/ u = Master(s) \/ u \in isSlave'[s] \/ u \in nodes[s]
                                          \/ (pc'[u] = "leave" /\ Tsp(u) = s)
      BY <1>1, <1>4 DEF CrewOK
    <2>1. u \in crew[s] <=> \/ u = Master(s) \/ u \in isSlave[s] \/ u \in nodes[s]
                            \/ (pc[u] = "leave" /\ Tsp(u) = s)
      BY DEF IInv, CrewOK
    <2> QED
      BY <1>1, <1>2, <1>3, <2>1 DEF s0
  <1>22. Rooted'
    <2> SUFFICES ASSUME NEW s \in SplitPoints, NEW u \in isSlave'[s]
                 PROVE  /\ u \in isSlave[s] /\ u \in Threads
                        /\ Assigned(u, s)' => Assigned(u, s)
                        /\ \A e \in 1..activeSplitPoints[u] : tsp'[u][e] = s =>
                             \/ tsp[u][e] = s
                             \/ e = activeSplitPoints[u] /\ Assigned(u, s)
      BY <1>1, PathKept
    <2>1. u \in isSlave[s] /\ u \in Threads
      BY <1>0, <1>3
    <2> QED
      BY <1>1, <1>4, <2>1
  <1> QED
    BY <1>11, <1>12, <1>13, <1>14, <1>15, <1>16, <1>17, <1>18, <1>19, <1>20, <1>21, <1>22 DEF IInv

LEMMA AddNodesInv ==
  ASSUME IInv, TypeInv', NEW t \in Threads, AddNodes(t)
  PROVE  IInv'
  <1> USE Basics
  <1> DEFINE s0 == Tsp(t)
             d == activeSplitPoints[t]
  <1>0. /\ pc \in [Threads -> PC] /\ nodes \in [SplitPoints -> SUBSET Threads]
        /\ activeSplitPoints \in [Threads -> 0..MaxActive] /\ d \in 0..MaxActive
        /\ spLock \in [SplitPoints -> Threads \cup {Free}]
        /\ tsp \in [Threads -> [0..MaxActive -> SplitPoints \cup {NoSP}]]
    BY DEF IInv, TypeInv, TypeOK
  <1>1. /\ pc[t] = "leave" /\ pc' = [pc EXCEPT ![t] = "available"]
        /\ nodes' = [nodes EXCEPT ![s0] = nodes[s0] \cup {t}]
        /\ spLock' = [spLock EXCEPT ![s0] = Free]
        /\ UNCHANGED <<state, splitPoint, activeSplitPoints, parent, isSlave, crew,
                       mpLock, tsp, idx, activeThreads, allThreadsShouldExit>>
    BY DEF AddNodes, Goto, shared, options, locals
  <1>2. /\ InUse(s0) /\ s0 = tsp[t][d] /\ s0 # NoSP /\ s0 \in SplitPoints
        /\ spLock[s0] = t
    BY <1>0, <1>1 DEF Tsp, InUse, IInv, JoinOK
  <1>3. /\ \A u \in Threads : pc'[u] = IF u = t THEN "available" ELSE pc[u]
        /\ \A s \in SplitPoints : nodes'[s] = IF s = s0 THEN nodes[s] \cup {t} ELSE nodes[s]
        /\ \A s \in SplitPoints : spLock'[s] = IF s = s0 THEN Free ELSE spLock[s]
    BY <1>0, <1>1, <1>2
  <1>4. /\ \A s : InUse(s)' = InUse(s)
        /\ \A u \in Threads : Sp(u)' = Sp(u) /\ Tsp(u)' = Tsp(u)
        /\ \A u \in Threads : \A s : Assigned(u, s)' <=> Assigned(u, s)
    BY <1>1 DEF InUse, Sp, Tsp, Assigned
  <1>5. state[t] = "SEARCHING"
    BY <1>1 DEF IInv, StateOK
  <1>6. t = Master(s0) => s0 = <<t, d>>
    BY <1>0, <1>2 DEF IInv, TspOK, TspOf
  <1> HIDE DEF s0, d
  <1>7. \A u \in Threads, s \in SplitPoints : Searches(u, s)' <=> Searches(u, s)
    BY <1>1, <1>3 DEF Searches
  <1>11. StateOK'
    BY <1>1, <1>3, <1>5 DEF IInv, StateOK, Loop
  <1>12. QuietOK' /\ LaunchOK'
    <2>1. d = 0 => t # 0
      BY <1>1 DEF IInv, QuietOK, Quiet, PcMain, d
    <2>2. QuietOK'
      BY <1>1, <1>3, <2>1 DEF IInv, QuietOK, Quiet, PcMain, d
    <2>3. LaunchOK'
      BY <1>1, <1>3, LaunchKept
    <2> QED
      BY <2>2, <2>3
  <1>13. TspOK'
    BY <1>1, <1>3 DEF IInv, TspOK, TspOf, PcWork
  <1>14. BusyOK'
    BY <1>1, <1>4 DEF IInv, BusyOK, Busy
  <1>15. FlagsOK'
    BY <1>1, <1>4, <1>7 DEF IInv, FlagsOK
  <1>16. FlagsInUse'
    BY <1>1, <1>4 DEF IInv, FlagsInUse
  <1>17. CallOK'
    BY <1>1, <1>3, <1>4 DEF IInv, CallOK
  <1>18. BookOK'
    <2> SUFFICES ASSUME NEW u \in Threads PROVE BookOf(u)'
      BY DEF BookOK
    <2>1. CASE u = t
      BY <2>1, <1>3 DEF BookOf, PcSplit
    <2>2. CASE u # t
      <3>1. \A i \in Threads : IsAvailableTo(i, u)' = IsAvailableTo(i, u)
        BY <1>1 DEF IsAvailableTo
      <3> QED
        BY <2>2, <1>1, <1>3, <3>1, BookKept
    <2> QED
      BY <2>1, <2>2
  <1>19. MasterOK'
    <2> SUFFICES ASSUME NEW s \in SplitPoints, InUse(s) PROVE MasterOf(s)'
      BY <1>4 DEF MasterOK
    <2>1. /\ MasterOf(s) /\ Master(s) \in Threads /\ s = <<Master(s), s[2]>>
          /\ s[2] \in 0..MaxActive
      BY DEF IInv, MasterOK, Master
    <2>2. CASE Master(s) # t
      BY <2>1, <2>2, <1>1, <1>3, <1>4 DEF MasterOf, Gone, PcSplit
    <2>3. CASE Master(s) = t /\ s = s0
      <3>1. s[2] = d /\ ~Assigned(t, s)
        BY <1>5, <1>6, <2>3 DEF Assigned
      <3> QED
        BY <2>3, <3>1, <1>1, <1>3, <1>4 DEF MasterOf, Gone, PcSplit, d
    <2>4. CASE Master(s) = t /\ s # s0
      <3>1. s[2] = d => tsp[t][s[2]] # s
        BY <2>4, <1>2
      <3> QED
        BY <2>1, <2>4, <3>1, <1>1, <1>3, <1>4 DEF MasterOf, Gone, PcSplit, d
    <2> QED
      BY <2>2, <2>3, <2>4
  <1>20. JoinOK'
    <2>1. ASSUME NEW u \in Threads, pc'[u] = "leave"
          PROVE  spLock'[Tsp(u)] = u /\ InUse(Tsp(u))
      <3>1. u # t /\ spLock[Tsp(u)] = u /\ InUse(Tsp(u))
        BY <2>1, <1>3 DEF IInv, JoinOK
      <3>2. Tsp(u) # s0
        BY <1>2, <3>1
      <3>3. Tsp(u) \in SplitPoints
        <4>1. activeSplitPoints[u] \in 0..MaxActive
          BY <1>0
        <4> QED
          BY <1>0, <3>1, <4>1 DEF InUse, Tsp
      <3> QED
        BY <1>3, <3>1, <3>2, <3>3
    <2>2. \A u \in Threads : pc'[u] \in {"joinlock", "resume", "collect", "leave"} =>
            pc'[u] = pc[u]
      BY <1>3
    <2> QED
      BY <1>1, <1>4, <2>1, <2>2 DEF IInv, JoinOK
  <1>21. CrewOK'
    <2> SUFFICES ASSUME NEW s \in SplitPoints, NEW u \in Threads, InUse(s)
                 PROVE  u \in crew[s] <=> \/ u = Master(s) \/ u \in isSlave[s] \/ u \in nodes'[s]
                                          \/ (pc'[u] = "leave" /\ Tsp(u) = s)
      BY <1>1, <1>4 DEF CrewOK
    <2>1. u \in crew[s] <=> \/ u = Master(s) \/ u \in isSlave[s] \/ u \in nodes[s]
                            \/ (pc[u] = "leave" /\ Tsp(u) = s)
      BY DEF IInv, CrewOK
    <2> QED
      BY <1>1, <1>2, <1>3, <2>1 DEF s0
  <1>22. Rooted'
    <2>1. isSlave \in [SplitPoints -> SUBSET Threads]
      BY DEF IInv, TypeInv, TypeOK
    <2> QED
      BY <1>1, <1>4, <2>1, PathKept
  <1> QED
    BY <1>11, <1>12, <1>13, <1>14, <1>15, <1>16, <1>17, <1>18, <1>19, <1>20, <1>21, <1>22 DEF IInv

LEMMA BookTestInv ==
  ASSUME IInv, TypeInv', NEW t \in Threads, BookTest(t)
  PROVE  IInv'
  <1> USE Basics
  <1> DEFINE i == idx[t]
             s0 == Sp(t)
             full == Cardinality(isSlave[s0]) + 1 >= MaxPerSplit
  <1>0. /\ pc \in [Threads -> PC] /\ idx \in [Threads -> 0..MaxThreads]
        /\ activeThreads \in 1..MaxThreads /\ i \in Nat
    <2>1. i \in 0..MaxThreads
      BY DEF IInv, TypeInv, TypeOK
    <2>2. i \in Nat
      BY <2>1
    <2> QED
      BY <2>2 DEF IInv, TypeInv, TypeOK
  <1>1. /\ pc[t] = "booktest"
        /\ \/ /\ i >= activeThreads \/ full
              /\ pc' = [pc EXCEPT ![t] = "order"] /\ idx' = [idx EXCEPT ![t] = 0]
           \/ /\ i < activeThreads /\ i # t /\ IsAvailableTo(i, t)
              /\ pc' = [pc EXCEPT ![t] = "book"] /\ idx' = idx /\ mpLock' = mpLock
           \/ /\ i < activeThreads /\ ~(i # t /\ IsAvailableTo(i, t))
              /\ pc' = pc /\ idx' = [idx EXCEPT ![t] = i + 1] /\ mpLock' = mpLock
        /\ UNCHANGED <<state, splitPoint, activeSplitPoints, parent, isSlave,
                       nodes, crew, spLock, tsp, activeThreads, allThreadsShouldExit>>
    BY <1>0 DEF BookTest, Goto, shared, options, points
  <1>2. /\ \A u \in Threads \ {t} : pc'[u] = pc[u] /\ idx'[u] = idx[u]
        /\ \/ (i >= activeThreads \/ full) /\ pc'[t] = "order" /\ idx'[t] = 0
           \/ /\ i < activeThreads /\ i # t /\ IsAvailableTo(i, t)
              /\ pc'[t] = "book" /\ idx'[t] = i /\ mpLock' = mpLock
           \/ /\ i < activeThreads /\ ~(i # t /\ IsAvailableTo(i, t))
              /\ pc'[t] = "booktest" /\ idx'[t] = i + 1 /\ mpLock' = mpLock
    BY <1>0, <1>1
  <1>3. /\ BookOf(t) /\ s0 \in SplitPoints /\ isSlave[s0] \subseteq Threads
    BY <1>1, SplitFrames DEF PcFrame, IInv, BookOK
  <1>4. /\ \A u \in Threads : Sp(u)' = Sp(u)
        /\ \A u, j \in Threads : IsAvailableTo(j, u)' = IsAvailableTo(j, u)
    BY <1>1 DEF Sp, IsAvailableTo
  <1>5. state[t] = "SEARCHING"
    BY <1>1 DEF IInv, StateOK
  <1>6. pc[t] = "booktest" /\ pc'[t] \in {"order", "book", "booktest"}
    BY <1>1, <1>2
  <1> HIDE DEF i, s0, full
  <1>7. LaunchOK'
    BY <1>2, <1>6, LaunchKept
  <1>8. StateOK'
    <2> SUFFICES ASSUME NEW u \in Threads PROVE
          /\ pc'[u] \in {"search", "leave", "available", "booktest", "book", "collect"}
               => state[u] = "SEARCHING"
          /\ pc'[u] \in {"order", "orderwake"} =>
               /\ idx'[u] <= u => state[u] = "SEARCHING"
               /\ idx'[u] > u => state[u] = "WORKISWAITING"
          /\ pc'[u] \in {"joinlock", "resume"} => state[u] = "AVAILABLE"
          /\ pc'[u] \in Loop \cup {"notify", "wake"} =>
               state[u] \in {"INITIALIZING", "AVAILABLE", "BOOKED", "WORKISWAITING"}
          /\ pc'[u] = "dead" => state[u] = "TERMINATED"
          /\ pc'[u] = "none" => state[u] = "INITIALIZING"
          /\ state[u] = "INITIALIZING" => activeSplitPoints[u] = 0
      BY <1>1 DEF StateOK
    <2>1. CASE u # t
      BY <2>1, <1>2 DEF IInv, StateOK
    <2>2. CASE u = t
      <3>1. pc'[t] = "order" => ~(idx'[t] > t)
        BY <1>2
      <3> QED
        BY <2>2, <3>1, <1>5, <1>6 DEF Loop
    <2> QED
      BY <2>1, <2>2
  <1>9. BookOK'
    <2> SUFFICES ASSUME NEW u \in Threads PROVE BookOf(u)'
      BY DEF BookOK
    <2>1. CASE u # t /\ pc[u] \in {"booktest", "book"}
      BY <2>1, <1>3, <1>6 DEF IInv, BookOK, BookOf
    <2>2. CASE u # t /\ pc[u] \notin {"booktest", "book"}
      BY <2>2, <1>1, <1>2, <1>4, BookKept
    <2>3. CASE u = t
      <3>1. CASE (i >= activeThreads \/ full) /\ pc'[t] = "order" /\ idx'[t] = 0
        <4>1. isSlave[s0] # {}
          <5>1. SUFFICES ASSUME isSlave[s0] = {} PROVE FALSE
            OBVIOUS
          <5>2. i >= activeThreads
            BY <3>1, <5>1, FS_EmptySet, MaxPerSplitAssumption DEF full
          <5> QED
            BY <1>0, <1>1, <1>3, <5>1, <5>2 DEF BookOf, s0, i
        <4>2. \A j \in isSlave[s0] : j \in Nat /\ state[j] = "BOOKED" /\ splitPoint[j] = s0
          BY <1>1, <1>3 DEF BookOf, s0
        <4> QED
          BY <2>3, <3>1, <4>1, <4>2, <1>1, <1>3, <1>4 DEF BookOf, PcSplit, s0
      <3>2. CASE /\ i < activeThreads /\ i # t /\ IsAvailableTo(i, t)
                 /\ pc'[t] = "book" /\ idx'[t] = i /\ mpLock' = mpLock
        <4>1. idx'[t] = idx[t] /\ IsAvailableTo(idx[t], t)'
          BY <3>2, <1>1 DEF IsAvailableTo, i
        <4> QED
          BY <2>3, <3>2, <4>1, <1>1, <1>3, <1>4 DEF BookOf, PcSplit, s0, i
      <3>3. CASE /\ i < activeThreads /\ ~(i # t /\ IsAvailableTo(i, t))
                 /\ pc'[t] = "booktest" /\ idx'[t] = i + 1 /\ mpLock' = mpLock
        <4>1. \A j \in isSlave[s0] : j < i + 1 /\ state[j] = "BOOKED" /\ splitPoint[j] = s0
          BY <1>0, <1>1, <1>3 DEF BookOf, s0, i
        <4>2. \/ isSlave[s0] # {}
              \/ \E j \in Threads : /\ j >= i + 1 /\ j # t /\ j < activeThreads
                                    /\ IsAvailableTo(j, t)
          <5>1. ASSUME NEW j \in Threads, j >= i, j # t, IsAvailableTo(j, t)
                PROVE  j >= i + 1
            BY <5>1, <3>3, <1>0
          <5> QED
            BY <1>1, <1>3, <5>1 DEF BookOf, s0, i
        <4> QED
          BY <2>3, <3>3, <4>1, <4>2, <1>1, <1>3, <1>4 DEF BookOf, PcSplit, s0
      <3> QED
        BY <1>2, <3>1, <3>2, <3>3
    <2> QED
      BY <2>1, <2>2, <2>3
  <1>10. allThreadsShouldExit' => pc'[0] \in {"exit", "exitspin", "exited"}
    BY <1>1, <1>2 DEF IInv, QuietOK
  <1>11. \A u \in Threads : pc'[u] = pc[u] \/ (pc[u] \in PcSplit /\ pc'[u] \in PcSplit)
    BY <1>2, <1>6 DEF PcSplit
  <1> QED
    BY <1>1, <1>7, <1>8, <1>9, <1>10, <1>11, PcMove

LEMMA OrderWakeInv ==
  ASSUME IInv, TypeInv', NEW t \in Threads, OrderWake(t)
  PROVE  IInv'
  <1> USE Basics
  <1> DEFINE i == idx[t]
  <1>0. /\ pc \in [Threads -> PC] /\ idx \in [Threads -> 0..MaxThreads] /\ i \in Nat
    <2>1. i \in 0..MaxThreads
      BY DEF IInv, TypeInv, TypeOK
    <2>2. i \in Nat
      BY <2>1
    <2> QED
      BY <2>2 DEF IInv, TypeInv, TypeOK
  <1>1. /\ pc[t] = "orderwake" /\ WakeUp(t, i, "order")
        /\ idx' = [idx EXCEPT ![t] = i + 1]
        /\ UNCHANGED <<state, splitPoint, activeSplitPoints, parent, isSlave,
                       nodes, crew, mpLock, spLock, tsp, activeThreads,
                       allThreadsShouldExit>>
    BY DEF OrderWake, shared, options, points, locks
  <1>2. /\ pc'[t] = "order" /\ idx'[t] = i + 1
        /\ \A u \in Threads \ {t} :
             /\ idx'[u] = idx[u]
             /\ pc'[u] = pc[u] \/ (pc[u] = "asleep" /\ pc'[u] = "sleeptest")
    <2>1. /\ pc'[t] = "order"
          /\ \A u \in Threads \ {t} :
               pc'[u] = pc[u] \/ (pc[u] = "asleep" /\ pc'[u] = "sleeptest")
      BY <1>1, WakeEffect DEF IInv
    <2> QED
      BY <1>0, <1>1, <2>1
  <1>3. /\ \A u \in Threads : Sp(u)' = Sp(u)
        /\ \A u, j \in Threads : IsAvailableTo(j, u)' = IsAvailableTo(j, u)
    BY <1>1 DEF Sp, IsAvailableTo
  <1>4. BookOf(t) /\ isSlave[Sp(t)] \subseteq Threads
    BY <1>1, SplitFrames DEF PcFrame, IInv, BookOK
  <1>5. i # t
    BY <1>1 DEF IInv, BookOK, BookOf
  <1> HIDE DEF i
  <1>7. LaunchOK'
    BY <1>1, <1>2, LaunchKept
  <1>8. StateOK'
    <2>1. /\ i + 1 <= t => i <= t
          /\ i + 1 > t => i > t
      BY <1>0, <1>5
    <2> QED
      BY <1>1, <1>2, <2>1 DEF IInv, StateOK, Loop, i
  <1>9. BookOK'
    <2> SUFFICES ASSUME NEW u \in Threads PROVE BookOf(u)'
      BY DEF BookOK
    <2>1. CASE u # t /\ pc'[u] = pc[u]
      BY <2>1, <1>1, <1>2, <1>3, BookKept
    <2>2. CASE u # t /\ pc'[u] # pc[u]
      BY <2>2, <1>2 DEF BookOf, PcSplit
    <2>3. CASE u = t
      <3>1. /\ i + 1 # 0
            /\ \A j \in Threads : j > i + 1 \/ j = i + 1 => j > i
        BY <1>0
      <3>2. \A j \in isSlave[Sp(t)] : j > i => state[j] = "BOOKED" /\ splitPoint[j] = Sp(t)
        BY <1>1, <1>4 DEF BookOf, i
      <3> QED
        BY <2>3, <3>1, <3>2, <1>1, <1>2, <1>3, <1>4 DEF BookOf, PcSplit
    <2> QED
      BY <2>1, <2>2, <2>3
  <1>10. allThreadsShouldExit' => pc'[0] \in {"exit", "exitspin", "exited"}
    BY <1>1, <1>2 DEF IInv, QuietOK
  <1>11. \A u \in Threads :
           \/ pc'[u] = pc[u]
           \/ pc[u] \in PcSplit /\ pc'[u] \in PcSplit
           \/ pc[u] = "asleep" /\ pc'[u] = "sleeptest"
    BY <1>1, <1>2 DEF PcSplit
  <1> QED
    BY <1>1, <1>7, <1>8, <1>9, <1>10, <1>11, PcMove DEF Loop

(* What a thread in split() knows of its split point. *)
LEMMA SplitFacts ==
  ASSUME IInv, NEW t \in Threads, pc[t] \in PcSplit
  PROVE  /\ Sp(t) \in SplitPoints /\ InUse(Sp(t)) /\ Master(Sp(t)) = t
         /\ Sp(t) = <<t, activeSplitPoints[t]>>
         /\ activeSplitPoints[t] \in 1..MaxActive
         /\ isSlave[Sp(t)] \subseteq Threads
         /\ t < activeThreads /\ splitPoint[t] = Sp(t) /\ BookOf(t)
         /\ t \notin nodes[Sp(t)] /\ tsp[t][activeSplitPoints[t]] = NoSP
  <1> USE Basics
  <1>1. /\ Sp(t) \in SplitPoints /\ InUse(Sp(t)) /\ Master(Sp(t)) = t
        /\ isSlave[Sp(t)] \subseteq Threads /\ activeSplitPoints[t] # 0
    BY SplitFrames DEF PcSplit, PcFrame, IInv, TypeInv, FrameOK
  <1>2. activeSplitPoints[t] \in 1..MaxActive
    BY <1>1 DEF IInv, TypeInv, TypeOK
  <1>3. Sp(t) = <<t, activeSplitPoints[t]>> /\ Sp(t)[2] = activeSplitPoints[t]
    BY <1>1 DEF Sp
  <1>4. t < activeThreads /\ BookOf(t) /\ MasterOf(Sp(t))
    BY <1>1 DEF IInv, FlagsInUse, BookOK, MasterOK
  <1>5. splitPoint[t] = Sp(t) /\ t \notin nodes[Sp(t)]
    BY <1>1, <1>3, <1>4 DEF BookOf, MasterOf
  <1>6. tsp[t][activeSplitPoints[t]] = NoSP
    BY <1>2 DEF IInv, TspOK, TspOf, PcSplit, PcWork
  <1> QED
    BY <1>1, <1>2, <1>3, <1>4, <1>5, <1>6

(* The crew is ordered; the master enters its idle loop. *)
LEMMA OrderEndInv ==
  ASSUME IInv, TypeInv', NEW t \in Threads, Order(t), idx[t] >= activeThreads
  PROVE  IInv'
  <1> USE Basics
  <1> DEFINE d == activeSplitPoints[t]
  <1>0. /\ pc \in [Threads -> PC] /\ idx \in [Threads -> 0..MaxThreads]
        /\ activeThreads \in 1..MaxThreads
    BY DEF IInv, TypeInv, TypeOK
  <1>1. /\ pc[t] = "order" /\ pc' = [pc EXCEPT ![t] = "top"]
        /\ idx' = [idx EXCEPT ![t] = 0]
        /\ UNCHANGED <<state, splitPoint, activeSplitPoints, parent, isSlave,
                       nodes, crew, mpLock, spLock, tsp, activeThreads,
                       allThreadsShouldExit>>
    BY DEF Order, Goto, options, points, locks
  <1>2. /\ pc'[t] = "top"
        /\ \A u \in Threads \ {t} : pc'[u] = pc[u] /\ idx'[u] = idx[u]
    BY <1>0, <1>1
  <1>3. /\ Sp(t) \in SplitPoints /\ InUse(Sp(t)) /\ Sp(t) = <<t, d>>
        /\ d \in 1..MaxActive /\ t < activeThreads /\ splitPoint[t] = Sp(t)
        /\ t \notin nodes[Sp(t)] /\ tsp[t][d] = NoSP
    BY <1>1, SplitFacts DEF PcSplit
  <1>4. state[t] = "WORKISWAITING"
    <2>1. idx[t] \in Nat /\ t \in Nat /\ activeThreads \in Nat
      BY <1>0
    <2>2. idx[t] > t
      BY <2>1, <1>3
    <2> QED
      BY <1>1, <2>2 DEF IInv, StateOK
  <1>5. /\ \A s : InUse(s)' = InUse(s)
        /\ \A u \in Threads : Sp(u)' = Sp(u) /\ Tsp(u)' = Tsp(u)
        /\ \A u \in Threads : \A s : Assigned(u, s)' <=> Assigned(u, s)
        /\ \A u, j \in Threads : IsAvailableTo(j, u)' = IsAvailableTo(j, u)
    BY <1>1 DEF InUse, Sp, Tsp, Assigned, IsAvailableTo
  <1> HIDE DEF d
  <1>6. \A u \in Threads, s \in SplitPoints : Searches(u, s)' <=> Searches(u, s)
    <2> SUFFICES ASSUME NEW u \in Threads, NEW s \in SplitPoints
                 PROVE  Searches(u, s)' <=> Searches(u, s)
      OBVIOUS
    <2>1. pc'[u] \notin {"leave", "available", "notify", "wake"} <=>
            pc[u] \notin {"leave", "available", "notify", "wake"}
      BY <1>1, <1>2
    <2> QED
      BY <1>1, <2>1 DEF Searches
  <1>11. StateOK'
    BY <1>1, <1>2, <1>4 DEF IInv, StateOK, Loop
  <1>12. QuietOK' /\ LaunchOK'
    <2>1. QuietOK'
      BY <1>1, <1>2, <1>3 DEF IInv, QuietOK, Quiet, PcMain, d
    <2>2. LaunchOK'
      BY <1>1, <1>2, LaunchKept
    <2> QED
      BY <2>1, <2>2
  <1>13. TspOK'
    BY <1>1, <1>2 DEF IInv, TspOK, TspOf, PcWork
  <1>14. BusyOK'
    BY <1>1, <1>5 DEF IInv, BusyOK, Busy
  <1>15. FlagsOK'
    BY <1>1, <1>5, <1>6 DEF IInv, FlagsOK
  <1>16. FlagsInUse'
    BY <1>1, <1>5 DEF IInv, FlagsInUse
  <1>17. CallOK'
    BY <1>1, <1>2, <1>5 DEF IInv, CallOK
  <1>18. BookOK'
    <2> SUFFICES ASSUME NEW u \in Threads PROVE BookOf(u)'
      BY DEF BookOK
    <2>1. CASE u = t
      BY <2>1, <1>2 DEF BookOf, PcSplit
    <2>2. CASE u # t
      BY <2>2, <1>1, <1>2, <1>5, BookKept
    <2> QED
      BY <2>1, <2>2
  <1>19. MasterOK'
    <2> SUFFICES ASSUME NEW s \in SplitPoints, InUse(s) PROVE MasterOf(s)'
      BY <1>5 DEF MasterOK
    <2>1. /\ MasterOf(s) /\ Master(s) \in Threads /\ s = <<Master(s), s[2]>>
      BY DEF IInv, MasterOK, Master
    <2>2. CASE Master(s) # t
      BY <2>1, <2>2, <1>1, <1>2, <1>5 DEF MasterOf
    <2>3. CASE Master(s) = t /\ s[2] = d
      <3>1. s = Sp(t) /\ Assigned(t, s)
        BY <2>1, <2>3, <1>3, <1>4 DEF Assigned
      <3> QED
        BY <2>3, <3>1, <1>1, <1>2, <1>3, <1>5 DEF MasterOf, PcSplit, d
    <2>4. CASE Master(s) = t /\ s[2] # d
      BY <2>1, <2>4, <1>1, <1>5 DEF MasterOf, d
    <2> QED
      BY <2>2, <2>3, <2>4
  <1>20. JoinOK'
    <2>1. \A u \in Threads :
            pc'[u] \in {"joinlock", "resume", "collect", "leave"} => pc'[u] = pc[u]
      BY <1>2
    <2> QED
      BY <1>1, <1>5, <2>1 DEF IInv, JoinOK
  <1>21. CrewOK'
    BY <1>1, <1>2, <1>5 DEF IInv, CrewOK
  <1>22. Rooted'
    <2>1. isSlave \in [SplitPoints -> SUBSET Threads]
      BY DEF IInv, TypeInv, TypeOK
    <2> QED
      BY <1>1, <1>5, <2>1, PathKept
  <1> QED
    BY <1>11, <1>12, <1>13, <1>14, <1>15, <1>16, <1>17, <1>18, <1>19, <1>20, <1>21, <1>22 DEF IInv

(* The master itself, or a booked thread, is ordered to work, or a thread  *)
(* outside the crew is passed over.                                        *)
LEMMA OrderInv ==
  ASSUME IInv, TypeInv', NEW t \in Threads, Order(t), idx[t] < activeThreads
  PROVE  IInv'
  <1> USE Basics
  <1> DEFINE d == activeSplitPoints[t]
             i == idx[t]
             s0 == Sp(t)
             ordered == i = t \/ i \in isSlave[s0]
  <1>0. /\ pc \in [Threads -> PC] /\ idx \in [Threads -> 0..MaxThreads]
        /\ state \in [Threads -> ThreadState]
        /\ activeSplitPoints \in [Threads -> 0..MaxActive]
        /\ tsp \in [Threads -> [0..MaxActive -> SplitPoints \cup {NoSP}]]
        /\ isSlave \in [SplitPoints -> SUBSET Threads]
    BY DEF IInv, TypeInv, TypeOK
  <1>a. i \in Nat /\ activeThreads \in Nat
    <2>1. i \in 0..MaxThreads /\ activeThreads \in 1..MaxThreads
      BY DEF IInv, TypeInv, TypeOK
    <2> QED
      BY <2>1
  <1>1. /\ pc[t] = "order"
        /\ state' = IF ordered THEN [state EXCEPT ![i] = "WORKISWAITING"] ELSE state
        /\ \/ /\ ordered /\ i # t
              /\ pc' = [pc EXCEPT ![t] = "orderwake"] /\ idx' = idx
           \/ pc' = pc /\ idx' = [idx EXCEPT ![t] = i + 1]
        /\ UNCHANGED <<splitPoint, activeSplitPoints, parent, isSlave, nodes,
                       crew, mpLock, spLock, tsp, activeThreads,
                       allThreadsShouldExit>>
    BY <1>a DEF Order, Goto, options, points, locks
  <1>2. /\ \A u \in Threads \ {t} : pc'[u] = pc[u] /\ idx'[u] = idx[u]
        /\ \A u \in Threads : state'[u] = IF ordered /\ u = i THEN "WORKISWAITING" ELSE state[u]
        /\ \/ ordered /\ i # t /\ pc'[t] = "orderwake" /\ idx'[t] = i
           \/ pc'[t] = "order" /\ idx'[t] = i + 1
    BY <1>0, <1>1
  <1>3. /\ s0 \in SplitPoints /\ InUse(s0) /\ s0 = <<t, d>> /\ Master(s0) = t
        /\ d \in 1..MaxActive /\ splitPoint[t] = s0 /\ BookOf(t)
        /\ t \notin nodes[s0] /\ tsp[t][d] = NoSP
        /\ isSlave[s0] \subseteq Threads /\ ~Quiet
    BY <1>1, SplitFacts, SplitFrames DEF PcSplit, PcFrame
  <1>4. /\ ordered /\ i # t => i \in Threads /\ state[i] = "BOOKED" /\ splitPoint[i] = s0
        /\ i = t => state[t] = "SEARCHING"
        /\ i < t => state[t] = "SEARCHING"
        /\ i > t => state[t] = "WORKISWAITING"
    BY <1>1, <1>3, <1>a DEF BookOf, IInv, StateOK
  <1>b. t \notin isSlave[s0]
    BY <1>3 DEF IInv, FlagsOK
  <1>5. /\ \A s : InUse(s)' = InUse(s)
        /\ \A u \in Threads : Sp(u)' = Sp(u) /\ Tsp(u)' = Tsp(u)
    BY <1>1 DEF InUse, Sp, Tsp
  <1>6. \A u \in Threads : \A s : Assigned(u, s)' <=>
          Assigned(u, s) \/ (u = t /\ i = t /\ s = s0)
    <2>1. \A u \in Threads : \A s : splitPoint'[u] = splitPoint[u]
      BY <1>1
    <2>2. ordered => splitPoint[i] = s0
      BY <1>3, <1>4
    <2> QED
      BY <1>2, <1>3, <1>4, <2>1, <2>2 DEF Assigned
  <1> HIDE DEF d, i, s0, ordered
  <1>7. \A u \in Threads, s \in SplitPoints : Searches(u, s)' <=> Searches(u, s)
    <2> SUFFICES ASSUME NEW u \in Threads, NEW s \in SplitPoints
                 PROVE  Searches(u, s)' <=> Searches(u, s)
      OBVIOUS
    <2>1. pc'[u] \notin {"leave", "available", "notify", "wake"} <=>
            pc[u] \notin {"leave", "available", "notify", "wake"}
      BY <1>1, <1>2
    <2> QED
      BY <1>1, <2>1 DEF Searches
  <1>8. pc'[t] \in {"order", "orderwake"}
    BY <1>2
  <1>11. StateOK'
    <2> SUFFICES ASSUME NEW u \in Threads PROVE
          /\ pc'[u] \in {"search", "leave", "available", "booktest", "book", "collect"}
               => state'[u] = "SEARCHING"
          /\ pc'[u] \in {"order", "orderwake"} =>
               /\ idx'[u] <= u => state'[u] = "SEARCHING"
               /\ idx'[u] > u => state'[u] = "WORKISWAITING"
          /\ pc'[u] \in {"joinlock", "resume"} => state'[u] = "AVAILABLE"
          /\ pc'[u] \in Loop \cup {"notify", "wake"} =>
               state'[u] \in {"INITIALIZING", "AVAILABLE", "BOOKED", "WORKISWAITING"}
          /\ pc'[u] = "dead" => state'[u] = "TERMINATED"
          /\ pc'[u] = "none" => state'[u] = "INITIALIZING"
          /\ state'[u] = "INITIALIZING" => activeSplitPoints[u] = 0
      BY <1>1 DEF StateOK
    <2>1. CASE u # t /\ state'[u] = state[u]
      BY <2>1, <1>2 DEF IInv, StateOK
    <2>2. CASE u # t /\ state'[u] # state[u]
      <3>1. /\ state[u] = "BOOKED" /\ state'[u] = "WORKISWAITING" /\ pc'[u] = pc[u]
            /\ idx'[u] = idx[u]
        BY <2>2, <1>2, <1>4
      <3>2. pc[u] \notin {"search", "leave", "available", "booktest", "book",
                          "collect", "joinlock", "resume", "dead", "none"}
        BY <3>1 DEF IInv, StateOK
      <3>3. pc[u] \notin {"order", "orderwake"}
        <4>1. idx[u] \in 0..MaxThreads
          BY <1>0
        <4>2. idx[u] <= u \/ idx[u] > u
          BY <4>1
        <4> QED
          BY <3>1, <4>2 DEF IInv, StateOK
      <3> QED
        BY <3>1, <3>2, <3>3
    <2>3. CASE u = t
      <3>1. CASE i = t
        <4>1. state'[t] = "WORKISWAITING"
          BY <3>1, <1>2 DEF ordered
        <4>2. pc'[t] = "order" /\ idx'[t] = t + 1
          BY <3>1, <1>2
        <4> QED
          BY <2>3, <4>1, <4>2 DEF Loop
      <3>2. CASE i < t
        <4>1. state'[t] = "SEARCHING" /\ idx'[t] <= t
          BY <3>2, <1>2, <1>4, <1>a
        <4> QED
          BY <2>3, <4>1, <1>2, <1>8, <1>a DEF Loop
      <3>3. CASE i > t
        <4>1. state'[t] = "WORKISWAITING" /\ ~(idx'[t] <= t)
          BY <3>3, <1>2, <1>4, <1>a
        <4> QED
          BY <2>3, <4>1, <1>2, <1>8, <1>a DEF Loop
      <3> QED
        BY <3>1, <3>2, <3>3, <1>a
    <2> QED
      BY <2>1, <2>2, <2>3
  <1>12. QuietOK' /\ LaunchOK'
    <2>1. QuietOK'
      <3>1. ~Quiet' /\ (t = 0 => activeSplitPoints[0] # 0)
        BY <1>2, <1>3, <1>8 DEF Quiet, PcMain, d
      <3> QED
        BY <3>1, <1>1, <1>2, <1>3, <1>8 DEF IInv, QuietOK, Quiet, PcMain
    <2>2. LaunchOK'
      BY <1>1, <1>2, <1>8, LaunchKept
    <2> QED
      BY <2>1, <2>2
  <1>13. TspOK'
    BY <1>1, <1>2, <1>8 DEF IInv, TspOK, TspOf, PcWork
  <1>14. BusyOK'
    <2> SUFFICES ASSUME NEW u \in Threads, Busy(u)'
                 PROVE  /\ splitPoint[u] \in SplitPoints
                        /\ \A e \in 0..MaxActive : e < activeSplitPoints[u] => tsp[u][e] # splitPoint[u]
                        /\ Master(splitPoint[u]) = u => splitPoint[u] = Sp(u) /\ state'[u] = "WORKISWAITING"
      BY <1>1, <1>5 DEF BusyOK
    <2>1. CASE Busy(u)
      BY <2>1, <1>2 DEF IInv, BusyOK
    <2>2. CASE ~Busy(u)
      <3>1. u = t /\ state'[t] = "WORKISWAITING"
        BY <2>2, <1>2, <1>4 DEF Busy
      <3>2. \A e \in 0..MaxActive : e < d => tsp[t][e] # s0
        <4> SUFFICES ASSUME NEW e \in 0..MaxActive, e < d, tsp[t][e] = s0 PROVE FALSE
          OBVIOUS
        <4>1. TspOf(t, e)
          BY DEF IInv, TspOK
        <4>2. s0 = <<t, e>>
          BY <4>1, <1>3 DEF TspOf
        <4> QED
          BY <4>2, <1>3
      <3> QED
        BY <3>1, <3>2, <1>3 DEF s0, d
    <2> QED
      BY <2>1, <2>2
  <1>15. FlagsOK'
    <2> SUFFICES ASSUME NEW s \in SplitPoints, NEW u \in Threads
                 PROVE  u \in isSlave[s] <=> /\ u # Master(s)
                                            /\ (Assigned(u, s)' \/ Searches(u, s)')
      BY <1>1 DEF FlagsOK
    <2>1. u \in isSlave[s] <=> u # Master(s) /\ (Assigned(u, s) \/ Searches(u, s))
      BY DEF IInv, FlagsOK
    <2>2. Assigned(u, s)' <=> Assigned(u, s) \/ (u = t /\ i = t /\ s = s0)
      BY <1>6
    <2>3. Searches(u, s)' <=> Searches(u, s)
      BY <1>7
    <2> QED
      BY <2>1, <2>2, <2>3, <1>3
  <1>16. FlagsInUse'
    BY <1>1, <1>5 DEF IInv, FlagsInUse
  <1>17. CallOK'
    BY <1>1, <1>2, <1>5, <1>8 DEF IInv, CallOK
  <1>18. BookOK'
    <2> SUFFICES ASSUME NEW u \in Threads PROVE BookOf(u)'
      BY DEF BookOK
    <2>1. CASE u = t
      <3>1. /\ \A j \in isSlave[s0] : j \in Nat
            /\ \A j \in isSlave[s0] : j > i \/ j = i => state[j] = "BOOKED" /\ splitPoint[j] = s0
        BY <1>1, <1>3 DEF BookOf, s0, i
      <3>2. ASSUME NEW j \in isSlave[s0], j > idx'[t] \/ (j = idx'[t] /\ pc'[t] = "order")
            PROVE  state'[j] = "BOOKED" /\ splitPoint[j] = s0
        <4>1. j \in Nat /\ j \in Threads /\ j > i
          BY <3>1, <3>2, <1>2, <1>3, <1>a
        <4>2. j # i
          BY <4>1, <1>a
        <4> QED
          BY <3>1, <4>1, <4>2, <1>2
      <3>3. /\ pc'[t] = "order" => idx'[t] # 0
            /\ pc'[t] = "orderwake" => idx'[t] # t
        BY <1>2, <1>a
      <3> QED
        BY <2>1, <3>2, <3>3, <1>1, <1>3, <1>5, <1>8 DEF BookOf, PcSplit, s0
    <2>2. CASE u # t
      <3>1. \A j \in Threads : IsAvailableTo(j, u) => IsAvailableTo(j, u)'
        BY <1>1, <1>2, <1>4 DEF IsAvailableTo
      <3>2. pc[u] \in PcSplit => Sp(u) # s0
        BY <2>2, <1>3, SplitFacts
      <3>3. \A j \in Threads : pc[u] \in PcSplit /\ state[j] = "BOOKED" /\ splitPoint[j] = Sp(u)
              => state'[j] = "BOOKED"
        BY <1>2, <1>4, <3>2
      <3> QED
        BY <2>2, <3>1, <3>3, <1>1, <1>2, BookKept
    <2> QED
      BY <2>1, <2>2
  <1>19. MasterOK'
    <2> SUFFICES ASSUME NEW s \in SplitPoints, InUse(s) PROVE MasterOf(s)'
      BY <1>5 DEF MasterOK
    <2>1. /\ MasterOf(s) /\ Master(s) \in Threads /\ s = <<Master(s), s[2]>>
      BY DEF IInv, MasterOK, Master
    <2>2. CASE Master(s) # t
      BY <2>1, <2>2, <1>1, <1>2, <1>6 DEF MasterOf
    <2>3. CASE Master(s) = t /\ s[2] = d
      <3>1. s = s0
        BY <2>1, <2>3, <1>3
      <3> QED
        BY <2>3, <3>1, <1>1, <1>3, <1>8 DEF MasterOf, PcSplit, d
    <2>4. CASE Master(s) = t /\ s[2] # d
      <3>1. s # s0
        BY <2>4, <1>3
      <3> QED
        BY <2>1, <2>4, <3>1, <1>1, <1>6 DEF MasterOf, d
    <2> QED
      BY <2>2, <2>3, <2>4
  <1>20. JoinOK'
    <2>1. \A u \in Threads :
            pc'[u] \in {"joinlock", "resume", "collect", "leave"} => pc'[u] = pc[u]
      BY <1>2, <1>8
    <2> QED
      BY <1>1, <1>5, <2>1 DEF IInv, JoinOK
  <1>21. CrewOK'
    BY <1>1, <1>2, <1>5, <1>8 DEF IInv, CrewOK
  <1>22. Rooted'
    <2> SUFFICES ASSUME NEW s \in SplitPoints, NEW u \in isSlave'[s]
                 PROVE  /\ u \in isSlave[s] /\ u \in Threads
                        /\ Assigned(u, s)' => Assigned(u, s)
                        /\ \A e \in 1..activeSplitPoints[u] : tsp'[u][e] = s =>
                             \/ tsp[u][e] = s
                             \/ e = activeSplitPoints[u] /\ Assigned(u, s)
      BY <1>1, PathKept
    <2>1. u \in isSlave[s] /\ u \in Threads
      BY <1>0, <1>1
    <2> QED
      BY <1>1, <1>6, <1>b, <2>1
  <1> QED
    BY <1>11, <1>12, <1>13, <1>14, <1>15, <1>16, <1>17, <1>18, <1>19, <1>20, <1>21, <1>22 DEF IInv

(* Booking: the slave waits in its idle loop, or in that of a split point  *)
(* the master searches, directly or not.                                   *)
LEMMA BookedFacts ==
  ASSUME IInv, NEW t \in Threads, pc[t] = "book"
  PROVE  /\ idx[t] \in Threads /\ idx[t] # t /\ idx[t] < activeThreads
         /\ state[idx[t]] = "AVAILABLE"
         /\ idx[t] \notin isSlave[Sp(t)]
         /\ pc[idx[t]] \in Loop \cup {"notify", "wake"}
         /\ activeSplitPoints[idx[t]] > 0 => t \in isSlave[Sp(idx[t])]
  <1> USE Basics
  <1> DEFINE i == idx[t]
  <1>0. /\ pc \in [Threads -> PC] /\ activeSplitPoints \in [Threads -> 0..MaxActive]
    BY DEF IInv, TypeInv, TypeOK
  <1>1. i \in Threads /\ BookOf(t)
    BY SplitFrames DEF PcFrame, IInv, BookOK
  <1>2. i # t /\ i < activeThreads /\ IsAvailableTo(i, t)
    BY <1>1 DEF BookOf
  <1>3. i \notin isSlave[Sp(t)]
    <2>1. i \in Nat
      BY <1>1
    <2>2. \A j \in isSlave[Sp(t)] : j < i
      BY <1>1 DEF BookOf
    <2> QED
      BY <2>1, <2>2
  <1>4. activeSplitPoints[i] > 0 => t \in isSlave[Sp(i)]
    BY <1>0, <1>1, <1>2 DEF IsAvailableTo, Sp
  <1>5. state[i] = "AVAILABLE"
    BY <1>2 DEF IsAvailableTo
  <1>6. pc[i] \in Loop \cup {"notify", "wake"}
    <2>1. pc[i] \notin {"search", "leave", "available", "booktest", "book",
                        "collect", "dead", "none"}
      BY <1>1, <1>5 DEF IInv, StateOK
    <2>2. pc[i] \notin {"order", "orderwake"}
      <3>1. idx[i] \in 0..MaxThreads
        BY <1>1 DEF IInv, TypeInv, TypeOK
      <3>2. idx[i] <= i \/ idx[i] > i
        BY <1>1, <3>1
      <3> QED
        BY <1>1, <1>5, <3>2 DEF IInv, StateOK
    <2>3. pc[i] \notin {"joinlock", "resume"}
      <3>1. SUFFICES ASSUME pc[i] \in {"joinlock", "resume"} PROVE FALSE
        OBVIOUS
      <3>2. activeSplitPoints[i] # 0 /\ isSlave[Sp(i)] = {}
        BY <1>1, <3>1 DEF IInv, JoinOK, TypeInv, FrameOK, PcFrame
      <3> QED
        BY <1>0, <1>1, <1>4, <3>2
    <2>4. pc[i] \notin PcMain
      <3>1. ~Quiet
        BY SplitFrames DEF PcFrame
      <3> QED
        BY <1>1, <3>1 DEF IInv, QuietOK, Quiet
    <2>5. pc[i] \in PC
      BY <1>0, <1>1
    <2> QED
      BY <2>1, <2>2, <2>3, <2>4, <2>5 DEF PC, PcIdle, PcWork, PcSplit, Loop
  <1> QED
    BY <1>1, <1>2, <1>3, <1>4, <1>5, <1>6

(* The split point a booked master waits at is above the booking one.      *)
LEMMA BookedBelow ==
  ASSUME IInv, NEW t \in Threads, NEW i \in Threads, i # t, pc[t] = "book",
         state[t] = "SEARCHING", activeSplitPoints[i] > 0, t \in isSlave[Sp(i)],
         NEW above \in [SplitPoints -> SUBSET SplitPoints], IsPath(above)
  PROVE  Sp(i) \in above[Sp(t)]
  <1> USE Basics
  <1> DEFINE r == Sp(i)
             d == activeSplitPoints[t]
  <1>1. /\ r \in SplitPoints /\ Master(r) = i /\ r # NoSP
        /\ d \in 0..MaxActive /\ activeSplitPoints \in [Threads -> 0..MaxActive]
    BY SMTT(30) DEF Sp, Master, IInv, TypeInv, TypeOK
  <1>2. /\ Sp(t) \in SplitPoints /\ InUse(Sp(t)) /\ Sp(t) = <<t, d>> /\ tsp[t][d] = NoSP
        /\ d \in 1..MaxActive
    BY SplitFacts DEF PcSplit
  <1>3. Searches(t, r)
    BY <1>1 DEF IInv, FlagsOK, Assigned
  <1>4. PICK e \in 0..d : tsp[t][e] = r
    BY <1>3 DEF Searches
  <1>5. e < d /\ e + 1 \in 1..d /\ e + 1 \in 1..MaxActive
    BY <1>1, <1>2, <1>4
  <1> DEFINE c == <<t, e + 1>>
  <1>6. c \in SplitPoints /\ InUse(c) /\ c[2] - 1 = e /\ Master(c) = t /\ c[2] = e + 1
    BY SMTT(30), <1>1, <1>5 DEF InUse, Master
  <1>7. parent[c] = r
    BY <1>4, <1>6 DEF IInv, CallOK
  <1> HIDE DEF c, r
  <1>8. PathOf(above, Sp(t)) /\ PathOf(above, c)
    BY <1>2, <1>6 DEF IsPath
  <1>9. r \in above[c]
    BY <1>1, <1>7, <1>8 DEF PathOf
  <1>10. c \in above[Sp(t)]
    <2>1. Sp(t)[2] = d /\ Master(Sp(t)) = t
      BY <1>2 DEF Master
    <2> QED
      BY <1>5, <1>8, <2>1 DEF PathOf, c
  <1> QED
    BY <1>8, <1>9, <1>10 DEF PathOf, r

LEMMA BookInv ==
  ASSUME IInv, TypeInv', NEW t \in Threads, Book(t)
  PROVE  IInv'
  <1> USE Basics
  <1> DEFINE i == idx[t]
             s0 == Sp(t)
  <1>0. /\ pc \in [Threads -> PC] /\ idx \in [Threads -> 0..MaxThreads]
        /\ state \in [Threads -> ThreadState]
        /\ splitPoint \in [Threads -> SplitPoints \cup {NoSP}]
        /\ activeSplitPoints \in [Threads -> 0..MaxActive]
        /\ isSlave \in [SplitPoints -> SUBSET Threads]
        /\ crew \in [SplitPoints -> SUBSET Threads]
    BY DEF IInv, TypeInv, TypeOK
  <1>1. /\ pc[t] = "book" /\ pc' = [pc EXCEPT ![t] = "booktest"]
        /\ state' = [state EXCEPT ![i] = "BOOKED"]
        /\ splitPoint' = [splitPoint EXCEPT ![i] = s0]
        /\ isSlave' = [isSlave EXCEPT ![s0] = isSlave[s0] \cup {i}]
        /\ crew' = [crew EXCEPT ![s0] = crew[s0] \cup {i}]
        /\ idx' = [idx EXCEPT ![t] = i + 1]
        /\ UNCHANGED <<activeSplitPoints, parent, nodes, mpLock, spLock, tsp,
                       activeThreads, allThreadsShouldExit>>
    BY DEF Book, Goto, options, locks
  <1>2. /\ i \in Threads /\ i # t /\ i < activeThreads /\ state[i] = "AVAILABLE"
        /\ i \notin isSlave[s0] /\ pc[i] \in Loop \cup {"notify", "wake"}
        /\ activeSplitPoints[i] > 0 => t \in isSlave[Sp(i)]
    BY <1>1, BookedFacts
  <1>3. /\ s0 \in SplitPoints /\ InUse(s0) /\ Master(s0) = t /\ BookOf(t)
        /\ isSlave[s0] \subseteq Threads /\ ~Quiet
    BY <1>1, SplitFacts, SplitFrames DEF PcSplit, PcFrame
  <1>4. state[t] = "SEARCHING"
    BY <1>1 DEF IInv, StateOK
  <1> HIDE DEF i, s0
  <1>5. /\ \A u \in Threads : pc'[u] = IF u = t THEN "booktest" ELSE pc[u]
        /\ \A u \in Threads : state'[u] = IF u = i THEN "BOOKED" ELSE state[u]
        /\ \A u \in Threads : splitPoint'[u] = IF u = i THEN s0 ELSE splitPoint[u]
        /\ \A s \in SplitPoints : isSlave'[s] = IF s = s0 THEN isSlave[s] \cup {i} ELSE isSlave[s]
        /\ \A s \in SplitPoints : crew'[s] = IF s = s0 THEN crew[s] \cup {i} ELSE crew[s]
        /\ \A u \in Threads : idx'[u] = IF u = t THEN i + 1 ELSE idx[u]
    BY <1>0, <1>1, <1>2, <1>3
  <1>6. /\ \A s : InUse(s)' = InUse(s)
        /\ \A u \in Threads : Sp(u)' = Sp(u) /\ Tsp(u)' = Tsp(u)
    BY <1>1 DEF InUse, Sp, Tsp
  <1>7. \A u \in Threads, s \in SplitPoints :
          /\ Searches(u, s)' <=> Searches(u, s)
          /\ Assigned(u, s)' <=> Assigned(u, s) \/ (u = i /\ s = s0)
    <2>1. \A u \in Threads, s \in SplitPoints : Searches(u, s)' <=> Searches(u, s)
      BY <1>1, <1>5 DEF Searches
    <2>2. \A u \in Threads, s \in SplitPoints :
            Assigned(u, s)' <=> Assigned(u, s) \/ (u = i /\ s = s0)
      BY <1>2, <1>5 DEF Assigned
    <2> QED
      BY <2>1, <2>2
  <1>8. ~Searches(i, s0) /\ \A s \in SplitPoints : ~Assigned(i, s)
    BY <1>2, <1>3 DEF IInv, FlagsOK, Assigned
  <1>9. \A s \in SplitPoints :
          /\ \A u : u \in isSlave'[s] <=> u \in isSlave[s] \/ (s = s0 /\ u = i)
          /\ \A u : u \in crew'[s] <=> u \in crew[s] \/ (s = s0 /\ u = i)
    <2> SUFFICES ASSUME NEW s \in SplitPoints
                 PROVE  /\ \A u : u \in isSlave'[s] <=> u \in isSlave[s] \/ (s = s0 /\ u = i)
                        /\ \A u : u \in crew'[s] <=> u \in crew[s] \/ (s = s0 /\ u = i)
      OBVIOUS
    <2>1. CASE s = s0
      <3>1. isSlave'[s] = isSlave[s] \cup {i} /\ crew'[s] = crew[s] \cup {i}
        BY <2>1, <1>5
      <3> QED
        BY <2>1, <3>1
    <2>2. CASE s # s0
      <3>1. isSlave'[s] = isSlave[s] /\ crew'[s] = crew[s]
        BY <2>2, <1>5
      <3> QED
        BY <2>2, <3>1
    <2> QED
      BY <2>1, <2>2
  <1>11. StateOK'
    <2> SUFFICES ASSUME NEW u \in Threads PROVE
          /\ pc'[u] \in {"search", "leave", "available", "booktest", "book", "collect"}
               => state'[u] = "SEARCHING"
          /\ pc'[u] \in {"order", "orderwake"} =>
               /\ idx'[u] <= u => state'[u] = "SEARCHING"
               /\ idx'[u] > u => state'[u] = "WORKISWAITING"
          /\ pc'[u] \in {"joinlock", "resume"} => state'[u] = "AVAILABLE"
          /\ pc'[u] \in Loop \cup {"notify", "wake"} =>
               state'[u] \in {"INITIALIZING", "AVAILABLE", "BOOKED", "WORKISWAITING"}
          /\ pc'[u] = "dead" => state'[u] = "TERMINATED"
          /\ pc'[u] = "none" => state'[u] = "INITIALIZING"
          /\ state'[u] = "INITIALIZING" => activeSplitPoints[u] = 0
      BY <1>1 DEF StateOK
    <2>1. CASE u = t
      BY <2>1, <1>2, <1>4, <1>5 DEF Loop
    <2>2. CASE u = i
      BY <2>2, <1>2, <1>5 DEF Loop
    <2>3. CASE u # t /\ u # i
      BY <2>3, <1>5 DEF IInv, StateOK
    <2> QED
      BY <2>1, <2>2, <2>3
  <1>12. QuietOK' /\ LaunchOK'
    <2>1. QuietOK'
      <3>1. ~Quiet'
        BY <1>3, <1>5 DEF Quiet, PcMain
      <3>2. t = 0 => activeSplitPoints[0] # 0
        BY <1>1 DEF IInv, TypeInv, FrameOK, PcFrame
      <3> QED
        BY <3>1, <3>2, <1>1, <1>3, <1>5 DEF IInv, QuietOK, Quiet, PcMain
    <2>2. LaunchOK'
      BY <1>1, <1>5, LaunchKept
    <2> QED
      BY <2>1, <2>2
  <1>13. TspOK'
    BY <1>1, <1>5 DEF IInv, TspOK, TspOf, PcWork
  <1>14. BusyOK'
    <2> SUFFICES ASSUME NEW u \in Threads, Busy(u)'
                 PROVE  /\ splitPoint'[u] \in SplitPoints
                        /\ \A e \in 0..MaxActive : e < activeSplitPoints[u] => tsp[u][e] # splitPoint'[u]
                        /\ Master(splitPoint'[u]) = u => splitPoint'[u] = Sp(u) /\ state'[u] = "WORKISWAITING"
      BY <1>1, <1>6 DEF BusyOK
    <2>1. CASE u # i
      BY <2>1, <1>5 DEF IInv, BusyOK, Busy
    <2>2. CASE u = i
      <3>1. \A e \in 0..MaxActive : e < activeSplitPoints[i] => tsp[i][e] # s0
        <4> SUFFICES ASSUME NEW e \in 0..MaxActive, e < activeSplitPoints[i], tsp[i][e] = s0
                     PROVE  FALSE
          OBVIOUS
        <4>1. e \in 0..activeSplitPoints[i] /\ e # activeSplitPoints[i]
          BY <1>0, <1>2
        <4> QED
          BY <4>1, <1>8 DEF Searches
      <3> QED
        BY <2>2, <3>1, <1>2, <1>3, <1>5
    <2> QED
      BY <2>1, <2>2
  <1>15. FlagsOK'
    <2> SUFFICES ASSUME NEW s \in SplitPoints, NEW u \in Threads
                 PROVE  u \in isSlave'[s] <=> /\ u # Master(s)
                                             /\ (Assigned(u, s)' \/ Searches(u, s)')
      BY DEF FlagsOK
    <2>1. u \in isSlave[s] <=> u # Master(s) /\ (Assigned(u, s) \/ Searches(u, s))
      BY DEF IInv, FlagsOK
    <2> QED
      BY <1>2, <1>3, <1>7, <1>9, <2>1
  <1>16. FlagsInUse'
    BY <1>1, <1>2, <1>3, <1>5, <1>6 DEF IInv, FlagsInUse
  <1>17. CallOK'
    <2>1. \A u \in Threads : pc'[u] \in {"search", "leave"} =>
            pc'[u] = pc[u] /\ splitPoint'[u] = splitPoint[u]
      BY <1>2, <1>5 DEF Loop
    <2> QED
      BY <1>1, <1>6, <2>1 DEF IInv, CallOK
  <1>18. BookOK'
    <2> SUFFICES ASSUME NEW u \in Threads PROVE BookOf(u)'
      BY DEF BookOK
    <2>1. CASE u = t
      <3>1. \A j \in isSlave[s0] : /\ j < i /\ state[j] = "BOOKED" /\ splitPoint[j] = s0
                                   /\ j \in Threads
        BY <1>1, <1>3 DEF BookOf, s0, i
      <3>2. i \in Nat
        BY <1>2
      <3>3. \A j \in isSlave'[s0] : j < i + 1 /\ state'[j] = "BOOKED" /\ splitPoint'[j] = s0
        <4> SUFFICES ASSUME NEW j \in isSlave'[s0]
                     PROVE  j < i + 1 /\ state'[j] = "BOOKED" /\ splitPoint'[j] = s0
          OBVIOUS
        <4>1. j \in isSlave[s0] \/ j = i
          BY <1>3, <1>9
        <4>2. j \in Nat /\ j \in Threads
          BY <4>1, <3>1, <1>2
        <4>3. j < i + 1
          BY <4>1, <4>2, <3>1, <3>2
        <4> QED
          BY <4>1, <4>2, <4>3, <3>1, <1>5
      <3>4. isSlave'[s0] # {}
        BY <1>3, <1>9
      <3>5. splitPoint[t] = s0 /\ mpLock = t
        BY <1>1, <1>3 DEF BookOf, PcSplit, s0
      <3> QED
        BY <2>1, <3>3, <3>4, <3>5, <1>1, <1>2, <1>5, <1>6 DEF BookOf, PcSplit, s0
    <2>2. CASE u # t /\ pc[u] \in {"booktest", "book"}
      BY <2>2, <1>1, <1>3 DEF IInv, BookOK, BookOf
    <2>3. CASE u # t /\ pc[u] \notin {"booktest", "book"}
      <3>1. pc[u] \in PcSplit => u # i /\ Sp(u) # s0 /\ Sp(u) \in SplitPoints
        BY <2>3, <1>2, <1>3, SplitFacts DEF PcSplit, Loop
      <3> QED
        BY <2>3, <3>1, <1>1, <1>2, <1>5, BookKept
    <2> QED
      BY <2>1, <2>2, <2>3
  <1>19. MasterOK'
    <2> SUFFICES ASSUME NEW s \in SplitPoints, InUse(s) PROVE MasterOf(s)'
      BY <1>6 DEF MasterOK
    <2>1. /\ MasterOf(s) /\ Master(s) \in Threads
      BY DEF IInv, MasterOK, Master
    <2>2. Assigned(Master(s), s)' <=> Assigned(Master(s), s)
      BY <2>1, <1>2, <1>3, <1>7
    <2>3. CASE Master(s) # t
      BY <2>1, <2>2, <2>3, <1>1, <1>5 DEF MasterOf
    <2>4. CASE Master(s) = t
      <3>1. pc[t] = "book" /\ pc'[t] = "booktest"
        BY <1>1, <1>5
      <3> QED
        BY <2>1, <2>2, <2>4, <3>1, <1>1 DEF MasterOf, PcSplit, Gone
    <2> QED
      BY <2>3, <2>4
  <1>20. JoinOK'
    <2>1. \A u \in Threads : pc'[u] \in {"joinlock", "resume", "collect", "leave"} =>
            pc'[u] = pc[u] /\ u # t
      BY <1>5
    <2>2. \A u \in Threads : pc'[u] \in {"joinlock", "resume", "collect"} =>
            isSlave'[Sp(u)] = isSlave[Sp(u)]
      <3> SUFFICES ASSUME NEW u \in Threads, pc'[u] \in {"joinlock", "resume", "collect"}
                   PROVE  isSlave'[Sp(u)] = isSlave[Sp(u)]
        OBVIOUS
      <3>1. Sp(u) \in SplitPoints /\ Master(Sp(u)) = u
        BY <2>1, SplitFrames DEF PcFrame
      <3> QED
        BY <2>1, <3>1, <1>3, <1>5
    <2>3. \A u \in Threads : pc'[u] = "leave" <=> pc[u] = "leave"
      BY <1>1, <1>5
    <2> QED
      BY <1>1, <1>6, <2>1, <2>2, <2>3 DEF IInv, JoinOK
  <1>21. CrewOK'
    <2> SUFFICES ASSUME NEW s \in SplitPoints, NEW u \in Threads, InUse(s)
                 PROVE  u \in crew'[s] <=> \/ u = Master(s) \/ u \in isSlave'[s] \/ u \in nodes[s]
                                           \/ (pc'[u] = "leave" /\ Tsp(u) = s)
      BY <1>1, <1>6 DEF CrewOK
    <2>1. u \in crew[s] <=> \/ u = Master(s) \/ u \in isSlave[s] \/ u \in nodes[s]
                            \/ (pc[u] = "leave" /\ Tsp(u) = s)
      BY DEF IInv, CrewOK
    <2> QED
      BY <1>1, <1>2, <1>5, <1>9, <2>1
  <1>22. Rooted'
    <2>1. PICK above \in [SplitPoints -> SUBSET SplitPoints] : IsPath(above) /\ WaysUp(above)
      BY DEF IInv, Rooted
    <2>2. activeSplitPoints[i] > 0 => Sp(i) \in above[s0]
      BY <1>1, <1>2, <1>4, <2>1, BookedBelow DEF s0
    <2>3. ASSUME NEW s \in SplitPoints, InUse(s)
          PROVE  PathOf(above, s)' /\ \A u \in isSlave'[s] : Below(above, u, s)'
      <3>1. PathOf(above, s) /\ \A u \in isSlave[s] : Below(above, u, s)
        BY <2>1, <2>3 DEF IsPath
      <3>2. PathOf(above, s)'
        BY <1>1, <1>6, <3>1 DEF PathOf
      <3>3. ASSUME NEW u \in isSlave'[s] PROVE Below(above, u, s)'
        <4>1. u \in Threads
          BY <1>0, <1>2, <1>9
        <4>2. CASE u = i /\ s = s0
          <5>1. \A e \in 1..activeSplitPoints[i] : tsp[i][e] = s0 =>
                  /\ e = activeSplitPoints[i] /\ activeSplitPoints[i] > 0
                  /\ Sp(i) = <<i, e>>
            <6> SUFFICES ASSUME NEW e \in 1..activeSplitPoints[i], tsp[i][e] = s0
                         PROVE  /\ e = activeSplitPoints[i] /\ activeSplitPoints[i] > 0
                                /\ Sp(i) = <<i, e>>
              OBVIOUS
            <6>1. e \in 0..activeSplitPoints[i] /\ activeSplitPoints[i] > 0
              BY <1>0, <1>2
            <6>2. e = activeSplitPoints[i]
              BY <6>1, <1>8 DEF Searches
            <6> QED
              BY <6>1, <6>2 DEF Sp
          <5> QED
            BY <4>1, <4>2, <5>1, <2>2, <1>1, <1>6 DEF Below
        <4>3. CASE ~(u = i /\ s = s0)
          <5>1. u \in isSlave[s] /\ (Assigned(u, s)' <=> Assigned(u, s))
            BY <4>1, <4>3, <1>7, <1>9
          <5> QED
            BY <3>1, <4>1, <5>1, <1>1, <1>6 DEF Below
        <4> QED
          BY <4>2, <4>3
      <3> QED
        BY <3>2, <3>3
    <2>4. IsPath(above)'
      BY <1>6, <2>3 DEF IsPath
    <2> QED
      BY <2>1, <2>4, <1>1, <1>6, WaysUpKept DEF Rooted
  <1> QED
    BY <1>11, <1>12, <1>13, <1>14, <1>15, <1>16, <1>17, <1>18, <1>19, <1>20, <1>21, <1>22 DEF IInv

LEMMA SplitInv ==
  ASSUME IInv, TypeInv', NEW t \in Threads, Split(t)
  PROVE  IInv'
  <1> USE Basics
  <1>p. PICK d, s0, p0 : d = activeSplitPoints[t] /\ s0 = <<t, d + 1>> /\ p0 = Tsp(t)
    OBVIOUS
  <1>0. /\ pc \in [Threads -> PC] /\ idx \in [Threads -> 0..MaxThreads]
        /\ splitPoint \in [Threads -> SplitPoints \cup {NoSP}]
        /\ activeSplitPoints \in [Threads -> 0..MaxActive]
        /\ isSlave \in [SplitPoints -> SUBSET Threads]
        /\ nodes \in [SplitPoints -> SUBSET Threads]
        /\ crew \in [SplitPoints -> SUBSET Threads]
        /\ parent \in [SplitPoints -> SplitPoints \cup {NoSP}]
        /\ tsp \in [Threads -> [0..MaxActive -> SplitPoints \cup {NoSP}]]
    BY DEF IInv, TypeInv, TypeOK
  <1>a. d \in 0..MaxActive /\ d < MaxActive /\ d + 1 \in 1..MaxActive /\ d + 1 \in 0..MaxActive
    <2>1. d \in 0..MaxActive /\ d < MaxActive
      BY <1>0, <1>p DEF Split, CanSplit
    <2> QED
      BY <2>1
  <1>1. /\ pc[t] = "search" /\ pc' = [pc EXCEPT ![t] = "booktest"]
        /\ parent' = [parent EXCEPT ![s0] = splitPoint[t]]
        /\ isSlave' = [isSlave EXCEPT ![s0] = {i \in isSlave[s0] : i >= activeThreads}]
        /\ nodes' = [nodes EXCEPT ![s0] = {}]
        /\ crew' = [crew EXCEPT ![s0] = {t}]
        /\ splitPoint' = [splitPoint EXCEPT ![t] = s0]
        /\ activeSplitPoints' = [activeSplitPoints EXCEPT ![t] = d + 1]
        /\ mpLock = Free /\ mpLock' = t
        /\ idx' = [idx EXCEPT ![t] = 0]
        /\ UNCHANGED <<state, spLock, tsp, activeThreads, allThreadsShouldExit>>
    BY <1>p DEF Split, Goto, options
  <1>2. s0 \in SplitPoints /\ s0 # NoSP /\ Master(s0) = t /\ s0[2] = d + 1 /\ ~InUse(s0)
    BY <1>0, <1>a, <1>p DEF InUse, Master
  <1>3. isSlave[s0] = {}
    BY <1>0, <1>2 DEF IInv, FlagsInUse
  <1>4. state[t] = "SEARCHING" /\ splitPoint[t] = p0 /\ p0 = tsp[t][d]
    BY <1>1, <1>p DEF IInv, StateOK, CallOK, Tsp
  <1>b. /\ p0 \in SplitPoints \cup {NoSP}
        /\ p0 = NoSP <=> (t = 0 /\ d = 0)
        /\ tsp[t][d + 1] = NoSP
    <2>1. TspOf(t, d) /\ TspOf(t, d + 1)
      BY <1>a DEF IInv, TspOK
    <2> QED
      BY <2>1, <1>0, <1>1, <1>4, <1>a, <1>p DEF TspOf, PcWork
  <1>c. p0 # NoSP => /\ InUse(p0) /\ p0 \in SplitPoints
                     /\ t # Master(p0) => t \in isSlave[p0]
                     /\ t = Master(p0) => p0 = <<t, d>>
    BY <1>1, <1>p, SearchedInUse
  <1>5. /\ \A u \in Threads : pc'[u] = IF u = t THEN "booktest" ELSE pc[u]
        /\ \A s \in SplitPoints : parent'[s] = IF s = s0 THEN p0 ELSE parent[s]
        /\ \A s \in SplitPoints : nodes'[s] = IF s = s0 THEN {} ELSE nodes[s]
        /\ \A s \in SplitPoints : crew'[s] = IF s = s0 THEN {t} ELSE crew[s]
        /\ \A u \in Threads : splitPoint'[u] = IF u = t THEN s0 ELSE splitPoint[u]
        /\ \A u \in Threads : activeSplitPoints'[u] = IF u = t THEN d + 1 ELSE activeSplitPoints[u]
        /\ \A u \in Threads : idx'[u] = IF u = t THEN 0 ELSE idx[u]
        /\ activeSplitPoints[t] = d
    BY <1>0, <1>1, <1>2, <1>4, <1>p
  <1>6. \A s \in SplitPoints : isSlave'[s] = isSlave[s]
    <2>1. {i \in isSlave[s0] : i >= activeThreads} = isSlave[s0]
      BY <1>3
    <2> QED
      BY <1>0, <1>1, <1>2, <2>1
  <1>7. \A s \in SplitPoints : InUse(s)' <=> InUse(s) \/ s = s0
    <2> SUFFICES ASSUME NEW s \in SplitPoints PROVE InUse(s)' <=> InUse(s) \/ s = s0
      OBVIOUS
    <2>1. CASE Master(s) # t
      BY <2>1, <1>2, <1>5 DEF InUse, Master
    <2>2. CASE Master(s) = t
      <3>1. s[2] \in 1..MaxActive /\ s = <<t, s[2]>>
        BY <2>2 DEF Master
      <3>2. s[2] <= d + 1 <=> s[2] <= d \/ s[2] = d + 1
        BY <3>1, <1>a
      <3> QED
        BY <2>2, <3>1, <3>2, <1>5, <1>p DEF InUse, Master
    <2> QED
      BY <2>1, <2>2
  <1>8. \A u \in Threads \ {t} : Sp(u)' = Sp(u) /\ Tsp(u)' = Tsp(u)
    BY <1>1, <1>5 DEF Sp, Tsp
  <1>9. Sp(t)' = s0
    BY <1>5, <1>a, <1>p DEF Sp
  <1>10. \A u \in Threads, s \in SplitPoints :
           /\ Searches(u, s)' <=> Searches(u, s)
           /\ Assigned(u, s)' <=> Assigned(u, s)
    <2> SUFFICES ASSUME NEW u \in Threads, NEW s \in SplitPoints
                 PROVE  /\ Searches(u, s)' <=> Searches(u, s)
                        /\ Assigned(u, s)' <=> Assigned(u, s)
      OBVIOUS
    <2>1. CASE u # t
      BY <2>1, <1>1, <1>5 DEF Searches, Assigned
    <2>2. CASE u = t
      <3>1. Searches(t, s) <=> \E e \in 0..d : tsp[t][e] = s
        BY <1>1, <1>5 DEF Searches
      <3>2. Searches(t, s)' <=> \E e \in 0..d + 1 : tsp[t][e] = s
        BY <1>1, <1>5 DEF Searches
      <3>3. \A e : e \in 0..d + 1 <=> e \in 0..d \/ e = d + 1
        BY <1>a
      <3> QED
        BY <2>2, <3>1, <3>2, <3>3, <1>1, <1>4, <1>b DEF Assigned
    <2> QED
      BY <2>1, <2>2
  <1>d. t < activeThreads
    <2>1. CASE p0 = NoSP
      BY <2>1, <1>b DEF IInv, TypeInv, TypeOK
    <2>2. CASE p0 # NoSP
      BY <2>2, <1>c DEF IInv, FlagsInUse
    <2> QED
      BY <2>1, <2>2
  <1>e. ~Quiet
    <2>1. SUFFICES ASSUME Quiet PROVE FALSE
      OBVIOUS
    <2>2. \A s \in SplitPoints : ~InUse(s)
      BY <1>0, <2>1 DEF IInv, QuietOK, InUse, Master
    <2>3. p0 = NoSP
      BY <1>c, <2>2
    <2> QED
      BY <1>1, <1>b, <2>1, <2>3 DEF Quiet, PcMain
  <1>11. StateOK'
    <2>1. \A u \in Threads : state'[u] = "INITIALIZING" => activeSplitPoints'[u] = 0
      BY <1>1, <1>4, <1>5 DEF IInv, StateOK
    <2> QED
      BY <2>1, <1>1, <1>4, <1>5 DEF IInv, StateOK, Loop
  <1>12. QuietOK' /\ LaunchOK'
    <2>1. QuietOK'
      <3>1. ~Quiet' /\ (activeSplitPoints'[0] = 0 => 0 # t /\ activeSplitPoints[0] = 0)
        BY <1>1, <1>5, <1>a, <1>e DEF Quiet, PcMain
      <3> QED
        BY <3>1, <1>1, <1>5, <1>e DEF IInv, QuietOK, Quiet, PcMain
    <2>2. LaunchOK'
      BY <1>1, <1>5, LaunchKept
    <2> QED
      BY <2>1, <2>2
  <1>13. TspOK'
    <2> SUFFICES ASSUME NEW u \in Threads, NEW e \in 0..MaxActive PROVE TspOf(u, e)'
      BY DEF TspOK
    <2>1. TspOf(u, e)
      BY DEF IInv, TspOK
    <2>2. CASE u # t
      BY <2>1, <2>2, <1>1, <1>5 DEF TspOf
    <2>3. CASE u = t
      <3>1. /\ e > d + 1 => e > d
            /\ e < d + 1 => e < d \/ e = d
            /\ ~(d + 1 < e /\ e = d + 1)
        BY <1>a
      <3>2. pc[t] \in PcWork /\ pc'[t] \notin PcWork
        BY <1>1, <1>5 DEF PcWork
      <3> QED
        BY <2>1, <2>3, <3>1, <3>2, <1>1, <1>5, <1>b DEF TspOf
    <2> QED
      BY <2>2, <2>3
  <1>14. BusyOK'
    <2> SUFFICES ASSUME NEW u \in Threads, Busy(u)'
                 PROVE  /\ splitPoint'[u] \in SplitPoints
                        /\ \A e \in 0..MaxActive : e < activeSplitPoints'[u] => tsp'[u][e] # splitPoint'[u]
                        /\ Master(splitPoint'[u]) = u => splitPoint'[u] = Sp(u)' /\ state'[u] = "WORKISWAITING"
      BY DEF BusyOK
    <2>1. u # t /\ Busy(u)
      BY <1>1, <1>4 DEF Busy
    <2> QED
      BY <2>1, <1>1, <1>5, <1>8 DEF IInv, BusyOK
  <1>15. FlagsOK'
    BY <1>6, <1>10 DEF IInv, FlagsOK
  <1>16. FlagsInUse'
    BY <1>1, <1>2, <1>6, <1>7, <1>d DEF IInv, FlagsInUse
  <1>17. CallOK'
    <2>1. \A u \in Threads : pc'[u] \in {"search", "leave"} => splitPoint'[u] = Tsp(u)'
      BY <1>5, <1>8 DEF IInv, CallOK
    <2>2. ASSUME NEW s \in SplitPoints, InUse(s)'
          PROVE  parent'[s] = tsp'[Master(s)][s[2] - 1]
      <3>1. CASE s = s0
        <4>1. (d + 1) - 1 = d
          BY <1>a
        <4> QED
          BY <3>1, <4>1, <1>1, <1>2, <1>4, <1>5
      <3>2. CASE s # s0
        BY <2>2, <3>2, <1>1, <1>5, <1>7 DEF IInv, CallOK
      <3> QED
        BY <3>1, <3>2
    <2> QED
      BY <2>1, <2>2 DEF CallOK
  <1>18. BookOK'
    <2> SUFFICES ASSUME NEW u \in Threads PROVE BookOf(u)'
      BY DEF BookOK
    <2>1. CASE u = t
      <3>1. isSlave'[s0] = {}
        BY <1>2, <1>3, <1>6
      <3>2. PICK j \in Threads : j < activeThreads /\ j # t /\ IsAvailableTo(j, t)
        BY DEF Split, CanSplit, AvailableSlaveExists
      <3>3. IsAvailableTo(j, t)'
        <4>1. activeSplitPoints'[j] = activeSplitPoints[j] /\ state'[j] = state[j]
          BY <3>2, <1>1, <1>5
        <4>2. activeSplitPoints[j] # 0 => <<j, activeSplitPoints[j]>> \in SplitPoints
          BY <1>0
        <4> QED
          BY <3>2, <4>1, <4>2, <1>6 DEF IsAvailableTo
      <3>4. j >= 0
        OBVIOUS
      <3> QED
        BY <2>1, <3>1, <3>2, <3>3, <3>4, <1>1, <1>5, <1>9 DEF BookOf, PcSplit
    <2>2. CASE u # t
      <3>1. pc[u] \notin {"booktest", "book"}
        <4>1. mpLock # u
          BY <1>1 DEF Free
        <4> QED
          BY <4>1 DEF IInv, BookOK, BookOf
      <3>2. pc[u] \in PcSplit => Sp(u) \in SplitPoints
        BY SplitFacts
      <3> QED
        <4>1. /\ pc'[u] = pc[u] /\ idx'[u] = idx[u] /\ splitPoint'[u] = splitPoint[u]
              /\ activeSplitPoints'[u] = activeSplitPoints[u]
              /\ activeThreads' = activeThreads
          BY <2>2, <1>1, <1>5
        <4>2. pc[u] \in PcSplit => isSlave'[Sp(u)] = isSlave[Sp(u)]
          BY <3>2, <1>6
        <4>3. \A i \in Threads : state[i] = "BOOKED" =>
                state'[i] = "BOOKED" /\ splitPoint'[i] = splitPoint[i]
          BY <1>1, <1>4, <1>5
        <4> QED
          BY <4>1, <4>2, <4>3, <3>1, BookKept
    <2> QED
      BY <2>1, <2>2
  <1>19. MasterOK'
    <2> SUFFICES ASSUME NEW s \in SplitPoints, InUse(s)' PROVE MasterOf(s)'
      BY DEF MasterOK
    <2>1. CASE s = s0
      BY <2>1, <1>1, <1>2, <1>5 DEF MasterOf, PcSplit
    <2>2. CASE s # s0 /\ Master(s) # t
      <3>1. MasterOf(s) /\ Master(s) \in Threads
        BY <2>2, <1>7 DEF IInv, MasterOK, Master
      <3> QED
        BY <2>2, <3>1, <1>1, <1>5, <1>10 DEF MasterOf
    <2>3. CASE s # s0 /\ Master(s) = t
      <3>1. MasterOf(s) /\ s[2] \in 1..MaxActive /\ s[2] <= d
        BY <2>3, <1>5, <1>7 DEF IInv, MasterOK, InUse
      <3>2. s[2] # d + 1
        BY <3>1, <1>a
      <3>3. pc[t] = "search" /\ pc[t] \notin Gone \cup PcSplit \cup {"top", "sleeptest", "work"}
        BY <1>1 DEF Gone, PcSplit
      <3> QED
        BY <2>3, <3>1, <3>2, <3>3, <1>1, <1>5, <1>10 DEF MasterOf
    <2> QED
      BY <2>1, <2>2, <2>3
  <1>20. JoinOK'
    <2>1. \A u \in Threads : pc'[u] \in {"joinlock", "resume", "collect"} =>
            u # t /\ pc'[u] = pc[u] /\ Sp(u) \in SplitPoints /\ Sp(u)' = Sp(u)
      BY <1>5, <1>8, SplitFrames DEF PcFrame
    <2>2. \A u \in Threads : pc'[u] = "leave" => u # t /\ pc[u] = "leave" /\ Tsp(u)' = Tsp(u)
      BY <1>5, <1>8
    <2>3. \A u \in Threads : pc[u] = "leave" => InUse(Tsp(u)) /\ Tsp(u) \in SplitPoints
      <3> SUFFICES ASSUME NEW u \in Threads, pc[u] = "leave"
                   PROVE  InUse(Tsp(u)) /\ Tsp(u) \in SplitPoints
        OBVIOUS
      <3>1. InUse(Tsp(u))
        BY DEF IInv, JoinOK
      <3>2. activeSplitPoints[u] \in 0..MaxActive
        BY <1>0
      <3> QED
        BY <3>1, <3>2, <1>0 DEF InUse, Tsp
    <2> QED
      BY <2>1, <2>2, <2>3, <1>1, <1>6, <1>7 DEF IInv, JoinOK
  <1>21. CrewOK'
    <2> SUFFICES ASSUME NEW s \in SplitPoints, NEW u \in Threads, InUse(s)'
                 PROVE  u \in crew'[s] <=> \/ u = Master(s) \/ u \in isSlave'[s] \/ u \in nodes'[s]
                                           \/ (pc'[u] = "leave" /\ Tsp(u)' = s)
      BY DEF CrewOK
    <2>1. pc'[u] = "leave" => u # t /\ pc[u] = "leave" /\ Tsp(u)' = Tsp(u)
      BY <1>5, <1>8
    <2>2. CASE s = s0
      <3>1. ~(pc'[u] = "leave" /\ Tsp(u)' = s)
        BY <2>1, <2>2, <1>2 DEF IInv, JoinOK
      <3> QED
        BY <2>2, <3>1, <1>2, <1>3, <1>5, <1>6
    <2>3. CASE s # s0
      <3>1. u \in crew[s] <=> \/ u = Master(s) \/ u \in isSlave[s] \/ u \in nodes[s]
                              \/ (pc[u] = "leave" /\ Tsp(u) = s)
        BY <2>3, <1>7 DEF IInv, CrewOK
      <3>2. pc[u] = "leave" => pc'[u] = "leave" /\ Tsp(u)' = Tsp(u)
        BY <1>1, <1>5, <1>8
      <3> QED
        BY <2>1, <2>3, <3>1, <3>2, <1>5, <1>6
    <2> QED
      BY <2>2, <2>3
  <1>22. Rooted'
    <2>1. PICK above \in [SplitPoints -> SUBSET SplitPoints] : IsPath(above) /\ WaysUp(above)
      BY DEF IInv, Rooted
    <2> DEFINE up == IF p0 = NoSP THEN {s0} ELSE above[p0] \cup {s0}
               new == [above EXCEPT ![s0] = up]
    <2>2. /\ new \in [SplitPoints -> SUBSET SplitPoints] /\ new[s0] = up
          /\ \A s \in SplitPoints : s # s0 => new[s] = above[s]
      BY <2>1, <1>2, <1>c
    <2>3. p0 # NoSP => PathOf(above, p0)
      BY <2>1, <1>c DEF IsPath
    <2>4. \A s \in SplitPoints : InUse(s) => PathOf(above, s) /\ s0 \notin above[s]
      BY <2>1, <1>2 DEF IsPath, PathOf
    <2> HIDE DEF new, up
    <2>5. PathOf(new, s0)'
      <3>1. CASE p0 = NoSP
        <4>1. t = 0 /\ d = 0 /\ s0 = <<0, 1>> /\ up = {s0}
          BY <3>1, <1>b, <1>a, <1>p DEF up
        <4>2. \A j \in 1..s0[2] : <<Master(s0), j>> = s0
          BY <4>1, <1>2
        <4>3. InUse(s0)' /\ parent'[s0] = NoSP
          BY <3>1, <1>2, <1>5, <1>7
        <4>4. PathOf(new, s0)' <=>
                /\ s0 \in up /\ <<0, 1>> \in up
                /\ \A j \in 1..s0[2] : <<Master(s0), j>> \in up
                /\ parent'[s0] # NoSP => parent'[s0] \in up
                /\ \A a \in up :
                     /\ InUse(a)' /\ new[a] \subseteq up
                     /\ a # s0 => \E c \in up : parent'[c] = a
          BY <2>2 DEF PathOf
        <4> QED
          BY <4>1, <4>2, <4>3, <4>4, <2>2
      <3>2. CASE p0 # NoSP
        <4> SUFFICES
                /\ s0 \in up /\ <<0, 1>> \in up
                /\ \A j \in 1..s0[2] : <<Master(s0), j>> \in up
                /\ parent'[s0] # NoSP => parent'[s0] \in up
                /\ \A a \in up :
                     /\ InUse(a)' /\ new[a] \subseteq up
                     /\ a # s0 => \E c \in up : parent'[c] = a
          BY <2>2 DEF PathOf
        <4>1. up = above[p0] \cup {s0} /\ p0 \in SplitPoints /\ InUse(p0)
          BY <3>2, <1>c DEF up
        <4>2. s0 \in up /\ <<0, 1>> \in up /\ p0 \in up
          BY <3>2, <2>3, <4>1 DEF PathOf
        <4>3. ASSUME NEW j \in 1..s0[2] PROVE <<Master(s0), j>> \in up
          <5>1. CASE j = d + 1
            BY <5>1, <1>2, <1>p, <4>2
          <5>2. CASE j # d + 1
            <6>1. j \in 1..d /\ d > 0 /\ d \in 1..MaxActive
              BY <5>2, <1>2, <1>a
            <6>2. /\ <<t, d>> \in SplitPoints /\ Master(<<t, d>>) = t /\ <<t, d>>[2] = d
                  /\ InUse(<<t, d>>)
              BY <6>1, <1>5 DEF Master, InUse
            <6>3. <<t, d>> \in above[p0]
              <7>1. CASE t = Master(p0)
                BY <7>1, <3>2, <1>c, <2>3 DEF PathOf
              <7>2. CASE t # Master(p0)
                <8>1. t \in isSlave[p0] /\ Below(above, t, p0)
                  BY <7>2, <3>2, <1>c, <2>1 DEF IsPath
                <8>2. d \in 1..activeSplitPoints[t] /\ tsp[t][d] = p0
                  BY <6>1, <1>4, <1>5
                <8> QED
                  BY <8>1, <8>2 DEF Below
              <7> QED
                BY <7>1, <7>2
            <6>4. <<t, j>> \in above[<<t, d>>]
              BY <6>1, <6>2, <2>4 DEF PathOf
            <6>5. <<t, j>> \in above[p0]
              BY <3>2, <6>3, <6>4, <2>3 DEF PathOf
            <6> QED
              BY <6>5, <4>1, <1>2
          <5> QED
            BY <5>1, <5>2
        <4>4. parent'[s0] = p0
          BY <1>2, <1>5
        <4>5. ASSUME NEW a \in up
              PROVE  /\ InUse(a)' /\ new[a] \subseteq up
                     /\ a # s0 => \E c \in up : parent'[c] = a
          <5>1. CASE a = s0
            BY <5>1, <1>2, <1>7, <2>2
          <5>2. CASE a # s0
            <6>1. a \in above[p0] /\ a \in SplitPoints /\ InUse(a) /\ above[a] \subseteq above[p0]
              BY <5>2, <4>1, <3>2, <2>1, <2>3 DEF PathOf
            <6>2. InUse(a)' /\ new[a] \subseteq up
              BY <6>1, <5>2, <4>1, <2>2, <1>7
            <6>3. \E c \in up : parent'[c] = a
              <7>1. CASE a = p0
                BY <7>1, <4>2, <4>4
              <7>2. CASE a # p0
                <8>1. PICK c \in above[p0] : parent[c] = a
                  BY <7>2, <6>1, <3>2, <2>3 DEF PathOf
                <8>2. c \in SplitPoints /\ c # s0
                  BY <8>1, <4>1, <2>1, <2>4
                <8> QED
                  BY <8>1, <8>2, <4>1, <1>5
              <7> QED
                BY <7>1, <7>2
            <6> QED
              BY <6>2, <6>3
          <5> QED
            BY <5>1, <5>2
        <4> QED
          BY <4>2, <4>3, <4>4, <4>5
      <3> QED
        BY <3>1, <3>2
    <2>6. ASSUME NEW s \in SplitPoints, InUse(s) PROVE PathOf(new, s)'
      <3>1. PathOf(above, s) /\ s0 \notin above[s] /\ s # s0
        BY <2>4, <2>6, <1>2
      <3>2. \A a \in above[s] : a \in SplitPoints /\ a # s0
        BY <3>1, <2>1
      <3>3. new[s] = above[s] /\ parent'[s] = parent[s]
        BY <3>1, <2>2, <1>5
      <3>4. \A a \in above[s] : InUse(a)' /\ new[a] = above[a] /\ parent'[a] = parent[a]
        BY <3>1, <3>2, <2>2, <1>5, <1>7 DEF PathOf
      <3> SUFFICES
              /\ s \in new[s] /\ <<0, 1>> \in new[s]
              /\ \A j \in 1..s[2] : <<Master(s), j>> \in new[s]
              /\ parent'[s] # NoSP => parent'[s] \in new[s]
              /\ \A a \in new[s] :
                   /\ InUse(a)' /\ new[a] \subseteq new[s]
                   /\ a # s => \E c \in new[s] : parent'[c] = a
        BY DEF PathOf
      <3> QED
        BY <3>1, <3>3, <3>4 DEF PathOf
    <2>7. ASSUME NEW s \in SplitPoints, InUse(s)', NEW u \in isSlave'[s]
          PROVE  Below(new, u, s)'
      <3>1. u \in isSlave[s] /\ s # s0 /\ InUse(s) /\ u \in Threads
        BY <2>7, <1>0, <1>3, <1>6, <1>7
      <3>2. Below(above, u, s) /\ new[s] = above[s]
        BY <3>1, <2>1, <2>2 DEF IsPath
      <3>3. CASE u # t
        BY <3>1, <3>2, <3>3, <1>1, <1>5, <1>8, <1>10 DEF Below
      <3>4. CASE u = t
        <4>1. ~Assigned(t, s)'
          BY <1>1, <1>4 DEF Assigned
        <4>2. \A e \in 1..d + 1 : e \in 1..d \/ e = d + 1
          BY <1>a
        <4> QED
          BY <3>1, <3>2, <3>4, <4>1, <4>2, <1>1, <1>5, <1>b DEF Below
      <3> QED
        BY <3>3, <3>4
    <2>8. IsPath(new)'
      BY <2>5, <2>6, <2>7, <1>7 DEF IsPath
    <2>9. WaysUp(new)'
      <3> SUFFICES ASSUME NEW s \in SplitPoints, InUse(s)'
                   PROVE  IsWayUp(new, s)'
        BY DEF WaysUp
      <3>1. ASSUME NEW r \in SplitPoints, InUse(r), NEW path \in SUBSET SplitPoints,
                   r \in path, Closed(path)'
            PROVE  above[r] \subseteq path
        <4> DEFINE old == {c \in path : InUse(c)}
        <4>1. \A c \in old : parent'[c] = parent[c]
          BY <1>2, <1>5
        <4>2. \A c \in old : parent[c] # NoSP => InUse(parent[c])
          BY <2>1 DEF IsPath, PathOf
        <4>3. Closed(old)
          BY <3>1, <4>1, <4>2 DEF Closed
        <4>4. old \in SUBSET SplitPoints /\ r \in old
          BY <3>1
        <4> HIDE DEF old
        <4>5. above[r] \subseteq old
          BY <2>1, <3>1, <4>3, <4>4 DEF WaysUp, IsWayUp
        <4> QED
          BY <4>5 DEF old
      <3>2. CASE s # s0
        <4>1. InUse(s) /\ new[s] = above[s] /\ IsWayUp(above, s)
          BY <3>2, <2>1, <2>2, <1>7 DEF WaysUp
        <4>2. \A a \in above[s] : a \in SplitPoints /\ new[a] = above[a]
          BY <4>1, <2>1, <2>2, <2>4
        <4> QED
          BY <3>1, <4>1, <4>2 DEF IsWayUp
      <3>3. CASE s = s0
        <4>1. parent'[s0] = p0
          BY <1>2, <1>5
        <4>2. up = IF p0 = NoSP THEN {s0} ELSE above[p0] \cup {s0}
          BY DEF up
        <4>3. ASSUME NEW path \in SUBSET SplitPoints, s0 \in path, Closed(path)'
              PROVE  up \subseteq path
          <5>1. p0 # NoSP => p0 \in path /\ above[p0] \subseteq path
            BY <4>1, <4>3, <3>1, <1>c DEF Closed
          <5> QED
            BY <4>2, <4>3, <5>1
        <4>4. ASSUME NEW a \in up, s0 \in new[a] PROVE a = s0
          <5> SUFFICES ASSUME a # s0 PROVE FALSE
            OBVIOUS
          <5>1. a \in above[p0] /\ p0 \in SplitPoints /\ PathOf(above, p0)
            BY <4>2, <4>4, <2>3, <1>c
          <5>2. a \in SplitPoints /\ InUse(a) /\ new[a] = above[a]
            BY <5>1, <2>1, <2>2 DEF PathOf
          <5> QED
            BY <5>2, <4>4, <2>4
        <4> QED
          BY <3>3, <4>3, <4>4, <2>2 DEF IsWayUp
      <3> QED
        BY <3>2, <3>3
    <2> QED
      BY <2>2, <2>8, <2>9 DEF Rooted
  <1> QED
    BY <1>11, <1>12, <1>13, <1>14, <1>15, <1>16, <1>17, <1>18, <1>19, <1>20, <1>21, <1>22 DEF IInv

(* The end of split(): the split point is closed, with nobody left at it   *)
(* and nothing below it.                                                   *)
LEMMA CollectInv ==
  ASSUME IInv, TypeInv', NEW t \in Threads, Collect(t)
  PROVE  IInv'
  <1> USE Basics
  <1>p. PICK d, s0, p0 : d = activeSplitPoints[t] /\ s0 = <<t, d>> /\ p0 = parent[s0]
    OBVIOUS
  <1>0. /\ pc \in [Threads -> PC] /\ idx \in [Threads -> 0..MaxThreads]
        /\ splitPoint \in [Threads -> SplitPoints \cup {NoSP}]
        /\ activeSplitPoints \in [Threads -> 0..MaxActive]
        /\ isSlave \in [SplitPoints -> SUBSET Threads]
        /\ parent \in [SplitPoints -> SplitPoints \cup {NoSP}]
        /\ tsp \in [Threads -> [0..MaxActive -> SplitPoints \cup {NoSP}]]
    BY DEF IInv, TypeInv, TypeOK
  <1>1. /\ pc[t] = "collect" /\ pc' = [pc EXCEPT ![t] = "search"]
        /\ splitPoint' = [splitPoint EXCEPT ![t] = parent[Sp(t)]]
        /\ activeSplitPoints' = [activeSplitPoints EXCEPT ![t] = @ - 1]
        /\ UNCHANGED <<state, parent, isSlave, nodes, crew, mpLock, spLock, idx, tsp,
                       activeThreads, allThreadsShouldExit>>
    BY DEF Collect, RestoreSplitPoint, Goto, options, points, locks, locals
  <1>2. /\ Sp(t) = s0 /\ s0 \in SplitPoints /\ InUse(s0) /\ Master(s0) = t
        /\ s0 # NoSP /\ ~Quiet /\ d \in 1..MaxActive
    <2>1. /\ Sp(t) \in SplitPoints /\ InUse(Sp(t)) /\ Master(Sp(t)) = t /\ ~Quiet
          /\ activeSplitPoints[t] # 0
      BY <1>1, SplitFrames DEF PcFrame, IInv, TypeInv, FrameOK
    <2>2. activeSplitPoints[t] \in 1..MaxActive
      BY <1>0, <2>1
    <2> QED
      BY <2>1, <2>2, <1>p DEF Sp
  <1>a. /\ d - 1 \in 0..MaxActive /\ d - 1 < d /\ d > 0 /\ d \in 0..MaxActive
        /\ \A e \in 0..MaxActive : e <= d - 1 <=> e < d
        /\ \A e \in 0..MaxActive : e > d - 1 <=> e = d \/ e > d
        /\ \A e \in 0..MaxActive : e < d <=> e < d - 1 \/ e = d - 1
        /\ \A e \in 0..MaxActive : e = d - 1 => e < d
    BY <1>2
  <1>3. /\ t \in nodes[s0] /\ tsp[t][d] = NoSP /\ state[t] = "SEARCHING"
        /\ isSlave[s0] = {}
        /\ \A u \in Threads : ~(pc[u] = "leave" /\ Tsp(u) = s0)
    BY <1>1, <1>2, <1>p, MasterAtEnd DEF IInv, StateOK, JoinOK
  <1>4. p0 = tsp[t][d - 1] /\ \A s : ~Assigned(t, s)
    BY <1>2, <1>3, <1>p DEF IInv, CallOK, Assigned
  <1>5. /\ \A u \in Threads : pc'[u] = IF u = t THEN "search" ELSE pc[u]
        /\ \A u \in Threads : splitPoint'[u] = IF u = t THEN p0 ELSE splitPoint[u]
        /\ \A u \in Threads : activeSplitPoints'[u] = IF u = t THEN d - 1 ELSE activeSplitPoints[u]
        /\ activeSplitPoints[t] = d
    BY <1>0, <1>1, <1>2, <1>p
  <1>6. \A s \in SplitPoints : InUse(s)' <=> InUse(s) /\ s # s0
    <2> SUFFICES ASSUME NEW s \in SplitPoints PROVE InUse(s)' <=> InUse(s) /\ s # s0
      OBVIOUS
    <2>1. CASE Master(s) # t
      BY <2>1, <1>2, <1>5 DEF InUse, Master
    <2>2. CASE Master(s) = t
      <3>1. s[2] \in 1..MaxActive /\ s = <<t, s[2]>> /\ s[2] \in 0..MaxActive
        BY <2>2 DEF Master
      <3>2. s[2] <= d - 1 <=> s[2] <= d /\ s[2] # d
        BY <3>1, <1>a
      <3> QED
        BY <2>2, <3>1, <3>2, <1>5, <1>p DEF InUse, Master
    <2> QED
      BY <2>1, <2>2
  <1>7. /\ \A u \in Threads \ {t} : Sp(u)' = Sp(u) /\ Tsp(u)' = Tsp(u)
        /\ Tsp(t)' = p0
        /\ \A u \in Threads : \A s : Assigned(u, s)' <=> Assigned(u, s)
    <2>1. \A u \in Threads \ {t} : Sp(u)' = Sp(u) /\ Tsp(u)' = Tsp(u)
      BY <1>1, <1>5 DEF Sp, Tsp
    <2>2. Tsp(t)' = p0
      BY <1>1, <1>4, <1>5 DEF Tsp
    <2>3. \A u \in Threads : \A s : Assigned(u, s)' <=> Assigned(u, s)
      BY <1>1, <1>3, <1>5 DEF Assigned
    <2> QED
      BY <2>1, <2>2, <2>3
  <1>8. \A s \in SplitPoints, u \in Threads : Searches(u, s)' <=> Searches(u, s)
    <2> SUFFICES ASSUME NEW s \in SplitPoints, NEW u \in Threads
                 PROVE  Searches(u, s)' <=> Searches(u, s)
      OBVIOUS
    <2>1. CASE u # t
      BY <2>1, <1>1, <1>5 DEF Searches
    <2>2. CASE u = t
      <3>1. Searches(t, s) <=> \E e \in 0..d : tsp[t][e] = s
        BY <1>1, <1>5 DEF Searches
      <3>2. Searches(t, s)' <=> \E e \in 0..d - 1 : tsp[t][e] = s
        BY <1>1, <1>5 DEF Searches
      <3>3. \A e \in 0..d : e \in 0..d - 1 \/ e = d
        BY <1>a
      <3>4. \A e \in 0..d - 1 : e \in 0..d
        BY <1>a
      <3>5. s # NoSP
        OBVIOUS
      <3> QED
        BY <2>2, <3>1, <3>2, <3>3, <3>4, <3>5, <1>3
    <2> QED
      BY <2>1, <2>2
  <1>9. StateOK'
    BY <1>1, <1>3, <1>5 DEF IInv, StateOK, Loop
  <1>10. QuietOK' /\ LaunchOK'
    <2>1. QuietOK'
      <3>1. Quiet' <=> Quiet
        BY <1>1, <1>5 DEF Quiet, PcMain
      <3>2. ~allThreadsShouldExit
        BY <1>1, <1>2 DEF IInv, QuietOK, Quiet, PcMain
      <3>3. activeSplitPoints'[0] = 0 => pc'[0] = "search"
        BY <1>2, <1>5 DEF IInv, QuietOK
      <3> QED
        BY <3>1, <3>2, <3>3, <1>1, <1>2, <1>5 DEF IInv, QuietOK, PcMain
    <2>2. LaunchOK'
      BY <1>1, <1>2, <1>5, LaunchKept DEF Quiet, PcMain
    <2> QED
      BY <2>1, <2>2
  <1>11. TspOK'
    <2> SUFFICES ASSUME NEW u \in Threads, NEW e \in 0..MaxActive PROVE TspOf(u, e)'
      BY DEF TspOK
    <2>1. TspOf(u, e)
      BY DEF IInv, TspOK
    <2>2. CASE u # t
      BY <2>1, <2>2, <1>1, <1>5 DEF TspOf
    <2>3. CASE u = t
      <3>1. pc'[t] \in PcWork /\ activeSplitPoints'[t] = d - 1 /\ tsp' = tsp
        BY <1>1, <1>5 DEF PcWork
      <3>2. e > d - 1 => tsp[t][e] = NoSP
        BY <2>1, <2>3, <1>3, <1>5, <1>a DEF TspOf
      <3>3. e < d - 1 \/ e = d - 1 => (tsp[t][e] = NoSP <=> (t = 0 /\ e = 0))
        BY <2>1, <2>3, <1>5, <1>a DEF TspOf
      <3> QED
        BY <2>1, <2>3, <3>1, <3>2, <3>3 DEF TspOf
    <2> QED
      BY <2>2, <2>3
  <1>12. BusyOK'
    <2> SUFFICES ASSUME NEW u \in Threads, Busy(u)'
                 PROVE  /\ splitPoint'[u] \in SplitPoints
                        /\ \A e \in 0..MaxActive : e < activeSplitPoints'[u] => tsp'[u][e] # splitPoint'[u]
                        /\ Master(splitPoint'[u]) = u => splitPoint'[u] = Sp(u)' /\ state'[u] = "WORKISWAITING"
      BY DEF BusyOK
    <2>1. u # t /\ Busy(u)
      BY <1>1, <1>3 DEF Busy
    <2> QED
      BY <2>1, <1>1, <1>5, <1>7 DEF IInv, BusyOK
  <1>13. FlagsOK'
    BY <1>1, <1>7, <1>8 DEF IInv, FlagsOK
  <1>14. FlagsInUse'
    BY <1>1, <1>3, <1>6 DEF IInv, FlagsInUse
  <1>15. CallOK'
    BY <1>1, <1>5, <1>6, <1>7 DEF IInv, CallOK
  <1>16. BookOK'
    <2> SUFFICES ASSUME NEW u \in Threads PROVE BookOf(u)'
      BY DEF BookOK
    <2>1. CASE u = t
      BY <2>1, <1>5 DEF BookOf, PcSplit
    <2>2. CASE u # t
      <3>1. \A i \in Threads : IsAvailableTo(i, u) => IsAvailableTo(i, u)'
        BY <1>1, <1>3, <1>5 DEF IsAvailableTo
      <3>2. /\ pc'[u] = pc[u] /\ idx'[u] = idx[u] /\ splitPoint'[u] = splitPoint[u]
            /\ activeSplitPoints'[u] = activeSplitPoints[u]
        BY <2>2, <1>1, <1>5
      <3>3. \A i \in Threads : state[i] = "BOOKED" =>
              state'[i] = "BOOKED" /\ splitPoint'[i] = splitPoint[i]
        BY <1>1, <1>3, <1>5
      <3> QED
        BY <3>1, <3>2, <3>3, <1>1, BookKept
    <2> QED
      BY <2>1, <2>2
  <1>17. MasterOK'
    <2> SUFFICES ASSUME NEW s \in SplitPoints, InUse(s)' PROVE MasterOf(s)'
      BY DEF MasterOK
    <2>1. MasterOf(s) /\ Master(s) \in Threads /\ s # s0 /\ InUse(s)
      BY <1>6 DEF IInv, MasterOK, Master
    <2>2. CASE Master(s) # t
      BY <2>1, <2>2, <1>1, <1>5, <1>7 DEF MasterOf
    <2>3. CASE Master(s) = t
      <3>1. s[2] # d
        BY <2>1, <2>3, <1>p DEF Master
      <3> QED
        BY <2>1, <2>3, <3>1, <1>1, <1>5, <1>7 DEF MasterOf, PcSplit
    <2> QED
      BY <2>2, <2>3
  <1>18. JoinOK'
    <2>1. \A u \in Threads : pc'[u] \in {"joinlock", "resume", "collect"} =>
            u # t /\ pc'[u] = pc[u] /\ Sp(u) \in SplitPoints /\ Sp(u)' = Sp(u)
      BY <1>5, <1>7, SplitFrames DEF PcFrame
    <2>2. \A u \in Threads : pc'[u] = "leave" => u # t /\ pc[u] = "leave" /\ Tsp(u)' = Tsp(u)
      BY <1>5, <1>7
    <2>3. \A u \in Threads : pc[u] = "leave" =>
            InUse(Tsp(u)) /\ Tsp(u) \in SplitPoints /\ Tsp(u) # s0
      <3> SUFFICES ASSUME NEW u \in Threads, pc[u] = "leave"
                   PROVE  InUse(Tsp(u)) /\ Tsp(u) \in SplitPoints /\ Tsp(u) # s0
        OBVIOUS
      <3>1. InUse(Tsp(u)) /\ Tsp(u) # s0
        BY <1>3 DEF IInv, JoinOK
      <3>2. activeSplitPoints[u] \in 0..MaxActive
        BY <1>0
      <3> QED
        BY <3>1, <3>2, <1>0 DEF InUse, Tsp
    <2> QED
      BY <2>1, <2>2, <2>3, <1>1, <1>6 DEF IInv, JoinOK
  <1>19. CrewOK'
    <2> SUFFICES ASSUME NEW s \in SplitPoints, NEW u \in Threads, InUse(s)'
                 PROVE  u \in crew'[s] <=> \/ u = Master(s) \/ u \in isSlave'[s] \/ u \in nodes'[s]
                                           \/ (pc'[u] = "leave" /\ Tsp(u)' = s)
      BY DEF CrewOK
    <2>1. (pc'[u] = "leave" /\ Tsp(u)' = s) <=> (pc[u] = "leave" /\ Tsp(u) = s)
      BY <1>1, <1>5, <1>7
    <2> QED
      BY <2>1, <1>1, <1>6 DEF IInv, CrewOK
  <1>20. Rooted'
    <2>1. PICK above \in [SplitPoints -> SUBSET SplitPoints] : IsPath(above) /\ WaysUp(above)
      BY DEF IInv, Rooted
    <2>2. ASSUME NEW s \in SplitPoints, InUse(s)'
          PROVE  PathOf(above, s)' /\ \A u \in isSlave'[s] : Below(above, u, s)'
      <3>1. PathOf(above, s) /\ InUse(s) /\ s # s0 /\ \A u \in isSlave[s] : Below(above, u, s)
        BY <2>1, <2>2, <1>6 DEF IsPath
      <3>2. s0 \notin above[s]
        BY <2>1, <3>1, <1>2, <1>3, <1>5, <1>a, NothingBelow
      <3>3. \A a \in above[s] : InUse(a)'
        BY <2>1, <3>1, <3>2, <1>6 DEF PathOf
      <3>4. PathOf(above, s)'
        BY <3>1, <3>3, <1>1 DEF PathOf
      <3>5. ASSUME NEW u \in isSlave'[s] PROVE Below(above, u, s)'
        <4>1. u \in Threads /\ Below(above, u, s)
          BY <3>1, <3>5, <1>0, <1>1
        <4>2. CASE u # t
          BY <4>1, <4>2, <1>1, <1>5, <1>7 DEF Below
        <4>3. CASE u = t
          <5>1. \A e \in 1..d - 1 : e \in 1..d
            BY <1>a
          <5> QED
            BY <4>1, <4>3, <5>1, <1>1, <1>4, <1>5, <1>7 DEF Below
        <4> QED
          BY <4>2, <4>3
      <3> QED
        BY <3>4, <3>5
    <2>3. IsPath(above)'
      BY <2>2 DEF IsPath
    <2> QED
      BY <2>1, <2>3, <1>1, <1>6, WaysUpKept DEF Rooted
  <1> QED
    BY <1>9, <1>10, <1>11, <1>12, <1>13, <1>14, <1>15, <1>16, <1>17, <1>18, <1>19, <1>20 DEF IInv

(* The root search returns: no split point is in use, as each is below the *)
(* first one of thread 0.                                                  *)
LEMMA EndThinkInv ==
  ASSUME IInv, TypeInv', EndThink
  PROVE  IInv'
  <1> USE Basics
  <1>0. /\ pc \in [Threads -> PC]
        /\ splitPoint \in [Threads -> SplitPoints \cup {NoSP}]
        /\ activeSplitPoints \in [Threads -> 0..MaxActive]
        /\ isSlave \in [SplitPoints -> SUBSET Threads]
        /\ tsp \in [Threads -> [0..MaxActive -> SplitPoints \cup {NoSP}]]
    BY DEF IInv, TypeInv, TypeOK
  <1>1. /\ pc[0] = "search" /\ activeSplitPoints[0] = 0
        /\ pc' = [pc EXCEPT ![0] = "uci"]
        /\ UNCHANGED <<state, splitPoint, activeSplitPoints, parent, isSlave, nodes, crew,
                       mpLock, spLock, idx, tsp, allThreadsShouldExit>>
    BY DEF EndThink, Goto, shared, points, locks, locals
  <1>2. \A u \in Threads : pc'[u] = IF u = 0 THEN "uci" ELSE pc[u]
    BY <1>0, <1>1
  <1>3. \A s \in SplitPoints : ~InUse(s)
    <2> SUFFICES ASSUME NEW s \in SplitPoints, InUse(s) PROVE FALSE
      OBVIOUS
    <2>1. InUse(<<0, 1>>)
      BY DEF IInv, Rooted, IsPath, PathOf
    <2> QED
      BY <2>1, <1>1 DEF InUse, Master
  <1>4. \A u \in Threads : activeSplitPoints[u] = 0
    <2> SUFFICES ASSUME NEW u \in Threads, activeSplitPoints[u] # 0 PROVE FALSE
      OBVIOUS
    <2>1. activeSplitPoints[u] \in 1..MaxActive
      BY <1>0
    <2>2. <<u, activeSplitPoints[u]>> \in SplitPoints /\ activeSplitPoints[u] <= activeSplitPoints[u]
      BY <2>1
    <2> QED
      BY <2>2, <1>3 DEF InUse, Master
  <1>5. splitPoint[0] = NoSP /\ tsp[0][0] = NoSP /\ state[0] = "SEARCHING"
    <2>1. TspOf(0, 0) /\ splitPoint[0] = tsp[0][0] /\ state[0] = "SEARCHING"
      BY <1>1 DEF IInv, TspOK, CallOK, Tsp, StateOK
    <2> QED
      BY <2>1, <1>1 DEF TspOf, PcWork
  <1>6. \A u \in Threads : pc[u] \notin PcFrame
    BY <1>4 DEF IInv, TypeInv, FrameOK
  <1>7. \A s \in SplitPoints : isSlave[s] = {}
    BY <1>0, <1>3 DEF IInv, FlagsInUse
  <1>8. \A s \in SplitPoints : ~InUse(s)'
    BY <1>1, <1>3 DEF InUse
  <1>9. \A u \in Threads : pc[u] # "leave"
    <2> SUFFICES ASSUME NEW u \in Threads, pc[u] = "leave" PROVE FALSE
      OBVIOUS
    <2>1. InUse(Tsp(u)) /\ activeSplitPoints[u] \in 0..MaxActive
      BY <1>0 DEF IInv, JoinOK
    <2>2. Tsp(u) \in SplitPoints
      BY <2>1, <1>0 DEF InUse, Tsp
    <2> QED
      BY <2>1, <2>2, <1>3
  <1>a. /\ \A u \in Threads : \A s : Assigned(u, s)' <=> Assigned(u, s)
        /\ \A u \in Threads : Tsp(u)' = Tsp(u)
    BY <1>1 DEF Assigned, Tsp
  <1>b. \A s \in SplitPoints, u \in Threads : Searches(u, s)' <=> Searches(u, s)
    BY <1>1, <1>2 DEF Searches
  <1>11. StateOK'
    BY <1>1, <1>2 DEF IInv, StateOK, Loop
  <1>12. QuietOK' /\ LaunchOK'
    <2>1. Quiet'
      BY <1>2 DEF Quiet, PcMain
    <2>2. ~allThreadsShouldExit
      BY <1>1 DEF IInv, QuietOK
    <2>3. QuietOK'
      BY <2>1, <2>2, <1>1, <1>2, <1>4, <1>5 DEF IInv, QuietOK
    <2>4. LaunchOK'
      BY <1>1, <1>2, LaunchKept
    <2> QED
      BY <2>3, <2>4
  <1>13. TspOK'
    <2> SUFFICES ASSUME NEW u \in Threads, NEW e \in 0..MaxActive PROVE TspOf(u, e)'
      BY DEF TspOK
    <2>1. TspOf(u, e)
      BY DEF IInv, TspOK
    <2>2. CASE u # 0
      BY <2>1, <2>2, <1>1, <1>2 DEF TspOf
    <2>3. CASE u = 0
      <3>1. pc'[0] \notin PcWork /\ ~(e < 0)
        BY <1>2 DEF PcWork
      <3> QED
        BY <2>1, <2>3, <3>1, <1>1, <1>5 DEF TspOf
    <2> QED
      BY <2>2, <2>3
  <1>14. BusyOK' /\ FlagsOK'
    <2>1. \A u \in Threads : Sp(u)' = Sp(u)
      BY <1>1 DEF Sp
    <2>2. BusyOK'
      BY <2>1, <1>1 DEF IInv, BusyOK, Busy
    <2>3. FlagsOK'
      BY <1>1, <1>a, <1>b DEF IInv, FlagsOK
    <2> QED
      BY <2>2, <2>3
  <1>15. FlagsInUse'
    BY <1>1, <1>7, <1>8 DEF FlagsInUse
  <1>16. CallOK'
    BY <1>1, <1>2, <1>8, <1>a DEF IInv, CallOK
  <1>17. BookOK' /\ JoinOK'
    <2>1. \A u \in Threads : pc'[u] \notin PcSplit \cup {"joinlock", "resume", "collect", "leave"}
      BY <1>2, <1>6, <1>9 DEF PcFrame, PcSplit
    <2> QED
      BY <2>1 DEF BookOK, BookOf, JoinOK, PcSplit
  <1>18. MasterOK' /\ CrewOK' /\ Rooted'
    <2>1. MasterOK' /\ CrewOK'
      BY <1>8 DEF MasterOK, CrewOK
    <2>2. PICK above \in [SplitPoints -> SUBSET SplitPoints] : IsPath(above) /\ WaysUp(above)
      BY DEF IInv, Rooted
    <2>3. IsPath(above)'
      BY <1>8 DEF IsPath
    <2> QED
      BY <2>1, <2>2, <2>3, <1>1, <1>8, WaysUpKept DEF Rooted
  <1> QED
    BY <1>11, <1>12, <1>13, <1>14, <1>15, <1>16, <1>17, <1>18 DEF IInv

(* The root search begins. *)
LEMMA RouseSearchInv ==
  ASSUME IInv, TypeInv', Rouse, ~(idx[0] < activeThreads)
  PROVE  IInv'
  <1> USE Basics
  <1>0. /\ pc \in [Threads -> PC] /\ idx \in [Threads -> 0..MaxThreads]
        /\ splitPoint \in [Threads -> SplitPoints \cup {NoSP}]
        /\ activeSplitPoints \in [Threads -> 0..MaxActive]
        /\ tsp \in [Threads -> [0..MaxActive -> SplitPoints \cup {NoSP}]]
    BY DEF IInv, TypeInv, TypeOK
  <1>1. /\ pc[0] = "rouse" /\ pc' = [pc EXCEPT ![0] = "search"]
        /\ idx' = [idx EXCEPT ![0] = 0]
        /\ UNCHANGED <<state, splitPoint, activeSplitPoints, parent, isSlave, nodes, crew,
                       mpLock, spLock, tsp, activeThreads, allThreadsShouldExit>>
    BY DEF Rouse, Goto, shared, options, points, locks
  <1>2. /\ \A u \in Threads : pc'[u] = IF u = 0 THEN "search" ELSE pc[u]
        /\ \A u \in Threads : idx'[u] = IF u = 0 THEN 0 ELSE idx[u]
    BY <1>0, <1>1
  <1>3. /\ Quiet /\ state[0] = "SEARCHING" /\ splitPoint[0] = NoSP /\ ~allThreadsShouldExit
        /\ \A u \in Threads : activeSplitPoints[u] = 0
    BY <1>1 DEF IInv, QuietOK, Quiet, PcMain
  <1>4. \A s \in SplitPoints : ~InUse(s) /\ ~InUse(s)'
    <2> SUFFICES ASSUME NEW s \in SplitPoints PROVE ~InUse(s) /\ ~InUse(s)'
      OBVIOUS
    <2>1. s[2] \in 1..MaxActive /\ Master(s) \in Threads
      BY DEF Master
    <2> QED
      BY <2>1, <1>1, <1>3 DEF InUse
  <1>5. tsp[0][0] = NoSP /\ \A e \in 0..MaxActive : tsp[0][e] = NoSP
    <2>1. \A e \in 0..MaxActive : TspOf(0, e)
      BY DEF IInv, TspOK
    <2>2. pc[0] \notin PcWork /\ 0 \in 0..MaxActive
      BY <1>1 DEF PcWork
    <2>3. \A e \in 0..MaxActive : e = 0 \/ e > 0
      OBVIOUS
    <2> QED
      BY <2>1, <2>2, <2>3, <1>3 DEF TspOf
  <1>6. /\ \A u \in Threads : \A s : Assigned(u, s)' <=> Assigned(u, s)
        /\ \A u \in Threads : Tsp(u)' = Tsp(u)
        /\ Tsp(0) = NoSP
    BY <1>1, <1>3, <1>5 DEF Assigned, Tsp
  <1>7. \A s \in SplitPoints, u \in Threads : Searches(u, s)' <=> Searches(u, s)
    BY <1>1, <1>2 DEF Searches
  <1>8. \A u \in Threads : pc[u] \notin PcFrame
    BY <1>3 DEF IInv, TypeInv, FrameOK
  <1>9. \A u \in Threads : pc[u] # "leave"
    <2> SUFFICES ASSUME NEW u \in Threads, pc[u] = "leave" PROVE FALSE
      OBVIOUS
    <2>1. InUse(Tsp(u)) /\ activeSplitPoints[u] \in 0..MaxActive
      BY <1>0 DEF IInv, JoinOK
    <2>2. Tsp(u) \in SplitPoints
      BY <2>1, <1>0 DEF InUse, Tsp
    <2> QED
      BY <2>1, <2>2, <1>4
  <1>11. StateOK'
    BY <1>1, <1>2, <1>3 DEF IInv, StateOK, Loop
  <1>12. QuietOK' /\ LaunchOK'
    <2>1. ~Quiet'
      BY <1>2 DEF Quiet, PcMain
    <2>2. QuietOK'
      BY <2>1, <1>1, <1>2, <1>3 DEF IInv, QuietOK
    <2>3. LaunchOK'
      BY <1>1, <1>2, LaunchKept
    <2> QED
      BY <2>2, <2>3
  <1>13. TspOK'
    <2> SUFFICES ASSUME NEW u \in Threads, NEW e \in 0..MaxActive PROVE TspOf(u, e)'
      BY DEF TspOK
    <2>1. TspOf(u, e)
      BY DEF IInv, TspOK
    <2>2. CASE u # 0
      BY <2>1, <2>2, <1>1, <1>2 DEF TspOf
    <2>3. CASE u = 0
      <3>1. ~(e < 0)
        OBVIOUS
      <3> QED
        BY <2>1, <2>3, <3>1, <1>1, <1>2, <1>3, <1>5 DEF TspOf
    <2> QED
      BY <2>2, <2>3
  <1>14. BusyOK' /\ FlagsOK'
    <2>1. \A u \in Threads : Sp(u)' = Sp(u)
      BY <1>1 DEF Sp
    <2>2. BusyOK'
      BY <2>1, <1>1 DEF IInv, BusyOK, Busy
    <2>3. FlagsOK'
      BY <1>1, <1>6, <1>7 DEF IInv, FlagsOK
    <2> QED
      BY <2>2, <2>3
  <1>15. FlagsInUse'
    BY <1>1, <1>4 DEF IInv, FlagsInUse
  <1>16. CallOK'
    BY <1>1, <1>2, <1>3, <1>4, <1>6 DEF IInv, CallOK
  <1>17. BookOK' /\ JoinOK'
    <2>1. \A u \in Threads : pc'[u] \notin PcSplit \cup {"joinlock", "resume", "collect", "leave"}
      BY <1>2, <1>8, <1>9 DEF PcFrame, PcSplit
    <2> QED
      BY <2>1 DEF BookOK, BookOf, JoinOK, PcSplit
  <1>18. MasterOK' /\ CrewOK' /\ Rooted'
    <2>1. MasterOK' /\ CrewOK'
      BY <1>4 DEF MasterOK, CrewOK
    <2>2. PICK above \in [SplitPoints -> SUBSET SplitPoints] : IsPath(above) /\ WaysUp(above)
      BY DEF IInv, Rooted
    <2>3. IsPath(above)'
      BY <1>4 DEF IsPath
    <2> QED
      BY <2>1, <2>2, <2>3, <1>1, <1>4, WaysUpKept DEF Rooted
  <1> QED
    BY <1>11, <1>12, <1>13, <1>14, <1>15, <1>16, <1>17, <1>18 DEF IInv

LEMMA InitInv == Init => IInv
  <1> USE Basics
  <1> SUFFICES ASSUME Init PROVE IInv
    OBVIOUS
  <1>1. TypeInv
    BY InitTypeInv
  <1>2. /\ \A t \in Threads : activeSplitPoints[t] = 0 /\ splitPoint[t] = NoSP
        /\ \A t \in Threads : pc[t] = IF t = 0 THEN "launch" ELSE "none"
        /\ \A t \in Threads : state[t] = IF t = 0 THEN "SEARCHING" ELSE "INITIALIZING"
        /\ \A t \in Threads, d \in 0..MaxActive : tsp[t][d] = NoSP
        /\ \A s \in SplitPoints : isSlave[s] = {}
        /\ idx[0] = 1 /\ allThreadsShouldExit = FALSE
    BY DEF Init
  <1>3. \A s \in SplitPoints : ~InUse(s)
    BY <1>2 DEF InUse, Master
  <1>4. StateOK /\ QuietOK
    BY <1>2 DEF StateOK, QuietOK, Quiet, PcMain, Loop
  <1>5. LaunchOK /\ BookOK /\ JoinOK
    <2>1. \A t \in Threads : /\ t >= 1 => t # 0
                             /\ pc[t] \notin PcSplit \cup {"joinlock", "resume", "collect", "leave"}
      BY <1>2 DEF PcSplit
    <2>2. LaunchOK
      BY <2>1, <1>2 DEF LaunchOK
    <2> QED
      BY <2>1, <2>2 DEF BookOK, BookOf, JoinOK, PcSplit
  <1>6. TspOK
    <2> SUFFICES ASSUME NEW u \in Threads, NEW d \in 0..MaxActive PROVE TspOf(u, d)
      BY DEF TspOK
    <2>1. ~(d < 0) /\ pc[u] \notin PcWork
      BY <1>2 DEF PcWork
    <2> QED
      BY <2>1, <1>2 DEF TspOf
  <1>7. BusyOK /\ FlagsInUse /\ MasterOK /\ CrewOK
    BY <1>2, <1>3 DEF BusyOK, Busy, FlagsInUse, MasterOK, CrewOK
  <1>8. FlagsOK /\ CallOK
    <2>1. \A u \in Threads, s \in SplitPoints : ~Assigned(u, s) /\ ~Searches(u, s)
      BY <1>2 DEF Assigned, Searches
    <2> QED
      BY <2>1, <1>2, <1>3 DEF FlagsOK, CallOK
  <1>9. Rooted
    <2>1. [s \in SplitPoints |-> {}] \in [SplitPoints -> SUBSET SplitPoints]
      OBVIOUS
    <2>2. IsPath([s \in SplitPoints |-> {}]) /\ WaysUp([s \in SplitPoints |-> {}])
      BY <1>3 DEF IsPath, WaysUp
    <2> QED
      BY <2>1, <2>2 DEF Rooted
  <1> QED
    BY <1>1, <1>4, <1>5, <1>6, <1>7, <1>8, <1>9 DEF IInv

LEMMA UnchangedInv == IInv /\ UNCHANGED vars => IInv'
  <1> SUFFICES ASSUME IInv, UNCHANGED vars PROVE IInv'
    OBVIOUS
  <1> USE DEF vars, shared, options, points, locks, locals
  <1>1. TypeInv'
    BY DEF IInv, TypeInv, TypeOK, FrameOK
  <1>2. /\ \A u : Sp(u)' = Sp(u) /\ Tsp(u)' = Tsp(u) /\ Busy(u)' = Busy(u)
        /\ \A s : InUse(s)' = InUse(s)
        /\ \A u : \A s : Assigned(u, s)' = Assigned(u, s) /\ Searches(u, s)' = Searches(u, s)
        /\ \A u : \A i : IsAvailableTo(i, u)' = IsAvailableTo(i, u)
    BY DEF Sp, Tsp, InUse, Assigned, Searches, IsAvailableTo, Busy
  <1>3. StateOK' /\ QuietOK' /\ LaunchOK'
    BY DEF IInv, StateOK, QuietOK, Quiet, LaunchOK
  <1>4. TspOK' /\ BusyOK' /\ FlagsOK' /\ FlagsInUse' /\ CallOK'
    BY <1>2 DEF IInv, TspOK, TspOf, BusyOK, FlagsOK, FlagsInUse, CallOK
  <1>5. BookOK' /\ MasterOK' /\ JoinOK' /\ CrewOK'
    BY <1>2 DEF IInv, BookOK, BookOf, MasterOK, MasterOf, JoinOK, CrewOK
  <1>6. Rooted'
    <2>1. PICK above \in [SplitPoints -> SUBSET SplitPoints] : IsPath(above) /\ WaysUp(above)
      BY DEF IInv, Rooted
    <2>2. IsPath(above)'
      BY <1>2, <2>1 DEF IsPath, PathOf, Below
    <2> QED
      BY <1>2, <2>1, <2>2, WaysUpKept DEF Rooted
  <1> QED
    BY <1>1, <1>3, <1>4, <1>5, <1>6 DEF IInv

LEMMA IdleLoopInv ==
  ASSUME IInv, NEW t \in Threads, IdleLoop(t)
  PROVE  IInv'
  <1>1. TypeInv'
    BY IdleTypeInv DEF IInv
  <1>2. Top(t) => IInv'
    BY <1>1, TopInv, TopExitInv
  <1>3. SleepTest(t) => IInv'
    BY <1>1, SleepTestInv, FirstSleepInv
  <1>4. TakeSleepLock(t) \/ Retest(t) \/ TakeWork(t) => IInv'
    BY <1>1, TakeSleepLockInv, RetestInv, TakeWorkInv
  <1>5. BecomeAvailable(t) \/ Notify(t) \/ WakeMaster(t) => IInv'
    BY <1>1, EndLaunchInv
  <1>6. TestFinished(t) \/ JoinLock(t) \/ Resume(t) => IInv'
    BY <1>1, TestFinishedInv, JoinInv
  <1> QED
    BY <1>2, <1>3, <1>4, <1>5, <1>6 DEF IdleLoop

LEMMA SearchInv ==
  ASSUME IInv, NEW t \in Threads,
         Split(t) \/ SplitSteps(t) \/ LeaveSteps(t) \/ SpuriousWakeup(t)
  PROVE  IInv'
  <1>1. TypeInv'
    BY SearchTypeInv DEF IInv
  <1>2. Order(t) => IInv'
    <2>1. idx[t] >= activeThreads \/ idx[t] < activeThreads
      <3>1. idx[t] \in 0..MaxThreads /\ activeThreads \in 1..MaxThreads /\ MaxThreads \in Nat
        BY MaxThreadsAssumption DEF IInv, TypeInv, TypeOK
      <3> QED
        BY <3>1
    <2> QED
      BY <1>1, <2>1, OrderInv, OrderEndInv
  <1>3. Split(t) \/ BookTest(t) \/ Book(t) \/ OrderWake(t) \/ Collect(t) => IInv'
    BY <1>1, SplitInv, BookTestInv, BookInv, OrderWakeInv, CollectInv
  <1>4. Leave(t) \/ AddNodes(t) \/ SpuriousWakeup(t) => IInv'
    BY <1>1, LeaveInv, AddNodesInv, SpuriousWakeupInv
  <1> QED
    BY <1>2, <1>3, <1>4 DEF SplitSteps, LeaveSteps

LEMMA MainInv == IInv /\ Main => IInv'
  <1> SUFFICES ASSUME IInv, Main PROVE IInv'
    OBVIOUS
  <1>1. TypeInv'
    BY MainTypeInv DEF IInv
  <1>2. Rouse => IInv'
    BY <1>1, RouseWakeInv, RouseSearchInv
  <1>3. Launch \/ Launched \/ Think \/ Resize => IInv'
    BY <1>1, LaunchInv, ThinkInv
  <1>4. EndThink \/ Exit \/ ExitWake \/ DestroyLocks => IInv'
    BY <1>1, EndThinkInv, ExitInv
  <1> QED
    BY <1>2, <1>3, <1>4 DEF Main

(* IInv is an inductive invariant: it holds in every reachable state,      *)
(* whatever the number of threads and the depth of their splits.           *)
THEOREM JoinInvariant == Spec => []IInv
  <1>1. Init => IInv
    BY InitInv
  <1>2. IInv /\ [Next]_vars => IInv'
    BY MainInv, IdleLoopInv, SearchInv, UnchangedInv DEF Next, Terminated
  <1> QED
    BY <1>1, <1>2, PTL DEF Spec
-----------------------------------------------------------------------------
LEMMA JoinHolds == IInv => JoinComplete
  <1> USE Basics
  <1> SUFFICES ASSUME IInv, NEW t \in Threads, pc[t] \in {"resume", "collect"}
               PROVE  /\ \A u \in Threads : ~Assigned(u, Sp(t)) /\ ~Searches(u, Sp(t))
                      /\ nodes[Sp(t)] = crew[Sp(t)]
    BY DEF JoinComplete
  <1> DEFINE s == Sp(t)
             d == activeSplitPoints[t]
  <1>1. /\ s \in SplitPoints /\ InUse(s) /\ Master(s) = t /\ s = <<t, d>>
        /\ d \in 0..MaxActive
    BY SplitFrames DEF PcFrame, Sp, IInv, TypeInv, TypeOK
  <1>2. /\ isSlave[s] = {} /\ \A u \in Threads : ~(pc[u] = "leave" /\ Tsp(u) = s)
        /\ t \in nodes[s] /\ tsp[t][d] = NoSP
    BY MasterAtEnd DEF IInv, JoinOK
  <1>3. ASSUME NEW u \in Threads PROVE ~Assigned(u, s) /\ ~Searches(u, s)
    <2>1. CASE u # t
      BY <2>1, <1>1, <1>2 DEF IInv, FlagsOK
    <2>2. CASE u = t
      <3>1. ~Assigned(t, s)
        BY <1>1, <1>2 DEF IInv, MasterOK, MasterOf
      <3>2. \A e \in 0..d : tsp[t][e] # s
        <4> SUFFICES ASSUME NEW e \in 0..d, tsp[t][e] = s PROVE FALSE
          OBVIOUS
        <4>1. e \in 0..MaxActive
          BY <1>1
        <4>2. s = <<t, e>>
          BY <4>1, <1>1 DEF IInv, TspOK, TspOf
        <4> QED
          BY <4>2, <1>1, <1>2
      <3> QED
        BY <2>2, <3>1, <3>2 DEF Searches
    <2> QED
      BY <2>1, <2>2
  <1>4. nodes[s] = crew[s]
    <2>1. nodes[s] \subseteq Threads /\ crew[s] \subseteq Threads
      BY <1>1 DEF IInv, TypeInv, TypeOK
    <2>2. \A u \in Threads : u \in crew[s] <=> u \in nodes[s]
      BY <1>1, <1>2 DEF IInv, CrewOK
    <2> QED
      BY <2>1, <2>2
  <1> QED
    BY <1>3, <1>4

(* split() returns only when every thread that was assigned to the split   *)
(* point has returned from its search, and finds all their nodes counted.  *)
THEOREM JoinIsComplete == Spec => []JoinComplete
  BY JoinInvariant, JoinHolds, PTL

LEMMA ChainHolds == IInv => CutoffChain
  <1> USE Basics
  <1> SUFFICES ASSUME IInv PROVE CutoffChain
    OBVIOUS
  <1>0. /\ activeSplitPoints \in [Threads -> 0..MaxActive]
        /\ tsp \in [Threads -> [0..MaxActive -> SplitPoints \cup {NoSP}]]
        /\ parent \in [SplitPoints -> SplitPoints \cup {NoSP}]
    BY DEF IInv, TypeInv, TypeOK
  <1>1. ASSUME NEW s \in SplitPoints, InUse(s)
        PROVE  /\ parent[s] = tsp[Master(s)][s[2] - 1]
               /\ (parent[s] = NoSP) <=> (s = <<0, 1>>)
               /\ parent[s] # NoSP => InUse(parent[s])
    <2>1. /\ s[2] \in 1..MaxActive /\ Master(s) \in Threads /\ s = <<Master(s), s[2]>>
          /\ s[2] <= activeSplitPoints[Master(s)]
      BY <1>1 DEF InUse, Master
    <2>2. activeSplitPoints[Master(s)] \in 0..MaxActive
      BY <2>1, <1>0
    <2>3. /\ s[2] - 1 \in 0..MaxActive /\ s[2] - 1 < activeSplitPoints[Master(s)]
          /\ s[2] - 1 = 0 <=> s[2] = 1
      BY <2>1, <2>2
    <2>4. parent[s] = tsp[Master(s)][s[2] - 1]
      BY <1>1 DEF IInv, CallOK
    <2>5. TspOf(Master(s), s[2] - 1)
      BY <2>1, <2>3 DEF IInv, TspOK
    <2>6. (parent[s] = NoSP) <=> (Master(s) = 0 /\ s[2] - 1 = 0)
      BY <2>3, <2>4, <2>5 DEF TspOf
    <2>7. (parent[s] = NoSP) <=> (s = <<0, 1>>)
      BY <2>1, <2>3, <2>6 DEF Master
    <2>8. PICK above \in [SplitPoints -> SUBSET SplitPoints] : IsPath(above)
      BY DEF IInv, Rooted
    <2>9. parent[s] # NoSP => InUse(parent[s])
      BY <1>1, <2>8 DEF IsPath, PathOf
    <2> QED
      BY <2>4, <2>7, <2>9
  <1>2. ASSUME NEW u \in Threads, NEW d \in 0..MaxActive, tsp[u][d] # NoSP
        PROVE  \/ InUse(tsp[u][d])
               \/ d = activeSplitPoints[u] /\ pc[u] \in {"available", "notify", "wake"}
    <2> DEFINE s == tsp[u][d]
    <2>1. s \in SplitPoints /\ TspOf(u, d) /\ activeSplitPoints[u] \in 0..MaxActive
      BY <1>0, <1>2 DEF IInv, TspOK
    <2>2. d <= activeSplitPoints[u] /\ d \in 0..activeSplitPoints[u]
      <3>1. ~(d > activeSplitPoints[u])
        BY <1>2, <2>1 DEF TspOf
      <3> QED
        BY <2>1, <3>1
    <2>3. CASE d = activeSplitPoints[u] /\ pc[u] = "leave"
      BY <2>3 DEF IInv, JoinOK, Tsp
    <2>4. CASE d = activeSplitPoints[u] => pc[u] \notin {"leave", "available", "notify", "wake"}
      <3>1. Searches(u, s)
        BY <2>2, <2>4 DEF Searches
      <3>2. CASE Master(s) # u
        BY <2>1, <3>1, <3>2 DEF IInv, FlagsOK, FlagsInUse
      <3>3. CASE Master(s) = u
        <4>1. s = <<u, d>> /\ s # NoSP
          BY <1>2, <2>1, <3>3 DEF TspOf
        <4> QED
          BY <2>1, <2>2, <3>3, <4>1 DEF InUse
      <3> QED
        BY <3>2, <3>3
    <2> QED
      BY <2>3, <2>4
  <1> QED
    BY <1>1, <1>2 DEF CutoffChain, IInv, CallOK

(* The chain of split points that cutoff_occurred() follows from a         *)
(* searching thread is in use up to the root.                              *)
THEOREM ChainInUse == Spec => []CutoffChain
  BY JoinInvariant, ChainHolds, PTL

LEMMA AssertionsHold == IInv => CodeAssertions
  <1> USE Basics
  <1> SUFFICES ASSUME IInv, NEW t \in Threads PROVE
        /\ pc[t] = "sleeptest" /\ SleepCondition(t) =>
             useSleepingThreads \/ (Sp(t) = NoSP /\ t # 0)
        /\ pc[t] = "top" /\ allThreadsShouldExit => Sp(t) = NoSP
        /\ pc[t] = "work" /\ state[t] = "WORKISWAITING" => ~allThreadsShouldExit
        /\ pc[t] = "available" => state[t] = "SEARCHING"
        /\ pc[t] = "resume" => state[t] = "AVAILABLE"
        /\ pc[t] = "booktest" => state[t] # "AVAILABLE"
        /\ pc[t] = "book" => IsAvailableTo(idx[t], t)
        /\ pc[t] = "order" /\ idx[t] = 0 => Cardinality(crew[Sp(t)]) > 1
        /\ pc[t] = "order" => \A i \in isSlave[Sp(t)] :
                                i >= idx[t] => state[i] = "BOOKED"
    BY DEF CodeAssertions
  <1>0. /\ activeSplitPoints[t] \in 0..MaxActive /\ activeThreads \in 1..MaxThreads
        /\ idx[t] \in 0..MaxThreads
        /\ \A s \in SplitPoints : crew[s] \subseteq Threads
    BY DEF IInv, TypeInv, TypeOK
  <1>1. /\ pc[t] = "available" => state[t] = "SEARCHING"
        /\ pc[t] = "resume" => state[t] = "AVAILABLE"
        /\ pc[t] = "booktest" => state[t] # "AVAILABLE"
        /\ pc[t] = "book" => IsAvailableTo(idx[t], t)
    BY DEF IInv, StateOK, BookOK, BookOf
  <1>2. Sp(t) # NoSP => Sp(t) \in SplitPoints /\ InUse(Sp(t)) /\ Master(Sp(t)) = t
    <2>1. activeSplitPoints[t] # 0 =>
            activeSplitPoints[t] \in 1..MaxActive /\ activeSplitPoints[t] <= activeSplitPoints[t]
      BY <1>0
    <2> QED
      BY <2>1 DEF Sp, InUse, Master
  <1>3. ASSUME pc[t] = "sleeptest", SleepCondition(t), ~useSleepingThreads
        PROVE  Sp(t) = NoSP /\ t # 0
    <2>1. CASE t >= activeThreads
      <3>1. ~(t < activeThreads) /\ t # 0
        BY <2>1, <1>0
      <3> QED
        BY <3>1, <1>2 DEF IInv, FlagsInUse
    <2>2. CASE state[t] = "INITIALIZING"
      BY <2>2, <1>3 DEF IInv, StateOK, QuietOK, Quiet, PcMain, Sp
    <2> QED
      BY <1>3, <2>1, <2>2 DEF SleepCondition
  <1>4. ASSUME allThreadsShouldExit
        PROVE  Sp(t) = NoSP /\ state[t] # "WORKISWAITING"
    <2>1. \A u \in Threads : activeSplitPoints[u] = 0
      BY <1>4 DEF IInv, QuietOK, Quiet, PcMain
    <2>2. \A s \in SplitPoints : ~InUse(s)
      <3> SUFFICES ASSUME NEW s \in SplitPoints PROVE ~InUse(s)
        OBVIOUS
      <3>1. s[2] \in 1..MaxActive /\ Master(s) \in Threads
        BY DEF Master
      <3> QED
        BY <3>1, <2>1 DEF InUse
    <2>3. Sp(t) = NoSP
      BY <2>1 DEF Sp
    <2>4. ASSUME state[t] = "WORKISWAITING" PROVE FALSE
      <3> DEFINE s == splitPoint[t]
      <3>1. s \in SplitPoints /\ (Master(s) = t => s = NoSP) /\ Assigned(t, s)
        BY <2>3, <2>4 DEF IInv, BusyOK, Busy, Assigned
      <3>2. t \in isSlave[s]
        BY <3>1 DEF IInv, FlagsOK
      <3> QED
        BY <3>1, <3>2, <2>2 DEF IInv, FlagsInUse
    <2> QED
      BY <2>3, <2>4
  <1>5. ASSUME pc[t] = "order", idx[t] = 0 PROVE Cardinality(crew[Sp(t)]) > 1
    <2> DEFINE s == Sp(t)
    <2>1. s \in SplitPoints /\ InUse(s) /\ Master(s) = t /\ BookOf(t) /\ isSlave[s] \subseteq Threads
      BY <1>5, SplitFacts DEF PcSplit
    <2>2. PICK j \in isSlave[s] : TRUE
      BY <1>5, <2>1 DEF BookOf
    <2>3. j \in Threads /\ j # t /\ {j, t} \subseteq crew[s]
      BY <2>1, <2>2 DEF IInv, FlagsOK, CrewOK
    <2>4. IsFiniteSet(crew[s])
      <3>1. IsFiniteSet(0..MaxThreads - 1)
        BY FS_Interval
      <3> QED
        BY <1>0, <2>1, <3>1, FS_Subset DEF Threads
    <2>5. IsFiniteSet({t}) /\ Cardinality({t}) = 1
      BY FS_Singleton
    <2>6. Cardinality({t} \cup {j}) = 1 + 1
      BY <2>3, <2>5, FS_AddElement
    <2>7. {t} \cup {j} \in SUBSET crew[s]
      BY <2>3
    <2>8. Cardinality({t} \cup {j}) <= Cardinality(crew[s])
      BY <2>4, <2>7, FS_Subset
    <2>9. Cardinality(crew[s]) \in Nat
      BY <2>4, FS_CardinalityType
    <2> QED
      BY <2>6, <2>8, <2>9
  <1>6. ASSUME pc[t] = "order", NEW i \in isSlave[Sp(t)], i >= idx[t]
        PROVE  state[i] = "BOOKED"
    <2>1. BookOf(t) /\ isSlave[Sp(t)] \subseteq Threads
      BY <1>6, SplitFacts DEF PcSplit
    <2>2. i > idx[t] \/ i = idx[t]
      BY <1>0, <1>6, <2>1
    <2> QED
      BY <1>6, <2>1, <2>2 DEF BookOf
  <1> QED
    BY <1>1, <1>3, <1>4, <1>5, <1>6

(* The assertions of split() and idle_loop() hold wherever they stand.     *)
THEOREM AssertionsOfTheCode == Spec => []CodeAssertions
  BY JoinInvariant, AssertionsHold, PTL

LEMMA HelpfulHolds == IInv => HelpfulMaster
  <1> USE Basics
  <1> SUFFICES ASSUME IInv, NEW u \in Threads, activeSplitPoints[u] > 0,
                      NEW s \in SplitPoints, u \in isSlave[s],
                      Assigned(u, s) \/ Tsp(u) = s
               PROVE  Sp(u) \in Above(s)
    BY DEF HelpfulMaster
  <1>1. PICK above \in [SplitPoints -> SUBSET SplitPoints] : IsPath(above) /\ WaysUp(above)
    BY DEF IInv, Rooted
  <1>2. Below(above, u, s) /\ IsWayUp(above, s)
    BY <1>1 DEF IInv, FlagsInUse, IsPath, WaysUp
  <1>3. /\ activeSplitPoints[u] \in 1..activeSplitPoints[u]
        /\ Sp(u) = <<u, activeSplitPoints[u]>>
    <2>1. activeSplitPoints[u] \in 0..MaxActive
      BY DEF IInv, TypeInv, TypeOK
    <2> QED
      BY <2>1 DEF Sp
  <1>4. Sp(u) \in above[s]
    BY <1>2, <1>3 DEF Below, Tsp
  <1>5. Sp(u) \in SplitPoints
    BY <1>4
  <1> QED
    BY <1>2, <1>4, <1>5 DEF IsWayUp, Closed, Above

(* A master waiting at a split point is given work only below that split   *)
(* point.                                                                  *)
THEOREM HelpersBelow == Spec => []HelpfulMaster
  BY JoinInvariant, HelpfulHolds, PTL

-----------------------------------------------------------------------------
(* The pool implements fork and join: every step of it is a step of        *)
(* ForkJoin or leaves its state alone.                                     *)

LEMMA InitImplements == Init => FJ!FJInit
  <1> USE Basics
  <1> SUFFICES ASSUME Init PROVE FJ!FJInit
    OBVIOUS
  <1>1. \A s \in SplitPoints : ~InUse(s)
    BY DEF Init, InUse, Master
  <1> QED
    BY <1>1 DEF FJ!FJInit, OpenPoints, OwedWork, ForkedBelow

(* On the way up from a split point are those ForkJoin counts as above it. *)
LEMMA AboveIsWayUp ==
  ASSUME NEW above \in [SplitPoints -> SUBSET SplitPoints], IsPath(above), WaysUp(above),
         NEW s \in SplitPoints, InUse(s)
  PROVE  FJ!Above(s) = above[s] \ {s}
  <1>1. PathOf(above, s) /\ IsWayUp(above, s)
    BY DEF IsPath, WaysUp
  <1>2. \A c \in OpenPoints : ForkedBelow[c] = parent[c]
    BY DEF OpenPoints, ForkedBelow
  <1>3. above[s] \in SUBSET OpenPoints /\ s \in above[s]
    BY <1>1 DEF PathOf, OpenPoints
  <1>4. \A c \in above[s] : parent[c] # NoSP => parent[c] \in above[s]
    BY <1>1, <1>3 DEF IsPath, PathOf, OpenPoints
  <1>5. ASSUME NEW r \in FJ!Above(s) PROVE r \in above[s] \ {s}
    BY <1>2, <1>3, <1>4, <1>5 DEF FJ!Above
  <1>6. ASSUME NEW r \in above[s], r # s PROVE r \in FJ!Above(s)
    <2>1. ASSUME NEW path \in SUBSET OpenPoints, s \in path,
                 \A c \in path : ForkedBelow[c] # NoSP => ForkedBelow[c] \in path
          PROVE  r \in path
      <3>1. Closed(path) /\ path \in SUBSET SplitPoints
        BY <2>1, <1>2 DEF Closed, OpenPoints
      <3> QED
        BY <2>1, <3>1, <1>1, <1>6 DEF IsWayUp
    <2> QED
      BY <2>1, <1>3, <1>6 DEF FJ!Above
  <1> QED
    BY <1>5, <1>6

(* u has still to leave s. *)
Work(u, s) == Assigned(u, s) \/ Searches(u, s) \/ (pc[u] \in PcSplit /\ s = Sp(u))

(* A step that changes nothing of what u owes. *)
Left == {"leave", "available", "notify", "wake"}
Steady(u) ==
  /\ splitPoint'[u] = splitPoint[u]
  /\ Busy(u)' <=> Busy(u)
  /\ \A d \in 0..MaxActive : tsp'[u][d] = tsp[u][d]
  /\ pc'[u] \in PcSplit <=> pc[u] \in PcSplit
  /\ pc'[u] \in Left <=> pc[u] \in Left

Idle(u) == \A s \in SplitPoints : InUse(s) => (Work(u, s)' <=> Work(u, s))

LEMMA OwesIsWork == \A s, u : u \in Owes(s) <=> u \in Threads /\ Work(u, s)
  BY DEF Owes, Work

LEMMA SteadyIdles ==
  ASSUME IInv, NEW u \in Threads, Steady(u), activeSplitPoints'[u] = activeSplitPoints[u]
  PROVE  Idle(u)
  <1>1. activeSplitPoints[u] \in 0..MaxActive
    BY DEF IInv, TypeInv, TypeOK
  <1> SUFFICES ASSUME NEW s \in SplitPoints PROVE Work(u, s)' <=> Work(u, s)
    BY DEF Idle
  <1>2. Assigned(u, s)' <=> Assigned(u, s)
    BY DEF Assigned, Steady, Busy
  <1>3. Searches(u, s)' <=> Searches(u, s)
    <2>1. \A d \in 0..activeSplitPoints[u] : tsp'[u][d] = tsp[u][d]
      BY <1>1, Basics DEF Steady
    <2>2. Searches(u, s) <=> \E d \in 0..activeSplitPoints[u] :
            tsp[u][d] = s /\ (d = activeSplitPoints[u] => pc[u] \notin Left)
      BY DEF Searches, Left
    <2>3. Searches(u, s)' <=> \E d \in 0..activeSplitPoints[u] :
            tsp'[u][d] = s /\ (d = activeSplitPoints[u] => pc'[u] \notin Left)
      BY DEF Searches, Left
    <2>4. pc'[u] \in Left <=> pc[u] \in Left
      BY DEF Steady
    <2> QED
      BY <2>1, <2>2, <2>3, <2>4
  <1>4. Sp(u)' = Sp(u)
    BY DEF Sp
  <1> QED
    BY <1>2, <1>3, <1>4 DEF Work, Steady

(* A step that opens and closes nothing and leaves everyone's work alone   *)
(* is a stutter of ForkJoin.                                               *)
LEMMA Stutter ==
  ASSUME IInv, UNCHANGED <<activeSplitPoints, parent>>, \A u \in Threads : Steady(u) \/ Idle(u)
  PROVE  UNCHANGED FJ!fjvars
  <1>1. \A u \in Threads : Idle(u)
    BY SteadyIdles
  <1>2. \A s : InUse(s)' = InUse(s)
    BY DEF InUse
  <1>3. ASSUME NEW s \in SplitPoints, InUse(s) PROVE Owes(s)' = Owes(s)
    <2>1. \A u : u \in Owes(s) <=> u \in Threads /\ Work(u, s)
      BY OwesIsWork
    <2>2. \A u : u \in Owes(s)' <=> u \in Threads /\ Work(u, s)'
      BY DEF Owes, Work
    <2>3. \A u \in Threads : Work(u, s)' <=> Work(u, s)
      BY <1>1, <1>3 DEF Idle
    <2> QED
      BY <2>1, <2>2, <2>3
  <1>4. OpenPoints' = OpenPoints
    BY <1>2 DEF OpenPoints
  <1>5. OwedWork' = OwedWork
    BY <1>2, <1>3 DEF OwedWork
  <1>6. ForkedBelow' = ForkedBelow
    BY <1>2 DEF ForkedBelow
  <1> QED
    BY <1>4, <1>5, <1>6 DEF FJ!fjvars

(* A thread at work on a task has joined all it has forked below it. *)
LEMMA JoinedAll ==
  ASSUME IInv, NEW t \in Threads, pc[t] = "search"
  PROVE  FJ!JoinedBelow(t, Tsp(t))
  <1> USE Basics
  <1> DEFINE d == activeSplitPoints[t]
             s == Tsp(t)
  <1> SUFFICES ASSUME NEW r \in OpenPoints, Master(r) = t, s \in FJ!Above(r) PROVE FALSE
    BY DEF FJ!JoinedBelow
  <1>1. PICK above \in [SplitPoints -> SUBSET SplitPoints] : IsPath(above) /\ WaysUp(above)
    BY DEF IInv, Rooted
  <1>2. r \in SplitPoints /\ InUse(r) /\ s \in above[r] /\ s # r
    BY <1>1, AboveIsWayUp DEF OpenPoints
  <1>3. s \in SplitPoints /\ s # NoSP
    BY <1>1, <1>2
  <1>4. /\ InUse(s) /\ (t # Master(s) => t \in isSlave[s])
        /\ t = Master(s) => s = <<t, d>>
    BY <1>3, SearchedInUse
  <1>5. /\ d \in 0..MaxActive /\ tsp[t][d] = s
        /\ r[2] \in 1..d /\ r = <<t, r[2]>> /\ d \in 1..d
    <2>1. d \in 0..MaxActive /\ tsp[t][d] = s
      BY DEF Tsp, IInv, TypeInv, TypeOK
    <2>2. r = <<t, r[2]>> /\ r[2] \in 1..MaxActive /\ r[2] <= d
      BY <1>2 DEF InUse, Master
    <2> QED
      BY <2>1, <2>2
  <1>6. r \in above[s]
    <2>1. CASE t = Master(s)
      <3>1. s[2] = d /\ PathOf(above, s)
        BY <2>1, <1>1, <1>3, <1>4 DEF IsPath
      <3> QED
        BY <2>1, <3>1, <1>5 DEF PathOf
    <2>2. CASE t # Master(s)
      <3>1. Below(above, t, s)
        BY <2>2, <1>1, <1>3, <1>4 DEF IsPath
      <3>2. <<t, d>> \in above[s]
        BY <3>1, <1>5 DEF Below
      <3>3. /\ <<t, d>> \in SplitPoints /\ InUse(<<t, d>>) /\ above[<<t, d>>] \subseteq above[s]
        BY <3>2, <1>1, <1>3, <1>4 DEF IsPath, PathOf
      <3>4. PathOf(above, <<t, d>>)
        BY <3>3, <1>1 DEF IsPath
      <3>5. r \in above[<<t, d>>]
        BY <3>4, <1>5 DEF PathOf, Master
      <3> QED
        BY <3>3, <3>5
    <2> QED
      BY <2>1, <2>2
  <1> QED
    BY <1>1, <1>2, <1>3, <1>4, <1>6 DEF WaysUp, IsWayUp

(* Leaving a split point is leaving the task. *)
LEMMA LeaveImplements ==
  ASSUME IInv, NEW t \in Threads, Leave(t)
  PROVE  FJ!FJNext
  <1> USE Basics
  <1>p. PICK d, s0 : d = activeSplitPoints[t] /\ s0 = Tsp(t)
    OBVIOUS
  <1>0. /\ pc \in [Threads -> PC] /\ d \in 0..MaxActive
        /\ tsp \in [Threads -> [0..MaxActive -> SplitPoints \cup {NoSP}]]
    BY <1>p DEF IInv, TypeInv, TypeOK
  <1>1. /\ pc[t] = "search" /\ s0 # NoSP
        /\ UNCHANGED <<state, splitPoint, activeSplitPoints, parent, tsp>>
        /\ \A u \in Threads : pc'[u] = IF u = t THEN "leave" ELSE pc[u]
    BY <1>0, <1>p DEF Leave, Goto, shared, locals
  <1>2. s0 \in SplitPoints /\ InUse(s0) /\ tsp[t][d] = s0 /\ d \in 0..d
    <2>1. s0 \in SplitPoints /\ InUse(s0)
      BY <1>1, <1>p, SearchedInUse
    <2>2. tsp[t][d] = s0
      BY <1>p DEF Tsp
    <2>3. d \in 0..d
      BY <1>0
    <2> QED
      BY <2>1, <2>2, <2>3
  <1>3. state[t] = "SEARCHING"
    BY <1>1 DEF IInv, StateOK
  <1>4. \A s : InUse(s)' = InUse(s)
    BY <1>1 DEF InUse
  <1>5. \A e \in 0..MaxActive : e # d => tsp[t][e] # s0
    <2> SUFFICES ASSUME NEW e \in 0..MaxActive, e # d, tsp[t][e] = s0 PROVE FALSE
      OBVIOUS
    <2>1. TspOf(t, e)
      BY DEF IInv, TspOK
    <2> QED
      BY <2>1, <1>0, <1>1, <1>2 DEF TspOf
  <1>6. \A s \in SplitPoints : \A u \in Threads \ {t} : Work(u, s)' <=> Work(u, s)
    BY <1>1, SteadyIdles DEF Work, Assigned, Searches, Sp
  <1>7. Work(t, s0) /\ ~Work(t, s0)'
    <2>1. Searches(t, s0)
      BY <1>1, <1>2, <1>p DEF Searches
    <2>2. \A e \in 0..d : e \in 0..MaxActive
      BY <1>0
    <2>3. ~Searches(t, s0)'
      BY <1>1, <1>5, <1>p, <2>2 DEF Searches
    <2> QED
      BY <1>1, <1>3, <2>1, <2>3 DEF Work, Assigned, PcSplit
  <1>8. \A s \in SplitPoints : s # s0 => (Work(t, s)' <=> Work(t, s))
    <2> SUFFICES ASSUME NEW s \in SplitPoints, s # s0 PROVE Work(t, s)' <=> Work(t, s)
      OBVIOUS
    <2>1. Searches(t, s)' <=> Searches(t, s)
      BY <1>1, <1>2, <1>p DEF Searches
    <2> QED
      BY <2>1, <1>1, <1>3 DEF Work, Assigned, PcSplit
  <1>9. OwedWork' = [OwedWork EXCEPT ![s0] = @ \ {t}]
    <2>1. \A s \in SplitPoints : Owes(s)' = IF s = s0 THEN Owes(s) \ {t} ELSE Owes(s)
      <3> SUFFICES ASSUME NEW s \in SplitPoints
                   PROVE  Owes(s)' = IF s = s0 THEN Owes(s) \ {t} ELSE Owes(s)
        OBVIOUS
      <3>1. \A u : u \in Owes(s) <=> u \in Threads /\ Work(u, s)
        BY OwesIsWork
      <3>2. \A u : u \in Owes(s)' <=> u \in Threads /\ Work(u, s)'
        BY DEF Owes, Work
      <3> QED
        BY <3>1, <3>2, <1>6, <1>7, <1>8
    <2> QED
      BY <2>1, <1>2, <1>4 DEF OwedWork
  <1>10. s0 \in OpenPoints /\ t \in OwedWork[s0]
    BY <1>2, <1>7, OwesIsWork DEF OpenPoints, OwedWork
  <1>11. OpenPoints' = OpenPoints /\ ForkedBelow' = ForkedBelow
    BY <1>1, <1>4 DEF OpenPoints, ForkedBelow
  <1>12. FJ!JoinedBelow(t, s0)
    BY <1>1, <1>p, JoinedAll
  <1>13. FJ!Leave(s0, t)
    BY <1>9, <1>10, <1>11, <1>12 DEF FJ!Leave
  <1>14. OwedWork' # OwedWork
    <2>1. OwedWork'[s0] = OwedWork[s0] \ {t}
      BY <1>2, <1>9 DEF OwedWork
    <2> QED
      BY <2>1, <1>10
  <1> QED
    BY <1>2, <1>13, <1>14 DEF FJ!FJNext

(* Splitting is forking a task below the one searched. *)
LEMMA SplitImplements ==
  ASSUME IInv, NEW t \in Threads, Split(t)
  PROVE  FJ!FJNext
  <1> USE Basics
  <1>p. PICK d, s0, p0 : d = activeSplitPoints[t] /\ s0 = <<t, d + 1>> /\ p0 = Tsp(t)
    OBVIOUS
  <1>0. /\ pc \in [Threads -> PC] /\ splitPoint \in [Threads -> SplitPoints \cup {NoSP}]
        /\ activeSplitPoints \in [Threads -> 0..MaxActive]
        /\ isSlave \in [SplitPoints -> SUBSET Threads]
        /\ parent \in [SplitPoints -> SplitPoints \cup {NoSP}]
        /\ tsp \in [Threads -> [0..MaxActive -> SplitPoints \cup {NoSP}]]
    BY DEF IInv, TypeInv, TypeOK
  <1>1. d \in 0..MaxActive /\ d + 1 \in 1..MaxActive /\ d + 1 \in 0..MaxActive
    <2>1. d \in 0..MaxActive /\ d < MaxActive
      BY <1>0, <1>p DEF Split, CanSplit
    <2> QED
      BY <2>1
  <1>2. /\ s0 \in SplitPoints /\ s0 # NoSP /\ Master(s0) = t /\ s0[2] = d + 1
        /\ ~InUse(s0) /\ isSlave[s0] = {}
    <2>1. s0 \in SplitPoints /\ s0 # NoSP /\ Master(s0) = t /\ s0[2] = d + 1 /\ ~InUse(s0)
      BY <1>0, <1>1, <1>p DEF InUse, Master
    <2> QED
      BY <2>1, <1>0 DEF IInv, FlagsInUse
  <1>3. pc[t] = "search" /\ state[t] = "SEARCHING" /\ splitPoint[t] = p0 /\ p0 = tsp[t][d]
    <2>1. pc[t] = "search"
      BY DEF Split
    <2> QED
      BY <2>1, <1>p DEF IInv, StateOK, CallOK, Tsp
  <1>4. /\ \A u \in Threads : pc'[u] = IF u = t THEN "booktest" ELSE pc[u]
        /\ \A s \in SplitPoints : parent'[s] = IF s = s0 THEN p0 ELSE parent[s]
        /\ \A u \in Threads : splitPoint'[u] = IF u = t THEN s0 ELSE splitPoint[u]
        /\ \A u \in Threads : activeSplitPoints'[u] = IF u = t THEN d + 1 ELSE activeSplitPoints[u]
        /\ state' = state /\ tsp' = tsp
    <2>1. /\ pc' = [pc EXCEPT ![t] = "booktest"] /\ parent' = [parent EXCEPT ![s0] = p0]
          /\ splitPoint' = [splitPoint EXCEPT ![t] = s0]
          /\ activeSplitPoints' = [activeSplitPoints EXCEPT ![t] = d + 1]
          /\ state' = state /\ tsp' = tsp
      BY <1>p, <1>3 DEF Split, Goto
    <2> QED
      BY <2>1, <1>0, <1>2
  <1>5. p0 \in SplitPoints \cup {NoSP} /\ (p0 = NoSP => t = 0) /\ tsp[t][d + 1] = NoSP
    <2>1. TspOf(t, d) /\ TspOf(t, d + 1)
      BY <1>1 DEF IInv, TspOK
    <2>2. d + 1 > d
      BY <1>1
    <2> QED
      BY <2>1, <2>2, <1>0, <1>1, <1>3, <1>p DEF TspOf, PcWork
  <1>6. \A s \in SplitPoints : InUse(s)' <=> InUse(s) \/ s = s0
    <2> SUFFICES ASSUME NEW s \in SplitPoints PROVE InUse(s)' <=> InUse(s) \/ s = s0
      OBVIOUS
    <2>1. CASE Master(s) # t
      BY <2>1, <1>2, <1>4 DEF InUse, Master
    <2>2. CASE Master(s) = t
      <3>1. s[2] \in 1..MaxActive /\ s = <<t, s[2]>>
        BY <2>2 DEF Master
      <3>2. s[2] <= d + 1 <=> s[2] <= d \/ s[2] = d + 1
        BY <3>1, <1>1
      <3> QED
        BY <2>2, <3>1, <3>2, <1>4, <1>p DEF InUse, Master
    <2> QED
      BY <2>1, <2>2
  <1>7. /\ Sp(t)' = s0 /\ \A u \in Threads \ {t} : Sp(u)' = Sp(u)
        /\ \A u \in Threads \ {t} : Sp(u) # s0
    <2>1. Sp(t)' = s0
      BY <1>1, <1>4, <1>p DEF Sp
    <2> QED
      BY <2>1, <1>4, <1>2, <1>p DEF Sp
  <1>8. ASSUME NEW s \in SplitPoints, NEW u \in Threads
        PROVE  Work(u, s)' <=> IF s = s0 THEN u = t ELSE Work(u, s)
    <2>1. CASE u # t
      <3>1. Assigned(u, s)' <=> Assigned(u, s)
        BY <2>1, <1>4 DEF Assigned
      <3>2. Searches(u, s)' <=> Searches(u, s)
        BY <2>1, <1>4 DEF Searches
      <3>3. ~Assigned(u, s0) /\ ~Searches(u, s0)
        BY <2>1, <1>2 DEF IInv, FlagsOK
      <3> QED
        BY <2>1, <3>1, <3>2, <3>3, <1>4, <1>7 DEF Work
    <2>2. CASE u = t
      <3>1. ~Assigned(t, s) /\ ~Assigned(t, s)'
        BY <1>3, <1>4 DEF Assigned
      <3>2. Searches(t, s)' <=> \E e \in 0..d + 1 : tsp[t][e] = s
        BY <1>4 DEF Searches
      <3>3. Searches(t, s) <=> \E e \in 0..d : tsp[t][e] = s
        BY <1>3, <1>p DEF Searches
      <3>4. /\ \A e \in 0..d + 1 : e \in 0..d \/ e = d + 1
            /\ \A e \in 0..d : e \in 0..d + 1
        BY <1>1
      <3>5. Searches(t, s)' <=> Searches(t, s)
        BY <3>2, <3>3, <3>4, <1>5
      <3> QED
        BY <2>2, <3>1, <3>5, <1>3, <1>4, <1>7 DEF Work, PcSplit
    <2> QED
      BY <2>1, <2>2
  <1>9. \A s \in SplitPoints : Owes(s)' = IF s = s0 THEN {t} ELSE Owes(s)
    <2> SUFFICES ASSUME NEW s \in SplitPoints PROVE Owes(s)' = IF s = s0 THEN {t} ELSE Owes(s)
      OBVIOUS
    <2>1. /\ \A u : u \in Owes(s) <=> u \in Threads /\ Work(u, s)
          /\ \A u : u \in Owes(s)' <=> u \in Threads /\ Work(u, s)'
      BY DEF Owes, Work
    <2> QED
      BY <2>1, <1>8
  <1>10. /\ OpenPoints' = OpenPoints \cup {s0} /\ s0 \notin OpenPoints
         /\ OwedWork' = [OwedWork EXCEPT ![s0] = {t}]
         /\ ForkedBelow' = [ForkedBelow EXCEPT ![s0] = p0]
    BY ZenonT(60), <1>2, <1>4, <1>6, <1>9 DEF OpenPoints, OwedWork, ForkedBelow
  <1>11. FJ!WorksOn(t, p0)
    <2>1. CASE p0 = NoSP
      BY <2>1, <1>5 DEF FJ!WorksOn
    <2>2. CASE p0 # NoSP
      <3>1. InUse(p0) /\ p0 \in SplitPoints
        BY <2>2, <1>3, <1>p, SearchedInUse
      <3>2. Searches(t, p0)
        <4>1. d \in 0..d
          BY <1>1
        <4> QED
          BY <4>1, <1>3, <1>p DEF Searches
      <3>3. t \in OwedWork[p0]
        BY <3>1, <3>2, OwesIsWork DEF OwedWork, Work
      <3> QED
        BY <2>2, <3>1, <3>3 DEF FJ!WorksOn, OpenPoints
    <2> QED
      BY <2>1, <2>2
  <1>12. FJ!JoinedBelow(t, p0)
    BY <1>3, <1>p, JoinedAll
  <1>13. FJ!Fork(s0, p0)
    BY <1>2, <1>10, <1>11, <1>12 DEF FJ!Fork
  <1> QED
    BY <1>2, <1>5, <1>10, <1>13 DEF FJ!FJNext

(* Booking is enlisting: the slave is idle, or waits at a split point      *)
(* above.                                                                  *)
LEMMA BookImplements ==
  ASSUME IInv, NEW t \in Threads, Book(t)
  PROVE  FJ!FJNext
  <1> USE Basics
  <1>p. PICK i, s0, a : i = idx[t] /\ s0 = Sp(t) /\ a = activeSplitPoints[i]
    OBVIOUS
  <1>0. /\ pc \in [Threads -> PC] /\ splitPoint \in [Threads -> SplitPoints \cup {NoSP}]
        /\ state \in [Threads -> ThreadState]
        /\ activeSplitPoints \in [Threads -> 0..MaxActive]
        /\ tsp \in [Threads -> [0..MaxActive -> SplitPoints \cup {NoSP}]]
    BY DEF IInv, TypeInv, TypeOK
  <1>1. /\ pc[t] = "book" /\ i \in Threads /\ i # t /\ state[i] = "AVAILABLE"
        /\ i \notin isSlave[s0] /\ pc[i] \in Loop \cup {"notify", "wake"}
        /\ a > 0 => t \in isSlave[Sp(i)]
    <2>1. pc[t] = "book"
      BY DEF Book
    <2> QED
      BY <2>1, <1>p, BookedFacts
  <1>2. s0 \in SplitPoints /\ InUse(s0) /\ Master(s0) = t /\ ~Quiet /\ state[t] = "SEARCHING"
    BY <1>1, <1>p, SplitFrames DEF PcFrame, IInv, StateOK
  <1>3. /\ \A u \in Threads : pc'[u] = IF u = t THEN "booktest" ELSE pc[u]
        /\ \A u \in Threads : state'[u] = IF u = i THEN "BOOKED" ELSE state[u]
        /\ \A u \in Threads : splitPoint'[u] = IF u = i THEN s0 ELSE splitPoint[u]
        /\ UNCHANGED <<activeSplitPoints, parent, tsp>>
    <2>1. /\ pc' = [pc EXCEPT ![t] = "booktest"] /\ state' = [state EXCEPT ![i] = "BOOKED"]
          /\ splitPoint' = [splitPoint EXCEPT ![i] = s0]
          /\ UNCHANGED <<activeSplitPoints, parent, tsp>>
      BY <1>p DEF Book, Goto
    <2> QED
      BY <2>1, <1>0, <1>1
  <1>4. a \in 0..MaxActive /\ (a > 0 => Sp(i) = <<i, a>> /\ Sp(i) \in SplitPoints /\ InUse(Sp(i)))
    <2>1. a \in 0..MaxActive /\ (a # 0 => a \in 1..MaxActive /\ a <= a)
      BY <1>0, <1>1, <1>p
    <2> QED
      BY <2>1, <1>1, <1>p DEF Sp, InUse, Master
  <1>5. ~Searches(i, s0) /\ pc[i] \notin PcSplit /\ pc[i] \notin {"search", "leave", "available"}
    BY <1>1, <1>2 DEF IInv, FlagsOK, PcSplit, Loop
  <1>6. ASSUME NEW s \in SplitPoints, NEW u \in Threads
        PROVE  Work(u, s)' <=> Work(u, s) \/ (u = i /\ s = s0)
    <2>1. Searches(u, s)' <=> Searches(u, s)
      <3>1. pc'[u] \notin {"leave", "available", "notify", "wake"} <=>
              pc[u] \notin {"leave", "available", "notify", "wake"}
        BY <1>1, <1>3
      <3> QED
        BY <3>1, <1>3 DEF Searches
    <2>2. Sp(u)' = Sp(u) /\ (pc'[u] \in PcSplit <=> pc[u] \in PcSplit)
      BY <1>1, <1>3 DEF Sp, PcSplit
    <2>3. Assigned(u, s)' <=> Assigned(u, s) \/ (u = i /\ s = s0)
      BY <1>1, <1>3 DEF Assigned
    <2> QED
      BY <2>1, <2>2, <2>3 DEF Work
  <1>7. \A s \in SplitPoints : Owes(s)' = IF s = s0 THEN Owes(s) \cup {i} ELSE Owes(s)
    <2> SUFFICES ASSUME NEW s \in SplitPoints
                 PROVE  Owes(s)' = IF s = s0 THEN Owes(s) \cup {i} ELSE Owes(s)
      OBVIOUS
    <2>1. /\ \A u : u \in Owes(s) <=> u \in Threads /\ Work(u, s)
          /\ \A u : u \in Owes(s)' <=> u \in Threads /\ Work(u, s)'
      BY DEF Owes, Work
    <2> QED
      BY <2>1, <1>1, <1>6
  <1>8. \A s : InUse(s)' = InUse(s)
    BY <1>3 DEF InUse
  <1>9. /\ OpenPoints' = OpenPoints /\ s0 \in OpenPoints
        /\ OwedWork' = [OwedWork EXCEPT ![s0] = @ \cup {i}]
        /\ ForkedBelow' = ForkedBelow
    BY <1>2, <1>3, <1>7, <1>8 DEF OpenPoints, OwedWork, ForkedBelow
  <1>10. t \in OwedWork[s0] /\ i \notin OwedWork[s0]
    <2>1. Work(t, s0)
      BY <1>1, <1>p DEF Work, PcSplit
    <2>2. ~Work(i, s0)
      BY <1>1, <1>5 DEF Work, Assigned
    <2> QED
      BY <2>1, <2>2, <1>1, <1>2, OwesIsWork DEF OwedWork
  <1>11. i # 0 \/ FJ!Engaged(i) # {}
    <2> SUFFICES ASSUME i = 0 PROVE FJ!Engaged(i) # {}
      OBVIOUS
    <2>1. a > 0
      BY <1>2, <1>4, <1>5, <1>p DEF IInv, QuietOK
    <2> QED
      BY <2>1, <1>4 DEF FJ!Engaged, OpenPoints, Master
  <1>12. FJ!Engaged(i) \subseteq FJ!Above(s0)
    <2> SUFFICES ASSUME NEW s \in OpenPoints, i \in OwedWork[s] \/ Master(s) = i
                 PROVE  s \in FJ!Above(s0)
      BY DEF FJ!Engaged
    <2>1. PICK above \in [SplitPoints -> SUBSET SplitPoints] : IsPath(above) /\ WaysUp(above)
      BY DEF IInv, Rooted
    <2>2. s \in SplitPoints /\ InUse(s)
      BY DEF OpenPoints
    <2>3. \/ \E j \in 1..a : s = <<i, j>>
          \/ \E e \in 0..a : e < a /\ tsp[i][e] = s /\ Searches(i, s)
      <3>1. CASE Master(s) = i
        <4>1. s = <<i, s[2]>> /\ s[2] \in 1..MaxActive /\ s[2] <= a
          BY <3>1, <2>2, <1>p DEF InUse, Master
        <4> QED
          BY <4>1, <1>4
      <3>2. CASE i \in OwedWork[s]
        <4>1. Searches(i, s)
          BY <3>2, <2>2, <1>1, <1>5, OwesIsWork DEF OwedWork, Work, Assigned
        <4>2. PICK e \in 0..a : tsp[i][e] = s /\ (e = a => pc[i] \notin {"notify", "wake"})
          BY <4>1, <1>p DEF Searches
        <4>3. e # a
          <5>1. SUFFICES ASSUME e = a PROVE FALSE
            OBVIOUS
          <5>2. TspOf(i, a) /\ pc[i] \notin PcWork
            BY <5>1, <4>2, <1>1, <1>4, <1>5 DEF IInv, TspOK, PcWork
          <5> QED
            BY <5>1, <5>2, <4>2, <2>2, <1>p DEF TspOf
        <4>4. e < a
          BY <4>3, <1>4
        <4> QED
          BY <4>1, <4>2, <4>4
      <3> QED
        BY <3>1, <3>2
    <2>4. a > 0
      BY <2>3, <1>4
    <2> DEFINE r == Sp(i)
    <2>5. /\ r \in above[s0] /\ r \in SplitPoints /\ InUse(r) /\ r = <<i, a>>
          /\ PathOf(above, s0) /\ PathOf(above, r) /\ above[r] \subseteq above[s0]
      <3>1. Sp(i) \in above[Sp(t)]
        BY <2>1, <2>4, <1>1, <1>2, <1>p, BookedBelow
      <3>2. PathOf(above, s0) /\ PathOf(above, r)
        BY <2>1, <2>4, <1>2, <1>4 DEF IsPath
      <3> QED
        BY <3>1, <3>2, <2>4, <1>4, <1>p DEF PathOf
    <2> HIDE DEF r
    <2>6. \A j \in 1..a : <<i, j>> \in above[r]
      BY <2>5 DEF PathOf, Master
    <2>7. s \in above[r] /\ s # s0
      <3>1. CASE \E j \in 1..a : s = <<i, j>>
        BY <3>1, <2>6, <1>1, <1>2 DEF Master
      <3>2. ASSUME NEW e \in 0..a, e < a, tsp[i][e] = s, Searches(i, s)
            PROVE  s \in above[r] /\ s # s0
        <4>1. e + 1 \in 1..a /\ e + 1 \in 1..MaxActive /\ (e + 1) - 1 = e /\ e + 1 <= a
          BY <3>2, <1>4
        <4>2. PICK c : c = <<i, e + 1>>
          OBVIOUS
        <4>3. c \in SplitPoints /\ InUse(c) /\ Master(c) = i /\ c[2] - 1 = e /\ c \in above[r]
          BY <4>1, <4>2, <2>6, <1>1, <1>p DEF InUse, Master
        <4>4. parent[c] = s
          BY <3>2, <4>3 DEF IInv, CallOK
        <4>5. s \in above[c]
          BY <4>3, <4>4, <2>1, <2>2 DEF IsPath, PathOf
        <4>6. above[c] \subseteq above[r]
          BY <4>3, <2>5 DEF PathOf
        <4> QED
          BY <3>2, <4>5, <4>6, <1>5
      <3> QED
        BY <3>1, <3>2, <2>3
    <2>8. FJ!Above(s0) = above[s0] \ {s0}
      BY <2>1, <1>2, AboveIsWayUp
    <2> QED
      BY <2>5, <2>7, <2>8
  <1>13. FJ!Enlist(s0, i)
    BY <1>2, <1>9, <1>10, <1>11, <1>12 DEF FJ!Enlist
  <1>14. OwedWork' # OwedWork
    <2>1. OwedWork'[s0] = OwedWork[s0] \cup {i}
      BY <1>2, <1>9 DEF OwedWork
    <2> QED
      BY <2>1, <1>10
  <1> QED
    BY <1>1, <1>2, <1>13, <1>14 DEF FJ!FJNext

(* Resuming after a split is joining the task. *)
LEMMA CollectImplements ==
  ASSUME IInv, NEW t \in Threads, Collect(t)
  PROVE  FJ!FJNext
  <1> USE Basics
  <1>p. PICK d, s0 : d = activeSplitPoints[t] /\ s0 = <<t, d>>
    OBVIOUS
  <1>0. /\ pc \in [Threads -> PC] /\ splitPoint \in [Threads -> SplitPoints \cup {NoSP}]
        /\ activeSplitPoints \in [Threads -> 0..MaxActive]
        /\ parent \in [SplitPoints -> SplitPoints \cup {NoSP}]
        /\ tsp \in [Threads -> [0..MaxActive -> SplitPoints \cup {NoSP}]]
    BY DEF IInv, TypeInv, TypeOK
  <1>1. /\ pc[t] = "collect" /\ pc' = [pc EXCEPT ![t] = "search"]
        /\ splitPoint' = [splitPoint EXCEPT ![t] = parent[Sp(t)]]
        /\ activeSplitPoints' = [activeSplitPoints EXCEPT ![t] = @ - 1]
        /\ UNCHANGED <<state, parent, tsp>>
    BY DEF Collect, RestoreSplitPoint, Goto, points, locals
  <1>2. /\ Sp(t) = s0 /\ s0 \in SplitPoints /\ InUse(s0) /\ Master(s0) = t
        /\ s0 # NoSP /\ d \in 1..MaxActive
    <2>1. /\ Sp(t) \in SplitPoints /\ InUse(Sp(t)) /\ Master(Sp(t)) = t
          /\ activeSplitPoints[t] # 0
      BY <1>1, SplitFrames DEF PcFrame, IInv, TypeInv, FrameOK
    <2>2. activeSplitPoints[t] \in 1..MaxActive
      BY <1>0, <2>1
    <2> QED
      BY <2>1, <2>2, <1>p DEF Sp
  <1>a. /\ d - 1 \in 0..MaxActive /\ d - 1 < d /\ d > 0 /\ d \in 0..MaxActive
        /\ \A e \in 0..MaxActive : e <= d - 1 <=> e <= d /\ e # d
        /\ \A e : e \in 0..d <=> e \in 0..d - 1 \/ e = d
        /\ \A e \in 0..d - 1 : e # d
    BY <1>2
  <1>3. /\ tsp[t][d] = NoSP /\ state[t] = "SEARCHING"
        /\ \A u \in Threads : ~Assigned(u, s0) /\ ~Searches(u, s0)
    BY <1>1, <1>2, <1>p, MasterAtEnd, JoinHolds DEF IInv, StateOK, JoinComplete
  <1>5. /\ \A u \in Threads : pc'[u] = IF u = t THEN "search" ELSE pc[u]
        /\ \A u \in Threads : splitPoint'[u] = IF u = t THEN parent[s0] ELSE splitPoint[u]
        /\ \A u \in Threads : activeSplitPoints'[u] = IF u = t THEN d - 1 ELSE activeSplitPoints[u]
        /\ activeSplitPoints[t] = d
    BY <1>0, <1>1, <1>2, <1>p
  <1>6. \A s \in SplitPoints : InUse(s)' <=> InUse(s) /\ s # s0
    <2> SUFFICES ASSUME NEW s \in SplitPoints PROVE InUse(s)' <=> InUse(s) /\ s # s0
      OBVIOUS
    <2>1. CASE Master(s) # t
      BY <2>1, <1>2, <1>5 DEF InUse, Master
    <2>2. CASE Master(s) = t
      <3>1. s[2] \in 1..MaxActive /\ s = <<t, s[2]>> /\ s[2] \in 0..MaxActive
        BY <2>2 DEF Master
      <3>2. s[2] <= d - 1 <=> s[2] <= d /\ s[2] # d
        BY <3>1, <1>a
      <3> QED
        BY <2>2, <3>1, <3>2, <1>5, <1>p DEF InUse, Master
    <2> QED
      BY <2>1, <2>2
  <1>7. ASSUME NEW s \in SplitPoints, s # s0, NEW u \in Threads
        PROVE  Work(u, s)' <=> Work(u, s)
    <2>1. CASE u # t
      BY <2>1, <1>1, <1>5 DEF Work, Assigned, Searches, Sp
    <2>2. CASE u = t
      <3>1. ~Assigned(t, s) /\ ~Assigned(t, s)'
        BY <1>1, <1>3 DEF Assigned
      <3>2. pc[t] \notin PcSplit /\ pc'[t] \notin PcSplit
        BY <1>1, <1>5 DEF PcSplit
      <3>3. Searches(t, s) <=> \E e \in 0..d : tsp[t][e] = s
        BY <1>1, <1>5 DEF Searches
      <3>4. Searches(t, s)' <=> \E e \in 0..d - 1 : tsp[t][e] = s
        BY <1>1, <1>5 DEF Searches
      <3>5. Searches(t, s)' <=> Searches(t, s)
        BY <3>3, <3>4, <1>3, <1>a
      <3> QED
        BY <2>2, <3>1, <3>2, <3>5 DEF Work
    <2> QED
      BY <2>1, <2>2
  <1>8. Owes(s0) = {}
    <2> SUFFICES ASSUME NEW u \in Threads, Work(u, s0) PROVE FALSE
      BY OwesIsWork
    <2>1. pc[u] \in PcSplit /\ Sp(u) = s0
      BY <1>3 DEF Work
    <2>2. u = t
      BY <2>1, <1>2, SplitFacts
    <2> QED
      BY <2>1, <2>2, <1>1 DEF PcSplit
  <1>9. \A s \in SplitPoints : s # s0 => Owes(s)' = Owes(s)
    <2> SUFFICES ASSUME NEW s \in SplitPoints, s # s0 PROVE Owes(s)' = Owes(s)
      OBVIOUS
    <2>1. /\ \A u : u \in Owes(s) <=> u \in Threads /\ Work(u, s)
          /\ \A u : u \in Owes(s)' <=> u \in Threads /\ Work(u, s)'
      BY DEF Owes, Work
    <2> QED
      BY <2>1, <1>7
  <1>10. /\ OpenPoints' = OpenPoints \ {s0} /\ s0 \in OpenPoints
         /\ OwedWork' = OwedWork /\ OwedWork[s0] = {}
         /\ ForkedBelow' = [ForkedBelow EXCEPT ![s0] = NoSP]
    BY <1>1, <1>2, <1>6, <1>8, <1>9 DEF OpenPoints, OwedWork, ForkedBelow
  <1>11. FJ!Join(s0)
    BY <1>10 DEF FJ!Join
  <1> QED
    BY <1>2, <1>10, <1>11 DEF FJ!FJNext

(* The steps that move a thread on without giving it work or taking any. *)
LEMMA PlainMove ==
  ASSUME IInv, UNCHANGED <<splitPoint, activeSplitPoints, parent, tsp>>,
         \A u \in Threads :
           /\ Busy(u)' <=> Busy(u)
           /\ pc'[u] \in PcSplit <=> pc[u] \in PcSplit
           /\ pc'[u] \in Left <=> pc[u] \in Left
  PROVE  UNCHANGED FJ!fjvars
  <1>1. \A u \in Threads : Steady(u)
    BY DEF Steady
  <1> QED
    BY <1>1, Stutter

(* The steps between two searches, their beginning and their end. *)
LEMMA MainStutters ==
  ASSUME IInv, Main
  PROVE  UNCHANGED FJ!fjvars
  <1> USE Basics DEF shared, points, locals
  <1>0. pc \in [Threads -> PC] /\ idx[0] \in 0..MaxThreads
    BY DEF IInv, TypeInv, TypeOK
  <1>1. UNCHANGED <<state, splitPoint, activeSplitPoints, parent, tsp>>
    BY DEF Main, Launch, Launched, Think, Resize, Rouse, EndThink, Exit, ExitWake, DestroyLocks
  <1>2. \A u \in Threads :
          /\ pc'[u] \in PcSplit <=> pc[u] \in PcSplit
          /\ pc'[u] \in Left <=> pc[u] \in Left
    <2>1. CASE Launch
      <3>1. idx[0] < MaxThreads => pc[idx[0]] = "none"
        <4>1. idx[0] < MaxThreads => idx[0] \in Threads
          BY IndexType DEF IInv, TypeInv
        <4>2. idx[0] >= idx[0]
          BY <1>0
        <4> QED
          BY <4>1, <4>2, <2>1 DEF Launch, IInv, LaunchOK
      <3>2. pc[0] = "launch"
        BY <2>1 DEF Launch
      <3> QED
        BY <2>1, <3>1, <3>2, <1>0 DEF Launch, Goto, PcSplit, Left
    <2>2. CASE Rouse \/ ExitWake
      <3>1. CASE \E i, l : WakeUp(0, i, l) /\ l \in {"rouse", "exitspin"}
        <4>1. PICK i, l : WakeUp(0, i, l) /\ l \in {"rouse", "exitspin"}
          BY <3>1
        <4>2. /\ pc'[0] = l
              /\ \A u \in Threads \ {0} :
                   pc'[u] = pc[u] \/ (pc[u] = "asleep" /\ pc'[u] = "sleeptest")
          BY <4>1, WakeEffect DEF IInv
        <4>3. pc[0] \in {"rouse", "exit"}
          BY <2>2 DEF Rouse, ExitWake
        <4> QED
          BY <4>1, <4>2, <4>3 DEF PcSplit, Left
      <3>2. CASE ~\E i, l : WakeUp(0, i, l) /\ l \in {"rouse", "exitspin"}
        <4>1. pc[0] \in {"rouse", "exit"} /\ \E l \in {"search", "exited", "exitspin"} : Goto(0, l)
          BY <2>2, <3>2 DEF Rouse, ExitWake
        <4> QED
          BY <4>1, <1>0 DEF Goto, PcSplit, Left
      <3> QED
        BY <3>1, <3>2
    <2>3. CASE Launched \/ Think \/ Resize \/ EndThink \/ Exit \/ DestroyLocks
      <3>1. /\ pc[0] \in {"spin", "uci", "resize", "search", "exitspin"}
            /\ \E l \in {"launch", "resize", "rouse", "uci", "exit"} : Goto(0, l)
        BY <2>3 DEF Launched, Think, Resize, EndThink, Exit, DestroyLocks
      <3> QED
        BY <3>1, <1>0 DEF Goto, PcSplit, Left
    <2> QED
      BY <2>1, <2>2, <2>3 DEF Main
  <1>3. \A u \in Threads : Busy(u)' <=> Busy(u)
    BY <1>1 DEF Busy
  <1> QED
    BY <1>1, <1>2, <1>3, PlainMove

(* A step that leaves the split points alone, and the work of all threads  *)
(* but t, one of which it may wake.                                        *)
LEMMA OwnMove ==
  ASSUME IInv, NEW t \in Threads, UNCHANGED <<splitPoint, activeSplitPoints, parent>>,
         \A u \in Threads \ {t} :
           /\ Busy(u)' <=> Busy(u)
           /\ pc'[u] = pc[u] \/ (pc[u] = "asleep" /\ pc'[u] = "sleeptest")
           /\ tsp'[u] = tsp[u],
         Steady(t) \/ Idle(t)
  PROVE  UNCHANGED FJ!fjvars
  <1>1. \A u \in Threads \ {t} : Steady(u)
    BY DEF Steady, PcSplit, Left
  <1> QED
    BY <1>1, Stutter

(* A thread that has left its split point lets go of it. *)
LEMMA DropIdles ==
  ASSUME IInv, NEW t \in Threads, pc[t] \in Gone,
         \/ pc'[t] = AfterWork(t) /\ DropTsp(t)
         \/ pc'[t] \in Gone /\ tsp' = tsp,
         Busy(t)' <=> Busy(t),
         UNCHANGED <<splitPoint, activeSplitPoints>>
  PROVE  Idle(t) /\ \A u \in Threads \ {t} : tsp'[u] = tsp[u]
  <1> USE Basics
  <1>p. PICK d : d = activeSplitPoints[t]
    OBVIOUS
  <1>0. /\ d \in 0..MaxActive
        /\ tsp \in [Threads -> [0..MaxActive -> SplitPoints \cup {NoSP}]]
    BY <1>p DEF IInv, TypeInv, TypeOK
  <1>1. /\ \A e \in 0..MaxActive : e # d => tsp'[t][e] = tsp[t][e]
        /\ tsp'[t][d] = NoSP \/ pc'[t] \in Left
        /\ pc[t] \in Left /\ pc[t] \notin PcSplit /\ pc'[t] \notin PcSplit
        /\ \A u \in Threads \ {t} : tsp'[u] = tsp[u]
    BY <1>0, <1>p DEF DropTsp, AfterWork, Gone, Left, PcSplit
  <1>2. ASSUME NEW s \in SplitPoints PROVE Work(t, s)' <=> Work(t, s)
    <2>1. Assigned(t, s)' <=> Assigned(t, s)
      BY DEF Assigned, Busy
    <2>2. Searches(t, s) <=> \E e \in 0..d : e # d /\ tsp[t][e] = s
      BY <1>1, <1>p DEF Searches, Left
    <2>3. Searches(t, s)' <=> \E e \in 0..d : e # d /\ tsp'[t][e] = s
      BY <1>1, <1>p DEF Searches, Left
    <2>4. \A e \in 0..d : e \in 0..MaxActive
      BY <1>0
    <2> QED
      BY <2>1, <2>2, <2>3, <2>4, <1>1 DEF Work
  <1> QED
    BY <1>1, <1>2 DEF Idle

(* The idle loop takes up and ends what has been shared out. *)
LEMMA IdleLoopStutters ==
  ASSUME IInv, NEW t \in Threads, IdleLoop(t)
  PROVE  UNCHANGED FJ!fjvars
  <1> USE Basics DEF shared, points, locals
  <1>0. /\ pc \in [Threads -> PC] /\ state \in [Threads -> ThreadState]
        /\ activeSplitPoints \in [Threads -> 0..MaxActive]
        /\ tsp \in [Threads -> [0..MaxActive -> SplitPoints \cup {NoSP}]]
    BY DEF IInv, TypeInv, TypeOK
  <1>1. UNCHANGED <<splitPoint, activeSplitPoints, parent>>
    BY DEF IdleLoop, Top, SleepTest, TakeSleepLock, Retest, TakeWork, BecomeAvailable,
           Notify, WakeMaster, TestFinished, JoinLock, Resume
  <1>2. CASE Top(t) /\ allThreadsShouldExit
    <2>1. \A s \in SplitPoints : ~InUse(s)
      BY <1>0, <1>2 DEF IInv, QuietOK, Quiet, PcMain, InUse, Master
    <2>2. \A u \in Threads : Idle(u)
      BY <2>1 DEF Idle
    <2> QED
      BY <2>2, <1>1, Stutter
  <1>3. CASE TestFinished(t) \/ JoinLock(t) \/ TakeSleepLock(t) \/ Retest(t)
               \/ (Top(t) /\ ~allThreadsShouldExit)
               \/ (TakeWork(t) /\ state[t] # "WORKISWAITING")
    <2>1. UNCHANGED <<state, tsp>>
      BY <1>3 DEF TestFinished, JoinLock, TakeSleepLock, Retest, Top, TakeWork
    <2>2. /\ pc[t] \in PcIdle
          /\ \E l \in PcIdle : Goto(t, l)
      BY <1>3 DEF TestFinished, JoinLock, TakeSleepLock, Retest, Top, TakeWork, AfterWork, PcIdle
    <2>3. PICK l \in PcIdle : \A u \in Threads : pc'[u] = IF u = t THEN l ELSE pc[u]
      BY <2>2, <1>0 DEF Goto
    <2>4. Steady(t)
      BY <1>1, <2>1, <2>2, <2>3 DEF Steady, Busy, PcIdle, PcSplit, Left
    <2> QED
      BY <1>1, <2>1, <2>3, <2>4, OwnMove DEF Busy
  <1>4. CASE SleepTest(t) \/ Resume(t)
    <2>1. /\ tsp' = tsp
          /\ \A u \in Threads \ {t} : state'[u] = state[u] /\ pc'[u] = pc[u]
      BY <1>0, <1>4 DEF SleepTest, Resume, Goto
    <2>2. Busy(t)' <=> Busy(t)
      BY <1>0, <1>4 DEF SleepTest, Resume, IInv, StateOK, Busy
    <2>3. pc[t] \in PcIdle /\ pc'[t] \in PcIdle
      BY <1>0, <1>4 DEF SleepTest, Resume, Goto, PcIdle
    <2>4. Steady(t)
      BY <1>1, <2>1, <2>2, <2>3 DEF Steady, PcIdle, PcSplit, Left
    <2> QED
      BY <1>1, <2>1, <2>4, OwnMove DEF Busy
  <1>5. CASE TakeWork(t) /\ state[t] = "WORKISWAITING"
    <2>p. PICK d : d = activeSplitPoints[t]
      OBVIOUS
    <2>0. d \in 0..MaxActive
      BY <1>0, <2>p
    <2>1. /\ \A u \in Threads : state'[u] = IF u = t THEN "SEARCHING" ELSE state[u]
          /\ \A u \in Threads : pc'[u] = IF u = t THEN "search" ELSE pc[u]
          /\ tsp' = [tsp EXCEPT ![t][d] = splitPoint[t]]
          /\ pc[t] = "work"
      BY <1>0, <1>5, <2>p DEF TakeWork, Goto
    <2>2. /\ \A e \in 0..MaxActive : tsp'[t][e] = IF e = d THEN splitPoint[t] ELSE tsp[t][e]
          /\ \A u \in Threads \ {t} : tsp'[u] = tsp[u]
      BY <1>0, <2>0, <2>1
    <2>3. tsp[t][d] = NoSP
      BY <2>0, <2>1, <2>p DEF IInv, TspOK, TspOf, PcWork
    <2>4. ASSUME NEW s \in SplitPoints PROVE Work(t, s)' <=> Work(t, s)
      <3>1. Assigned(t, s) <=> splitPoint[t] = s
        BY <1>5 DEF Assigned
      <3>2. ~Assigned(t, s)'
        BY <2>1 DEF Assigned
      <3>3. Searches(t, s) <=> \E e \in 0..d : tsp[t][e] = s
        BY <2>1, <2>p DEF Searches
      <3>4. Searches(t, s)' <=> \E e \in 0..d : tsp'[t][e] = s
        BY <1>1, <2>1, <2>p DEF Searches
      <3>5. d \in 0..d /\ \A e \in 0..d : e \in 0..MaxActive
        BY <2>0
      <3>6. pc[t] \notin PcSplit /\ pc'[t] \notin PcSplit
        BY <2>1 DEF PcSplit
      <3> QED
        BY <3>1, <3>2, <3>3, <3>4, <3>5, <3>6, <2>2, <2>3 DEF Work
    <2>5. Idle(t)
      BY <2>4 DEF Idle
    <2> QED
      BY <1>1, <2>1, <2>2, <2>5, OwnMove DEF Busy
  <1>6. CASE BecomeAvailable(t) \/ Notify(t) \/ WakeMaster(t)
    <2>1. /\ pc[t] \in Gone
          /\ \/ pc'[t] = AfterWork(t) /\ DropTsp(t)
             \/ pc'[t] \in Gone /\ tsp' = tsp
      BY <1>0, <1>6, WakeEffect DEF BecomeAvailable, Notify, WakeMaster, Goto, Gone, IInv
    <2>2. \A u \in Threads \ {t} :
            pc'[u] = pc[u] \/ (pc[u] = "asleep" /\ pc'[u] = "sleeptest")
      BY <1>0, <1>6, WakeEffect DEF BecomeAvailable, Notify, WakeMaster, Goto, IInv
    <2>3. /\ \A u \in Threads \ {t} : state'[u] = state[u]
          /\ Busy(t)' <=> Busy(t)
      BY <1>0, <1>6 DEF BecomeAvailable, Notify, WakeMaster, Busy, IInv, StateOK
    <2>4. Idle(t) /\ \A u \in Threads \ {t} : tsp'[u] = tsp[u]
      BY <1>1, <2>1, <2>3, DropIdles
    <2> QED
      BY <1>1, <2>2, <2>3, <2>4, OwnMove DEF Busy
  <1> QED
    BY <1>2, <1>3, <1>4, <1>5, <1>6 DEF IdleLoop

(* Neither do ordering, counting nodes, or a spurious wake-up. *)
LEMMA SearchStutters ==
  ASSUME IInv, NEW t \in Threads,
         BookTest(t) \/ Order(t) \/ OrderWake(t) \/ AddNodes(t) \/ SpuriousWakeup(t)
  PROVE  UNCHANGED FJ!fjvars
  <1> USE Basics DEF shared, points, locals
  <1>0. /\ pc \in [Threads -> PC] /\ state \in [Threads -> ThreadState]
        /\ activeThreads \in 1..MaxThreads /\ idx \in [Threads -> 0..MaxThreads]
    BY DEF IInv, TypeInv, TypeOK
  <1>1. UNCHANGED <<splitPoint, activeSplitPoints, parent, tsp>>
    BY DEF BookTest, Order, OrderWake, AddNodes, SpuriousWakeup
  <1>2. CASE BookTest(t) \/ AddNodes(t) \/ SpuriousWakeup(t)
    <2>1. /\ state' = state
          /\ \/ pc[t] \in PcSplit \ {"orderwake"} /\ (pc' = pc \/ \E l \in {"book", "order"} : Goto(t, l))
             \/ pc[t] = "leave" /\ Goto(t, "available")
             \/ pc[t] = "asleep" /\ Goto(t, "sleeptest")
      BY <1>2 DEF BookTest, AddNodes, SpuriousWakeup, PcSplit
    <2>2. /\ \A u \in Threads \ {t} : pc'[u] = pc[u]
          /\ pc'[t] \in PcSplit <=> pc[t] \in PcSplit
          /\ pc'[t] \in Left <=> pc[t] \in Left
      BY <2>1, <1>0 DEF Goto, PcSplit, Left
    <2> QED
      BY <1>1, <2>1, <2>2, PlainMove DEF Busy
  <1>3. CASE OrderWake(t)
    <2>1. state' = state /\ pc[t] = "orderwake" /\ WakeUp(t, idx[t], "order")
      BY <1>3 DEF OrderWake
    <2>2. /\ pc'[t] = "order"
          /\ \A u \in Threads \ {t} :
               pc'[u] = pc[u] \/ (pc[u] = "asleep" /\ pc'[u] = "sleeptest")
      BY <2>1, WakeEffect DEF IInv
    <2>3. Steady(t)
      BY <1>1, <2>1, <2>2 DEF Steady, Busy, PcSplit, Left
    <2> QED
      BY <1>1, <2>1, <2>2, <2>3, OwnMove DEF Busy
  <1>4. CASE Order(t)
    <2>p. PICK i, s0 : i = idx[t] /\ s0 = Sp(t)
      OBVIOUS
    <2>0. /\ pc[t] = "order" /\ s0 \in SplitPoints /\ splitPoint[t] = s0 /\ BookOf(t)
          /\ i \in 0..MaxThreads /\ t < activeThreads /\ isSlave[s0] \subseteq Threads
      <3>1. pc[t] = "order"
        BY <1>4 DEF Order
      <3> QED
        BY <3>1, <2>p, <1>0, SplitFacts DEF PcSplit
    <2>1. CASE i >= activeThreads
      <3>1. /\ state' = state
            /\ \A u \in Threads : pc'[u] = IF u = t THEN "top" ELSE pc[u]
        BY <1>0, <1>4, <2>1, <2>p DEF Order, Goto
      <3>2. i > t
        BY <2>0, <2>1, <1>0
      <3>3. state[t] = "WORKISWAITING"
        BY <2>0, <2>p, <3>2 DEF IInv, StateOK
      <3>4. ASSUME NEW s \in SplitPoints PROVE Work(t, s)' <=> Work(t, s)
        <4>1. Assigned(t, s) <=> s = s0
          BY <2>0, <3>3 DEF Assigned
        <4>2. Assigned(t, s)' <=> Assigned(t, s)
          BY <1>1, <3>1 DEF Assigned
        <4>3. Searches(t, s)' <=> Searches(t, s)
          BY <1>1, <2>0, <3>1 DEF Searches
        <4> QED
          BY <4>1, <4>2, <4>3, <2>p, <3>1 DEF Work, PcSplit
      <3>5. Idle(t)
        BY <3>4 DEF Idle
      <3> QED
        BY <1>1, <3>1, <3>5, OwnMove DEF Busy
    <2>2. CASE ~(i >= activeThreads) /\ i = t
      <3>1. /\ \A u \in Threads : state'[u] = IF u = t THEN "WORKISWAITING" ELSE state[u]
            /\ pc' = pc
        BY <1>0, <1>4, <2>2, <2>p DEF Order
      <3>2. ASSUME NEW s \in SplitPoints PROVE Work(t, s)' <=> Work(t, s)
        <4>1. Assigned(t, s) \/ Assigned(t, s)' => s = s0
          BY <1>1, <2>0 DEF Assigned
        <4>2. Searches(t, s)' <=> Searches(t, s)
          BY <1>1, <3>1 DEF Searches
        <4>3. pc[t] \in PcSplit /\ pc'[t] \in PcSplit /\ Sp(t)' = s0
          BY <1>1, <2>0, <2>p, <3>1 DEF PcSplit, Sp
        <4> QED
          BY <4>1, <4>2, <4>3, <2>p DEF Work
      <3>3. Idle(t)
        BY <3>2 DEF Idle
      <3> QED
        BY <1>1, <3>1, <3>3, OwnMove DEF Busy
    <2>3. CASE ~(i >= activeThreads) /\ i # t
      <3>1. \/ pc' = pc
            \/ pc[t] = "order" /\ Goto(t, "orderwake")
        BY <1>4, <2>3, <2>p DEF Order
      <3>2. \/ state' = state
            \/ i \in isSlave[s0] /\ state' = [state EXCEPT ![i] = "WORKISWAITING"]
        BY <1>4, <2>3, <2>p DEF Order
      <3>3. i \in isSlave[s0] => i \in Threads /\ state[i] = "BOOKED"
        BY <2>0, <2>p DEF BookOf
      <3>4. \A u \in Threads : Busy(u)' <=> Busy(u)
        BY <3>2, <3>3, <1>0 DEF Busy
      <3>5. \A u \in Threads : /\ pc'[u] \in PcSplit <=> pc[u] \in PcSplit
                               /\ pc'[u] \in Left <=> pc[u] \in Left
        BY <3>1, <1>0 DEF Goto, PcSplit, Left
      <3> QED
        BY <1>1, <3>4, <3>5, PlainMove
    <2> QED
      BY <2>1, <2>2, <2>3
  <1> QED
    BY <1>2, <1>3, <1>4

LEMMA StepImplements ==
  ASSUME IInv, [Next]_vars
  PROVE  [FJ!FJNext]_(FJ!fjvars)
  <1>1. CASE Main
    BY <1>1, MainStutters
  <1>2. ASSUME NEW t \in Threads,
               \/ IdleLoop(t) \/ SplitSteps(t) \/ LeaveSteps(t)
               \/ Split(t) \/ SpuriousWakeup(t)
        PROVE  [FJ!FJNext]_(FJ!fjvars)
    <2>1. CASE IdleLoop(t)
      BY <2>1, IdleLoopStutters
    <2>2. CASE BookTest(t) \/ Order(t) \/ OrderWake(t) \/ AddNodes(t) \/ SpuriousWakeup(t)
      BY <2>2, SearchStutters
    <2>3. CASE Split(t) \/ Book(t) \/ Leave(t) \/ Collect(t)
      BY <2>3, SplitImplements, BookImplements, LeaveImplements, CollectImplements
    <2> QED
      BY <1>2, <2>1, <2>2, <2>3 DEF SplitSteps, LeaveSteps
  <1>3. CASE UNCHANGED vars
    <2>1. /\ UNCHANGED <<splitPoint, activeSplitPoints, parent, tsp>>
          /\ state' = state /\ pc' = pc
      BY <1>3 DEF vars, shared, points, locals
    <2> QED
      BY <2>1, PlainMove DEF Busy
  <1> QED
    BY <1>1, <1>2, <1>3 DEF Next, Terminated

(* The thread pool implements fork and join: whatever the number of        *)
(* threads, split() forks work below the work its thread does, booking     *)
(* enlists only threads that wait for nothing or for work above, and       *)
(* split() returns, joining the work, when everyone has left it.           *)
THEOREM PoolImplementsForkJoin == Spec => ImplementsForkJoin
  <1>1. Init => FJ!FJInit
    BY InitImplements
  <1>2. IInv /\ [Next]_vars => [FJ!FJNext]_(FJ!fjvars)
    BY StepImplements
  <1> QED
    BY <1>1, <1>2, JoinInvariant, PTL DEF Spec, ImplementsForkJoin, FJ!FJSpec
=============================================================================
