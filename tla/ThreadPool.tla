----------------------------- MODULE ThreadPool -----------------------------
(***************************************************************************)
(* The thread pool of the engine: ThreadsManager (thread.cpp, thread.h),   *)
(* its idle_loop() (search.cpp) and the part of think() and of the search  *)
(* that uses it.  A thread searching a node may split it: it books idle    *)
(* threads as slaves, orders them to work, works itself, and resumes only  *)
(* when all slaves have left the split point.  Idle threads spin, or sleep *)
(* on a condition variable ("Use Sleeping Threads").                       *)
(*                                                                         *)
(* Every thread has a program counter.  Its C++ call stack is the chain    *)
(*    idle_loop(NULL) search split idle_loop(sp 1) search split ...        *)
(* (thread 0 starts with search instead of idle_loop(NULL)), so the        *)
(* idle_loop frame a thread is in, or last called search from, is number   *)
(* activeSplitPoints[t], its argument sp is Sp(t), and its local variable  *)
(* tsp is tsp[t][activeSplitPoints[t]].                                    *)
(*                                                                         *)
(* The loads and stores of shared words are atomic steps.  The critical    *)
(* sections of wake_up() and of the end of split(), which touch nothing    *)
(* outside what their lock protects, are one step guarded by the lock.     *)
(***************************************************************************)
EXTENDS Naturals, FiniteSets

CONSTANTS MaxThreads,      \* MAX_THREADS (32 in the code)
          MaxActive,       \* MAX_ACTIVE_SPLIT_POINTS (8 in the code)
          MaxPerSplit,     \* maxThreadsPerSplitPoint, a UCI option
          Sizes,           \* the values the "Threads" option may take
          Modes,           \* the values "Use Sleeping Threads" may take
          MaxSplits        \* bound: split points of one search

ASSUME MaxThreadsAssumption == MaxThreads \in Nat \ {0}
ASSUME MaxActiveAssumption == MaxActive \in Nat \ {0}
ASSUME MaxPerSplitAssumption == MaxPerSplit \in Nat /\ MaxPerSplit > 1
ASSUME SizesAssumption == Sizes \subseteq 1..MaxThreads
ASSUME ModesAssumption == Modes \subseteq BOOLEAN
ASSUME MaxSplitsAssumption == MaxSplits \in Nat

Threads == 0..MaxThreads - 1
SplitPoints == Threads \X (1..MaxActive)   \* threads[i].splitPoints[j - 1]
NoSP == <<MaxThreads, 0>>                  \* the NULL split point pointer

Master(s) == s[1]

ThreadState == {"INITIALIZING", "SEARCHING", "AVAILABLE", "BOOKED",
                "WORKISWAITING", "TERMINATED"}

VARIABLES
  \* shared words of struct Thread and of ThreadsManager
  state, splitPoint, activeSplitPoints,
  activeThreads, useSleepingThreads, allThreadsShouldExit,
  \* shared words of struct SplitPoint
  parent, isSlave, nodes,
  \* locks: the holder of mpLock, whether a thread holds its own sleepLock,
  \* the holders of the split points' locks, whose locks exit() destroyed
  mpLock, sleepLock, spLock, destroyed,
  \* program counters and the locals i and tsp
  pc, idx, tsp,
  \* what is left of the bound MaxSplits in this search, and a history
  \* variable: the threads ever assigned to the present use of a split point
  budget, crew

shared  == <<state, splitPoint, activeSplitPoints>>
options == <<activeThreads, useSleepingThreads>>
points  == <<parent, isSlave, nodes, crew>>
locks   == <<mpLock, sleepLock, spLock, destroyed>>
locals  == <<idx, tsp>>
vars == <<shared, options, allThreadsShouldExit, points, locks, pc, locals,
          budget>>

Free == MaxThreads                         \* the holder of a free lock

PcIdle  == {"top", "sleeptest", "lock", "retest", "asleep", "work", "fin",
            "joinlock", "resume", "collect"}
PcWork  == {"search", "leave", "available", "notify", "wake"}
PcSplit == {"booktest", "book", "order", "orderwake"}
PcMain  == {"launch", "spin", "uci", "resize", "rouse", "exit", "exitspin",
            "exited"}
PC == {"none", "dead"} \cup PcIdle \cup PcWork \cup PcSplit \cup PcMain

TypeOK ==
  /\ state \in [Threads -> ThreadState]
  /\ splitPoint \in [Threads -> SplitPoints \cup {NoSP}]
  /\ activeSplitPoints \in [Threads -> 0..MaxActive]
  /\ activeThreads \in 1..MaxThreads
  /\ useSleepingThreads \in BOOLEAN
  /\ allThreadsShouldExit \in BOOLEAN
  /\ parent \in [SplitPoints -> SplitPoints \cup {NoSP}]
  /\ isSlave \in [SplitPoints -> SUBSET Threads]
  /\ nodes \in [SplitPoints -> SUBSET Threads]
  /\ crew \in [SplitPoints -> SUBSET Threads]
  /\ mpLock \in Threads \cup {Free}
  /\ sleepLock \in [Threads -> BOOLEAN]
  /\ spLock \in [SplitPoints -> Threads \cup {Free}]
  /\ destroyed \in SUBSET Threads
  /\ pc \in [Threads -> PC]
  /\ idx \in [Threads -> 0..MaxThreads]
  /\ tsp \in [Threads -> [0..MaxActive -> SplitPoints \cup {NoSP}]]
  /\ budget \in 0..MaxSplits

-----------------------------------------------------------------------------
(* The split point idle_loop() was called for, and the one being searched. *)
Sp(t) == IF activeSplitPoints[t] = 0 THEN NoSP ELSE <<t, activeSplitPoints[t]>>
Tsp(t) == tsp[t][activeSplitPoints[t]]

(* Thread::is_available_to() with the helpful master concept. *)
MutIsAvailableTo(i, m) == state[i] = "AVAILABLE"

IsAvailableTo(i, m) ==
  /\ state[i] = "AVAILABLE"
  /\ activeSplitPoints[i] # 0 => m \in isSlave[<<i, activeSplitPoints[i]>>]

AvailableSlaveExists(m) ==
  \E i \in Threads : i < activeThreads /\ i # m /\ IsAvailableTo(i, m)

(* The tests of split() that decide whether it splits. *)
MutCanSplitUnbounded(t) == AvailableSlaveExists(t)
MutCanSplitAlone(t) == activeSplitPoints[t] < MaxActive

CanSplit(t) == AvailableSlaveExists(t) /\ activeSplitPoints[t] < MaxActive

(* The loops over is_slave[] in idle_loop(). *)
MutAllFinished(s) ==
  \A i \in Threads : i + 1 < activeThreads => i \notin isSlave[s]

AllFinished(s) == \A i \in Threads : i < activeThreads => i \notin isSlave[s]

Goto(t, l) == pc' = [pc EXCEPT ![t] = l]

(* Where the body of idle_loop() continues after the launch of a search: *)
(* the test for a finished split point is vacuous when sp is NULL.       *)
AfterWork(t) == IF Sp(t) = NoSP THEN "top" ELSE "fin"

(* Thread::wake_up() called by t on thread i, after which t is at l.  A   *)
(* thread asleep holds no lock: it wakes, takes its sleepLock again, and   *)
(* releases it on the way to the test of the loop.                         *)
WakeUp(t, i, l) ==
  /\ ~sleepLock[i]
  /\ pc' = [pc EXCEPT ![i] = IF @ = "asleep" THEN "sleeptest" ELSE @,
                      ![t] = l]

-----------------------------------------------------------------------------
(* ThreadsManager::init(): thread 0 creates the others one at a time and   *)
(* spins until each has left INITIALIZING.                                 *)
Init ==
  /\ state = [t \in Threads |-> IF t = 0 THEN "SEARCHING" ELSE "INITIALIZING"]
  /\ splitPoint = [t \in Threads |-> NoSP]
  /\ activeSplitPoints = [t \in Threads |-> 0]
  /\ activeThreads = 1
  /\ useSleepingThreads = FALSE
  /\ allThreadsShouldExit = FALSE
  /\ parent = [s \in SplitPoints |-> NoSP]
  /\ isSlave = [s \in SplitPoints |-> {}]
  /\ nodes = [s \in SplitPoints |-> {}]
  /\ crew = [s \in SplitPoints |-> {}]
  /\ mpLock = Free
  /\ sleepLock = [t \in Threads |-> FALSE]
  /\ spLock = [s \in SplitPoints |-> Free]
  /\ destroyed = {}
  /\ pc = [t \in Threads |-> IF t = 0 THEN "launch" ELSE "none"]
  /\ idx = [t \in Threads |-> IF t = 0 THEN 1 ELSE 0]
  /\ tsp = [t \in Threads |-> [d \in 0..MaxActive |-> NoSP]]
  /\ budget = 0

Launch ==
  /\ pc[0] = "launch"
  /\ IF idx[0] < MaxThreads
     THEN pc' = [pc EXCEPT ![0] = "spin", ![idx[0]] = "top"]
     ELSE Goto(0, "uci")
  /\ UNCHANGED <<shared, options, allThreadsShouldExit, points, locks, locals,
                 budget>>

Launched ==
  /\ pc[0] = "spin"
  /\ state[idx[0]] # "INITIALIZING"
  /\ Goto(0, "launch")
  /\ idx' = [idx EXCEPT ![0] = @ + 1]
  /\ UNCHANGED <<shared, options, allThreadsShouldExit, points, locks, tsp,
                 budget>>

-----------------------------------------------------------------------------
(* think(): read_uci_options() stores useSleepingThreads, then             *)
(* activeThreads; then the first Threads.size() threads are woken; the     *)
(* search runs in thread 0; at the end set_size(1).                        *)
Think ==
  /\ pc[0] = "uci"
  /\ \E m \in Modes : useSleepingThreads' = m
  /\ Goto(0, "resize")
  /\ UNCHANGED <<shared, activeThreads, allThreadsShouldExit, points, locks,
                 locals, budget>>

Resize ==
  /\ pc[0] = "resize"
  /\ \E n \in Sizes : activeThreads' = n
  /\ idx' = [idx EXCEPT ![0] = 0]
  /\ Goto(0, "rouse")
  /\ UNCHANGED <<shared, useSleepingThreads, allThreadsShouldExit, points,
                 locks, tsp, budget>>

Rouse ==
  /\ pc[0] = "rouse"
  /\ IF idx[0] < activeThreads
     THEN /\ WakeUp(0, idx[0], "rouse")
          /\ idx' = [idx EXCEPT ![0] = @ + 1]
          /\ UNCHANGED budget
     ELSE /\ Goto(0, "search")
          /\ budget' = MaxSplits
          /\ idx' = [idx EXCEPT ![0] = 0]
  /\ UNCHANGED <<shared, options, allThreadsShouldExit, points, locks, tsp>>

(* The root search returns: thread 0 is in no split point. *)
EndThink ==
  /\ pc[0] = "search"
  /\ activeSplitPoints[0] = 0
  /\ activeThreads' = 1
  /\ budget' = 0
  /\ Goto(0, "uci")
  /\ UNCHANGED <<shared, useSleepingThreads, allThreadsShouldExit, points,
                 locks, locals>>

-----------------------------------------------------------------------------
(* split(), first part: under mpLock, the next SplitPoint of the master's  *)
(* stack is taken and initialised.  A split that finds no slave, or no     *)
(* free SplitPoint, changes nothing and is not a step.                     *)
Split(t) ==
  /\ pc[t] = "search"
  /\ budget > 0
  /\ mpLock = Free
  /\ CanSplit(t)
  /\ LET s == <<t, activeSplitPoints[t] + 1>>
     IN /\ parent' = [parent EXCEPT ![s] = splitPoint[t]]
        /\ isSlave' = [isSlave EXCEPT ![s] =
                         {i \in @ : i >= activeThreads}]
        /\ nodes' = [nodes EXCEPT ![s] = {}]
        /\ crew' = [crew EXCEPT ![s] = {t}]
        /\ splitPoint' = [splitPoint EXCEPT ![t] = s]
  /\ activeSplitPoints' = [activeSplitPoints EXCEPT ![t] = @ + 1]
  /\ mpLock' = t
  /\ idx' = [idx EXCEPT ![t] = 0]
  /\ budget' = budget - 1
  /\ Goto(t, "booktest")
  /\ UNCHANGED <<state, options, allThreadsShouldExit, sleepLock, spLock,
                 destroyed, tsp>>

(* The booking loop: the test of thread i and the stores that book it are  *)
(* apart, as no lock of thread i is held.                                  *)
BookTest(t) ==
  /\ pc[t] = "booktest"
  /\ LET i == idx[t]
         full == Cardinality(isSlave[Sp(t)]) + 1 >= MaxPerSplit
     IN IF i >= activeThreads \/ full
        THEN /\ mpLock' = Free
             /\ idx' = [idx EXCEPT ![t] = 0]
             /\ Goto(t, "order")
        ELSE /\ IF i # t /\ IsAvailableTo(i, t)
                THEN Goto(t, "book") /\ UNCHANGED idx
                ELSE idx' = [idx EXCEPT ![t] = @ + 1] /\ UNCHANGED pc
             /\ UNCHANGED mpLock
  /\ UNCHANGED <<shared, options, allThreadsShouldExit, points, sleepLock,
                 spLock, destroyed, tsp, budget>>

Book(t) ==
  /\ pc[t] = "book"
  /\ LET i == idx[t]
     IN /\ state' = [state EXCEPT ![i] = "BOOKED"]
        /\ splitPoint' = [splitPoint EXCEPT ![i] = Sp(t)]
        /\ isSlave' = [isSlave EXCEPT ![Sp(t)] = @ \cup {i}]
        /\ crew' = [crew EXCEPT ![Sp(t)] = @ \cup {i}]
  /\ idx' = [idx EXCEPT ![t] = @ + 1]
  /\ Goto(t, "booktest")
  /\ UNCHANGED <<activeSplitPoints, options, allThreadsShouldExit, parent,
                 nodes, locks, tsp, budget>>

(* After mpLock is released the crew, master included, is ordered to work; *)
(* then the master enters idle_loop(master, &splitPoint).                  *)
Order(t) ==
  /\ pc[t] = "order"
  /\ LET i == idx[t]
     IN IF i >= activeThreads
        THEN Goto(t, "top") /\ idx' = [idx EXCEPT ![t] = 0] /\ UNCHANGED state
        ELSE IF i = t \/ i \in isSlave[Sp(t)]
             THEN /\ state' = [state EXCEPT ![i] = "WORKISWAITING"]
                  /\ IF useSleepingThreads /\ i # t
                     THEN Goto(t, "orderwake") /\ UNCHANGED idx
                     ELSE idx' = [idx EXCEPT ![t] = @ + 1] /\ UNCHANGED pc
             ELSE idx' = [idx EXCEPT ![t] = @ + 1] /\ UNCHANGED <<state, pc>>
  /\ UNCHANGED <<splitPoint, activeSplitPoints, options, allThreadsShouldExit,
                 points, locks, tsp, budget>>

MutOrderWake(t) ==
  /\ pc[t] = "orderwake"
  /\ Goto(t, "order")
  /\ idx' = [idx EXCEPT ![t] = @ + 1]
  /\ UNCHANGED <<shared, options, allThreadsShouldExit, points, locks, tsp,
                 budget>>

OrderWake(t) ==
  /\ pc[t] = "orderwake"
  /\ WakeUp(t, idx[t], "order")
  /\ idx' = [idx EXCEPT ![t] = @ + 1]
  /\ UNCHANGED <<shared, options, allThreadsShouldExit, points, locks, tsp,
                 budget>>

(* The end of split(), after idle_loop() has returned. *)
MutRestoreSplitPoint(t) == UNCHANGED splitPoint

RestoreSplitPoint(t) ==
  splitPoint' = [splitPoint EXCEPT ![t] = parent[Sp(t)]]

Collect(t) ==
  /\ pc[t] = "collect"
  /\ mpLock = Free
  /\ RestoreSplitPoint(t)
  /\ activeSplitPoints' = [activeSplitPoints EXCEPT ![t] = @ - 1]
  /\ Goto(t, "search")
  /\ UNCHANGED <<state, options, allThreadsShouldExit, points, locks, locals,
                 budget>>

-----------------------------------------------------------------------------
(* idle_loop(): the test of allThreadsShouldExit. *)
Top(t) ==
  /\ pc[t] = "top"
  /\ IF allThreadsShouldExit
     THEN /\ state' = [state EXCEPT ![t] = "TERMINATED"]
          /\ Goto(t, "dead")
     ELSE Goto(t, "sleeptest") /\ UNCHANGED state
  /\ UNCHANGED <<splitPoint, activeSplitPoints, options, allThreadsShouldExit,
                 points, locks, locals, budget>>

(* The condition of the inner loop, and the first statements of its body. *)
SleepCondition(t) ==
  \/ t >= activeThreads
  \/ state[t] = "INITIALIZING"
  \/ useSleepingThreads /\ state[t] = "AVAILABLE"

SleepTest(t) ==
  /\ pc[t] = "sleeptest"
  /\ IF SleepCondition(t)
     THEN /\ state' = [state EXCEPT ![t] = IF @ = "INITIALIZING"
                                           THEN "AVAILABLE" ELSE @]
          /\ Goto(t, "lock")
     ELSE Goto(t, "work") /\ UNCHANGED state
  /\ UNCHANGED <<splitPoint, activeSplitPoints, options, allThreadsShouldExit,
                 points, locks, locals, budget>>

(* Do not go to sleep: the slaves have finished, or the program ends. *)
MutStayAwakeMaster(t) == allThreadsShouldExit
MutStayAwakeExit(t) == Sp(t) # NoSP /\ AllFinished(Sp(t))

StayAwake(t) ==
  (Sp(t) # NoSP /\ AllFinished(Sp(t))) \/ allThreadsShouldExit

(* sleepLock is taken; a master whose slaves have finished, and any thread *)
(* when the program ends, releases it and leaves the inner loop.           *)
TakeSleepLock(t) ==
  /\ pc[t] = "lock"
  /\ ~sleepLock[t]
  /\ IF StayAwake(t)
     THEN Goto(t, "work") /\ UNCHANGED sleepLock
     ELSE Goto(t, "retest") /\ sleepLock' = [sleepLock EXCEPT ![t] = TRUE]
  /\ UNCHANGED <<shared, options, allThreadsShouldExit, points, mpLock, spLock,
                 destroyed, locals, budget>>

(* The retest of the sleep conditions, and cond_wait(). *)
Retest(t) ==
  /\ pc[t] = "retest"
  /\ IF t >= activeThreads \/ state[t] = "AVAILABLE"
     THEN Goto(t, "asleep")
     ELSE Goto(t, "sleeptest")
  /\ sleepLock' = [sleepLock EXCEPT ![t] = FALSE]
  /\ UNCHANGED <<shared, options, allThreadsShouldExit, points, mpLock, spLock,
                 destroyed, locals, budget>>

(* POSIX lets cond_wait() return without a signal. *)
SpuriousWakeup(t) ==
  /\ pc[t] = "asleep"
  /\ Goto(t, "sleeptest")
  /\ UNCHANGED <<shared, options, allThreadsShouldExit, points, locks, locals,
                 budget>>

(* A thread with work to do calls search<SpNode>() on its split point. *)
TakeWork(t) ==
  /\ pc[t] = "work"
  /\ IF state[t] = "WORKISWAITING"
     THEN /\ state' = [state EXCEPT ![t] = "SEARCHING"]
          /\ tsp' = [tsp EXCEPT ![t][activeSplitPoints[t]] = splitPoint[t]]
          /\ Goto(t, "search")
     ELSE Goto(t, AfterWork(t)) /\ UNCHANGED <<state, tsp>>
  /\ UNCHANGED <<splitPoint, activeSplitPoints, options, allThreadsShouldExit,
                 points, locks, idx, budget>>

(* The end of search<SpNode>() (step 20): holding the lock of the split    *)
(* point the thread clears its flag, then adds its nodes and releases the  *)
(* lock.                                                                   *)
ClearFlag(t) == isSlave' = [isSlave EXCEPT ![Tsp(t)] = @ \ {t}]

Leave(t) ==
  /\ pc[t] = "search"
  /\ Tsp(t) # NoSP
  /\ spLock[Tsp(t)] = Free
  /\ spLock' = [spLock EXCEPT ![Tsp(t)] = t]
  /\ ClearFlag(t)
  /\ Goto(t, "leave")
  /\ UNCHANGED <<shared, options, allThreadsShouldExit, parent, nodes, crew,
                 mpLock, sleepLock, destroyed, locals, budget>>

AddNodes(t) ==
  /\ pc[t] = "leave"
  /\ nodes' = [nodes EXCEPT ![Tsp(t)] = @ \cup {t}]
  /\ spLock' = [spLock EXCEPT ![Tsp(t)] = Free]
  /\ Goto(t, "available")
  /\ UNCHANGED <<shared, options, allThreadsShouldExit, parent, isSlave, crew,
                 mpLock, sleepLock, destroyed, locals, budget>>

(* The rest of the launch: the thread is AVAILABLE again, and wakes up the *)
(* master of the split point when it finds it AVAILABLE too.               *)
DropTsp(t) == tsp' = [tsp EXCEPT ![t][activeSplitPoints[t]] = NoSP]

BecomeAvailable(t) ==
  /\ pc[t] = "available"
  /\ state' = [state EXCEPT ![t] = "AVAILABLE"]
  /\ IF useSleepingThreads /\ t # Master(Tsp(t))
     THEN Goto(t, "notify") /\ UNCHANGED tsp
     ELSE Goto(t, AfterWork(t)) /\ DropTsp(t)
  /\ UNCHANGED <<splitPoint, activeSplitPoints, options, allThreadsShouldExit,
                 points, locks, idx, budget>>

Notify(t) ==
  /\ pc[t] = "notify"
  /\ IF state[Master(Tsp(t))] = "AVAILABLE"
     THEN Goto(t, "wake") /\ UNCHANGED tsp
     ELSE Goto(t, AfterWork(t)) /\ DropTsp(t)
  /\ UNCHANGED <<shared, options, allThreadsShouldExit, points, locks, idx,
                 budget>>

WakeMaster(t) ==
  /\ pc[t] = "wake"
  /\ WakeUp(t, Master(Tsp(t)), AfterWork(t))
  /\ DropTsp(t)
  /\ UNCHANGED <<shared, options, allThreadsShouldExit, points, locks, idx,
                 budget>>

(* The end of the body of idle_loop() in the master of a split point. *)
TestFinished(t) ==
  /\ pc[t] = "fin"
  /\ Goto(t, IF AllFinished(Sp(t)) THEN "joinlock" ELSE "top")
  /\ UNCHANGED <<shared, options, allThreadsShouldExit, points, locks, locals,
                 budget>>

MutJoinLock(t) ==
  /\ pc[t] = "joinlock"
  /\ Goto(t, "resume")
  /\ UNCHANGED <<shared, options, allThreadsShouldExit, points, locks, locals,
                 budget>>

JoinLock(t) ==
  /\ pc[t] = "joinlock"
  /\ spLock[Sp(t)] = Free
  /\ Goto(t, "resume")
  /\ UNCHANGED <<shared, options, allThreadsShouldExit, points, locks, locals,
                 budget>>

Resume(t) ==
  /\ pc[t] = "resume"
  /\ state' = [state EXCEPT ![t] = "SEARCHING"]
  /\ Goto(t, "collect")
  /\ UNCHANGED <<splitPoint, activeSplitPoints, options, allThreadsShouldExit,
                 points, locks, locals, budget>>

-----------------------------------------------------------------------------
(* ThreadsManager::exit(). *)
Exit ==
  /\ pc[0] = "uci"
  /\ allThreadsShouldExit' = TRUE
  /\ idx' = [idx EXCEPT ![0] = 0]
  /\ Goto(0, "exit")
  /\ UNCHANGED <<shared, options, points, locks, tsp, budget>>

ExitWake ==
  /\ pc[0] = "exit"
  /\ IF idx[0] >= MaxThreads
     THEN Goto(0, "exited")
     ELSE IF idx[0] # 0
          THEN WakeUp(0, idx[0], "exitspin")
          ELSE Goto(0, "exitspin")
  /\ UNCHANGED <<shared, options, allThreadsShouldExit, points, locks, locals,
                 budget>>

DestroyLocks ==
  /\ pc[0] = "exitspin"
  /\ idx[0] # 0 => state[idx[0]] = "TERMINATED"
  /\ destroyed' = destroyed \cup {idx[0]}
  /\ idx' = [idx EXCEPT ![0] = @ + 1]
  /\ Goto(0, "exit")
  /\ UNCHANGED <<shared, options, allThreadsShouldExit, points, mpLock,
                 sleepLock, spLock, tsp, budget>>

(* The program has ended. *)
Terminated == pc[0] = "exited" /\ UNCHANGED vars

-----------------------------------------------------------------------------
Main == Launch \/ Launched \/ Think \/ Resize \/ Rouse \/ EndThink \/ Exit
          \/ ExitWake \/ DestroyLocks

IdleLoop(t) ==
  \/ Top(t) \/ SleepTest(t) \/ TakeSleepLock(t) \/ Retest(t)
  \/ TakeWork(t) \/ BecomeAvailable(t) \/ Notify(t) \/ WakeMaster(t)
  \/ TestFinished(t) \/ JoinLock(t) \/ Resume(t)

SplitSteps(t) == BookTest(t) \/ Book(t) \/ Order(t) \/ OrderWake(t) \/ Collect(t)

LeaveSteps(t) == Leave(t) \/ AddNodes(t)

Next ==
  \/ Main
  \/ \E t \in Threads :
       \/ IdleLoop(t) \/ SplitSteps(t) \/ LeaveSteps(t)
       \/ Split(t) \/ SpuriousWakeup(t)
  \/ Terminated

Spec == Init /\ [][Next]_vars

(* Every thread is scheduled: one that can take a step takes one.  A       *)
(* wake_up() is not starved by a thread that takes and drops its sleepLock *)
(* for ever (it would do so only if the operating system woke it           *)
(* spuriously without end).  Nothing obliges a search to split, the system *)
(* to wake a thread spuriously, or the user to give the next command.      *)
Fairness ==
  /\ WF_vars(Launch \/ Launched \/ Resize \/ Rouse \/ EndThink
               \/ ExitWake \/ DestroyLocks)
  /\ SF_vars(Rouse \/ ExitWake)
  /\ \A t \in Threads :
       /\ WF_vars(IdleLoop(t) \/ SplitSteps(t) \/ LeaveSteps(t))
       /\ SF_vars(OrderWake(t) \/ WakeMaster(t))

FairSpec == Spec /\ Fairness
-----------------------------------------------------------------------------
(* A split point is in use from split() to the end of split(). *)
InUse(s) == s # NoSP /\ s[2] <= activeSplitPoints[Master(s)]

(* u has been assigned to s and has not yet begun to search it. *)
Assigned(u, s) ==
  /\ state[u] \in {"BOOKED", "WORKISWAITING"}
  /\ splitPoint[u] = s

(* u is in a call of search<SpNode>() on s, perhaps below other calls. *)
Searches(u, s) ==
  \E d \in 0..activeSplitPoints[u] :
    /\ tsp[u][d] = s
    /\ d = activeSplitPoints[u] =>
         pc[u] \notin {"leave", "available", "notify", "wake"}

(* split() promises "When all threads have returned from search() then     *)
(* split() returns": a master that leaves its idle loop finds no thread    *)
(* that searches its split point or has still to start, and the node count *)
(* it is about to read holds the contribution of every thread it booked.   *)
JoinComplete ==
  \A t \in Threads : pc[t] \in {"resume", "collect"} =>
    /\ \A u \in Threads : ~Assigned(u, Sp(t)) /\ ~Searches(u, Sp(t))
    /\ nodes[Sp(t)] = crew[Sp(t)]

(* What cutoff_occurred() relies on: the chain that starts at the          *)
(* splitPoint of a searching thread is made of the split points of its     *)
(* own calls and of their masters' calls, all in use, up to the root.      *)
CutoffChain ==
  /\ \A t \in Threads : pc[t] \in {"search", "leave"} => splitPoint[t] = Tsp(t)
  /\ \A s \in SplitPoints : InUse(s) =>
       /\ parent[s] = tsp[Master(s)][s[2] - 1]
       /\ parent[s] = NoSP <=> (s = <<0, 1>>)
       /\ parent[s] # NoSP => InUse(parent[s])
  /\ \A u \in Threads, d \in 0..MaxActive :
       tsp[u][d] # NoSP => \/ InUse(tsp[u][d])
                           \/ /\ d = activeSplitPoints[u]
                              /\ pc[u] \in {"available", "notify", "wake"}

(* The helpful master concept: a master waiting at a split point is given  *)
(* work only below that split point, so no cycle of masters can wait for   *)
(* each other.                                                             *)
Above(s) ==
  {r \in SplitPoints : \A path \in SUBSET SplitPoints :
     s \in path /\ (\A c \in path : parent[c] # NoSP => parent[c] \in path)
       => r \in path}

HelpfulMaster ==
  \A u \in Threads : activeSplitPoints[u] > 0 =>
    \A s \in SplitPoints :
      (u \in isSlave[s] /\ (Assigned(u, s) \/ Tsp(u) = s)) =>
        Sp(u) \in Above(s)

(* The assertions of split() and idle_loop(), each at its line; "book" is  *)
(* the store that follows the test of is_available_to().                   *)
CodeAssertions ==
  \A t \in Threads :
    /\ pc[t] = "sleeptest" /\ SleepCondition(t) =>
         useSleepingThreads \/ (Sp(t) = NoSP /\ t # 0)
    /\ pc[t] = "top" /\ allThreadsShouldExit => Sp(t) = NoSP
    /\ pc[t] = "work" /\ state[t] = "WORKISWAITING" => ~allThreadsShouldExit
    /\ pc[t] = "available" => state[t] = "SEARCHING"
    /\ pc[t] = "resume" => state[t] = "AVAILABLE"
    /\ pc[t] = "booktest" => state[t] # "AVAILABLE"
    /\ pc[t] = "book" => IsAvailableTo(idx[t], t)
    /\ pc[t] = "order" /\ idx[t] = 0 => Cardinality(crew[Sp(t)]) > 1
    /\ pc[t] = "order" => \A i \in isSlave[Sp(t)] :
                            i >= idx[t] => state[i] = "BOOKED"

-----------------------------------------------------------------------------
(* The abstract state: a master owes its split point work from split() on. *)
Owes(s) ==
  {u \in Threads : \/ Assigned(u, s)
                    \/ Searches(u, s)
                    \/ (pc[u] \in PcSplit /\ s = Sp(u))}

OpenPoints == {s \in SplitPoints : InUse(s)}
OwedWork == [s \in SplitPoints |-> IF InUse(s) THEN Owes(s) ELSE {}]
ForkedBelow == [s \in SplitPoints |-> IF InUse(s) THEN parent[s] ELSE NoSP]

FJ == INSTANCE ForkJoin
        WITH Workers <- Threads, Tasks <- SplitPoints, Root <- NoSP, Boss <- 0,
             Owner <- Master, open <- OpenPoints, owes <- OwedWork, up <- ForkedBelow

(* The pool implements fork and join: work is forked, shared out, left and *)
(* joined in no other order than the abstract one.                         *)
ImplementsForkJoin == FJ!FJSpec

-----------------------------------------------------------------------------
(* A thread ordered to work leaves its idle loop and searches. *)
OrderedWorkStarts ==
  \A t \in Threads :
    state[t] = "WORKISWAITING" ~> state[t] # "WORKISWAITING"

(* A search returns: no master waits for ever at its split point. *)
SearchReturns == pc[0] = "search" ~> pc[0] = "uci"

(* exit() ends, with every thread terminated. *)
ExitCompletes ==
  allThreadsShouldExit ~>
    /\ pc[0] = "exited"
    /\ \A t \in Threads \ {0} : state[t] = "TERMINATED"
=============================================================================
