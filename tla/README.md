# gpsfish in TLA+

gpsfish (`gpsfish_dev/`) is a shogi engine: the search and the control of
Stockfish on the board, move generators, evaluation and checkmate solvers of
the library OSL (`osl/`).  This directory models the parts of it that are hard
to get right and hard to test, above all the parallel search and the dialogue
with the GUI, and the player that runs a cluster of such engines
(`gpsshogi/bin/cluster/`), checks the models with TLC on small instances, and proves the
most important results for every instance with TLAPS.

All paths below are relative to `gpsfish_dev/src/` unless they say otherwise.
The code is read as the Makefile there builds it: `GPSFISH` defined, so with
`GPSFISH_DFPN`; under a GCC that provides lambdas; asserts are comments of the
program about itself.

## The system and its parts

| Part | State it keeps | Operations | Talks to |
|---|---|---|---|
| Thread pool (`thread.cpp`, `idle_loop()` in `search.cpp`) | per thread: `state`, `splitPoint`, stack of split points, `sleepLock`, `sleepCond`; the pool: `activeThreads`, `useSleepingThreads`, `allThreadsShouldExit`, `mpLock` | `init`, `exit`, `split`, `idle_loop`, `wake_up`, `is_available_to`, `cutoff_occurred` | every thread reads the states of all others without a lock; the search calls `split()` and is called by `idle_loop()` |
| Search node (`search<>()`) | move picker, `alpha`, `bestValue`, `bestMove`, and in a `SplitPoint` their shared copies under its lock | move loop, reductions, pruning, split, store in the table | thread pool, transposition table, engine control (`StopRequest`) |
| Quiescence search (`qsearch<>()`) | as a node, never shared | captures and checks | transposition table, `poll()` |
| Engine control (`main.cpp`, `uci.cpp`, `think`, `id_loop`, `poll`, `do_checkmate`) | `Limits`, `StopRequest`, `QuitRequest`, `StopOnPonderhit`, `AspirationFailLow`, depth, best values of past iterations | commands, iterations, polling | the GUI through one pipe each way; time manager; pool |
| Root moves (`Rml`) and aspiration window | list of root moves with scores and variations; `alpha`, `beta`, `aspirationDelta` | sort, MultiPV, re-search | transposition table, control |
| Transposition table (`tt.cpp`, `tt.h`) | clusters of four entries of 16 bytes; `generation` | `store`, `probe`, `refresh`, `new_search`, `set_size`, `clear` | all threads, without any lock |
| Time manager (`timeman.cpp`) | optimum, maximum, extra time | `init`, `pv_instability` | control |
| Move picker, history (`movepick.cpp`, `history.h`) | phase, lists of moves; counters shared by the threads without a lock | `get_next_move`, `update` | node |
| Position and repetition (`position.cpp`) | board of OSL, chain of `StateInfo` | do and undo a move, `is_draw` | all searches |
| Checkmate solver (`run_checkmate`, `hasCheckmate`) | df-pn tables of OSL | run between iterations on the root moves | table, root moves |
| UCI options (`ucioption.cpp`) | name to value | `set_value` | read at `think()` |
| Book, evaluation, move generation | read-only data | look-ups | search |
| Cluster player (`gpsshogi/bin/cluster/*.rb`) | per engine process a stub (`@searching`, `@stopped`, `@finish_queue`); per search an object of `UsiMulti` with its thread and `@searchers`; the fields of `PonderPlayer` | `search`, `stop`, `split_search`, `ponder`, `inform` | engines through pipes, one reader thread each; threads through queues and locks |

What is hard in it:

* threads: every word of `Thread` and `SplitPoint` is read and written by
  several threads, most of them without a lock, on the strength of arguments in
  comments ("helpful master concept", "because `sp->slaves[]` is reset under lock
  protection");
* aborts: a stop, or a cutoff at this split point or at an ancestor, makes
  children return garbage at any moment, which must reach neither the scores of
  the node nor the table;
* one pipe read at three places: what a line means depends on who reads it, and
  `stop`, `ponderhit`, `quit` race with the end of the search and with the clock;
* flags that outlive a search: `StopRequest`, `Limits`, the search start time;
* ruby threads that hand stubs of engine processes from one search to the next while answers of the last are still
  under way, and a move of the opponent that arrives between any two steps of the thread that ponders on it;
* the table: entries of other threads half written, keys cut to 32 bits, values to 16,
  generations to 8.

What makes each part correct: every split is joined with all its slaves gone and
their nodes counted, no thread is booked twice, no one waits for ever (pool); what
is stored is true of the position (node, quiescence, table); every request is
answered once, not before it may be and not never (control); a time limit never
exceeds the clock (time manager); the window is proper and the head of the list is the move to answer
(root moves); a search on the cluster ends once and whole, and the answer is for the move made (cluster player); every legal move is tried once (picker); a game
is a draw exactly when its position has occurred often enough (repetition).

## The modules

| Module | What it is |
|---|---|
| `ThreadPool` | the pool: `ThreadsManager`, `Thread`, `idle_loop()` |
| `ForkJoin` | what the pool promises: an abstract fork and join of searches |
| `ThreadPoolProofs` | TLAPS: type correctness of the pool, and its safety: joins, cutoffs, helpful masters, assertions; the pool implements `ForkJoin` |
| `SplitNode` | one node of the search, shared by the threads of its split point |
| `SplitNodeProofs` | TLAPS: types, what a node stores is true |
| `UciEngine` | the dialogue with the GUI |
| `UciEngineProofs` | TLAPS: types, every stop has a reason, the engine implements `Dialogue` |
| `Dialogue` | what the engine promises to the GUI |
| `TransTable` | a cluster of the transposition table and the code that stores in it |
| `Move16` | the 16 bits of a move in an entry |
| `TransTableProofs` | TLAPS: a position has one entry, the latest, the least makes place, moves survive |
| `RootSearch` | iterative deepening, the aspiration window and the root move list |
| `RootSearchProofs` | TLAPS: the window is proper, re-searches widen it, the head of the list is the best move |
| `UsiWrapper` | the stubs of the engine processes of a cluster and their reader threads |
| `UsiMulti` | a search on several processes, with its client; EXTENDS `UsiWrapper` |
| `PonderPlayer` | the main loop and the pondering thread that make such searches; EXTENDS `UsiMulti` |
| `UsiMultiProofs` | TLAPS: who owes a `:stopped` to whom; the shares fit the stubs; the end of a search is quiet |
| `UsiMultiValueProofs` | TLAPS: what is heard from the searchers, place by place: the result is exact, final values stand, nobody raises |
| `PonderPlayerProofs` | TLAPS: types of the player; its answer fits the move that was made; no raise in the searches it begins |
| `MCThreadPool`, `MCSplitNode`, `MCUciEngine`, `MCTransTable`, `MCRootSearch` | small instances for TLC |

### ThreadPool

Every thread has a program counter `pc[t]`; the labels are the places of the
code between two accesses to shared words.  A thread's C++ stack is
`idle_loop(NULL)`, `search`, `split`, `idle_loop(sp)`, `search`, ...: the frame is
the number of its active split points, so the argument `sp` is
`Sp(t) = <<t, activeSplitPoints[t]>>` and the local `tsp` of frame `d` is
`tsp[t][d]`.  A split point is a place `<<t, j>>` in the array of thread `t`, reused
by later splits as in the code.

| Actions | Code |
|---|---|
| `Launch`, `Launched` | `init()` starts the threads one at a time and waits until each left `INITIALIZING` |
| `Think`, `Resize`, `Rouse`, `EndThink` | what `think()` does with the pool: read options, wake threads, `set_size(1)` |
| `Split`, `BookTest`, `Book`, `Order`, `OrderWake`, `Collect` | `split()`; booking is a test and a store, not one step |
| `Top`, `SleepTest`, `TakeSleepLock`, `Retest`, `TakeWork`, `TestFinished`, `JoinLock`, `Resume` | `idle_loop()` |
| `Leave`, `AddNodes`, `BecomeAvailable`, `Notify`, `WakeMaster` | the end of a slave's search and its way back |
| `Exit`, `ExitWake`, `DestroyLocks` | `exit()` |
| `SpuriousWakeup` | `pthread_cond_wait` may return unasked (external) |

`wake_up()` and the last critical section of `split()` touch only what their lock
protects and are single steps that wait for the lock.  A search is one place
(`"search"`), from which a thread may split or leave: which nodes it visits does not
matter to the pool.  `crew` (history) holds the threads ever assigned to the present use of
a split point; `budget`, bounded by `MaxSplits`, is the number of splits left in a search.

Properties, all about interleavings: `JoinComplete` (a master that resumes finds
nobody left inside its split point, and the nodes of every slave added),
`CutoffChain` (the parent pointers `cutoff_occurred()` walks lead through
split points still in use, though nothing locks them), `HelpfulMaster` (a waiting
master only helps below its own split point, so masters never wait in a circle),
`CodeAssertions` (the asserts of `split()` and `idle_loop()`, and that a booking is
valid when it is stored), `ImplementsForkJoin`; and under fairness
`OrderedWorkStarts`, `SearchReturns`, `ExitCompletes`.

### SplitNode

The move loop of `search<>()`, steps 10 to 20, by one thread until `inSplit` and by
all threads of the split point after.  The threads share the picker (`moves`) and
`spAlpha`, `spBest`, `betaCutoff` under `spLock`, which each takes and gives back
where the code does; `ReadAlpha` is the read outside the lock.  The children are an
oracle: a move has a value `val[m]`, and a search of it with window `(a, b)` returns
any fail-soft bound on it (`Outcomes`), or anything at all when the search was
aborted.  Reduced searches and pruning by statistics may err by design; the history
variable `dismissed` holds the moves given up so, and the properties are about the rest.
The root node never splits and is not modelled.  `entry` is what step 20 stores in the
transposition table.

Properties: `StoredSound` (an upper bound really bounds every move not dismissed,
a lower bound is reached by some move's value, an exact value is both, and nothing
is stored after an abort); `Window` (alpha, best value and beta keep their order
until a cutoff); `SharedBoundsGrow` (no thread lowers the shared bounds); under
fairness `NodeReturns`.

### UciEngine

`pc` is where the engine's one controlling thread is: reading in `main()`, searching,
at the end of the loop, waiting, printing, in `do_checkmate()`, gone.  The pipe is
`inbox`, in order and never lost; the GUI sends a request only when it waits for no
answer, and anything else at any time, so that a `stop` may cross the answer.  Each
iteration of `id_loop()` is its end (`NextIteration`, `MateIteration`, `StopIteration`), with the
`Poll`s and `FailLow`s before it.  Time is the set `spent` of limits that were passed:
62% of the available time, the available time, the maximum time, the limit of the
request, and the limit of `go mate`.  `Limits`, `StopRequest` and `StopOnPonderhit` outlive a search as
the globals do, so that `go mate`, which resets only `QuitRequest`, starts with what
the search before left; at the very first `go mate` the start time is 0, and whether the
limits (all 0) are exceeded depends on the sign of the time as an `int`.

Properties: `StopHasReason` (a search is stopped only by what the GUI said
about this request, or by its own clock or scores and then not while it ponders),
`ImplementsDialogue` (refinement of `Dialogue`: a pondering engine answers only after it
was told, unless it declares a win instead of searching, and a request has one answer); under fairness `BoundedAnswered`,
`StopAnswered`, `LeavesWhenTold`.

### TransTable

One cluster: the clusters never touch each other.  `store()` goes through the entries one at a time
(`Scan`), stops at an empty one or that of its position (`Found`) or ends with the
one to replace (`Choose`), and `save()` writes it in two halves of 8 bytes (`WriteHead`, `WriteBody`;
the code's eight stores stay within them, and more pieces would only tear finer).  Any number of
threads do so at once, as no lock protects the table.  The calls are those of `search.cpp`: results of nodes and of the
quiescence search, stand pat, static values of new positions (`SearchStores`), look-ups with
their `refresh()` (`LookUp`), and between the iterations the checkmate solver (`StoreMate`), `insert_pv_in_tt`
(`InsertPv`), `new_search()` and `set_size()`/`clear()`.  Values are left out; what a node concludes from one
is a choice.  History: `met`, two threads were at an entry at once; `twice`, two stored the same
position at once; `calm[t]`, nobody wrote while `t` scanned; `told`, `latest`, what was last stored.

Properties: `OneEntry` (a position has one entry, unless two threads stored it at once, whatever
else races); `LatestFound` (without races an entry is what was last stored for its position, with the last move
given for it, through its 16 bits); `Victim` (what is replaced is the least valuable entry).  The comment on
`store()` ranks entries by generation and depth only; the code also spares exact
entries of past searches, and `Victim` says what it does.

### RootSearch

`id_loop()` with the root node's loop inside it.  `pc` is `"head"` at the loop condition of `id_loop()`, `"move"`
in the root node's loop, `"judge"` after it in the `do ... while` of the window, `"done"` behind.
`NextIteration` begins a depth, with `run_checkmate()` (any set of refuted moves) and the retreat it may cause;
`RootMate` is the first search of a root that `search()` finds to be a mate (`search.cpp:1229-1251`, a test that the root
makes too): it returns `value_mate_in(1)` or `value_mate_in(3)` before the list is ranked and before any move has a score;
`SearchMove` and `AbortMove` are turns of the root node's loop; `Widen` (`FailHigh`, `FailLow`), `Settle` and
`EndIteration` judge the result; `PollStop`, `PollPonderhit` and `PollTime` are what `poll()` does meanwhile;
`Finish` answers, with `SkillChoice` for `do_skill_level()`.  `order` and `pvScore` are `Rml`; `best` is the array
`bestValues[]`, which the code leaves unwritten until it is used (`Unset`).  A root move is a model value,
its score any member of `Scores`.  The verdict of the clock, of node counts and of the easy move is a choice wherever
the code compares them; `AspirationFailLow` only delays that choice and is left out.  The code's numbers (window from depth 5, deltas
16 to 24 in steps of 8, mate and win thresholds) are constants.

Properties: `WindowOK` (alpha below beta inside the infinite window, also in a window kept from an iteration that was
won or lost, or widened by a retreat); `HistoryWritten` (no element of `bestValues[]` is read unwritten);
`HeadIsBest` (the head of the list has the value of the search, and no stale score of a move
behind a cutoff beats it; after a `RootMate`, the one search whose value no move has, nothing in the list has a score); `HeadKept` (only a finished search of a better move, a tie, or a refutation
replaces the head, which a stop would answer); `StopNotPondering`; `WindowWidens`; under fairness `Termination`.

### UsiWrapper, UsiMulti, PonderPlayer

A stub `eng[e]` holds `@searching`, `@stopped`, the queue to answer to (`sink`) and the commands its process
has not answered (`jobs`).  `Reader(e)` is the reader thread's next answer: it goes to the queue the stub remembers *now*, which
`Ask` (`searchbook`, `genmoves`) may have replaced since the command was sent.  What a process answers is any value of `Val`; the extension of a
search by `@extend` is part of its answer.  `Refuses` is the raise of a search on a stub that is searching.

An object of `UsiMulti` is a place in `node`, whose `pc` is where its thread is: root search with book and move
generation (`RootCall`, `BookAnswered`, `GenmovesAnswered`), the short search and the checkmate search with the first two stubs (`Presearch`,
`PresearchTake`, `PresearchEnd`), the forced move (`Forced`), probabilities (`Timeless`), sharing out the stubs
(`Split`, which is `SplitAmong` for the children of `Children`; `Count`), and the answers of the searchers until the best is final (`Collect`, `CollectEnd`); with one stub it is a leaf
and only hands the search on.  `Children` shares out the stubs by weights as `split_search` and `UsiArray.dist` do, in exact rationals (the code's are floats; ties in a sort are any order);
the sum of the weights is the number of `Squares` of a diagram with a row for each, a form the proofs can count with.
An object has one queue in the model for its local ones, because the next is made when the last was read out.
`stop()` goes down the tree under the locks and is one step (`StopNodes`).  The clock is `late`, a choice, once true always
true.  Objects nobody refers to (`InUse` and what the client can `Reach`, the least set that holds the children of its members)
are garbage and their places are used again, as many as there is `Room` for.

`PonderPlayer` is the client of the program: `MainStep`, the main loop of `gpsshogi.rb`; `ThrStep`, the thread of `ponder()`;
`Inform`, the opponent's move, at any time; `lock` is `@mutex`.  In `UsiMulti` the client makes one root search and may stop it.

Properties: `StoppedOnce` (no searcher says `:stopped` twice, none speaks to the client after its `:stopped`); `EndIsWhole`
(when the client hears `:stopped` no process of the tree works, which is its part `EndIsQuiet`, and an unstopped search has an exact result); `FinalStands`
(late reports of searchers stopped for a final value do not change it); `Ends`; and of the player `NoRaise` (no thread meets a
raise), `AnswerFits` (the answer sent is a result for the position after the move the opponent made), `Replies`.

## The runs

| Run | Instance | Shows |
|---|---|---|
| `pool` | 3 threads, 2 nested split points each, 3 splits a search, sleeping and spinning | the safety properties of the pool, the asserts of the code, and that the pool implements `ForkJoin`; 1.3 million states |
| `pool_liveness` | 2 threads, 3 splits, sleeping | no wake-up is lost; 24 thousand states |
| `node` | 3 threads, 3 moves with values 1 to 3, every window | what is stored is true; 770 thousand states |
| `node_liveness` | 3 threads, 2 moves with values 1 and 2, every window | a node returns; 57 thousand states |
| `uci` | 6 kinds of request, `go mate`, book, wins by declaration, depth 3, 2 lines in the pipe | answers in dialogue, stops for a reason, and everything that must be answered is; 270 thousand states |
| `table` | 2 threads, 3 positions, 2 entries, 2 generations, up to the first race | one entry, the latest, the least replaced; 920 thousand states |
| `root` | 2 moves, two close scores and a mated one, the root itself a mate or not, 5 depths, one checkmate search, handicapped or not | window, list and answer stay right and it ends; 2 million states |
| `cluster` | 3 processes, 3 values, 2 named moves, forced moves at the first two plies, a stop by the client | a root search ends once, whole, with a value that stands; 115 thousand states |
| `ponder` | 2 processes, 2 moves of the opponent, a game of 2 answers after the first | the player answers every move, once and to that move; 151 thousand states |
| `ponder_race` | the same, one answer, with the stop of `cluster` and `ponder` left out | violation 3 below |
| `table_static` | 1 thread, one position in check | violation 2 below |
| `pool_lost_wakeup` | 2 threads, spinning mode | violation 1 below |

Why the bounds are enough.  Three threads are the least with a master, a slave and a
third that either of them may book; two nested split points are the least with a
parent whose cutoff must reach a grandchild and with a waiting master that may be
booked; three splits are the least with which a waiting master could be booked
wrongly, by a thread that it did not help (without the test of `is_available_to()`, `HelpfulMaster`
fails with three and not with two), and two already reuse a place in the array, in one search
or in the next, while a slave of its earlier use is still on its way to idle.  Three moves are the
least with one that refutes the node, one that comes back late with garbage and one before the
split (two do not break `StoredSound` when garbage is believed); three
values put every order of the moves against every window; the
theorems are about any number.  For the dialogue the thresholds 5 and 7 of `id_loop()` are
constants set to 2 and 3, so that every early stop, and the solver's retreat, can happen within three
iterations; two lines in the pipe are the least with a line that crossed an answer and a
request behind it.

In the table two entries are the least of which one is to be chosen, and three positions the
least that fill them and want one more; two generations tell present from past.  `NoRace` stops the run
behind the first race, where `LatestFound` says nothing; that `OneEntry` holds also after races at an
entry of other positions is the theorem.

At the root two moves are the least with a head to lose; the scores are two close ones and a mated one, and the values of a root that is a mate
are one below and one above the bound (`MateIn2`) to which a node lowers beta; five depths
hold the first window (at 4 here), two re-searches, a retreat and the iteration after it.  On the cluster three
processes are the least whose objects have children with two stubs, which share out again; the ply bound stops the chain of
forced moves.  Two moves of the opponent are a hit and a miss, and two answers after the first are the least in which
a result of one turn could be taken for that of another.

The passing runs of the cluster, `cluster` and `ponder`, have `StopBetween = FALSE`: no stop falls between the two halves of
`split_search()` (`usiMulti.rb:180` and `:183`), where violation 3 is.  So what they show of a stop or a move of the opponent "at any time" has this exception.  The guard `MayStop` is on every stop: that of the client, and the one an
object sends to its searchers when its value is final, which meets a grandchild there only with four processes or more.

View and symmetry.  `MCThreadPool`, `MCSplitNode` and `MCTransTable` use a VIEW that leaves out the values of fields
no one reads before they are written again, in `node` the moves, and the threads other than the
master, are interchangeable, and in `table` the positions; the runs with liveness use neither.

Fairness.  At the root: the search goes on, and a search of a move returns.  On the cluster: as long as a process has a command to answer
or a thread can go on, one of them does; this is all that `Ends` and `Replies` need, and every engine keeps to its
time limit.  Nothing makes the opponent move.  In the pool: every thread takes its next step (weak fairness per thread: the
operating system runs it), a thread that waits for a lock others take again and again gets it
(strong fairness on the wake-ups), and a search ends.  Nothing is assumed of spurious
wake-ups, nor of a thread splitting.  In the node: every thread steps, so every child
search returns.  In the dialogue: the engine runs, a search polls (every
`NodesBetweenPolls` nodes, at most 1000), a stopped search unwinds, time passes, the GUI
reads.  An iteration is not assumed to end, since a deep one outlasts any clock; the GUI is
not assumed to send anything.

## What the violations show

1. `pool_lost_wakeup` (spinning threads).  Before it waits, `idle_loop()` retests the condition
   for sleeping with another condition than the loop's own: without
   `useSleepingThreads` it still sleeps when it is `AVAILABLE`.  A thread that entered
   the loop while it was inactive, and is activated and signalled by `think()` before it takes its
   lock, sleeps after the signal; `split()` does not wake threads in this mode and
   its master waits for it for ever.
2. `table_static`.  `hasCheckmate()` stores a mate without a static value, and `search()` and
   `qsearch()` assert that the entry of a position not in check has one.  The root, and PV nodes of the
   quiescence search, never return the value of an entry and get there; the root does when the game
   comes to the position that was found to be a mate.  Without asserts `VALUE_NONE` is the evaluation.

3. `ponder_race`.  `split_search()` starts its searchers under the lock and reads `@searchers.size` after it.  A `stop()` in
   between empties `@searchers`, the object counts none, says `:stopped` at once, and the next search is started
   on processes that still work: `raise "new search while searching"`, or the late `bestmove` of
   the old search is read as the answer of the book.  `StopBetween` lets the stop fall there.

Also met while modelling, described here and not stated as a property: two mate scores in a row at depth 5 or more set `StopRequest` also in an
infinite search, and `think()` prints the move without waiting, against its comment (`search.cpp:655`); a
`quit` read by `poll()` during `go mate` ends the solver, but `go()` returns true, against its comment (`uci.cpp:260`), and the engine reads on;
`do_skill_level()` also chooses after a stopped search, from a list that is not sorted as its comment says
(`search.cpp:2830`), with an unsigned difference of scores that may be negative; a root that is itself a mate returns from its first search before `Rml` is sorted or scored, and as
`checkmateTested` is never reset in `id_loop()`, only there: with `go depth 1` the answer is whatever move the generator put first, and with a stop before the second search has searched a
move the one that the move picker ranks first, printed with the score `-VALUE_INFINITE`; a handicapped
engine that chooses then (`do_skill_level()`) finds no move with a score; a best move just refuted by `run_checkmate()` is answered when the stop comes
before the next search ends; a position whose key has 32 zero bits matches every empty entry of the table; a book move is printed at once in
an infinite search, and `bestmove win` while pondering; `go mate` starts with the `StopRequest`,
limits and clock of the search before, so that after a stopped or timed search it gives
up at its first poll; lines other than `stop`, `ponderhit`, `quit`, `gameover` and `echo` that
arrive during a search are dropped; `exit()` destroys the lock of thread 0 while a slave of
the last search may be about to signal under it.

On the cluster: a move of the opponent that arrives during the first guess of the first turn finds `@searcher` nil
(`ponder.rb:108`; the model has it as `crashed` and stops there); a typo, `@podner_searcher` (`gpsshogi.rb:204`), keeps
`PonderPlayer.stop` from ever being called when the opponent resigns; a stop that comes between `presearch` and the lock of
`split_search` stops nothing, and the search runs its full time (the model has the stop fall there, and no time).

## What is proved

TLAPS proves, for any number of threads, split points, moves, values and depths:

* `ThreadPoolProofs!TypeCorrect`: `Spec => []TypeOK`.  `TypeOK` alone is not inductive: that a thread
  that returns from a split point has one on its stack, that a waiting thread reads a split
  point that exists, that the pool is never sized 0 rest on where the threads are.
  `FrameOK` says so (the depth of a thread's stack at every label), and
  `TypeInv = TypeOK /\ FrameOK` is inductive.
* `ThreadPoolProofs!JoinIsComplete`, `ChainInUse`, `HelpersBelow`, `AssertionsOfTheCode`: every safety property of the
  pool that `pool` checks, from one inductive invariant, `IInv` (theorem `JoinInvariant`).  A join is safe because a
  slave's flag is up exactly while the slave owes work (`FlagsOK`); because the loops over the flags see all that are up, as the number of
  threads stands still while a split point is in use (`FlagsInUse`, `QuietOK`); because the master has done its own share when it looks
  (`MasterOK`); and because it takes the split point's lock after it saw the flags down, so the last slave has added its nodes
  (`JoinOK`, `CrewOK`).  That think() finds no split point in use when it changes the number of threads is a fact about the whole tree: `Rooted`
  says there is a path from the first split point of thread 0 down to each one in use, so that a forgotten split point would
  keep its parents' masters waiting too.  The path is a witness `above` and not a recursive definition: it contains every parent
  (`PathOf`), everyone on it but the last has a child on it, and it is the least such set (`IsWayUp`).  A helper whose
  own split point is in use is on that path (`Below`), which is the helpful master concept; it is kept because the store of a booking still finds what
  the test saw (`BookOK`): only the owner of `mpLock` books, and an available thread does not move by itself.
* `ThreadPoolProofs!PoolImplementsForkJoin`: `Spec => ImplementsForkJoin`.  Under the mapping `OpenPoints`, `OwedWork`,
  `ForkedBelow`, a `Split` is a `Fork`, a `Book` an `Enlist`, a `Leave` a `Leave`, a `Collect` a `Join`, and every other step
  stutters: order, launch and return only move the same debt of a thread from one word to the next (its `splitPoint`, its `tsp`, its place in `split()`).
* `SplitNodeProofs!NodeTyped`, `NodeSound`, `NodeWindow`, `NodeBoundsGrow`: `Spec => []TypeOK`, `Spec => []StoredSound`, `Spec => []Window`,
  `Spec => SharedBoundsGrow`.  The inductive invariant `IInv` adds to the types: `Control`
  (who may be where, who holds the lock, which moves are out), `Bounds` (every local alpha and best value was the
  shared one once, so is at most the shared one now), `ValueOK` (a value a thread
  brings back is a bound on its move relative to the alpha it searched with, unless
  aborted), `Accounted` (every move is left in the picker, in the hands of a thread, dismissed, or bounded by
  the best value), `BestOK` (the best value is a value some move reaches), and
  `EndOK`, `EntryOK` for the last steps.  The argument: a value found with an old
  alpha either does not exceed the present one and changes nothing, or exceeds it and was
  exact or a lower bound all the same; garbage can only come after an abort, which stays until
  the node is left, and an aborted node stores nothing.  The types need all of it: that the value step 20 stores is a value of the search, and not
  the `-VALUE_INFINITE` the best value starts with, holds because as long as the best value is that, no move
  has been dealt with, so the loop cannot have ended but for a cutoff elsewhere or a stop (`TInv`).
* `UciEngineProofs!EngineTyped`, `StoppedForAReason`, `EngineImplementsDialogue`: `TypeOK`, `StopHasReason` and the
  refinement of `Dialogue`.  `IInv` follows a request on its way: it is in the pipe, in the engine's hand or answered,
  in one place only, and the GUI waits for its answer (`OneRequest`); a line in the pipe that ends a
  search was sent about the last request or stands before it (`TellsAreSent`); `think()` works under the limits
  of the request, less the pondering that is over (`LimitsOfRequest`);
  `go mate` never ponders; and a move is printed only when the engine was told or did not
  ponder (`PrintMayAnswer`).  Under the mapping `mode <- ...`, `answers <- out`, reading `go` is an `Ask`, or a
  `Declare` when the engine declares a win, reading `stop` or `ponderhit` during a pondering search a `Told`,
  the print an `Answer`, the GUI's read a `Hear`, and every other step stutters or is a `Quit`.
* `TransTableProofs!OneEntryHolds`, `LatestFoundHolds`, `VictimIsLeast`, `TypeCorrect`, for clusters of any size and any
  number of threads and positions.  `OneEntry` rests on `OneInv`: the empty entries are
  the last of the cluster (`EmptyLast`), so a thread that takes one has seen all entries of positions (`Scanned`,
  `Chosen`), and no other thread brings its position meanwhile (`Apart`).  `LatestFound` rests on `LatestInv`: while no two
  threads stored the same position at a time or met at an entry, two threads never write the same entry (`WritersApart`), a head that is written and a body that is not belong to the same store
  (`HeadWritten`), the move to be stored is the last one told (`MoveIsTold`), and every entry nobody is writing is what was stored last (`EntriesLatest`).  `Victim` rests on
  `LeastSeen`: the entry chosen so far is the least of those seen.
* `TransTableProofs!RoundTrip`: `FromMove16(ToMove16(m)) = m` for every move.
* `RootSearchProofs!RootTyped`, `HeadOfListIsBest`, `HeadIsKept`: `TypeOK`, `HeadIsBest` and `HeadKept`, for any moves, scores and numbers of lines.
  That sorting the first moves loses none (`SortedPrefix`) needs that they can be sorted at all (`CanBeSorted`: a
  smallest set that could not would be a smaller one with a move inserted).  `ListInv` says what the list holds at each label: the head of the
  moves searched so far has the value of the search (`Leading`), and `OthersLow`: no other move keeps a score with which a search of
  the root would be cut off.  The latter is what makes stale scores behind a cutoff harmless, since a cutoff then lifts its move above
  all of them; a root that is itself a mate is the exception that the property names (`Unscored`: until a search has searched
  a move, none has a score and no value of a past iteration is there to compare with); it survives a new window because that reaches above the value of the last iteration, which no score exceeds, and a kept
  window because it is never narrowed.
* `RootSearchProofs!WindowIsProper`, `HistoryIsWritten`, `StopEndsPondering`, `ResearchIsWider`: `WindowOK`,
  `HistoryWritten`, `StopNotPondering` and `WindowWidens`, for any scores, deltas, thresholds and depths.  None is inductive
  alone: a window is kept over iterations that were won or lost, so `IInv` holds at every label that the window is proper, that a half width of 0 goes
  with the full window only, and that the history is written below the present depth; the lemmas
  `FirstWindow`, `Retreated` and those about the delta do the arithmetic.
* `UsiMultiProofs!StoppedOnceHolds`, `EndIsQuietHolds`, `ClusterTyped`: `StoppedOnce`, `EndIsQuiet` and `TypeOK` of the
  search on the cluster, for any number of processes, objects, moves and plies, in the behaviours named below.  The inductive invariant
  `ClusterInvariant` counts debts: `Load(q)`, the processes that answer to a queue, the running objects that report to it and the
  `:stopped` in it, is what the reader of the queue has still to count (`Stage`: `stops + Load = count` while it collects, one
  for a forced move, a mate or the book) and is 1 for the client until he has heard it.  That each debt is paid to its own queue needs the
  shape of the tree (`Sinks`: who reports to whom, by ply; `Squads`, `Apart`, `OwnJobs`: the stubs running objects may
  still use are disjoint, and a stub answers only to the object that may use it, or to a queue
  outside).  That a split keeps the teams disjoint rests on the shares:
  `DistFits` (`UsiArray.dist` gives out every stub but the first, once; the floors leave less than one
  for each move) and `DealtInTurn` (the rounds of `split_search` reach the end of the array and take no stub twice).  `NobodyLeft`: an object
  whose queue the client does not read always reports to one of lower ply, so when the client is owed nothing no object is left.
* `UsiMultiValueProofs!NoRaiseHolds`, `EndIsWholeHolds`, `FinalStandsHolds`: `NoRaise`, `EndIsWhole` and `FinalStands`, again
  for any number of processes, objects, moves, plies and values, and in the behaviours named below.  `WholeInvariant` adds to `ClusterInvariant` what the queues say.
  A searcher that may still report to a queue is one of its `Voices`: the place it searches and the largest
  value it may still report (`Ceiling`: an object's own best bounds what it will say to the one above).  `Seated`: a place has one voice,
  and what is heard from it falls; `Falls`: neither a message nor a voice is above the bound already noted for its place.  `Served`: until the collector is stopped,
  every place has a searcher that will end with an exact report (`Sure`), or such a report in the queue, or a bound not above the value
  found.  So a bound is never raised, a final value stands whatever those who were stopped for it still
  say (`Stands`), the last `:stopped` finds a bound for every place, and of a forced move and of the client the one searcher has an exact
  report last (`Single`).  Those who are stopped are excused, and they are only the ones below the object that found its value final
  (`KidsOwn`: whom an object stops reports to it).  A split keeps all this because it
  deals the places out once (`KidsSeats`, `SplitSends`); the book needs `Places`: what a queue is told is about the position of its reader.
* `PonderPlayerProofs!PlayerTyped`, `AnswerFitsHolds`, `PlayerNoRaise`: `PlayerTypeOK`, `AnswerFits` and `NoRaise` of the player, for any
  number of processes, objects, moves, plies and turns, in the games named below.  `PlayerInv` keeps `Whole`, the part of `WholeInvariant` that is not about one client,
  and says what the player's two threads may count on.  `Debts`: the `local_queue` of the pondering thread (`Client`) is owed one end while that
  thread waits for a guess or a search, the queue `@finish_queue` one while an answer is due, and neither anything else; so a
  search begins when nobody works (`AtRest`), which is why no stub is asked to search while it searches.  `Threads`: where one thread may be when the
  other is somewhere (who holds `@mutex`, that `@ponder_finished` is set exactly when the thread has ended, that a move is known when the main
  thread waits).  `Guesses`: the search is about the position after the guess, and was stopped only for another move of the opponent;
  `KeptAnswers`: what is kept for a move is about the position after it and exact if the opponent may still make or made that
  move; what was found for a guess that was stopped is kept too, and is harmless because it is for a move he did not make.  `Due`: the
  answer on its way to `@finish_queue` is about the move he made.  A step of the tree keeps all of that because it `Carries` the
  queues of the player: what they are owed, what their messages are about, and the exact result while nobody stops.

  Of which behaviours these theorems speak: they are `Spec /\ StopsOutside => ...` and `PlayerSpec /\ StopsOutside => ...`, for
  every value of the constants, `StopBetween` too.  `StopsOutside` says of a behaviour that in none of its steps a stop reaches an object that has started
  its searchers and has not counted them, between `usiMulti.rb:180` and `:183`.  The code does not rule such a stop out: the
  client's, or the opponent's move, can fall there, and with four processes or more the stop that an object gives its searchers when its value is
  final.  So these nine theorems are about what the code does up to the first such stop, and no more.  Behind one, `StoppedOnce`
  and `EndIsQuiet` are lost (the object says `:stopped` at once, and its processes work on), and with them `NoRaise`, which is violation 3, and
  `AnswerFits`, since an answer of the old search may be read as one of the next; nothing in that step bears on the types and on `FinalStands`, which the same invariant proves and which are
  therefore stated with the same exception.

The proofs use the named ASSUMEs of the modules only (finite or non-empty sets of
threads and moves, values strictly inside the infinite window and a mated score above its lower end, at least one
thread and split point, more than one thread per split); every run evaluates them.  What stays with TLC: liveness and ENABLED, which are out of
the prover's reach, so no lost wake-up, `SearchReturns`, `ExitCompletes`, `Ends`, `Replies` and their like; and whatever a recursion over data computes.

## What is not modelled, and the plan

What a continuation would take up, in this order (each is named in `PROJECT.json`):

1. `QSearch`: stand pat, captures, the store after an abort; steps 3 to 9 of a node, and the entry it keeps a
   pointer to while its children search.
2. `MovePicker` and `History`: every move once, in phases, also through a split
   point's shared picker; history counters at their limit.
3. `Repetition`: `is_draw()` against counting the positions of the game.
4. `Options` and when options take effect; the df-pn solver (`osl/std/osl/checkmate/dfpn.cc`).
5. Composition of the dialogue with the pool (threads left awake or asleep between searches).

Left out of modules that model the code around them: in `UciEngine` the failure of `isready` (`uci.cpp:97-104`: when the evaluation's
files are missing, `execute_uci_command()` returns false and the program ends; `Ignore` takes the set-up to succeed, which a GUI that waits for
`readyok` knows before it makes a request); in `PonderPlayer` the question about the clock that the main loop asks the first stub before the first
search and before each `ponder()` (`second_for_this_move`, `timeControl.rb`; `searchtime`, `usiWrapper.rb:269`).  It replaces `@finish_queue` of that stub
and is answered before the main loop goes on, and asked when nobody works (`AtRest`), so it meets no other answer except
behind the stop of violation 3.

Left out for good: the evaluation (trained weights, no control), the generators and the board of OSL
(`osl/core`), its df-pn solver and records (`osl/std`), the older search and programs
(`osl/full`, most of `gpsshogi/`), which gpsfish's control does not use; the chess files of Stockfish that the Makefile does not
compile; the benchmark and packaging.
