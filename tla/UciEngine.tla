----------------------------- MODULE UciEngine ------------------------------
(***************************************************************************)
(* The dialogue between the engine and the program it plays for, the GUI:  *)
(* the loop of main() over execute_uci_command() and go() (uci.cpp), and   *)
(* think(), the iterations of id_loop(), poll(),                           *)
(* wait_for_stop_or_ponderhit() and do_checkmate() (search.cpp).           *)
(*                                                                         *)
(* Commands arrive in a pipe that is read at three places: by the loop     *)
(* of main() between searches, one line at a time by poll() in the middle  *)
(* of a search, and by wait_for_stop_or_ponderhit() after one.  A line is  *)
(* read by whoever comes first, and means something else to each.          *)
(*                                                                         *)
(* The search of one iteration is its end, with a mate score or without,   *)
(* and the poll()s and fail lows it takes.  Time is the set of limits it   *)
(* has passed.  The limits of a search and the flags survive it, as the    *)
(* global variables of search.cpp do.                                      *)
(***************************************************************************)
EXTENDS Naturals, Sequences

CONSTANTS
  Requests,     \* the limits of the "go" commands the GUI sends
  MateRequests, \* whether the GUI sends "go mate" (BOOLEAN)
  OwnBook,      \* the option "OwnBook" (BOOLEAN)
  UsingTcp,     \* using_tcp_connection: the engine does not declare a win
  PlyMax,       \* PLY_MAX (100 in the code): the greatest depth
  EarlyDepth,   \* 5: the first depth with an aspiration window, with extra
                \* time for unstable moves, and with a stop at mate scores
  EasyDepth,    \* 7: the first depth at which an easy move stops the search
  MaxInbox      \* bound: lines in the pipe

Limits0 == [ponder |-> FALSE, infinite |-> FALSE, capped |-> FALSE, maxDepth |-> 0]

ASSUME PlyMaxAssumption == PlyMax \in Nat \ {0}
ASSUME DepthAssumption == EarlyDepth \in Nat \ {0} /\ EasyDepth \in Nat
ASSUME RequestsAssumption ==
  Requests \subseteq [ponder : BOOLEAN, infinite : BOOLEAN,
                      capped : BOOLEAN,       \* maxTime or maxNodes is given
                      maxDepth : 0..PlyMax]
ASSUME SwitchAssumption == {MateRequests, OwnBook, UsingTcp} \subseteq BOOLEAN
ASSUME MaxInboxAssumption == MaxInbox \in Nat \ {0}

VARIABLES
  \* the pipe to the engine, its end, and the answers on their way to the GUI
  inbox, closed, out,
  \* the GUI: its last request, whether it waits for an answer, and the
  \* commands sent about that request
  request, waiting, sent,
  \* the engine: where it is, the globals of search.cpp, and of id_loop()
  \* its depth, the depths whose best value is a mate score, and whether
  \* alpha has become greater than -VALUE_INFINITE
  pc, Limits, StopRequest, QuitRequest, StopOnPonderhit, AspirationFailLow,
  depth, mates, narrow,
  \* the limits the clock (or the count of nodes) has passed
  spent,
  \* history: the engine has read that the request need wait no longer
  told

pipes == <<inbox, closed, out>>
gui   == <<request, waiting, sent>>
flags == <<StopRequest, QuitRequest, StopOnPonderhit, AspirationFailLow>>
loop  == <<depth, mates, narrow>>
vars  == <<pipes, gui, pc, Limits, flags, loop, spent, told>>

Over == {"stop", "ponderhit", "quit", "eof"}
Commands == {"go", "mate", "stop", "ponderhit", "quit", "other"}

(* What can be passed: 62% of the available time, the available time, the  *)
(* maximum time, the time or nodes of the request, the time of "go mate".  *)
Marks == {"most", "available", "maximum", "cap", "mate"}

PC == {"read", "search", "done", "wait", "print", "mate", "exited"}

TypeOK ==
  /\ inbox \in Seq(Commands) /\ Len(inbox) <= MaxInbox
  /\ closed \in BOOLEAN
  /\ out \in 0..1
  /\ request \in Requests \cup {Limits0}
  /\ waiting \in BOOLEAN
  /\ sent \in SUBSET {"stop", "ponderhit", "quit"}
  /\ pc \in PC
  /\ Limits \in [ponder : BOOLEAN, infinite : BOOLEAN, capped : BOOLEAN,
                 maxDepth : 0..PlyMax]
  /\ StopRequest \in BOOLEAN /\ QuitRequest \in BOOLEAN
  /\ StopOnPonderhit \in BOOLEAN /\ AspirationFailLow \in BOOLEAN
  /\ depth \in 0..PlyMax
  /\ mates \in SUBSET (1..PlyMax)
  /\ narrow \in BOOLEAN
  /\ spent \in SUBSET Marks
  /\ told \in BOOLEAN

-----------------------------------------------------------------------------
(* SearchLimits::useTimeManagement(). *)
UseTimeManagement(l) == ~(l.capped \/ l.maxDepth # 0 \/ l.infinite)

(* The conditions at the end of poll(), by which the search is out of      *)
(* time; first tells whether it is at its first root move.                 *)
MutOutOfTime(l, first) ==
  ~l.ponder /\ UseTimeManagement(l) /\ "maximum" \in spent

OutOfTime(l, first) ==
  /\ ~l.ponder
  /\ \/ /\ UseTimeManagement(l)
        /\ \/ "maximum" \in spent
           \/ first /\ ~AspirationFailLow /\ "available" \in spent
     \/ l.capped /\ "cap" \in spent

(* The line a read returns: a read at the end of the pipe fails. *)
LineReady == inbox # <<>> \/ closed
NextLine == IF inbox # <<>> THEN Head(inbox) ELSE "eof"
TakeLine == inbox' = IF inbox # <<>> THEN Tail(inbox) ELSE inbox

Init ==
  /\ inbox = <<>> /\ closed = FALSE /\ out = 0
  /\ request = Limits0 /\ waiting = FALSE /\ sent = {}
  /\ pc = "read"
  /\ Limits = Limits0
  /\ StopRequest = FALSE /\ QuitRequest = FALSE
  /\ StopOnPonderhit = FALSE /\ AspirationFailLow = FALSE
  /\ depth = 0 /\ mates = {} /\ narrow = FALSE
  \* searchStartTime is 0, and the milliseconds of gettimeofday() as an int
  \* are as often negative as they exceed every limit
  /\ spent \in {{}, Marks}
  /\ told = FALSE

-----------------------------------------------------------------------------
(* The GUI.  It sends a request only when it waits for no answer, and      *)
(* "stop" or "ponderhit" at any time until it has the answer: they may     *)
(* cross it.                                                               *)
MaySend == ~closed /\ "quit" \notin sent /\ Len(inbox) < MaxInbox
Send(c) == inbox' = Append(inbox, c)
Engine == <<pc, Limits, flags, loop, told>>

SendGo(l) ==
  /\ MaySend /\ ~waiting
  /\ Send("go")
  /\ request' = l /\ waiting' = TRUE /\ sent' = {}
  /\ UNCHANGED <<closed, out, Engine, spent>>

SendMate ==
  /\ MateRequests
  /\ MaySend /\ ~waiting
  /\ Send("mate")
  /\ request' = Limits0 /\ waiting' = TRUE /\ sent' = {}
  /\ UNCHANGED <<closed, out, Engine, spent>>

SendAbout(c) ==
  /\ MaySend
  /\ c \in {"stop", "ponderhit"} => waiting /\ "stop" \notin sent
  /\ c = "ponderhit" => request.ponder /\ c \notin sent
  /\ Send(c)
  /\ sent' = IF c = "other" THEN sent ELSE sent \cup {c}
  /\ UNCHANGED <<closed, out, request, waiting, Engine, spent>>

(* The GUI closes the pipe, or dies. *)
Close ==
  /\ ~closed
  /\ closed' = TRUE
  /\ UNCHANGED <<inbox, out, gui, Engine, spent>>

Receive ==
  /\ out > 0
  /\ out' = out - 1
  /\ waiting' = FALSE
  /\ UNCHANGED <<inbox, closed, request, sent, Engine, spent>>

Gui == \/ \E l \in Requests : SendGo(l)
       \/ SendMate
       \/ \E c \in {"stop", "ponderhit", "quit", "other"} : SendAbout(c)
       \/ Close

(* Time passes, and nodes are counted, as far as the engine looks at them. *)
Looks(mark) ==
  CASE mark \in {"most", "available"} ->
         pc \in {"search", "mate"} /\ UseTimeManagement(Limits)
    [] mark = "maximum" -> pc \in {"search", "mate"}
    [] mark = "cap" -> pc \in {"search", "mate"} /\ Limits.capped
    [] mark = "mate" -> pc = "mate"

Tick(mark) ==
  /\ Looks(mark)
  /\ mark \notin spent
  /\ mark = "available" => "most" \in spent
  /\ spent' = spent \cup {mark}
  /\ UNCHANGED <<pipes, gui, Engine>>

-----------------------------------------------------------------------------
(* The loop of main(): quit and the end of the pipe end it; go runs a      *)
(* search; every other command leaves the state of the search alone.       *)
Leave ==
  /\ pc = "read" /\ LineReady
  /\ NextLine \in {"quit", "eof"}
  /\ TakeLine
  /\ pc' = "exited"
  /\ UNCHANGED <<closed, out, gui, Limits, flags, loop, spent, told>>

Ignore ==
  /\ pc = "read" /\ LineReady
  /\ NextLine \in {"stop", "ponderhit", "other"}
  /\ TakeLine
  /\ UNCHANGED <<closed, out, gui, Engine, spent>>

Say == out' = out + 1
MutAfterThink == pc' = "read"
AfterThink == pc' = IF QuitRequest THEN "exited" ELSE "read"

(* go(): a position won by declaration is answered without a search. *)
DeclareWin ==
  /\ pc = "read" /\ LineReady /\ NextLine = "go"
  /\ ~UsingTcp
  /\ TakeLine
  /\ told' = FALSE
  /\ Say
  /\ UNCHANGED <<closed, gui, pc, Limits, flags, loop, spent>>

(* think() resets the globals and the clock. *)
MutResetFlags ==
  /\ QuitRequest' = FALSE
  /\ StopOnPonderhit' = FALSE /\ AspirationFailLow' = FALSE
  /\ UNCHANGED StopRequest

ResetFlags ==
  /\ StopRequest' = FALSE /\ QuitRequest' = FALSE
  /\ StopOnPonderhit' = FALSE /\ AspirationFailLow' = FALSE

BeginThink ==
  /\ pc = "read" /\ LineReady /\ NextLine = "go"
  /\ TakeLine
  /\ told' = FALSE
  /\ ResetFlags
  /\ Limits' = request
  /\ spent' = {}
  /\ UNCHANGED <<closed, out, gui>>

(* A move of the book is printed at once, unless the engine ponders. *)
PlayBook ==
  /\ OwnBook
  /\ BeginThink
  /\ pc' = IF request.ponder THEN "wait" ELSE "print"
  /\ UNCHANGED loop

(* id_loop() starts with depth 1, or returns when there is no legal move. *)
Think ==
  /\ BeginThink
  /\ mates' = {} /\ narrow' = FALSE
  /\ \/ pc' = "search" /\ depth' = 1
     \/ pc' = "done" /\ depth' = 0

-----------------------------------------------------------------------------
(* poll() reads at most one line, and looks at the clock. *)
PollBody(first) ==
  LET line == IF LineReady THEN NextLine ELSE "none"
      heard == line \in Over
  IN /\ TakeLine
     /\ Limits' = [Limits EXCEPT !.ponder = @ /\ ~heard]
     /\ QuitRequest' = (QuitRequest \/ line \in {"quit", "eof"})
     /\ StopRequest' = \/ StopRequest
                       \/ line \in {"stop", "quit", "eof"}
                       \/ line = "ponderhit" /\ StopOnPonderhit
                       \/ OutOfTime(Limits', first)
     /\ told' = (told \/ heard)

(* Any thread 0 node of an iteration may poll, until the search has        *)
(* unwound even after it was stopped.                                      *)
Poll ==
  /\ pc = "search"
  /\ \E first \in BOOLEAN : PollBody(first)
  /\ UNCHANGED <<closed, out, gui, pc, StopOnPonderhit, AspirationFailLow,
                 loop, spent>>

(* The search of an iteration fails low and is repeated.  The window stays *)
(* when the loop retreats to a depth at which it would not set one.        *)
FailLow ==
  /\ pc = "search" /\ narrow /\ ~StopRequest
  /\ AspirationFailLow' = TRUE
  /\ StopOnPonderhit' = FALSE
  /\ UNCHANGED <<pipes, gui, pc, Limits, StopRequest, QuitRequest, loop, spent,
                 told>>

-----------------------------------------------------------------------------
(* The end of an iteration.  A search that was stopped ends the loop.      *)
StopIteration ==
  /\ pc = "search" /\ StopRequest
  /\ pc' = "done"
  /\ UNCHANGED <<pipes, gui, Limits, flags, loop, spent, told>>

(* Two mate scores in a row stop it too, but not while pondering. *)
MateStops(mate) ==
  ~Limits.ponder /\ mate /\ depth >= EarlyDepth /\ depth - 1 \in mates

MateIteration ==
  /\ pc = "search" /\ ~StopRequest
  /\ MateStops(TRUE)
  /\ StopRequest' = TRUE
  /\ pc' = "done"
  /\ UNCHANGED <<pipes, gui, Limits, QuitRequest, StopOnPonderhit,
                 AspirationFailLow, loop, spent, told>>

(* TimeMgr.pv_instability() gives the search more or less time to spend. *)
AdjustTime ==
  IF depth >= EarlyDepth
  THEN \E marks \in {{}, {"most"}, {"most", "available"}} :
         spent' = (spent \ {"most", "available"}) \cup marks
  ELSE UNCHANGED spent

(* With time management an easy move, or most of the time being spent,     *)
(* stops the search, or, while pondering, will do so on "ponderhit".       *)
ManageTime ==
  /\ AdjustTime
  /\ \E easy \in BOOLEAN :
       LET stop == easy \/ "most" \in spent'
       IN /\ easy => depth >= EasyDepth
          /\ StopRequest' = (stop /\ ~Limits.ponder)
          /\ StopOnPonderhit' = (StopOnPonderhit \/ (stop /\ Limits.ponder))

(* The checkmate solver, run when there is time left, may show that the    *)
(* best move loses: the loop then retreats by up to four plies.            *)
SolverMayRun == "maximum" \notin spent' \/ (Limits.capped /\ "cap" \notin spent')
NextDepths ==
  LET n == depth + 1
      retreat == IF n \div 2 < 4 THEN n \div 2 ELSE 4
  IN {n} \cup (IF SolverMayRun THEN {n - retreat} ELSE {})

MutLoopEnds ==
  StopRequest' \/ (Limits.maxDepth # 0 /\ depth + 1 > Limits.maxDepth)

LoopEnds ==
  \/ StopRequest'
  \/ depth + 1 > PlyMax
  \/ (Limits.maxDepth # 0 /\ depth + 1 > Limits.maxDepth)

NextIteration ==
  /\ pc = "search" /\ ~StopRequest
  /\ \E mate \in BOOLEAN :
       /\ ~MateStops(mate)
       /\ mates' = IF mate THEN mates \cup {depth} ELSE mates \ {depth}
       /\ narrow' = (narrow \/ (~mate /\ depth + 1 >= EarlyDepth))
  /\ IF UseTimeManagement(Limits)
     THEN ManageTime
     ELSE UNCHANGED <<StopRequest, StopOnPonderhit, spent>>
  /\ IF LoopEnds THEN pc' = "done" /\ UNCHANGED depth
     ELSE depth' \in NextDepths /\ UNCHANGED pc
  /\ UNCHANGED <<pipes, gui, Limits, QuitRequest, AspirationFailLow, told>>

(* The end of think(): whether the move may be printed. *)
MutMustWait == ~StopRequest /\ Limits.infinite
MustWait == ~StopRequest /\ (Limits.ponder \/ Limits.infinite)

Finish ==
  /\ pc = "done"
  /\ pc' = IF MustWait THEN "wait" ELSE "print"
  /\ UNCHANGED <<pipes, gui, Limits, flags, loop, spent, told>>

(* wait_for_stop_or_ponderhit() reads lines until one that ends the wait. *)
MutEndsWaitStop == Over \ {"stop"}
EndsWait == Over

Wait ==
  /\ pc = "wait" /\ LineReady
  /\ TakeLine
  /\ IF NextLine \in EndsWait
     THEN /\ pc' = "print" /\ told' = TRUE
          /\ QuitRequest' = (QuitRequest \/ NextLine \in {"quit", "eof"})
     ELSE UNCHANGED <<pc, told, QuitRequest>>
  /\ UNCHANGED <<closed, out, gui, Limits, StopRequest, StopOnPonderhit,
                 AspirationFailLow, loop, spent>>

(* The locals of id_loop(), kept until here for the properties, are gone.  *)
Unwind == depth' = 0 /\ mates' = {} /\ narrow' = FALSE

Tell ==
  /\ pc = "print"
  /\ Say
  /\ AfterThink
  /\ Unwind
  /\ UNCHANGED <<inbox, closed, gui, Limits, flags, spent, told>>

-----------------------------------------------------------------------------
(* do_checkmate() resets one flag only: the limits, the clock and the      *)
(* StopRequest of the last search stay.  It runs the solver, each time     *)
(* with another limit, and polls in between.                               *)
BeginMate ==
  /\ pc = "read" /\ LineReady /\ NextLine = "mate"
  /\ TakeLine
  /\ QuitRequest' = FALSE
  /\ spent' = spent \ {"mate"}
  /\ told' = FALSE
  /\ pc' = "mate"
  /\ UNCHANGED <<closed, out, gui, Limits, StopRequest, StopOnPonderhit,
                 AspirationFailLow, loop>>

MateEnds(final) == final \/ QuitRequest' \/ StopRequest' \/ "mate" \in spent

RunSolver ==
  /\ pc = "mate"
  /\ \E first, final \in BOOLEAN :
       /\ PollBody(first)
       /\ IF MateEnds(final) THEN Say /\ pc' = "read" ELSE UNCHANGED <<out, pc>>
  /\ UNCHANGED <<closed, gui, StopOnPonderhit, AspirationFailLow, loop, spent>>

-----------------------------------------------------------------------------
Iterate == FailLow \/ StopIteration \/ MateIteration \/ NextIteration
Execute == Leave \/ Ignore \/ DeclareWin \/ PlayBook \/ Think \/ BeginMate

Next == \/ Gui \/ Receive
        \/ \E mark \in Marks : Tick(mark)
        \/ Execute \/ Poll \/ Iterate \/ Finish \/ Wait \/ Tell \/ RunSolver

Spec == Init /\ [][Next]_vars

(* The one thread that does all this runs, and time passes.  A search      *)
(* polls every NodesBetweenPolls nodes, and unwinds when it was stopped;   *)
(* an iteration may otherwise outlast every clock.  The GUI reads what it  *)
(* is sent; nothing makes it send.                                         *)
Fairness ==
  /\ WF_vars(Execute) /\ WF_vars(Poll) /\ WF_vars(StopIteration)
  /\ WF_vars(Finish) /\ WF_vars(Wait) /\ WF_vars(Tell) /\ WF_vars(RunSolver)
  /\ \A mark \in Marks : WF_vars(Tick(mark))
  /\ WF_vars(Receive)

FairSpec == Spec /\ Fairness

-----------------------------------------------------------------------------
InWork == pc \notin {"read", "exited"}

(* A search is stopped for a reason of its own: the GUI said so, about     *)
(* this request and not about one before it, whose answer the "stop" may   *)
(* have crossed; or its time is over, its move easy or its value a mate,   *)
(* and it does not ponder.                                                 *)
SearchMarks(l) ==
  IF UseTimeManagement(l) THEN {"most", "available", "maximum"}
  ELSE IF l.capped THEN {"cap"} ELSE {}

OwnReason ==
  \/ spent \cap SearchMarks(request) # {}
  \/ UseTimeManagement(request) /\ depth >= EasyDepth
  \/ depth >= EarlyDepth /\ depth - 1 \in mates

StopHasReason ==
  /\ (InWork /\ told) => closed \/ sent # {}
  /\ (pc \in {"search", "done", "wait", "print"} /\ StopRequest) =>
       told \/ (~request.ponder /\ OwnReason)

(* The engine keeps the dialogue it promises. *)
D == INSTANCE Dialogue WITH
  mode <- IF pc = "exited" THEN "gone"
          ELSE IF pc = "read" THEN "idle"
          ELSE IF request.ponder /\ ~told THEN "pondering" ELSE "thinking",
  answers <- out

ImplementsDialogue == D!DSpec

(* A GUI that has sent "stop" gets its answer. *)
StopAnswered == (waiting /\ "stop" \in sent) ~> ~waiting

(* So does one whose request is bounded by a clock or a count of nodes,    *)
(* once it does not ponder any more.                                       *)
Bounded == /\ UseTimeManagement(request) \/ request.capped
           /\ request.ponder => "ponderhit" \in sent
BoundedAnswered == (waiting /\ Bounded) ~> ~waiting

(* A quit that think() finds, and the end of the pipe, end the engine,     *)
(* whether poll(), the wait or the loop of main() reads it.                *)
LeavesWhenTold ==
  (\/ closed
   \/ pc \in {"search", "done", "wait", "print"} /\ "quit" \in sent) ~>
    pc = "exited"
=============================================================================
