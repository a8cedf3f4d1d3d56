-------------------------- MODULE UciEngineProofs ---------------------------
(***************************************************************************)
(* Theorems about UciEngine, for any requests, options, depths and length  *)
(* of the pipe.  The invariant follows a request on its way: it is in the  *)
(* pipe, in the engine's hand, or answered, and in one place at a time;    *)
(* what stands in the pipe behind it was sent about it; and the limits the *)
(* engine works under are its limits.                                      *)
(***************************************************************************)
EXTENDS UciEngine, TLAPS

Asks == {"go", "mate"}
Tells == {"stop", "ponderhit", "quit"}
Thinking == {"search", "done", "wait", "print"}

\* The lines of the pipe that are requests.
Asked == {i \in DOMAIN inbox : inbox[i] \in Asks}

\* A request is in one place, and the GUI waits for its answer.
OneRequest ==
  /\ Asked # {} => waiting /\ out = 0 /\ ~InWork
  /\ \A i, j \in Asked : i = j
  /\ InWork => waiting /\ out = 0
  /\ out = 1 => waiting

\* "go mate" asks for no pondering.
MateDoesNotPonder ==
  (pc = "mate" \/ \E i \in DOMAIN inbox : inbox[i] = "mate") => ~request.ponder

\* A line that ends a search is about the last request, or before it.
TellsAreSent ==
  \A i \in DOMAIN inbox :
    inbox[i] \in Tells =>
      inbox[i] \in sent \/ \E j \in Asked : i < j

\* think() works under the limits of the request, less the pondering that
\* is over.
LimitsOfRequest ==
  pc \in Thinking =>
    /\ Limits.infinite = request.infinite
    /\ Limits.capped = request.capped
    /\ Limits.maxDepth = request.maxDepth
    /\ Limits.ponder => request.ponder
    /\ pc # "print" => (Limits.ponder <=> request.ponder /\ ~told)

\* A search has a depth, and a move to print may be printed.
Iterating == pc = "search" => depth >= 1
PrintMayAnswer == pc = "print" => (told \/ ~request.ponder)

IInv ==
  /\ TypeOK /\ OneRequest /\ MateDoesNotPonder /\ TellsAreSent
  /\ LimitsOfRequest /\ Iterating /\ PrintMayAnswer /\ StopHasReason

-----------------------------------------------------------------------------
(* The pipe. *)
LEMMA Basics ==
  /\ PlyMax \in Nat \ {0} /\ EarlyDepth \in Nat \ {0} /\ EasyDepth \in Nat
  /\ MaxInbox \in Nat \ {0}
  /\ \A l \in Requests \cup {Limits0} :
       l \in [ponder : BOOLEAN, infinite : BOOLEAN, capped : BOOLEAN,
              maxDepth : 0..PlyMax]
<1>1. /\ PlyMax \in Nat \ {0} /\ EarlyDepth \in Nat \ {0} /\ EasyDepth \in Nat
      /\ MaxInbox \in Nat \ {0}
  BY PlyMaxAssumption, DepthAssumption, MaxInboxAssumption
<1>2. Limits0 \in [ponder : BOOLEAN, infinite : BOOLEAN, capped : BOOLEAN,
                  maxDepth : 0..PlyMax]
  BY <1>1 DEF Limits0
<1>3. Requests \subseteq [ponder : BOOLEAN, infinite : BOOLEAN, capped : BOOLEAN,
                         maxDepth : 0..PlyMax]
  BY RequestsAssumption
<1> QED
  BY <1>1, <1>2, <1>3

LEMMA PipeTyped ==
  ASSUME TypeOK
  PROVE  /\ Len(inbox) \in Nat /\ DOMAIN inbox = 1..Len(inbox)
         /\ \A i \in DOMAIN inbox : inbox[i] \in Commands
         /\ Asked \subseteq DOMAIN inbox
BY DEF TypeOK, Asked

\* What is left in the pipe when a line has been read.
LEMMA Taken ==
  ASSUME TypeOK, TakeLine
  PROVE  /\ inbox' \in Seq(Commands) /\ Len(inbox') <= MaxInbox
         /\ \A i \in DOMAIN inbox' :
              i \in Nat /\ i + 1 \in DOMAIN inbox /\ inbox'[i] = inbox[i + 1]
         /\ \A i \in DOMAIN inbox :
              i # 1 => i - 1 \in DOMAIN inbox' /\ inbox'[i - 1] = inbox[i]
         /\ inbox # <<>> => 1 \in DOMAIN inbox /\ NextLine = inbox[1]
         /\ inbox = <<>> => DOMAIN inbox = {} /\ NextLine = "eof"
<1>1. CASE inbox = <<>>
  BY <1>1, Basics DEF TypeOK, TakeLine, NextLine
<1>2. CASE inbox # <<>>
  <2>1. /\ inbox' = Tail(inbox) /\ inbox \in Seq(Commands) /\ Len(inbox) >= 1
        /\ Len(inbox) \in Nat /\ DOMAIN inbox = 1..Len(inbox)
    BY <1>2 DEF TypeOK, TakeLine
  <2>2. /\ inbox' \in Seq(Commands) /\ Len(inbox') = Len(inbox) - 1
        /\ DOMAIN inbox' = 1..(Len(inbox) - 1)
        /\ \A i \in 1..(Len(inbox) - 1) : inbox'[i] = inbox[i + 1]
    BY <2>1
  <2>3. NextLine = inbox[1]
    BY <1>2, <2>1 DEF NextLine
  <2>4. Len(inbox') <= MaxInbox
    BY <2>1, <2>2, Basics DEF TypeOK
  <2> QED
    BY <1>2, <2>1, <2>2, <2>3, <2>4
<1> QED
  BY <1>1, <1>2

\* The requests among them are those there were, but for the line read.
LEMMA TakenAsked ==
  ASSUME TypeOK, TakeLine
  PROVE  /\ \A i \in Asked' : i \in Nat /\ i + 1 \in Asked
         /\ \A j \in Asked : j # 1 => j - 1 \in Asked' /\ j - 1 \in Nat
         /\ Asked = {} => Asked' = {}
<1>1. \A i \in Asked' : i \in Nat /\ i + 1 \in Asked
  BY Taken DEF Asked
<1>2. \A j \in Asked : j # 1 => j - 1 \in Asked' /\ j - 1 \in Nat
  BY Taken, PipeTyped DEF Asked
<1> QED
  BY <1>1, <1>2

\* What stands in the pipe when a line has been written.
LEMMA Written ==
  ASSUME TypeOK, NEW c \in Commands, Send(c), Len(inbox) < MaxInbox
  PROVE  /\ inbox' \in Seq(Commands) /\ Len(inbox') <= MaxInbox
         /\ DOMAIN inbox' = 1..(Len(inbox) + 1) /\ Len(inbox) \in Nat
         /\ \A i \in DOMAIN inbox : i \in DOMAIN inbox' /\ inbox'[i] = inbox[i]
         /\ inbox'[Len(inbox) + 1] = c
         /\ \A i \in DOMAIN inbox' : i \in DOMAIN inbox \/ i = Len(inbox) + 1
         /\ \A i \in DOMAIN inbox : i < Len(inbox) + 1
BY Basics DEF TypeOK, Send

LEMMA WrittenAsked ==
  ASSUME TypeOK, NEW c \in Commands, Send(c), Len(inbox) < MaxInbox
  PROVE  Asked' = Asked \cup (IF c \in Asks THEN {Len(inbox) + 1} ELSE {})
BY Written DEF Asked

-----------------------------------------------------------------------------
(* Types. *)
LEMMA PollTyped ==
  ASSUME TypeOK, NEW first \in BOOLEAN, PollBody(first)
  PROVE  /\ inbox' \in Seq(Commands) /\ Len(inbox') <= MaxInbox
         /\ Limits' \in [ponder : BOOLEAN, infinite : BOOLEAN, capped : BOOLEAN,
                         maxDepth : 0..PlyMax]
         /\ StopRequest' \in BOOLEAN /\ QuitRequest' \in BOOLEAN
         /\ told' \in BOOLEAN
BY Taken DEF TypeOK, PollBody

\* The next iteration stays among the depths.
LEMMA DepthsTyped ==
  ASSUME TypeOK, Iterating, pc = "search", ~LoopEnds, NEW n \in NextDepths
  PROVE  n \in 1..PlyMax
<1>1. depth \in Nat /\ depth >= 1 /\ depth + 1 <= PlyMax /\ PlyMax \in Nat
  BY Basics DEF TypeOK, Iterating, LoopEnds
<1>2. PICK m \in Nat : m = depth + 1
  BY <1>1
<1>3. m >= 2 /\ m <= PlyMax
  BY <1>1, <1>2
<1>4. n = m \/ n = m - (IF m \div 2 < 4 THEN m \div 2 ELSE 4)
  BY <1>2 DEF NextDepths
<1>5. (m \div 2) \in Nat /\ m \div 2 < m /\ (m \div 2 >= 4 => m >= 8)
  BY <1>3
<1> QED
  BY <1>1, <1>3, <1>4, <1>5

LEMMA TypeStep ==
  ASSUME IInv, [Next]_vars
  PROVE  TypeOK'
<1> USE DEF IInv, flags, loop, gui, pipes, Engine
<1>1. CASE UNCHANGED vars
  BY <1>1 DEF TypeOK, vars
<1>2. ASSUME NEW l \in Requests, SendGo(l) PROVE TypeOK'
  <2>1. inbox' \in Seq(Commands) /\ Len(inbox') <= MaxInbox
    BY <1>2, Written DEF SendGo, MaySend, Commands
  <2> QED
    BY <1>2, <2>1 DEF SendGo, TypeOK
<1>3. CASE SendMate
  <2>1. inbox' \in Seq(Commands) /\ Len(inbox') <= MaxInbox
    BY <1>3, Written DEF SendMate, MaySend, Commands
  <2> QED
    BY <1>3, <2>1 DEF SendMate, TypeOK
<1>4. ASSUME NEW c \in {"stop", "ponderhit", "quit", "other"}, SendAbout(c)
      PROVE  TypeOK'
  <2>1. inbox' \in Seq(Commands) /\ Len(inbox') <= MaxInbox
    BY <1>4, Written DEF SendAbout, MaySend, Commands
  <2>2. sent' \in SUBSET {"stop", "ponderhit", "quit"}
    BY <1>4 DEF SendAbout, TypeOK
  <2> QED
    BY <1>4, <2>1, <2>2 DEF SendAbout, TypeOK
<1>5. CASE Close
  BY <1>5 DEF Close, TypeOK
<1>6. CASE Receive
  <2>1. out' \in 0..1
    BY <1>6 DEF Receive, TypeOK
  <2> QED
    BY ZenonT(60), <1>6, <2>1 DEF Receive, TypeOK
<1>7. ASSUME NEW mark \in Marks, Tick(mark) PROVE TypeOK'
  BY <1>7 DEF Tick, TypeOK
<1>8. CASE Leave \/ Ignore
  BY ZenonT(60), <1>8, Taken DEF Leave, Ignore, TypeOK, PC
<1>9. CASE DeclareWin
  <2>1. out = 0
    BY <1>9, Taken DEF DeclareWin, OneRequest, Asked, Asks, NextLine, LineReady, TypeOK
  <2>2. out' \in 0..1
    BY <1>9, <2>1 DEF DeclareWin, Say
  <2>3. inbox' \in Seq(Commands) /\ Len(inbox') <= MaxInbox
    BY <1>9, Taken DEF DeclareWin
  <2> QED
    BY ZenonT(60), <1>9, <2>2, <2>3 DEF DeclareWin, TypeOK
<1>10. CASE PlayBook
  BY <1>10, Taken, Basics DEF PlayBook, BeginThink, ResetFlags, TypeOK, PC
<1>11. CASE Think
  <2>1. mates' \in SUBSET (1..PlyMax) /\ depth' \in 0..PlyMax /\ pc' \in PC
    BY <1>11, Basics DEF Think, PC
  <2>2. Limits' \in [ponder : BOOLEAN, infinite : BOOLEAN, capped : BOOLEAN,
                    maxDepth : 0..PlyMax]
    BY <1>11, Basics DEF Think, BeginThink, TypeOK
  <2> QED
    BY <1>11, <2>1, <2>2, Taken DEF Think, BeginThink, ResetFlags, TypeOK
<1>12. CASE BeginMate
  BY ZenonT(60), <1>12, Taken DEF BeginMate, TypeOK, PC
<1>13. CASE Poll
  BY <1>13, PollTyped DEF Poll, TypeOK
<1>14. CASE FailLow \/ StopIteration \/ MateIteration \/ Finish
  BY ZenonT(60), <1>14 DEF FailLow, StopIteration, MateIteration, Finish, TypeOK, PC
<1>15. CASE NextIteration
  <2>1. depth \in 1..PlyMax
    BY <1>15, Basics DEF NextIteration, Iterating, TypeOK
  <2>2. mates' \in SUBSET (1..PlyMax) /\ narrow' \in BOOLEAN
    BY <1>15, <2>1 DEF NextIteration, TypeOK
  <2>3. spent' \in SUBSET Marks
    BY <1>15 DEF NextIteration, ManageTime, AdjustTime, Marks, TypeOK
  <2>4. StopRequest' \in BOOLEAN /\ StopOnPonderhit' \in BOOLEAN
    BY <1>15 DEF NextIteration, ManageTime, TypeOK
  <2>5. depth' \in 0..PlyMax /\ pc' \in PC
    <3>1. CASE LoopEnds
      BY <1>15, <3>1 DEF NextIteration, TypeOK, PC
    <3>2. CASE ~LoopEnds
      BY <1>15, <3>2, DepthsTyped DEF NextIteration, TypeOK
    <3> QED
      BY <3>1, <3>2
  <2> QED
    BY <1>15, <2>2, <2>3, <2>4, <2>5 DEF NextIteration, TypeOK
<1>16. CASE Wait
  <2>1. pc' \in PC /\ told' \in BOOLEAN /\ QuitRequest' \in BOOLEAN
    BY <1>16 DEF Wait, TypeOK, PC
  <2> QED
    BY <1>16, <2>1, Taken DEF Wait, TypeOK
<1>17. CASE Tell
  <2>1. out = 0
    BY <1>17 DEF Tell, OneRequest, InWork
  <2> QED
    <3>1. out' \in 0..1 /\ pc' \in PC
      BY <1>17, <2>1 DEF Tell, Say, AfterThink, PC
    <3>2. depth' \in 0..PlyMax /\ mates' \in SUBSET (1..PlyMax)
      BY <1>17, Basics DEF Tell, Unwind
    <3> QED
      BY ZenonT(60), <1>17, <3>1, <3>2 DEF Tell, Unwind, TypeOK
<1>18. CASE RunSolver
  <2>1. out = 0
    BY <1>18 DEF RunSolver, OneRequest, InWork
  <2> QED
    BY <1>18, <2>1, PollTyped DEF RunSolver, Say, TypeOK, PC
<1> QED
  BY <1>1, <1>2, <1>3, <1>4, <1>5, <1>6, <1>7, <1>8, <1>9, <1>10, <1>11, <1>12,
     <1>13, <1>14, <1>15, <1>16, <1>17, <1>18
     DEF Next, Gui, Execute, Iterate

-----------------------------------------------------------------------------
(* A request is in one place. *)

\* A line is read in the middle of a request's work: none waits behind it.
LEMMA TakenInWork ==
  ASSUME IInv, TakeLine, InWork
  PROVE  /\ Asked = {} /\ Asked' = {}
         /\ \A i \in DOMAIN inbox : inbox[i] \in Tells => inbox[i] \in sent
         /\ \A i \in DOMAIN inbox' : inbox'[i] \in Tells => inbox'[i] \in sent
         /\ \A i \in DOMAIN inbox' : inbox'[i] # "mate"
<1>1. Asked = {} /\ Asked' = {}
  BY TakenAsked DEF IInv, OneRequest
<1>2. \A i \in DOMAIN inbox : inbox[i] \in Tells => inbox[i] \in sent
  BY <1>1 DEF IInv, TellsAreSent
<1>3. \A i \in DOMAIN inbox' : inbox'[i] \in Tells => inbox'[i] \in sent
  BY <1>2, Taken DEF IInv
<1>4. \A i \in DOMAIN inbox' : inbox'[i] # "mate"
  BY <1>1 DEF Asked, Asks
<1> QED
  BY <1>1, <1>2, <1>3, <1>4

\* The loop of main() takes up a request: it was the first line, and none
\* waits behind it.
LEMMA TakenRequest ==
  ASSUME IInv, TakeLine, LineReady, NextLine \in Asks
  PROVE  /\ inbox # <<>> /\ waiting /\ out = 0
         /\ Asked' = {}
         /\ \A i \in DOMAIN inbox' : inbox'[i] \in Tells => inbox'[i] \in sent
         /\ \A i \in DOMAIN inbox' : inbox'[i] # "mate"
         /\ NextLine = "mate" => ~request.ponder
<1>1. inbox # <<>> /\ 1 \in DOMAIN inbox /\ NextLine = inbox[1]
  BY Taken DEF IInv, Asks
<1>2. 1 \in Asked
  BY <1>1 DEF Asked
<1>3. Asked' = {}
  <2> SUFFICES ASSUME NEW i \in Asked' PROVE FALSE
    OBVIOUS
  <2>1. i \in Nat /\ i + 1 = 1
    BY <1>2, TakenAsked DEF IInv, OneRequest
  <2>2. i \in 1..Len(inbox')
    BY Taken DEF IInv, Asked
  <2> QED
    BY <2>1, <2>2
<1>4. \A i \in DOMAIN inbox' : inbox'[i] \in Tells => inbox'[i] \in sent
  <2> SUFFICES ASSUME NEW i \in DOMAIN inbox', inbox'[i] \in Tells
               PROVE  inbox'[i] \in sent
    OBVIOUS
  <2>1. i \in Nat /\ i >= 1 /\ i + 1 \in DOMAIN inbox /\ inbox[i + 1] = inbox'[i]
    BY Taken DEF IInv, TypeOK
  <2>2. \A j \in Asked : ~(i + 1 < j)
    BY <1>2, <2>1 DEF IInv, OneRequest
  <2> QED
    BY <2>1, <2>2 DEF IInv, TellsAreSent
<1>5. \A i \in DOMAIN inbox' : inbox'[i] # "mate"
  BY <1>3 DEF Asked, Asks
<1>6. waiting /\ out = 0
  BY <1>2 DEF IInv, OneRequest
<1>7. NextLine = "mate" => ~request.ponder
  BY <1>1 DEF IInv, MateDoesNotPonder
<1> QED
  BY <1>1, <1>3, <1>4, <1>5, <1>6, <1>7

\* It takes another line: the requests behind it stay.
LEMMA TakenOther ==
  ASSUME IInv, TakeLine, NextLine \notin Asks,
         UNCHANGED <<request, waiting, sent, out>>, ~InWork, ~InWork'
  PROVE  OneRequest' /\ MateDoesNotPonder' /\ TellsAreSent'
<1>1. \A i \in Asked' : i \in Nat /\ i + 1 \in Asked
  BY TakenAsked DEF IInv
<1>2. OneRequest'
  <2>1. \A i, j \in Asked' : i = j
    <3> SUFFICES ASSUME NEW i \in Asked', NEW j \in Asked' PROVE i = j
      OBVIOUS
    <3>1. i \in Nat /\ j \in Nat /\ i + 1 = j + 1
      BY <1>1 DEF IInv, OneRequest
    <3> QED
      BY <3>1
  <2>2. Asked' # {} => Asked # {}
    BY <1>1
  <2> QED
    BY <2>1, <2>2 DEF IInv, OneRequest
<1>3. MateDoesNotPonder'
  <2>1. pc' # "mate"
    BY DEF InWork
  <2>2. (\E i \in DOMAIN inbox' : inbox'[i] = "mate") =>
          \E i \in DOMAIN inbox : inbox[i] = "mate"
    BY Taken DEF IInv
  <2> QED
    BY <2>1, <2>2 DEF IInv, MateDoesNotPonder
<1>4. TellsAreSent'
  <2> SUFFICES ASSUME NEW i \in DOMAIN inbox', inbox'[i] \in Tells
               PROVE  inbox'[i] \in sent \/ \E j \in Asked' : i < j
    BY DEF TellsAreSent
  <2>1. i \in Nat /\ i >= 1 /\ i + 1 \in DOMAIN inbox /\ inbox[i + 1] = inbox'[i]
    BY Taken DEF IInv, TypeOK
  <2>2. CASE inbox[i + 1] \in sent
    BY <2>1, <2>2
  <2>3. CASE inbox[i + 1] \notin sent
    <3>1. PICK j \in Asked : i + 1 < j
      BY <2>1, <2>3 DEF IInv, TellsAreSent
    <3>2. j \in Nat /\ j # 1
      BY <2>1, <3>1, PipeTyped DEF IInv
    <3>3. j - 1 \in Asked'
      BY <3>1, <3>2, TakenAsked DEF IInv
    <3> QED
      BY <2>1, <3>1, <3>2, <3>3
  <2> QED
    BY <2>2, <2>3
<1> QED
  BY <1>2, <1>3, <1>4

\* The GUI sends a request: nothing was on its way.
LEMMA WrittenRequest ==
  ASSUME IInv, NEW c \in Asks, Send(c), MaySend, ~waiting,
         waiting' = TRUE, UNCHANGED <<pc, out>>, c = "mate" => ~request'.ponder
  PROVE  OneRequest' /\ MateDoesNotPonder' /\ TellsAreSent'
<1>1. /\ Asked = {} /\ ~InWork /\ out = 0
      /\ \A i \in DOMAIN inbox : inbox[i] # "mate"
  <2>1. Asked = {} /\ ~InWork /\ out = 0
    BY DEF IInv, OneRequest, TypeOK
  <2> QED
    BY <2>1 DEF Asked, Asks
<1>2. Asked' = {Len(inbox) + 1}
  BY <1>1, WrittenAsked DEF IInv, MaySend, Asks, Commands
<1>3. /\ \A i \in DOMAIN inbox' : i \in DOMAIN inbox \/ i = Len(inbox) + 1
      /\ \A i \in DOMAIN inbox : i < Len(inbox) + 1 /\ inbox'[i] = inbox[i]
      /\ inbox'[Len(inbox) + 1] = c
  BY Written DEF IInv, MaySend, Asks, Commands
<1>4. OneRequest'
  BY <1>1, <1>2 DEF OneRequest, InWork
<1>5. MateDoesNotPonder'
  BY <1>1, <1>3 DEF MateDoesNotPonder, InWork
<1>6. TellsAreSent'
  BY <1>2, <1>3 DEF TellsAreSent, Tells, Asks
<1> QED
  BY <1>4, <1>5, <1>6

\* The GUI sends another line: it is about the last request, if it says that
\* the search may end.
LEMMA WrittenOther ==
  ASSUME IInv, NEW c \in Commands \ Asks, Send(c), MaySend,
         sent \subseteq sent', c \in Tells => c \in sent',
         UNCHANGED <<pc, out, waiting, request>>
  PROVE  OneRequest' /\ MateDoesNotPonder' /\ TellsAreSent'
<1>1. Asked' = Asked
  BY WrittenAsked DEF IInv, MaySend
<1>2. /\ \A i \in DOMAIN inbox' : i \in DOMAIN inbox \/ i = Len(inbox) + 1
      /\ \A i \in DOMAIN inbox : i < Len(inbox) + 1 /\ inbox'[i] = inbox[i]
      /\ inbox'[Len(inbox) + 1] = c
  BY Written DEF IInv, MaySend
<1>3. OneRequest'
  BY <1>1 DEF IInv, OneRequest, InWork
<1>4. MateDoesNotPonder'
  BY <1>2 DEF IInv, MateDoesNotPonder, Asks
<1>5. TellsAreSent'
  BY <1>1, <1>2 DEF IInv, TellsAreSent
<1> QED
  BY <1>3, <1>4, <1>5

\* An action of the engine that reads no line, or one in the middle of its
\* work, and answers only at the end of it.
LEMMA WorkPipe ==
  ASSUME IInv, InWork, UNCHANGED inbox \/ TakeLine,
         UNCHANGED <<request, waiting, sent>>,
         pc' = "mate" => pc = "mate",
         UNCHANGED out \/ (out' = out + 1 /\ ~InWork')
  PROVE  OneRequest' /\ MateDoesNotPonder' /\ TellsAreSent'
<1>1. /\ Asked' = {}
      /\ \A i \in DOMAIN inbox' : inbox'[i] # "mate"
      /\ \A i \in DOMAIN inbox' : inbox'[i] \in Tells => inbox'[i] \in sent'
  <2>1. CASE UNCHANGED inbox
    <3>1. Asked = {}
      BY DEF IInv, OneRequest
    <3> QED
      BY <2>1, <3>1 DEF IInv, TellsAreSent, Asked, Asks
  <2>2. CASE TakeLine
    BY <2>2, TakenInWork
  <2> QED
    BY <2>1, <2>2
<1>2. waiting /\ out = 0
  BY DEF IInv, OneRequest
<1>3. OneRequest'
  BY <1>1, <1>2 DEF OneRequest
<1>4. MateDoesNotPonder'
  BY <1>1 DEF IInv, MateDoesNotPonder
<1>5. TellsAreSent'
  BY <1>1 DEF TellsAreSent
<1> QED
  BY <1>3, <1>4, <1>5

LEMMA PipeStep ==
  ASSUME IInv, [Next]_vars
  PROVE  OneRequest' /\ MateDoesNotPonder' /\ TellsAreSent'
<1> USE DEF flags, loop, gui, pipes, Engine
<1> DEFINE Goal == OneRequest' /\ MateDoesNotPonder' /\ TellsAreSent'
<1>1. CASE UNCHANGED vars
  BY <1>1 DEF vars, IInv, OneRequest, MateDoesNotPonder, TellsAreSent, Asked, InWork
<1>2. ASSUME NEW l \in Requests, SendGo(l) PROVE Goal
  BY <1>2, WrittenRequest DEF SendGo, Asks
<1>3. CASE SendMate
  <2>1. ~request'.ponder
    BY <1>3 DEF SendMate, Limits0
  <2> QED
    BY <1>3, <2>1, WrittenRequest DEF SendMate, Asks
<1>4. ASSUME NEW c \in {"stop", "ponderhit", "quit", "other"}, SendAbout(c)
      PROVE  Goal
  <2>1. /\ c \in Commands \ Asks /\ sent \subseteq sent'
        /\ c \in Tells => c \in sent'
    BY <1>4 DEF SendAbout, Commands, Asks, Tells
  <2> QED
    BY <1>4, <2>1, WrittenOther DEF SendAbout
<1>5. CASE Close \/ (\E mark \in Marks : Tick(mark))
  BY <1>5 DEF Close, Tick, IInv, OneRequest, MateDoesNotPonder, TellsAreSent, Asked, InWork
<1>6. CASE Receive
  <2>1. out = 1 /\ out' = 0
    BY <1>6 DEF Receive, IInv, TypeOK
  <2>2. Asked = {} /\ ~InWork
    BY <2>1 DEF IInv, OneRequest
  <2> QED
    BY <1>6, <2>1, <2>2 DEF Receive, IInv, OneRequest, MateDoesNotPonder,
       TellsAreSent, Asked, InWork
<1>7. CASE Leave \/ Ignore
  <2>1. NextLine \notin Asks /\ ~InWork /\ ~InWork'
    BY <1>7 DEF Leave, Ignore, InWork, Asks
  <2> QED
    BY <1>7, <2>1, TakenOther DEF Leave, Ignore
<1>8. CASE DeclareWin \/ PlayBook \/ Think \/ BeginMate
  <2>1. /\ inbox # <<>> /\ waiting /\ out = 0
        /\ Asked' = {}
        /\ \A i \in DOMAIN inbox' : inbox'[i] \in Tells => inbox'[i] \in sent
        /\ \A i \in DOMAIN inbox' : inbox'[i] # "mate"
        /\ NextLine = "mate" => ~request.ponder
    BY <1>8, TakenRequest
       DEF DeclareWin, PlayBook, Think, BeginThink, BeginMate, Asks
  <2>2. /\ UNCHANGED <<waiting, request, sent>>
        /\ out' = out \/ (out' = out + 1 /\ ~InWork')
        /\ pc' = "mate" => NextLine = "mate"
    BY <1>8 DEF DeclareWin, Say, PlayBook, Think, BeginThink, BeginMate, InWork
  <2>3. OneRequest'
    BY <2>1, <2>2 DEF OneRequest
  <2>4. MateDoesNotPonder'
    BY <2>1, <2>2 DEF MateDoesNotPonder
  <2>5. TellsAreSent'
    BY <2>1, <2>2 DEF TellsAreSent
  <2> QED
    BY <2>3, <2>4, <2>5
<1>9. CASE Poll \/ FailLow \/ StopIteration \/ MateIteration \/ NextIteration
           \/ Finish \/ Wait
  <2>1. /\ InWork /\ (UNCHANGED inbox \/ TakeLine)
        /\ UNCHANGED <<request, waiting, sent, out>>
        /\ pc' = "mate" => pc = "mate"
    BY <1>9 DEF Poll, PollBody, FailLow, StopIteration, MateIteration,
       NextIteration, Finish, Wait, InWork
  <2> QED
    BY <2>1, WorkPipe
<1>10. CASE Tell \/ RunSolver
  <2>1. /\ InWork /\ (UNCHANGED inbox \/ TakeLine)
        /\ UNCHANGED <<request, waiting, sent>>
        /\ pc' = "mate" => pc = "mate"
        /\ UNCHANGED out \/ (out' = out + 1 /\ ~InWork')
    BY <1>10 DEF Tell, Say, AfterThink, RunSolver, PollBody, InWork
  <2> QED
    BY <2>1, WorkPipe
<1> QED
  BY <1>1, <1>2, <1>3, <1>4, <1>5, <1>6, <1>7, <1>8, <1>9, <1>10
     DEF Next, Gui, Execute, Iterate

-----------------------------------------------------------------------------
(* The work on a request. *)
WorkInv == LimitsOfRequest /\ Iterating /\ PrintMayAnswer /\ StopHasReason

\* A line that ends a search is the GUI's, about this request, or the end of
\* the pipe.
LEMMA HeardIsSent ==
  ASSUME IInv, TakeLine, InWork, LineReady, NextLine \in Over
  PROVE  closed \/ sent # {}
<1>1. CASE inbox = <<>>
  BY <1>1 DEF LineReady
<1>2. CASE inbox # <<>>
  <2>1. 1 \in DOMAIN inbox /\ NextLine = inbox[1]
    BY <1>2, Taken DEF IInv
  <2>2. inbox[1] \in Tells
    BY <2>1, PipeTyped DEF IInv, Over, Tells, Commands
  <2> QED
    BY <2>1, <2>2, TakenInWork
<1> QED
  BY <1>1, <1>2

\* The limits compare.
LEMMA SameLimits ==
  ASSUME LimitsOfRequest, pc \in Thinking
  PROVE  /\ UseTimeManagement(Limits) = UseTimeManagement(request)
         /\ SearchMarks(Limits) = SearchMarks(request)
<1>1. /\ Limits.infinite = request.infinite /\ Limits.capped = request.capped
      /\ Limits.maxDepth = request.maxDepth
  BY DEF LimitsOfRequest
<1> QED
  BY <1>1 DEF UseTimeManagement, SearchMarks

\* Actions that leave the search and the request alone.
LEMMA WorkUnchanged ==
  ASSUME IInv, UNCHANGED <<pc, Limits, request, flags, loop, told>>,
         spent \subseteq spent', closed => closed', sent # {} => sent' # {}
  PROVE  WorkInv'
<1> USE DEF flags, loop
<1>1. LimitsOfRequest' /\ Iterating' /\ PrintMayAnswer'
  BY DEF IInv, LimitsOfRequest, Iterating, PrintMayAnswer
<1>2. StopHasReason'
  <2>1. OwnReason => OwnReason'
    BY DEF OwnReason, SearchMarks, UseTimeManagement
  <2> QED
    BY <2>1 DEF IInv, StopHasReason, InWork
<1> QED
  BY <1>1, <1>2 DEF WorkInv

\* Nor is there anything to say of an engine that does not search.
LEMMA NotThinking ==
  ASSUME pc' \notin Thinking, (InWork' /\ told') => (closed' \/ sent' # {})
  PROVE  WorkInv'
BY DEF WorkInv, LimitsOfRequest, Iterating, PrintMayAnswer, StopHasReason, Thinking

LEMMA PollStep ==
  ASSUME IInv, Poll
  PROVE  WorkInv'
<1> USE DEF flags, loop, gui, IInv
<1>1. PICK first \in BOOLEAN : PollBody(first)
  BY DEF Poll
<1>2. PICK line : line = IF LineReady THEN NextLine ELSE "none"
  OBVIOUS
<1>3. /\ pc = "search" /\ InWork /\ pc' = "search" /\ TakeLine
      /\ UNCHANGED <<closed, out, gui, pc, loop, spent>>
  BY <1>1 DEF Poll, PollBody, InWork
<1>4. /\ Limits' = [Limits EXCEPT !.ponder = @ /\ ~(line \in Over)]
      /\ StopRequest' = \/ StopRequest
                        \/ line \in {"stop", "quit", "eof"}
                        \/ line = "ponderhit" /\ StopOnPonderhit
                        \/ OutOfTime(Limits', first)
      /\ told' = (told \/ line \in Over)
  BY <1>1, <1>2 DEF PollBody
<1>5. /\ Limits'.infinite = Limits.infinite /\ Limits'.capped = Limits.capped
      /\ Limits'.maxDepth = Limits.maxDepth
      /\ Limits'.ponder = (Limits.ponder /\ line \notin Over)
  BY <1>4 DEF TypeOK
<1>6. line \in Over => closed \/ sent # {}
  BY <1>2, <1>3, HeardIsSent DEF Over
<1>7. LimitsOfRequest' /\ Iterating' /\ PrintMayAnswer'
  <2>1. Limits.ponder <=> request.ponder /\ ~told
    BY <1>3 DEF LimitsOfRequest, Thinking
  <2>2. Limits'.ponder <=> request.ponder /\ ~told'
    BY <1>4, <1>5, <2>1
  <2>3. LimitsOfRequest'
    BY <1>3, <1>5, <2>2 DEF LimitsOfRequest, Thinking
  <2> QED
    BY <1>3, <2>3 DEF Iterating, PrintMayAnswer
<1>8. (InWork' /\ told') => (closed' \/ sent' # {})
  BY <1>3, <1>4, <1>6 DEF StopHasReason
<1>9. (pc' \in {"search", "done", "wait", "print"} /\ StopRequest') =>
        (told' \/ (~request'.ponder /\ OwnReason'))
  <2> SUFFICES ASSUME StopRequest', ~told' PROVE ~request'.ponder /\ OwnReason'
    OBVIOUS
  <2>1. ~told /\ line \notin Over
    BY <1>4
  <2>2. CASE StopRequest
    <3>1. ~request.ponder /\ OwnReason
      BY <1>3, <2>1, <2>2 DEF StopHasReason
    <3> QED
      BY <1>3, <3>1 DEF OwnReason, SearchMarks, UseTimeManagement
  <2>3. CASE OutOfTime(Limits', first)
    <3>1. ~Limits'.ponder /\ spent \cap SearchMarks(Limits)' # {}
      <4>1. ~Limits'.ponder
        BY <2>3 DEF OutOfTime
      <4>2. CASE UseTimeManagement(Limits') /\ ("maximum" \in spent \/ "available" \in spent)
        <5>1. SearchMarks(Limits)' = {"most", "available", "maximum"}
          BY <4>2 DEF SearchMarks, UseTimeManagement
        <5> QED
          BY <4>1, <4>2, <5>1
      <4>3. CASE Limits'.capped /\ "cap" \in spent
        <5>1. SearchMarks(Limits)' = {"cap"}
          BY <4>3 DEF SearchMarks, UseTimeManagement
        <5> QED
          BY <4>1, <4>3, <5>1
      <4> QED
        BY <2>3, <4>1, <4>2, <4>3 DEF OutOfTime
    <3>2. ~request'.ponder
      BY <1>3, <1>7, <3>1 DEF LimitsOfRequest, Thinking
    <3>3. SearchMarks(Limits)' = SearchMarks(request)'
      BY <1>3, <1>7 DEF LimitsOfRequest, Thinking, SearchMarks, UseTimeManagement
    <3> QED
      BY <1>3, <3>1, <3>2, <3>3 DEF OwnReason
  <2> QED
    BY <1>4, <2>1, <2>2, <2>3 DEF Over
<1> QED
  BY <1>7, <1>8, <1>9 DEF WorkInv, StopHasReason

LEMMA IterationStep ==
  ASSUME IInv, NextIteration
  PROVE  WorkInv'
<1> USE DEF flags, loop, gui, pipes, IInv
<1>1. /\ pc = "search" /\ InWork /\ ~StopRequest /\ pc \in Thinking
      /\ UNCHANGED <<inbox, closed, out, request, waiting, sent, Limits, told>>
      /\ pc' \in {"search", "done"}
  BY DEF NextIteration, InWork, Thinking
<1>2. LimitsOfRequest' /\ PrintMayAnswer'
  BY <1>1 DEF LimitsOfRequest, PrintMayAnswer, Thinking
<1>3. Iterating'
  <2>1. CASE LoopEnds
    BY <2>1 DEF NextIteration, Iterating
  <2>2. CASE ~LoopEnds
    BY <1>1, <2>2, DepthsTyped, Basics DEF NextIteration, Iterating
  <2> QED
    BY <2>1, <2>2
<1>4. (InWork' /\ told') => (closed' \/ sent' # {})
  BY <1>1 DEF StopHasReason
<1>5. (pc' \in {"search", "done", "wait", "print"} /\ StopRequest') =>
        (told' \/ (~request'.ponder /\ OwnReason'))
  <2> SUFFICES ASSUME StopRequest', ~told' PROVE ~request'.ponder /\ OwnReason'
    OBVIOUS
  <2>1. UseTimeManagement(Limits) /\ ManageTime
    BY <1>1 DEF NextIteration
  <2>2. /\ ~Limits.ponder
        /\ depth >= EasyDepth \/ "most" \in spent'
    BY <2>1 DEF ManageTime
  <2>3. ~request.ponder
    BY <1>1, <2>2 DEF LimitsOfRequest
  <2>4. UseTimeManagement(request) /\ SearchMarks(request) = {"most", "available", "maximum"}
    BY <1>1, <2>1, SameLimits DEF SearchMarks
  <2>5. depth' = depth
    BY DEF NextIteration, LoopEnds
  <2>6. UseTimeManagement(request)' /\ SearchMarks(request)' = {"most", "available", "maximum"}
    BY <1>1, <2>4 DEF SearchMarks, UseTimeManagement
  <2> QED
    BY <1>1, <2>2, <2>3, <2>5, <2>6 DEF OwnReason
<1> QED
  BY <1>2, <1>3, <1>4, <1>5 DEF WorkInv, StopHasReason

LEMMA WorkStep ==
  ASSUME IInv, [Next]_vars
  PROVE  WorkInv'
<1> USE DEF flags, loop, gui, pipes, Engine, IInv
<1>1. CASE UNCHANGED vars
  BY <1>1, WorkUnchanged DEF vars
<1>2. CASE SendMate \/ \E l \in Requests : SendGo(l)
  <2>1. ~InWork /\ pc' = pc
    BY <1>2 DEF SendMate, SendGo, OneRequest
  <2> QED
    BY <2>1, NotThinking DEF InWork, Thinking
<1>3. ASSUME NEW c \in {"stop", "ponderhit", "quit", "other"}, SendAbout(c)
      PROVE  WorkInv'
  BY <1>3, WorkUnchanged DEF SendAbout
<1>4. CASE Close \/ Receive \/ \E mark \in Marks : Tick(mark)
  BY <1>4, WorkUnchanged DEF Close, Receive, Tick
<1>5. CASE Leave \/ Ignore \/ DeclareWin
  <2>1. ~InWork'
    BY <1>5 DEF Leave, Ignore, DeclareWin, InWork
  <2> QED
    BY <2>1, NotThinking DEF InWork, Thinking
<1>6. CASE PlayBook \/ Think
  <2>1. /\ Limits' = request' /\ ~told' /\ ~StopRequest'
        /\ pc' = "search" => depth' = 1
        /\ pc' = "print" => ~request'.ponder
    BY <1>6 DEF PlayBook, Think, BeginThink, ResetFlags
  <2>2. LimitsOfRequest' /\ Iterating' /\ PrintMayAnswer'
    BY <2>1, TypeStep DEF LimitsOfRequest, Iterating, PrintMayAnswer, TypeOK
  <2> QED
    BY <2>1, <2>2 DEF WorkInv, StopHasReason
<1>7. CASE BeginMate
  BY <1>7, NotThinking DEF BeginMate, Thinking
<1>8. CASE Poll
  BY <1>8, PollStep
<1>9. CASE FailLow
  <2>1. LimitsOfRequest' /\ Iterating' /\ PrintMayAnswer'
    BY <1>9 DEF FailLow, LimitsOfRequest, Iterating, PrintMayAnswer
  <2> QED
    BY <1>9, <2>1 DEF FailLow, WorkInv, StopHasReason, InWork
<1>10. CASE StopIteration
  <2>1. LimitsOfRequest' /\ Iterating' /\ PrintMayAnswer'
    BY <1>10 DEF StopIteration, LimitsOfRequest, Iterating, PrintMayAnswer, Thinking
  <2>2. OwnReason' = OwnReason
    BY <1>10 DEF StopIteration, OwnReason, SearchMarks, UseTimeManagement
  <2> QED
    BY <1>10, <2>1, <2>2 DEF StopIteration, WorkInv, StopHasReason, InWork
<1>11. CASE MateIteration
  <2>1. LimitsOfRequest' /\ Iterating' /\ PrintMayAnswer'
    BY <1>11 DEF MateIteration, LimitsOfRequest, Iterating, PrintMayAnswer, Thinking
  <2>2. told \/ ~request.ponder
    BY <1>11 DEF MateIteration, MateStops, LimitsOfRequest, Thinking
  <2>3. OwnReason'
    BY <1>11 DEF MateIteration, MateStops, OwnReason
  <2> QED
    BY <1>11, <2>1, <2>2, <2>3 DEF MateIteration, WorkInv, StopHasReason, InWork
<1>12. CASE NextIteration
  BY <1>12, IterationStep
<1>13. CASE Finish
  <2>1. PrintMayAnswer'
    BY <1>13 DEF Finish, MustWait, PrintMayAnswer, StopHasReason,
       LimitsOfRequest, Thinking
  <2>2. LimitsOfRequest' /\ Iterating'
    BY <1>13 DEF Finish, LimitsOfRequest, Iterating, Thinking
  <2>3. OwnReason' = OwnReason
    BY <1>13 DEF Finish, OwnReason, SearchMarks, UseTimeManagement
  <2> QED
    BY <1>13, <2>1, <2>2, <2>3 DEF Finish, WorkInv, StopHasReason, InWork
<1>14. CASE Wait
  <2>1. /\ pc = "wait" /\ InWork /\ pc \in Thinking /\ TakeLine /\ LineReady
        /\ pc' \in {"wait", "print"}
        /\ UNCHANGED <<closed, sent, request, Limits, StopRequest, depth, mates, spent>>
        /\ \/ NextLine \in Over /\ told' /\ pc' = "print"
           \/ told' = told /\ pc' = pc
    BY <1>14 DEF Wait, EndsWait, InWork, Thinking
  <2>2. LimitsOfRequest' /\ Iterating' /\ PrintMayAnswer'
    <3>1. CASE told' = told /\ pc' = pc
      BY <2>1, <3>1 DEF LimitsOfRequest, Iterating, PrintMayAnswer
    <3>2. CASE told' /\ pc' = "print"
      BY <2>1, <3>2 DEF LimitsOfRequest, Iterating, PrintMayAnswer, Thinking
    <3> QED
      BY <2>1, <3>1, <3>2
  <2>3. (InWork' /\ told') => (closed' \/ sent' # {})
    BY <2>1, HeardIsSent DEF StopHasReason
  <2>4. OwnReason' = OwnReason
    BY <2>1 DEF OwnReason, SearchMarks, UseTimeManagement
  <2> QED
    BY <2>1, <2>2, <2>3, <2>4 DEF WorkInv, StopHasReason
<1>15. CASE Tell
  <2>1. ~InWork'
    BY <1>15 DEF Tell, AfterThink, InWork
  <2> QED
    BY <2>1, NotThinking DEF InWork, Thinking
<1>16. CASE RunSolver
  <2>1. /\ pc' \notin Thinking /\ TakeLine /\ InWork
        /\ UNCHANGED <<closed, sent>>
        /\ told' => told \/ (LineReady /\ NextLine \in Over)
    BY <1>16 DEF RunSolver, PollBody, Thinking, InWork, Over
  <2>2. (InWork' /\ told') => (closed' \/ sent' # {})
    BY <2>1, HeardIsSent DEF StopHasReason
  <2> QED
    BY <2>1, <2>2, NotThinking
<1> QED
  BY <1>1, <1>2, <1>3, <1>4, <1>5, <1>6, <1>7, <1>8, <1>9, <1>10, <1>11, <1>12,
     <1>13, <1>14, <1>15, <1>16
     DEF Next, Gui, Execute, Iterate

-----------------------------------------------------------------------------
LEMMA Initially == Init => IInv
<1> SUFFICES ASSUME Init PROVE IInv
  OBVIOUS
<1>1. TypeOK
  <2>1. inbox \in Seq(Commands) /\ Len(inbox) <= MaxInbox
    BY Basics DEF Init
  <2>2. Limits \in [ponder : BOOLEAN, infinite : BOOLEAN, capped : BOOLEAN,
                   maxDepth : 0..PlyMax]
    BY Basics DEF Init
  <2>3. depth \in 0..PlyMax /\ mates \in SUBSET (1..PlyMax) /\ out \in 0..1
    BY Basics DEF Init
  <2> QED
    BY <2>1, <2>2, <2>3 DEF Init, TypeOK, PC
<1>2. Asked = {} /\ DOMAIN inbox = {} /\ ~InWork
  BY DEF Init, Asked, InWork
<1> QED
  BY <1>1, <1>2 DEF Init, IInv, OneRequest, MateDoesNotPonder, TellsAreSent,
     LimitsOfRequest, Iterating, PrintMayAnswer, StopHasReason, InWork, Thinking

LEMMA Inductive == IInv /\ [Next]_vars => IInv'
BY TypeStep, PipeStep, WorkStep DEF IInv, WorkInv

LEMMA InvariantHolds == Spec => []IInv
BY Initially, Inductive, PTL DEF Spec

\* Type correctness of the dialogue (the variables of UciEngine): above all,
\* there is never a second answer before the GUI has read the first, and the
\* iterations stay within PLY_MAX.
THEOREM EngineTyped == Spec => []TypeOK
<1>1. IInv => TypeOK
  BY DEF IInv
<1> QED
  BY <1>1, InvariantHolds, PTL

\* A search is stopped because the GUI has said so about this request (poll()
\* cannot take a "stop" that crossed the answer to another for it), or
\* because it does not ponder and its time is over, its move easy or its
\* value a mate.
THEOREM StoppedForAReason == Spec => []StopHasReason
<1>1. IInv => StopHasReason
  BY DEF IInv
<1> QED
  BY <1>1, InvariantHolds, PTL

-----------------------------------------------------------------------------
(* The engine keeps the dialogue. *)

\* What the dialogue says the engine has in hand.
Mode == IF pc = "exited" THEN "gone"
        ELSE IF pc = "read" THEN "idle"
        ELSE IF request.ponder /\ ~told THEN "pondering" ELSE "thinking"

\* The steps of the dialogue, of the mode and the answers of the engine.
LEMMA DialogueSteps ==
  /\ D!dvars = <<Mode, out>>
  /\ Mode = "idle" /\ out = 0 /\ Mode' \in {"pondering", "thinking"} /\ out' = out
       => D!Next
  /\ Mode = "idle" /\ out = 0 /\ out' = 1 /\ Mode' = Mode => D!Next
  /\ Mode = "pondering" /\ Mode' = "thinking" /\ out' = out => D!Next
  /\ Mode = "thinking" /\ Mode' \in {"idle", "gone"} /\ out' = out + 1 => D!Next
  /\ out > 0 /\ out' = out - 1 /\ Mode' = Mode => D!Next
  /\ Mode = "idle" /\ Mode' = "gone" /\ out' = out => D!Next
<1>1. D!dvars = <<Mode, out>>
  BY DEF D!dvars, Mode
<1>2. Mode = "idle" /\ out = 0 /\ Mode' \in {"pondering", "thinking"} /\ out' = out
        => D!Ask
  BY DEF D!Ask, Mode
<1>3. Mode = "idle" /\ out = 0 /\ out' = 1 /\ Mode' = Mode => D!Declare
  BY DEF D!Declare, Mode
<1>4. Mode = "pondering" /\ Mode' = "thinking" /\ out' = out => D!Told
  BY DEF D!Told, Mode
<1>5. Mode = "thinking" /\ Mode' \in {"idle", "gone"} /\ out' = out + 1 => D!Answer
  BY DEF D!Answer, Mode
<1>6. out > 0 /\ out' = out - 1 /\ Mode' = Mode => D!Hear
  BY DEF D!Hear, Mode
<1>7. Mode = "idle" /\ Mode' = "gone" /\ out' = out => D!Quit
  BY DEF D!Quit, Mode
<1> QED
  BY <1>1, <1>2, <1>3, <1>4, <1>5, <1>6, <1>7 DEF D!Next

\* Reading a line in the middle of the work, and hearing that it may end.
LEMMA WorkMode ==
  ASSUME InWork, InWork', UNCHANGED <<request, out>>, told => told'
  PROVE  [D!Next]_(D!dvars)
<1>1. CASE Mode' = Mode
  BY <1>1, DialogueSteps DEF D!dvars, Mode
<1>2. CASE Mode' # Mode
  <2>1. Mode = "pondering" /\ Mode' = "thinking"
    BY <1>2 DEF Mode, InWork
  <2> QED
    BY <2>1, DialogueSteps
<1> QED
  BY <1>1, <1>2

LEMMA StepOfDialogue ==
  ASSUME IInv, [Next]_vars
  PROVE  [D!Next]_(D!dvars)
<1> USE DEF flags, loop, gui, pipes, Engine, IInv
<1> DEFINE Goal == [D!Next]_(D!dvars)
<1>1. CASE UNCHANGED vars
  BY <1>1 DEF vars, D!dvars
<1>2. CASE SendMate \/ \E l \in Requests : SendGo(l)
  <2>1. ~InWork /\ UNCHANGED <<pc, out>>
    BY <1>2 DEF SendMate, SendGo, OneRequest
  <2> QED
    BY <2>1 DEF D!dvars, InWork
<1>3. ASSUME NEW c \in {"stop", "ponderhit", "quit", "other"}, SendAbout(c)
      PROVE  Goal
  BY <1>3 DEF SendAbout, D!dvars
<1>4. CASE Close \/ \E mark \in Marks : Tick(mark)
  BY <1>4 DEF Close, Tick, D!dvars
<1>5. CASE Receive
  <2>1. Mode' = Mode
    BY <1>5 DEF Receive, Mode
  <2> QED
    BY <1>5, <2>1, DialogueSteps DEF Receive
<1>6. CASE Leave
  <2>1. Mode = "idle" /\ Mode' = "gone" /\ out' = out
    BY <1>6 DEF Leave, Mode
  <2> QED
    BY <2>1, DialogueSteps
<1>7. CASE Ignore
  BY <1>7 DEF Ignore, D!dvars
<1>8. CASE DeclareWin
  <2>1. out = 0
    BY <1>8, TakenRequest DEF DeclareWin, Asks
  <2>2. Mode = "idle" /\ out' = 1 /\ Mode' = Mode
    BY <1>8, <2>1 DEF DeclareWin, Say, Mode
  <2> QED
    BY <2>1, <2>2, DialogueSteps
<1>9. CASE PlayBook \/ Think \/ BeginMate
  <2>1. out = 0
    BY <1>9, TakenRequest DEF PlayBook, Think, BeginThink, BeginMate, Asks
  <2>2. Mode = "idle" /\ Mode' \in {"pondering", "thinking"} /\ out' = out
    BY <1>9 DEF PlayBook, Think, BeginThink, BeginMate, Mode
  <2> QED
    BY <2>1, <2>2, DialogueSteps
<1>10. CASE Poll \/ FailLow \/ StopIteration \/ MateIteration \/ NextIteration
           \/ Finish \/ Wait
  <2>1. /\ InWork /\ InWork'
        /\ UNCHANGED <<request, out>>
        /\ told => told'
    BY <1>10 DEF Poll, PollBody, FailLow, StopIteration, MateIteration,
       NextIteration, Finish, Wait, InWork
  <2> QED
    BY <2>1, WorkMode
<1>11. CASE Tell
  <2>1. Mode = "thinking"
    BY <1>11 DEF Tell, Mode, PrintMayAnswer
  <2>2. Mode' \in {"idle", "gone"} /\ out' = out + 1
    BY <1>11 DEF Tell, AfterThink, Say, Mode
  <2> QED
    BY <2>1, <2>2, DialogueSteps
<1>12. CASE RunSolver
  <2>1. pc = "mate" /\ ~request.ponder /\ UNCHANGED request /\ Mode = "thinking"
    BY <1>12 DEF RunSolver, Mode, MateDoesNotPonder
  <2>2. CASE Say /\ pc' = "read"
    <3>1. Mode' = "idle" /\ out' = out + 1
      BY <2>2 DEF Say, Mode
    <3> QED
      BY <2>1, <3>1, DialogueSteps
  <2>3. CASE UNCHANGED <<out, pc>>
    BY <2>1, <2>3 DEF D!dvars
  <2> QED
    BY <1>12, <2>2, <2>3 DEF RunSolver
<1> QED
  BY <1>1, <1>2, <1>3, <1>4, <1>5, <1>6, <1>7, <1>8, <1>9, <1>10, <1>11, <1>12
     DEF Next, Gui, Execute, Iterate

(* The engine implements the dialogue, whatever requests, options and      *)
(* length of the pipe: it answers every request once, a request to ponder  *)
(* only after it has read that the pondering is over, and it leaves only   *)
(* between two requests or with an answer.                                 *)
THEOREM EngineImplementsDialogue == Spec => ImplementsDialogue
<1>1. Init => D!Init
  BY DEF Init, D!Init
<1>2. IInv /\ [Next]_vars => [D!Next]_(D!dvars)
  BY StepOfDialogue
<1> QED
  BY <1>1, <1>2, InvariantHolds, PTL DEF Spec, ImplementsDialogue, D!DSpec

=============================================================================
