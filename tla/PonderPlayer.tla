---------------------------- MODULE PonderPlayer ----------------------------
(* The cluster player, gpsshogi/bin/cluster/gpsshogi.rb and ponder.rb: the main      *)
(* loop answers the opponent's moves; while he thinks, a thread guesses his move and *)
(* searches the answer. The main thread (main) and the pondering thread (thr) share  *)
(* the fields of the PonderPlayer and the stubs.                                     *)
EXTENDS UsiMulti

CONSTANTS Moves,    \* BOUND: the opponent's moves are 1 .. Moves in every position
          Turns     \* BOUND: the answers of a game

ASSUMPTION PonderAssumption == Moves \in Nat \ {0} /\ Turns \in Nat \ {0}

nil == 0
free == "none"

VARIABLES main,      \* where the main loop is
          thr,       \* where the thread of ponder() is
          lock,      \* who holds @mutex
          turn,      \* the number of answers given
          played,    \* the move of the opponent that is to be answered
          informed,  \* @informed_move
          current,   \* @current_move
          expected,  \* expected_move, of the main loop and of the thread
          ignored,   \* ignore_moves
          kept,      \* @m2m: the answers found for guesses
          finished,  \* @ponder_finished
          answer,    \* what the main loop read from @finish_queue, at most one result
          crashed    \* the main thread has called a method of nil
fields == <<informed, current, expected, ignored, kept, finished>>
player == <<main, thr, lock, turn, played, fields, answer, crashed>>
allvars == <<vars, player>>

Move == 1 .. Moves

\* The position after the opponent's move m; the number of the turn keeps the positions of
\* one turn apart from those of another.
After(m) == <<turn, m>>

-----------------------------------------------------------------------------
(* A new root object, in the place of @searcher. The old one and what only it *)
(* refers to are garbage.                                                     *)

RootOf(m, q) == New([i \in 1 .. N |-> i], After(m), 0, q, FALSE)

Renew(M) ==
  /\ Room(1)
  /\ root' = Fresh
  /\ asked' = FALSE
  /\ node' = [o \in Node |-> IF o = Fresh THEN M ELSE IF o \in InUse THEN node[o] ELSE FreeNode]

\* UsiMulti.new for the position after m, and the first half of its root_search: see
\* InRootSearch for the second.
SearchNewRoot(m, q) ==
  /\ Renew(RootCall(RootOf(m, q)))
  /\ eng' = RootAsks(eng, Fresh, RootOf(m, q))
  /\ box' = [box EXCEPT ![Fresh] = <<>>]

-----------------------------------------------------------------------------
(* The pondering thread.                                                      *)

\* while !@informed_move
ThrLoop ==
  /\ thr = "loop"
  /\ thr' = IF informed # nil THEN "last" ELSE IF expected = nil THEN "guess" ELSE "move"
  /\ UNCHANGED <<vars, main, lock, turn, played, fields, answer, crashed>>

\* No expected move: a search of one second for one, by the first stub.
ThrGuess ==
  /\ thr = "guess" /\ lock = free
  /\ raised' = Refuses(1)
  /\ eng' = [eng EXCEPT ![1] = Search(@, <<turn>>, ignored # {}, Client)]
  /\ box' = [box EXCEPT ![Client] = <<>>]
  /\ current' = nil
  /\ thr' = "guessing"
  /\ UNCHANGED <<node, root, asked, main, lock, turn, played, informed, expected, ignored,
                 kept, finished, answer, crashed>>

\* Its best move is the guess, unless it is no move or the opponent has moved.
ThrGuessed ==
  /\ thr = "guessing" /\ CanFinish(Client)
  /\ raised' = Unexpected(Client)
  /\ box' = [box EXCEPT ![Client] = AfterStopped(Client)]
  /\ IF informed # nil
     THEN thr' = "last" /\ expected' = expected
     ELSE \/ thr' = "last" /\ expected' = nil
          \/ thr' = "move" /\ expected' \in Move \ ignored
  /\ UNCHANGED <<eng, node, root, asked, main, lock, turn, played, informed, current,
                 ignored, kept, finished, answer, crashed>>

\* ponder_move(): the object is made before the lock is asked for.
ThrMove ==
  /\ thr = "move"
  /\ Renew(RootOf(expected, Client))
  /\ box' = [box EXCEPT ![Client] = <<>>, ![Fresh] = <<>>]
  /\ thr' = "moving"
  /\ UNCHANGED <<eng, raised, main, lock, turn, played, fields, answer, crashed>>

\* Nothing is searched when the opponent has moved. The guess is used up either way.
ThrMoving ==
  /\ thr = "moving" /\ lock = free
  /\ IF informed # nil
     THEN /\ thr' = "loop"
          /\ ignored' = ignored \cup {expected} /\ expected' = nil
          /\ UNCHANGED <<eng, node, lock, current>>
     ELSE /\ current' = expected
          /\ lock' = "thr" /\ thr' = "rooted"
          /\ node' = [node EXCEPT ![root] = RootCall(@)]
          /\ eng' = RootAsks(eng, root, node[root])
          /\ UNCHANGED <<ignored, expected>>
  /\ UNCHANGED <<box, raised, root, asked, main, turn, played, informed, kept, finished,
                 answer, crashed>>

\* root_search has returned: the lock is given back.
ThrRooted ==
  /\ thr = "rooted" /\ ~InRootSearch(root)
  /\ lock' = free /\ thr' = "searching"
  /\ UNCHANGED <<vars, main, turn, played, fields, answer, crashed>>

\* The search of the guess has ended: what it found is kept, complete or not.
ThrSearched ==
  /\ thr = "searching" /\ CanFinish(Client) /\ lock = free
  /\ raised' = Unexpected(Client)
  /\ box' = [box EXCEPT ![Client] = AfterStopped(Client)]
  /\ kept' = [kept EXCEPT ![expected] = <<WaitStopped(Client)>>]
  /\ ignored' = ignored \cup {expected}
  /\ expected' = nil
  /\ thr' = "loop"
  /\ UNCHANGED <<eng, node, root, asked, main, lock, turn, played, informed, current, finished,
                 answer, crashed>>

\* Mutant: an answer that was kept is not followed by :stopped.
MutThrLast ==
  /\ thr = "last" /\ lock = free
  /\ IF informed # nil /\ kept[informed] = <<>>
     THEN /\ SearchNewRoot(informed, Finish)
          /\ lock' = "thr" /\ thr' = "lastrooted"
          /\ UNCHANGED finished
     ELSE /\ box' = IF informed = nil THEN box
                    ELSE [box EXCEPT ![Finish] = @ \o kept[informed][1]]
          /\ finished' = TRUE /\ thr' = "off"
          /\ UNCHANGED <<eng, node, root, asked, lock>>
  /\ UNCHANGED <<raised, main, turn, played, informed, current, expected, ignored, kept,
                 answer, crashed>>

\* The end of the thread: the opponent's move is answered from what was kept, or searched.
\* Without one the main thread will do it, see Inform.
ThrLast ==
  /\ thr = "last" /\ lock = free
  /\ IF informed # nil /\ kept[informed] = <<>>
     THEN /\ SearchNewRoot(informed, Finish)
          /\ lock' = "thr" /\ thr' = "lastrooted"
          /\ UNCHANGED finished
     ELSE /\ box' = IF informed = nil THEN box
                    ELSE [box EXCEPT ![Finish] = @ \o kept[informed][1] \o <<Stopped>>]
          /\ finished' = TRUE /\ thr' = "off"
          /\ UNCHANGED <<eng, node, root, asked, lock>>
  /\ UNCHANGED <<raised, main, turn, played, informed, current, expected, ignored, kept,
                 answer, crashed>>

ThrLastRooted ==
  /\ thr = "lastrooted" /\ ~InRootSearch(root)
  /\ finished' = TRUE
  /\ lock' = free /\ thr' = "off"
  /\ UNCHANGED <<vars, main, turn, played, informed, current, expected, ignored, kept,
                 answer, crashed>>

ThrStep ==
  ThrLoop \/ ThrGuess \/ ThrGuessed \/ ThrMove \/ ThrMoving \/ ThrRooted \/ ThrSearched
    \/ ThrLast \/ ThrLastRooted

-----------------------------------------------------------------------------
(* The main loop.                                                             *)

\* The first move out of the book is searched without a PonderPlayer.
FirstSearch ==
  /\ main = "first" /\ ~InRootSearch(root)
  /\ main' = "wait"
  /\ UNCHANGED <<vars, thr, lock, turn, played, fields, answer, crashed>>

\* wait_stopped(finish_queue); the move is sent to the opponent.
Answered ==
  /\ main = "wait" /\ CanFinish(Finish)
  /\ raised' = Unexpected(Finish)
  /\ answer' = WaitStopped(Finish)
  /\ box' = [box EXCEPT ![Finish] = AfterStopped(Finish)]
  /\ main' = "answered"
  /\ UNCHANGED <<eng, node, root, asked, thr, lock, turn, played, fields, crashed>>

\* Mutant: the answers kept for the turn before are not thrown away.
MutPonderReset ==
  /\ main = "answered" /\ turn < Turns
  /\ turn' = turn + 1
  /\ box' = [box EXCEPT ![Finish] = <<>>]
  /\ answer' = <<>>
  /\ played' = nil /\ informed' = nil /\ current' = nil
  /\ kept' = kept
  /\ root' = IF turn = 0 THEN nil ELSE root
  /\ main' = "reset"
  /\ UNCHANGED <<eng, node, asked, raised, thr, lock, expected, ignored, finished, crashed>>

\* PonderPlayer.new at the first turn. ponder(): the fields are reset without the lock; the expected move is the third of the
\* principal variation, if it has one.
PonderReset ==
  /\ main = "answered" /\ turn < Turns
  /\ turn' = turn + 1
  /\ box' = [box EXCEPT ![Finish] = <<>>]
  /\ answer' = <<>>
  /\ played' = nil /\ informed' = nil /\ current' = nil
  /\ kept' = [m \in Move |-> <<>>]
  /\ root' = IF turn = 0 THEN nil ELSE root
  /\ main' = "reset"
  /\ UNCHANGED <<eng, node, asked, raised, thr, lock, expected, ignored, finished, crashed>>

\* Then @ponder_finished is, and the thread starts.
PonderStart ==
  /\ main = "reset" /\ lock = free
  /\ finished' = FALSE
  /\ expected' \in {nil} \cup Move
  /\ ignored' = {}
  /\ thr' = "loop"
  /\ main' = "his"
  /\ UNCHANGED <<vars, lock, turn, played, informed, current, kept, answer, crashed>>

\* inform(): a finished thread leaves the answer to the main thread, one that searches
\* for another move is stopped, and one that searches for this move goes on.
Inform(m) ==
  /\ main = "his" /\ lock = free
  /\ played' = m /\ informed' = m
  /\ \/ /\ finished /\ kept[m] # <<>>
        /\ box' = [box EXCEPT ![Finish] = @ \o kept[m][1] \o <<Stopped>>]
        /\ main' = "wait"
        /\ UNCHANGED <<eng, node, root, asked, lock, crashed>>
     \/ /\ finished /\ kept[m] = <<>>
        /\ SearchNewRoot(m, Finish)
        /\ lock' = "main" /\ main' = "rooted"
        /\ UNCHANGED crashed
     \/ /\ ~finished /\ m # current /\ root = nil
        /\ crashed' = TRUE
        /\ UNCHANGED <<eng, box, node, root, asked, lock, main>>
     \/ /\ ~finished /\ m # current /\ root # nil
        /\ MayStop(node, {root})
        /\ node' = StopNodes(node, {root})
        /\ eng' = StopStubs(eng, StubsOf(node, {root}))
        /\ asked' = TRUE
        /\ main' = "wait"
        /\ UNCHANGED <<box, root, lock, crashed>>
     \/ /\ ~finished /\ m = current
        /\ main' = "wait"
        /\ UNCHANGED <<eng, box, node, root, asked, lock, crashed>>
  /\ UNCHANGED <<raised, thr, turn, current, expected, ignored, kept, finished, answer>>

InformRooted ==
  /\ main = "rooted" /\ ~InRootSearch(root)
  /\ lock' = free /\ main' = "wait"
  /\ UNCHANGED <<vars, thr, turn, played, fields, answer, crashed>>

\* The opponent resigns: the test of @podner_searcher keeps PonderPlayer.stop from being
\* called, the program ends at once.
Resigned ==
  /\ main = "his"
  /\ main' = "over"
  /\ UNCHANGED <<vars, thr, lock, turn, played, fields, answer, crashed>>

MainStep ==
  FirstSearch \/ Answered \/ PonderReset \/ PonderStart \/ InformRooted

-----------------------------------------------------------------------------
PlayerInit ==
  LET M == New([i \in 1 .. N |-> i], <<0, nil>>, 0, Finish, FALSE)
  IN  /\ box = [q \in Queue |-> <<>>]
      /\ raised = FALSE
      /\ node = [o \in Node |-> IF o = 1 THEN RootCall(M) ELSE FreeNode]
      /\ eng = RootAsks([e \in Engine |-> IdleStub], 1, M)
      /\ root = 1 /\ asked = FALSE
      /\ main = "first" /\ thr = "off" /\ lock = free
      /\ turn = 0 /\ played = nil
      /\ informed = nil /\ current = nil /\ expected = nil /\ ignored = {}
      /\ kept = [m \in Move |-> <<>>] /\ finished = TRUE
      /\ answer = <<>> /\ crashed = FALSE

Running == ~raised /\ ~crashed /\ main # "over"

PlayerWork ==
  /\ Running
  /\ \/ \E e \in Engine : ReaderStep(e) /\ UNCHANGED player
     \/ \E o \in Node : NodeStep(o) /\ UNCHANGED player
     \/ ThrStep
     \/ MainStep

Opponent == Running /\ ((\E m \in Move : Inform(m)) \/ Resigned)

PlayerNext == PlayerWork \/ Opponent

PlayerSpec == PlayerInit /\ [][PlayerNext]_allvars

\* As long as a process has a command to answer or a thread can go on, one of them does;
\* nothing makes the opponent move.
FairPlayerSpec == PlayerSpec /\ WF_allvars(PlayerWork)

-----------------------------------------------------------------------------
(* Properties.                                                                *)

PlayerTypeOK ==
  /\ TypeOK
  /\ main \in {"first", "wait", "answered", "reset", "his", "rooted", "over"}
  /\ thr \in {"off", "loop", "guess", "guessing", "move", "moving", "rooted", "searching",
              "last", "lastrooted"}
  /\ lock \in {free, "thr", "main"}
  /\ turn \in 0 .. Turns
  /\ {played, informed, current, expected} \subseteq Move \cup {nil}
  /\ ignored \subseteq Move /\ DOMAIN kept = Move

\* The answer that is sent is a result, not nil, and one for the position after the move
\* that the opponent made: never what was found for a guess he did not make or for another
\* turn.
AnswerFits ==
  main = "answered" =>
    answer # <<>> /\ Head(answer).pos = After(played)

\* Every move of the opponent that reached inform() is answered.
Replies == (main \in {"wait", "rooted"}) ~> (main = "answered")
=============================================================================
