------------------------------ MODULE UsiMulti ------------------------------
(* A search on several engine processes, gpsshogi/bin/cluster/usiMulti.rb. An       *)
(* object has an array of stubs: with one it passes the search on; with more its     *)
(* thread makes a short search and a checkmate search, shares the stubs out among    *)
(* objects for the best moves, searches the rest with its first stub, and collects   *)
(* what they report until the best value is final. Here one client makes a root      *)
(* search and may stop it; PonderPlayer is the client of the program.                *)
EXTENDS UsiWrapper, SequencesExt, FiniteSetsExt

CONSTANTS MaxPly,       \* BOUND: no forced move is met at this ply and deeper
          StopBetween   \* whether a stop may fall between the two halves of split_search

ASSUMPTION MultiAssumption == MaxPly \in Nat /\ StopBetween \in BOOLEAN

VARIABLES node,   \* the objects, with the local state of their threads
          root,   \* the object the client refers to, 0 for nil
          asked   \* the client has called stop
vars == <<eng, box, raised, node, root, asked>>

FreeNode ==
  [pc |-> "free", usis |-> <<>>, ply |-> 0, pos |-> <<>>, sink |-> Client, late |-> FALSE,
   stopped |-> FALSE, stubs |-> {}, kids |-> {}, await |-> {}, keys |-> 0, count |-> 0,
   stops |-> 0, bounds |-> <<>>, maxval |-> -1]

\* UsiMulti.new. stubs and kids are @searchers; late: the time does not allow multi_search.
New(usis, pos, ply, q, late) ==
  [FreeNode EXCEPT !.pc = "new", !.usis = usis, !.pos = pos, !.ply = ply, !.sink = q,
                   !.late = late]

\* The objects somebody refers to, or whose thread runs, or whose queue a stub writes to.
Live == {o \in Node : node[o].pc \notin {"free", "new", "done", "leaf"}}

\* Those of S and those they wait for: the least set that keeps its kids.
Reach(n, S) ==
  {o \in Node : \A T \in SUBSET Node :
                   S \subseteq T /\ (\A x \in T : n[x].kids \subseteq T) => o \in T}

InUse == Reach(node, Live) \cup {node[o].sink : o \in Live}
           \cup {eng[e].sink : e \in {d \in Engine : eng[d].jobs # <<>>}}

Unused == Node \ (InUse \cup Reach(node, {root} \cap Node))

\* BOUND: room for k new objects.
Room(k) == k <= Cardinality(Unused)

Fresh == CHOOSE c \in Unused : TRUE

\* A thread at its end. @searchers stays, a late stop() goes through it.
Done(M) == [FreeNode EXCEPT !.pc = "done", !.pos = M.pos, !.stopped = M.stopped,
                            !.stubs = M.stubs, !.kids = M.kids]

\* A message [self, type, @moves, [], ..] of object o, with its value.
Report(o, type, v) == Msg(type, node[o].pos, FALSE, v, 0)

\* The queues B after object o pushed ms on @finish_queue.
Push(B, o, ms) == [B EXCEPT ![node[o].sink] = @ \o ms]

-----------------------------------------------------------------------------
(* stop(): the flags of the object and of the objects it waits for, and a     *)
(* stop for the stubs. It holds the locks on the way down, so it is one step. *)

StubsOf(n, S) == UNION {n[o].stubs : o \in Reach(n, S)}

StopNodes(n, S) ==
  [o \in Node |-> IF o \in Reach(n, S)
                  THEN [n[o] EXCEPT !.stopped = TRUE, !.stubs = {}, !.kids = {}]
                  ELSE n[o]]

\* The window of split_search: its searches run, but are not counted yet.
MayStop(n, S) == StopBetween \/ \A o \in Reach(n, S) : n[o].pc # "count"

-----------------------------------------------------------------------------
(* search(): with one stub single_search() at once, otherwise a new thread.   *)
(* The deadline set_time_all() reads only comes nearer: a search without time *)
(* for multi_search() leaves none to its children.                            *)

\* single_search(): the search goes straight to the queue of M's client.
SingleNode(M) == [M EXCEPT !.pc = "leaf", !.stubs = {Head(M.usis)}]

Searched(M, late) ==
  IF Len(M.usis) = 1 THEN SingleNode(M)
  ELSE [M EXCEPT !.pc = IF late THEN "timeless" ELSE "presearch", !.late = late]

\* The stub e after search() of the objects of S, none of which was stopped.
Engaged(r, e, S) ==
  IF \E M \in S : M.usis = <<e>>
  THEN LET M == CHOOSE M \in S : M.usis = <<e>> IN Search(r, M.pos, FALSE, M.sink)
  ELSE r

-----------------------------------------------------------------------------
(* root_search(): the book and the number of legal moves are asked first, in  *)
(* the thread of the client.                                                  *)

InRootSearch(o) == o \in Node /\ node[o].pc \in {"book", "genmoves"}

\* The object and the stubs when the client calls root_search of object M.
RootCall(M) == [M EXCEPT !.pc = "book"]

RootAsks(E, o, M) == [E EXCEPT ![Head(M.usis)] = Ask(@, "book", M.pos, o)]

BookAnswered(o) ==
  LET M == node[o]
      v == WaitStopped(o)
  IN  /\ M.pc = "book" /\ CanFinish(o)
      /\ raised' = Unexpected(o)
      /\ IF Head(v).n = 1
         THEN /\ box' = [Push(box, o, <<Msg("exact", Head(v).pos, FALSE, 0, 1), Stopped>>)
                           EXCEPT ![o] = <<>>]
              /\ node' = [node EXCEPT ![o] = Done(M)]
              /\ eng' = eng
         ELSE /\ box' = [box EXCEPT ![o] = AfterStopped(o)]
              /\ node' = [node EXCEPT ![o].pc = "genmoves"]
              /\ eng' = [eng EXCEPT ![Head(M.usis)] = Ask(@, "genmoves", M.pos, o)]
  /\ UNCHANGED <<root, asked>>

\* One legal move is answered at once; otherwise search().
GenmovesAnswered(o) ==
  LET M == node[o]
      e == Head(M.usis)
  IN  /\ M.pc = "genmoves" /\ box[o] # <<>>
      /\ IF Head(box[o]).n = 1
         THEN /\ box' = [Push(box, o, <<Report(o, "exact", 0), Stopped>>) EXCEPT ![o] = <<>>]
              /\ node' = [node EXCEPT ![o] = Done(M)]
              /\ UNCHANGED <<eng, raised>>
         ELSE /\ box' = [box EXCEPT ![o] = Tail(@)]
              /\ \E late \in BOOLEAN : node' = [node EXCEPT ![o] = Searched(M, late)]
              /\ IF Len(M.usis) = 1
                 THEN /\ raised' = Refuses(e)
                      /\ eng' = [eng EXCEPT ![e] = Search(@, M.pos, FALSE, M.sink)]
                 ELSE UNCHANGED <<eng, raised>>
  /\ UNCHANGED <<root, asked>>

-----------------------------------------------------------------------------
(* presearch(): a short search and a checkmate search.                        *)

\* The end of a thread that pushes ms last.
EndWith(o, ms) ==
  /\ box' = [Push(box, o, ms) EXCEPT ![o] = <<>>]
  /\ node' = [node EXCEPT ![o] = Done(node[o])]

\* Mutant: an object stopped before its presearch ends without a word.
MutPresearch(o) ==
  LET M == node[o]
      e == M.usis[1]
      f == M.usis[2]
  IN  /\ M.pc = "presearch"
      /\ IF M.stopped
         THEN EndWith(o, <<>>) /\ UNCHANGED <<eng, raised>>
         ELSE /\ node' = [node EXCEPT ![o].pc = "await", ![o].stubs = {e, f},
                                      ![o].await = {"search", "mate"}]
              /\ eng' = [eng EXCEPT ![e] = Search(@, M.pos, FALSE, o),
                                    ![f] = CheckmateSearch(@, M.pos, o)]
              /\ raised' = (Refuses(e) \/ Refuses(f))
              /\ box' = box
      /\ UNCHANGED <<root, asked>>

Presearch(o) ==
  LET M == node[o]
      e == M.usis[1]
      f == M.usis[2]
  IN  /\ M.pc = "presearch"
      /\ IF M.stopped
         THEN EndWith(o, <<Stopped>>) /\ UNCHANGED <<eng, raised>>
         ELSE /\ node' = [node EXCEPT ![o].pc = "await", ![o].stubs = {e, f},
                                      ![o].await = {"search", "mate"}]
              /\ eng' = [eng EXCEPT ![e] = Search(@, M.pos, FALSE, o),
                                    ![f] = CheckmateSearch(@, M.pos, o)]
              /\ raised' = (Refuses(e) \/ Refuses(f))
              /\ box' = box
      /\ UNCHANGED <<root, asked>>

\* The answers: those of the search count with :stopped, a mate ends the presearch.
PresearchTake(o) ==
  LET M == node[o]
      m == Head(box[o])
      e == M.usis[1]
      f == M.usis[2]
      mated == Report(o, "exact", Top)
  IN  /\ M.pc = "await" /\ M.await # {} /\ box[o] # <<>>
      /\ \/ /\ m.type = "exact"
            /\ box' = [box EXCEPT ![o] = Tail(@)]
            /\ UNCHANGED <<node, eng>>
         \/ /\ m.type = "stopped"
            /\ box' = [box EXCEPT ![o] = Tail(@)]
            /\ node' = [node EXCEPT ![o].await = @ \ {"search"}, ![o].stubs = @ \ {e}]
            /\ eng' = eng
         \/ /\ m.type = "nomate"
            /\ box' = [box EXCEPT ![o] = Tail(@)]
            /\ node' = [node EXCEPT ![o].await = @ \ {"mate"}, ![o].stubs = @ \ {f}]
            /\ eng' = eng
         \/ /\ m.type = "mate" /\ "search" \in M.await
            /\ box' = [Push(box, o, <<mated>>) EXCEPT ![o] = Tail(@)]
            /\ node' = [node EXCEPT ![o].pc = "mated", ![o].stubs = @ \ {f}]
            /\ eng' = StopStubs(eng, {e})
         \/ /\ m.type = "mate" /\ "search" \notin M.await
            /\ EndWith(o, <<mated, Stopped>>)
            /\ eng' = eng
      /\ UNCHANGED <<raised, root, asked>>

\* Mutant: the short search is not waited for.
MutMateStopped(o) ==
  /\ node[o].pc = "mated"
  /\ EndWith(o, <<Stopped>>)
  /\ UNCHANGED <<eng, raised, root, asked>>

\* After a mate: the short search is waited for before the end is told.
MateStopped(o) ==
  /\ node[o].pc = "mated" /\ CanFinish(o)
  /\ raised' = Unexpected(o)
  /\ EndWith(o, <<Stopped>>)
  /\ UNCHANGED <<eng, root, asked>>

\* The last look at @stopped. What the short search found is the caller's: that one move
\* is forced, or the moves worth a search of their own.
PresearchEnd(o) ==
  LET M == node[o]
  IN  /\ M.pc = "await" /\ M.await = {}
      /\ IF M.stopped
         THEN EndWith(o, <<Stopped>>)
         ELSE /\ box' = box
              /\ \/ \E n \in 0 .. MaxKeys :
                      node' = [node EXCEPT ![o].pc = "split", ![o].keys = n]
                 \/ M.ply < MaxPly /\ node' = [node EXCEPT ![o].pc = "forced"]
      /\ UNCHANGED <<eng, raised, root, asked>>

\* multi_search() after a forced move: the answer at the root, else one child with all stubs.
Forced(o) ==
  LET M == node[o]
      c == Fresh
  IN  /\ M.pc = "forced"
      /\ IF M.ply = 0
         THEN EndWith(o, <<Report(o, "exact", 0), Stopped>>)
         ELSE /\ Room(1)
              /\ \E late \in BOOLEAN :
                   LET kid == New(M.usis, Append(M.pos, 1), M.ply + 1, o, late)
                   IN  node' = [node EXCEPT ![o].pc = "forcedwait", ![o].kids = {c},
                                            ![o].stubs = {}, ![c] = Searched(kid, late)]
              /\ box' = [box EXCEPT ![c] = <<>>]
      /\ UNCHANGED <<eng, raised, root, asked>>

\* The child has ended: its value is passed on, unless this object was stopped.
ForcedStopped(o) ==
  LET v == WaitStopped(o)
  IN  /\ node[o].pc = "forcedwait" /\ CanFinish(o)
      /\ IF node[o].stopped
         THEN EndWith(o, <<Stopped>>) /\ raised' = Unexpected(o)
         ELSE IF v = <<>>
              THEN raised' = TRUE /\ UNCHANGED <<node, box>>
              ELSE /\ EndWith(o, <<Report(o, "exact", Top - Head(v).val), Stopped>>)
                   /\ raised' = Unexpected(o)
      /\ UNCHANGED <<eng, root, asked>>

\* timeless_multi_search(): no presearch, the moves come from genmove_probability.
Timeless(o) ==
  LET M == node[o]
  IN  /\ M.pc = "timeless"
      /\ eng' = [eng EXCEPT ![Head(M.usis)] = Ask(@, "probability", M.pos, o)]
      /\ node' = [node EXCEPT ![o].pc = "probability"]
      /\ UNCHANGED <<box, raised, root, asked>>

ProbabilityAnswered(o) ==
  /\ node[o].pc = "probability" /\ box[o] # <<>>
  /\ box' = [box EXCEPT ![o] = Tail(@)]
  /\ node' = [node EXCEPT ![o].pc = "split", ![o].keys = Head(box[o]).n]
  /\ UNCHANGED <<eng, raised, root, asked>>

-----------------------------------------------------------------------------
(* split_search(): the stubs but the first are shared out among objects for   *)
(* the best moves, by weights that fall by a constant factor.                 *)

\* The squares of a diagram with a row of f[i] for each i, and their number: the sum of f.
Squares(f) == UNION {{i} \X (1 .. f[i]) : i \in DOMAIN f}
Total(f) == Cardinality(Squares(f))

\* UsiArray.dist for weights proportional to s[1] .. s[Len(s)], which sum up to m:
\* the floors, and one more for the largest remainders.
Dist(s, m) ==
  LET floor == [i \in DOMAIN s |-> (s[i] * m) \div Total(s)]
      rest(i) == (s[i] * m) % Total(s)
      ahead(i) == {k \in DOMAIN s : rest(k) > rest(i) \/ (rest(k) = rest(i) /\ k < i)}
  IN  [i \in DOMAIN s |->
         floor[i] + (IF Cardinality(ahead(i)) < m - Total(floor) THEN 1 ELSE 0)]

\* b^k
Power(b, k) == LET P[i \in 0 .. k] == IF i = 0 THEN 1 ELSE b * P[i - 1] IN P[k]

\* The weights of n moves, as integers: v, v(1-v), v(1-v)^2 .. with v a quarter or a half.
Weights(n, ply) ==
  [i \in 1 .. n |-> IF ply = 0 THEN Power(3, i - 1) * Power(4, n - i) ELSE Power(2, n - i)]

\* The stubs of move i: they are dealt in rounds, first stub first.
Dealt(usis, share, i) ==
  [p \in 1 .. share[i] |->
     usis[2 + Cardinality({s \in Squares(share) : s[2] < p \/ (s[2] = p /\ s[1] < i)})]]

\* The moves that got stubs, and the place of one of them in my_ignore_moves.
Chosen(share) == {i \in DOMAIN share : share[i] >= 1}
Place(C, i) == Cardinality({k \in C : k <= i})

\* The objects for these moves.
Children(o) ==
  LET M == node[o]
      share == Dist(Weights(M.keys, M.ply), Len(M.usis) - 1)
      C == Chosen(share)
  IN  [i \in C |->
         New(Dealt(M.usis, share, i), Append(M.pos, Place(C, i)), M.ply + 1, o, M.late)]

\* The locked half: the children search, each at its id, then the object itself the moves
\* left. @stopped is not looked at, except by single_search() when there is no move to share.
SplitAmong(o, kids, id) ==
  LET M == node[o]
      e == Head(M.usis)
      ids == {id[i] : i \in DOMAIN kids}
  IN  /\ \E late \in [DOMAIN kids -> BOOLEAN] :
           /\ \A i \in DOMAIN kids : IF Len(kids[i].usis) = 1 THEN ~late[i] ELSE M.late => late[i]
           /\ node' = [x \in Node |->
                IF x = o THEN [M EXCEPT !.pc = "count", !.kids = ids, !.stubs = {e}]
                ELSE IF x \in ids
                     THEN LET i == CHOOSE i \in DOMAIN kids : id[i] = x
                          IN  Searched(kids[i], late[i])
                     ELSE node[x]]
      /\ eng' = [x \in Engine |-> IF x = e THEN Search(eng[x], M.pos, TRUE, o)
                                  ELSE Engaged(eng[x], x, Range(kids))]
      /\ raised' = (Refuses(e) \/ \E i \in DOMAIN kids :
                                     Len(kids[i].usis) = 1 /\ Refuses(kids[i].usis[1]))
      /\ box' = [q \in Queue |-> IF q \in ids THEN <<>> ELSE box[q]]
      /\ UNCHANGED <<root, asked>>

Split(o) ==
  LET kids == Children(o)
  IN  /\ node[o].pc = "split" /\ node[o].keys > 0
      /\ Room(Cardinality(DOMAIN kids))
      /\ SplitAmong(o, kids, CHOOSE f \in [DOMAIN kids -> Unused] : IsInjective(f))

\* No move to share: single_search().
SplitNothing(o) ==
  LET M == node[o]
      e == Head(M.usis)
  IN  /\ M.pc = "split" /\ M.keys = 0
      /\ IF M.stopped
         THEN EndWith(o, <<Stopped>>) /\ UNCHANGED <<eng, raised>>
         ELSE /\ node' = [node EXCEPT ![o] = SingleNode(M)]
              /\ eng' = [eng EXCEPT ![e] = Search(@, M.pos, FALSE, M.sink)]
              /\ raised' = Refuses(e)
              /\ box' = box
      /\ UNCHANGED <<root, asked>>

\* Mutant: the first stub is not counted.
MutCount(o) ==
  LET n == Cardinality(node[o].kids)
  IN  /\ node[o].pc = "count"
      /\ node' = [node EXCEPT ![o].pc = "collect", ![o].count = n, ![o].stops = 0,
                              ![o].bounds = [i \in 1 .. n + 1 |-> -1], ![o].maxval = -1]
      /\ UNCHANGED <<eng, box, raised, root, asked>>

\* Past the lock: @searchers is counted, and the loop starts with no bound for any of them.
Count(o) ==
  LET n == Cardinality(node[o].kids) + Cardinality(node[o].stubs)
  IN  /\ node[o].pc = "count"
      /\ node' = [node EXCEPT ![o].pc = "collect", ![o].count = n, ![o].stops = 0,
                              ![o].bounds = [i \in 1 .. n |-> -1], ![o].maxval = -1]
      /\ UNCHANGED <<eng, box, raised, root, asked>>

\* Mutant: searchers that have not reported do not count.
MutIsFinal(maxval, bounds) ==
  maxval # -1 /\ \A i \in DOMAIN bounds : bounds[i] <= maxval

\* is_final(): every searcher has a bound, and none is above the best value.
IsFinal(maxval, bounds) ==
  maxval # -1 /\ \A i \in DOMAIN bounds : bounds[i] # -1 /\ bounds[i] <= maxval

\* What a report says of the position of M: the searcher it is from, and its value there.
Searcher(M, m) == IF m.own THEN M.count ELSE Last(m.pos)
ValueAt(m) == IF m.own THEN m.val ELSE Top - m.val

\* The object after the report m.
Noted(M, m) ==
  [M EXCEPT !.bounds = [@ EXCEPT ![Searcher(M, m)] = ValueAt(m)],
            !.maxval = IF m.type = "exact" /\ @ < ValueAt(m) THEN ValueAt(m) ELSE @]

CollectStopped(o) ==
  /\ node[o].pc = "collect" /\ node[o].stops < node[o].count
  /\ box[o] # <<>> /\ Head(box[o]).type = "stopped"
  /\ box' = [box EXCEPT ![o] = Tail(@)]
  /\ node' = [node EXCEPT ![o].stops = @ + 1]
  /\ UNCHANGED <<eng, raised, root, asked>>

\* A final value is pushed as exact, and stops the object itself; a better one is an update.
Collect(o) ==
  LET M == node[o]
      m == Head(box[o])
      A == Noted(M, m)
      noted == [node EXCEPT ![o] = A]
  IN  /\ M.pc = "collect" /\ M.stops < M.count
      /\ box[o] # <<>> /\ m.type # "stopped"
      /\ IF IsFinal(A.maxval, A.bounds)
         THEN /\ MayStop(noted, {o})
              /\ box' = [Push(box, o, <<Report(o, "exact", A.maxval)>>) EXCEPT ![o] = Tail(@)]
              /\ node' = StopNodes(noted, {o})
              /\ eng' = StopStubs(eng, StubsOf(noted, {o}))
         ELSE /\ box' = [(IF A.maxval > M.maxval
                          THEN Push(box, o, <<Report(o, "update", A.maxval)>>) ELSE box)
                           EXCEPT ![o] = Tail(@)]
              /\ node' = noted
              /\ eng' = eng
      /\ UNCHANGED <<raised, root, asked>>

CollectEnd(o) ==
  /\ node[o].pc = "collect" /\ node[o].stops >= node[o].count
  /\ EndWith(o, <<Stopped>>)
  /\ UNCHANGED <<eng, raised, root, asked>>

NodeStep(o) ==
  \/ BookAnswered(o) \/ GenmovesAnswered(o)
  \/ Presearch(o) \/ PresearchTake(o) \/ MateStopped(o) \/ PresearchEnd(o)
  \/ Forced(o) \/ ForcedStopped(o)
  \/ Timeless(o) \/ ProbabilityAnswered(o)
  \/ Split(o) \/ SplitNothing(o) \/ Count(o)
  \/ Collect(o) \/ CollectStopped(o) \/ CollectEnd(o)

ReaderStep(e) == Reader(e) /\ UNCHANGED <<node, root, asked>>

-----------------------------------------------------------------------------
(* A client that makes one root search, and stops it once or never.           *)

Init ==
  LET M == New([i \in 1 .. N |-> i], <<>>, 0, Client, FALSE)
  IN  /\ box = [q \in Queue |-> <<>>]
      /\ raised = FALSE
      /\ node = [o \in Node |-> IF o = 1 THEN RootCall(M) ELSE FreeNode]
      /\ eng = RootAsks([e \in Engine |-> IdleStub], 1, M)
      /\ root = 1
      /\ asked = FALSE

ClientStop ==
  /\ ~asked /\ ~InRootSearch(root)
  /\ MayStop(node, {root})
  /\ asked' = TRUE
  /\ node' = StopNodes(node, {root})
  /\ eng' = StopStubs(eng, StubsOf(node, {root}))
  /\ UNCHANGED <<box, raised, root>>

\* The program ends at the first raise.
Work ==
  /\ ~raised
  /\ (\E e \in Engine : ReaderStep(e)) \/ (\E o \in Node : NodeStep(o))

Next == Work \/ (~raised /\ ClientStop)

Spec == Init /\ [][Next]_vars

\* As long as a process has a command to answer or a thread can go on, one of them does.
FairSpec == Spec /\ WF_vars(Work)

\* A stop reaches an object that made its searchers and has not counted them yet, between
\* usiMulti.rb:180 and :183: the client's, or that of an object whose value is final.
StopsBetween ==
  \E o \in Node : node[o].pc = "count" /\ node'[o].pc = "count" /\ node'[o] # node[o]

\* The behaviours without such a stop, whatever the value of StopBetween.
StopsOutside == [][~StopsBetween]_vars

-----------------------------------------------------------------------------
(* Properties.                                                                *)

TypeOK ==
  /\ WrapperTypeOK
  /\ root \in Node \cup {0} /\ asked \in BOOLEAN
  /\ \A o \in Node :
       /\ node[o].pc \in {"free", "new", "book", "genmoves", "presearch", "await", "mated", "forced",
                          "forcedwait", "timeless", "probability", "split", "count", "collect",
                          "leaf", "done"}
       /\ ToSet(node[o].usis) \subseteq Engine /\ node[o].stubs \subseteq Engine
       /\ node[o].kids \subseteq Node /\ node[o].sink \in Queue
       /\ node[o].maxval \in Val \cup {-1}

\* No thread meets one of the raises: "new search while searching" and "new
\* checkmate_search while searching" of usiWrapper.rb:316 and :338, the unexpected message
\* of wait_stopped, or a child that ended without a value. A stub is given its next search
\* by another thread than the one that waited for the last.
NoRaise == ~raised

\* A searcher says :stopped once: an object never hears it from more searchers than it
\* counted, and nothing reaches the client after it.
StoppedOnce ==
  /\ \A o \in Node : node[o].pc = "collect" =>
        node[o].stops + Cardinality(StoppedAt(o)) <= node[o].count
  /\ \A i \in StoppedAt(Client) : i = Len(box[Client])

\* When the client hears :stopped, no process has an open command and no thread of the
\* tree runs, so that the client may use every stub at once: the book, the clock and the
\* next search use the first one without a look at @searching.
EndIsQuiet == CanFinish(Client) => Live = {} /\ \A e \in Engine : eng[e].jobs = <<>>

\* And a root search that the client did not stop has an exact result, though the objects
\* of the tree stop each other.
EndIsWhole ==
  /\ EndIsQuiet
  /\ CanFinish(Client) => asked \/ \E m \in ToSet(WaitStopped(Client)) : m.type = "exact"

\* A final value stands: what the searchers that were stopped for it still report does not
\* change it.
FinalStands ==
  [][\A o \in Node : node[o].pc = "collect" /\ node'[o].pc = "collect"
                       /\ IsFinal(node[o].maxval, node[o].bounds)
        => node'[o].maxval = node[o].maxval /\ IsFinal(node'[o].maxval, node'[o].bounds)]_vars

\* Every root search ends, with the client told.
Ends == <>(CanFinish(Client))
=============================================================================
