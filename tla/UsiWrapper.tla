----------------------------- MODULE UsiWrapper -----------------------------
(* The stubs of the engine processes of the cluster player, gpsshogi/bin/cluster/  *)
(* usiWrapper.rb. A stub hands commands to its process through a pipe; a reader     *)
(* thread turns each answer into messages on the queue that the stub remembers.     *)
(* The process answers its commands in order, at a time of its own. What a search   *)
(* finds is any value of Val; the extension of a search by @extend is part of it.   *)
EXTENDS Integers, Sequences

CONSTANTS N,        \* the number of engine processes
          Nodes,    \* the number of UsiMulti objects that may be alive
          Top,      \* values are 0 .. Top, and Top - v is v for the other side
          MaxKeys   \* BOUND: the moves a process may name in an answer

ASSUMPTION SizesAssumption ==
  /\ N \in Nat \ {0}
  /\ Nodes \in Nat \ {0}
  /\ Top \in Nat \ {0}
  /\ MaxKeys \in Nat

Engine == 1 .. N
Node == 1 .. Nodes
Val == 0 .. Top

\* Queues: the local queue of a UsiMulti object, and two of the objects' client.
Finish == -1
Client == 0
Queue == Finish .. Nodes

VARIABLES eng,     \* the stubs: @searching, @stopped, @finish_queue and the open commands
          box,     \* what waits on each queue
          raised   \* some thread ran into a raise

\* A message. own: the search had moves to ignore; n: how many moves the answer names.
Msg(type, pos, own, val, n) ==
  [type |-> type, pos |-> pos, own |-> own, val |-> val, n |-> n]

Stopped == Msg("stopped", <<>>, FALSE, 0, 0)

IdleStub == [searching |-> FALSE, stopped |-> FALSE, sink |-> Client, jobs |-> <<>>]

Job(kind, pos, own) == [kind |-> kind, pos |-> pos, own |-> own]

-----------------------------------------------------------------------------
(* The methods of a stub: what each makes of the stub r.                      *)

\* search() and checkmate_search(): refused by a raise while searching, see Refuses.
Go(r, kind, pos, own, q) ==
  [searching |-> TRUE, stopped |-> FALSE, sink |-> q,
   jobs |-> Append(r.jobs, Job(kind, pos, own))]

Search(r, pos, own, q) == Go(r, "search", pos, own, q)

CheckmateSearch(r, pos, q) == Go(r, "mate", pos, FALSE, q)

\* searchbook(), genmoves(), genmove_probability(): asked without a look at @searching,
\* and the queue of a command that is still open is replaced.
Ask(r, kind, pos, q) ==
  [r EXCEPT !.sink = q, !.jobs = Append(@, Job(kind, pos, FALSE))]

\* The raise at the head of search() and checkmate_search().
Refuses(e) == eng[e].searching

\* stop(), for a set of stubs.
StopStubs(E, S) == [e \in Engine |-> [E[e] EXCEPT !.stopped = @ \/ e \in S]]

-----------------------------------------------------------------------------
(* The reader thread of a stub.                                               *)

\* handle_bestmove(): the answer of a search or of the book, then :stopped. The value of
\* a book answer is not read; n is 0 when the book has no move ('pass').
Bestmove(j) ==
  IF j.kind = "search"
  THEN {<<Msg("exact", j.pos, j.own, v, 1), Stopped>> : v \in Val}
  ELSE {<<Msg("exact", j.pos, FALSE, 0, n), Stopped>> : n \in {0, 1}}

\* Mutant: a mate has the value of the side that is mated.
MutCheckmate(j) == {<<Msg(type, j.pos, FALSE, -Top, 0)>> : type \in {"mate", "nomate"}}

\* The answer of the checkmate solver: a mate, or none or too late.
Checkmate(j) == {<<Msg(type, j.pos, FALSE, Top, 0)>> : type \in {"mate", "nomate"}}

\* The answers to genmove and genmove_probability name moves.
Genmove(j) == {<<Msg("moves", j.pos, FALSE, 0, n)>> : n \in 0 .. MaxKeys}

Answers(j) ==
  CASE j.kind \in {"search", "book"} -> Bestmove(j)
    [] j.kind = "mate" -> Checkmate(j)
    [] j.kind \in {"genmoves", "probability"} -> Genmove(j)

\* Mutant: the answer of the checkmate solver leaves @searching.
MutReader(e) ==
  /\ eng[e].jobs # <<>>
  /\ LET j == Head(eng[e].jobs)
     IN  /\ \E m \in Answers(j) : box' = [box EXCEPT ![eng[e].sink] = @ \o m]
         /\ eng' = [eng EXCEPT ![e].jobs = Tail(@),
                               ![e].searching = @ /\ j.kind \notin {"search", "book"}]
  /\ UNCHANGED raised

\* reader(): the next answer of process e goes to the queue the stub remembers now.
\* bestmove and checkmate end @searching, whatever they answer.
Reader(e) ==
  /\ eng[e].jobs # <<>>
  /\ LET j == Head(eng[e].jobs)
     IN  /\ \E m \in Answers(j) : box' = [box EXCEPT ![eng[e].sink] = @ \o m]
         /\ eng' = [eng EXCEPT ![e].jobs = Tail(@),
                               ![e].searching =
                                  @ /\ j.kind \in {"genmoves", "probability"}]
  /\ UNCHANGED raised

-----------------------------------------------------------------------------
(* UsiWrapper.wait_stopped: reads a queue up to :stopped and keeps the last   *)
(* result. Only the caller reads the queue, so the reads are one step.        *)

StoppedAt(q) == {i \in DOMAIN box[q] : box[q][i].type = "stopped"}

CanFinish(q) == StoppedAt(q) # {}

FirstStopped(q) == CHOOSE i \in StoppedAt(q) : \A k \in StoppedAt(q) : i <= k

\* The result, as a sequence of at most one message: none is nil.
WaitStopped(q) ==
  LET i == FirstStopped(q)
  IN  IF i = 1 THEN <<>> ELSE <<box[q][i - 1]>>

\* wait_stopped raises on a message of another kind.
Unexpected(q) ==
  \E i \in 1 .. FirstStopped(q) - 1 : box[q][i].type \notin {"exact", "update"}

\* What is left on the queue.
AfterStopped(q) == SubSeq(box[q], FirstStopped(q) + 1, Len(box[q]))

-----------------------------------------------------------------------------
JobKind == {"search", "mate", "book", "genmoves", "probability"}
MsgType == {"exact", "update", "stopped", "mate", "nomate", "moves"}

WrapperTypeOK ==
  /\ \A e \in Engine :
       /\ eng[e].searching \in BOOLEAN /\ eng[e].stopped \in BOOLEAN
       /\ eng[e].sink \in Queue
       /\ \A i \in DOMAIN eng[e].jobs : eng[e].jobs[i].kind \in JobKind
  /\ \A q \in Queue : \A i \in DOMAIN box[q] :
       box[q][i].type \in MsgType /\ box[q][i].val \in Val
  /\ raised \in BOOLEAN
=============================================================================
