------------------------------ MODULE ForkJoin ------------------------------
(***************************************************************************)
(* What the thread pool promises, without locks, flags or sleeping: a      *)
(* worker at work on a task may fork a task of its own below it and enlist *)
(* others; the task is joined when nobody owes it work any more.  A worker *)
(* that waits for a task it has forked is enlisted only below that task,   *)
(* so some worker can always go on.                                        *)
(***************************************************************************)
EXTENDS FiniteSets

CONSTANTS Workers, Tasks, Root, Boss,   \* Boss works on the root task
          Owner(_)                      \* the worker that may fork a task

VARIABLES open,     \* the tasks forked and not yet joined
          owes,     \* owes[s]: the workers that have still to leave s
          up        \* up[s]: the task, or Root, that s was forked below

fjvars == <<open, owes, up>>

FJInit ==
  /\ open = {}
  /\ owes = [s \in Tasks |-> {}]
  /\ up = [s \in Tasks |-> Root]

WorksOn(u, s) == IF s = Root THEN u = Boss ELSE s \in open /\ u \in owes[s]

(* The tasks s was forked below, directly or not: all paths upwards from s *)
(* lead over them.                                                         *)
Above(s) ==
  {r \in open \ {s} : \A path \in SUBSET open :
     s \in path /\ (\A c \in path : up[c] # Root => up[c] \in path)
       => r \in path}

(* The tasks u is engaged in: it owes them work or waits to join them. *)
Engaged(u) == {s \in open : u \in owes[s] \/ Owner(s) = u}

(* u has joined all it has forked below s. *)
JoinedBelow(u, s) == \A r \in open : Owner(r) = u => s \notin Above(r)

Fork(s, p) ==
  /\ s \notin open
  /\ WorksOn(Owner(s), p)
  /\ JoinedBelow(Owner(s), p)
  /\ open' = open \cup {s}
  /\ owes' = [owes EXCEPT ![s] = {Owner(s)}]
  /\ up' = [up EXCEPT ![s] = p]

Enlist(s, u) ==
  /\ s \in open
  /\ Owner(s) \in owes[s]
  /\ u \notin owes[s]
  /\ u # Boss \/ Engaged(u) # {}
  /\ Engaged(u) \subseteq Above(s)
  /\ owes' = [owes EXCEPT ![s] = @ \cup {u}]
  /\ UNCHANGED <<open, up>>

Leave(s, u) ==
  /\ s \in open
  /\ u \in owes[s]
  /\ JoinedBelow(u, s)
  /\ owes' = [owes EXCEPT ![s] = @ \ {u}]
  /\ UNCHANGED <<open, up>>

Join(s) ==
  /\ s \in open
  /\ owes[s] = {}
  /\ open' = open \ {s}
  /\ up' = [up EXCEPT ![s] = Root]
  /\ UNCHANGED owes

FJNext ==
  /\ <<open, owes>>' # <<open, owes>>
  /\ \E s \in Tasks :
       \/ \E p \in Tasks \cup {Root} : Fork(s, p)
       \/ \E u \in Workers : Enlist(s, u) \/ Leave(s, u)
       \/ Join(s)

FJSpec == FJInit /\ [][FJNext]_fjvars
=============================================================================
