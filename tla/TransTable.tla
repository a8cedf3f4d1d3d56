----------------------------- MODULE TransTable -----------------------------
(***************************************************************************)
(* One cluster of the transposition table (tt.cpp, tt.h) and the code that *)
(* stores in it and looks positions up (search.cpp).  The clusters are     *)
(* independent of each other.  No lock protects them: a thread scans the   *)
(* entries of the cluster one by one, chooses one and writes it, here in   *)
(* two halves (the 8 bytes of key, move, type and generation, then the 8   *)
(* bytes of value, depth and static value), while others do the same.      *)
(*                                                                         *)
(* A key stands for a position.  The value of an entry is left out: what   *)
(* the search concludes from it is a choice of LookUp.  Of the static      *)
(* value only matters whether it is one, or VALUE_NONE.                    *)
(***************************************************************************)
EXTENDS Move16, FiniteSets

CONSTANTS
  Threads, Main,   \* the threads, and the one that runs the iterations
  Keys, NoKey,     \* the upper halves of the keys of positions, and 0
  InCheck,         \* the positions in which the side to move is in check
  ClusterSize,     \* 4 in the code
  Generations,     \* 256: the values of the generation
  Moves,           \* the moves that are stored
  Results,         \* the types and depths of results of searches
  Dfpn             \* GPSFISH_DFPN: whether the checkmate solver stores too

Exact == {"upper", "lower"}
Types == SUBSET Exact        \* VALUE_TYPE_NONE is {}, EXACT is UPPER | LOWER

DepthNone == -254            \* DEPTH_NONE, in units with ONE_PLY = 2
DepthsQs == {-2, -4}         \* DEPTH_QS_CHECKS, DEPTH_QS_NO_CHECKS
CheckmateDepth == 200

(* NoKey, 32 zero bits, marks an empty entry.  The code does not tell a     *)
(* position with such a key from it: Keys is the keys of the others.        *)
ASSUME ThreadsAssumption == Main \in Threads
ASSUME KeysAssumption == NoKey \notin Keys /\ InCheck \subseteq Keys
ASSUME SizeAssumption == ClusterSize \in Nat \ {0} /\ Generations \in Nat \ {0}
ASSUME MovesAssumption == Moves \subseteq AllMoves \ {NoMove}
ASSUME ResultsAssumption == Results \subseteq [type : Types \ {{}}, depth : Int]
ASSUME DfpnAssumption == Dfpn \in BOOLEAN

Slots == 1..ClusterSize

VARIABLES
  entries, generation,  \* the cluster; the generation of the table
  searching,            \* whether an iteration is running
  pc,                   \* the threads: where they are,
  todo,                 \* what they store (the arguments of store()),
  at, replace,          \* and the entries tte and replace of store()
  \* history: whether two threads have met at an entry, whether two have
  \* stored the same position at once, whether nobody wrote to the cluster
  \* while a thread scanned it, the move a thread was told to store, and what
  \* was last stored for a position
  met, twice, calm, told, latest

table == <<entries, generation>>
regs  == <<todo, at, replace>>
hist  == <<met, twice, calm, told, latest>>
vars  == <<table, searching, pc, regs, hist>>

Codes == {ToMove16(m) : m \in Moves \cup {NoMove}}
Entry == [key : Keys \cup {NoKey}, move : Codes, type : Types,
          gen : 0..Generations - 1, depth : Int, static : BOOLEAN]
Order == [key : Keys \cup {NoKey}, move : Codes, type : Types, depth : Int, static : BOOLEAN]
Fact  == [move : Moves \cup {NoMove}, type : Types, depth : Int,
          static : BOOLEAN]

EmptyEntry == [key |-> NoKey, move |-> 0, type |-> {}, gen |-> 0, depth |-> 0,
               static |-> TRUE]
NoFact == [move |-> NoMove, type |-> {}, depth |-> 0, static |-> TRUE]
NoOrder(k) == [key |-> k, move |-> 0, type |-> {}, depth |-> 0, static |-> TRUE]

TypeOK ==
  /\ entries \in [Slots -> Entry]
  /\ generation \in 0..Generations - 1
  /\ searching \in BOOLEAN
  /\ pc \in [Threads -> {"idle", "scan", "head", "body", "eval"}]
  /\ todo \in [Threads -> Order]
  /\ at \in [Threads -> 1..ClusterSize + 1]
  /\ replace \in [Threads -> Slots]
  /\ met \in BOOLEAN
  /\ twice \in BOOLEAN
  /\ calm \in [Threads -> BOOLEAN]
  /\ told \in [Threads -> Moves \cup {NoMove}]
  /\ latest \in [Keys -> Fact]

Init ==
  /\ entries = [s \in Slots |-> EmptyEntry]
  /\ generation = 0
  /\ searching = FALSE
  /\ pc = [t \in Threads |-> "idle"]
  /\ todo = [t \in Threads |-> NoOrder(NoKey)]
  /\ at = [t \in Threads |-> 1]
  /\ replace = [t \in Threads |-> 1]
  /\ met = FALSE
  /\ twice = FALSE
  /\ calm = [t \in Threads |-> TRUE]
  /\ told = [t \in Threads |-> NoMove]
  /\ latest = [k \in Keys |-> NoFact]

-----------------------------------------------------------------------------
(* probe(): the first entry with the key, if any. *)
Present(k) == \E s \in Slots : entries[s].key = k
Probe(k) == CHOOSE s \in Slots : /\ entries[s].key = k
                                 /\ \A r \in 1..s - 1 : entries[r].key # k

(* Threads that have chosen the entry they write; two meet at an entry when *)
(* one reads or chooses it before another has written it.                   *)
Writing(t) == pc[t] \in {"head", "body"}
Meets(t, s) == \E u \in Threads \ {t} : Writing(u) /\ at[u] = s
Storing(t) == pc[t] = "scan" \/ Writing(t)

(* t writes to the cluster: a thread that scans it may have read the old entry. *)
Disturb(t) == calm' = [u \in Threads |-> calm[u] /\ (u = t \/ pc[u] # "scan")]

Goto(t, l) == pc' = [pc EXCEPT ![t] = l]

(* store() is called by t. *)
Store(t, k, m, type, depth, static) ==
  /\ todo' = [todo EXCEPT ![t] = [key |-> k, move |-> ToMove16(m),
                                  type |-> type, depth |-> depth,
                                  static |-> static]]
  /\ at' = [at EXCEPT ![t] = 1]
  /\ replace' = [replace EXCEPT ![t] = 1]
  /\ told' = [told EXCEPT ![t] = m]
  /\ calm' = [calm EXCEPT ![t] = \A u \in Threads \ {t} : ~Storing(u)]
  /\ twice' = (twice \/ \E u \in Threads \ {t} : Storing(u) /\ todo[u].key = k)
  /\ Goto(t, "scan")
  /\ UNCHANGED <<table, searching, met, latest>>

(* The replace strategy: the sum of c1, c2 and c3. *)
MutReplaces(r, e) ==
  LET c1 == IF r.gen = generation THEN 2 ELSE 0
      c2 == IF e.gen = generation THEN -2 ELSE 0
      c3 == IF e.depth > r.depth THEN 1 ELSE 0
  IN c1 + c2 + c3 > 0

Replaces(r, e) ==
  LET c1 == IF r.gen = generation THEN 2 ELSE 0
      c2 == IF e.gen = generation \/ e.type = Exact THEN -2 ELSE 0
      c3 == IF e.depth < r.depth THEN 1 ELSE 0
  IN c1 + c2 + c3 > 0

(* The loop of store() over the entries. *)
MutMatches(e, k) == e.key = NoKey
Matches(e, k) == e.key = NoKey \/ e.key = k

Scan(t) ==
  /\ pc[t] = "scan"
  /\ at[t] \in Slots
  /\ ~Matches(entries[at[t]], todo[t].key)
  /\ replace' = [replace EXCEPT ![t] =
                   IF Replaces(entries[@], entries[at[t]]) THEN at[t] ELSE @]
  /\ at' = [at EXCEPT ![t] = @ + 1]
  /\ met' = (met \/ Meets(t, at[t]))
  /\ UNCHANGED <<table, searching, pc, todo, twice, calm, told, latest>>

(* An empty entry, or the one of this position, whose move is kept when    *)
(* store() is given none.                                                  *)
MutKeptMove(t) == todo[t].move
KeptMove(t) == IF todo[t].move = 0 THEN entries[at[t]].move ELSE todo[t].move

Found(t) ==
  /\ pc[t] = "scan"
  /\ at[t] \in Slots
  /\ Matches(entries[at[t]], todo[t].key)
  /\ todo' = [todo EXCEPT ![t].move = KeptMove(t)]
  /\ told' = [told EXCEPT ![t] =
                IF @ = NoMove /\ entries[at[t]].key = todo[t].key
                THEN latest[todo[t].key].move ELSE @]
  /\ met' = (met \/ Meets(t, at[t]))
  /\ Goto(t, "head")
  /\ UNCHANGED <<table, searching, at, replace, twice, calm, latest>>

(* None: the entry to replace is chosen. *)
Choose(t) ==
  /\ pc[t] = "scan"
  /\ at[t] = ClusterSize + 1
  /\ at' = [at EXCEPT ![t] = replace[t]]
  /\ met' = (met \/ Meets(t, replace[t]))
  /\ Goto(t, "head")
  /\ UNCHANGED <<table, searching, todo, replace, twice, calm, told, latest>>

(* save(), the two halves of the entry. *)
WriteHead(t) ==
  /\ pc[t] = "head"
  /\ LET o == todo[t]
     IN entries' = [entries EXCEPT ![at[t]] =
                      [@ EXCEPT !.key = o.key, !.move = o.move, !.type = o.type,
                                !.gen = generation]]
  /\ Disturb(t)
  /\ Goto(t, "body")
  /\ UNCHANGED <<generation, searching, regs, met, twice, told, latest>>

WriteBody(t) ==
  /\ pc[t] = "body"
  /\ LET o == todo[t]
     IN /\ entries' = [entries EXCEPT ![at[t]] =
                         [@ EXCEPT !.depth = o.depth, !.static = o.static]]
        /\ latest' = [latest EXCEPT ![o.key] =
                        [move |-> told[t], type |-> o.type, depth |-> o.depth,
                         static |-> o.static]]
  /\ Disturb(t)
  /\ Goto(t, "idle")
  /\ UNCHANGED <<generation, searching, regs, met, twice, told>>

-----------------------------------------------------------------------------
(* What the search stores: the result of a node (step 20; an upper bound    *)
(* has no move) or of a quiescence search, its stand pat, and the static   *)
(* value of a position not yet in the table (step 5).  In check the static *)
(* value is VALUE_NONE.                                                    *)
Known(k) == k \notin InCheck

StoreResult(t, k) ==
  \E r \in Results, m \in Moves \cup {NoMove} :
    /\ r.type = {"upper"} /\ r.depth \notin DepthsQs => m = NoMove
    /\ Store(t, k, m, r.type, r.depth, Known(k))

StandPat(t, k) ==
  /\ Known(k) /\ ~Present(k)
  /\ Store(t, k, NoMove, {"lower"}, DepthNone, TRUE)

StoreEval(t, k) ==
  /\ Known(k) /\ ~Present(k)
  /\ Store(t, k, NoMove, {}, DepthNone, TRUE)

SearchStores(t) ==
  /\ searching /\ pc[t] = "idle"
  /\ \E k \in Keys : StoreResult(t, k) \/ StandPat(t, k) \/ StoreEval(t, k)

(* A node looks its position up (step 4 and 5; qsearch).  It may return    *)
(* the value of the entry; above tells whether that is at least beta, mate *)
(* whether it is a mate score, for which the depth does not matter.        *)
Nodes == {"root", "pv", "nonpv", "qpv", "qnonpv"}
Depths(node) ==
  IF node \in {"qpv", "qnonpv"} THEN DepthsQs ELSE {r.depth : r \in Results}

Returns(node, e, d, above, mate) ==
  CASE node \in {"root", "qpv"} -> FALSE
    [] node = "pv" -> e.depth >= d /\ e.type = Exact
    [] OTHER -> /\ e.depth >= d \/ mate
                /\ (IF above THEN "lower" ELSE "upper") \in e.type

LookUp(t, k, node) ==
  /\ searching /\ pc[t] = "idle"
  /\ Present(k)
  /\ \E d \in Depths(node), above, mate \in BOOLEAN :
       LET s == Probe(k)
           back == Returns(node, entries[s], d, above, mate)
       IN /\ IF back /\ node # "qnonpv"
             THEN /\ entries' = [entries EXCEPT ![s].gen = generation]
                  /\ Disturb(t)
             ELSE UNCHANGED <<entries, calm>>
          /\ IF back \/ ~Known(k)
             THEN UNCHANGED <<pc, at, todo>>
             ELSE /\ Goto(t, "eval") /\ at' = [at EXCEPT ![t] = s]
                  /\ todo' = [todo EXCEPT ![t] = NoOrder(k)]
  /\ met' = (met \/ Meets(t, Probe(k)))
  /\ UNCHANGED <<generation, searching, replace, twice, told, latest>>

(* It goes on with the static value of the entry.                          *)
UseStatic(t) ==
  /\ pc[t] = "eval"
  /\ Goto(t, "idle")
  /\ UNCHANGED <<table, searching, regs, hist>>

-----------------------------------------------------------------------------
(* Between the iterations, when all other threads are idle: the checkmate  *)
(* solver stores the mates it finds, without a static value, and moves of  *)
(* a variation are written back unless their entries hold them still.      *)
AllIdle == \A t \in Threads : pc[t] = "idle"

StoreMate(k) ==
  /\ Dfpn
  /\ ~searching /\ AllIdle
  /\ Present(k) => LET e == entries[Probe(k)]
                   IN e.type # Exact \/ e.depth < CheckmateDepth
  /\ \E m \in Moves : Store(Main, k, m, Exact, CheckmateDepth, FALSE)

InsertPv(k) ==
  /\ ~searching /\ AllIdle
  /\ \E m \in Moves :
       /\ Present(k) => FromMove16(entries[Probe(k)].move) # m
       /\ Store(Main, k, m, {}, DepthNone, Known(k))

Iterate ==
  /\ AllIdle
  /\ searching' = ~searching
  /\ UNCHANGED <<table, pc, regs, hist>>

MutNextGeneration == generation + 1
NextGeneration == (generation + 1) % Generations

NewSearch ==
  /\ ~searching /\ AllIdle
  /\ generation' = NextGeneration
  /\ UNCHANGED <<entries, searching, pc, regs, hist>>

(* set_size(), which clears a table of another size, and clear(). *)
Clear ==
  /\ ~searching /\ AllIdle
  /\ entries' = [s \in Slots |-> EmptyEntry]
  /\ UNCHANGED <<generation, searching, pc, regs, hist>>

StoreSteps(t) == Scan(t) \/ Found(t) \/ Choose(t) \/ WriteHead(t) \/ WriteBody(t)

Next ==
  \/ \E t \in Threads :
       \/ SearchStores(t) \/ StoreSteps(t) \/ UseStatic(t)
       \/ \E k \in Keys, n \in Nodes : LookUp(t, k, n)
  \/ \E k \in Keys : StoreMate(k) \/ InsertPv(k)
  \/ Iterate \/ NewSearch \/ Clear

Spec == Init /\ [][Next]_vars

-----------------------------------------------------------------------------
(* Two stores of the same position at once may each take an entry.  As     *)
(* long as that has not happened, whatever else the threads did at once, a *)
(* position has one entry: what probe() returns shadows no other.          *)
OneEntry ==
  ~twice => \A r, s \in Slots :
              entries[r].key = entries[s].key /\ entries[r].key # NoKey => r = s

(* As long as no two threads have met either: an entry that is not being   *)
(* written is what was last stored for its position, whole, with the move  *)
(* last stored for it even when the last store had none.                   *)
LatestFound ==
  ~twice /\ ~met =>
    \A s \in Slots :
      (entries[s].key # NoKey /\ \A t \in Threads : ~(pc[t] = "body" /\ at[t] = s)) =>
        LET e == entries[s]
        IN latest[e.key] = [move |-> FromMove16(e.move), type |-> e.type,
                            depth |-> e.depth, static |-> e.static]

(* store(): "it replaces the least valuable of entries": one of the present *)
(* search makes place only when all entries are of the present search or    *)
(* exact, and, when all are of the present search, only the shallowest.     *)
(* This holds of a cluster nobody wrote to meanwhile.                       *)
Current(e) == e.gen = generation
LeastOf(v, S) ==
  Current(v) =>
    /\ \A s \in S : Current(entries[s]) \/ entries[s].type = Exact
    /\ (\A s \in S : Current(entries[s])) => \A s \in S : v.depth <= entries[s].depth

Victim ==
  \A t \in Threads :
    pc[t] = "scan" /\ at[t] = ClusterSize + 1 /\ calm[t] =>
      LeastOf(entries[replace[t]], Slots)

(* search() and qsearch(): "assert(tte->static_value() != VALUE_NONE)",    *)
(* as long as no two threads have met.                                     *)
StaticKnown ==
  ~twice /\ ~met =>
    \A t \in Threads : pc[t] = "eval" => entries[at[t]].static
=============================================================================
