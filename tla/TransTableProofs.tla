-------------------------- MODULE TransTableProofs --------------------------
(***************************************************************************)
(* Proofs about a cluster of the transposition table, for any number of    *)
(* threads, entries and positions: TypeOK, OneEntry, LatestFound, Victim.  *)
(***************************************************************************)
EXTENDS TransTable, WellFoundedInduction, TLAPS

(* The bits of a move on the board. *)
LEMMA Decoded ==
  ASSUME NEW x, NEW f, NEW to, x # 0, (x \div 128) % 2 # 1,
         x % 128 = f, (x \div 256) % 128 = to
  PROVE  /\ (x \div 32768) % 2 = 1 =>
              FromMove16(x) = [kind |-> "board", from |-> f, to |-> to,
                               promotes |-> TRUE]
         /\ (x \div 32768) % 2 # 1 =>
              FromMove16(x) = [kind |-> "board", from |-> f, to |-> to,
                               promotes |-> FALSE]
<1> DEFINE b == (x \div 32768) % 2
<1>1. FromMove16(x) = [kind |-> "board", from |-> f, to |-> to, promotes |-> b = 1]
  BY DEF FromMove16
<1> HIDE DEF b
<1>2. b = 1 => FromMove16(x) = [kind |-> "board", from |-> f, to |-> to,
                                promotes |-> TRUE]
  BY <1>1
<1>3. b # 1 => FromMove16(x) = [kind |-> "board", from |-> f, to |-> to,
                                promotes |-> FALSE]
  BY <1>1
<1> QED
  BY <1>2, <1>3 DEF b

(* Every move survives its 16 bits. *)
THEOREM RoundTrip == \A m \in AllMoves : FromMove16(ToMove16(m)) = m
<1> SUFFICES ASSUME NEW m \in AllMoves
             PROVE  FromMove16(ToMove16(m)) = m
  OBVIOUS
<1>1. CASE m = NoMove
  BY <1>1 DEF FromMove16, ToMove16, NoMove
<1>2. CASE m \in DropMoves
  <2>1. /\ m.kind = "drop" /\ m.ptype \in 0..15 /\ m.to \in 1..81
        /\ m = [kind |-> "drop", ptype |-> m.ptype, to |-> m.to]
    BY <1>2 DEF DropMoves, Ptypes, Squares
  <2> DEFINE x == 128 + m.ptype + m.to * 256
  <2>2. ToMove16(m) = x
    BY <2>1 DEF ToMove16
  <2>3. /\ x # 0 /\ (x \div 128) % 2 = 1 /\ (x - 128) % 256 = m.ptype
        /\ (x \div 256) % 128 = m.to
    BY <2>1, SMTT(30)
  <2> QED
    BY <2>1, <2>2, <2>3 DEF FromMove16, DropPtype
<1>3. CASE m \in BoardMoves
  <2>1. /\ m.kind = "board" /\ m.from \in 1..81 /\ m.to \in 1..81
        /\ m.promotes \in BOOLEAN
        /\ m = [kind |-> "board", from |-> m.from, to |-> m.to,
                promotes |-> m.promotes]
    BY <1>3 DEF BoardMoves, Squares
  <2> DEFINE p == IF m.promotes THEN 32768 ELSE 0
             x == m.from + m.to * 256 + p
  <2>2. ToMove16(m) = x
    BY <2>1 DEF ToMove16
  <2>3. /\ x # 0 /\ (x \div 128) % 2 # 1 /\ x % 128 = m.from
        /\ (x \div 256) % 128 = m.to
        /\ m.promotes => (x \div 32768) % 2 = 1
        /\ ~m.promotes => (x \div 32768) % 2 # 1
    <3>1. CASE m.promotes
      <4>1. x = m.from + m.to * 256 + 32768
        BY <3>1
      <4> QED
        BY <2>1, <3>1, <4>1, SMTT(30)
    <3>2. CASE ~m.promotes
      <4>1. x = m.from + m.to * 256
        BY <2>1, <3>2
      <4> QED
        BY <2>1, <3>2, <4>1, SMTT(30)
    <3> QED
      BY <3>1, <3>2
  <2> HIDE DEF x
  <2>4. m.promotes => FromMove16(x) = [kind |-> "board", from |-> m.from,
                                       to |-> m.to, promotes |-> TRUE]
    BY <2>3, Decoded
  <2>5. ~m.promotes => FromMove16(x) = [kind |-> "board", from |-> m.from,
                                        to |-> m.to, promotes |-> FALSE]
    BY <2>3, Decoded
  <2> QED
    BY <2>1, <2>2, <2>4, <2>5
<1> QED
  BY <1>1, <1>2, <1>3 DEF AllMoves

-----------------------------------------------------------------------------
(* A set of numbers has a least element, so probe() finds the first entry. *)
LEMMA LeastNat ==
  ASSUME NEW T, T \subseteq Nat, T # {}
  PROVE  \E x \in T : \A y \in T : x <= y
<1>1. IsWellFoundedOn(OpToRel(<, Nat), Nat)
  BY NatLessThanWellFounded
<1>2. PICK x \in T : \A y \in T : <<y, x>> \notin OpToRel(<, Nat)
  BY <1>1, WFMin
<1>3. \A y \in T : ~(y < x)
  BY <1>2 DEF OpToRel
<1> QED
  BY <1>3

LEMMA ProbeFinds ==
  ASSUME NEW k, Present(k)
  PROVE  Probe(k) \in Slots /\ entries[Probe(k)].key = k
<1> DEFINE T == {s \in Slots : entries[s].key = k}
           P(s) == /\ entries[s].key = k
                   /\ \A r \in 1..s - 1 : entries[r].key # k
<1>1. T \subseteq Nat /\ T # {}
  BY DEF Present, Slots
<1>2. PICK s \in T : \A r \in T : s <= r
  BY <1>1, LeastNat
<1>3. s \in Slots /\ P(s)
  BY <1>2, SizeAssumption DEF Slots
<1> QED
  BY <1>3 DEF Probe

-----------------------------------------------------------------------------
USE ThreadsAssumption, KeysAssumption, SizeAssumption, MovesAssumption,
    ResultsAssumption
USE DEF table, regs, hist

LEMMA ZeroCode == 0 \in Codes
<1>1. ToMove16(NoMove) = 0
  BY DEF ToMove16, NoMove
<1> QED
  BY <1>1 DEF Codes

LEMMA StoreType ==
  ASSUME TypeOK, NEW t \in Threads, NEW k \in Keys, NEW m \in Moves \cup {NoMove},
         NEW type \in Types, NEW depth \in Int, NEW static \in BOOLEAN,
         Store(t, k, m, type, depth, static)
  PROVE  TypeOK'
<1>1. [key |-> k, move |-> ToMove16(m), type |-> type, depth |-> depth,
       static |-> static] \in Order
  BY DEF Order, Codes
<1> QED
  BY <1>1 DEF TypeOK, Store, Goto, Slots

(* The kinds of calls of store(). *)
LEMMA SearchStoresIs ==
  ASSUME NEW t \in Threads, SearchStores(t)
  PROVE  \E k \in Keys, m \in Moves \cup {NoMove}, type \in Types,
            depth \in Int, static \in BOOLEAN :
           Store(t, k, m, type, depth, static)
<1> PICK k \in Keys : StoreResult(t, k) \/ StandPat(t, k) \/ StoreEval(t, k)
  BY DEF SearchStores
<1>1. CASE StoreResult(t, k)
  <2>1. PICK r \in Results, m \in Moves \cup {NoMove} :
          Store(t, k, m, r.type, r.depth, Known(k))
    BY <1>1 DEF StoreResult
  <2>2. r.type \in Types /\ r.depth \in Int /\ Known(k) \in BOOLEAN
    BY DEF Known
  <2> QED
    BY <2>1, <2>2
<1>2. CASE StandPat(t, k)
  <2>1. {"lower"} \in Types /\ DepthNone \in Int
    BY DEF Types, Exact, DepthNone
  <2> QED
    BY <1>2, <2>1 DEF StandPat
<1>3. CASE StoreEval(t, k)
  <2>1. {} \in Types /\ DepthNone \in Int
    BY DEF Types, DepthNone
  <2> QED
    BY <1>3, <2>1 DEF StoreEval
<1> QED
  BY <1>1, <1>2, <1>3

(* The stores of the main thread between the iterations. *)
LEMMA MainStoresIs ==
  ASSUME NEW k \in Keys, StoreMate(k) \/ InsertPv(k)
  PROVE  /\ AllIdle /\ ~searching
         /\ \E m \in Moves \cup {NoMove}, type \in Types, depth \in Int,
               static \in BOOLEAN : Store(Main, k, m, type, depth, static)
<1>1. /\ Exact \in Types /\ {} \in Types /\ DepthNone \in Int
      /\ CheckmateDepth \in Int /\ Known(k) \in BOOLEAN
  BY DEF Types, Exact, DepthNone, CheckmateDepth, Known
<1>2. CASE StoreMate(k)
  BY <1>1, <1>2 DEF StoreMate
<1>3. CASE InsertPv(k)
  BY <1>1, <1>3 DEF InsertPv
<1> QED
  BY <1>2, <1>3

(* A thread in store() stores a position. *)
KeyOK == \A t \in Threads : Storing(t) => todo[t].key \in Keys

LEMMA KeyStep ==
  ASSUME TypeOK, KeyOK, [Next]_vars
  PROVE  KeyOK'
<1>1. ASSUME NEW t \in Threads, NEW k \in Keys, NEW m, NEW type, NEW depth,
             NEW static, Store(t, k, m, type, depth, static)
      PROVE  KeyOK'
  BY <1>1 DEF TypeOK, KeyOK, Store, Goto, Storing, Writing
<1>2. ASSUME NEW t \in Threads, SearchStores(t)
      PROVE  KeyOK'
  BY <1>1, <1>2, SearchStoresIs
<1>3. ASSUME NEW k \in Keys, StoreMate(k) \/ InsertPv(k)
      PROVE  KeyOK'
  BY <1>1, <1>3, MainStoresIs
<1>4. ASSUME NEW t \in Threads, Scan(t)
      PROVE  KeyOK'
  BY <1>4 DEF TypeOK, KeyOK, Scan, Storing, Writing
<1>5. ASSUME NEW t \in Threads, Found(t)
      PROVE  KeyOK'
  <2>1. todo[t].key \in Keys
    BY <1>5 DEF KeyOK, Found, Storing
  <2>2. todo'[t].key = todo[t].key
    BY <1>5 DEF TypeOK, Found, Order
  <2>3. \A u \in Threads \ {t} : todo'[u] = todo[u] /\ pc'[u] = pc[u]
    BY <1>5 DEF TypeOK, Found, Goto
  <2> QED
    BY <2>1, <2>2, <2>3 DEF KeyOK, Storing, Writing
<1>6. ASSUME NEW t \in Threads, Choose(t)
      PROVE  KeyOK'
  BY <1>6 DEF TypeOK, KeyOK, Choose, Goto, Storing, Writing
<1>7. ASSUME NEW t \in Threads, WriteHead(t) \/ WriteBody(t)
      PROVE  KeyOK'
  BY <1>7 DEF TypeOK, KeyOK, WriteHead, WriteBody, Goto, Storing, Writing
<1>8. ASSUME NEW t \in Threads, NEW k \in Keys, NEW n \in Nodes, LookUp(t, k, n)
      PROVE  KeyOK'
  <2>1. \/ UNCHANGED <<pc, todo>>
        \/ /\ Goto(t, "eval")
           /\ todo' = [todo EXCEPT ![t] = NoOrder(k)]
    BY <1>8 DEF LookUp
  <2> QED
    BY <2>1 DEF TypeOK, KeyOK, Goto, Storing, Writing
<1>9. ASSUME NEW t \in Threads, UseStatic(t)
      PROVE  KeyOK'
  BY <1>9 DEF TypeOK, KeyOK, UseStatic, Goto, Storing, Writing
<1>10. CASE Iterate \/ NewSearch \/ Clear \/ UNCHANGED vars
  BY <1>10 DEF KeyOK, Iterate, NewSearch, Clear, vars, Storing, Writing
<1> QED
  BY <1>2, <1>3, <1>4, <1>5, <1>6, <1>7, <1>8, <1>9, <1>10 DEF Next, StoreSteps

LEMMA TypeInit ==
  ASSUME Init
  PROVE  TypeOK /\ KeyOK
<1>1. EmptyEntry \in Entry
  BY ZeroCode DEF EmptyEntry, Entry, Types, Exact
<1>2. NoOrder(NoKey) \in Order
  BY ZeroCode DEF NoOrder, Order, Types, Exact
<1>3. NoFact \in Fact
  BY DEF NoFact, Fact, Types, Exact
<1>4. entries \in [Slots -> Entry] /\ todo \in [Threads -> Order]
      /\ latest \in [Keys -> Fact]
  BY <1>1, <1>2, <1>3 DEF Init
<1>5. KeyOK
  BY DEF Init, KeyOK, Storing, Writing
<1>6. /\ generation \in 0..Generations - 1 /\ 1 \in Slots
      /\ 1 \in 1..ClusterSize + 1
  BY DEF Init, Slots
<1> QED
  BY <1>4, <1>5, <1>6 DEF Init, TypeOK

LEMMA TypeStep ==
  ASSUME TypeOK, KeyOK, [Next]_vars
  PROVE  TypeOK'
<1>1. ASSUME NEW t \in Threads, SearchStores(t)
      PROVE  TypeOK'
  BY <1>1, SearchStoresIs, StoreType
<1>2. ASSUME NEW k \in Keys, StoreMate(k) \/ InsertPv(k)
      PROVE  TypeOK'
  BY <1>2, MainStoresIs, StoreType
<1>3. ASSUME NEW t \in Threads, Scan(t)
      PROVE  TypeOK'
  BY <1>3 DEF TypeOK, Scan, Slots
<1>4. ASSUME NEW t \in Threads, Found(t)
      PROVE  TypeOK'
  <2>1. /\ todo[t] \in Order /\ KeptMove(t) \in Codes /\ at[t] \in Slots
        /\ entries[at[t]] \in Entry
    BY <1>4 DEF TypeOK, Found, KeptMove, Entry, Order
  <2>2. [todo[t] EXCEPT !.move = KeptMove(t)] \in Order
    BY <2>1 DEF Order
  <2>3. todo' \in [Threads -> Order]
    BY <1>4, <2>2 DEF TypeOK, Found
  <2>4. latest[todo[t].key].move \in Moves \cup {NoMove}
    BY <1>4 DEF TypeOK, KeyOK, Found, Storing, Fact
  <2>6. told' \in [Threads -> Moves \cup {NoMove}]
    BY <1>4, <2>4 DEF TypeOK, Found
  <2> QED
    BY <1>4, <2>3, <2>6 DEF TypeOK, Found, Goto
<1>5. ASSUME NEW t \in Threads, Choose(t)
      PROVE  TypeOK'
  BY <1>5 DEF TypeOK, Choose, Goto, Slots
<1>6. ASSUME NEW t \in Threads, WriteHead(t)
      PROVE  TypeOK'
  <2> DEFINE o == todo[t]
             e == entries[at[t]]
             f == [e EXCEPT !.key = o.key, !.move = o.move, !.type = o.type,
                            !.gen = generation]
  <2>1. e \in Entry => f \in Entry
    BY <1>6 DEF TypeOK, Entry, Order
  <2>2. entries' = [entries EXCEPT ![at[t]] = f]
    BY <1>6 DEF WriteHead
  <2>3. entries' \in [Slots -> Entry]
    <3> HIDE DEF f
    <3> QED
      BY <2>1, <2>2 DEF TypeOK
  <2> QED
    BY <1>6, <2>3 DEF TypeOK, WriteHead, Disturb, Goto
<1>7. ASSUME NEW t \in Threads, WriteBody(t)
      PROVE  TypeOK'
  <2> DEFINE o == todo[t]
             e == entries[at[t]]
             f == [e EXCEPT !.depth = o.depth, !.static = o.static]
             g == [move |-> told[t], type |-> o.type, depth |-> o.depth,
                   static |-> o.static]
  <2>1. (e \in Entry => f \in Entry) /\ g \in Fact
    BY <1>7 DEF TypeOK, Entry, Order, Fact
  <2>2. /\ entries' = [entries EXCEPT ![at[t]] = f]
        /\ latest' = [latest EXCEPT ![o.key] = g]
    BY <1>7 DEF WriteBody
  <2>3. entries' \in [Slots -> Entry] /\ latest' \in [Keys -> Fact]
    <3> HIDE DEF f, g
    <3> QED
      BY <2>1, <2>2 DEF TypeOK
  <2> QED
    BY <1>7, <2>3 DEF TypeOK, WriteBody, Disturb, Goto
<1>8. ASSUME NEW t \in Threads, NEW k \in Keys, NEW n \in Nodes, LookUp(t, k, n)
      PROVE  TypeOK'
  <2> DEFINE s == Probe(k)
             e == [entries[s] EXCEPT !.gen = generation]
  <2>1. s \in Slots
    BY <1>8, ProbeFinds DEF LookUp
  <2>2. e \in Entry
    <3>1. entries[s] \in Entry /\ generation \in 0..Generations - 1
      BY <2>1 DEF TypeOK
    <3> HIDE DEF s
    <3> QED
      BY <3>1 DEF Entry
  <2>3. NoOrder(k) \in Order
    BY ZeroCode DEF NoOrder, Order, Types
  <2> HIDE DEF e
  <2>4. /\ \/ entries' = [entries EXCEPT ![s] = e] /\ Disturb(t)
           \/ UNCHANGED <<entries, calm>>
        /\ \/ UNCHANGED <<pc, at, todo>>
           \/ /\ Goto(t, "eval") /\ at' = [at EXCEPT ![t] = s]
              /\ todo' = [todo EXCEPT ![t] = NoOrder(k)]
        /\ met' = (met \/ Meets(t, s))
        /\ UNCHANGED <<generation, searching, replace, twice, told, latest>>
    BY <1>8 DEF LookUp, e
  <2> HIDE DEF s
  <2>5. entries' \in [Slots -> Entry]
    BY <2>1, <2>2, <2>4 DEF TypeOK
  <2>6. calm' \in [Threads -> BOOLEAN]
    BY <2>4 DEF TypeOK, Disturb
  <2>7. s \in 1..ClusterSize + 1
    BY <2>1 DEF Slots
  <2>8. at' \in [Threads -> 1..ClusterSize + 1]
    BY <2>7, <2>4 DEF TypeOK
  <2>9. todo' \in [Threads -> Order]
    BY <2>3, <2>4 DEF TypeOK
  <2>10. pc' \in [Threads -> {"idle", "scan", "head", "body", "eval"}]
    BY <2>4 DEF TypeOK, Goto
  <2> QED
    BY <2>4, <2>5, <2>6, <2>8, <2>9, <2>10 DEF TypeOK, Meets, Writing
<1>9. ASSUME NEW t \in Threads, UseStatic(t)
      PROVE  TypeOK'
  BY <1>9 DEF TypeOK, UseStatic, Goto
<1>10. CASE Iterate
  BY <1>10 DEF TypeOK, Iterate
<1>11. CASE NewSearch
  BY <1>11 DEF TypeOK, NewSearch, NextGeneration
<1>12. CASE Clear
  BY <1>12, ZeroCode DEF TypeOK, Clear, EmptyEntry, Entry, Types, Exact
<1>13. CASE UNCHANGED vars
  BY <1>13 DEF TypeOK, vars
<1> QED
  BY <1>1, <1>2, <1>3, <1>4, <1>5, <1>6, <1>7, <1>8, <1>9, <1>10, <1>11,
     <1>12, <1>13 DEF Next, StoreSteps

(* Every reachable state has its type, and a thread in store() a position. *)
THEOREM TypeCorrect == Spec => []TypeOK
<1>1. Init => TypeOK /\ KeyOK
  BY TypeInit
<1>2. TypeOK /\ KeyOK /\ [Next]_vars => TypeOK' /\ KeyOK'
  BY TypeStep, KeyStep
<1> QED
  BY <1>1, <1>2, PTL DEF Spec

-----------------------------------------------------------------------------
(***************************************************************************)
(* Why a position has one entry.  Empty entries are the last ones of the   *)
(* cluster, so a thread that takes an empty one has seen that no entry is  *)
(* of its position; and no other thread brings one while it goes on, as    *)
(* long as no two store the same position.                                 *)
(***************************************************************************)
Apart == \A t, u \in Threads :
           t # u /\ Storing(t) /\ Storing(u) => todo[t].key # todo[u].key
Passed(t, s) == entries[s].key # NoKey /\ entries[s].key # todo[t].key
Scanned == \A t \in Threads : pc[t] = "scan" =>
             \A s \in Slots : s < at[t] => Passed(t, s)
Chosen == \A t \in Threads : pc[t] = "head" =>
            /\ at[t] \in Slots
            /\ \A s \in Slots : s # at[t] => entries[s].key # todo[t].key
            /\ \A s \in Slots : s < at[t] => entries[s].key # NoKey
EmptyLast == \A r, s \in Slots : r < s /\ entries[r].key = NoKey =>
               entries[s].key = NoKey
Unique == \A r, s \in Slots :
            entries[r].key = entries[s].key /\ entries[r].key # NoKey => r = s
OneInv == ~twice => Apart /\ Scanned /\ Chosen /\ EmptyLast /\ Unique

LEMMA OneInit == ASSUME Init PROVE OneInv
  BY DEF Init, OneInv, Apart, Scanned, Chosen, EmptyLast, Unique, Storing,
         Writing, EmptyEntry

(* What a step does to the keys of the entries. *)
SameKeys == \A s \in Slots : entries'[s].key = entries[s].key

LEMMA OneStore ==
  ASSUME TypeOK, OneInv, NEW t \in Threads, NEW k \in Keys, NEW m, NEW type,
         NEW depth, NEW static, ~Storing(t), Store(t, k, m, type, depth, static)
  PROVE  OneInv'
<1> SUFFICES ASSUME ~twice'
             PROVE  (Apart /\ Scanned /\ Chosen /\ EmptyLast /\ Unique)'
  BY DEF OneInv
<1>1. /\ Apart /\ Scanned /\ Chosen /\ EmptyLast /\ Unique
      /\ \A u \in Threads \ {t} : Storing(u) => todo[u].key # k
  BY DEF Store, OneInv
<1>2. /\ entries' = entries /\ todo'[t].key = k /\ at'[t] = 1 /\ pc'[t] = "scan"
      /\ \A u \in Threads \ {t} : todo'[u] = todo[u] /\ at'[u] = at[u] /\ pc'[u] = pc[u]
  BY DEF Store, TypeOK, Goto
<1>3. Apart'
  BY <1>1, <1>2 DEF Apart, Storing, Writing
<1>4. Scanned'
  BY <1>1, <1>2 DEF Scanned, Passed, Slots
<1>5. Chosen'
  BY <1>1, <1>2 DEF Chosen
<1> QED
  BY <1>1, <1>2, <1>3, <1>4, <1>5 DEF EmptyLast, Unique

LEMMA OneStep ==
  ASSUME TypeOK, KeyOK, OneInv, [Next]_vars
  PROVE  OneInv'
<1>1. ASSUME NEW t \in Threads, SearchStores(t)
      PROVE  OneInv'
  <2>1. ~Storing(t)
    BY <1>1 DEF SearchStores, Storing, Writing
  <2> QED
    BY <1>1, <2>1, SearchStoresIs, OneStore
<1>2. ASSUME NEW k \in Keys, StoreMate(k) \/ InsertPv(k)
      PROVE  OneInv'
  <2>1. AllIdle
    BY <1>2, MainStoresIs
  <2>2. ~Storing(Main)
    BY <2>1 DEF AllIdle, Storing, Writing
  <2> QED
    BY <1>2, <2>2, MainStoresIs, OneStore
<1>3. ASSUME NEW t \in Threads, Scan(t)
      PROVE  OneInv'
  <2>1. /\ entries' = entries /\ todo' = todo /\ pc' = pc /\ twice' = twice
        /\ at'[t] = at[t] + 1 /\ Passed(t, at[t]) /\ at[t] \in Slots
        /\ \A u \in Threads \ {t} : at'[u] = at[u]
    BY <1>3 DEF Scan, TypeOK, Passed, Matches
  <2>2. Scanned => Scanned'
    BY <2>1 DEF Scanned, Passed, Slots
  <2>3. Chosen => Chosen'
    BY <1>3, <2>1 DEF Chosen, Scan
  <2> QED
    BY <2>1, <2>2, <2>3 DEF OneInv, Apart, EmptyLast, Unique, Storing, Writing
<1>4. ASSUME NEW t \in Threads, Found(t)
      PROVE  OneInv'
  <2>1. /\ entries' = entries /\ at' = at /\ twice' = twice
        /\ pc[t] = "scan" /\ pc'[t] = "head" /\ at[t] \in Slots
        /\ \A u \in Threads \ {t} : pc'[u] = pc[u]
        /\ Matches(entries[at[t]], todo[t].key)
    BY <1>4 DEF Found, TypeOK, Goto
  <2>2. \A u \in Threads : todo'[u].key = todo[u].key
    BY <1>4 DEF Found, TypeOK, Order
  <2>3. Apart => Apart'
    BY <2>1, <2>2 DEF Apart, Storing, Writing
  <2>4. Scanned => Scanned'
    BY <2>1, <2>2 DEF Scanned, Passed
  <2>5. todo[t].key # NoKey
    BY <2>1 DEF KeyOK, Storing
  <2>6. Scanned /\ EmptyLast /\ Unique =>
          \A s \in Slots : s # at[t] => entries[s].key # todo[t].key
    BY <2>1, <2>5 DEF Scanned, Passed, EmptyLast, Unique, Matches, Slots
  <2>7. Scanned /\ EmptyLast /\ Unique /\ Chosen => Chosen'
    BY <2>1, <2>2, <2>6 DEF Chosen, Scanned, Passed
  <2> QED
    BY <2>1, <2>3, <2>4, <2>7 DEF OneInv, EmptyLast, Unique
<1>5. ASSUME NEW t \in Threads, Choose(t)
      PROVE  OneInv'
  <2>1. /\ entries' = entries /\ todo' = todo /\ twice' = twice
        /\ pc[t] = "scan" /\ pc'[t] = "head" /\ at[t] = ClusterSize + 1
        /\ at'[t] \in Slots
        /\ \A u \in Threads \ {t} : pc'[u] = pc[u] /\ at'[u] = at[u]
    BY <1>5 DEF Choose, TypeOK, Goto
  <2>2. Apart => Apart'
    BY <2>1 DEF Apart, Storing, Writing
  <2>3. Scanned => Scanned'
    BY <2>1 DEF Scanned, Passed
  <2>4. Scanned => \A s \in Slots : Passed(t, s)
    BY <2>1 DEF Scanned, Slots
  <2>5. Scanned /\ Chosen => Chosen'
    BY <2>1, <2>4 DEF Chosen, Passed
  <2> QED
    BY <2>1, <2>2, <2>3, <2>5 DEF OneInv, EmptyLast, Unique
<1>6. ASSUME NEW t \in Threads, WriteHead(t)
      PROVE  OneInv'
  <2> SUFFICES ASSUME Apart, Scanned, Chosen, EmptyLast, Unique, ~twice
               PROVE  (Apart /\ Scanned /\ Chosen /\ EmptyLast /\ Unique)'
    BY <1>6 DEF OneInv, WriteHead
  <2> DEFINE k == todo[t].key
  <2>1. /\ todo' = todo /\ at' = at /\ twice' = twice
        /\ pc[t] = "head" /\ pc'[t] = "body" /\ at[t] \in Slots
        /\ \A u \in Threads \ {t} : pc'[u] = pc[u]
        /\ Storing(t) /\ k \in Keys
    BY <1>6 DEF WriteHead, TypeOK, Goto, Storing, Writing, KeyOK, Chosen
  <2>2. \A s \in Slots : entries'[s].key = IF s = at[t] THEN k ELSE entries[s].key
    BY <1>6, <2>1 DEF WriteHead, TypeOK, Entry
  <2>3. \A u \in Threads \ {t} : Storing(u) => todo[u].key # k
    BY <2>1 DEF Apart
  <2>4. Apart'
    BY <2>1 DEF Apart, Storing, Writing
  <2>5. Scanned'
    BY <2>1, <2>2, <2>3 DEF Scanned, Passed, Storing
  <2>6. Chosen'
    BY <2>1, <2>2, <2>3 DEF Chosen, Storing, Writing
  <2>7. EmptyLast'
    BY <2>1, <2>2 DEF EmptyLast, Chosen, Slots
  <2>8. Unique'
    BY <2>1, <2>2 DEF Unique, Chosen
  <2> QED
    BY <2>4, <2>5, <2>6, <2>7, <2>8
<1>7. ASSUME NEW t \in Threads, WriteBody(t)
      PROVE  OneInv'
  <2>1. /\ todo' = todo /\ at' = at /\ twice' = twice
        /\ pc'[t] = "idle" /\ \A u \in Threads \ {t} : pc'[u] = pc[u]
    BY <1>7 DEF WriteBody, TypeOK, Goto
  <2>2. SameKeys
    BY <1>7 DEF SameKeys, WriteBody, TypeOK, Entry
  <2> QED
    BY <2>1, <2>2 DEF SameKeys, OneInv, Apart, Scanned, Passed, Chosen,
                      EmptyLast, Unique, Storing, Writing
<1>8. ASSUME NEW t \in Threads, NEW k \in Keys, NEW n \in Nodes, LookUp(t, k, n)
      PROVE  OneInv'
  <2>1. /\ twice' = twice /\ ~Storing(t) /\ pc'[t] \in {"idle", "eval"}
        /\ \A u \in Threads \ {t} :
             pc'[u] = pc[u] /\ at'[u] = at[u] /\ todo'[u] = todo[u]
    BY <1>8 DEF LookUp, TypeOK, Goto, Storing, Writing
  <2>2. SameKeys
    BY <1>8 DEF SameKeys, LookUp, TypeOK, Entry
  <2> QED
    BY <2>1, <2>2 DEF SameKeys, OneInv, Apart, Scanned, Passed, Chosen,
                      EmptyLast, Unique, Storing, Writing
<1>9. ASSUME NEW t \in Threads, UseStatic(t)
      PROVE  OneInv'
  BY <1>9 DEF UseStatic, TypeOK, Goto, OneInv, Apart, Scanned, Passed, Chosen,
              EmptyLast, Unique, Storing, Writing
<1>10. CASE Iterate \/ NewSearch \/ UNCHANGED vars
  BY <1>10 DEF Iterate, NewSearch, vars, OneInv, Apart, Scanned, Passed, Chosen,
               EmptyLast, Unique, Storing, Writing
<1>11. CASE Clear
  BY <1>11 DEF Clear, AllIdle, OneInv, Apart, Scanned, Passed, Chosen,
               EmptyLast, Unique, Storing, Writing, EmptyEntry
<1> QED
  BY <1>1, <1>2, <1>3, <1>4, <1>5, <1>6, <1>7, <1>8, <1>9, <1>10, <1>11
  DEF Next, StoreSteps

(* As long as no two threads stored the same position at once, a position *)
(* has one entry in its cluster: store() with probe().                    *)
THEOREM OneEntryHolds == Spec => []OneEntry
<1>1. Init => TypeOK /\ KeyOK /\ OneInv
  BY TypeInit, OneInit
<1>2. TypeOK /\ KeyOK /\ OneInv /\ [Next]_vars => (TypeOK /\ KeyOK /\ OneInv)'
  BY TypeStep, KeyStep, OneStep
<1>3. OneInv => OneEntry
  BY DEF OneInv, Unique, OneEntry
<1> QED
  BY <1>1, <1>2, <1>3, PTL DEF Spec

-----------------------------------------------------------------------------
(***************************************************************************)
(* Why an entry is what was last stored for its position.  As long as no   *)
(* two threads have met, each writer has its entry to itself: the head it  *)
(* has written stays until it writes the body, and what it read of the     *)
(* entry it found, the move it keeps, was whole.                           *)
(***************************************************************************)
MoveIsTold == \A t \in Threads : Storing(t) => FromMove16(todo[t].move) = told[t]
WritersApart == \A t, u \in Threads :
                  t # u /\ Writing(t) /\ Writing(u) => at[t] # at[u]
HeadWritten == \A t \in Threads : pc[t] = "body" =>
                 /\ at[t] \in Slots
                 /\ entries[at[t]].key = todo[t].key
                 /\ entries[at[t]].move = todo[t].move
                 /\ entries[at[t]].type = todo[t].type
EmptyHasNoMove == \A s \in Slots : entries[s].key = NoKey => entries[s].move = 0
InBody(s) == \E t \in Threads : pc[t] = "body" /\ at[t] = s
IsLatest(s) == latest[entries[s].key] =
                 [move |-> FromMove16(entries[s].move), type |-> entries[s].type,
                  depth |-> entries[s].depth, static |-> entries[s].static]
EntriesLatest == \A s \in Slots :
                   entries[s].key # NoKey /\ ~InBody(s) => IsLatest(s)
LatestInv == ~twice /\ ~met =>
  MoveIsTold /\ WritersApart /\ HeadWritten /\ EmptyHasNoMove /\ EntriesLatest

\* A code is the code of one move.
LEMMA CodeOfMove ==
  /\ \A m \in Moves \cup {NoMove} : FromMove16(ToMove16(m)) = m
  /\ ToMove16(NoMove) = 0 /\ FromMove16(0) = NoMove
<1>1. Moves \cup {NoMove} \subseteq AllMoves
  BY DEF AllMoves
<1>2. ToMove16(NoMove) = 0
  BY DEF ToMove16, NoMove
<1> QED
  BY <1>1, <1>2, RoundTrip

LEMMA LatestInit == ASSUME Init PROVE LatestInv
BY DEF Init, LatestInv, MoveIsTold, WritersApart, HeadWritten, EmptyHasNoMove,
       EntriesLatest, Storing, Writing, EmptyEntry

LEMMA LatestStore ==
  ASSUME TypeOK, LatestInv, NEW t \in Threads, NEW k \in Keys,
         NEW m \in Moves \cup {NoMove}, NEW type, NEW depth, NEW static,
         ~Storing(t), Store(t, k, m, type, depth, static)
  PROVE  LatestInv'
<1> SUFFICES ASSUME ~twice', ~met'
             PROVE  (/\ MoveIsTold /\ WritersApart /\ HeadWritten
                     /\ EmptyHasNoMove /\ EntriesLatest)'
  BY DEF LatestInv
<1>1. MoveIsTold /\ WritersApart /\ HeadWritten /\ EmptyHasNoMove /\ EntriesLatest
  BY DEF Store, LatestInv
<1>2. /\ entries' = entries /\ latest' = latest
      /\ todo'[t].move = ToMove16(m) /\ told'[t] = m /\ pc'[t] = "scan"
      /\ \A u \in Threads \ {t} : todo'[u] = todo[u] /\ at'[u] = at[u]
                                  /\ pc'[u] = pc[u] /\ told'[u] = told[u]
  BY DEF Store, TypeOK, Goto
<1>3. MoveIsTold'
  BY <1>1, <1>2, CodeOfMove DEF MoveIsTold, Storing, Writing
<1>4. WritersApart' /\ HeadWritten' /\ EmptyHasNoMove'
  BY <1>1, <1>2 DEF WritersApart, HeadWritten, EmptyHasNoMove, Writing
<1>5. \A s \in Slots : InBody(s)' <=> InBody(s)
  BY <1>2 DEF InBody, Storing, Writing
<1>6. EntriesLatest'
  BY <1>1, <1>2, <1>5 DEF EntriesLatest, IsLatest
<1> QED
  BY <1>3, <1>4, <1>6

\* The move a thread keeps is the one that was last stored.
LEMMA LatestOfFound ==
  ASSUME TypeOK, KeyOK, LatestInv, NEW t \in Threads, Found(t)
  PROVE  LatestInv'
<1> SUFFICES ASSUME ~twice', ~met'
             PROVE  (/\ MoveIsTold /\ WritersApart /\ HeadWritten
                     /\ EmptyHasNoMove /\ EntriesLatest)'
  BY DEF LatestInv
<1>1. /\ MoveIsTold /\ WritersApart /\ HeadWritten /\ EmptyHasNoMove /\ EntriesLatest
      /\ ~Meets(t, at[t])
  BY DEF Found, LatestInv
<1>2. /\ entries' = entries /\ latest' = latest /\ at' = at
      /\ pc[t] = "scan" /\ pc'[t] = "head" /\ at[t] \in Slots
      /\ Matches(entries[at[t]], todo[t].key)
      /\ todo'[t].move = KeptMove(t)
      /\ told'[t] = IF told[t] = NoMove /\ entries[at[t]].key = todo[t].key
                    THEN latest[todo[t].key].move ELSE told[t]
      /\ \A u \in Threads \ {t} : todo'[u] = todo[u]
                                  /\ pc'[u] = pc[u] /\ told'[u] = told[u]
  BY DEF Found, TypeOK, Goto, Order
<1>3. PICK e : e = entries[at[t]]
  OBVIOUS
<1>4. todo[t].key \in Keys /\ todo[t].key # NoKey
  BY <1>2 DEF KeyOK, Storing
<1>5. todo[t].move = 0 <=> told[t] = NoMove
  <2>1. FromMove16(todo[t].move) = told[t] /\ todo[t].move \in Codes
    BY <1>1, <1>2 DEF MoveIsTold, Storing, TypeOK, Order
  <2>2. PICK m \in Moves \cup {NoMove} : todo[t].move = ToMove16(m)
    BY <2>1 DEF Codes
  <2> QED
    BY <2>1, <2>2, CodeOfMove
<1>6. FromMove16(todo'[t].move) = told'[t]
  <2>1. CASE todo[t].move # 0
    BY <1>1, <1>2, <1>5, <2>1 DEF KeptMove, MoveIsTold, Storing
  <2>2. CASE todo[t].move = 0
    <3>1. todo'[t].move = e.move /\ told[t] = NoMove
      BY <1>2, <1>3, <1>5, <2>2 DEF KeptMove
    <3>2. CASE e.key = NoKey
      <4>1. e.move = 0
        BY <1>1, <1>2, <1>3, <3>2 DEF EmptyHasNoMove
      <4> QED
        BY <1>2, <1>3, <1>4, <3>1, <3>2, <4>1, CodeOfMove
    <3>3. CASE e.key = todo[t].key
      <4>1. ~InBody(at[t])
        BY <1>1, <1>2 DEF InBody, Meets, Writing
      <4>2. latest[todo[t].key].move = FromMove16(e.move)
        <5>1. IsLatest(at[t])
          BY <1>1, <1>2, <1>3, <1>4, <3>3, <4>1 DEF EntriesLatest
        <5> QED
          BY <1>3, <3>3, <5>1 DEF IsLatest
      <4> QED
        BY <1>2, <1>3, <3>1, <3>3, <4>2
    <3> QED
      BY <1>2, <1>3, <3>2, <3>3 DEF Matches
  <2> QED
    BY <2>1, <2>2
<1>7. MoveIsTold'
  BY <1>1, <1>2, <1>6 DEF MoveIsTold, Storing, Writing
<1>8. WritersApart'
  BY <1>1, <1>2 DEF WritersApart, Writing, Meets
<1>9. HeadWritten' /\ EmptyHasNoMove'
  BY <1>1, <1>2 DEF HeadWritten, EmptyHasNoMove
<1>10. \A s \in Slots : InBody(s)' <=> InBody(s)
  BY <1>2 DEF InBody
<1>11. EntriesLatest'
  BY <1>1, <1>2, <1>10 DEF EntriesLatest, IsLatest
<1> QED
  BY <1>7, <1>8, <1>9, <1>11

LEMMA LatestWriteHead ==
  ASSUME TypeOK, KeyOK, OneInv, LatestInv, NEW t \in Threads, WriteHead(t)
  PROVE  LatestInv'
<1> SUFFICES ASSUME ~twice', ~met'
             PROVE  (/\ MoveIsTold /\ WritersApart /\ HeadWritten
                     /\ EmptyHasNoMove /\ EntriesLatest)'
  BY DEF LatestInv
<1>1. /\ MoveIsTold /\ WritersApart /\ HeadWritten /\ EmptyHasNoMove /\ EntriesLatest
      /\ Chosen
  BY DEF WriteHead, LatestInv, OneInv
<1>2. /\ latest' = latest /\ todo' = todo /\ at' = at /\ told' = told
      /\ pc[t] = "head" /\ pc'[t] = "body" /\ at[t] \in Slots
      /\ \A u \in Threads \ {t} : pc'[u] = pc[u]
      /\ Writing(t) /\ todo[t].key \in Keys
  BY <1>1 DEF WriteHead, TypeOK, Goto, Writing, Chosen, KeyOK, Storing
<1>3. /\ \A s \in Slots : s # at[t] => entries'[s] = entries[s]
      /\ entries'[at[t]].key = todo[t].key /\ entries'[at[t]].move = todo[t].move
      /\ entries'[at[t]].type = todo[t].type
  BY <1>2 DEF WriteHead, TypeOK, Entry
<1>4. MoveIsTold' /\ WritersApart'
  BY <1>1, <1>2 DEF MoveIsTold, WritersApart, Storing, Writing
<1>5. HeadWritten'
  BY <1>1, <1>2, <1>3 DEF HeadWritten, WritersApart, Writing
<1>6. EmptyHasNoMove'
  BY <1>1, <1>2, <1>3 DEF EmptyHasNoMove
<1>7. /\ InBody(at[t])'
      /\ \A s \in Slots : InBody(s) => InBody(s)'
  BY <1>2 DEF InBody
<1>8. EntriesLatest'
  BY <1>1, <1>2, <1>3, <1>7 DEF EntriesLatest, IsLatest
<1> QED
  BY <1>4, <1>5, <1>6, <1>8

LEMMA LatestWriteBody ==
  ASSUME TypeOK, KeyOK, OneInv, LatestInv, NEW t \in Threads, WriteBody(t)
  PROVE  LatestInv'
<1> SUFFICES ASSUME ~twice', ~met'
             PROVE  (/\ MoveIsTold /\ WritersApart /\ HeadWritten
                     /\ EmptyHasNoMove /\ EntriesLatest)'
  BY DEF LatestInv
<1>1. /\ MoveIsTold /\ WritersApart /\ HeadWritten /\ EmptyHasNoMove /\ EntriesLatest
      /\ Unique
  BY DEF WriteBody, LatestInv, OneInv
<1>2. /\ todo' = todo /\ at' = at /\ told' = told
      /\ pc[t] = "body" /\ pc'[t] = "idle" /\ at[t] \in Slots
      /\ \A u \in Threads \ {t} : pc'[u] = pc[u]
      /\ Writing(t) /\ Storing(t) /\ todo[t].key \in Keys
      /\ entries[at[t]].key = todo[t].key /\ entries[at[t]].move = todo[t].move
      /\ entries[at[t]].type = todo[t].type
  BY <1>1 DEF WriteBody, TypeOK, Goto, Writing, HeadWritten, KeyOK, Storing
<1>3. /\ \A s \in Slots : s # at[t] => entries'[s] = entries[s]
      /\ entries'[at[t]].key = todo[t].key /\ entries'[at[t]].move = todo[t].move
      /\ entries'[at[t]].type = todo[t].type
      /\ entries'[at[t]].depth = todo[t].depth /\ entries'[at[t]].static = todo[t].static
  BY <1>2 DEF WriteBody, TypeOK, Entry
<1>4. /\ latest'[todo[t].key] = [move |-> told[t], type |-> todo[t].type,
                                depth |-> todo[t].depth, static |-> todo[t].static]
      /\ \A k \in Keys : k # todo[t].key => latest'[k] = latest[k]
  BY <1>2 DEF WriteBody, TypeOK
<1>5. MoveIsTold' /\ WritersApart' /\ HeadWritten'
  BY <1>1, <1>2, <1>3 DEF MoveIsTold, WritersApart, HeadWritten, Storing, Writing
<1>6. EmptyHasNoMove'
  BY <1>1, <1>2, <1>3 DEF EmptyHasNoMove
<1>7. EntriesLatest'
  <2> SUFFICES ASSUME NEW s \in Slots, entries'[s].key # NoKey, ~InBody(s)'
               PROVE  IsLatest(s)'
    BY DEF EntriesLatest
  <2>1. CASE s = at[t]
    <3>1. FromMove16(todo[t].move) = told[t]
      BY <1>1, <1>2 DEF MoveIsTold
    <3> QED
      BY <1>3, <1>4, <2>1, <3>1 DEF IsLatest
  <2>2. CASE s # at[t]
    <3>1. entries'[s] = entries[s] /\ entries[s].key # todo[t].key
      BY <1>1, <1>2, <1>3, <2>2 DEF Unique
    <3>2. ~InBody(s)
      BY <1>2, <2>2 DEF InBody
    <3>3. entries[s].key \in Keys
      BY <3>1 DEF TypeOK, Entry
    <3>4. IsLatest(s)
      BY <1>1, <3>1, <3>2 DEF EntriesLatest
    <3> QED
      BY <1>4, <3>1, <3>3, <3>4 DEF IsLatest
  <2> QED
    BY <2>1, <2>2
<1> QED
  BY <1>5, <1>6, <1>7

LEMMA LatestStep ==
  ASSUME TypeOK, KeyOK, OneInv, LatestInv, [Next]_vars
  PROVE  LatestInv'
<1> USE DEF LatestInv, MoveIsTold, WritersApart, HeadWritten, EmptyHasNoMove,
            EntriesLatest, InBody, IsLatest
<1>1. ASSUME NEW t \in Threads, SearchStores(t)
      PROVE  LatestInv'
  <2>1. ~Storing(t)
    BY <1>1 DEF SearchStores, Storing, Writing
  <2> HIDE DEF LatestInv
  <2> QED
    BY <1>1, <2>1, SearchStoresIs, LatestStore
<1>2. ASSUME NEW k \in Keys, StoreMate(k) \/ InsertPv(k)
      PROVE  LatestInv'
  <2>1. AllIdle
    BY <1>2, MainStoresIs
  <2>2. ~Storing(Main)
    BY <2>1 DEF AllIdle, Storing, Writing
  <2> HIDE DEF LatestInv
  <2> QED
    BY <1>2, <2>2, MainStoresIs, LatestStore
<1>3. ASSUME NEW t \in Threads, Scan(t)
      PROVE  LatestInv'
  <2>1. /\ UNCHANGED <<entries, todo, pc, told, latest, twice>>
        /\ (met => met') /\ pc[t] = "scan"
        /\ \A u \in Threads \ {t} : at'[u] = at[u]
    BY <1>3 DEF Scan, TypeOK
  <2> HIDE DEF LatestInv, MoveIsTold, WritersApart, HeadWritten, EmptyHasNoMove,
               EntriesLatest, InBody, IsLatest
  <2> SUFFICES ASSUME ~twice', ~met'
               PROVE  (/\ MoveIsTold /\ WritersApart /\ HeadWritten
                       /\ EmptyHasNoMove /\ EntriesLatest)'
    BY DEF LatestInv
  <2>2. MoveIsTold /\ WritersApart /\ HeadWritten /\ EmptyHasNoMove /\ EntriesLatest
    BY <2>1 DEF LatestInv
  <2>3. MoveIsTold'
    BY <2>1, <2>2 DEF MoveIsTold, Storing, Writing
  <2>4. WritersApart'
    BY <2>1, <2>2 DEF WritersApart, Writing
  <2>5. HeadWritten'
    BY <2>1, <2>2 DEF HeadWritten
  <2>6. \A s \in Slots : InBody(s)' <=> InBody(s)
    BY <2>1 DEF InBody
  <2>7. EmptyHasNoMove' /\ EntriesLatest'
    BY <2>1, <2>2, <2>6 DEF EmptyHasNoMove, EntriesLatest, IsLatest
  <2> QED
    BY <2>3, <2>4, <2>5, <2>7
<1>4. ASSUME NEW t \in Threads, Found(t)
      PROVE  LatestInv'
  BY <1>4, LatestOfFound
<1>5. ASSUME NEW t \in Threads, Choose(t)
      PROVE  LatestInv'
  <2>1. /\ UNCHANGED <<entries, todo, told, latest, twice>>
        /\ met' = (met \/ Meets(t, replace[t]))
        /\ pc[t] = "scan" /\ pc'[t] = "head" /\ at'[t] = replace[t]
        /\ \A u \in Threads \ {t} : at'[u] = at[u] /\ pc'[u] = pc[u]
    BY <1>5 DEF Choose, Goto, TypeOK
  <2> HIDE DEF LatestInv, MoveIsTold, WritersApart, HeadWritten, EmptyHasNoMove,
               EntriesLatest, InBody, IsLatest
  <2> SUFFICES ASSUME ~twice', ~met'
               PROVE  (/\ MoveIsTold /\ WritersApart /\ HeadWritten
                       /\ EmptyHasNoMove /\ EntriesLatest)'
    BY DEF LatestInv
  <2>2. MoveIsTold /\ WritersApart /\ HeadWritten /\ EmptyHasNoMove /\ EntriesLatest
    BY <2>1 DEF LatestInv
  <2>3. MoveIsTold'
    BY <2>1, <2>2 DEF MoveIsTold, Storing, Writing
  <2>4. WritersApart'
    BY ZenonT(60), <2>1, <2>2 DEF WritersApart, Writing, Meets
  <2>5. HeadWritten'
    BY <2>1, <2>2 DEF HeadWritten
  <2>6. \A s \in Slots : InBody(s)' <=> InBody(s)
    BY <2>1 DEF InBody
  <2>7. EmptyHasNoMove' /\ EntriesLatest'
    BY <2>1, <2>2, <2>6 DEF EmptyHasNoMove, EntriesLatest, IsLatest
  <2> QED
    BY <2>3, <2>4, <2>5, <2>7
<1>6. ASSUME NEW t \in Threads, WriteHead(t)
      PROVE  LatestInv'
  BY <1>6, LatestWriteHead
<1>7. ASSUME NEW t \in Threads, WriteBody(t)
      PROVE  LatestInv'
  BY <1>7, LatestWriteBody
<1>8. ASSUME NEW t \in Threads, NEW k \in Keys, NEW n \in Nodes, LookUp(t, k, n)
      PROVE  LatestInv'
  <2>1. /\ twice' = twice /\ (met => met') /\ ~Storing(t) /\ pc'[t] \in {"idle", "eval"}
        /\ UNCHANGED <<told, latest>>
        /\ \A u \in Threads \ {t} :
             pc'[u] = pc[u] /\ at'[u] = at[u] /\ todo'[u] = todo[u]
    BY <1>8 DEF LookUp, TypeOK, Goto, Storing, Writing
  <2>2. \A s \in Slots :
          /\ entries'[s].key = entries[s].key /\ entries'[s].move = entries[s].move
          /\ entries'[s].type = entries[s].type /\ entries'[s].depth = entries[s].depth
          /\ entries'[s].static = entries[s].static
    BY <1>8 DEF LookUp, TypeOK, Entry
  <2> QED
    BY <2>1, <2>2 DEF Storing, Writing
<1>9. ASSUME NEW t \in Threads, UseStatic(t)
      PROVE  LatestInv'
  BY <1>9 DEF UseStatic, TypeOK, Goto, Storing, Writing
<1>10. CASE Iterate \/ NewSearch \/ UNCHANGED vars
  BY <1>10 DEF Iterate, NewSearch, vars, Storing, Writing
<1>11. CASE Clear
  BY <1>11 DEF Clear, AllIdle, Storing, Writing, EmptyEntry
<1> QED
  BY <1>1, <1>2, <1>3, <1>4, <1>5, <1>6, <1>7, <1>8, <1>9, <1>10, <1>11
  DEF Next, StoreSteps

(* As long as no two threads have met at an entry or stored a position at  *)
(* once, whatever other threads did in between, an entry that is not being *)
(* written is what store() was last given for its position, whole, with    *)
(* the last move given for it even when the last store had none.           *)
THEOREM LatestFoundHolds == Spec => []LatestFound
<1>1. Init => TypeOK /\ KeyOK /\ OneInv /\ LatestInv
  BY TypeInit, OneInit, LatestInit
<1>2. TypeOK /\ KeyOK /\ OneInv /\ LatestInv /\ [Next]_vars =>
        (TypeOK /\ KeyOK /\ OneInv /\ LatestInv)'
  BY TypeStep, KeyStep, OneStep, LatestStep
<1>3. LatestInv => LatestFound
  BY DEF LatestInv, EntriesLatest, InBody, IsLatest, LatestFound
<1> QED
  BY <1>1, <1>2, <1>3, PTL DEF Spec

-----------------------------------------------------------------------------
(***************************************************************************)
(* Why store() replaces the least of the entries: the entry it has chosen  *)
(* is the least of those it has seen, as long as they have not changed.    *)
(***************************************************************************)
LeastSeen == \A t \in Threads : pc[t] = "scan" /\ calm[t] =>
               LeastOf(entries[replace[t]], {s \in Slots : s < at[t]})

LEMMA LeastStep ==
  ASSUME TypeOK, NEW v \in Slots, NEW a \in Slots, NEW w \in Slots,
         LeastOf(entries[v], {s \in Slots : s < a}),
         w = IF Replaces(entries[v], entries[a]) THEN a ELSE v
  PROVE  LeastOf(entries[w], {s \in Slots : s < a + 1})
<1>1. \A s \in Slots : entries[s].depth \in Int
  BY DEF TypeOK, Entry
<1>2. \A s \in Slots : s < a + 1 <=> s < a \/ s = a
  BY DEF Slots
<1>3. CASE Replaces(entries[v], entries[a])
  <2>1. Current(entries[a]) => Current(entries[v]) /\ entries[a].depth < entries[v].depth
    BY <1>3 DEF Replaces, Current
  <2> QED
    BY <1>1, <1>2, <1>3, <2>1 DEF LeastOf
<1>4. CASE ~Replaces(entries[v], entries[a])
  <2>1. Current(entries[v]) =>
          /\ Current(entries[a]) \/ entries[a].type = Exact
          /\ Current(entries[a]) => entries[v].depth <= entries[a].depth
    BY <1>1, <1>4 DEF Replaces, Current
  <2> QED
    BY <1>1, <1>2, <1>4, <2>1 DEF LeastOf
<1> QED
  BY <1>3, <1>4

LEMMA LeastStore ==
  ASSUME TypeOK, LeastSeen, NEW t \in Threads, NEW k, NEW m, NEW type,
         NEW depth, NEW static, Store(t, k, m, type, depth, static)
  PROVE  LeastSeen'
<1>1. /\ entries' = entries /\ generation' = generation
      /\ at'[t] = 1 /\ replace'[t] = 1
      /\ \A u \in Threads \ {t} : /\ at'[u] = at[u] /\ pc'[u] = pc[u]
                                  /\ calm'[u] = calm[u] /\ replace'[u] = replace[u]
  BY DEF Store, TypeOK, Goto
<1>2. {s \in Slots : s < 1} = {}
  BY DEF Slots
<1> QED
  BY <1>1, <1>2 DEF LeastSeen, LeastOf, Current

LEMMA VictimStep ==
  ASSUME TypeOK, LeastSeen, [Next]_vars
  PROVE  LeastSeen'
<1>1. ASSUME NEW t \in Threads, SearchStores(t)
      PROVE  LeastSeen'
  BY <1>1, SearchStoresIs, LeastStore
<1>2. ASSUME NEW k \in Keys, StoreMate(k) \/ InsertPv(k)
      PROVE  LeastSeen'
  BY <1>2, MainStoresIs, LeastStore
<1>3. ASSUME NEW t \in Threads, Scan(t)
      PROVE  LeastSeen'
  <2>1. /\ entries' = entries /\ generation' = generation /\ pc' = pc /\ calm' = calm
        /\ at'[t] = at[t] + 1 /\ at[t] \in Slots /\ pc[t] = "scan"
        /\ replace[t] \in Slots /\ replace'[t] \in Slots
        /\ replace'[t] = IF Replaces(entries[replace[t]], entries[at[t]])
                         THEN at[t] ELSE replace[t]
        /\ \A u \in Threads \ {t} : at'[u] = at[u] /\ replace'[u] = replace[u]
    BY <1>3 DEF Scan, TypeOK
  <2>2. LeastOf(entries[replace[t]], {s \in Slots : s < at[t]}) =>
          LeastOf(entries[replace'[t]], {s \in Slots : s < at[t] + 1})
    BY <2>1, LeastStep
  <2> QED
    BY <2>1, <2>2 DEF LeastSeen, LeastOf, Current
<1>4. ASSUME NEW t \in Threads, Found(t) \/ Choose(t) \/ UseStatic(t)
      PROVE  LeastSeen'
  <2>1. /\ entries' = entries /\ generation' = generation /\ calm' = calm
        /\ replace' = replace /\ pc'[t] # "scan"
        /\ \A u \in Threads \ {t} : at'[u] = at[u] /\ pc'[u] = pc[u]
    BY <1>4 DEF Found, Choose, UseStatic, TypeOK, Goto
  <2> QED
    BY <2>1 DEF LeastSeen, LeastOf, Current
<1>5. ASSUME NEW t \in Threads, WriteHead(t) \/ WriteBody(t)
      PROVE  LeastSeen'
  <2>1. /\ pc'[t] # "scan" /\ \A u \in Threads \ {t} : pc'[u] = pc[u]
        /\ Disturb(t)
    BY <1>5 DEF WriteHead, WriteBody, TypeOK, Goto
  <2> QED
    BY <2>1 DEF Disturb, LeastSeen
<1>6. ASSUME NEW t \in Threads, NEW k \in Keys, NEW n \in Nodes, LookUp(t, k, n)
      PROVE  LeastSeen'
  <2>1. /\ generation' = generation /\ replace' = replace /\ pc'[t] # "scan"
        /\ \A u \in Threads \ {t} : at'[u] = at[u] /\ pc'[u] = pc[u]
        /\ Disturb(t) \/ UNCHANGED <<entries, calm>>
    BY <1>6 DEF LookUp, TypeOK, Goto
  <2>2. CASE Disturb(t)
    <3>1. \A u \in Threads : pc'[u] = "scan" => ~calm'[u]
      BY <2>1, <2>2 DEF Disturb
    <3> QED
      BY <3>1 DEF LeastSeen
  <2>3. CASE UNCHANGED <<entries, calm>>
    BY <2>1, <2>3 DEF LeastSeen, LeastOf, Current
  <2> QED
    BY <2>1, <2>2, <2>3
<1>7. CASE Iterate \/ UNCHANGED vars
  BY <1>7 DEF Iterate, vars, LeastSeen, LeastOf, Current
<1>8. CASE NewSearch \/ Clear
  BY <1>8 DEF NewSearch, Clear, AllIdle, LeastSeen
<1> QED
  BY <1>1, <1>2, <1>3, <1>4, <1>5, <1>6, <1>7, <1>8 DEF Next, StoreSteps

(* The entry store() replaces, of a cluster nobody wrote to meanwhile, is  *)
(* the least valuable one: the replace strategy of store().                *)
THEOREM VictimIsLeast == Spec => []Victim
<1>1. Init => TypeOK /\ KeyOK /\ LeastSeen
  BY TypeInit DEF Init, LeastSeen
<1>2. TypeOK /\ KeyOK /\ LeastSeen /\ [Next]_vars => (TypeOK /\ KeyOK /\ LeastSeen)'
  BY TypeStep, KeyStep, VictimStep
<1>3. LeastSeen => Victim
  <2>1. {s \in Slots : s < ClusterSize + 1} = Slots
    BY DEF Slots
  <2> QED
    BY <2>1 DEF LeastSeen, Victim
<1> QED
  BY <1>1, <1>2, <1>3, PTL DEF Spec
=============================================================================
