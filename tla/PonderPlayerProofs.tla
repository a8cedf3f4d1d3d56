------------------------- MODULE PonderPlayerProofs -------------------------
(***************************************************************************)
(* Proofs about the player, for any number of processes, objects, moves    *)
(* and turns: what it sends is the answer to the move that the opponent    *)
(* made, and no thread of the searches it begins runs into a raise.        *)
(*                                                                         *)
(* The argument.  A queue of the player is owed an end or it is not        *)
(* (Owed), and the player's two threads owe each other nothing else: one   *)
(* end to Client while the pondering thread waits for a guess or a search, *)
(* one to Finish while an answer is due, none otherwise (Debts).  So a     *)
(* search begins when nobody works (AtRest), and what the tree of objects  *)
(* needs at its start is there (Begun).  While the tree works it keeps to  *)
(* what it owes, to the place it was asked about and, unless it is         *)
(* stopped, to an exact result (Carries).  The player stops its search     *)
(* only for another move than the one the search is about, and then keeps  *)
(* what was found for a move that was not made (Guesses, KeptAnswers).     *)
(***************************************************************************)
EXTENDS UsiMultiValueProofs

-----------------------------------------------------------------------------
(* The queues of the client and the searches of the player.                *)

\* The queue q is owed n ends, nothing comes after an end, and it is empty between searches.
Owed(q, n) == Load(q) = n /\ EndsLast(q) /\ (n = 0 => box[q] = <<>>)

\* What a step leaves to the reader of q.
Carries(q) ==
  /\ Owed(q, 0) => Owed(q, 0)'
  /\ Owed(q, 1) => Owed(q, 1)'
  /\ \A P : Places(q, P) => Places(q, P)'
  /\ Owed(q, 1) /\ Single(q) => Single(q)'

LEMMA NobodyWorks ==
  ASSUME Types, Tree, Load(Client) = 0, Load(Finish) = 0
  PROVE  /\ Live = {} /\ \A e \in Engine : ~Open(e) /\ ~eng[e].searching
         /\ \A q \in Queue : Busy(q) = {} /\ Kin(q) = {}
<1>1. Client \in Queue /\ Finish \in Queue
  BY Sizes DEF External
<1>2. Busy(Client) = {} /\ Kin(Client) = {} /\ Busy(Finish) = {} /\ Kin(Finish) = {}
  BY <1>1, NoLoad
<1>3. Live = {}
  BY <1>2, NobodyLeft
<1>4. ASSUME NEW e \in Engine, Open(e) PROVE FALSE
  <2>1. eng[e].sink \in External
    BY <1>3, <1>4 DEF Tree, Sinks
  <2> QED
    BY <1>2, <1>4, <2>1 DEF Busy, External
<1>5. \A e \in Engine : ~eng[e].searching
  BY <1>4 DEF Tree, OneJob
<1>6. \A q \in Queue : Busy(q) = {} /\ Kin(q) = {}
  BY <1>3, <1>4 DEF Busy, Kin
<1> QED
  BY <1>3, <1>4, <1>5, <1>6

\* A queue that nobody writes to owes what is in it.
LEMMA QuietLoad ==
  ASSUME NEW q, Busy(q)' = {}, Kin(q)' = {}, box'[q] = <<>>
  PROVE  Owed(q, 0)'
<1>1. StoppedAt(q)' = {}
  BY DEF StoppedAt
<1>2. Cardinality({}) = 0
  BY FS_EmptySet, Zenon
<1>3. Load(q)' = 0 + 0 + 0
  BY <1>1, <1>2, Zenon DEF Load
<1>4. Load(q)' = 0
  BY <1>3
<1> QED
  BY <1>1, <1>4 DEF Owed, EndsLast

LEMMA OneOwed ==
  ASSUME NEW q, NEW x, \/ Busy(q)' = {x} /\ Kin(q)' = {} 
                       \/ Busy(q)' = {} /\ Kin(q)' = {x}, box'[q] = <<>>
  PROVE  Owed(q, 1)'
<1>1. StoppedAt(q)' = {}
  BY DEF StoppedAt
<1>2. Cardinality({}) = 0 /\ Cardinality({x}) = 1
  BY FS_EmptySet, FS_Singleton, Zenon
<1>3. Load(q)' = 0 + 1 + 0 \/ Load(q)' = 1 + 0 + 0
  BY <1>1, <1>2, Zenon DEF Load
<1>4. Load(q)' = 1
  BY <1>3
<1> QED
  BY <1>1, <1>4 DEF Owed, EndsLast

\* A root search has begun: the object c for the queue q is alone, and has asked for the book.
Begins(c, q, pos) ==
  /\ node'[c].kids = {} /\ node'[c].maxval = -1 /\ ~node'[c].stopped /\ node'[c].pos = pos
  /\ node'[c].sink = q /\ node'[c].pc = "book"
  /\ IsInjective(node'[c].usis) /\ Len(node'[c].usis) >= 1 /\ node'[c].usis[1] = 1
  /\ \A o \in Node \ {c} : node'[o].pc \in Idle
  /\ eng'[1].sink = c /\ Len(eng'[1].jobs) = 1 /\ eng'[1].jobs # <<>>
  /\ eng'[1].jobs[1].kind = "book" /\ eng'[1].jobs[1].pos = pos /\ ~eng'[1].searching
  /\ \A e \in Engine \ {1} : eng'[e].jobs = <<>> /\ ~eng'[e].searching
  /\ box'[c] = <<>> /\ \A p \in External : box'[p] = <<>>
  /\ root' = c /\ ~raised'

LEMMA Begun ==
  ASSUME Types', NEW c \in Node, NEW q \in External, NEW pos, Begins(c, q, pos)
  PROVE  /\ Whole' /\ RootAbove'
         /\ Owed(q, 1)' /\ Places(q, pos)' /\ Single(q)'
         /\ \A p \in External : p # q => Owed(p, 0)'
<1>1. 1 \in Engine /\ c \notin External /\ c \in Queue /\ q \notin Node /\ External \subseteq Queue
      /\ q \in Queue
  BY Sizes DEF Engine
<1>2. Live' = {c}
  BY DEF Begins, Live, Idle
<1>3. \A e \in Engine : (Open(e)' <=> e = 1) /\ Len(eng'[e].jobs) <= 1
  <2>1. Len(<<>>) <= 1
    OBVIOUS
  <2>2. Open(1)' /\ Len(eng'[1].jobs) <= 1
    BY DEF Begins, Open
  <2>3. ASSUME NEW e \in Engine, e # 1 PROVE ~Open(e)' /\ Len(eng'[e].jobs) <= 1
    <3>1. eng'[e].jobs = <<>>
      BY <2>3 DEF Begins
    <3> QED
      BY <2>1, <3>1, Zenon DEF Open
  <2> QED
    BY <2>2, <2>3, Zenon
<1>4. eng'[1].sink = c /\ Kind(1)' = "book" /\ eng'[1].jobs[1].pos = pos
      /\ \A e \in Engine : ~eng'[e].searching
  BY DEF Begins, Kind
<1>5. Busy(c)' = {1} /\ \A p : p # c => Busy(p)' = {}
  BY <1>1, <1>3, <1>4 DEF Busy
<1>6. Kin(q)' = {c} /\ \A p : p # q => Kin(p)' = {}
  BY <1>2 DEF Kin, Begins
<1>7. c # q /\ Kin(c)' = {} /\ Busy(q)' = {}
  BY <1>1, <1>5, <1>6
<1>8. Tree'
  <2>1. OneJob'
    BY <1>3, <1>4 DEF OneJob
  <2>2. Sinks'
    BY <1>2, <1>3, <1>4 DEF Sinks, Begins
  <2>3. Squads'
    BY <1>2 DEF Squads, Begins
  <2>4. Apart'
    BY <1>2 DEF Apart
  <2>5. OwnJobs'
    <3>1. Team(c)' = Members(c)'
      BY DEF Team, Begins
    <3>2. Members(c)' \subseteq Engine
      <4>1. PICK u \in Seq(Engine) : u = node'[c].usis
        BY DEF Types, NodeRec
      <4>2. ToSet(u) \subseteq Engine
        BY DEF ToSet
      <4> QED
        BY <4>1, <4>2 DEF Members
    <3> QED
      BY <1>2, <1>3, <1>4, <3>1, <3>2 DEF OwnJobs
  <2>6. Stage(c)'
    <3>1. node'[c].usis[1] = 1 /\ box'[c] = <<>> /\ node'[c].pc = "book"
      BY DEF Begins
    <3>2. InBook(c)'
      BY <1>4, <1>5, <3>1, Zenon DEF InBook
    <3> QED
      BY <3>1, <3>2 DEF Stage, Waiting
  <2>7. \A p \in External : Reported(p)'
    <3>1. \A p \in External : p # c
      BY <1>1
    <3> QED
      BY <1>5, <3>1 DEF Reported, Says, Begins
  <2>8. Stages'
    BY <1>2, <2>6, <2>7 DEF Stages
  <2> QED
    BY <2>1, <2>2, <2>3, <2>4, <2>5, <2>8 DEF Tree
<1>9. KidsOwn'
  <2>1. PICK n \in [Node -> NodeRec] : n = node'
    BY DEF Types
  <2>2. n[c].kids = {}
    BY <2>1 DEF Begins
  <2>3. Reach(n, {c}) = {c}
    <3>1. {c} \in SUBSET Node
      OBVIOUS
    <3>2. Reach(n, {c}) \subseteq {c}
      BY SMTT(30), <2>2, <3>1, ReachIs
    <3>3. {c} \subseteq Reach(n, {c})
      BY <3>1, ReachIs
    <3> QED
      BY <3>2, <3>3
  <2>4. Reached' = {c}
    <3>1. {root'} \cap Node = {c} /\ Live' = {c}
      BY <1>2 DEF Begins
    <3>2. Reached' = Reach(n, {c}) \cup Reach(n, {c})
      BY <2>1, <3>1, Zenon DEF Reached
    <3> QED
      BY <2>3, <3>2
  <2> QED
    BY <2>4 DEF KidsOwn, Begins
<1>10. Keen(c)' /\ Single(q)'
  BY <1>6 DEF Keen, Begins, Single, Hopes
<1>11. Places(q, pos)' /\ Places(c, pos)'
  <2>1. box'[q] = <<>> /\ box'[c] = <<>>
    BY DEF Begins
  <2>2. Said(<<>>) = {}
    BY DEF Said
  <2>3. Places(q, pos)'
    BY <1>5, <1>6, <1>7, <2>1, <2>2 DEF Places, Begins
  <2>4. Places(c, pos)'
    BY <1>4, <1>5, <1>7, <2>1, <2>2 DEF Places
  <2> QED
    BY <2>3, <2>4
<1>12. AllValues'
  <2>1. Values(c)'
    BY <1>11 DEF Begins, Values, Waiting
  <2> QED
    BY <1>2, <2>1 DEF AllValues
<1>13. Whole' /\ RootAbove'
  BY <1>2, <1>8, <1>9, <1>12 DEF Whole, RootAbove, Begins
<1>14. Owed(q, 1)'
  BY <1>6, <1>7, OneOwed DEF Begins
<1>15. ASSUME NEW p \in External, p # q PROVE Owed(p, 0)'
  <2>1. p # c
    BY <1>1
  <2> QED
    BY <1>5, <1>6, <1>15, <2>1, QuietLoad DEF Begins
<1> QED
  BY <1>10, <1>11, <1>13, <1>14, <1>15

-----------------------------------------------------------------------------
(* New objects of the player.                                              *)

\* The first stub is asked for the book.
LEMMA AsksBook ==
  ASSUME eng \in [Engine -> StubRec], \A e \in Engine : ~Open(e) /\ ~eng[e].searching,
         NEW pos \in Seq(Nat), NEW c \in Queue, eng' = [eng EXCEPT ![1] = Ask(@, "book", pos, c)]
  PROVE  /\ eng' \in [Engine -> StubRec]
         /\ eng'[1].sink = c /\ Len(eng'[1].jobs) = 1 /\ eng'[1].jobs # <<>>
         /\ eng'[1].jobs[1].kind = "book" /\ eng'[1].jobs[1].pos = pos /\ ~eng'[1].searching
         /\ \A e \in Engine \ {1} : eng'[e].jobs = <<>> /\ ~eng'[e].searching
<1>1. 1 \in Engine
  BY Sizes DEF Engine
<1>2. PICK s \in StubRec : s = eng[1] /\ s.jobs = <<>> /\ ~s.searching
  BY <1>1 DEF Open
<1>3. PICK f \in BOOLEAN : f = FALSE
  OBVIOUS
<1>4. PICK j \in JobRec : j = Job("book", pos, FALSE) /\ j.kind = "book" /\ j.pos = pos
  <2>1. PICK x : x = Job("book", pos, f)
    OBVIOUS
  <2>2. x \in JobRec /\ x.kind = "book" /\ x.pos = pos
    BY <2>1 DEF Job, JobRec, JobKind
  <2> QED
    BY <1>3, <2>1, <2>2, Zenon
<1>5. PICK g : g = Ask(s, "book", pos, c)
  OBVIOUS
<1>6. g = [s EXCEPT !.sink = c, !.jobs = Append(@, j)]
  BY <1>4, <1>5, Zenon DEF Ask
<1>7. PICK v \in Seq(JobRec) : v = Append(s.jobs, j) /\ Len(v) = 1 /\ v # <<>> /\ v[1] = j
  <2>1. PICK w \in Seq(JobRec) : w = s.jobs
    BY DEF StubRec
  <2>2. Len(w) = 0
    BY <1>2, <2>1
  <2>3. Append(w, j) \in Seq(JobRec) /\ Len(Append(w, j)) = 1 /\ Append(w, j)[1] = j
    BY <2>2
  <2>4. Append(w, j) # <<>>
    <3>1. Len(<<>>) # 1
      OBVIOUS
    <3> QED
      BY <2>3, <3>1, Zenon
  <2> QED
    BY <2>1, <2>3, <2>4, Zenon
<1>8. g = [s EXCEPT !.sink = c, !.jobs = v]
  BY <1>6, <1>7
<1>9. g \in StubRec /\ g.sink = c /\ ~g.searching /\ g.jobs = v
  BY <1>2, <1>8 DEF StubRec
<1>10. eng' = [eng EXCEPT ![1] = g]
  BY <1>2, <1>5, Zenon
<1>11. eng' \in [Engine -> StubRec] /\ eng'[1] = g /\ \A e \in Engine \ {1} : eng'[e] = eng[e]
  BY <1>1, <1>9, <1>10
<1> QED
  BY <1>4, <1>7, <1>9, <1>11 DEF Open

\* An object for all stubs, for the position after the move m, before and after it is asked.
LEMMA RootOfIs ==
  ASSUME turn \in Nat, NEW m \in Nat, NEW q \in External, NEW pos, pos = After(m),
         NEW M, M = RootOf(m, q), NEW r, r = RootCall(M)
  PROVE  /\ pos \in Seq(Nat)
         /\ M \in NodeRec /\ M.pc = "new" /\ M.kids = {} /\ M.pos = pos /\ Head(M.usis) = 1
         /\ r \in NodeRec /\ r.kids = {} /\ r.maxval = -1 /\ ~r.stopped /\ r.pos = pos /\ r.sink = q
         /\ r.pc = "book" /\ IsInjective(r.usis) /\ Len(r.usis) >= 1 /\ r.usis[1] = 1
<1>1. q \in Queue
  BY Sizes
<1>2. pos \in Seq(Nat)
  <2>1. <<turn, m>> \in Seq(Nat)
    OBVIOUS
  <2> QED
    BY <2>1, Zenon DEF After
<1>4. M = New([i \in 1 .. N |-> i], pos, 0, q, FALSE)
  BY Zenon DEF RootOf
<1>5. PICK s \in NodeRec, u \in Seq(Engine) :
        /\ RootCall(New([i \in 1 .. N |-> i], pos, 0, q, FALSE)) = s
        /\ New([i \in 1 .. N |-> i], pos, 0, q, FALSE).usis = u
        /\ New([i \in 1 .. N |-> i], pos, 0, q, FALSE).pos = pos
        /\ s.pc = "book" /\ s.usis = u /\ s.sink = q /\ s.ply = 0 /\ s.pos = pos
        /\ IsInjective(u) /\ Len(u) >= 1 /\ u[1] = 1 /\ Head(u) = 1 /\ ToSet(u) = Engine
  BY <1>1, <1>2, RootIs, ZenonT(60)
<1>6. r = s /\ M.usis = u /\ M.pos = pos
  BY <1>4, <1>5, Zenon
<1>7. PICK us, f : us = [i \in 1 .. N |-> i] /\ f = FALSE
  OBVIOUS
<1>8. M = New(us, pos, 0, q, f) /\ f \in BOOLEAN
  BY <1>4, <1>7, Zenon
<1>9. r.kids = {} /\ r.maxval = -1 /\ ~r.stopped
  <2>1. r = RootCall(New(us, pos, 0, q, f))
    BY <1>8, Zenon
  <2> QED
    BY <2>1, RootBare
<1>10. M \in NodeRec /\ M.pc = "new" /\ M.kids = {}
  <2>1. us \in Seq(Engine)
    <3>1. M.usis = us
      BY <1>8, NewFields
    <3> QED
      BY <1>5, <1>6, <3>1, Zenon
  <2>2. PICK z \in Nat : z = 0
    OBVIOUS
  <2>3. M = New(us, pos, z, q, f)
    BY <1>8, <2>2, Zenon
  <2>4. New(us, pos, z, q, f) \in NodeRec /\ New(us, pos, z, q, f).pc = "new"
    BY <1>1, <1>2, <1>8, <2>1, NewType
  <2>5. New(us, pos, z, q, f).kids = {}
    BY NewIs
  <2> QED
    BY <2>3, <2>4, <2>5, Zenon
<1> QED
  BY <1>2, <1>5, <1>6, <1>9, <1>10, Zenon

\* The place for it.
LEMMA FreshIs ==
  ASSUME Types, Room(1)
  PROVE  Fresh \in Node /\ Fresh \notin Live /\ Fresh \in Queue /\ Fresh \notin External
<1>1. PICK k : k = Cardinality(Unused)
  OBVIOUS
<1>2. k >= 1
  BY <1>1, UnusedIs, FS_CardinalityType DEF Room
<1>3. Unused # {}
  <2>1. Unused = {} => Cardinality(Unused) = 0
    BY FS_EmptySet, Zenon
  <2> QED
    BY <1>1, <1>2, <2>1
<1>4. Fresh \in Unused
  BY <1>3 DEF Fresh
<1> QED
  BY <1>4, UnusedIs, Sizes

\* The objects once M has taken its place.
LEMMA Renewed ==
  ASSUME Types, Live = {}, NEW M \in NodeRec, Renew(M)
  PROVE  /\ Fresh \in Node /\ Fresh \in Queue /\ Fresh \notin External
         /\ node' \in [Node -> NodeRec] /\ node'[Fresh] = M
         /\ \A o \in Node \ {Fresh} : node'[o].pc \in Idle
         /\ root' = Fresh /\ ~asked'
<1>1. PICK c \in Node : c = Fresh /\ c \in Queue /\ c \notin External
  BY FreshIs DEF Renew
<1>2. node' = [o \in Node |-> IF o = c THEN M ELSE IF o \in InUse THEN node[o] ELSE FreeNode]
      /\ root' = c /\ ~asked'
  BY <1>1 DEF Renew
<1>3. node \in [Node -> NodeRec] /\ FreeNode \in NodeRec /\ FreeNode.pc = "free"
  BY FreeIs DEF Types
<1>4. \A o \in Node : node[o].pc \in Idle
  BY DEF Live, Idle
<1>5. node' \in [Node -> NodeRec] /\ node'[c] = M
  BY <1>2, <1>3
<1>6. \A o \in Node \ {c} : node'[o].pc \in Idle
  BY <1>2, <1>3, <1>4 DEF Idle
<1> QED
  BY <1>1, <1>2, <1>5, <1>6

-----------------------------------------------------------------------------
(* Searches begin.                                                         *)

\* Nothing is owed to anybody.
AtRest == Whole /\ Owed(Client, 0) /\ Owed(Finish, 0)

LEMMA RestIs ==
  ASSUME AtRest
  PROVE  /\ Types /\ Tree /\ Live = {} /\ ~raised
         /\ \A e \in Engine : ~Open(e) /\ ~eng[e].searching
         /\ \A q \in Queue : Busy(q) = {} /\ Kin(q) = {}
         /\ \A q \in External : box[q] = <<>>
<1>1. Types /\ Tree /\ ~raised /\ Load(Client) = 0 /\ Load(Finish) = 0
      /\ box[Client] = <<>> /\ box[Finish] = <<>>
  BY DEF AtRest, Whole, Owed
<1> QED
  BY <1>1, NobodyWorks DEF External

\* A root search for q is on its way, and no other.
Launched(q, pos) ==
  /\ Whole' /\ RootAbove' /\ Owed(q, 1)' /\ Places(q, pos)' /\ Single(q)'
  /\ \A p \in External : p # q => Owed(p, 0)'

LEMMA Launch ==
  ASSUME AtRest, turn \in Nat, NEW m \in Nat, NEW q \in External, SearchNewRoot(m, q),
         raised' = raised, NEW pos, pos = After(m)
  PROVE  Launched(q, pos) /\ ~asked'
<1>1. /\ Types /\ Tree /\ Live = {} /\ ~raised /\ (\A p \in External : box[p] = <<>>)
      /\ \A e \in Engine : ~Open(e) /\ ~eng[e].searching
  BY RestIs
<1>2. PICK M, r : M = RootOf(m, q) /\ r = RootCall(M)
  OBVIOUS
<1>12. /\ pos \in Seq(Nat) /\ M \in NodeRec /\ M.pos = pos /\ Head(M.usis) = 1
       /\ r \in NodeRec /\ r.kids = {} /\ r.maxval = -1 /\ ~r.stopped /\ r.pos = pos /\ r.sink = q
       /\ r.pc = "book" /\ IsInjective(r.usis) /\ Len(r.usis) >= 1 /\ r.usis[1] = 1
  BY <1>2, RootOfIs
<1>3. Renew(r) /\ eng' = RootAsks(eng, Fresh, M) /\ box' = [box EXCEPT ![Fresh] = <<>>]
  BY <1>2, Zenon DEF SearchNewRoot
<1>4. PICK c : c = Fresh
  OBVIOUS
<1>5. /\ c \in Node /\ c \in Queue /\ c \notin External /\ node' \in [Node -> NodeRec] /\ node'[c] = r
      /\ (\A o \in Node \ {c} : node'[o].pc \in Idle) /\ root' = c /\ ~asked'
  BY <1>1, <1>12, <1>3, <1>4, Renewed
<1>6. eng' = [eng EXCEPT ![1] = Ask(@, "book", pos, c)]
  BY <1>2, <1>12, <1>3, <1>4, Zenon DEF RootAsks
<1>7. eng \in [Engine -> StubRec] /\ box \in [Queue -> Seq(MsgRec)]
  BY <1>1 DEF Types
<1>8. /\ eng' \in [Engine -> StubRec]
      /\ eng'[1].sink = c /\ Len(eng'[1].jobs) = 1 /\ eng'[1].jobs # <<>>
      /\ eng'[1].jobs[1].kind = "book" /\ eng'[1].jobs[1].pos = pos /\ ~eng'[1].searching
      /\ \A e \in Engine \ {1} : eng'[e].jobs = <<>> /\ ~eng'[e].searching
  BY <1>1, <1>12, <1>5, <1>6, <1>7, AsksBook
<1>9. /\ box' \in [Queue -> Seq(MsgRec)] /\ box'[c] = <<>> /\ \A p \in External : box'[p] = <<>>
  <2>1. PICK w \in Seq(MsgRec) : w = <<>>
    <3>1. <<>> \in Seq(MsgRec)
      OBVIOUS
    <3> QED
      BY <3>1, Zenon
  <2>2. box' = [box EXCEPT ![c] = w]
    BY <1>3, <1>4, <2>1, Zenon
  <2> QED
    BY <1>1, <1>5, <1>7, <2>1, <2>2, Sizes
<1>10. Types'
  <2>1. raised' \in BOOLEAN /\ asked' \in BOOLEAN
    BY <1>1, <1>3 DEF Types, Renew
  <2> QED
    BY <1>5, <1>8, <1>9, <2>1 DEF Types
<1>11. Begins(c, q, pos)
  BY <1>1, <1>12, <1>5, <1>8, <1>9 DEF Begins
<1> QED
  <2>1. Whole' /\ RootAbove' /\ Owed(q, 1)' /\ Places(q, pos)' /\ Single(q)'
        /\ \A p \in External : p # q => Owed(p, 0)'
    BY <1>5, <1>10, <1>11, Begun
  <2> QED
    BY <1>5, <2>1, Zenon DEF Launched

\* The object that ponder_move made begins its search.
LEMMA LaunchGuess ==
  ASSUME AtRest, turn \in Nat, NEW m \in Nat, NEW q \in External, root \in Node,
         node[root] = RootOf(m, q), box[root] = <<>>,
         node' = [node EXCEPT ![root] = RootCall(@)], eng' = RootAsks(eng, root, node[root]),
         box' = box, raised' = raised, root' = root, asked' = asked,
         NEW pos, pos = After(m)
  PROVE  Launched(q, pos)
<1>1. /\ Types /\ Tree /\ Live = {} /\ ~raised /\ (\A p \in External : box[p] = <<>>)
      /\ \A e \in Engine : ~Open(e) /\ ~eng[e].searching
  BY RestIs
<1>2. PICK M, r : M = RootOf(m, q) /\ r = RootCall(M)
  OBVIOUS
<1>12. /\ pos \in Seq(Nat) /\ M \in NodeRec /\ M.pos = pos /\ Head(M.usis) = 1
       /\ r \in NodeRec /\ r.kids = {} /\ r.maxval = -1 /\ ~r.stopped /\ r.pos = pos /\ r.sink = q
       /\ r.pc = "book" /\ IsInjective(r.usis) /\ Len(r.usis) >= 1 /\ r.usis[1] = 1
  BY SMTT(30), <1>2, RootOfIs
<1>3. PICK c \in Node : c = root /\ c \in Queue
  BY Sizes
<1>4. node \in [Node -> NodeRec] /\ eng \in [Engine -> StubRec]
  BY <1>1 DEF Types
<1>5. node' = [node EXCEPT ![c] = r]
  BY <1>2, <1>3
<1>6. /\ node' \in [Node -> NodeRec] /\ node'[c] = r
      /\ \A o \in Node \ {c} : node'[o].pc \in Idle
  BY <1>1, <1>12, <1>4, <1>5 DEF Live, Idle
<1>7. eng' = [eng EXCEPT ![1] = Ask(@, "book", pos, c)]
  <2>1. eng' = RootAsks(eng, c, M)
    BY <1>2, <1>3
  <2> QED
    BY <1>2, <1>12, <2>1, Zenon DEF RootAsks
<1>8. /\ eng' \in [Engine -> StubRec]
      /\ eng'[1].sink = c /\ Len(eng'[1].jobs) = 1 /\ eng'[1].jobs # <<>>
      /\ eng'[1].jobs[1].kind = "book" /\ eng'[1].jobs[1].pos = pos /\ ~eng'[1].searching
      /\ \A e \in Engine \ {1} : eng'[e].jobs = <<>> /\ ~eng'[e].searching
  BY <1>1, <1>12, <1>3, <1>4, <1>7, AsksBook
<1>9. Types'
  BY <1>1, <1>6, <1>8 DEF Types
<1>10. Begins(c, q, pos)
  BY <1>1, <1>12, <1>3, <1>6, <1>8 DEF Begins
<1> QED
  <2>1. Whole' /\ RootAbove' /\ Owed(q, 1)' /\ Places(q, pos)' /\ Single(q)'
        /\ \A p \in External : p # q => Owed(p, 0)'
    BY <1>3, <1>9, <1>10, Begun
  <2> QED
    BY <2>1, Zenon DEF Launched

\* ponder_move has made its object, and nobody works for it yet.
LEMMA Made ==
  ASSUME AtRest, turn \in Nat, NEW m \in Nat, NEW q \in External, Renew(RootOf(m, q)),
         box' = [box EXCEPT ![Client] = <<>>, ![Fresh] = <<>>], eng' = eng, raised' = raised
  PROVE  /\ AtRest' /\ RootAbove'
         /\ root' \in Node /\ node'[root'] = RootOf(m, q) /\ box'[root'] = <<>> /\ ~asked'
<1>1. /\ Types /\ Tree /\ Live = {} /\ ~raised /\ (\A p \in External : box[p] = <<>>)
      /\ \A e \in Engine : ~Open(e) /\ ~eng[e].searching
      /\ \A p \in Queue : Busy(p) = {} /\ Kin(p) = {}
  BY RestIs
<1>2. PICK M, pos : M = RootOf(m, q) /\ pos = After(m)
  OBVIOUS
<1>14. M \in NodeRec /\ M.pc = "new" /\ M.kids = {}
  BY <1>2, RootOfIs
<1>3. PICK c : c = Fresh
  OBVIOUS
<1>4. /\ c \in Node /\ c \in Queue /\ c \notin External /\ node' \in [Node -> NodeRec] /\ node'[c] = M
      /\ (\A o \in Node \ {c} : node'[o].pc \in Idle) /\ root' = c /\ ~asked'
  BY <1>1, <1>2, <1>3, <1>14, Renewed
<1>5. /\ box' \in [Queue -> Seq(MsgRec)] /\ box'[c] = <<>> /\ \A p \in External : box'[p] = <<>>
  <2>1. PICK w \in Seq(MsgRec) : w = <<>>
    <3>1. <<>> \in Seq(MsgRec)
      OBVIOUS
    <3> QED
      BY <3>1, Zenon
  <2>2. box' = [box EXCEPT ![Client] = w, ![c] = w]
    BY <1>3, <2>1, Zenon
  <2> QED
    BY <1>1, <1>4, <2>1, <2>2, Sizes DEF Types
<1>6. Types'
  <2>1. raised' \in BOOLEAN /\ asked' \in BOOLEAN
    BY <1>1 DEF Types, Renew
  <2> QED
    BY <1>1, <1>4, <1>5, <2>1 DEF Types
<1>7. Live' = {}
  BY <1>14, <1>4 DEF Live, Idle
<1>8. \A e \in Engine : ~Open(e)' /\ ~eng'[e].searching /\ Len(eng'[e].jobs) <= 1
  <2>1. Len(<<>>) <= 1
    OBVIOUS
  <2>2. \A e \in Engine : eng'[e].jobs = <<>> /\ ~eng'[e].searching
    BY <1>1 DEF Open
  <2> QED
    BY <2>1, <2>2 DEF Open
<1>9. \A p : Busy(p)' = {} /\ Kin(p)' = {}
  BY <1>7, <1>8 DEF Busy, Kin
<1>10. Tree'
  <2>1. OneJob'
    BY <1>8 DEF OneJob
  <2>2. Sinks' /\ Squads' /\ Apart' /\ OwnJobs'
    BY <1>7, <1>8 DEF Sinks, Squads, Apart, OwnJobs
  <2>3. \A p \in External : Reported(p)'
    <3> SUFFICES ASSUME NEW p \in External PROVE Reported(p)'
      OBVIOUS
    <3>1. Busy(p)' = {} /\ box'[p] = <<>>
      BY <1>5, <1>9
    <3>2. DOMAIN box'[p] = {}
      BY <3>1
    <3> QED
      BY <3>1, <3>2 DEF Reported, Says
  <2>4. Stages'
    BY <1>7, <2>3 DEF Stages
  <2> QED
    BY <2>1, <2>2, <2>4 DEF Tree
<1>11. KidsOwn' /\ AllValues' /\ RootAbove'
  BY <1>4, <1>7 DEF KidsOwn, AllValues, RootAbove
<1>12. Whole'
  BY <1>1, <1>6, <1>10, <1>11 DEF Whole
<1>13. Owed(Client, 0)' /\ Owed(Finish, 0)'
  BY <1>5, <1>9, QuietLoad DEF External
<1> QED
  BY <1>2, <1>4, <1>5, <1>11, <1>12, <1>13 DEF AtRest

-----------------------------------------------------------------------------
(* What the steps of the player leave of the rest.                         *)

\* The first stub is asked for a guess.
LEMMA GuessSent ==
  ASSUME AtRest, turn \in Nat, NEW own \in BOOLEAN,
         eng' = [eng EXCEPT ![1] = Search(@, <<turn>>, own, Client)],
         box' = [box EXCEPT ![Client] = <<>>], raised' = Refuses(1),
         node' = node, root' = root, asked' = asked
  PROVE  Whole' /\ RootAbove' /\ Owed(Client, 1)' /\ Owed(Finish, 0)'
<1>1. /\ Types /\ Tree /\ Live = {} /\ ~raised /\ (\A p \in External : box[p] = <<>>)
      /\ \A e \in Engine : ~Open(e) /\ ~eng[e].searching
      /\ \A p \in Queue : Busy(p) = {} /\ Kin(p) = {}
  BY RestIs
<1>2. 1 \in Engine /\ Client \in Queue /\ Finish \in Queue /\ Client # Finish
      /\ Client \in External /\ Finish \in External
  BY Sizes DEF Engine, External, Client, Finish
<1>3. PICK pos \in Seq(Nat) : pos = <<turn>>
  <2>1. <<turn>> \in Seq(Nat)
    OBVIOUS
  <2> QED
    BY <2>1, Zenon
<1>4. PICK E \in [Engine -> StubRec] : E = eng
  BY <1>1 DEF Types
<1>5. eng'[1] = Go(eng[1], "search", pos, own, Client)
  <2>1. PICK g : g = Go(eng[1], "search", pos, own, Client)
    OBVIOUS
  <2>2. eng' = [E EXCEPT ![1] = g]
    BY <1>3, <1>4, <2>1, Zenon DEF Search
  <2> QED
    BY <1>2, <2>1, <2>2
<1>6. /\ eng'[1] \in StubRec /\ WorksFor(1, Client) /\ Open(1)' /\ Kind(1)' = "search"
      /\ eng'[1].sink = Client /\ ~Refuses(1)
  <2>1. PICK kind \in JobKind : kind = "search"
    BY DEF JobKind
  <2>2. \E w \in BOOLEAN : eng'[1] = Go(eng[1], kind, pos, w, Client)
    BY <1>5, <2>1
  <2>3. OneJob
    BY <1>1 DEF Tree
  <2> QED
    BY <1>1, <1>2, <2>1, <2>2, <2>3, Sent
<1>7. /\ eng' \in [Engine -> StubRec]
      /\ \A e \in Engine : e # 1 => eng'[e] = eng[e]
  <2>1. PICK g \in StubRec : g = eng'[1]
    BY <1>6
  <2>2. PICK h : h = Search(eng[1], <<turn>>, own, Client)
    OBVIOUS
  <2>3. eng' = [E EXCEPT ![1] = h]
    BY <1>4, <2>2, Zenon
  <2>4. eng' = [E EXCEPT ![1] = g]
    BY <1>2, <2>1, <2>3
  <2> QED
    BY <1>4, <2>4
<1>8. box' = box
  <2>1. PICK B \in [Queue -> Seq(MsgRec)] : B = box
    BY <1>1 DEF Types
  <2>2. PICK w : w = <<>>
    OBVIOUS
  <2>3. box' = [B EXCEPT ![Client] = w] /\ B[Client] = w
    BY <1>1, <1>2, <2>1, <2>2
  <2> QED
    BY <2>1, <2>3
<1>9. ~raised' /\ Types'
  <2>1. ~raised'
    BY <1>6, Zenon
  <2>2. raised' \in BOOLEAN
    <3>1. PICK r \in StubRec : r = eng[1]
      BY <1>1, <1>2 DEF Types
    <3>2. r.searching \in BOOLEAN
      BY DEF StubRec
    <3> QED
      BY <3>1, <3>2 DEF Refuses
  <2> QED
    BY <1>1, <1>7, <1>8, <2>1, <2>2 DEF Types
<1>10. Live' = {}
  BY <1>1 DEF Live
<1>11. \A e \in Engine : /\ Open(e)' <=> e = 1
                         /\ Len(eng'[e].jobs) <= 1
                         /\ eng'[e].searching => Open(e)' /\ Kind(e)' = "search"
  <2>1. Len(<<>>) <= 1
    OBVIOUS
  <2>2. \A e \in Engine : e # 1 => eng'[e].jobs = <<>> /\ ~eng'[e].searching
    BY <1>1, <1>7 DEF Open
  <2>3. \A e \in Engine : e # 1 => ~Open(e)' /\ Len(eng'[e].jobs) <= 1 /\ ~eng'[e].searching
    BY <2>1, <2>2, Zenon DEF Open
  <2> QED
    BY <1>6, <2>3 DEF WorksFor
<1>12. Busy(Client)' = {1} /\ (\A p : p # Client => Busy(p)' = {}) /\ \A p : Kin(p)' = {}
  BY <1>2, <1>6, <1>10, <1>11 DEF Busy, Kin
<1>13. Tree'
  <2>1. OneJob'
    BY <1>11 DEF OneJob
  <2>2. Sinks' /\ Squads' /\ Apart' /\ OwnJobs'
    BY <1>2, <1>6, <1>10, <1>11 DEF Sinks, Squads, Apart, OwnJobs
  <2>3. \A p \in External : Reported(p)'
    <3> SUFFICES ASSUME NEW p \in External PROVE Reported(p)'
      OBVIOUS
    <3>1. \A e \in Busy(p)' : Kind(e)' = "search"
      BY <1>6, <1>12
    <3>2. DOMAIN box'[p] = {}
      BY <1>1, <1>8
    <3> QED
      BY <3>1, <3>2 DEF Reported, Says
  <2> QED
    BY <1>10, <2>1, <2>2, <2>3 DEF Tree, Stages
<1>14. KidsOwn' /\ AllValues' /\ RootAbove'
  <2>1. KidsOwn'
    BY SameKids DEF AtRest, Whole
  <2> QED
    BY <1>10, <2>1 DEF AllValues, RootAbove
<1>15. Whole'
  BY <1>9, <1>13, <1>14 DEF Whole
<1>16. Owed(Client, 1)' /\ Owed(Finish, 0)'
  <2>1. box'[Client] = <<>> /\ box'[Finish] = <<>>
    BY <1>1, <1>2, <1>8
  <2>2. Owed(Client, 1)'
    BY <1>12, <2>1, OneOwed
  <2>3. Owed(Finish, 0)'
    BY <1>2, <1>12, <2>1, QuietLoad
  <2> QED
    BY <2>2, <2>3
<1> QED
  BY <1>14, <1>15, <1>16

\* The player reads a queue of its own, or writes to it.
LEMMA Reading ==
  ASSUME Whole, Types', node' = node, eng' = eng, root' \in {root, 0}, ~raised',
         \A q \in Queue \ External : box'[q] = box[q],
         \A q \in External : Says(q, Results)'
  PROVE  /\ Whole' /\ (RootAbove => RootAbove')
         /\ \A q \in Queue : Busy(q)' = Busy(q) /\ Kin(q)' = Kin(q)
         /\ \A q \in External : box'[q] = box[q] => Carries(q)
<1>1. Types /\ Tree /\ KidsOwn /\ AllValues
  BY DEF Whole
<1>2. (\A p : Alike(p) /\ Still(p)) /\ (\A e \in Engine : AlikeStub(e))
  BY DEF Alike, Still, AlikeStub
<1>3. \A p \in Node \ Live : node'[p].pc \in Idle
  BY DEF Live, Idle
<1>4. /\ Tree' /\ Live' = Live
      /\ \A q \in Queue : Busy(q)' = Busy(q) /\ Kin(q)' = Kin(q)
      /\ \A q \in Queue : box'[q] = box[q] => Loads(q)
  <2>1. Live \subseteq Node
    BY DEF Live
  <2> HIDE DEF Alike, AlikeStub, Loads, Says, Live, Idle
  <2> QED
    BY <1>1, <1>2, <1>3, <2>1, QuietStep
<1>5. KidsOwn'
  <2>1. Live' \subseteq Live /\ (\A x \in Reached : node'[x].kids \subseteq node[x].kids)
        /\ \A c \in Live' : node'[c].sink = node[c].sink
    BY <1>4
  <2> QED
    BY <1>1, <2>1, KidsShrunk
<1>6. \A q \in Queue : SameJobs(q) /\ Excused(q, Kin(q))
  BY <1>4 DEF SameJobs, Excused
<1>7. AllValues'
  <2>1. ASSUME NEW p \in Live PROVE Values(p)'
    <3>1. p \in Queue \ External
      BY Sizes DEF Live
    <3>2. Values(p)
      BY <1>1 DEF AllValues
    <3> QED
      BY <1>2, <1>4, <1>6, <3>1, <3>2, ValuesKept
  <2> QED
    BY <1>4, <2>1 DEF AllValues
<1>8. Whole'
  BY <1>4, <1>5, <1>7 DEF Whole
<1>9. RootAbove => RootAbove'
  <2>1. 0 \notin Live
    BY Sizes DEF Live, External, Client
  <2> QED
    BY <1>4, <2>1 DEF RootAbove
<1>10. ASSUME NEW q \in External, box'[q] = box[q] PROVE Carries(q)
  <2>1. q \in Queue /\ q \notin Live
    BY Sizes DEF Live
  <2>2. /\ Single(q) => Single(q)'
        /\ \A P : Places(q, P) => Places(q, P)'
    BY <1>2, <1>4, <1>6, <1>10, <2>1, QueueKept
  <2>3. Load(q)' = Load(q) /\ (EndsLast(q) => EndsLast(q)')
    BY <1>4, <1>10, <2>1 DEF Load, EndsLast, StoppedAt
  <2> QED
    BY <1>10, <2>2, <2>3 DEF Carries, Owed
<1> QED
  BY <1>4, <1>8, <1>9, <1>10

\* A result that is owed is read: it is about the place that was asked about, and exact if
\* that was to be relied on.
Result(w, P) ==
  \A i \in DOMAIN w : w[i].type \in {"exact", "update"} /\ w[i].pos = P

LEMMA EndRead ==
  ASSUME Types, Tree, NEW q \in External, Owed(q, 1), CanFinish(q), NEW P
  PROVE  /\ Busy(q) = {} /\ Kin(q) = {} /\ ~Unexpected(q) /\ AfterStopped(q) = <<>>
         /\ WaitStopped(q) \in Seq(MsgRec) /\ Len(WaitStopped(q)) <= 1
         /\ Places(q, P) => Result(WaitStopped(q), P)
         /\ Single(q) => WaitStopped(q) # <<>> /\ WaitStopped(q)[1].type = "exact"
<1>1. q \in Queue /\ Reported(q) /\ Load(q) = 1 /\ EndsLast(q)
  BY Sizes DEF Tree, Stages, Owed
<1>2. Busy(q) = {} /\ Kin(q) = {}
  BY <1>1, LastEnd
<1>3. ~Unexpected(q)
  BY <1>1, NotUnexpected
<1>4. PICK b \in Seq(MsgRec) : b = box[q]
  BY <1>1 DEF Types
<1>5. PICK k : k = FirstStopped(q)
  OBVIOUS
<1>6. /\ k \in StoppedAt(q) /\ k = Len(b) /\ k \in DOMAIN b /\ k \in Nat /\ k >= 1
      /\ \A i \in StoppedAt(q) : i = k
  <2>1. k \in StoppedAt(q) /\ k \in 1 .. Len(b)
    BY <1>1, <1>4, <1>5, FirstIsFirst
  <2> QED
    BY <1>1, <1>4, <2>1 DEF EndsLast
<1>7. AfterStopped(q) = <<>>
  <2>1. AfterStopped(q) = SubSeq(b, k + 1, Len(b))
    BY <1>4, <1>5 DEF AfterStopped
  <2>2. SubSeq(b, k + 1, k) = <<>>
    BY <1>6
  <2> QED
    BY <1>6, <2>1, <2>2
<1>8. PICK w \in Seq(MsgRec) : w = WaitStopped(q)
  BY <1>1, FirstIsFirst
<1>9. CASE k = 1
  <2>1. w = <<>>
    BY <1>1, <1>5, <1>8, <1>9, FirstIsFirst
  <2>2. DOMAIN w = {} /\ Len(w) <= 1
    BY <2>1
  <2>3. ~ExactLast(box[q])
    <3>1. Said(box[q]) = {}
      <4>1. DOMAIN b = {1}
        <5>1. Len(b) = 1
          BY <1>6, <1>9
        <5> QED
          BY <5>1
      <4>2. b[1].type = "stopped"
        BY <1>4, <1>6, <1>9 DEF StoppedAt
      <4> QED
        BY <1>4, <4>1, <4>2 DEF Said
    <3> QED
      BY <3>1 DEF ExactLast
  <2>4. ~Single(q)
    BY <1>2, <2>3 DEF Single, Hopes
  <2> QED
    BY <1>2, <1>3, <1>7, <1>8, <2>2, <2>4 DEF Result
<1>10. CASE k # 1
  <2>1. WaitStopped(q) = <<box[q][FirstStopped(q) - 1]>>
    BY <1>1, <1>5, <1>10, FirstIsFirst
  <2>2. PICK x \in MsgRec : x = b[k - 1]
    BY <1>6, <1>10
  <2>3. w = <<x>>
    BY <1>4, <1>5, <1>8, <2>1, <2>2
  <2>4. DOMAIN w = {1} /\ w[1] = x /\ Len(w) <= 1 /\ w # <<>>
    BY <2>3
  <2>5. k - 1 \in DOMAIN b /\ k - 1 \notin StoppedAt(q)
    BY <1>6, <1>10
  <2>6. x.type \in Results /\ x.type # "stopped" /\ k - 1 \in Said(box[q])
    BY <1>1, <1>4, <2>2, <2>5 DEF Reported, Says, StoppedAt, Said
  <2>7. x.type \in {"exact", "update"}
    BY <2>6 DEF Results
  <2>8. Places(q, P) => x.pos = P
    BY <1>4, <2>2, <2>6 DEF Places
  <2>9. Single(q) => x.type = "exact"
    <3>1. SUFFICES ASSUME Single(q) PROVE x.type = "exact"
      OBVIOUS
    <3>2. ExactLast(box[q])
      BY <1>2, <3>1 DEF Single, Hopes
    <3>3. PICK m : WaitStopped(q) = <<m>> /\ m.type = "exact"
      BY <1>1, <3>2, ExactRead
    <3>4. <<m>>[1] = m
      OBVIOUS
    <3> QED
      BY <1>8, <2>4, <3>3, <3>4
  <2> QED
    BY <1>2, <1>3, <1>7, <1>8, <2>4, <2>7, <2>8, <2>9 DEF Result
<1> QED
  BY <1>9, <1>10

\* The reader of q has read what it was owed.
LEMMA EndTaken ==
  ASSUME Whole, Types', NEW q \in External, Owed(q, 1), CanFinish(q),
         raised' = Unexpected(q), box' = [box EXCEPT ![q] = AfterStopped(q)],
         eng' = eng, node' = node, root' = root
  PROVE  /\ Whole' /\ (RootAbove => RootAbove') /\ Owed(q, 0)'
         /\ \A p \in External : p # q => Carries(p)
<1>1. /\ Busy(q) = {} /\ Kin(q) = {} /\ ~Unexpected(q) /\ AfterStopped(q) = <<>> /\ q \in Queue
  BY EndRead, Sizes DEF Whole
<1>2. PICK w : w = <<>>
  OBVIOUS
<1>3. box'[q] = <<>> /\ \A p \in Queue : p # q => box'[p] = box[p]
  <2>1. PICK B \in [Queue -> Seq(MsgRec)] : B = box
    BY DEF Types, Whole
  <2>2. box' = [B EXCEPT ![q] = w]
    BY <1>1, <1>2, <2>1, Zenon
  <2> QED
    BY <1>1, <1>2, <2>1, <2>2
<1>4. \A p \in External : Says(p, Results)'
  <2> SUFFICES ASSUME NEW p \in External PROVE Says(p, Results)'
    OBVIOUS
  <2>1. CASE p = q
    <3>1. DOMAIN box'[p] = {}
      BY <1>3, <2>1
    <3> QED
      BY <3>1 DEF Says
  <2>2. CASE p # q
    BY <1>3, <2>2, Sizes DEF Whole, Tree, Stages, Reported, Says
  <2> QED
    BY <2>1, <2>2
<1>5. ~raised'
  BY <1>1, Zenon
<1>6. /\ Whole' /\ (RootAbove => RootAbove')
      /\ \A p \in Queue : Busy(p)' = Busy(p) /\ Kin(p)' = Kin(p)
      /\ \A p \in External : box'[p] = box[p] => Carries(p)
  <2>1. \A p \in Queue \ External : box'[p] = box[p]
    BY <1>3
  <2>2. root' \in {root, 0}
    OBVIOUS
  <2> HIDE DEF Says, Carries
  <2> QED
    BY <1>4, <1>5, <2>1, <2>2, Reading
<1>7. Owed(q, 0)'
  <2>1. Busy(q)' = {} /\ Kin(q)' = {}
    BY <1>1, <1>6
  <2> QED
    BY <1>3, <2>1, QuietLoad
<1> QED
  BY <1>3, <1>6, <1>7, Sizes

LEMMA Joined ==
  ASSUME NEW w \in Seq(MsgRec), NEW z \in Seq(MsgRec), Len(w) = 1, Len(z) = 1
  PROVE  /\ w \o z \in Seq(MsgRec) /\ Len(w \o z) = 2 /\ DOMAIN (w \o z) = {1, 2}
         /\ (w \o z)[1] = w[1] /\ (w \o z)[2] = z[1] /\ <<>> \o w = w
<1>1. w \o z \in Seq(MsgRec) /\ Len(w \o z) = 2
  BY SMTT(30)
<1>2. (w \o z)[1] = w[1] /\ (w \o z)[2] = z[1]
  OBVIOUS
<1>3. DOMAIN (w \o z) = {1, 2}
  BY <1>1
<1>4. \A s \in Seq(MsgRec) : <<>> \o s = s
  OBVIOUS
<1> QED
  BY <1>1, <1>2, <1>3, <1>4, Zenon

\* An answer that was kept is told again.
LEMMA ToldAgain ==
  ASSUME AtRest, NEW q \in External, NEW w \in Seq(MsgRec), Len(w) = 1, w[1].type = "exact",
         box' = [box EXCEPT ![q] = @ \o w \o <<Stopped>>],
         eng' = eng, node' = node, root' = root, asked' = asked, raised' = raised
  PROVE  /\ Whole' /\ (RootAbove => RootAbove')
         /\ Owed(q, 1)' /\ Single(q)' /\ Places(q, w[1].pos)'
         /\ \A p \in External : p # q => Owed(p, 0)'
<1>1. /\ Types /\ Tree /\ ~raised /\ (\A p \in External : box[p] = <<>>) /\ q \in Queue
      /\ \A p \in Queue : Busy(p) = {} /\ Kin(p) = {}
  BY RestIs, Sizes
<1>2. PICK x \in MsgRec : x = w[1]
  OBVIOUS
<1>3. PICK b \in Seq(MsgRec) :
        /\ b = <<>> \o w \o <<Stopped>> /\ Len(b) = 2 /\ DOMAIN b = {1, 2} /\ b[1] = x /\ b[2] = Stopped
  <2>1. PICK z \in Seq(MsgRec) : z = <<Stopped>> /\ Len(z) = 1 /\ z[1] = Stopped
    <3>1. PICK y \in MsgRec : y = Stopped
      BY StoppedType
    <3>2. <<y>> \in Seq(MsgRec) /\ Len(<<y>>) = 1 /\ <<y>>[1] = y
      OBVIOUS
    <3> QED
      BY <3>1, <3>2, Zenon
  <2>2. /\ w \o z \in Seq(MsgRec) /\ Len(w \o z) = 2 /\ DOMAIN (w \o z) = {1, 2}
        /\ (w \o z)[1] = w[1] /\ (w \o z)[2] = z[1] /\ <<>> \o w = w
    BY <2>1, Joined
  <2>3. w \o z = <<>> \o w \o <<Stopped>>
    BY <2>1, <2>2, Zenon
  <2>4. (w \o z)[1] = x /\ (w \o z)[2] = Stopped
    BY <1>2, <2>1, <2>2, Zenon
  <2> QED
    BY <2>2, <2>3, <2>4, Zenon
<1>4. box' \in [Queue -> Seq(MsgRec)] /\ box'[q] = b /\ \A p \in Queue : p # q => box'[p] = box[p]
  <2>1. PICK B \in [Queue -> Seq(MsgRec)] : B = box
    BY <1>1 DEF Types
  <2>2. PICK c : c = box[q] \o w \o <<Stopped>>
    OBVIOUS
  <2>3. c = b
    <3>1. box[q] = <<>>
      BY <1>1
    <3> QED
      BY <1>3, <2>2, <3>1, Zenon
  <2>4. box' = [B EXCEPT ![q] = c]
    BY <2>1, <2>2, Zenon
  <2> QED
    BY <1>1, <2>1, <2>3, <2>4
<1>5. Types'
  BY <1>1, <1>4 DEF Types
<1>6. \A p \in External : Says(p, Results)'
  <2> SUFFICES ASSUME NEW p \in External PROVE Says(p, Results)'
    OBVIOUS
  <2>1. CASE p = q
    <3>1. b[1].type = "exact" /\ b[2].type = "stopped"
      BY <1>2, <1>3, StoppedType
    <3> QED
      BY <1>3, <1>4, <2>1, <3>1 DEF Says, Results
  <2>2. CASE p # q
    <3>1. DOMAIN box'[p] = {}
      BY <1>1, <1>4, <2>2, Sizes
    <3> QED
      BY <3>1 DEF Says
  <2> QED
    BY <2>1, <2>2
<1>7. /\ Whole' /\ (RootAbove => RootAbove')
      /\ \A p \in Queue : Busy(p)' = Busy(p) /\ Kin(p)' = Kin(p)
  <2>1. \A p \in Queue \ External : box'[p] = box[p]
    BY <1>1, <1>4
  <2>2. root' \in {root, 0} /\ ~raised' /\ Whole
    BY <1>1 DEF AtRest
  <2> HIDE DEF Says
  <2> QED
    BY <1>5, <1>6, <2>1, <2>2, Reading
<1>8. \A p \in Queue : Busy(p)' = {} /\ Kin(p)' = {}
  BY <1>1, <1>7
<1>9. StoppedAt(q)' = {2} /\ Said(b) = {1}
  <2>1. b[1].type = "exact" /\ b[2].type = "stopped"
    BY <1>2, <1>3, StoppedType
  <2> QED
    BY <1>3, <1>4, <2>1 DEF StoppedAt, Said
<1>10. Owed(q, 1)'
  <2>1. Cardinality({}) = 0 /\ Cardinality({2}) = 1
    BY FS_EmptySet, FS_Singleton, Zenon
  <2>2. Busy(q)' = {} /\ Kin(q)' = {}
    BY <1>1, <1>8
  <2>3. Load(q)' = 0 + 0 + 1
    BY <1>9, <2>1, <2>2, Zenon DEF Load
  <2>4. EndsLast(q)'
    BY <1>3, <1>4, <1>9 DEF EndsLast
  <2>5. Load(q)' = 1
    BY <2>3
  <2> QED
    BY <2>4, <2>5 DEF Owed
<1>11. Single(q)'
  <2>1. ExactLast(b)
    BY <1>2, <1>3, <1>9 DEF ExactLast
  <2> QED
    BY <1>1, <1>4, <1>8, <2>1 DEF Single
<1>12. Places(q, w[1].pos)'
  <2>1. PICK P : P = w[1].pos
    OBVIOUS
  <2>2. Places(q, P)'
    BY <1>1, <1>2, <1>3, <1>4, <1>8, <1>9, <2>1 DEF Places
  <2> QED
    BY <2>1, <2>2
<1>13. ASSUME NEW p \in External, p # q PROVE Owed(p, 0)'
  <2>1. p \in Queue /\ box'[p] = <<>> /\ Busy(p)' = {} /\ Kin(p)' = {}
    BY <1>1, <1>4, <1>8, <1>13, Sizes
  <2> QED
    BY <2>1, QuietLoad
<1> QED
  BY <1>7, <1>10, <1>11, <1>12, <1>13

-----------------------------------------------------------------------------
\* The player stops its object.
LEMMA Halting ==
  ASSUME Whole, RootAbove, ~StopsBetween, root \in Node,
         node' = StopNodes(node, {root}), eng' = StopStubs(eng, StubsOf(node, {root})),
         box' = box, raised' = raised, root' = root, asked' \in BOOLEAN
  PROVE  /\ Whole' /\ RootAbove'
         /\ \A q \in External : /\ \A n \in {0, 1} : Owed(q, n) => Owed(q, n)'
                                /\ \A P : Places(q, P) => Places(q, P)'
<1>1. Types /\ Tree /\ ~raised /\ node \in [Node -> NodeRec]
  BY DEF Whole, Types
<1>2. eng' \in [Engine -> StubRec] /\ \A e \in Engine : AlikeStub(e)
  BY <1>1, StoppedStubs
<1>3. Types'
  BY <1>1, <1>2, StoppedNodes DEF Types
<1>4. \A p \in Node : Alike(p)
  <2> SUFFICES ASSUME NEW p \in Node PROVE Alike(p)
    OBVIOUS
  <2>1. node'[p].pc = node[p].pc
    BY <1>1, StoppedNodes
  <2>2. node[p].pc = "count" => node'[p] = node[p]
    BY <2>1 DEF StopsBetween
  <2> QED
    BY <1>1, <2>2, StoppedNodes DEF Alike
<1>5. (\A p \in Live : Alike(p)) /\ \A p \in Node \ Live : node'[p].pc \in Idle
  BY <1>4 DEF Live, Alike, Idle
<1>6. (\A q \in Queue : box'[q] = box[q]) /\ \A q \in External : Says(q, Results)'
  BY <1>1 DEF Tree, Stages, Reported, Says
<1>7. Tree' /\ \A q \in Queue : Load(q)' = Load(q)
  <2>1. \A q \in Queue \ External : box'[q] = box[q]
    BY <1>6
  <2>2. Tree' /\ \A q \in Queue : Loads(q)
    <3> HIDE DEF Alike, AlikeStub, Loads, Says, Live, Idle
    <3> QED
      BY <1>1, <1>2, <1>3, <1>5, <1>6, <2>1, QuietStep
  <2> QED
    BY <2>2 DEF Loads
<1>8. Halted
  BY <1>2, <1>3, StopKept
<1>9. Whole'
  BY <1>3, <1>7, <1>8 DEF Halted, Whole
<1>10. RootAbove'
  <2>1. root \in Reached
    BY <1>1, ReachedIs
  <2> QED
    BY <1>8, <2>1 DEF Halted, SinksStay, RootAbove
<1>11. ASSUME NEW q \in External, NEW n \in {0, 1}, Owed(q, n) PROVE Owed(q, n)'
  <2>1. q \in Queue
    BY Sizes
  <2>2. EndsLast(q)' /\ box'[q] = box[q]
    BY <1>11 DEF Owed, EndsLast, StoppedAt
  <2> QED
    BY <1>7, <1>11, <2>1, <2>2 DEF Owed
<1> QED
  BY <1>8, <1>9, <1>10, <1>11 DEF Halted

\* A process or a thread of the tree takes a step.
LEMMA Working ==
  ASSUME Whole, RootAbove, ~StopsBetween,
         (\E e \in Engine : ReaderStep(e)) \/ (\E o \in Node : NodeStep(o))
  PROVE  /\ Whole' /\ RootAbove' /\ root' = root /\ asked' = asked
         /\ \A q \in External : Carries(q)
<1>1. Kept /\ Fine /\ root' = root /\ asked' = asked
  <2>1. ASSUME NEW e \in Engine, ReaderStep(e)
        PROVE  Kept /\ Fine /\ root' = root /\ asked' = asked
    BY <2>1, AnswerKept DEF ReaderStep
  <2>2. ASSUME NEW o \in Node, NodeStep(o)
        PROVE  Kept /\ Fine /\ root' = root /\ asked' = asked
    <3>1. Kept /\ Fine
      BY <2>2, NodeKept
    <3>2. root' = root /\ asked' = asked
      BY <2>2 DEF NodeStep, BookAnswered, GenmovesAnswered, Presearch, PresearchTake, MateStopped,
                  PresearchEnd, Forced, ForcedStopped, Timeless, ProbabilityAnswered, Split,
                  SplitAmong, SplitNothing, Count, Collect, CollectStopped, CollectEnd
    <3> QED
      BY <3>1, <3>2
  <2> QED
    BY <2>1, <2>2
<1>2. Whole'
  BY <1>1 DEF Kept, Fine, Whole
<1>3. RootAbove'
  <2>1. root \in Node => root \in Reached
    BY ReachedIs DEF Whole
  <2>2. Live' \subseteq Node
    BY DEF Live
  <2> QED
    BY <1>1, <2>1, <2>2 DEF Kept, SinksStay, RootAbove
<1>4. ASSUME NEW q \in External PROVE Carries(q)
  <2>1. Follows(q) /\ Loads(q)
    BY <1>1 DEF Kept, Fine
  <2>2. ASSUME Owed(q, 1) PROVE Owed(q, 1)'
    BY <2>1, <2>2 DEF Owed, Loads
  <2>3. ASSUME Owed(q, 0) PROVE Owed(q, 0)'
    BY <2>1, <2>3 DEF Owed, Loads, Follows
  <2>4. ASSUME Owed(q, 1), Single(q) PROVE Single(q)'
    BY <2>1, <2>4 DEF Owed, Follows
  <2>5. \A P : Places(q, P) => Places(q, P)'
    BY <2>1 DEF Follows
  <2> QED
    BY <2>2, <2>3, <2>4, <2>5 DEF Carries
<1> QED
  BY <1>1, <1>2, <1>3, <1>4

\* Nobody takes a step when nobody works.
LEMMA NobodySteps ==
  ASSUME AtRest
  PROVE  /\ \A e \in Engine : ~ReaderStep(e)
         /\ \A o \in Node : ~NodeStep(o)
<1>1. Live = {} /\ \A e \in Engine : ~Open(e)
  BY RestIs
<1>2. ASSUME NEW e \in Engine, ReaderStep(e) PROVE FALSE
  BY <1>1, <1>2 DEF ReaderStep, Reader, Open
<1>3. ASSUME NEW o \in Node, NodeStep(o) PROVE FALSE
  <2>1. node[o].pc \notin {"free", "new", "done", "leaf"}
    BY <1>3 DEF NodeStep, BookAnswered, GenmovesAnswered, Presearch, PresearchTake, MateStopped,
                PresearchEnd, Forced, ForcedStopped, Timeless, ProbabilityAnswered, Split,
                SplitNothing, Count, Collect, CollectStopped, CollectEnd
  <2>2. o \in Live
    BY <2>1 DEF Live
  <2> QED
    BY <1>1, <2>2
<1> QED
  BY <1>2, <1>3

-----------------------------------------------------------------------------
(* The player: what its two threads know of each other and of the searches. *)

\* The thread waits for a guess, or for the search that a guess began; an answer is due.
Guessing == thr = "guessing"
Pondering == thr \in {"rooted", "searching"}
Answering == \/ main \in {"first", "rooted"}
             \/ main = "wait" /\ thr \in {"off", "lastrooted"}

PlayerTypes ==
  /\ main \in {"first", "wait", "answered", "reset", "his", "rooted", "over"}
  /\ thr \in {"off", "loop", "guess", "guessing", "move", "moving", "rooted", "searching",
              "last", "lastrooted"}
  /\ lock \in {free, "thr", "main"}
  /\ turn \in 0 .. Turns
  /\ played \in Move \cup {nil} /\ informed \in Move \cup {nil}
  /\ current \in Move \cup {nil} /\ expected \in Move \cup {nil}
  /\ ignored \subseteq Move /\ finished \in BOOLEAN /\ crashed \in BOOLEAN
  /\ kept \in [Move -> Seq(Seq(MsgRec))] /\ answer \in Seq(MsgRec)

\* Where one thread may be when the other is somewhere.
Threads ==
  /\ thr \in {"rooted", "lastrooted"} => lock = "thr"
  /\ thr \notin {"rooted", "lastrooted"} /\ main = "rooted" => lock = "main"
  /\ thr \notin {"rooted", "lastrooted"} /\ main # "rooted" => lock = free
  /\ main \in {"first", "rooted"} => thr = "off"
  /\ main \in {"answered", "reset"} => thr \in {"off", "lastrooted"}
  /\ main \in {"his", "over"} => thr # "lastrooted" /\ (finished <=> thr = "off")
  /\ main = "wait" /\ thr # "off" => informed # nil
  /\ main \in {"his", "over", "reset", "first"} => informed = nil \/ crashed
  /\ informed = played
  /\ turn = 0 => main \in {"first", "wait", "answered"} /\ thr = "off" /\ informed = nil

\* Each queue of the player is owed one end while it is waited for, and none else.
Debts ==
  /\ Guessing \/ Pondering => Owed(Client, 1)
  /\ ~(Guessing \/ Pondering) => Owed(Client, 0)
  /\ Answering => Owed(Finish, 1)
  /\ ~Answering => Owed(Finish, 0)

\* What the thread searches is the answer to the guess; it was not stopped unless the
\* opponent has made another move.
Guesses ==
  /\ thr \in {"move", "moving"} \/ Pondering => expected # nil
  /\ Pondering => /\ current = expected
                  /\ \A P : P = After(expected) => Places(Client, P)
                  /\ asked => informed \notin {nil, expected}
                  /\ asked \/ Single(Client)
  /\ thr = "moving" /\ informed = nil =>
       /\ root \in Node /\ ~asked /\ box[root] = <<>>
       /\ node[root] = RootOf(expected, Client)

\* What is kept for a move is about the position after it, and exact if the move may still
\* be, or is, the one the opponent made.
KeptAnswers ==
  \A m \in Move : kept[m] # <<>> =>
    /\ Len(kept[m]) = 1 /\ Len(kept[m][1]) <= 1
    /\ \A P : P = After(m) => Result(kept[m][1], P)
    /\ informed \in {nil, m} => kept[m][1] # <<>> /\ kept[m][1][1].type = "exact"

\* The answer that is due is on its way.
Due == Answering => /\ \A P : P = After(played) => Places(Finish, P)
                        /\ Single(Finish)

PlayerInv ==
  /\ Whole /\ RootAbove
  /\ PlayerTypes /\ Threads /\ Debts /\ Guesses /\ KeptAnswers /\ Due /\ AnswerFits

-----------------------------------------------------------------------------
(* What most steps leave alone.                                            *)
LEMMA Doors == Client \in External /\ Finish \in External /\ Client # Finish
              /\ Client \in Queue /\ Finish \in Queue /\ nil \notin Move /\ nil \notin Node
BY Sizes DEF External, Client, Finish, Move, nil, Node

LEMMA KeptSame ==
  ASSUME KeptAnswers, kept' = kept, turn' = turn, informed' = informed \/ informed = nil
  PROVE  KeptAnswers'
BY DEF KeptAnswers, After

LEMMA FitsSame ==
  ASSUME AnswerFits, turn' = turn, played' = played, answer' = answer,
         main' = "answered" => main = "answered"
  PROVE  AnswerFits'
BY DEF AnswerFits, After

LEMMA DueSame ==
  ASSUME Due, Debts, Carries(Finish), turn' = turn, played' = played, Answering' => Answering
  PROVE  Due'
<1>1. SUFFICES ASSUME Answering'
               PROVE  (\A P : P = After(played)' => Places(Finish, P)') /\ Single(Finish)'
  BY DEF Due
<1>2. Owed(Finish, 1) /\ Single(Finish) /\ \A P : P = After(played) => Places(Finish, P)
  BY <1>1 DEF Due, Debts
<1>3. After(played)' = After(played)
  BY DEF After
<1> QED
  BY <1>2, <1>3, Zenon DEF Carries

LEMMA DebtsSame ==
  ASSUME Debts, Carries(Finish), Carries(Client), Answering' <=> Answering,
         (Guessing \/ Pondering)' <=> (Guessing \/ Pondering)
  PROVE  Debts'
BY Zenon DEF Debts, Carries

\* The search of the guess goes on.
LEMMA PonderingSame ==
  ASSUME Guesses, Debts, Carries(Client), Pondering, turn' = turn, expected' = expected,
         current' = current, informed' = informed, asked' = asked
  PROVE  /\ current' = expected'
         /\ \A P : P = After(expected)' => Places(Client, P)'
         /\ asked' => informed' \notin {nil, expected'}
         /\ asked' \/ Single(Client)'
<1>1. /\ current = expected /\ (asked => informed \notin {nil, expected})
      /\ (\A P : P = After(expected) => Places(Client, P)) /\ (asked \/ Single(Client))
      /\ Owed(Client, 1)
  BY DEF Guesses, Debts
<1>2. After(expected)' = After(expected)
  BY DEF After
<1>3. \A P : P = After(expected)' => Places(Client, P)'
  BY <1>1, <1>2, Zenon DEF Carries
<1>4. asked' \/ Single(Client)'
  BY <1>1, Zenon DEF Carries
<1> QED
  BY <1>1, <1>3, <1>4

\* So does the guess itself.
LEMMA GuessesSame ==
  ASSUME Guesses, Debts, Carries(Client), turn' = turn, thr' = thr, expected' = expected,
         current' = current, informed' = informed, asked' = asked, root' = root,
         thr = "moving" /\ informed = nil => node' = node /\ box' = box
  PROVE  Guesses'
<1>1. Pondering' <=> Pondering
  BY DEF Pondering
<1>2. thr' \in {"move", "moving"} \/ Pondering' => expected' # nil
  BY <1>1 DEF Guesses
<1>3. Pondering' => /\ current' = expected'
                    /\ \A P : P = After(expected)' => Places(Client, P)'
                    /\ asked' => informed' \notin {nil, expected'}
                    /\ asked' \/ Single(Client)'
  BY <1>1, PonderingSame
<1>4. ASSUME thr' = "moving", informed' = nil
      PROVE  /\ root' \in Node /\ ~asked' /\ box'[root'] = <<>>
             /\ node'[root'] = RootOf(expected, Client)'
  <2>1. node' = node /\ box' = box
    BY <1>4
  <2>2. root \in Node /\ ~asked /\ box[root] = <<>> /\ node[root] = RootOf(expected, Client)
    BY <1>4 DEF Guesses
  <2>3. RootOf(expected, Client)' = RootOf(expected, Client)
    BY Zenon DEF RootOf, After
  <2> QED
    BY <2>1, <2>2, <2>3
<1> QED
  BY <1>2, <1>3, <1>4, Zenon DEF Guesses

\* The player takes no step.
LEMMA PlayerStays ==
  ASSUME PlayerInv, Whole', RootAbove', UNCHANGED player, root' = root, asked' = asked,
         \A q \in External : Carries(q),
         thr = "moving" /\ informed = nil => node' = node /\ box' = box
  PROVE  PlayerInv'
<1>1. /\ main' = main /\ thr' = thr /\ lock' = lock /\ turn' = turn /\ played' = played
      /\ informed' = informed /\ current' = current /\ expected' = expected
      /\ ignored' = ignored /\ kept' = kept /\ finished' = finished /\ answer' = answer
      /\ crashed' = crashed
  BY DEF player, fields
<1>2. Carries(Client) /\ Carries(Finish)
  BY Doors
<1>3. PlayerTypes' /\ Threads'
  BY <1>1 DEF PlayerInv, PlayerTypes, Threads
<1>4. (Answering' <=> Answering) /\ (Guessing' <=> Guessing) /\ (Pondering' <=> Pondering)
  BY <1>1 DEF Answering, Guessing, Pondering
<1>5. Debts'
  BY <1>2, <1>4, DebtsSame DEF PlayerInv
<1>6. Due'
  BY <1>1, <1>2, <1>4, DueSame DEF PlayerInv
<1>7. KeptAnswers' /\ AnswerFits'
  BY <1>1, KeptSame, FitsSame DEF PlayerInv
<1>8. Guesses'
  BY <1>1, <1>2, GuessesSame DEF PlayerInv
<1> QED
  BY <1>3, <1>5, <1>6, <1>7, <1>8 DEF PlayerInv

\* The tree takes no step.
LEMMA TreeStays ==
  ASSUME PlayerInv, UNCHANGED vars
  PROVE  /\ Whole' /\ RootAbove' /\ Carries(Client) /\ Carries(Finish)
         /\ node' = node /\ eng' = eng /\ box' = box /\ raised' = raised /\ root' = root
         /\ asked' = asked
<1>1. /\ node' = node /\ eng' = eng /\ box' = box /\ raised' = raised /\ root' = root
      /\ asked' = asked
  BY DEF vars
<1>2. Types' /\ Whole /\ ~raised' /\ RootAbove
  BY <1>1 DEF PlayerInv, Whole, Types
<1>3. \A q \in External : Says(q, Results)'
  BY <1>1 DEF PlayerInv, Whole, Tree, Stages, Reported, Says
<1>4. Whole' /\ RootAbove' /\ \A q \in External : Carries(q)
  <2>1. (\A q \in Queue \ External : box'[q] = box[q]) /\ root' \in {root, 0}
        /\ \A q \in External : box'[q] = box[q]
    BY <1>1
  <2> HIDE DEF Says, Carries
  <2> QED
    BY <1>1, <1>2, <1>3, <2>1, Reading
<1> QED
  BY <1>1, <1>4, Doors

\* Nobody works while the player has begun nothing.
LEMMA PlayerRests ==
  ASSUME PlayerInv, ~Guessing, ~Pondering, ~Answering
  PROVE  AtRest /\ turn \in Nat
BY DEF PlayerInv, Debts, AtRest, PlayerTypes

\* The processes and the threads of the tree.
LEMMA WorkKept ==
  ASSUME PlayerInv, ~StopsBetween, UNCHANGED player,
         (\E e \in Engine : ReaderStep(e)) \/ (\E o \in Node : NodeStep(o))
  PROVE  PlayerInv'
<1>1. /\ Whole' /\ RootAbove' /\ root' = root /\ asked' = asked
      /\ \A q \in External : Carries(q)
  BY Working DEF PlayerInv
<1>2. ~(thr = "moving" /\ informed = nil)
  <2>1. SUFFICES ASSUME thr = "moving" PROVE FALSE
    OBVIOUS
  <2>2. ~Guessing /\ ~Pondering /\ ~Answering
    BY <2>1 DEF PlayerInv, Threads, Guessing, Pondering, Answering
  <2> QED
    BY <2>2, PlayerRests, NobodySteps
<1> QED
  BY <1>1, <1>2, PlayerStays

LEMMA StutterKept ==
  ASSUME PlayerInv, UNCHANGED allvars
  PROVE  PlayerInv'
<1>1. UNCHANGED vars /\ UNCHANGED player
  BY DEF allvars
<1>2. /\ Whole' /\ RootAbove' /\ Carries(Client) /\ Carries(Finish)
      /\ node' = node /\ box' = box /\ root' = root /\ asked' = asked
  BY <1>1, TreeStays
<1>3. \A q \in External : Carries(q)
  BY <1>2 DEF External
<1> QED
  BY <1>1, <1>2, <1>3, PlayerStays

-----------------------------------------------------------------------------
(* Steps of the player alone.                                              *)
LEMMA FieldsKept ==
  ASSUME PlayerInv, UNCHANGED vars, PlayerTypes', Threads',
         turn' = turn, played' = played, answer' = answer, kept' = kept, informed' = informed,
         main' = "answered" => main = "answered",
         Answering' <=> Answering, (Guessing \/ Pondering)' <=> (Guessing \/ Pondering),
         \/ ~Pondering' /\ thr' # "moving" /\ (thr' = "move" => expected' # nil)
         \/ Pondering /\ Pondering' /\ expected' = expected /\ current' = current
  PROVE  PlayerInv'
<1>1. Whole' /\ RootAbove' /\ Carries(Client) /\ Carries(Finish) /\ asked' = asked
  BY TreeStays
<1>2. Debts'
  BY <1>1, DebtsSame DEF PlayerInv
<1>3. Due'
  BY <1>1, DueSame DEF PlayerInv
<1>4. KeptAnswers' /\ AnswerFits'
  BY KeptSame, FitsSame DEF PlayerInv
<1>5. CASE ~Pondering' /\ thr' # "moving" /\ (thr' = "move" => expected' # nil)
  <2>1. Guesses'
    BY <1>5 DEF Guesses
  <2> QED
    BY <1>1, <1>2, <1>3, <1>4, <2>1 DEF PlayerInv
<1>6. CASE Pondering /\ Pondering' /\ expected' = expected /\ current' = current
  <2>1. /\ current' = expected'
        /\ \A P : P = After(expected)' => Places(Client, P)'
        /\ asked' => informed' \notin {nil, expected'}
        /\ asked' \/ Single(Client)'
    BY <1>1, <1>6, PonderingSame DEF PlayerInv
  <2>2. expected' # nil
    BY <1>6 DEF PlayerInv, Guesses
  <2>3. thr' # "moving"
    BY <1>6 DEF Pondering
  <2>4. Guesses'
    BY <2>1, <2>2, <2>3, Zenon DEF Guesses
  <2> QED
    BY <1>1, <1>2, <1>3, <1>4, <2>4 DEF PlayerInv
<1> QED
  BY <1>5, <1>6

LEMMA LoopKept ==
  ASSUME PlayerInv, ThrLoop
  PROVE  PlayerInv'
<1>1. /\ thr = "loop"
      /\ \/ informed # nil /\ thr' = "last"
         \/ informed = nil /\ expected = nil /\ thr' = "guess"
         \/ informed = nil /\ expected # nil /\ thr' = "move"
  BY DEF ThrLoop
<1>2. /\ UNCHANGED vars /\ main' = main /\ lock' = lock /\ turn' = turn /\ played' = played
      /\ informed' = informed /\ current' = current /\ expected' = expected
      /\ ignored' = ignored /\ kept' = kept /\ finished' = finished /\ answer' = answer
      /\ crashed' = crashed
  BY DEF ThrLoop, fields
<1>3. PlayerTypes' /\ Threads'
  BY <1>1, <1>2 DEF PlayerInv, PlayerTypes, Threads
<1>4. /\ (Answering' <=> Answering)
      /\ ~Pondering' /\ ~Guessing' /\ ~Pondering /\ ~Guessing
      /\ thr' # "moving" /\ (thr' = "move" => expected' # nil)
  BY <1>1, <1>2 DEF PlayerInv, Threads, Answering, Pondering, Guessing
<1> QED
  BY <1>2, <1>3, <1>4, FieldsKept

LEMMA RootedKept ==
  ASSUME PlayerInv, ThrRooted
  PROVE  PlayerInv'
<1>1. /\ UNCHANGED vars /\ main' = main /\ lock' = free /\ turn' = turn /\ played' = played
      /\ informed' = informed /\ current' = current /\ expected' = expected
      /\ ignored' = ignored /\ kept' = kept /\ finished' = finished /\ answer' = answer
      /\ crashed' = crashed /\ thr = "rooted" /\ thr' = "searching"
  BY DEF ThrRooted, fields
<1>2. PlayerTypes' /\ Threads'
  BY <1>1 DEF PlayerInv, PlayerTypes, Threads
<1>3. (Answering' <=> Answering) /\ Pondering' /\ Pondering
  BY <1>1 DEF PlayerInv, Threads, Answering, Pondering
<1> QED
  BY <1>1, <1>2, <1>3, FieldsKept

LEMMA LastRootedKept ==
  ASSUME PlayerInv, ThrLastRooted
  PROVE  PlayerInv'
<1>1. finished'
  BY Zenon DEF ThrLastRooted
<1>2. /\ UNCHANGED vars /\ main' = main /\ lock' = free /\ turn' = turn /\ played' = played
      /\ informed' = informed /\ current' = current /\ expected' = expected
      /\ ignored' = ignored /\ kept' = kept /\ answer' = answer
      /\ crashed' = crashed /\ thr = "lastrooted" /\ thr' = "off" /\ finished' \in BOOLEAN
  BY DEF ThrLastRooted
<1>3. PlayerTypes' /\ Threads'
  BY <1>1, <1>2 DEF PlayerInv, PlayerTypes, Threads
<1>4. (Answering' <=> Answering) /\ ~Pondering' /\ ~Pondering /\ ~Guessing' /\ ~Guessing
      /\ thr' # "moving" /\ thr' # "move"
  BY <1>2 DEF PlayerInv, Threads, Answering, Pondering, Guessing
<1> QED
  BY <1>2, <1>3, <1>4, FieldsKept

LEMMA FirstKept ==
  ASSUME PlayerInv, FirstSearch
  PROVE  PlayerInv'
<1>1. /\ UNCHANGED vars /\ thr' = thr /\ lock' = lock /\ turn' = turn /\ played' = played
      /\ informed' = informed /\ current' = current /\ expected' = expected
      /\ ignored' = ignored /\ kept' = kept /\ finished' = finished /\ answer' = answer
      /\ crashed' = crashed /\ main = "first" /\ main' = "wait"
  BY DEF FirstSearch, fields
<1>2. PlayerTypes' /\ Threads'
  BY <1>1 DEF PlayerInv, PlayerTypes, Threads
<1>3. (Answering' <=> Answering) /\ ~Pondering' /\ ~Pondering /\ ~Guessing' /\ ~Guessing
      /\ thr' # "moving" /\ thr' # "move"
  BY <1>1 DEF PlayerInv, Threads, Answering, Pondering, Guessing
<1> QED
  BY <1>1, <1>2, <1>3, FieldsKept

LEMMA StartKept ==
  ASSUME PlayerInv, ~crashed, PonderStart
  PROVE  PlayerInv'
<1>1. ~finished'
  BY Zenon DEF PonderStart
<1>2. /\ UNCHANGED vars /\ thr' = "loop" /\ lock = free /\ lock' = lock /\ turn' = turn
      /\ played' = played /\ informed' = informed /\ current' = current
      /\ expected' \in Move \cup {nil} /\ ignored' = {} /\ kept' = kept
      /\ finished' \in BOOLEAN /\ answer' = answer
      /\ crashed' = crashed /\ main = "reset" /\ main' = "his"
  BY DEF PonderStart
<1>3. thr = "off" /\ informed = nil /\ turn # 0
  BY <1>2 DEF PlayerInv, Threads, free
<1>4. PlayerTypes' /\ Threads'
  BY <1>1, <1>2, <1>3 DEF PlayerInv, PlayerTypes, Threads
<1>5. (Answering' <=> Answering) /\ ~Pondering' /\ ~Pondering /\ ~Guessing' /\ ~Guessing
      /\ thr' # "moving" /\ thr' # "move"
  BY <1>2, <1>3 DEF Answering, Pondering, Guessing
<1> QED
  BY <1>2, <1>4, <1>5, FieldsKept

LEMMA InformRootedKept ==
  ASSUME PlayerInv, InformRooted
  PROVE  PlayerInv'
<1>1. /\ UNCHANGED vars /\ thr' = thr /\ lock' = free /\ turn' = turn /\ played' = played
      /\ informed' = informed /\ current' = current /\ expected' = expected
      /\ ignored' = ignored /\ kept' = kept /\ finished' = finished /\ answer' = answer
      /\ crashed' = crashed /\ main = "rooted" /\ main' = "wait"
  BY DEF InformRooted, fields
<1>2. PlayerTypes' /\ Threads'
  BY <1>1 DEF PlayerInv, PlayerTypes, Threads
<1>3. (Answering' <=> Answering) /\ ~Pondering' /\ ~Pondering /\ ~Guessing' /\ ~Guessing
      /\ thr' # "moving" /\ thr' # "move"
  BY <1>1 DEF PlayerInv, Threads, Answering, Pondering, Guessing
<1> QED
  BY <1>1, <1>2, <1>3, FieldsKept

\* The opponent resigns.
LEMMA ResignedKept ==
  ASSUME PlayerInv, Resigned
  PROVE  PlayerInv'
<1>1. UNCHANGED vars /\ main = "his" /\ main' = "over"
  BY DEF Resigned
<1>2. /\ thr' = thr /\ lock' = lock /\ turn' = turn /\ played' = played
      /\ informed' = informed /\ current' = current /\ expected' = expected
      /\ ignored' = ignored /\ kept' = kept /\ finished' = finished /\ answer' = answer
      /\ crashed' = crashed
  BY DEF Resigned, fields
<1>3. Whole' /\ RootAbove' /\ Carries(Client) /\ Carries(Finish)
      /\ node' = node /\ box' = box /\ root' = root /\ asked' = asked
  BY <1>1, TreeStays
<1>4. PlayerTypes' /\ Threads'
  BY <1>1, <1>2 DEF PlayerInv, PlayerTypes, Threads
<1>5. (Answering' <=> Answering) /\ (Pondering' <=> Pondering) /\ (Guessing' <=> Guessing)
  BY <1>1, <1>2 DEF Answering, Pondering, Guessing
<1>6. Debts' /\ Due' /\ KeptAnswers' /\ AnswerFits'
  <2>1. Debts'
    BY <1>3, <1>5, DebtsSame DEF PlayerInv
  <2>2. Due'
    BY <1>2, <1>3, <1>5, DueSame DEF PlayerInv
  <2>3. KeptAnswers' /\ AnswerFits'
    BY <1>1, <1>2, KeptSame, FitsSame DEF PlayerInv
  <2> QED
    BY <2>1, <2>2, <2>3
<1>7. Guesses'
  BY <1>2, <1>3, <1>5, GuessesSame DEF PlayerInv
<1> QED
  BY <1>3, <1>4, <1>6, <1>7 DEF PlayerInv

-----------------------------------------------------------------------------
(* The thread begins searches and reads what they found.                   *)

\* Between its searches the thread finds nobody at work.
LEMMA ThreadRests ==
  ASSUME PlayerInv, thr \in {"guess", "move", "moving", "last"}
  PROVE  /\ AtRest /\ turn \in Nat /\ main \in {"wait", "his", "over"}
         /\ main = "wait" => informed # nil
         /\ ~Guessing /\ ~Pondering /\ ~Answering
<1>1. main \in {"wait", "his", "over"} /\ (main = "wait" => informed # nil)
  BY DEF PlayerInv, PlayerTypes, Threads
<1>2. ~Guessing /\ ~Pondering /\ ~Answering
  BY <1>1 DEF Guessing, Pondering, Answering
<1> QED
  BY <1>1, <1>2, PlayerRests

LEMMA ThrGuessKept ==
  ASSUME PlayerInv, ThrGuess
  PROVE  PlayerInv'
<1>1. /\ thr = "guess" /\ thr' = "guessing" /\ main' = main /\ lock' = lock /\ turn' = turn
      /\ played' = played /\ informed' = informed /\ current' = nil /\ expected' = expected
      /\ ignored' = ignored /\ kept' = kept /\ finished' = finished /\ answer' = answer
      /\ crashed' = crashed
  BY DEF ThrGuess
<1>2. /\ AtRest /\ turn \in Nat /\ main \in {"wait", "his", "over"}
      /\ main = "wait" => informed # nil
  BY <1>1, ThreadRests
<1>3. Whole' /\ RootAbove' /\ Owed(Client, 1)' /\ Owed(Finish, 0)'
  <2>1. PICK own \in BOOLEAN : own = (ignored # {})
    OBVIOUS
  <2>2. /\ eng' = [eng EXCEPT ![1] = Search(@, <<turn>>, own, Client)]
        /\ box' = [box EXCEPT ![Client] = <<>>] /\ raised' = Refuses(1)
        /\ node' = node /\ root' = root /\ asked' = asked
    BY <2>1, Zenon DEF ThrGuess
  <2> QED
    BY <1>2, <2>2, GuessSent
<1>4. PlayerTypes' /\ Threads'
  BY <1>1, <1>2 DEF PlayerInv, PlayerTypes, Threads
<1>5. Guessing' /\ ~Answering' /\ ~Pondering'
  BY <1>1, <1>2 DEF Guessing, Answering, Pondering
<1>6. Debts' /\ Due'
  BY <1>3, <1>5 DEF Debts, Due
<1>7. Guesses'
  BY <1>1, <1>5 DEF Guesses
<1>8. KeptAnswers' /\ AnswerFits'
  BY <1>1, KeptSame, FitsSame DEF PlayerInv
<1> QED
  BY <1>3, <1>4, <1>6, <1>7, <1>8 DEF PlayerInv

\* What is read leaves the types as they are.
LEMMA TakenTypes ==
  ASSUME Types, NEW q \in External, AfterStopped(q) = <<>>, ~Unexpected(q),
         raised' = Unexpected(q), box' = [box EXCEPT ![q] = AfterStopped(q)],
         eng' = eng, node' = node, root' = root, asked' = asked
  PROVE  Types'
<1>1. q \in Queue
  BY Sizes
<1>2. PICK w \in Seq(MsgRec) : w = <<>>
  <2>1. <<>> \in Seq(MsgRec)
    OBVIOUS
  <2> QED
    BY <2>1, Zenon
<1>3. box' = [box EXCEPT ![q] = w]
  BY <1>2, Zenon
<1>4. box' \in [Queue -> Seq(MsgRec)]
  BY <1>1, <1>3 DEF Types
<1>5. raised' \in BOOLEAN
  BY Zenon DEF Unexpected
<1> QED
  BY <1>4, <1>5 DEF Types

LEMMA ThrGuessedKept ==
  ASSUME PlayerInv, ThrGuessed
  PROVE  PlayerInv'
<1>1. /\ thr = "guessing" /\ main' = main /\ lock' = lock /\ turn' = turn
      /\ played' = played /\ informed' = informed /\ current' = current
      /\ ignored' = ignored /\ kept' = kept /\ finished' = finished /\ answer' = answer
      /\ crashed' = crashed /\ eng' = eng /\ node' = node /\ root' = root /\ asked' = asked
      /\ CanFinish(Client) /\ raised' = Unexpected(Client)
      /\ box' = [box EXCEPT ![Client] = AfterStopped(Client)]
  BY DEF ThrGuessed
<1>2. \/ thr' = "last" /\ expected' \in {expected, nil}
      \/ thr' = "move" /\ expected' \in Move
  BY DEF ThrGuessed
<1>3. main \in {"wait", "his", "over"} /\ (main = "wait" => informed # nil)
  BY <1>1 DEF PlayerInv, PlayerTypes, Threads
<1>4. Guessing /\ ~Guessing' /\ ~Pondering' /\ ~Answering /\ ~Answering'
  BY <1>1, <1>2, <1>3 DEF Guessing, Pondering, Answering
<1>5. Owed(Client, 1) /\ Owed(Finish, 0) /\ Types /\ Tree
  BY <1>4 DEF PlayerInv, Debts, Whole
<1>6. AfterStopped(Client) = <<>> /\ ~Unexpected(Client)
  BY <1>1, <1>5, Doors, EndRead
<1>7. Types'
  BY <1>1, <1>5, <1>6, Doors, TakenTypes
<1>8. Whole' /\ RootAbove' /\ Owed(Client, 0)' /\ Carries(Finish)
  BY <1>1, <1>5, <1>7, Doors, EndTaken DEF PlayerInv
<1>9. PlayerTypes' /\ Threads'
  BY <1>1, <1>2, <1>3 DEF PlayerInv, PlayerTypes, Threads
<1>10. Debts' /\ Due'
  BY <1>4, <1>5, <1>8 DEF Debts, Due, Carries
<1>11. Guesses'
  BY <1>2, <1>4, Doors DEF Guesses
<1>12. KeptAnswers' /\ AnswerFits'
  BY <1>1, KeptSame, FitsSame DEF PlayerInv
<1> QED
  BY <1>8, <1>9, <1>10, <1>11, <1>12 DEF PlayerInv

LEMMA ThrMoveKept ==
  ASSUME PlayerInv, ThrMove
  PROVE  PlayerInv'
<1>1. /\ thr = "move" /\ thr' = "moving" /\ main' = main /\ lock' = lock /\ turn' = turn
      /\ played' = played /\ informed' = informed /\ current' = current
      /\ expected' = expected /\ ignored' = ignored /\ kept' = kept /\ finished' = finished
      /\ answer' = answer /\ crashed' = crashed /\ eng' = eng /\ raised' = raised
      /\ Renew(RootOf(expected, Client))
      /\ box' = [box EXCEPT ![Client] = <<>>, ![Fresh] = <<>>]
  BY DEF ThrMove, fields
<1>2. /\ AtRest /\ turn \in Nat /\ main \in {"wait", "his", "over"}
      /\ main = "wait" => informed # nil
  BY <1>1, ThreadRests
<1>3. PICK m \in Move : m = expected
  BY <1>1 DEF PlayerInv, PlayerTypes, Guesses
<1>4. m \in Nat /\ m # nil
  BY PonderAssumption, Doors DEF Move
<1>5. /\ AtRest' /\ RootAbove'
      /\ root' \in Node /\ node'[root'] = RootOf(m, Client) /\ box'[root'] = <<>> /\ ~asked'
  BY <1>1, <1>2, <1>3, <1>4, Doors, Made
<1>6. PlayerTypes' /\ Threads'
  BY <1>1, <1>2 DEF PlayerInv, PlayerTypes, Threads
<1>7. ~Guessing' /\ ~Pondering' /\ ~Answering'
  BY <1>1, <1>2 DEF Guessing, Pondering, Answering
<1>8. Debts' /\ Due'
  BY <1>5, <1>7 DEF Debts, Due, AtRest
<1>9. RootOf(expected, Client)' = RootOf(m, Client)
  BY <1>1, <1>3, Zenon DEF RootOf, After
<1>10. Guesses'
  BY <1>1, <1>3, <1>4, <1>5, <1>7, <1>9 DEF Guesses
<1>11. KeptAnswers' /\ AnswerFits'
  BY <1>1, KeptSame, FitsSame DEF PlayerInv
<1> QED
  BY <1>5, <1>6, <1>8, <1>10, <1>11 DEF PlayerInv, AtRest

-----------------------------------------------------------------------------
LEMMA ThrMovingKept ==
  ASSUME PlayerInv, ThrMoving
  PROVE  PlayerInv'
<1>1. /\ thr = "moving" /\ lock = free /\ main' = main /\ turn' = turn /\ played' = played
      /\ informed' = informed /\ kept' = kept /\ finished' = finished
      /\ answer' = answer /\ crashed' = crashed /\ box' = box /\ raised' = raised
      /\ root' = root /\ asked' = asked
  BY DEF ThrMoving
<1>2. /\ AtRest /\ turn \in Nat /\ main \in {"wait", "his", "over"}
      /\ main = "wait" => informed # nil
      /\ ~Guessing /\ ~Pondering /\ ~Answering
  BY <1>1, ThreadRests
<1>3. PICK m \in Move : m = expected
  BY <1>1 DEF PlayerInv, PlayerTypes, Guesses
<1>4. m \in Nat /\ m # nil
  BY PonderAssumption, Doors DEF Move
<1>5. CASE informed # nil
  <2>1. /\ UNCHANGED vars /\ thr' = "loop" /\ ignored' = ignored \cup {expected}
        /\ expected' = nil /\ lock' = lock /\ current' = current
    BY <1>1, <1>5 DEF ThrMoving, vars
  <2>2. PlayerTypes' /\ Threads'
    BY <1>1, <1>2, <1>3, <2>1 DEF PlayerInv, PlayerTypes, Threads, free
  <2>3. ~Guessing' /\ ~Pondering' /\ ~Answering'
    BY <1>1, <1>2, <2>1 DEF Guessing, Pondering, Answering
  <2> QED
    BY <1>1, <1>2, <2>1, <2>2, <2>3, FieldsKept
<1>6. CASE informed = nil
  <2>1. /\ current' = expected /\ lock' = "thr" /\ thr' = "rooted"
        /\ node' = [node EXCEPT ![root] = RootCall(@)] /\ eng' = RootAsks(eng, root, node[root])
        /\ ignored' = ignored /\ expected' = expected
    BY <1>6 DEF ThrMoving
  <2>2. root \in Node /\ ~asked /\ box[root] = <<>> /\ node[root] = RootOf(m, Client)
    BY <1>1, <1>3, <1>6 DEF PlayerInv, Guesses
  <2>3. PICK pos : pos = After(m)
    OBVIOUS
  <2>4. Launched(Client, pos)
    BY <1>1, <1>2, <1>4, <2>1, <2>2, <2>3, Doors, LaunchGuess
  <2>5. /\ Whole' /\ RootAbove' /\ Owed(Client, 1)' /\ Places(Client, pos)' /\ Single(Client)'
        /\ Owed(Finish, 0)'
    BY <2>4, Doors, Zenon DEF Launched
  <2>6. PlayerTypes' /\ Threads'
    BY <1>1, <1>2, <1>3, <2>1 DEF PlayerInv, PlayerTypes, Threads, free
  <2>7. Pondering' /\ ~Answering'
    BY <1>1, <1>2, <2>1 DEF Pondering, Answering
  <2>8. Debts' /\ Due'
    BY <2>5, <2>7 DEF Debts, Due
  <2>9. After(expected)' = pos
    BY <1>1, <1>3, <2>1, <2>3 DEF After
  <2>10. \A P : P = After(expected)' => Places(Client, P)'
    BY <2>5, <2>9, Zenon
  <2>11. Guesses'
    <3>1. expected' # nil /\ current' = expected' /\ ~asked' /\ thr' # "moving"
      BY <1>1, <1>3, <1>4, <2>1, <2>2
    <3> QED
      BY <2>5, <2>10, <3>1, Zenon DEF Guesses
  <2>12. KeptAnswers' /\ AnswerFits'
    BY <1>1, KeptSame, FitsSame DEF PlayerInv
  <2> QED
    BY <2>5, <2>6, <2>8, <2>11, <2>12 DEF PlayerInv
<1> QED
  BY <1>5, <1>6

\* One answer is kept for a move.
LEMMA AnswerKeeps ==
  ASSUME KeptAnswers, kept \in [Move -> Seq(Seq(MsgRec))],
         NEW m \in Move, NEW w \in Seq(MsgRec), NEW P, P = After(m), Len(w) <= 1, Result(w, P),
         informed \in {nil, m} => w # <<>> /\ w[1].type = "exact",
         kept' = [kept EXCEPT ![m] = <<w>>], turn' = turn, informed' = informed
  PROVE  KeptAnswers' /\ kept' \in [Move -> Seq(Seq(MsgRec))]
<1>1. PICK a \in Seq(Seq(MsgRec)) : a = <<w>> /\ Len(a) = 1 /\ a[1] = w
  <2>1. <<w>> \in Seq(Seq(MsgRec)) /\ Len(<<w>>) = 1 /\ <<w>>[1] = w
    OBVIOUS
  <2> QED
    BY <2>1, Zenon
<1>2. kept' = [kept EXCEPT ![m] = a]
  BY <1>1, Zenon
<1>3. kept'[m] = a /\ \A l \in Move : l # m => kept'[l] = kept[l]
  BY <1>2
<1>4. \A l : After(l)' = After(l)
  BY DEF After
<1>5. ASSUME NEW l \in Move, kept'[l] # <<>>
      PROVE  /\ Len(kept'[l]) = 1 /\ Len(kept'[l][1]) <= 1
             /\ \A Q : Q = After(l)' => Result(kept'[l][1], Q)
             /\ informed' \in {nil, l} => kept'[l][1] # <<>> /\ kept'[l][1][1].type = "exact"
  <2>1. CASE l = m
    BY <1>1, <1>3, <1>4, <2>1
  <2>2. CASE l # m
    <3>1. kept'[l] = kept[l]
      BY <1>3, <2>2
    <3> QED
      BY <1>4, <1>5, <3>1 DEF KeptAnswers
  <2> QED
    BY <2>1, <2>2
<1> QED
  BY <1>2, <1>5 DEF KeptAnswers

LEMMA ThrSearchedKept ==
  ASSUME PlayerInv, ThrSearched
  PROVE  PlayerInv'
<1>1. /\ thr = "searching" /\ thr' = "loop" /\ main' = main /\ lock' = lock /\ turn' = turn
      /\ played' = played /\ informed' = informed /\ current' = current /\ expected' = nil
      /\ ignored' = ignored \cup {expected} /\ finished' = finished /\ answer' = answer
      /\ crashed' = crashed /\ eng' = eng /\ node' = node /\ root' = root /\ asked' = asked
      /\ CanFinish(Client) /\ raised' = Unexpected(Client)
      /\ box' = [box EXCEPT ![Client] = AfterStopped(Client)]
  BY DEF ThrSearched
<1>2. kept' = [kept EXCEPT ![expected] = <<WaitStopped(Client)>>]
  BY DEF ThrSearched
<1>3. main \in {"wait", "his", "over"} /\ (main = "wait" => informed # nil)
  BY <1>1 DEF PlayerInv, PlayerTypes, Threads
<1>4. Pondering /\ ~Guessing' /\ ~Pondering' /\ ~Answering /\ ~Answering' /\ thr' # "moving"
  BY <1>1, <1>3 DEF Guessing, Pondering, Answering
<1>5. Owed(Client, 1) /\ Owed(Finish, 0) /\ Types /\ Tree
  BY <1>4 DEF PlayerInv, Debts, Whole
<1>6. PICK m \in Move : m = expected
  BY <1>4 DEF PlayerInv, PlayerTypes, Guesses
<1>7. PICK P : P = After(m)
  OBVIOUS
<1>8. /\ Places(Client, P) /\ (asked => informed \notin {nil, m}) /\ (asked \/ Single(Client))
  BY <1>4, <1>6, <1>7 DEF PlayerInv, Guesses
<1>9. /\ AfterStopped(Client) = <<>> /\ ~Unexpected(Client)
      /\ WaitStopped(Client) \in Seq(MsgRec) /\ Len(WaitStopped(Client)) <= 1
      /\ Result(WaitStopped(Client), P)
      /\ Single(Client) => WaitStopped(Client) # <<>> /\ WaitStopped(Client)[1].type = "exact"
  BY <1>1, <1>5, <1>8, Doors, EndRead
<1>10. Types'
  BY <1>1, <1>5, <1>9, Doors, TakenTypes
<1>11. Whole' /\ RootAbove' /\ Owed(Client, 0)' /\ Carries(Finish)
  BY <1>1, <1>5, <1>10, Doors, EndTaken DEF PlayerInv
<1>12. KeptAnswers' /\ kept' \in [Move -> Seq(Seq(MsgRec))]
  <2>1. PICK w \in Seq(MsgRec) : w = WaitStopped(Client)
    BY <1>9
  <2>2. KeptAnswers /\ kept \in [Move -> Seq(Seq(MsgRec))]
    BY DEF PlayerInv, PlayerTypes
  <2>3. kept' = [kept EXCEPT ![m] = <<w>>]
    BY <1>2, <1>6, <2>1, Zenon
  <2>4. /\ Len(w) <= 1 /\ Result(w, P)
        /\ informed \in {nil, m} => w # <<>> /\ w[1].type = "exact"
    BY <1>8, <1>9, <2>1
  <2> QED
    BY <1>1, <1>7, <2>2, <2>3, <2>4, AnswerKeeps
<1>13. PlayerTypes' /\ Threads'
  BY <1>1, <1>3, <1>6, <1>12 DEF PlayerInv, PlayerTypes, Threads
<1>14. Debts' /\ Due'
  BY <1>4, <1>5, <1>11 DEF Debts, Due, Carries
<1>15. Guesses'
  BY <1>1, <1>4 DEF Guesses
<1>16. AnswerFits'
  BY <1>1, <1>3, FitsSame DEF PlayerInv
<1> QED
  BY <1>11, <1>12, <1>13, <1>14, <1>15, <1>16 DEF PlayerInv

\* An answer that was kept is the one that is due.
LEMMA KeptIsDue ==
  ASSUME PlayerInv, AtRest, NEW m \in Move, kept[m] # <<>>, informed \in {nil, m},
         box' = [box EXCEPT ![Finish] = @ \o kept[m][1] \o <<Stopped>>],
         eng' = eng, node' = node, root' = root, asked' = asked, raised' = raised
  PROVE  /\ Whole' /\ RootAbove' /\ Owed(Finish, 1)' /\ Single(Finish)' /\ Owed(Client, 0)'
         /\ \A P : P = After(m) => Places(Finish, P)'
<1>1. PICK P : P = After(m)
  OBVIOUS
<1>2. PICK w : w = kept[m][1]
  OBVIOUS
<1>3. w \in Seq(MsgRec)
  <2>1. kept[m] \in Seq(Seq(MsgRec)) /\ Len(kept[m]) = 1
    BY DEF PlayerInv, PlayerTypes, KeptAnswers
  <2> QED
    BY <1>2, <2>1
<1>4. Len(w) <= 1 /\ Result(w, P) /\ w # <<>> /\ w[1].type = "exact"
  BY <1>1, <1>2 DEF PlayerInv, KeptAnswers
<1>5. Len(w) = 1
  BY <1>3, <1>4
<1>6. w[1].pos = P
  <2>1. 1 \in DOMAIN w
    BY <1>3, <1>5
  <2> QED
    BY <1>4, <2>1 DEF Result
<1>7. /\ Whole' /\ (RootAbove => RootAbove') /\ Owed(Finish, 1)' /\ Single(Finish)'
      /\ Places(Finish, w[1].pos)' /\ \A p \in External : p # Finish => Owed(p, 0)'
  <2>1. box' = [box EXCEPT ![Finish] = @ \o w \o <<Stopped>>]
    BY <1>2
  <2> QED
    BY <1>3, <1>4, <1>5, <2>1, Doors, ToldAgain
<1>8. Places(Finish, P)'
  BY <1>6, <1>7, Zenon
<1> QED
  BY <1>1, <1>7, <1>8, Doors DEF PlayerInv

-----------------------------------------------------------------------------
LEMMA ThrLastKept ==
  ASSUME PlayerInv, ~crashed, ThrLast
  PROVE  PlayerInv'
<1>1. /\ thr = "last" /\ lock = free /\ main' = main /\ turn' = turn /\ played' = played
      /\ informed' = informed /\ current' = current /\ expected' = expected
      /\ ignored' = ignored /\ kept' = kept /\ answer' = answer /\ crashed' = crashed
      /\ raised' = raised
  BY DEF ThrLast
<1>2. /\ AtRest /\ turn \in Nat /\ main \in {"wait", "his", "over"}
      /\ main = "wait" => informed # nil
      /\ ~Guessing /\ ~Pondering /\ ~Answering
  BY <1>1, ThreadRests
<1>3. informed # nil => main = "wait"
  BY <1>2 DEF PlayerInv, Threads
<1>4. KeptAnswers' /\ AnswerFits'
  BY <1>1, KeptSame, FitsSame DEF PlayerInv
<1>5. After(played)' = After(informed) /\ informed \in Move \cup {nil}
  BY <1>1 DEF PlayerInv, Threads, PlayerTypes, After
<1>6. CASE informed # nil /\ kept[informed] = <<>>
  <2>1. /\ SearchNewRoot(informed, Finish) /\ lock' = "thr" /\ thr' = "lastrooted"
        /\ finished' = finished
    BY <1>6 DEF ThrLast
  <2>2. PICK m \in Move : m = informed
    BY <1>5, <1>6
  <2>3. PICK pos : pos = After(m)
    OBVIOUS
  <2>4. m \in Nat
    BY PonderAssumption DEF Move
  <2>5. Launched(Finish, pos) /\ ~asked'
    BY <1>1, <1>2, <2>1, <2>2, <2>3, <2>4, Doors, Launch
  <2>6. /\ Whole' /\ RootAbove' /\ Owed(Finish, 1)' /\ Places(Finish, pos)' /\ Single(Finish)'
        /\ Owed(Client, 0)'
    BY <2>5, Doors, Zenon DEF Launched
  <2>7. PlayerTypes' /\ Threads'
    BY <1>1, <1>3, <1>6, <2>1 DEF PlayerInv, PlayerTypes, Threads, free
  <2>8. ~Guessing' /\ ~Pondering' /\ Answering' /\ thr' \notin {"move", "moving"}
    BY <1>1, <1>3, <1>6, <2>1 DEF Guessing, Pondering, Answering
  <2>9. Debts' /\ Guesses'
    BY <2>6, <2>8 DEF Debts, Guesses
  <2>10. \A P : P = After(played)' => Places(Finish, P)'
    BY <1>5, <2>2, <2>3, <2>6, Zenon
  <2>11. Due'
    BY <2>6, <2>10, Zenon DEF Due
  <2> QED
    BY <1>4, <2>6, <2>7, <2>9, <2>11 DEF PlayerInv
<1>7. CASE ~(informed # nil /\ kept[informed] = <<>>)
  <2>1. finished'
    BY <1>7, Zenon DEF ThrLast
  <2>2. finished' \in BOOLEAN
    BY <1>7 DEF ThrLast
  <2>3. /\ thr' = "off" /\ eng' = eng /\ node' = node /\ root' = root /\ asked' = asked
        /\ lock' = lock
        /\ informed = nil => box' = box
    BY <1>7 DEF ThrLast
  <2>4. PlayerTypes' /\ Threads'
    BY <1>1, <1>2, <1>3, <2>1, <2>2, <2>3 DEF PlayerInv, PlayerTypes, Threads, free
  <2>5. ~Guessing' /\ ~Pondering' /\ (Answering' <=> informed # nil)
        /\ thr' \notin {"move", "moving"}
    BY <1>1, <1>2, <1>3, <2>3 DEF Guessing, Pondering, Answering
  <2>6. CASE informed = nil
    <3>1. UNCHANGED vars
      BY <1>1, <2>3, <2>6 DEF vars
    <3> QED
      BY <1>1, <1>2, <2>4, <2>5, <2>6, <3>1, FieldsKept
  <2>7. CASE informed # nil
    <3>1. PICK m \in Move : m = informed
      BY <1>5, <2>7
    <3>2. box' = [box EXCEPT ![Finish] = @ \o kept[m][1] \o <<Stopped>>] /\ kept[m] # <<>>
      BY <1>7, <2>7, <3>1, Zenon DEF ThrLast
    <3>3. /\ Whole' /\ RootAbove' /\ Owed(Finish, 1)' /\ Single(Finish)' /\ Owed(Client, 0)'
          /\ \A P : P = After(m) => Places(Finish, P)'
      BY <1>1, <1>2, <2>3, <3>1, <3>2, KeptIsDue
    <3>4. Debts' /\ Guesses'
      BY <2>5, <2>7, <3>3 DEF Debts, Guesses
    <3>5. \A P : P = After(played)' => Places(Finish, P)'
      BY <1>5, <3>1, <3>3, Zenon
    <3>6. Due'
      BY <3>3, <3>5, Zenon DEF Due
    <3> QED
      BY <1>4, <2>4, <3>3, <3>4, <3>6 DEF PlayerInv
  <2> QED
    BY <2>6, <2>7
<1> QED
  BY <1>6, <1>7

-----------------------------------------------------------------------------
(* The main loop.                                                          *)
LEMMA AnsweredKept ==
  ASSUME PlayerInv, Answered
  PROVE  PlayerInv'
<1>1. /\ main = "wait" /\ main' = "answered" /\ thr' = thr /\ lock' = lock /\ turn' = turn
      /\ played' = played /\ informed' = informed /\ current' = current
      /\ expected' = expected /\ ignored' = ignored /\ kept' = kept /\ finished' = finished
      /\ crashed' = crashed /\ eng' = eng /\ node' = node /\ root' = root /\ asked' = asked
      /\ CanFinish(Finish) /\ raised' = Unexpected(Finish)
      /\ box' = [box EXCEPT ![Finish] = AfterStopped(Finish)]
      /\ answer' = WaitStopped(Finish)
  BY DEF Answered, fields
<1>2. Answering
  <2>1. SUFFICES ASSUME ~Answering PROVE FALSE
    OBVIOUS
  <2>2. Owed(Finish, 0) /\ Types
    BY <2>1 DEF PlayerInv, Debts, Whole
  <2>3. FirstStopped(Finish) \in DOMAIN box[Finish]
    BY <1>1, <2>2, Doors, FirstIsFirst DEF StoppedAt
  <2>4. DOMAIN box[Finish] = {}
    BY <2>2 DEF Owed
  <2> QED
    BY <2>3, <2>4
<1>3. thr \in {"off", "lastrooted"}
  BY <1>1, <1>2 DEF Answering
<1>4. Owed(Finish, 1) /\ Owed(Client, 0) /\ Types /\ Tree
  BY <1>2, <1>3 DEF PlayerInv, Debts, Whole, Guessing, Pondering
<1>5. PICK P : P = After(played)
  OBVIOUS
<1>6. Places(Finish, P) /\ Single(Finish)
  BY <1>2, <1>5 DEF PlayerInv, Due
<1>7. /\ AfterStopped(Finish) = <<>> /\ ~Unexpected(Finish)
      /\ WaitStopped(Finish) \in Seq(MsgRec) /\ Len(WaitStopped(Finish)) <= 1
      /\ Result(WaitStopped(Finish), P) /\ WaitStopped(Finish) # <<>>
  BY <1>1, <1>4, <1>6, Doors, EndRead
<1>8. Types'
  BY <1>1, <1>4, <1>7, Doors, TakenTypes
<1>9. Whole' /\ RootAbove' /\ Owed(Finish, 0)' /\ Carries(Client)
  BY <1>1, <1>4, <1>8, Doors, EndTaken DEF PlayerInv
<1>10. PICK w \in Seq(MsgRec) : w = WaitStopped(Finish) /\ w # <<>> /\ Result(w, P)
  BY <1>7
<1>11. PlayerTypes' /\ Threads'
  BY <1>1, <1>3, <1>10 DEF PlayerInv, PlayerTypes, Threads
<1>12. ~Guessing' /\ ~Pondering' /\ ~Answering' /\ thr' \notin {"move", "moving"}
  BY <1>1, <1>3 DEF Guessing, Pondering, Answering
<1>13. Debts' /\ Due' /\ Guesses'
  BY <1>4, <1>9, <1>12 DEF Debts, Due, Guesses, Carries
<1>14. KeptAnswers'
  BY <1>1, KeptSame DEF PlayerInv
<1>15. AnswerFits'
  <2>1. 1 \in DOMAIN w /\ Head(w) = w[1]
    BY <1>10
  <2>2. Head(w).pos = P
    BY <1>10, <2>1 DEF Result
  <2>3. After(played)' = P
    BY <1>1, <1>5 DEF After
  <2> QED
    BY <1>1, <1>10, <2>2, <2>3 DEF AnswerFits
<1> QED
  BY <1>9, <1>11, <1>13, <1>14, <1>15 DEF PlayerInv

\* The player forgets the turn before.
LEMMA ResetKept ==
  ASSUME PlayerInv, PonderReset
  PROVE  PlayerInv'
<1>1. /\ main = "answered" /\ main' = "reset" /\ thr' = thr /\ lock' = lock /\ turn < Turns
      /\ turn' = turn + 1 /\ played' = nil /\ informed' = nil /\ current' = nil
      /\ expected' = expected /\ ignored' = ignored /\ finished' = finished
      /\ kept' = [m \in Move |-> <<>>] /\ answer' = <<>>
      /\ crashed' = crashed /\ eng' = eng /\ node' = node /\ asked' = asked /\ raised' = raised
      /\ root' \in {root, 0}
  BY DEF PonderReset, nil
<1>2. thr \in {"off", "lastrooted"}
  BY <1>1 DEF PlayerInv, Threads
<1>3. /\ ~Guessing /\ ~Pondering /\ ~Answering /\ ~Guessing' /\ ~Pondering' /\ ~Answering'
      /\ thr' \notin {"move", "moving"}
  BY <1>1, <1>2 DEF Guessing, Pondering, Answering
<1>4. AtRest
  BY <1>3, PlayerRests
<1>5. /\ Types /\ Tree /\ ~raised
      /\ \A q \in External : box[q] = <<>>
  BY <1>4, RestIs
<1>6. box' \in [Queue -> Seq(MsgRec)] /\ \A q \in Queue : box'[q] = box[q]
  <2>1. PICK w \in Seq(MsgRec) : w = <<>>
    <3>1. <<>> \in Seq(MsgRec)
      OBVIOUS
    <3> QED
      BY <3>1, Zenon
  <2>2. box' = [box EXCEPT ![Finish] = w]
    BY <2>1, Zenon DEF PonderReset
  <2> QED
    BY <1>5, <2>1, <2>2, Doors DEF Types
<1>7. Types'
  BY <1>1, <1>5, <1>6 DEF Types
<1>8. \A q \in External : Says(q, Results)' /\ box'[q] = box[q]
  BY <1>5, <1>6, Sizes DEF Tree, Stages, Reported, Says
<1>9. Whole' /\ RootAbove' /\ \A q \in External : Carries(q)
  <2>1. (\A q \in Queue \ External : box'[q] = box[q]) /\ ~raised' /\ Whole /\ RootAbove
    BY <1>1, <1>5, <1>6 DEF PlayerInv
  <2> HIDE DEF Says, Carries
  <2> QED
    BY <1>1, <1>7, <1>8, <2>1, Reading
<1>10. Owed(Client, 0)' /\ Owed(Finish, 0)'
  BY <1>4, <1>9, Doors DEF AtRest, Carries
<1>11. kept' \in [Move -> Seq(Seq(MsgRec))] /\ (\A m \in Move : kept'[m] = <<>>) /\ answer' \in Seq(MsgRec)
  <2>1. <<>> \in Seq(Seq(MsgRec)) /\ <<>> \in Seq(MsgRec)
    OBVIOUS
  <2>2. PICK z : z = <<>>
    OBVIOUS
  <2>3. z \in Seq(Seq(MsgRec)) /\ z \in Seq(MsgRec)
    BY <2>1, <2>2, Zenon
  <2>4. kept' = [m \in Move |-> z] /\ answer' = z
    BY <1>1, <2>2, Zenon
  <2>5. kept' \in [Move -> Seq(Seq(MsgRec))] /\ \A m \in Move : kept'[m] = z
    BY <2>3, <2>4
  <2> QED
    BY <2>2, <2>3, <2>4, <2>5, Zenon
<1>12. turn' \in 0 .. Turns /\ turn' # 0
  BY <1>1, PonderAssumption DEF PlayerInv, PlayerTypes
<1>13. PlayerTypes' /\ Threads'
  BY <1>1, <1>2, <1>11, <1>12 DEF PlayerInv, PlayerTypes, Threads
<1>14. Debts' /\ Due' /\ Guesses' /\ KeptAnswers' /\ AnswerFits'
  BY <1>1, <1>3, <1>10, <1>11 DEF Debts, Due, Guesses, KeptAnswers, AnswerFits
<1> QED
  BY <1>9, <1>13, <1>14 DEF PlayerInv

-----------------------------------------------------------------------------
(* inform().                                                               *)

\* What every move of the opponent does.
Informs(m) ==
  /\ main = "his" /\ lock = free /\ ~crashed
  /\ thr' = thr /\ turn' = turn /\ played' = m /\ informed' = m /\ current' = current
  /\ expected' = expected /\ ignored' = ignored /\ kept' = kept /\ finished' = finished
  /\ answer' = answer /\ raised' = raised

LEMMA InformFacts ==
  ASSUME PlayerInv, NEW m \in Move, Informs(m)
  PROVE  /\ informed = nil /\ m # nil /\ m \in Nat /\ turn \in Nat
         /\ thr \notin {"rooted", "lastrooted"} /\ (finished <=> thr = "off")
         /\ ~Answering /\ Owed(Finish, 0) /\ turn # 0
         /\ finished => AtRest /\ ~Guessing /\ ~Pondering
         /\ (Guessing' <=> Guessing) /\ (Pondering' <=> Pondering)
         /\ KeptAnswers' /\ After(played)' = After(m)
<1>1. /\ informed = nil /\ m # nil /\ thr \notin {"rooted", "lastrooted"}
      /\ (finished <=> thr = "off") /\ turn # 0
  BY Doors DEF Informs, PlayerInv, Threads, free
<1>2. ~Answering
  BY DEF Informs, Answering
<1>3. Owed(Finish, 0)
  BY <1>2 DEF PlayerInv, Debts
<1>4. finished => ~Guessing /\ ~Pondering
  BY <1>1 DEF Guessing, Pondering
<1>5. m \in Nat /\ turn \in Nat
  BY PonderAssumption DEF Move, PlayerInv, PlayerTypes
<1>6. finished => AtRest
  BY <1>2, <1>4, PlayerRests
<1>7. (Guessing' <=> Guessing) /\ (Pondering' <=> Pondering)
  BY DEF Informs, Guessing, Pondering
<1>8. KeptAnswers'
  BY <1>1, KeptSame DEF Informs, PlayerInv
<1>9. After(played)' = After(m)
  BY DEF Informs, After
<1> QED
  BY <1>1, <1>2, <1>3, <1>4, <1>5, <1>6, <1>7, <1>8, <1>9

\* The thread has not ended: it will answer, or is already about to.
LEMMA InformBusy ==
  ASSUME PlayerInv, NEW m \in Move, Informs(m), ~finished, Whole', RootAbove',
         lock' = lock, crashed' \in BOOLEAN, main' \in {"his", "wait"}, main' = "his" => crashed',
         \A q \in External : \A n \in {0, 1} : Owed(q, n) => Owed(q, n)',
         \A P : Places(Client, P) => Places(Client, P)',
         \/ asked' = asked /\ (Owed(Client, 1) /\ Single(Client) => Single(Client)')
         \/ asked' /\ m # current
  PROVE  PlayerInv'
<1>1. /\ informed = nil /\ m # nil /\ thr \notin {"rooted", "lastrooted"}
      /\ thr # "off" /\ ~Answering /\ Owed(Finish, 0) /\ turn # 0
      /\ (Guessing' <=> Guessing) /\ (Pondering' <=> Pondering) /\ KeptAnswers'
  BY InformFacts
<1>2. PlayerTypes' /\ Threads'
  BY <1>1 DEF PlayerInv, PlayerTypes, Threads, Informs, free
<1>3. ~Answering'
  BY <1>1 DEF Informs, Answering
<1>4. Debts' /\ Due'
  <2>1. Guessing \/ Pondering => Owed(Client, 1)'
    BY Doors DEF PlayerInv, Debts
  <2>2. ~(Guessing \/ Pondering) => Owed(Client, 0)'
    BY Doors DEF PlayerInv, Debts
  <2>3. Owed(Finish, 0)'
    BY <1>1, Doors
  <2> QED
    BY <1>1, <1>3, <2>1, <2>2, <2>3, Zenon DEF Debts, Due
<1>5. Guesses'
  <2>1. informed' # nil /\ (thr' \in {"move", "moving"} \/ Pondering' => expected' # nil)
    BY <1>1 DEF Informs, PlayerInv, Guesses
  <2>2. ASSUME Pondering
        PROVE  /\ current' = expected'
               /\ \A P : P = After(expected)' => Places(Client, P)'
               /\ asked' => informed' \notin {nil, expected'}
               /\ asked' \/ Single(Client)'
    <3>1. /\ current = expected /\ ~asked /\ Single(Client) /\ Owed(Client, 1)
          /\ \A P : P = After(expected) => Places(Client, P)
      BY <1>1, <2>2 DEF PlayerInv, Guesses, Debts
    <3>2. After(expected)' = After(expected)
      BY DEF Informs, After
    <3>3. \A P : P = After(expected)' => Places(Client, P)'
      BY <3>1, <3>2, Zenon
    <3>4. current' = expected' /\ informed' # nil
      BY <1>1, <3>1 DEF Informs
    <3>5. asked' => informed' # expected'
      BY <3>1 DEF Informs
    <3>6. asked' \/ Single(Client)'
      BY <3>1
    <3> QED
      BY <3>3, <3>4, <3>5, <3>6
  <2> QED
    BY <1>1, <2>1, <2>2, Zenon DEF Guesses
<1>6. AnswerFits'
  BY DEF AnswerFits
<1> QED
  BY <1>1, <1>2, <1>4, <1>5, <1>6 DEF PlayerInv

LEMMA InformKept ==
  ASSUME PlayerInv, ~StopsBetween, ~crashed, NEW m \in Move, Inform(m)
  PROVE  PlayerInv'
<1>1. Informs(m)
  BY DEF Inform, Informs
<1>2. /\ informed = nil /\ m # nil /\ m \in Nat /\ turn \in Nat
      /\ thr \notin {"rooted", "lastrooted"} /\ (finished <=> thr = "off")
      /\ finished => AtRest /\ ~Guessing /\ ~Pondering
      /\ (Guessing' <=> Guessing) /\ (Pondering' <=> Pondering)
      /\ KeptAnswers' /\ After(played)' = After(m) /\ turn # 0
  BY <1>1, InformFacts
\* The thread had ended: the main thread answers.
<1>3. ASSUME finished, main' \in {"wait", "rooted"}, crashed' = crashed,
             lock' = IF main' = "rooted" THEN "main" ELSE lock,
             Whole', RootAbove', Owed(Finish, 1)', Single(Finish)', Owed(Client, 0)',
             \A P : P = After(m) => Places(Finish, P)'
      PROVE  PlayerInv'
  <2>1. PlayerTypes' /\ Threads'
    BY <1>1, <1>2, <1>3 DEF PlayerInv, PlayerTypes, Threads, Informs, free
  <2>2. Answering' /\ ~Guessing' /\ ~Pondering' /\ thr' \notin {"move", "moving"}
    BY <1>1, <1>2, <1>3 DEF Answering, Informs
  <2>3. Debts' /\ Guesses'
    BY <1>3, <2>2 DEF Debts, Guesses
  <2>4. \A P : P = After(played)' => Places(Finish, P)'
    BY <1>2, <1>3, Zenon
  <2>5. Due'
    BY <1>3, <2>4, Zenon DEF Due
  <2>6. AnswerFits'
    BY <1>3 DEF AnswerFits
  <2> QED
    BY <1>2, <1>3, <2>1, <2>3, <2>5, <2>6 DEF PlayerInv
<1>4. CASE /\ finished /\ kept[m] # <<>>
           /\ box' = [box EXCEPT ![Finish] = @ \o kept[m][1] \o <<Stopped>>]
           /\ main' = "wait"
           /\ UNCHANGED <<eng, node, root, asked, lock, crashed>>
  <2>1. /\ Whole' /\ RootAbove' /\ Owed(Finish, 1)' /\ Single(Finish)' /\ Owed(Client, 0)'
        /\ \A P : P = After(m) => Places(Finish, P)'
    <3>1. raised' = raised /\ AtRest /\ informed \in {nil, m}
      BY <1>1, <1>2, <1>4 DEF Informs
    <3> QED
      BY <1>4, <3>1, KeptIsDue
  <2> QED
    BY <1>3, <1>4, <2>1
<1>5. CASE /\ finished /\ kept[m] = <<>>
           /\ SearchNewRoot(m, Finish)
           /\ lock' = "main" /\ main' = "rooted"
           /\ UNCHANGED crashed
  <2>1. PICK pos : pos = After(m)
    OBVIOUS
  <2>2. Launched(Finish, pos)
    BY <1>1, <1>2, <1>5, <2>1, Doors, Launch DEF Informs
  <2>3. /\ Whole' /\ RootAbove' /\ Owed(Finish, 1)' /\ Places(Finish, pos)' /\ Single(Finish)'
        /\ Owed(Client, 0)'
    BY <2>2, Doors, Zenon DEF Launched
  <2>4. \A P : P = After(m) => Places(Finish, P)'
    BY <2>1, <2>3, Zenon
  <2> QED
    BY <1>3, <1>5, <2>3, <2>4
\* It had not: its search is stopped, unless it is the right one.
<1>6. CASE /\ ~finished /\ m # current /\ root # nil
           /\ MayStop(node, {root})
           /\ node' = StopNodes(node, {root})
           /\ eng' = StopStubs(eng, StubsOf(node, {root}))
           /\ asked' = TRUE
           /\ main' = "wait"
           /\ UNCHANGED <<box, root, lock, crashed>>
  <2>1. asked'
    BY <1>6, Zenon
  <2>2. asked' \in BOOLEAN /\ root \in Node /\ raised' = raised /\ crashed' \in BOOLEAN
    BY <1>1, <1>6 DEF PlayerInv, PlayerTypes, Whole, Types, Informs, nil
  <2>3. /\ Whole' /\ RootAbove'
        /\ \A q \in External : /\ \A n \in {0, 1} : Owed(q, n) => Owed(q, n)'
                               /\ \A P : Places(q, P) => Places(q, P)'
    BY <1>6, <2>2, Halting DEF PlayerInv
  <2> QED
    BY <1>1, <1>6, <2>1, <2>2, <2>3, Doors, InformBusy
<1>7. CASE /\ ~finished /\ box' = box /\ node' = node /\ eng' = eng /\ root' = root
           /\ asked' = asked /\ lock' = lock
           /\ \/ crashed' /\ main' = main
              \/ crashed' = crashed /\ main' = "wait"
  <2>1. UNCHANGED vars
    BY <1>1, <1>7 DEF Informs, vars
  <2>2. Whole' /\ RootAbove' /\ Carries(Client) /\ Carries(Finish)
    BY <2>1, TreeStays
  <2>3. \A q \in External : \A n \in {0, 1} : Owed(q, n) => Owed(q, n)'
    BY <2>2 DEF External, Carries
  <2>4. /\ \A P : Places(Client, P) => Places(Client, P)'
        /\ Owed(Client, 1) /\ Single(Client) => Single(Client)'
    BY <2>2, Zenon DEF Carries
  <2>5. crashed' \in BOOLEAN
    BY DEF PlayerInv, PlayerTypes, Inform
  <2>6. main' \in {"his", "wait"} /\ (main' = "his" => crashed')
    BY <1>1, <1>7 DEF Informs
  <2> QED
    BY <1>1, <1>7, <2>2, <2>3, <2>4, <2>5, <2>6, InformBusy
<1> QED
  <2>1. crashed' = TRUE => crashed'
    BY Zenon
  <2> QED
    BY <1>4, <1>5, <1>6, <1>7, <2>1, Zenon DEF Inform

-----------------------------------------------------------------------------
(* The first search of the game is on its way when the player starts.      *)
LEMMA PlayerStarts ==
  ASSUME PlayerInit
  PROVE  PlayerInv
<1>1. PICK ps \in Seq(Nat) : ps = <<0, nil>>
  <2>1. <<0, nil>> \in Seq(Nat)
    BY DEF nil
  <2> QED
    BY <2>1, Zenon
<1>2. StartsWith(Finish, ps)
  BY <1>1, Zenon DEF PlayerInit, StartsWith
<1>3. /\ Types /\ Load(Finish) = 1 /\ Load(Client) = 0
      /\ box[Client] = <<>> /\ StoppedAt(Client) = {} /\ StoppedAt(Finish) = {}
  BY <1>2, Doors, RootStarts
<1>4. Whole /\ RootAbove /\ Single(Finish) /\ Places(Finish, ps)
  BY <1>2, Doors, WholeStarts
<1>5. /\ main = "first" /\ thr = "off" /\ lock = free /\ turn = 0 /\ played = nil
      /\ informed = nil /\ current = nil /\ expected = nil /\ ignored = {}
  BY Zenon DEF PlayerInit
<1>6. finished \in BOOLEAN /\ crashed \in BOOLEAN
  BY Zenon DEF PlayerInit
<1>7. kept \in [Move -> Seq(Seq(MsgRec))] /\ (\A m \in Move : kept[m] = <<>>) /\ answer \in Seq(MsgRec)
  <2>1. <<>> \in Seq(Seq(MsgRec)) /\ <<>> \in Seq(MsgRec)
    OBVIOUS
  <2>2. PICK z : z = <<>>
    OBVIOUS
  <2>3. z \in Seq(Seq(MsgRec)) /\ z \in Seq(MsgRec)
    BY <2>1, <2>2, Zenon
  <2>4. kept = [m \in Move |-> z] /\ answer = z
    BY <2>2, Zenon DEF PlayerInit
  <2>5. kept \in [Move -> Seq(Seq(MsgRec))] /\ \A m \in Move : kept[m] = z
    BY <2>3, <2>4
  <2> QED
    BY <2>2, <2>3, <2>4, <2>5, Zenon
<1>8. PlayerTypes /\ Threads
  BY <1>5, <1>6, <1>7, PonderAssumption DEF PlayerTypes, Threads, free
<1>9. Answering /\ ~Guessing /\ ~Pondering
  BY <1>5 DEF Answering, Guessing, Pondering
<1>10. Owed(Finish, 1) /\ Owed(Client, 0)
  BY <1>3 DEF Owed, EndsLast
<1>11. Debts /\ Guesses /\ KeptAnswers /\ AnswerFits
  BY <1>5, <1>7, <1>9, <1>10 DEF Debts, Guesses, KeptAnswers, AnswerFits
<1>12. Due
  <2>1. After(played) = ps
    BY <1>1, <1>5, Zenon DEF After
  <2> QED
    BY <1>4, <2>1, Zenon DEF Due
<1> QED
  BY <1>4, <1>8, <1>11, <1>12 DEF PlayerInv

LEMMA PlayerSteps ==
  ASSUME PlayerInv, ~StopsBetween, [PlayerNext]_allvars
  PROVE  PlayerInv'
<1>1. CASE UNCHANGED allvars
  BY <1>1, StutterKept
<1>2. CASE PlayerWork
  <2>1. ~crashed
    BY <1>2 DEF PlayerWork, Running
  <2>2. ASSUME NEW e \in Engine, ReaderStep(e) /\ UNCHANGED player PROVE PlayerInv'
    BY <2>2, WorkKept
  <2>3. ASSUME NEW o \in Node, NodeStep(o) /\ UNCHANGED player PROVE PlayerInv'
    BY <2>3, WorkKept
  <2>4. CASE ThrStep
    BY <2>1, <2>4, LoopKept, ThrGuessKept, ThrGuessedKept, ThrMoveKept, ThrMovingKept,
       RootedKept, ThrSearchedKept, ThrLastKept, LastRootedKept DEF ThrStep
  <2>5. CASE MainStep
    BY <2>1, <2>5, FirstKept, AnsweredKept, ResetKept, StartKept, InformRootedKept DEF MainStep
  <2> QED
    BY <1>2, <2>2, <2>3, <2>4, <2>5 DEF PlayerWork
<1>3. CASE Opponent
  <2>1. ~crashed
    BY <1>3 DEF Opponent, Running
  <2>2. ASSUME NEW m \in Move, Inform(m) PROVE PlayerInv'
    BY <2>1, <2>2, InformKept
  <2> QED
    BY <1>3, <2>2, ResignedKept DEF Opponent
<1> QED
  BY <1>1, <1>2, <1>3 DEF PlayerNext

\* While no stop falls between the halves of split_search: each queue of the player is owed
\* one end while it is waited for and none else, the search of a guess is about the guess,
\* and what is kept for a move is about the position after it.
THEOREM PlayerHolds ==
  PlayerSpec /\ StopsOutside => []PlayerInv
<1>1. PlayerInit => PlayerInv
  BY PlayerStarts
<1>2. PlayerInv /\ [PlayerNext]_allvars /\ [~StopsBetween]_vars => PlayerInv'
  BY PlayerSteps, Outside
<1> QED
  BY <1>1, <1>2, PTL DEF PlayerSpec, StopsOutside

\* The fields of the PonderPlayer, the objects and the stubs have the types of their values,
\* in every game in which no stop falls between usiMulti.rb:180 and :183.
THEOREM PlayerTyped ==
  PlayerSpec /\ StopsOutside => []PlayerTypeOK
<1>1. PlayerInv => PlayerTypeOK
  <2>1. SUFFICES ASSUME PlayerInv PROVE PlayerTypeOK
    OBVIOUS
  <2>2. TypeOK
    BY <2>1, TypesSay DEF PlayerInv, Whole
  <2> QED
    BY <2>1, <2>2 DEF PlayerInv, PlayerTypes, PlayerTypeOK
<1> QED
  BY <1>1, PlayerHolds, PTL

\* In every game in which no stop falls between usiMulti.rb:180 and :183, neither the one that
\* the opponent's move gives a search for another move nor an object's own, no thread of
\* usiMulti.rb meets one of its raises: the stubs are free when the player begins a search.
\* With such a stop they are not, and the code does raise: see the run ponder_race.
THEOREM PlayerNoRaise ==
  PlayerSpec /\ StopsOutside => []NoRaise
<1>1. PlayerInv => NoRaise
  BY DEF PlayerInv, Whole, NoRaise
<1> QED
  BY <1>1, PlayerHolds, PTL

\* In every game in which no stop falls between usiMulti.rb:180 and :183, neither the one that
\* the opponent's move gives a search for another move nor an object's own, the answer that is
\* sent is a result, for the position after the move that the opponent made: never what was
\* found for another guess or for another turn.
THEOREM AnswerFitsHolds ==
  PlayerSpec /\ StopsOutside => []AnswerFits
<1>1. PlayerInv => AnswerFits
  BY DEF PlayerInv
<1> QED
  BY <1>1, PlayerHolds, PTL
=============================================================================
