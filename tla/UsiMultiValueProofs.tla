------------------------ MODULE UsiMultiValueProofs ------------------------
(***************************************************************************)
(* Proofs about the values of a shared search, for any number of           *)
(* processes, objects, moves and plies: no thread runs into a raise, a     *)
(* search that nobody stopped ends with an exact result, and a final value *)
(* stands.                                                                 *)
(*                                                                         *)
(* The argument.  Each searcher that may still report to a queue is a      *)
(* voice, the place it searches with the best value it may still report    *)
(* (Voices); a place has one voice, what waits on the queue for a place    *)
(* goes down and the voice is not above it, and neither is above the bound *)
(* noted for the place (Fits).  Until the collector is stopped, a place    *)
(* has a voice that will end with an exact report, or such a report waits  *)
(* on the queue, or the place is already beaten (Served).  So a bound is   *)
(* never raised, the exact report of the best place makes it final, and    *)
(* nobody is left when it is not.  A step disturbs the queue of the thread *)
(* that takes it and the one it reports to (ValuesKept), and the objects   *)
(* that are told to stop, whose reports are excused from then on.          *)
(***************************************************************************)
EXTENDS UsiMultiProofs

-----------------------------------------------------------------------------
(* What a queue may still be told, and how it is weighed.                  *)

\* How many searchers an object splits among, and the bounds it has of them.
Size(q) == IF node[q].pc = "count" THEN Cardinality(node[q].kids) + Cardinality(node[q].stubs)
           ELSE node[q].count
Bounds(q) == IF node[q].pc = "count" THEN [i \in 1 .. Size(q) |-> -1] ELSE node[q].bounds

\* The place of a searcher among n: the object's own search has the last one.
KeyOf(n, own, pos) == IF own THEN n ELSE Last(pos)
JobKey(n, e) == KeyOf(n, eng[e].jobs[1].own, eng[e].jobs[1].pos)
MsgKey(n, m) == KeyOf(n, m.own, m.pos)

\* The largest value, for its client, that object c may still report; -1: it reports none.
Ceiling(c) == IF node[c].pc = "mated" THEN -1
              ELSE IF node[c].maxval = -1 THEN Top + 1 ELSE Top - node[c].maxval

\* An object that will report an exact value, and one that will report no other.
Keen(c) == ~node[c].stopped /\ node[c].pc # "mated"
Calm(c) == \/ node[c].pc = "mated"
           \/ node[c].pc = "collect" /\ IsFinal(node[c].maxval, node[c].bounds)

\* Who may still report to q. A stub e is known as -e.
StubVoice(n, e) == [who |-> -e, key |-> JobKey(n, e), top |-> Top + 1]
KidVoice(c) == [who |-> c, key |-> Last(node[c].pos), top |-> Ceiling(c)]
Voices(q) == {StubVoice(Size(q), e) : e \in Busy(q)} \cup {KidVoice(c) : c \in Kin(q)}

\* The places of those that will report an exact value.
Sure(q) == {JobKey(Size(q), e) : e \in Busy(q)}
             \cup {Last(node[c].pos) : c \in {d \in Kin(q) : Keen(d)}}

Said(b) == {i \in DOMAIN b : b[i].type # "stopped"}

\* The searchers V, the messages b and the bounds bd have places of their own in 1 .. n,
\* and what is heard from one place falls.
Seated(V, b, n) ==
  /\ \A s \in V : s.key \in 1 .. n
  /\ \A s, t \in V : s.key = t.key => s = t
  /\ \A i \in Said(b) : MsgKey(n, b[i]) \in 1 .. n
Falls(V, b, n, bd) ==
  /\ \A i, k \in Said(b) : i < k /\ MsgKey(n, b[i]) = MsgKey(n, b[k])
                             => ValueAt(b[k]) <= ValueAt(b[i])
  /\ \A s \in V, i \in Said(b) : MsgKey(n, b[i]) = s.key => s.top <= ValueAt(b[i])
  /\ \A i \in Said(b) : bd[MsgKey(n, b[i])] # -1 => ValueAt(b[i]) <= bd[MsgKey(n, b[i])]
  /\ \A s \in V : bd[s.key] # -1 => s.top <= bd[s.key]

\* From each place an exact value is to come, waits to be read, or is known not to be above mv.
Served(K, b, n, bd, mv) ==
  \A k \in 1 .. n : \/ k \in K
                    \/ \E i \in Said(b) : b[i].type = "exact" /\ MsgKey(n, b[i]) = k
                    \/ bd[k] # -1 /\ bd[k] <= mv

\* The end of the last searcher is the last that a queue is told.
Silent(q) == Busy(q) = {} /\ Kin(q) = {}
Over(q) == Silent(q) /\ box[q] # <<>> => box[q][Len(box[q])].type = "stopped"

\* A queue with one searcher: an exact value is to come, or is the last one that comes.
ExactLast(b) == \E i \in Said(b) : b[i].type = "exact" /\ \A k \in Said(b) : k <= i
Hopes(q) == Busy(q) # {} \/ \E c \in Kin(q) : Keen(c)
Single(q) == Hopes(q) \/ (ExactLast(box[q]) /\ \A c \in Kin(q) : Calm(c))

\* All that q is told is about the position P.
Places(q, P) ==
  /\ \A i \in Said(box[q]) : box[q][i].pos = P
  /\ \A e \in Busy(q) : eng[e].jobs[1].pos = P
  /\ \A c \in Kin(q) : node[c].pos = P

Splitting(o) ==
  /\ Size(o) >= 1
  /\ Seated(Voices(o), box[o], Size(o))
  /\ Falls(Voices(o), box[o], Size(o), Bounds(o))
  /\ node[o].stopped \/ Served(Sure(o), box[o], Size(o), Bounds(o), node[o].maxval)

Values(o) ==
  LET M == node[o]
  IN  /\ M.pc \in {"count", "collect"} => Splitting(o)
      /\ M.pc = "collect" => /\ Len(M.bounds) = M.count
                             /\ IsFinal(M.maxval, M.bounds) => M.stopped
      /\ M.pc # "collect" => M.maxval = -1
      /\ M.pc \in Waiting => Over(o)
      /\ M.pc = "forcedwait" => M.stopped \/ Single(o)
      /\ M.pc = "book" => Places(o, M.pos)
      /\ M.pc \in {"book", "genmoves"} => M.sink \in External

-----------------------------------------------------------------------------
(* A message is heard, a message is read.                                  *)
LEMMA ValueType ==
  ASSUME NEW m \in MsgRec
  PROVE  ValueAt(m) \in Val /\ ValueAt(m) \in Int
BY Sizes DEF ValueAt, MsgRec, Val

LEMMA SaidPushed ==
  ASSUME NEW b \in Seq(MsgRec), NEW ms \in Seq(MsgRec)
  PROVE  /\ b \o ms \in Seq(MsgRec)
         /\ \A i \in Said(b) : i \in Said(b \o ms) /\ (b \o ms)[i] = b[i] /\ i \in 1 .. Len(b)
         /\ \A k \in Said(ms) : Len(b) + k \in Said(b \o ms) /\ (b \o ms)[Len(b) + k] = ms[k]
                                /\ k \in 1 .. Len(ms)
         /\ \A i \in Said(b \o ms) : i \in Said(b) \/ \E k \in Said(ms) : i = Len(b) + k
<1>1. /\ Len(b) \in Nat /\ DOMAIN b = 1 .. Len(b) /\ Len(ms) \in Nat /\ DOMAIN ms = 1 .. Len(ms)
      /\ b \o ms \in Seq(MsgRec) /\ DOMAIN (b \o ms) = 1 .. Len(b) + Len(ms)
      /\ \A i \in 1 .. Len(b) : (b \o ms)[i] = b[i]
      /\ \A k \in 1 .. Len(ms) : (b \o ms)[Len(b) + k] = ms[k]
  OBVIOUS
<1>2. ASSUME NEW i \in 1 .. Len(b) + Len(ms)
      PROVE  i \in 1 .. Len(b) \/ \E k \in 1 .. Len(ms) : i = Len(b) + k
  <2>1. CASE i > Len(b)
    <3>1. i - Len(b) \in 1 .. Len(ms) /\ i = Len(b) + (i - Len(b))
      BY <1>1, <2>1
    <3> QED
      BY <3>1
  <2> QED
    BY <1>1, <2>1
<1>3. \A i \in Said(b) : i \in Said(b \o ms) /\ (b \o ms)[i] = b[i] /\ i \in 1 .. Len(b)
  BY <1>1 DEF Said
<1>4. \A k \in Said(ms) : Len(b) + k \in Said(b \o ms) /\ (b \o ms)[Len(b) + k] = ms[k]
                          /\ k \in 1 .. Len(ms)
  BY <1>1 DEF Said
<1>5. ASSUME NEW i \in Said(b \o ms)
      PROVE  i \in Said(b) \/ \E k \in Said(ms) : i = Len(b) + k
  <2>1. i \in 1 .. Len(b) + Len(ms) /\ (b \o ms)[i].type # "stopped"
    BY <1>1 DEF Said
  <2> QED
    BY SMTT(30), <1>1, <1>2, <2>1 DEF Said
<1> QED
  BY <1>1, <1>3, <1>4, <1>5

\* Searcher s reports ms, and becomes one of W that is not in V, if there is one.
Speaks(V, W, s, ms, n) ==
  /\ s \in V /\ \A t \in V \cup W : t.top \in Int
  /\ \A t \in W : t \in V \ {s} \/ (t.key = s.key /\ t.top <= s.top)
  /\ \A t, u \in W : t \notin V \ {s} /\ u \notin V \ {s} => t = u
  /\ \A i \in Said(ms) : /\ i = 1 /\ MsgKey(n, ms[i]) = s.key /\ ValueAt(ms[i]) <= s.top
                         /\ \A t \in W : t \notin V \ {s} => t.top <= ValueAt(ms[i])

LEMMA SeatedHeard ==
  ASSUME NEW V, NEW W, NEW s, NEW b \in Seq(MsgRec), NEW ms \in Seq(MsgRec), NEW n \in Nat,
         Seated(V, b, n), Speaks(V, W, s, ms, n)
  PROVE  Seated(W, b \o ms, n)
<1>1. \A t \in W : t.key \in 1 .. n
  BY DEF Seated, Speaks
<1>2. ASSUME NEW t \in W, NEW u \in W, t.key = u.key PROVE t = u
  BY <1>2 DEF Seated, Speaks
<1>3. ASSUME NEW i \in Said(b \o ms) PROVE MsgKey(n, (b \o ms)[i]) \in 1 .. n
  <2>1. CASE i \in Said(b)
    BY <2>1, SaidPushed DEF Seated
  <2>2. ASSUME NEW k \in Said(ms), i = Len(b) + k PROVE MsgKey(n, (b \o ms)[i]) \in 1 .. n
    <3>1. (b \o ms)[i] = ms[k]
      BY <2>2, SaidPushed
    <3> QED
      BY <3>1 DEF Seated, Speaks
  <2> QED
    BY <2>1, <2>2, SaidPushed
<1> QED
  BY <1>1, <1>2, <1>3 DEF Seated

LEMMA FallsHeard ==
  ASSUME NEW V, NEW W, NEW s, NEW b \in Seq(MsgRec), NEW ms \in Seq(MsgRec), NEW n \in Nat,
         NEW bd \in [1 .. n -> Val \cup {-1}],
         Seated(V, b, n), Falls(V, b, n, bd), Speaks(V, W, s, ms, n)
  PROVE  Falls(W, b \o ms, n, bd)
<1>0. /\ s \in V /\ s.key \in 1 .. n /\ s.top \in Int /\ bd[s.key] \in Int
      /\ bd[s.key] # -1 => s.top <= bd[s.key]
      /\ \A i \in Said(b) : ValueAt(b[i]) \in Int
      /\ \A k \in Said(ms) : ValueAt(ms[k]) \in Int
  <2>1. (\A i \in Said(b) : b[i] \in MsgRec) /\ \A k \in Said(ms) : ms[k] \in MsgRec
    BY DEF Said
  <2>2. s.key \in 1 .. n
    BY DEF Seated, Speaks
  <2>3. bd[s.key] \in Int
    BY <2>2, Sizes DEF Val
  <2> QED
    BY <2>1, <2>2, <2>3, ValueType DEF Falls, Speaks
<1>1. ASSUME NEW i \in Said(b \o ms), NEW k \in Said(b \o ms), i < k,
             MsgKey(n, (b \o ms)[i]) = MsgKey(n, (b \o ms)[k])
      PROVE  ValueAt((b \o ms)[k]) <= ValueAt((b \o ms)[i])
  <2>1. CASE i \in Said(b) /\ k \in Said(b)
    BY <1>1, <2>1, SaidPushed DEF Falls
  <2>2. ASSUME NEW j \in Said(ms), k = Len(b) + j, i \in Said(b)
        PROVE  ValueAt((b \o ms)[k]) <= ValueAt((b \o ms)[i])
    <3>1. (b \o ms)[k] = ms[j] /\ (b \o ms)[i] = b[i]
      BY <2>2, SaidPushed
    <3>2. MsgKey(n, b[i]) = s.key /\ ValueAt(ms[j]) <= s.top
      BY <1>1, <3>1 DEF Speaks
    <3>3. s.top <= ValueAt(b[i])
      BY <1>0, <2>2, <3>2 DEF Falls
    <3>4. ValueAt(b[i]) \in Int /\ ValueAt(ms[j]) \in Int
      BY <1>0, <2>2
    <3>5. ValueAt(ms[j]) <= ValueAt(b[i])
      BY <1>0, <3>2, <3>3, <3>4
    <3> QED
      BY <3>1, <3>5
  <2>3. ASSUME NEW j \in Said(ms), i = Len(b) + j PROVE FALSE
    <3>1. j = 1 /\ Len(b) \in Nat
      BY DEF Speaks
    <3>2. k \notin Said(b)
      BY <1>1, <2>3, <3>1, SaidPushed
    <3>3. PICK l \in Said(ms) : k = Len(b) + l
      BY <3>2, SaidPushed
    <3>4. l = 1
      BY DEF Speaks
    <3> QED
      BY <1>1, <2>3, <3>1, <3>3, <3>4
  <2> QED
    BY <2>1, <2>2, <2>3, SaidPushed
<1>2. ASSUME NEW t \in W, NEW i \in Said(b \o ms), MsgKey(n, (b \o ms)[i]) = t.key
      PROVE  t.top <= ValueAt((b \o ms)[i])
  <2>1. CASE i \in Said(b)
    <3>1. (b \o ms)[i] = b[i]
      BY <2>1, SaidPushed
    <3>2. CASE t \in V \ {s}
      BY <1>2, <2>1, <3>1, <3>2 DEF Falls
    <3>3. CASE t \notin V \ {s}
      <4>1. t.key = s.key /\ t.top <= s.top /\ t.top \in Int
        BY <3>3 DEF Speaks
      <4>2. s.top <= ValueAt(b[i])
        BY <1>0, <1>2, <2>1, <3>1, <4>1 DEF Falls
      <4> QED
        BY <1>0, <2>1, <3>1, <4>1, <4>2
    <3> QED
      BY <3>2, <3>3
  <2>2. ASSUME NEW j \in Said(ms), i = Len(b) + j PROVE t.top <= ValueAt((b \o ms)[i])
    <3>1. (b \o ms)[i] = ms[j] /\ MsgKey(n, ms[j]) = s.key
      BY <2>2, SaidPushed DEF Speaks
    <3>2. t \notin V \ {s}
      BY <1>0, <1>2, <3>1 DEF Seated
    <3> QED
      BY <3>1, <3>2 DEF Speaks
  <2> QED
    BY <2>1, <2>2, SaidPushed
<1>3. ASSUME NEW i \in Said(b \o ms), bd[MsgKey(n, (b \o ms)[i])] # -1
      PROVE  ValueAt((b \o ms)[i]) <= bd[MsgKey(n, (b \o ms)[i])]
  <2>1. CASE i \in Said(b)
    BY <1>3, <2>1, SaidPushed DEF Falls
  <2>2. ASSUME NEW j \in Said(ms), i = Len(b) + j
        PROVE  ValueAt((b \o ms)[i]) <= bd[MsgKey(n, (b \o ms)[i])]
    <3>1. (b \o ms)[i] = ms[j] /\ MsgKey(n, ms[j]) = s.key /\ ValueAt(ms[j]) <= s.top
      BY <2>2, SaidPushed DEF Speaks
    <3> QED
      BY <1>0, <1>3, <3>1
  <2> QED
    BY <2>1, <2>2, SaidPushed
<1>4. ASSUME NEW t \in W, bd[t.key] # -1 PROVE t.top <= bd[t.key]
  <2>1. CASE t \in V \ {s}
    BY <1>4, <2>1 DEF Falls
  <2>2. CASE t \notin V \ {s}
    <3>1. t.key = s.key /\ t.top <= s.top /\ t.top \in Int
      BY <2>2 DEF Speaks
    <3> QED
      BY <1>0, <1>4, <3>1
  <2> QED
    BY <2>1, <2>2
<1> QED
  BY <1>1, <1>2, <1>3, <1>4 DEF Falls

LEMMA ServedHeard ==
  ASSUME NEW K, NEW L, NEW b \in Seq(MsgRec), NEW ms \in Seq(MsgRec), NEW n \in Nat, NEW bd, NEW mv,
         Served(K, b, n, bd, mv),
         \A k \in K : \/ k \in L
                      \/ \E i \in Said(ms) : ms[i].type = "exact" /\ MsgKey(n, ms[i]) = k
  PROVE  Served(L, b \o ms, n, bd, mv)
<1> SUFFICES ASSUME NEW k \in 1 .. n
             PROVE  \/ k \in L
                    \/ \E i \in Said(b \o ms) : /\ (b \o ms)[i].type = "exact"
                                                /\ MsgKey(n, (b \o ms)[i]) = k
                    \/ bd[k] # -1 /\ bd[k] <= mv
  BY DEF Served
<1>1. ASSUME NEW i \in Said(b), b[i].type = "exact", MsgKey(n, b[i]) = k
      PROVE  \E j \in Said(b \o ms) : (b \o ms)[j].type = "exact" /\ MsgKey(n, (b \o ms)[j]) = k
  BY <1>1, SaidPushed
<1>2. ASSUME NEW i \in Said(ms), ms[i].type = "exact", MsgKey(n, ms[i]) = k
      PROVE  \E j \in Said(b \o ms) : (b \o ms)[j].type = "exact" /\ MsgKey(n, (b \o ms)[j]) = k
  BY SMTT(30), <1>2, SaidPushed
<1> QED
  BY <1>1, <1>2 DEF Served

LEMMA SaidTaken ==
  ASSUME NEW b \in Seq(MsgRec), b # <<>>
  PROVE  /\ Tail(b) \in Seq(MsgRec) /\ Head(b) = b[1] /\ b[1] \in MsgRec /\ 1 \in DOMAIN b
         /\ b[1].type # "stopped" => 1 \in Said(b)
         /\ \A i \in Said(Tail(b)) : i + 1 \in Said(b) /\ Tail(b)[i] = b[i + 1]
                                     /\ i \in Nat /\ i >= 1
         /\ \A i \in Said(b) : i \in Nat /\ i >= 1
                               /\ (i # 1 => i - 1 \in Said(Tail(b)) /\ Tail(b)[i - 1] = b[i])
BY StopsTaken DEF Said

\* A searcher's report is read: its value is the bound of its place.
Read(bd, n, m) == [bd EXCEPT ![MsgKey(n, m)] = ValueAt(m)]
Best(mv, m) == IF m.type = "exact" /\ mv < ValueAt(m) THEN ValueAt(m) ELSE mv

LEMMA FallsRead ==
  ASSUME NEW V, \A t \in V : t.top \in Int, NEW b \in Seq(MsgRec), b # <<>>, NEW n \in Nat,
         NEW bd \in [1 .. n -> Val \cup {-1}], Head(b).type # "stopped",
         Seated(V, b, n), Falls(V, b, n, bd)
  PROVE  /\ Seated(V, Tail(b), n)
         /\ MsgKey(n, Head(b)) \in 1 .. n
         /\ Read(bd, n, Head(b)) \in [1 .. n -> Val \cup {-1}]
         /\ Falls(V, Tail(b), n, Read(bd, n, Head(b)))
         /\ bd[MsgKey(n, Head(b))] # -1 => ValueAt(Head(b)) <= bd[MsgKey(n, Head(b))]
<1> DEFINE m == Head(b)
           c == Tail(b)
           be == Read(bd, n, m)
<1>1. /\ 1 \in Said(b) /\ m = b[1] /\ m \in MsgRec
      /\ \A i \in Said(c) : i + 1 \in Said(b) /\ c[i] = b[i + 1] /\ i \in Nat /\ i >= 1
  BY SaidTaken
<1>2. Seated(V, c, n) /\ MsgKey(n, m) \in 1 .. n
  BY <1>1 DEF Seated
<1>3. ValueAt(m) \in Val /\ ValueAt(m) \in Int /\ \A i \in Said(c) : ValueAt(c[i]) \in Int
  <2>1. \A i \in Said(c) : c[i] \in MsgRec
    BY SaidTaken DEF Said
  <2> QED
    BY <1>1, <2>1, ValueType
<1>4. be \in [1 .. n -> Val \cup {-1}] /\ be[MsgKey(n, m)] = ValueAt(m)
      /\ \A k \in 1 .. n : k # MsgKey(n, m) => be[k] = bd[k]
  BY <1>2, <1>3 DEF Read
<1> HIDE DEF m, c, be
<1>5. ASSUME NEW i \in Said(c), NEW k \in Said(c), i < k, MsgKey(n, c[i]) = MsgKey(n, c[k])
      PROVE  ValueAt(c[k]) <= ValueAt(c[i])
  <2>1. i + 1 \in Said(b) /\ k + 1 \in Said(b) /\ i + 1 < k + 1
        /\ c[i] = b[i + 1] /\ c[k] = b[k + 1]
    BY <1>1, <1>5
  <2> QED
    BY <1>5, <2>1 DEF Falls
<1>6. \A s \in V, i \in Said(c) : MsgKey(n, c[i]) = s.key => s.top <= ValueAt(c[i])
  BY <1>1 DEF Falls
<1>7. ASSUME NEW i \in Said(c), be[MsgKey(n, c[i])] # -1
      PROVE  ValueAt(c[i]) <= be[MsgKey(n, c[i])]
  <2>1. i + 1 \in Said(b) /\ c[i] = b[i + 1] /\ 1 < i + 1
    BY <1>1
  <2>2. CASE MsgKey(n, c[i]) = MsgKey(n, m)
    BY <1>1, <1>4, <2>1, <2>2 DEF Falls
  <2>3. CASE MsgKey(n, c[i]) # MsgKey(n, m)
    BY <1>2, <1>4, <1>7, <2>1, <2>3 DEF Falls, Seated
  <2> QED
    BY <2>2, <2>3
<1>8. ASSUME NEW s \in V, be[s.key] # -1 PROVE s.top <= be[s.key]
  <2>1. CASE s.key = MsgKey(n, m)
    BY <1>1, <1>4, <2>1 DEF Falls
  <2>2. CASE s.key # MsgKey(n, m)
    BY <1>2, <1>4, <1>8, <2>2 DEF Falls, Seated
  <2> QED
    BY <2>1, <2>2
<1>9. Falls(V, c, n, be)
  BY <1>5, <1>6, <1>7, <1>8 DEF Falls
<1>10. bd[MsgKey(n, m)] # -1 => ValueAt(m) <= bd[MsgKey(n, m)]
  BY <1>1 DEF Falls
<1> QED
  BY <1>2, <1>4, <1>9, <1>10 DEF m, c, be

LEMMA ServedRead ==
  ASSUME NEW K, NEW V, NEW b \in Seq(MsgRec), b # <<>>, NEW n \in Nat,
         NEW bd \in [1 .. n -> Val \cup {-1}], NEW mv \in Val \cup {-1},
         Head(b).type # "stopped", Seated(V, b, n), Falls(V, b, n, bd), Served(K, b, n, bd, mv)
  PROVE  Served(K, Tail(b), n, Read(bd, n, Head(b)), Best(mv, Head(b)))
<1> DEFINE m == Head(b)
           c == Tail(b)
           be == Read(bd, n, m)
           w == Best(mv, m)
<1>1. /\ 1 \in Said(b) /\ m = b[1] /\ m \in MsgRec
      /\ \A i \in Said(b) : i \in Nat /\ i >= 1
                            /\ (i # 1 => i - 1 \in Said(c) /\ c[i - 1] = b[i])
  BY SaidTaken
<1>2. MsgKey(n, m) \in 1 .. n
  BY <1>1 DEF Seated
<1>3. ValueAt(m) \in Val /\ ValueAt(m) \in Int /\ mv \in Int /\ ValueAt(m) # -1
  <2>1. ValueAt(m) \in Val
    BY <1>1, ValueType
  <2> QED
    BY <2>1, Sizes DEF Val
<1>4. be[MsgKey(n, m)] = ValueAt(m) /\ \A k \in 1 .. n : k # MsgKey(n, m) => be[k] = bd[k]
  BY <1>2 DEF Read
<1>5. /\ w \in Int /\ mv <= w /\ (m.type = "exact" => ValueAt(m) <= w)
  BY <1>3 DEF Best
<1>6. \A k \in 1 .. n : bd[k] \in Int
  BY Sizes DEF Val
<1>7. bd[MsgKey(n, m)] # -1 => ValueAt(m) <= bd[MsgKey(n, m)]
  BY <1>1 DEF Falls
<1> HIDE DEF m, c, be, w
<1> SUFFICES ASSUME NEW k \in 1 .. n
             PROVE  \/ k \in K
                    \/ \E i \in Said(c) : c[i].type = "exact" /\ MsgKey(n, c[i]) = k
                    \/ be[k] # -1 /\ be[k] <= w
  BY DEF Served, m, c, be, w
<1>8. CASE bd[k] # -1 /\ bd[k] <= mv
  <2>1. CASE k = MsgKey(n, m)
    BY <1>3, <1>4, <1>5, <1>6, <1>7, <1>8, <2>1
  <2>2. CASE k # MsgKey(n, m)
    BY <1>3, <1>4, <1>5, <1>6, <1>8, <2>2
  <2> QED
    BY <2>1, <2>2
<1>9. ASSUME NEW i \in Said(b), b[i].type = "exact", MsgKey(n, b[i]) = k
      PROVE  \/ \E j \in Said(c) : c[j].type = "exact" /\ MsgKey(n, c[j]) = k
             \/ be[k] # -1 /\ be[k] <= w
  <2>1. CASE i = 1
    BY <1>1, <1>3, <1>4, <1>5, <1>9, <2>1
  <2>2. CASE i # 1
    BY <1>1, <1>9, <2>2
  <2> QED
    BY <2>1, <2>2
<1> QED
  BY <1>8, <1>9 DEF Served

\* A :stopped is read.
LEMMA StopRead ==
  ASSUME NEW V, NEW K, NEW b \in Seq(MsgRec), b # <<>>, Head(b).type = "stopped",
         NEW n, NEW bd, NEW mv
  PROVE  /\ Seated(V, b, n) => Seated(V, Tail(b), n)
         /\ Falls(V, b, n, bd) => Falls(V, Tail(b), n, bd)
         /\ Served(K, b, n, bd, mv) => Served(K, Tail(b), n, bd, mv)
<1> DEFINE c == Tail(b)
<1>1. /\ \A i \in Said(c) : i + 1 \in Said(b) /\ c[i] = b[i + 1] /\ i \in Nat
      /\ \A i \in Said(b) : i - 1 \in Said(c) /\ c[i - 1] = b[i]
  <2>1. \A i \in Said(b) : i # 1
    BY SaidTaken DEF Said
  <2> QED
    BY <2>1, SaidTaken
<1> HIDE DEF c
<1>2. Seated(V, b, n) => Seated(V, c, n)
  BY <1>1 DEF Seated
<1>3. ASSUME Falls(V, b, n, bd) PROVE Falls(V, c, n, bd)
  <2>1. ASSUME NEW i \in Said(c), NEW k \in Said(c), i < k, MsgKey(n, c[i]) = MsgKey(n, c[k])
        PROVE  ValueAt(c[k]) <= ValueAt(c[i])
    <3>1. i + 1 \in Said(b) /\ k + 1 \in Said(b) /\ i + 1 < k + 1
          /\ c[i] = b[i + 1] /\ c[k] = b[k + 1]
      BY <1>1, <2>1
    <3> QED
      BY <1>3, <2>1, <3>1 DEF Falls
  <2>2. \A s \in V, i \in Said(c) : MsgKey(n, c[i]) = s.key => s.top <= ValueAt(c[i])
    BY <1>1, <1>3 DEF Falls
  <2>3. \A i \in Said(c) : bd[MsgKey(n, c[i])] # -1 => ValueAt(c[i]) <= bd[MsgKey(n, c[i])]
    BY <1>1, <1>3 DEF Falls
  <2> QED
    BY <1>3, <2>1, <2>2, <2>3 DEF Falls
<1>4. Served(K, b, n, bd, mv) => Served(K, c, n, bd, mv)
  BY ZenonT(60), <1>1 DEF Served
<1> QED
  BY <1>2, <1>3, <1>4 DEF c

-----------------------------------------------------------------------------
(* A queue that is told nothing.                                           *)

\* The object p, but for a stop.
Still(p) ==
  /\ node'[p].pc = node[p].pc /\ node'[p].pos = node[p].pos /\ node'[p].sink = node[p].sink
  /\ node'[p].count = node[p].count /\ node'[p].bounds = node[p].bounds
  /\ node'[p].maxval = node[p].maxval
  /\ node[p].pc = "count" => node'[p].kids = node[p].kids /\ node'[p].stubs = node[p].stubs
  /\ node[p].stopped => node'[p].stopped

\* The searches for q.
SameJobs(q) == Busy(q)' = Busy(q) /\ \A e \in Busy(q) : eng'[e].jobs[1] = eng[e].jobs[1]

\* An object is stopped by its client, which does not need its value.
Excused(q, S) ==
  \A c \in S : node'[c].stopped /\ ~node[c].stopped => q \in Live /\ node'[q].stopped

LEMMA StillSize ==
  ASSUME NEW q, Still(q)
  PROVE  Size(q)' = Size(q) /\ Bounds(q)' = Bounds(q)
BY DEF Still, Size, Bounds

LEMMA StillKid ==
  ASSUME NEW c, Still(c)
  PROVE  /\ Ceiling(c)' = Ceiling(c) /\ KidVoice(c)' = KidVoice(c)
         /\ Calm(c)' = Calm(c)
         /\ Keen(c)' => Keen(c)
         /\ Keen(c) /\ ~Keen(c)' => node'[c].stopped /\ ~node[c].stopped
BY DEF Still, Ceiling, KidVoice, Calm, Keen

LEMMA QueueKept ==
  ASSUME NEW q, SameJobs(q), Kin(q)' = Kin(q), \A c \in Kin(q) : Still(c), Excused(q, Kin(q)),
         box'[q] = box[q]
  PROVE  /\ Single(q) => Single(q)' \/ (q \in Live /\ node'[q].stopped)
         /\ \A P : Places(q, P) => Places(q, P)'
         /\ Over(q) => Over(q)'
<1>1. ASSUME Single(q) PROVE Single(q)' \/ (q \in Live /\ node'[q].stopped)
  <2>1. CASE Busy(q) # {}
    BY <2>1 DEF SameJobs, Single, Hopes
  <2>2. ASSUME NEW c \in Kin(q), Keen(c) PROVE Single(q)' \/ (q \in Live /\ node'[q].stopped)
    BY <2>2, StillKid DEF Single, Hopes, Excused
  <2>3. CASE ExactLast(box[q]) /\ \A c \in Kin(q) : Calm(c)
    BY <2>3, StillKid DEF Single, ExactLast, Said
  <2> QED
    BY <1>1, <2>1, <2>2, <2>3 DEF Single, Hopes
<1>2. ASSUME NEW P, Places(q, P) PROVE Places(q, P)'
  BY <1>2 DEF Places, Said, SameJobs, Still
<1>3. Over(q) => Over(q)'
  BY DEF Over, Silent, SameJobs
<1> QED
  BY <1>1, <1>2, <1>3

LEMMA ValuesKept ==
  ASSUME NEW p \in Live, SameJobs(p), Kin(p)' = Kin(p), \A c \in Kin(p) : Still(c),
         Excused(p, Kin(p)), box'[p] = box[p], Still(p), Values(p)
  PROVE  Values(p)'
<1>1. Voices(p)' = Voices(p)
  BY StillSize, StillKid DEF Voices, SameJobs, StubVoice, JobKey
<1>2. Sure(p) \subseteq Sure(p)' \/ node'[p].stopped
  <2>1. {JobKey(Size(p), e) : e \in Busy(p)}' = {JobKey(Size(p), e) : e \in Busy(p)}
    BY StillSize DEF SameJobs, JobKey
  <2>2. ASSUME ~node'[p].stopped, NEW c \in Kin(p), Keen(c) PROVE Last(node[c].pos) \in Sure(p)'
    <3>1. Keen(c)' /\ node'[c].pos = node[c].pos
      BY <2>2, StillKid DEF Excused, Still
    <3> QED
      BY <3>1 DEF Sure
  <2> QED
    BY <2>1, <2>2 DEF Sure
<1>3. ASSUME Splitting(p) PROVE Splitting(p)'
  <2>1. Size(p)' = Size(p) /\ Bounds(p)' = Bounds(p)
    BY StillSize
  <2>2. Seated(Voices(p), box[p], Size(p))' /\ Falls(Voices(p), box[p], Size(p), Bounds(p))'
    BY <1>1, <1>3, <2>1 DEF Splitting, Seated, Falls, Said, MsgKey, KeyOf, ValueAt
  <2>3. node'[p].stopped \/ Served(Sure(p), box[p], Size(p), Bounds(p), node[p].maxval)'
    BY <1>2, <1>3, <2>1 DEF Splitting, Served, Said, MsgKey, KeyOf, Still
  <2> QED
    BY <1>3, <2>1, <2>2, <2>3 DEF Splitting
<1> QED
  BY <1>3, QueueKept DEF Values, Still, Excused, IsFinal

\* An object that hears from a searcher.
LEMMA ValuesFed ==
  ASSUME NEW p \in Live, Values(p), Still(p), node[p].pc \in Waiting,
         node[p].pc \in {"count", "collect"} => Splitting(p)', Over(p)',
         node[p].pc = "forcedwait" => node'[p].stopped \/ Single(p)'
  PROVE  Values(p)'
BY DEF Values, Still, IsFinal, Waiting

-----------------------------------------------------------------------------
(* A queue that hears from an object.                                      *)

\* What o tells its client: at most one value, below what could be expected, and before an end.
Utters(o, ms) ==
  \A i \in Said(ms) : /\ i = 1 /\ ~ms[i].own /\ ms[i].pos = node[o].pos
                      /\ ValueAt(ms[i]) <= Ceiling(o)
                      /\ Calm(o) => ms[i].type = "exact"

Exactly(ms) == 1 \in Said(ms) /\ ms[1].type = "exact"

\* o goes on.
GoesOn(o, ms) ==
  /\ node'[o].pos = node[o].pos /\ Ceiling(o)' <= Ceiling(o)
  /\ \A i \in Said(ms) : Ceiling(o)' <= ValueAt(ms[i])
  /\ Keen(o) => Keen(o)' \/ (Exactly(ms) /\ Calm(o)')
  /\ Calm(o) => Calm(o)'
  /\ Stops(ms) = {}

\* o ends, and leaves its search to e.
LeavesTo(o, e) ==
  eng'[e].jobs[1] = Job("search", node[o].pos, FALSE) /\ Ceiling(o) = Top + 1

\* How o is then known to its client q.
Shows(q, o, ms) ==
  \/ Kin(q)' = Kin(q) /\ Busy(q)' = Busy(q) /\ GoesOn(o, ms)
  \/ /\ Kin(q)' = Kin(q) \ {o} /\ Busy(q)' = Busy(q) /\ Farewell(ms)
     /\ Keen(o) => Exactly(ms)
  \/ /\ Kin(q)' = Kin(q) \ {o} /\ ms = <<>>
     /\ \E e \in Engine \ Busy(q) : Busy(q)' = Busy(q) \cup {e} /\ LeavesTo(o, e)

\* What q sees of a step of o.
Heard(q, o, ms) ==
  /\ o \in Kin(q) /\ q # o /\ box'[q] = box[q] \o ms
  /\ \A c \in Kin(q) \ {o} : Still(c)
  /\ Excused(q, Kin(q) \ {o})
  /\ Utters(o, ms)
  /\ \A e \in Busy(q) : eng'[e].jobs[1] = eng[e].jobs[1]
  /\ Shows(q, o, ms)

LEMMA CeilingType ==
  ASSUME Types, NEW c \in Node
  PROVE  Ceiling(c) \in Int
<1>1. node[c].maxval \in Val \cup {-1}
  BY DEF Types, NodeRec
<1> QED
  BY <1>1, Sizes DEF Ceiling, Val

LEMMA VoiceTypes ==
  ASSUME Types, NEW q
  PROVE  \A t \in Voices(q) : t.top \in Int
<1>1. \A c \in Kin(q) : KidVoice(c).top \in Int
  BY CeilingType DEF KidVoice, Kin, Live
<1>2. \A e \in Busy(q) : StubVoice(Size(q), e).top \in Int
  BY Sizes DEF StubVoice
<1> QED
  BY <1>1, <1>2 DEF Voices

LEMMA SpeaksKid ==
  ASSUME Types, Types', NEW q, NEW o, NEW ms \in Seq(MsgRec), Heard(q, o, ms), Still(q)
  PROVE  Speaks(Voices(q), Voices(q)', KidVoice(o), ms, Size(q))
<1> DEFINE s == KidVoice(o)
           n == Size(q)
           V == Voices(q)
           W == Voices(q)'
<1>0. o \in Kin(q) /\ o \in Node /\ n' = n
  BY StillSize DEF Heard, Kin, Live
<1>1. s \in V
  BY <1>0 DEF Voices
<1>2. \A t \in V \cup W : t.top \in Int
  <2>1. \A t \in V : t.top \in Int
    BY VoiceTypes
  <2>2. \A t \in W : t.top \in Int
    <3>1. ASSUME NEW c \in Node PROVE Ceiling(c)' \in Int
      <4>1. node'[c].maxval \in Val \cup {-1}
        BY DEF Types, NodeRec
      <4> QED
        BY <4>1, Sizes DEF Ceiling, Val
    <3>2. \A c \in Kin(q)' : KidVoice(c)'.top \in Int
      BY <3>1 DEF KidVoice, Kin, Live
    <3>3. \A e \in Busy(q)' : StubVoice(Size(q), e)'.top \in Int
      BY Sizes DEF StubVoice
    <3> QED
      BY <3>2, <3>3 DEF Voices
  <2> QED
    BY <2>1, <2>2
<1>3. \A c \in Kin(q) \ {o} : KidVoice(c)' = KidVoice(c) /\ KidVoice(c) \in V \ {s}
  BY StillKid DEF Heard, KidVoice, Voices
<1>4. \A e \in Busy(q) : StubVoice(n, e)' = StubVoice(n, e) /\ StubVoice(n, e) \in V \ {s}
  <2>1. \A e \in Busy(q) : StubVoice(n, e)' = StubVoice(n, e)
    BY <1>0 DEF Heard, StubVoice, JobKey
  <2>2. \A e \in Busy(q) : StubVoice(n, e).who # s.who
    BY <1>0, Sizes DEF StubVoice, KidVoice, Busy, Engine, Node
  <2> QED
    BY <2>1, <2>2 DEF Voices
<1>5. /\ \A i \in Said(ms) : i = 1 /\ MsgKey(n, ms[i]) = s.key /\ ValueAt(ms[i]) <= s.top
  BY DEF Heard, Utters, MsgKey, KeyOf, KidVoice
<1>6. CASE Kin(q)' = Kin(q) /\ Busy(q)' = Busy(q) /\ GoesOn(o, ms)
  <2> DEFINE u == KidVoice(o)'
  <2>1. W = {StubVoice(n, e)' : e \in Busy(q)} \cup {KidVoice(c)' : c \in Kin(q)}
    BY <1>6 DEF Voices
  <2>2. \A t \in W : t \in V \ {s} \/ t = u
    BY <1>3, <1>4, <2>1
  <2>3. u.key = s.key /\ u.top <= s.top /\ \A i \in Said(ms) : u.top <= ValueAt(ms[i])
    BY <1>6 DEF GoesOn, KidVoice
  <2> QED
    BY <1>1, <1>2, <1>5, <2>2, <2>3 DEF Speaks
<1>7. CASE Kin(q)' = Kin(q) \ {o} /\ Busy(q)' = Busy(q) /\ Farewell(ms)
  <2>1. W = {StubVoice(n, e)' : e \in Busy(q)} \cup {KidVoice(c)' : c \in Kin(q) \ {o}}
    BY <1>7 DEF Voices
  <2>2. \A t \in W : t \in V \ {s}
    BY <1>3, <1>4, <2>1
  <2> QED
    BY <1>1, <1>2, <1>5, <2>2 DEF Speaks
<1>8. ASSUME Kin(q)' = Kin(q) \ {o}, ms = <<>>, NEW e \in Engine \ Busy(q),
             Busy(q)' = Busy(q) \cup {e}, LeavesTo(o, e)
      PROVE  Speaks(V, W, s, ms, n)
  <2> DEFINE u == StubVoice(n, e)'
  <2>1. W = {StubVoice(n, d)' : d \in Busy(q) \cup {e}} \cup {KidVoice(c)' : c \in Kin(q) \ {o}}
    BY <1>8 DEF Voices
  <2>2. \A t \in W : t \in V \ {s} \/ t = u
    BY <1>3, <1>4, <2>1
  <2>3. u.key = s.key /\ u.top <= s.top
    BY <1>8, Sizes DEF LeavesTo, StubVoice, KidVoice, JobKey, KeyOf, Job
  <2>4. Said(ms) = {}
    BY <1>8 DEF Said
  <2> QED
    BY <1>1, <1>2, <2>2, <2>3, <2>4 DEF Speaks
<1> QED
  BY <1>6, <1>7, <1>8 DEF Heard, Shows

LEMMA SureKid ==
  ASSUME NEW q, NEW o, NEW ms \in Seq(MsgRec), Heard(q, o, ms), Still(q), ~(q \in Live /\ node'[q].stopped),
         NEW k \in Sure(q)
  PROVE  \/ k \in Sure(q)'
         \/ \E i \in Said(ms) : ms[i].type = "exact" /\ MsgKey(Size(q), ms[i]) = k
<1> DEFINE n == Size(q)
<1>0. n' = n
  BY StillSize
<1>1. \A e \in Busy(q) : e \in Busy(q)' /\ JobKey(n, e)' = JobKey(n, e)
  BY <1>0 DEF Heard, Shows, JobKey
<1>2. \A c \in Kin(q) \ {o} : Keen(c) => c \in Kin(q)' /\ Keen(c)' /\ node'[c].pos = node[c].pos
  BY StillKid DEF Heard, Shows, Still, Excused
<1>3. CASE k \in {JobKey(n, e) : e \in Busy(q)}
  BY <1>0, <1>1, <1>3 DEF Sure
<1>4. ASSUME NEW c \in Kin(q) \ {o}, Keen(c), k = Last(node[c].pos) PROVE k \in Sure(q)'
  BY <1>2, <1>4 DEF Sure
<1>5. ASSUME Keen(o), k = Last(node[o].pos) PROVE k \in Sure(q)' \/ Exactly(ms)
  <2>1. CASE Kin(q)' = Kin(q) /\ GoesOn(o, ms) /\ Keen(o)'
    BY <1>5, <2>1 DEF Sure, GoesOn, Heard
  <2>2. ASSUME NEW e \in Engine, e \in Busy(q)', LeavesTo(o, e) PROVE k \in Sure(q)'
    <3>1. JobKey(n, e)' = k
      BY <1>5, <2>2 DEF JobKey, KeyOf, LeavesTo, Job
    <3> QED
      BY <2>2, <3>1, <1>0 DEF Sure
  <2> QED
    BY <1>5, <2>1, <2>2 DEF Heard, Shows, GoesOn
<1>6. ASSUME Exactly(ms), k = Last(node[o].pos)
      PROVE  \E i \in Said(ms) : ms[i].type = "exact" /\ MsgKey(n, ms[i]) = k
  BY <1>6 DEF Exactly, Heard, Utters, MsgKey, KeyOf
<1> QED
  BY <1>3, <1>4, <1>5, <1>6 DEF Sure

LEMMA BoundsType ==
  ASSUME Types, NEW p \in Live, node[p].pc \in {"count", "collect"}, Values(p),
         node[p].pc = "count" => Size(p) \in Nat
  PROVE  /\ Size(p) \in Nat /\ Size(p) >= 1 /\ Bounds(p) \in [1 .. Size(p) -> Val \cup {-1}]
         /\ node[p].maxval \in Val \cup {-1}
<1>1. node[p] \in NodeRec
  BY LiveTypes DEF Types
<1>2. node[p].bounds \in Seq(Val \cup {-1}) /\ node[p].count \in Nat /\ node[p].maxval \in Val \cup {-1}
  BY <1>1 DEF NodeRec
<1>3. CASE node[p].pc = "count"
  BY <1>2, <1>3 DEF Values, Splitting, Bounds
<1>4. CASE node[p].pc = "collect"
  <2>1. Size(p) = node[p].count /\ Bounds(p) = node[p].bounds /\ Len(node[p].bounds) = node[p].count
    BY <1>4 DEF Size, Bounds, Values
  <2> QED
    BY <1>2, <1>4, <2>1 DEF Values, Splitting
<1> QED
  BY <1>3, <1>4

LEMMA SizeType ==
  ASSUME Types, NEW p \in Node
  PROVE  Size(p) \in Nat
<1>1. node[p].kids \subseteq Node /\ node[p].stubs \subseteq Engine /\ node[p].count \in Nat
  BY DEF Types, NodeRec
<1>2. IsFiniteSet(node[p].kids) /\ IsFiniteSet(node[p].stubs)
  BY <1>1, Sizes, FS_Subset
<1>3. Cardinality(node[p].kids) \in Nat /\ Cardinality(node[p].stubs) \in Nat
  BY <1>2, FS_CardinalityType
<1> QED
  BY <1>1, <1>3 DEF Size

\* A step of the client's place, as long as its searchers speak in turn.
LEMMA SplittingHeard ==
  ASSUME Types, NEW q \in Live, node[q].pc \in {"count", "collect"}, Values(q), Still(q),
         NEW s, NEW ms \in Seq(MsgRec), box'[q] = box[q] \o ms,
         Speaks(Voices(q), Voices(q)', s, ms, Size(q)),
         \A k \in Sure(q) : \/ k \in Sure(q)' \/ node'[q].stopped
                            \/ \E i \in Said(ms) : ms[i].type = "exact" /\ MsgKey(Size(q), ms[i]) = k
  PROVE  Splitting(q)'
<1> DEFINE n == Size(q)
           bd == Bounds(q)
<1>1. n' = n /\ bd' = bd
  BY StillSize
<1>2. n \in Nat /\ n >= 1 /\ bd \in [1 .. n -> Val \cup {-1}] /\ box[q] \in Seq(MsgRec)
  BY LiveTypes, SizeType, BoundsType
<1>3. Seated(Voices(q)', box'[q], n) /\ Falls(Voices(q)', box'[q], n, bd)
  <2>1. Seated(Voices(q), box[q], n) /\ Falls(Voices(q), box[q], n, bd)
    BY DEF Values, Splitting
  <2>2. Speaks(Voices(q), Voices(q)', s, ms, n) /\ box'[q] = box[q] \o ms
    OBVIOUS
  <2> HIDE DEF n, bd
  <2> QED
    BY <1>2, <2>1, <2>2, SeatedHeard, FallsHeard
<1>4. ASSUME ~node'[q].stopped PROVE Served(Sure(q)', box'[q], n, bd, node[q].maxval)
  <2>1. Served(Sure(q), box[q], n, bd, node[q].maxval)
    BY <1>4 DEF Values, Splitting, Still
  <2>2. \A k \in Sure(q) : \/ k \in Sure(q)'
                           \/ \E i \in Said(ms) : ms[i].type = "exact" /\ MsgKey(n, ms[i]) = k
    BY <1>4
  <2>3. PICK K, L, b, mv : K = Sure(q) /\ L = Sure(q)' /\ b = box[q] /\ mv = node[q].maxval
    OBVIOUS
  <2> HIDE DEF n, bd
  <2>4. /\ b \in Seq(MsgRec) /\ n \in Nat /\ Served(K, b, n, bd, mv)
        /\ \A k \in K : \/ k \in L
                       \/ \E i \in Said(ms) : ms[i].type = "exact" /\ MsgKey(n, ms[i]) = k
    BY <1>2, <2>1, <2>2, <2>3
  <2>5. Served(L, b \o ms, n, bd, mv)
    BY <2>4, ServedHeard
  <2> QED
    BY <2>3, <2>5
<1>5. (n >= 1)' /\ Seated(Voices(q), box[q], n)' /\ Falls(Voices(q), box[q], n, bd)'
  BY <1>1, <1>2, <1>3 DEF Seated, Falls, Said, MsgKey, KeyOf, ValueAt
<1>6. node'[q].stopped \/ Served(Sure(q), box[q], n, bd, node[q].maxval)'
  BY <1>1, <1>4 DEF Served, Said, MsgKey, KeyOf, Still
<1> QED
  BY <1>5, <1>6 DEF Splitting

-----------------------------------------------------------------------------
LEMMA ExactPushed ==
  ASSUME NEW b \in Seq(MsgRec), NEW ms \in Seq(MsgRec), \A i \in Said(ms) : i = 1
  PROVE  /\ Exactly(ms) => ExactLast(b \o ms)
         /\ ExactLast(b) /\ (\A i \in Said(ms) : ms[i].type = "exact") => ExactLast(b \o ms)
<1>0. Len(b) \in Nat /\ \A i \in Said(b) : i \in 1 .. Len(b)
  BY DEF Said
<1>1. ASSUME Exactly(ms) PROVE ExactLast(b \o ms)
  <2>1. Len(b) + 1 \in Said(b \o ms) /\ (b \o ms)[Len(b) + 1].type = "exact"
    BY <1>1, SaidPushed DEF Exactly
  <2>2. \A k \in Said(b \o ms) : k <= Len(b) + 1
    BY <1>0, SaidPushed
  <2> QED
    BY <2>1, <2>2 DEF ExactLast
<1>2. ASSUME ExactLast(b), \A i \in Said(ms) : ms[i].type = "exact" PROVE ExactLast(b \o ms)
  <2>1. CASE 1 \in Said(ms)
    BY <1>1, <1>2, <2>1 DEF Exactly
  <2>2. CASE 1 \notin Said(ms)
    <3>1. PICK i \in Said(b) : b[i].type = "exact" /\ \A k \in Said(b) : k <= i
      BY <1>2 DEF ExactLast
    <3>2. \A k \in Said(b \o ms) : k \in Said(b)
      BY <2>2, SaidPushed
    <3>3. i \in Said(b \o ms) /\ (b \o ms)[i] = b[i]
      BY SaidPushed
    <3> QED
      BY <3>1, <3>2, <3>3 DEF ExactLast
  <2> QED
    BY <2>1, <2>2
<1> QED
  BY <1>1, <1>2

LEMMA LoneKid ==
  ASSUME Types, NEW q \in Queue, NEW o \in Kin(q), Load(q) = 1
  PROVE  Kin(q) = {o} /\ Busy(q) = {} /\ StoppedAt(q) = {}
<1>1. /\ IsFiniteSet(Kin(q)) /\ Cardinality(Kin(q)) \in Nat /\ Cardinality(Kin(q)) # 0
      /\ Cardinality(Busy(q)) \in Nat /\ Cardinality(StoppedAt(q)) \in Nat
  BY LoadType
<1>2. Cardinality(Kin(q)) = 1 /\ Cardinality(Busy(q)) = 0 /\ Cardinality(StoppedAt(q)) = 0
  BY <1>1 DEF Load
<1>3. \A c \in Kin(q) : c = o
  BY <1>1, <1>2, FS_Singleton
<1> QED
  BY <1>2, <1>3, LoadType

LEMMA LoneStub ==
  ASSUME Types, NEW q \in Queue, NEW e \in Busy(q), Load(q) = 1
  PROVE  Busy(q) = {e} /\ Kin(q) = {} /\ StoppedAt(q) = {}
<1>1. /\ IsFiniteSet(Busy(q)) /\ Cardinality(Busy(q)) \in Nat /\ Cardinality(Busy(q)) # 0
      /\ Cardinality(Kin(q)) \in Nat /\ Cardinality(StoppedAt(q)) \in Nat
  BY LoadType
<1>2. Cardinality(Busy(q)) = 1 /\ Cardinality(Kin(q)) = 0 /\ Cardinality(StoppedAt(q)) = 0
  BY <1>1 DEF Load
<1>3. \A c \in Busy(q) : c = e
  BY <1>1, <1>2, FS_Singleton
<1> QED
  BY <1>2, <1>3, LoadType

LEMMA NotBoth ==
  ASSUME NEW o, Values(o)
  PROVE  ~(Keen(o) /\ Calm(o))
BY DEF Values, Keen, Calm

LEMMA SingleHeard ==
  ASSUME Types, NEW q \in Queue, NEW o, NEW ms \in Seq(MsgRec), Heard(q, o, ms), Values(o),
         Load(q) = 1, Single(q)
  PROVE  Single(q)'
<1>1. Kin(q) = {o} /\ Busy(q) = {} /\ box[q] \in Seq(MsgRec) /\ box'[q] = box[q] \o ms
  BY LoneKid DEF Heard, Types
<1>2. \/ Keen(o) /\ ~Calm(o)
      \/ ~Keen(o) /\ Calm(o) /\ ExactLast(box[q])
  BY <1>1, NotBoth DEF Single, Hopes
<1>3. \A i \in Said(ms) : i = 1 /\ (Calm(o) => ms[i].type = "exact")
  BY DEF Heard, Utters
<1>4. Exactly(ms) \/ Calm(o) => ExactLast(box'[q])
  BY <1>1, <1>2, <1>3, ExactPushed
<1>5. ExactLast(box'[q]) => ExactLast(box[q])'
  BY DEF ExactLast, Said
<1>6. CASE Kin(q)' = Kin(q) /\ Busy(q)' = Busy(q) /\ GoesOn(o, ms)
  BY <1>1, <1>2, <1>4, <1>5, <1>6 DEF GoesOn, Single, Hopes
<1>7. CASE Kin(q)' = Kin(q) \ {o} /\ Busy(q)' = Busy(q) /\ Farewell(ms) /\ (Keen(o) => Exactly(ms))
  BY <1>1, <1>2, <1>4, <1>5, <1>7 DEF Single
<1>8. CASE \E e \in Engine : Busy(q)' = Busy(q) \cup {e}
  BY <1>8 DEF Single, Hopes
<1> QED
  BY <1>6, <1>7, <1>8 DEF Heard, Shows

LEMMA OverHeard ==
  ASSUME Types, NEW q \in Queue, NEW o, NEW ms \in Seq(MsgRec), Heard(q, o, ms)
  PROVE  Over(q)'
<1>1. o \in Kin(q) /\ box[q] \in Seq(MsgRec) /\ box'[q] = box[q] \o ms
  BY DEF Heard, Types
<1>2. ASSUME Farewell(ms) PROVE box'[q][Len(box'[q])].type = "stopped"
  <2>1. Len(ms) >= 1 /\ Len(ms) \in Nat /\ Len(ms) \in Stops(ms) /\ Len(box[q]) \in Nat
    BY <1>1, <1>2 DEF Farewell
  <2>2. ms[Len(ms)].type = "stopped"
    BY <2>1 DEF Stops
  <2>3. Len(box'[q]) = Len(box[q]) + Len(ms) /\ box'[q][Len(box[q]) + Len(ms)] = ms[Len(ms)]
    BY <1>1, <2>1
  <2> QED
    BY <2>2, <2>3
<1>3. Silent(q)' => Farewell(ms)
  BY <1>1 DEF Heard, Shows, Silent
<1> QED
  BY <1>2, <1>3 DEF Over

LEMMA PlacesHeard ==
  ASSUME Types, NEW q \in Queue, NEW o, NEW ms \in Seq(MsgRec), Heard(q, o, ms),
         NEW P, Places(q, P)
  PROVE  Places(q, P)'
<1>1. o \in Kin(q) /\ box[q] \in Seq(MsgRec) /\ box'[q] = box[q] \o ms /\ node[o].pos = P
  BY DEF Heard, Types, Places
<1>2. ASSUME NEW i \in Said(box'[q]) PROVE box'[q][i].pos = P
  <2>1. \A k \in Said(ms) : ms[k].pos = P
    BY <1>1 DEF Heard, Utters
  <2>2. \A k \in Said(box[q]) : box[q][k].pos = P
    BY DEF Places
  <2> QED
    BY SMTT(30), <1>1, <1>2, <2>1, <2>2, SaidPushed
<1>3. ASSUME NEW e \in Busy(q)' PROVE eng'[e].jobs[1].pos = P
  <2>1. CASE e \in Busy(q)
    BY <2>1 DEF Heard, Places
  <2>2. CASE e \notin Busy(q)
    <3>1. LeavesTo(o, e)
      BY <1>3, <2>2 DEF Heard, Shows
    <3> QED
      BY <1>1, <3>1 DEF LeavesTo, Job
  <2> QED
    BY <2>1, <2>2
<1>4. ASSUME NEW c \in Kin(q)' PROVE node'[c].pos = P
  <2>1. CASE c = o
    BY <1>1, <1>4, <2>1 DEF Heard, Shows, GoesOn
  <2>2. CASE c # o
    BY <1>4, <2>2 DEF Heard, Shows, Places, Still
  <2> QED
    BY <2>1, <2>2
<1> QED
  BY <1>2, <1>3, <1>4 DEF Places, Said

\* An object that waits for o hears from it.
LEMMA ValuesHeard ==
  ASSUME Types, Types', Tree, NEW q \in Live, node[q].pc \in Waiting, Values(q), Still(q),
         NEW o, NEW ms \in Seq(MsgRec), Heard(q, o, ms), Values(o)
  PROVE  Values(q)'
<1>0. q \in Queue
  BY LiveTypes
<1>1. Over(q)'
  BY <1>0, OverHeard
<1>2. ASSUME node[q].pc \in {"count", "collect"} PROVE Splitting(q)'
  <2>1. Speaks(Voices(q), Voices(q)', KidVoice(o), ms, Size(q))
    BY SpeaksKid
  <2>2. \A k \in Sure(q) : \/ k \in Sure(q)' \/ node'[q].stopped
                           \/ \E i \in Said(ms) : ms[i].type = "exact" /\ MsgKey(Size(q), ms[i]) = k
    BY SureKid
  <2> QED
    BY <1>2, <2>1, <2>2, SplittingHeard DEF Heard
<1>3. ASSUME node[q].pc = "forcedwait" PROVE node'[q].stopped \/ Single(q)'
  <2>1. Load(q) = 1
    BY <1>3 DEF Tree, Stages, Stage
  <2> QED
    BY <1>0, <1>3, <2>1, SingleHeard DEF Values, Still
<1> QED
  BY <1>1, <1>2, <1>3, ValuesFed

-----------------------------------------------------------------------------
(* A queue that hears from a process.                                      *)
HeardStub(q, e, m) ==
  /\ e \in Busy(q) /\ Busy(q)' = Busy(q) \ {e} /\ Kin(q)' = Kin(q) /\ node' = node
  /\ \A d \in Busy(q) \ {e} : eng'[d].jobs[1] = eng[d].jobs[1]
  /\ box'[q] = box[q] \o m
  /\ \E v \in Val : m = <<Msg("exact", eng[e].jobs[1].pos, eng[e].jobs[1].own, v, 1), Stopped>>

LEMMA SameNode ==
  ASSUME node' = node
  PROVE  \A p : Still(p) /\ node'[p] = node[p]
BY DEF Still

LEMMA AnswerSays ==
  ASSUME NEW q, NEW e, NEW m \in Seq(MsgRec), HeardStub(q, e, m)
  PROVE  /\ Said(m) = {1} /\ m[1].type = "exact" /\ Exactly(m) /\ Len(m) = 2 /\ m[2].type = "stopped"
         /\ m[1].pos = eng[e].jobs[1].pos /\ m[1].own = eng[e].jobs[1].own
         /\ \A n : MsgKey(n, m[1]) = JobKey(n, e)
         /\ ValueAt(m[1]) \in Int /\ ValueAt(m[1]) <= Top
<1>1. PICK v \in Val : m = <<Msg("exact", eng[e].jobs[1].pos, eng[e].jobs[1].own, v, 1), Stopped>>
  BY DEF HeardStub
<1>2. /\ Len(m) = 2 /\ DOMAIN m = {1, 2}
      /\ m[1] = Msg("exact", eng[e].jobs[1].pos, eng[e].jobs[1].own, v, 1)
      /\ m[2] = Stopped
  BY <1>1
<1>3. m[1].type = "exact" /\ m[2].type = "stopped"
      /\ m[1].pos = eng[e].jobs[1].pos /\ m[1].own = eng[e].jobs[1].own
  BY <1>2 DEF Msg, Stopped
<1>4. Said(m) = {1}
  BY <1>2, <1>3 DEF Said
<1>5. m[1] \in MsgRec
  BY <1>2
<1>6. ValueAt(m[1]) \in Val
  BY <1>5, ValueType
<1>7. ValueAt(m[1]) \in Int /\ ValueAt(m[1]) <= Top
  <2> DEFINE x == ValueAt(m[1])
  <2>1. x \in 0 .. Top /\ Top \in Int
    BY <1>6, Sizes
  <2> HIDE DEF x
  <2>2. x \in Int /\ x <= Top
    BY <2>1
  <2> QED
    BY <2>2 DEF x
<1>8. \A n : MsgKey(n, m[1]) = JobKey(n, e)
  BY <1>3 DEF MsgKey, JobKey
<1> QED
  BY <1>2, <1>3, <1>4, <1>7, <1>8 DEF Exactly

LEMMA SpeaksStub ==
  ASSUME Types, NEW q, NEW e \in Engine, NEW m \in Seq(MsgRec), HeardStub(q, e, m)
  PROVE  Speaks(Voices(q), Voices(q)', StubVoice(Size(q), e), m, Size(q))
<1> DEFINE n == Size(q)
           s == StubVoice(n, e)
<1>1. n' = n /\ e \in Busy(q)
  BY SameNode, StillSize DEF HeardStub
<1>2. Voices(q)' = {StubVoice(n, d) : d \in Busy(q) \ {e}} \cup {KidVoice(c) : c \in Kin(q)}
  <2>1. \A d \in Busy(q)' : StubVoice(n, d)' = StubVoice(n, d)
    BY <1>1 DEF HeardStub, StubVoice, JobKey
  <2>2. \A c : KidVoice(c)' = KidVoice(c)
    BY SameNode, StillKid DEF HeardStub
  <2> QED
    BY <2>1, <2>2 DEF HeardStub, Voices
<1>3. \A d \in Busy(q) \ {e} : StubVoice(n, d) \in Voices(q) /\ StubVoice(n, d) # s
  <2>1. ASSUME NEW d \in Busy(q) \ {e} PROVE StubVoice(n, d).who # s.who
    <3>1. d \in Int /\ e \in Int /\ d # e
      BY <2>1, Sizes DEF Busy, Engine
    <3> QED
      BY <3>1 DEF StubVoice
  <2> QED
    BY <2>1 DEF Voices
<1>4. \A c \in Kin(q) : KidVoice(c) \in Voices(q) /\ KidVoice(c) # s
  <2>1. \A c \in Kin(q) : KidVoice(c).who # s.who
    BY Sizes DEF StubVoice, KidVoice, Kin, Live, Engine, Node
  <2> QED
    BY <2>1 DEF Voices
<1>5. \A t \in Voices(q)' : t \in Voices(q) \ {s}
  BY <1>2, <1>3, <1>4
<1>6. s \in Voices(q) /\ \A t \in Voices(q) : t.top \in Int
  BY <1>1, VoiceTypes DEF Voices
<1>7. \A i \in Said(m) : i = 1 /\ MsgKey(n, m[i]) = s.key /\ ValueAt(m[i]) <= s.top
  <2>1. s.key = JobKey(n, e) /\ s.top = Top + 1
    BY DEF StubVoice
  <2> QED
    BY <2>1, AnswerSays, Sizes
<1> QED
  BY <1>5, <1>6, <1>7 DEF Speaks

LEMMA SureStub ==
  ASSUME NEW q, NEW e \in Engine, NEW m \in Seq(MsgRec), HeardStub(q, e, m), NEW k \in Sure(q)
  PROVE  \/ k \in Sure(q)'
         \/ \E i \in Said(m) : m[i].type = "exact" /\ MsgKey(Size(q), m[i]) = k
<1> DEFINE n == Size(q)
<1>1. n' = n
  BY SameNode, StillSize DEF HeardStub
<1>2. \A c \in Kin(q) : Keen(c) => c \in Kin(q)' /\ Keen(c)' /\ node'[c].pos = node[c].pos
  BY DEF HeardStub, Keen
<1>3. \A d \in Busy(q) \ {e} : d \in Busy(q)' /\ JobKey(n, d)' = JobKey(n, d)
  BY <1>1 DEF HeardStub, JobKey
<1>4. CASE k = JobKey(n, e)
  BY <1>4, AnswerSays
<1>5. ASSUME NEW d \in Busy(q) \ {e}, k = JobKey(n, d) PROVE k \in Sure(q)'
  BY <1>1, <1>3, <1>5 DEF Sure
<1>6. ASSUME NEW c \in Kin(q), Keen(c), k = Last(node[c].pos) PROVE k \in Sure(q)'
  BY <1>2, <1>6 DEF Sure
<1> QED
  BY <1>4, <1>5, <1>6 DEF Sure

LEMMA StubHeard ==
  ASSUME Types, NEW q \in Queue, NEW e \in Engine, NEW m \in Seq(MsgRec), HeardStub(q, e, m)
  PROVE  /\ Load(q) = 1 => Single(q)'
         /\ Over(q)'
         /\ \A P : Places(q, P) => Places(q, P)'
<1>1. box[q] \in Seq(MsgRec) /\ box'[q] = box[q] \o m /\ e \in Busy(q)
  BY DEF Types, HeardStub
<1>2. ASSUME Load(q) = 1 PROVE Single(q)'
  <2>1. Kin(q)' = {}
    BY <1>1, <1>2, LoneStub DEF HeardStub
  <2>2. ExactLast(box'[q])
    BY <1>1, AnswerSays, ExactPushed
  <2> QED
    BY <2>1, <2>2 DEF Single, ExactLast, Said
<1>3. Over(q)'
  <2>1. Len(box'[q]) = Len(box[q]) + 2 /\ box'[q][Len(box[q]) + 2] = m[2] /\ m[2].type = "stopped"
    BY <1>1, AnswerSays
  <2> QED
    BY <2>1 DEF Over
<1>4. ASSUME NEW P, Places(q, P) PROVE Places(q, P)'
  <2>1. ASSUME NEW i \in Said(box'[q]) PROVE box'[q][i].pos = P
    <3>1. \A k \in Said(m) : m[k].pos = P
      BY SMTT(30), <1>1, <1>4, AnswerSays DEF Places
    <3>2. \A k \in Said(box[q]) : box[q][k].pos = P
      BY <1>4 DEF Places
    <3> QED
      BY SMTT(30), <1>1, <2>1, <3>1, <3>2, SaidPushed
  <2> QED
    BY <1>4, <2>1 DEF Places, Said, HeardStub
<1> QED
  BY <1>2, <1>3, <1>4

LEMMA ValuesAnswered ==
  ASSUME Types, Tree, NEW q \in Live, node[q].pc \in Waiting, Values(q),
         NEW e \in Engine, NEW m \in Seq(MsgRec), HeardStub(q, e, m)
  PROVE  Values(q)'
<1>0. q \in Queue /\ Still(q)
  BY LiveTypes, SameNode DEF HeardStub
<1>1. Over(q)'
  BY <1>0, StubHeard
<1>2. ASSUME node[q].pc \in {"count", "collect"} PROVE Splitting(q)'
  <2>1. Speaks(Voices(q), Voices(q)', StubVoice(Size(q), e), m, Size(q))
    BY SpeaksStub
  <2>2. \A k \in Sure(q) : \/ k \in Sure(q)' \/ node'[q].stopped
                           \/ \E i \in Said(m) : m[i].type = "exact" /\ MsgKey(Size(q), m[i]) = k
    BY SureStub
  <2> QED
    BY <1>0, <1>2, <2>1, <2>2, SplittingHeard DEF HeardStub
<1>3. ASSUME node[q].pc = "forcedwait" PROVE node'[q].stopped \/ Single(q)'
  <2>1. Load(q) = 1
    BY <1>3 DEF Tree, Stages, Stage
  <2> QED
    BY <1>0, <2>1, StubHeard
<1> QED
  BY <1>0, <1>1, <1>2, <1>3, ValuesFed

-----------------------------------------------------------------------------
(* What a step of one keeps for the others.                                *)
AllValues == \A o \in Live : Values(o)

\* What a client may rely on.
Follows(q) ==
  /\ Load(q) = 1 /\ Single(q) => Single(q)'
  /\ \A P : Places(q, P) => Places(q, P)'
  /\ Load(q) = 0 => box'[q] = box[q]

\* The queues that somebody reads, and what a step of o puts on them.
Readers == Live \cup External

Posts(o, ms) ==
  /\ box'[node[o].sink] = box[node[o].sink] \o ms
  /\ \A q \in Readers \ {o, node[o].sink} : box'[q] = box[q]

LEMMA ReadersAre == Types => Readers \subseteq Queue
BY Sizes DEF Readers, Live

LEMMA MailsPosts ==
  ASSUME Types, NEW o, NEW ms, Mails(o, ms)
  PROVE  Posts(o, ms)
BY ReadersAre DEF Mails, Posts

\* A step of o, in which it tells its client s the messages ms.
Acts(o, s, ms) ==
  /\ o \in Live /\ s = node[o].sink /\ \A p \in Live \ {o} : Still(p)
  /\ \A q : Excused(q, Kin(q) \ {o})
  /\ Posts(o, ms) /\ Utters(o, ms)
  /\ \A q \in Readers \ {o, s} : SameJobs(q) /\ Kin(q)' = Kin(q)
  /\ \A e \in Busy(s) : eng'[e].jobs[1] = eng[e].jobs[1]
  /\ Shows(s, o, ms)

LEMMA ActsKept ==
  ASSUME Types, Types', Tree, AllValues, NEW o, NEW s, NEW ms \in Seq(MsgRec),
         Acts(o, s, ms)
  PROVE  /\ \A p \in Live \ {o} : Values(p)'
         /\ \A q \in External : Follows(q)
<1>s. s = node[o].sink
  BY DEF Acts
<1>0. /\ o \in Live /\ s # o /\ s \in Queue /\ o \in Kin(s) /\ Values(o) /\ o \in Node /\ o \notin External
      /\ s \notin External => s \in Live /\ node[s].pc \in Waiting
  BY <1>s, SinkApart, Sizes DEF Acts, Tree, AllValues
<1>1. Heard(s, o, ms)
  BY <1>s, <1>0 DEF Acts, Heard, Kin, Posts
<1>2. ASSUME NEW q \in Readers, q # o, q # s
      PROVE  /\ SameJobs(q) /\ Kin(q)' = Kin(q) /\ box'[q] = box[q]
             /\ \A c \in Kin(q) : Still(c)
             /\ Excused(q, Kin(q))
  <2>1. SameJobs(q) /\ Kin(q)' = Kin(q) /\ box'[q] = box[q]
    BY <1>s, <1>2 DEF Acts, Posts
  <2>2. o \notin Kin(q)
    BY <1>s, <1>2 DEF Kin
  <2>3. Kin(q) \ {o} = Kin(q) /\ \A c \in Kin(q) : c \in Live \ {o}
    BY <2>2 DEF Kin
  <2> QED
    BY <2>1, <2>3 DEF Acts
<1>3. ASSUME NEW p \in Live \ {o} PROVE Values(p)'
  <2>1. Still(p) /\ Values(p) /\ p \in Queue /\ p \in Live /\ p \notin External
    BY LiveTypes, Sizes DEF Acts, AllValues
  <2>2. CASE p = s
    BY <1>0, <1>1, <2>1, <2>2, ValuesHeard
  <2>3. CASE p # s
    BY <1>2, <2>1, <2>3, ValuesKept DEF Readers
  <2> QED
    BY <2>2, <2>3
<1>4. ASSUME NEW q \in External PROVE Follows(q)
  <2>1. q \in Queue /\ q # o /\ q \notin Live
    BY <1>0, Sizes DEF Live
  <2>2. CASE q = s
    <3>1. Load(q) # 0
      <4>1. Kin(q) # {}
        BY <1>0, <2>2
      <4> QED
        BY <2>1, <4>1, NoLoad
    <3>2. Load(q) = 1 /\ Single(q) => Single(q)'
      BY <1>0, <1>1, <2>1, <2>2, SingleHeard
    <3>3. \A P : Places(q, P) => Places(q, P)'
      BY <1>1, <2>1, <2>2, PlacesHeard
    <3> QED
      BY <3>1, <3>2, <3>3 DEF Follows
  <2>3. CASE q # s
    BY <1>2, <2>1, <2>3, QueueKept DEF Follows, Readers
  <2> QED
    BY <2>2, <2>3
<1> QED
  BY <1>3, <1>4

\* The messages of every answer are about the position that was asked about.
LEMMA AnswerPlace ==
  ASSUME NEW j \in JobRec, NEW m \in Answers(j)
  PROVE  m \in Seq(MsgRec) /\ \A i \in Said(m) : m[i].pos = j.pos
<1>1. ASSUME NEW x, m = <<x>> \/ m = <<x, Stopped>>, x.pos = j.pos
      PROVE  \A i \in Said(m) : m[i].pos = j.pos
  <2>1. \A i \in Said(m) : i = 1 \/ (i = 2 /\ m = <<x, Stopped>>)
    BY <1>1 DEF Said
  <2>2. \A i \in Said(m) : i = 1
    BY <2>1, StoppedType DEF Said
  <2> QED
    BY <1>1, <2>2
<1>2. \E x : (m = <<x>> \/ m = <<x, Stopped>>) /\ x.pos = j.pos
  <2>1. j.kind \in {"search", "mate", "book", "genmoves", "probability"}
    BY DEF JobRec, JobKind
  <2>2. CASE j.kind = "search"
    <3>1. PICK v \in Val : m = <<Msg("exact", j.pos, j.own, v, 1), Stopped>>
      BY <2>2, AnswerIs
    <3> QED
      BY <3>1 DEF Msg
  <2>3. CASE j.kind = "book"
    <3>1. PICK n \in {0, 1} : m = <<Msg("exact", j.pos, FALSE, 0, n), Stopped>>
      BY <2>3, AnswerIs
    <3> QED
      BY <3>1 DEF Msg
  <2>4. CASE j.kind = "mate"
    <3>1. PICK type \in {"mate", "nomate"} : m = <<Msg(type, j.pos, FALSE, Top, 0)>>
      BY <2>4, AnswerIs
    <3> QED
      BY <3>1 DEF Msg
  <2>5. CASE j.kind \in {"genmoves", "probability"}
    <3>1. PICK n \in 0 .. MaxKeys : m = <<Msg("moves", j.pos, FALSE, 0, n)>>
      BY <2>5, AnswerIs
    <3> QED
      BY <3>1 DEF Msg
  <2> QED
    BY <2>1, <2>2, <2>3, <2>4, <2>5
<1> QED
  BY <1>1, <1>2, AnswerIs

LEMMA ReaderKept ==
  ASSUME Types, Types', Tree, AllValues, NEW e \in Engine, ReaderStep(e)
  PROVE  /\ AllValues' /\ \A q \in External : Follows(q)
         /\ raised' = raised
<1>s. PICK s : s = eng[e].sink
  OBVIOUS
<1>1. /\ Open(e) /\ s \in Queue /\ ~Open(e)' /\ eng[e].jobs[1] \in JobRec
      /\ \A d \in Engine : d # e => eng'[d] = eng[d]
      /\ node' = node /\ root' = root /\ asked' = asked /\ raised' = raised
      /\ \A q \in Queue : q # s => box'[q] = box[q]
      /\ s \in External \cup Live
      /\ e \in Busy(s)
  BY <1>s, ReaderIs, ReaderTree DEF Tree, Busy
<1>2. PICK m \in Answers(eng[e].jobs[1]) : box'[s] = box[s] \o m
  BY <1>s, ReaderIs DEF Tree
<1>3. m \in Seq(MsgRec) /\ \A i \in Said(m) : m[i].pos = eng[e].jobs[1].pos
  BY <1>1, AnswerPlace
<1>4. Live' = Live /\ \A q : Kin(q)' = Kin(q)
  BY <1>1 DEF Kin, Live
<1>5. /\ \A q : q # s => SameJobs(q)
      /\ Busy(s)' = Busy(s) \ {e} /\ \A d \in Busy(s) \ {e} : eng'[d].jobs[1] = eng[d].jobs[1]
  <2>1. \A q : \A d \in Busy(q) : d # e => d \in Engine /\ eng'[d] = eng[d]
    BY <1>1 DEF Busy
  <2>2. ASSUME NEW q PROVE Busy(q)' = Busy(q) \ {e}
    <3>1. \A d \in Engine : d \in Busy(q)' <=> d \in Busy(q) /\ d # e
      BY <1>1 DEF Busy, Open
    <3> QED
      BY <3>1 DEF Busy
  <2>3. \A q : q # s => e \notin Busy(q)
    BY <1>s DEF Busy
  <2> QED
    BY <2>1, <2>2, <2>3 DEF SameJobs
<1>6. ASSUME Kind(e) = "search" PROVE HeardStub(s, e, m)
  <2>1. \E v \in Val : m = <<Msg("exact", eng[e].jobs[1].pos, eng[e].jobs[1].own, v, 1), Stopped>>
    BY <1>1, <1>6, AnswerIs DEF Kind
  <2> QED
    BY <1>1, <1>2, <1>4, <1>5, <2>1 DEF HeardStub
<1>7. \A q, S : Excused(q, S)
  BY <1>1 DEF Excused
<1>8. ASSUME NEW q \in Queue, q # s
      PROVE  SameJobs(q) /\ Kin(q)' = Kin(q) /\ (\A c \in Kin(q) : Still(c)) /\ Excused(q, Kin(q))
             /\ box'[q] = box[q]
  BY <1>1, <1>4, <1>5, <1>7, <1>8, SameNode
<1>9. ASSUME NEW P, Places(s, P) PROVE Places(s, P)'
  <2>1. ASSUME NEW i \in Said(box'[s]) PROVE box'[s][i].pos = P
    <3>1. \A k \in Said(m) : m[k].pos = P
      BY <1>1, <1>3, <1>9 DEF Places
    <3>2. \A k \in Said(box[s]) : box[s][k].pos = P
      BY <1>9 DEF Places
    <3>3. box[s] \in Seq(MsgRec)
      BY <1>1 DEF Types
    <3> QED
      BY <1>2, <1>3, <2>1, <3>1, <3>2, <3>3, SaidPushed
  <2> QED
    BY <1>1, <1>4, <1>5, <1>9, <2>1 DEF Places, Said
<1>10. ASSUME NEW p \in Live PROVE Values(p)'
  <2>1. Values(p) /\ p \in Queue /\ Still(p)
    BY <1>1, LiveTypes, SameNode DEF AllValues
  <2>2. CASE p # s
    BY <1>8, <2>1, <2>2, ValuesKept
  <2>3. CASE p = s /\ node[p].pc \in Waiting
    <3>1. Kind(e) = "search"
      BY <1>1, <2>3, Sizes DEF Tree, Stages, Stage, Reported
    <3> QED
      BY <1>3, <1>6, <2>1, <2>3, <3>1, ValuesAnswered
  <2>4. CASE p = s /\ node[p].pc \notin Waiting
    BY <1>1, <1>9, <2>1, <2>4 DEF Values, Waiting
  <2> QED
    BY <2>2, <2>3, <2>4
<1>11. ASSUME NEW q \in External PROVE Follows(q)
  <2>1. q \in Queue /\ q \notin Live
    BY Sizes DEF Live
  <2>2. CASE q # s
    BY <1>8, <2>1, <2>2, QueueKept DEF Follows
  <2>3. CASE q = s
    <3>1. Kind(e) = "search"
      BY <1>1, <2>3 DEF Tree, Stages, Reported
    <3>2. Load(q) = 1 => Single(q)'
      BY <1>3, <1>6, <2>1, <2>3, <3>1, StubHeard
    <3>3. Load(q) # 0
      BY <1>1, <2>1, <2>3, NoLoad
    <3> QED
      BY <1>9, <2>3, <3>2, <3>3 DEF Follows
  <2> QED
    BY <2>2, <2>3
<1> QED
  BY <1>1, <1>4, <1>10, <1>11 DEF AllValues

-----------------------------------------------------------------------------
(* Who waits for whom.                                                     *)
LEMMA ReachIs ==
  ASSUME NEW n \in [Node -> NodeRec], NEW S \in SUBSET Node
  PROVE  /\ S \subseteq Reach(n, S) /\ Reach(n, S) \subseteq Node
         /\ \A x \in Reach(n, S) : n[x].kids \subseteq Reach(n, S)
         /\ \A T \in SUBSET Node : S \subseteq T /\ (\A x \in T : n[x].kids \subseteq T)
                                     => Reach(n, S) \subseteq T
         /\ \A c \in Reach(n, S) \ S : \E x \in Reach(n, S) : c \in n[x].kids
<1>1. S \subseteq Reach(n, S) /\ Reach(n, S) \subseteq Node
  BY DEF Reach
<1>2. \A T \in SUBSET Node : S \subseteq T /\ (\A x \in T : n[x].kids \subseteq T)
                               => Reach(n, S) \subseteq T
  BY DEF Reach
<1>3. ASSUME NEW x \in Reach(n, S), NEW c \in n[x].kids PROVE c \in Reach(n, S)
  <2>1. c \in Node
    BY <1>1, <1>3 DEF NodeRec
  <2>2. ASSUME NEW T \in SUBSET Node, S \subseteq T, \A y \in T : n[y].kids \subseteq T
        PROVE  c \in T
    <3>1. x \in T
      BY <1>2, <2>2
    <3> QED
      BY <1>3, <2>2, <3>1
  <2> QED
    BY <2>1, <2>2 DEF Reach
<1>4. ASSUME NEW c \in Reach(n, S) \ S, \A x \in Reach(n, S) : c \notin n[x].kids PROVE FALSE
  <2> DEFINE T == Reach(n, S) \ {c}
  <2>1. T \in SUBSET Node /\ S \subseteq T /\ \A x \in T : n[x].kids \subseteq T
    BY <1>1, <1>3, <1>4
  <2> HIDE DEF T
  <2>2. Reach(n, S) \subseteq T
    BY <1>2, <2>1
  <2> QED
    BY <1>4, <2>2 DEF T
<1> QED
  BY <1>1, <1>2, <1>3, <1>4

\* The objects that are referred to.
Reached == Reach(node, Live) \cup Reach(node, {root} \cap Node)

\* An object that is waited for reports to who waits for it, and to no other.
KidsOwn == \A x \in Reached : \A c \in node[x].kids : c \in Live => node[c].sink = x

LEMMA ReachedIs ==
  ASSUME Types
  PROVE  /\ Live \subseteq Reached /\ Reached \subseteq Node /\ (root \in Node => root \in Reached)
         /\ \A x \in Reached : node[x].kids \subseteq Reached
         /\ \A x \in Node : x \in Reached => Reach(node, {x}) \subseteq Reached
<1>1. Live \in SUBSET Node /\ {root} \cap Node \in SUBSET Node /\ node \in [Node -> NodeRec]
  BY DEF Live, Types
<1>2. /\ Live \subseteq Reached /\ Reached \subseteq Node /\ (root \in Node => root \in Reached)
      /\ \A x \in Reached : node[x].kids \subseteq Reached
  BY <1>1, ReachIs DEF Reached
<1>3. ASSUME NEW x \in Node, x \in Reached PROVE Reach(node, {x}) \subseteq Reached
  <2>1. {x} \in SUBSET Node /\ Reached \in SUBSET Node /\ {x} \subseteq Reached
    BY <1>2, <1>3
  <2> QED
    BY <1>1, <1>2, <2>1, ReachIs
<1> QED
  BY <1>2, <1>3

\* A stop comes to an object from its client.
LEMMA StopFromAbove ==
  ASSUME Types, Tree, KidsOwn, NEW a \in Reached, NEW c \in Reach(node, {a}), c \in Live, c # a
  PROVE  node[c].sink \in Live /\ node[c].sink \in Reach(node, {a})
<1>1. {a} \in SUBSET Node /\ a \in Node /\ node \in [Node -> NodeRec]
  BY ReachedIs DEF Types
<1>2. PICK x \in Reach(node, {a}) : c \in node[x].kids
  BY <1>1, ReachIs
<1>3. x \in Reached /\ x \in Node
  BY <1>1, <1>2, ReachedIs
<1>4. node[c].sink = x
  BY <1>2, <1>3 DEF KidsOwn
<1>5. x \notin External
  BY <1>3, Sizes
<1> QED
  BY <1>2, <1>4, <1>5 DEF Tree, Sinks

LEMMA KidsShrunk ==
  ASSUME Types, Types', KidsOwn, Live' \subseteq Live, root' \in {root, 0},
         \A x \in Reached : node'[x].kids \subseteq node[x].kids,
         \A c \in Live' : node'[c].sink = node[c].sink
  PROVE  KidsOwn'
<1>1. Reached' \subseteq Reached
  <2>1. node' \in [Node -> NodeRec] /\ Reached \in SUBSET Node /\ Live' \in SUBSET Node
        /\ {root'} \cap Node \in SUBSET Node
    BY ReachedIs DEF Types, Live
  <2>2. Live' \subseteq Reached /\ {root'} \cap Node \subseteq Reached
    BY ReachedIs, Sizes DEF Node
  <2>3. \A x \in Reached : node'[x].kids \subseteq Reached
    BY ReachedIs
  <2>4. Reach(node', Live') \subseteq Reached /\ Reach(node', {root'} \cap Node) \subseteq Reached
    BY <2>1, <2>2, <2>3, ReachIs
  <2> QED
    BY <2>4 DEF Reached
<1> QED
  BY <1>1 DEF KidsOwn

\* New objects are waited for by o.
LEMMA KidsForked ==
  ASSUME Types, Types', KidsOwn, NEW o \in Live, NEW F \in SUBSET Node, F \cap Reached = {},
         Live' \subseteq Live \cup F, root' = root,
         \A x \in Node \ F : x # o => node'[x].kids \subseteq node[x].kids,
         node'[o].kids \subseteq F, \A x \in F : node'[x].kids = {},
         \A c \in Live : node'[c].sink = node[c].sink,
         \A c \in F : node'[c].sink = o
  PROVE  KidsOwn'
<1> DEFINE T == Reached \cup F
<1>1. node' \in [Node -> NodeRec] /\ T \in SUBSET Node /\ Live' \in SUBSET Node
      /\ {root} \cap Node \in SUBSET Node
  BY ReachedIs DEF Types, Live
<1>2. Live' \subseteq T /\ {root} \cap Node \subseteq T
  BY ReachedIs
<1>3. \A x \in T : node'[x].kids \subseteq T
  BY ReachedIs
<1>4. Reached' \subseteq T
  <2> HIDE DEF T
  <2>1. Reach(node', Live') \subseteq T
    BY <1>1, <1>2, <1>3, ReachIs
  <2>2. Reach(node', {root} \cap Node) \subseteq T
    BY <1>1, <1>2, <1>3, ReachIs
  <2> QED
    BY <2>1, <2>2 DEF Reached
<1>5. ASSUME NEW x \in Reached', NEW c \in node'[x].kids, c \in Live' PROVE node'[c].sink = x
  <2>1. CASE x \in F
    BY <1>5, <2>1
  <2>2. CASE x = o
    BY <1>5, <2>2, ReachedIs
  <2>3. CASE x \notin F /\ x # o
    <3>1. x \in Reached /\ c \in node[x].kids /\ x \in Node
      BY <1>1, <1>4, <1>5, <2>3
    <3>2. c \in Reached /\ c \in Live
      BY <1>5, <3>1, ReachedIs
    <3> QED
      BY <3>1, <3>2 DEF KidsOwn
  <2> QED
    BY <2>1, <2>2, <2>3
<1> QED
  BY <1>5 DEF KidsOwn

-----------------------------------------------------------------------------
(* The steps of a thread, once more: what it tells, and what that leaves.  *)
Whole == Types /\ Tree /\ KidsOwn /\ AllValues /\ ~raised

\* Nobody that is referred to starts again, or goes over to another client.
SinksStay == \A c \in Live' \cap Reached : c \in Live /\ node'[c].sink = node[c].sink

Kept == /\ KidsOwn' /\ AllValues' /\ ~raised' /\ SinksStay
        /\ \A q \in External : Follows(q)

\* A stub that o does not use stays as it is.
MayUse(o) ==
  \A e \in Engine : \/ eng'[e].jobs = eng[e].jobs /\ eng'[e].sink = eng[e].sink
                    \/ e \in Team(o) /\ eng'[e].sink = o

LEMMA TeamJobs ==
  ASSUME Tree, NEW o \in Live, MayUse(o)
  PROVE  \A q : q # o => SameJobs(q)
<1> SUFFICES ASSUME NEW q, q # o PROVE SameJobs(q)
  OBVIOUS
<1>1. \A e \in Engine : e \in Busy(q)' <=> e \in Busy(q)
  BY DEF MayUse, Busy, Open, Tree, OwnJobs
<1>2. \A e \in Busy(q) : eng'[e].jobs = eng[e].jobs
  BY DEF MayUse, Busy, Open, Tree, OwnJobs
<1> QED
  BY <1>1, <1>2 DEF SameJobs, Busy

LEMMA OthersStill ==
  ASSUME Types, NEW o \in Node, NEW r, node' = [node EXCEPT ![o] = r]
  PROVE  /\ node'[o] = r /\ \A p \in Node \ {o} : Still(p) /\ node'[p] = node[p]
         /\ \A q, S : Excused(q, S \ {o}) \/ ~(S \subseteq Node)
BY DEF Types, Still, Excused

LEMMA StaysActs ==
  ASSUME Types, Tree, NEW o \in Live, NEW r, node' = [node EXCEPT ![o] = r],
         r.pc \notin Idle, r.sink = node[o].sink, MayUse(o),
         NEW ms \in Seq(MsgRec), Mails(o, ms), Utters(o, ms), GoesOn(o, ms)
  PROVE  (\E s : Acts(o, s, ms)) /\ Live' = Live
<1>s. PICK s : s = node[o].sink
  OBVIOUS
<1>1. o \in Node /\ s # o
  BY <1>s, LiveTypes, SinkApart DEF Tree
<1>2. Live' = Live /\ \A q : Kin(q)' = Kin(q)
  BY <1>1, OthersStill DEF Live, Kin, Idle
<1>3. \A q : Excused(q, Kin(q) \ {o})
  BY <1>1, OthersStill DEF Excused, Kin, Live
<1>4. \A q : q # o => SameJobs(q)
  BY TeamJobs
<1>5. \A p \in Live \ {o} : Still(p)
  BY <1>1, OthersStill DEF Live
<1>6. Shows(s, o, ms)
  BY <1>1, <1>2, <1>4 DEF Shows, SameJobs
<1> QED
  BY <1>s, <1>1, <1>2, <1>3, <1>4, <1>5, <1>6, MailsPosts, ReadersAre DEF Acts, SameJobs

\* A thread goes on.
LEMMA StaysKept ==
  ASSUME Whole, Types', NEW o \in Live, NEW r, node' = [node EXCEPT ![o] = r],
         r.pc \notin Idle, r.sink = node[o].sink, r.kids \subseteq node[o].kids, MayUse(o),
         NEW ms \in Seq(MsgRec), Mails(o, ms), Utters(o, ms), GoesOn(o, ms),
         Values(o)', root' = root, ~raised'
  PROVE  Kept
<1>1. (\E s : Acts(o, s, ms)) /\ Live' = Live
  BY StaysActs DEF Whole
<1>2. o \in Node
  BY LiveTypes DEF Whole
<1>3. (\A p \in Live \ {o} : Values(p)') /\ \A q \in External : Follows(q)
  BY <1>1, ActsKept DEF Whole
<1>4. KidsOwn'
  <2>1. /\ \A x \in Node : node'[x].kids \subseteq node[x].kids
        /\ \A c \in Node : node'[c].sink = node[c].sink
    BY <1>2, OthersStill DEF Whole
  <2> QED
    BY <1>1, <2>1, KidsShrunk, ReachedIs DEF Whole, Live
<1>5. SinksStay
  BY <1>1, <1>2, OthersStill DEF SinksStay, Whole, Live
<1> QED
  BY <1>1, <1>3, <1>4, <1>5 DEF Kept, AllValues

LEMMA LeavesLive ==
  ASSUME Types, NEW o \in Live, NEW r, node' = [node EXCEPT ![o] = r], r.pc \in Idle
  PROVE  /\ Live' = Live \ {o} /\ (\A q : Kin(q)' = Kin(q) \ {o})
         /\ \A q : q # node[o].sink => o \notin Kin(q)
<1>1. o \in Node /\ node'[o] = r /\ \A p \in Node \ {o} : node'[p] = node[p]
  BY OthersStill DEF Live
<1>2. Live' = Live \ {o}
  BY <1>1 DEF Live, Idle
<1>3. ASSUME NEW q PROVE Kin(q)' = Kin(q) \ {o}
  <2>1. Kin(q)' = {p \in Live' : node'[p].sink = q}
    BY DEF Kin
  <2>2. \A p \in Live \ {o} : node'[p] = node[p]
    BY <1>1 DEF Live
  <2> QED
    BY <1>2, <2>1, <2>2 DEF Kin
<1> QED
  BY <1>2, <1>3 DEF Kin

\* A thread ends.
LEMMA EndKept ==
  ASSUME Whole, Types', NEW o \in Live, Busy(o) = {}, Kin(o) = {}, NEW ms \in Seq(MsgRec), Farewell(ms),
         EndWith(o, ms), eng' = eng, Utters(o, ms), Keen(o) => Exactly(ms),
         root' = root, ~raised'
  PROVE  Kept
<1>s. PICK s : s = node[o].sink
  OBVIOUS
<1>1. o \in Node /\ s # o /\ box' = [Push(box, o, ms) EXCEPT ![o] = <<>>]
      /\ node' = [node EXCEPT ![o] = Done(node[o])]
  BY <1>s, LiveTypes, SinkApart DEF Tree, Whole, EndWith
<1>2. Done(node[o]).pc = "done" /\ Done(node[o]).kids = node[o].kids
  BY DEF Done, FreeNode
<1>3. Live' = Live \ {o} /\ (\A q : Kin(q)' = Kin(q) \ {o})
      /\ \A q : q # s => o \notin Kin(q)
  BY <1>s, <1>1, <1>2, LeavesLive DEF Whole, Idle
<1>4. \A q : SameJobs(q)
  BY DEF SameJobs, Busy, Open
<1>5. Mails(o, ms)
  <2>1. <<>> \in Seq(MsgRec)
    BY NewsIs
  <2> QED
    BY <1>1, <2>1, Pushed DEF Whole, Tree
<1>6. Acts(o, s, ms)
  <2>1. \A p \in Live \ {o} : Still(p)
    BY <1>1, OthersStill DEF Live, Whole
  <2>2. \A q : Excused(q, Kin(q) \ {o})
    BY <1>1, OthersStill DEF Excused, Kin, Live, Whole
  <2>3. \A q \in Queue \ {o, s} : Kin(q)' = Kin(q)
    BY <1>3
  <2>4. Shows(s, o, ms)
    <3>1. Kin(s)' = Kin(s) \ {o} /\ Busy(s)' = Busy(s)
      BY <1>3, <1>4 DEF SameJobs
    <3> QED
      BY <3>1 DEF Shows
  <2> QED
    BY <1>s, <1>4, <1>5, <2>1, <2>2, <2>3, <2>4, MailsPosts, ReadersAre
       DEF Acts, SameJobs, Whole
<1>7. (\A p \in Live \ {o} : Values(p)') /\ \A q \in External : Follows(q)
  BY <1>6, ActsKept DEF Whole
<1>8. KidsOwn'
  <2>1. /\ \A x \in Node : node'[x].kids \subseteq node[x].kids
        /\ \A c \in Node \ {o} : node'[c].sink = node[c].sink
    BY <1>1, <1>2, OthersStill DEF Whole
  <2> QED
    BY <1>3, <2>1, KidsShrunk, ReachedIs DEF Whole, Live
<1>9. SinksStay
  BY <1>1, <1>3, OthersStill DEF SinksStay, Whole, Live
<1> QED
  BY <1>3, <1>7, <1>8, <1>9 DEF Kept, AllValues

\* A thread leaves its search to its first stub.
LEMMA HandKept ==
  ASSUME Whole, Types', NEW o \in Live, Busy(o) = {}, Kin(o) = {},
         node[o].pc \notin {"mated", "collect"} \cup Waiting,
         node' = [node EXCEPT ![o] = SingleNode(node[o])],
         eng' = [eng EXCEPT ![node[o].usis[1]] = Search(@, node[o].pos, FALSE, node[o].sink)],
         NEW b \in Seq(MsgRec), box' = [box EXCEPT ![o] = b],
         root' = root, ~raised'
  PROVE  Kept
<1>1. o \in Node /\ o \in Queue
  BY LiveTypes DEF Whole
<1>s. PICK s \in Queue : s = node[o].sink /\ s # o
  BY SinkApart DEF Tree, Whole
<1>2. PICK e \in Engine : e = node[o].usis[1] /\ e \in Team(o) /\ ~Open(e) /\ eng[e].jobs = <<>>
  BY FirstStubs DEF Whole, Open
<1>3. eng'[e] = Search(eng[e], node[o].pos, FALSE, s) /\ \A d \in Engine \ {e} : eng'[d] = eng[d]
  BY <1>2, <1>s DEF Whole, Types
<1>4. /\ eng'[e].sink = s /\ eng'[e].jobs # <<>>
      /\ eng'[e].jobs[1] = Job("search", node[o].pos, FALSE)
  <2>1. PICK r, P : r = eng[e] /\ P = node[o].pos /\ r.jobs = <<>>
    BY <1>2
  <2>2. PICK g : g = Search(r, P, FALSE, s)
    OBVIOUS
  <2>3. eng'[e] = g
    BY <1>3, <2>1, <2>2
  <2>4. g.sink = s /\ g.jobs # <<>> /\ g.jobs[1] = Job("search", P, FALSE)
    BY SMTT(30), <2>1, <2>2 DEF Search, Go
  <2> QED
    BY <2>1, <2>3, <2>4, Zenon
<1>5. SingleNode(node[o]).pc = "leaf" /\ SingleNode(node[o]).kids = node[o].kids
  <2>1. PICK M \in NodeRec : M = node[o]
    BY <1>1 DEF Types, Whole
  <2>2. SingleNode(M).pc = "leaf" /\ SingleNode(M).kids = M.kids
    BY DEF SingleNode, NodeRec
  <2> QED
    BY <2>1, <2>2
<1>6. Live' = Live \ {o} /\ (\A q : Kin(q)' = Kin(q) \ {o}) /\ \A q : q # s => o \notin Kin(q)
  BY <1>1, <1>s, <1>5, LeavesLive DEF Whole, Idle
<1>7. Mails(o, <<>>) /\ <<>> \in Seq(MsgRec)
  BY NotPushed, NewsIs DEF Whole, Tree
<1>8. \A q \in Queue \ {s} : SameJobs(q)
  <2> SUFFICES ASSUME NEW q \in Queue \ {s} PROVE SameJobs(q)
    OBVIOUS
  <2>1. \A d \in Engine : d \in Busy(q)' <=> d \in Busy(q)
    BY <1>2, <1>3, <1>4 DEF Busy, Open
  <2>2. \A d \in Busy(q) : eng'[d] = eng[d]
    BY <1>2, <1>3 DEF Busy
  <2> QED
    BY <2>1, <2>2 DEF SameJobs, Busy
<1>9. e \notin Busy(s) /\ Busy(s)' = Busy(s) \cup {e} /\ \A d \in Busy(s) : eng'[d] = eng[d]
  <2>1. \A d \in Engine : d \in Busy(s)' <=> d \in Busy(s) \/ d = e
    BY <1>2, <1>3, <1>4 DEF Busy, Open
  <2> QED
    BY ZenonT(60), <1>2, <1>3, <2>1 DEF Busy
<1>10. Ceiling(o) = Top + 1 /\ ~Calm(o)
  BY DEF Whole, AllValues, Values, Ceiling, Calm
<1>11. Acts(o, s, <<>>)
  <2>1. \A p \in Live \ {o} : Still(p)
    BY <1>1, OthersStill DEF Live, Whole
  <2>2. \A q : Excused(q, Kin(q) \ {o})
    BY <1>1, OthersStill DEF Excused, Kin, Live, Whole
  <2>3. \A q \in Queue \ {o, s} : SameJobs(q) /\ Kin(q)' = Kin(q)
    BY <1>s, <1>6, <1>8
  <2>4. LeavesTo(o, e)
    BY <1>4, <1>10 DEF LeavesTo
  <2>5. Shows(s, o, <<>>)
    <3>1. Kin(s)' = Kin(s) \ {o}
      BY <1>6
    <3>2. \E f \in Engine \ Busy(s) : Busy(s)' = Busy(s) \cup {f} /\ LeavesTo(o, f)
      BY <1>9, <2>4
    <3> QED
      BY <3>1, <3>2 DEF Shows
  <2>6. Utters(o, <<>>)
    BY DEF Utters, Said
  <2> QED
    BY <1>s, <1>7, <1>9, <2>1, <2>2, <2>3, <2>5, <2>6, MailsPosts, ReadersAre DEF Acts, Whole
<1>12. (\A p \in Live \ {o} : Values(p)') /\ \A q \in External : Follows(q)
  BY <1>7, <1>11, ActsKept DEF Whole
<1>13. KidsOwn'
  <2>1. /\ \A x \in Node : node'[x].kids \subseteq node[x].kids
        /\ \A c \in Node \ {o} : node'[c].sink = node[c].sink
    BY <1>1, <1>5, OthersStill DEF Whole
  <2> QED
    BY <1>6, <2>1, KidsShrunk, ReachedIs DEF Whole, Live
<1>14. SinksStay
  BY <1>1, <1>6, OthersStill DEF SinksStay, Whole, Live
<1> QED
  BY <1>6, <1>12, <1>13, <1>14 DEF Kept, AllValues

-----------------------------------------------------------------------------
(* The three ways in which a thread acts on its own.                       *)
LEMMA PlainValues ==
  ASSUME NEW o, node'[o].pc \notin Waiting \cup {"book", "genmoves"}, node'[o].maxval = -1
  PROVE  Values(o)'
BY DEF Values, Waiting

LEMMA NothingSaid ==
  ASSUME NEW o
  PROVE  Utters(o, <<>>) /\ Said(<<>>) = {} /\ Said(<<Stopped>>) = {} /\ Utters(o, <<Stopped>>)
<1>1. Said(<<>>) = {}
  BY DEF Said
<1>2. Said(<<Stopped>>) = {}
  BY StoppedType DEF Said
<1> QED
  BY <1>1, <1>2 DEF Utters

\* It goes on, and tells nothing.
LEMMA Proceeds ==
  ASSUME Whole, Types', NEW o \in Live, NEW r, node' = [node EXCEPT ![o] = r],
         r.pc \notin Idle, r.pc # "mated", node[o].pc \notin {"mated", "collect"},
         r.sink = node[o].sink, r.pos = node[o].pos, r.kids \subseteq node[o].kids,
         r.stopped = node[o].stopped, r.maxval = node[o].maxval, MayUse(o),
         Mails(o, <<>>), Values(o)', root' = root, ~raised'
  PROVE  Kept
<1>1. o \in Node /\ node'[o] = r
  BY LiveTypes, OthersStill DEF Whole
<1>2. Utters(o, <<>>)
  BY NothingSaid
<1>3. GoesOn(o, <<>>)
  <2>1. Ceiling(o)' = Ceiling(o) /\ Ceiling(o) \in Int
    BY <1>1, CeilingType DEF Ceiling, Whole
  <2>2. Keen(o) => Keen(o)'
    BY <1>1 DEF Keen
  <2>3. ~Calm(o)
    BY DEF Calm
  <2>4. Stops(<<>>) = {}
    BY DEF Stops
  <2> QED
    BY <1>1, <2>1, <2>2, <2>3, <2>4, NothingSaid DEF GoesOn
<1>4. <<>> \in Seq(MsgRec)
  BY NewsIs
<1> QED
  BY <1>1, <1>2, <1>3, <1>4, StaysKept

\* It ends without a value.
LEMMA EndSilent ==
  ASSUME Whole, Types', NEW o \in Live, Busy(o) = {}, Kin(o) = {},
         EndWith(o, <<Stopped>>), eng' = eng, ~Keen(o), root' = root, ~raised'
  PROVE  Kept
<1>1. PICK ms \in Seq(MsgRec) : ms = <<Stopped>> /\ Farewell(ms)
  BY Farewells, Zenon
<1>2. Utters(o, ms)
  BY <1>1, NothingSaid
<1> QED
  BY <1>1, <1>2, EndKept

\* It ends with a value.
LEMMA EndExact ==
  ASSUME Whole, Types', NEW o \in Live, Busy(o) = {}, Kin(o) = {},
         NEW x \in MsgRec, x.type = "exact", x.pos = node[o].pos, ~x.own,
         node[o].pc \notin {"mated", "collect"},
         EndWith(o, <<x, Stopped>>), eng' = eng, root' = root, ~raised'
  PROVE  Kept
<1>1. PICK ms \in Seq(MsgRec) : ms = <<x, Stopped>> /\ Farewell(ms)
  BY Farewells, Zenon
<1>2. Said(ms) = {1} /\ ms[1] = x
  <2>1. PICK z \in MsgRec : z = Stopped /\ z.type = "stopped"
    BY StoppedType
  <2>2. Len(ms) = 2 /\ DOMAIN ms = {1, 2} /\ ms[1] = x /\ ms[2] = z
    BY <1>1, <2>1
  <2> QED
    BY <2>1, <2>2 DEF Said
<1>3. Ceiling(o) = Top + 1 /\ ~Calm(o)
  BY DEF Whole, AllValues, Values, Ceiling, Calm
<1>4. ValueAt(x) <= Top + 1
  <2>1. ValueAt(x) \in Val
    BY ValueType
  <2> QED
    BY <2>1, Sizes
<1>5. Utters(o, ms)
  BY <1>2, <1>3, <1>4 DEF Utters
<1>6. Exactly(ms)
  BY <1>2 DEF Exactly
<1>7. EndWith(o, ms)
  BY <1>1
<1> QED
  BY <1>1, <1>5, <1>6, <1>7, EndKept

\* No stub of a thread refuses it.
LEMMA NotRefused ==
  ASSUME Types, Tree, NEW o \in Live, Busy(o) = {}, NEW e \in Team(o)
  PROVE  ~Refuses(e) /\ ~Open(e)
<1>1. e \in Engine /\ ~Open(e)
  BY FirstStubs, LiveTypes DEF Tree, Squads
<1>2. ~eng[e].searching
  BY <1>1 DEF Tree, OneJob
<1> QED
  BY <1>1, <1>2 DEF Refuses

LEMMA NotUnexpected ==
  ASSUME Types, NEW q \in Queue, Reported(q), CanFinish(q)
  PROVE  ~Unexpected(q)
<1>1. PICK b \in Seq(MsgRec) : b = box[q]
  BY DEF Types
<1>2. FirstStopped(q) \in 1 .. Len(b) /\ (\A k \in StoppedAt(q) : FirstStopped(q) <= k)
  BY <1>1, FirstIsFirst
<1>3. ASSUME NEW i \in 1 .. FirstStopped(q) - 1 PROVE box[q][i].type \in {"exact", "update"}
  <2>1. i \in DOMAIN b /\ ~(FirstStopped(q) <= i)
    BY <1>2
  <2>2. i \in DOMAIN box[q] /\ i \notin StoppedAt(q)
    BY <1>1, <1>2, <2>1
  <2> QED
    BY <2>2 DEF Reported, Says, Results, StoppedAt
<1> QED
  BY <1>3 DEF Unexpected

-----------------------------------------------------------------------------
LEMMA NoStubUsed ==
  ASSUME NEW o, \A e \in Engine : AlikeStub(e)
  PROVE  MayUse(o)
BY DEF MayUse, AlikeStub

LEMMA NothingPushed ==
  ASSUME Types, Tree, NEW o \in Live, box' = box
  PROVE  Mails(o, <<>>)
<1>1. box[o] \in Seq(MsgRec) /\ box' = [box EXCEPT ![o] = box[o]]
  BY LiveTypes DEF Types
<1> QED
  BY <1>1, NotPushed DEF Tree

LEMMA FirstAsked ==
  ASSUME Types, Tree, NEW o \in Live, node[o].pc \notin Waiting, NEW kind, NEW pos,
         eng' = [eng EXCEPT ![Head(node[o].usis)] = Ask(@, kind, pos, o)]
  PROVE  MayUse(o)
<1>1. PICK f \in Engine : f = Head(node[o].usis) /\ f \in Team(o)
  BY FirstStubs
<1>2. eng'[f] = Ask(eng[f], kind, pos, o) /\ \A e \in Engine \ {f} : eng'[e] = eng[e]
  BY <1>1 DEF Types
<1>3. eng'[f].sink = o
  <2>1. PICK r \in StubRec : r = eng[f]
    BY DEF Types
  <2> QED
    BY <1>2, <2>1 DEF Ask, StubRec
<1> QED
  BY <1>1, <1>2, <1>3 DEF MayUse

LEMMA ValuesAre ==
  ASSUME Whole, NEW o \in Live
  PROVE  Values(o) /\ (node[o].pc # "collect" => node[o].maxval = -1)
BY DEF Whole, AllValues, Values

LEMMA BookKept ==
  ASSUME Whole, NEW o \in Node, BookAnswered(o), Types'
  PROVE  Kept
<1>1. node[o].pc = "book" /\ CanFinish(o) /\ raised' = Unexpected(o) /\ root' = root
  BY DEF BookAnswered
<1>2. o \in Live
  BY <1>1 DEF Live
<1>3. InBook(o) /\ Types /\ Tree
  BY <1>1, <1>2 DEF Tree, Stages, Stage, Whole
<1>4. /\ Busy(o) = {} /\ ~Unexpected(o)
      /\ WaitStopped(o) = <<box[o][1]>> /\ box[o][1] \in MsgRec /\ AfterStopped(o) = <<>>
  BY <1>1, <1>2, <1>3, InBookFinished
<1>5. Kin(o) = {} /\ ~raised'
  BY <1>1, <1>2, <1>3, <1>4, NoKin DEF Tree, Waiting
<1>6. PICK x \in MsgRec : x = box[o][1] /\ Head(WaitStopped(o)) = x
  BY <1>4
<1>7. Values(o) /\ node[o].maxval = -1
  BY <1>1, <1>2, ValuesAre
<1>8. CASE x.n = 1
  <2>1. x.pos = node[o].pos
    <3>1. Len(box[o]) = 2 /\ box[o][1].type = "exact" /\ box[o] \in Seq(MsgRec)
      <4>1. box[o] # <<>> /\ box[o] \in Seq(MsgRec)
        BY <1>1, <1>2, <1>3, LiveTypes DEF CanFinish, StoppedAt
      <4> QED
        BY <1>3, <4>1 DEF InBook
    <3>2. 1 \in Said(box[o])
      BY <3>1 DEF Said
    <3> QED
      BY <1>1, <1>6, <1>7, <3>2 DEF Values, Places
  <2>2. PICK y \in MsgRec : y = Msg("exact", x.pos, FALSE, 0, 1) /\ y.type = "exact"
                            /\ y.pos = node[o].pos /\ ~y.own
    <3>1. x.pos \in Seq(Nat) /\ "exact" \in MsgType
      BY DEF MsgRec, MsgType
    <3>2. Msg("exact", x.pos, FALSE, 0, 1) \in MsgRec /\ Msg("exact", x.pos, FALSE, 0, 1).type = "exact"
          /\ Msg("exact", x.pos, FALSE, 0, 1).pos = x.pos /\ ~Msg("exact", x.pos, FALSE, 0, 1).own
      BY <3>1, Sizes DEF Msg, MsgRec
    <3> QED
      BY <2>1, <3>2
  <2>3. EndWith(o, <<y, Stopped>>) /\ eng' = eng
    BY <1>6, <1>8, <2>2 DEF BookAnswered, EndWith
  <2> QED
    BY <1>1, <1>2, <1>4, <1>5, <2>2, <2>3, EndExact
<1>9. CASE x.n # 1
  <2>1. /\ box' = [box EXCEPT ![o] = <<>>] /\ node' = [node EXCEPT ![o].pc = "genmoves"]
        /\ eng' = [eng EXCEPT ![Head(node[o].usis)] = Ask(@, "genmoves", node[o].pos, o)]
    BY <1>4, <1>6, <1>9 DEF BookAnswered
  <2>8. PICK r : r = [node[o] EXCEPT !.pc = "genmoves"]
    OBVIOUS
  <2>2. /\ r = [node[o] EXCEPT !.pc = "genmoves"] /\ r.pc = "genmoves"
        /\ r.sink = node[o].sink /\ r.pos = node[o].pos /\ r.kids = node[o].kids
        /\ r.stopped = node[o].stopped /\ r.maxval = node[o].maxval
    <3>1. PICK M \in NodeRec : M = node[o]
      BY DEF Types, Whole
    <3> QED
      BY <2>8, <3>1 DEF NodeRec
  <2>3. node' = [node EXCEPT ![o] = r] /\ node'[o] = r
    BY <1>3, <2>1, <2>2 DEF Types
  <2>4. Mails(o, <<>>)
    BY <1>2, <1>3, <2>1, NotPushed, NewsIs DEF Tree
  <2>5. MayUse(o)
    BY <1>1, <1>2, <1>3, <2>1, FirstAsked DEF Waiting
  <2>6. Values(o)'
    BY <1>1, <1>7, <2>2, <2>3 DEF Values, Waiting
  <2>7. r.pc \notin Idle /\ r.pc # "mated" /\ node[o].pc \notin {"mated", "collect"}
    BY <1>1, <2>2 DEF Idle
  <2> QED
    BY <1>1, <1>2, <1>5, <2>2, <2>3, <2>4, <2>5, <2>6, <2>7, Proceeds
<1> QED
  BY <1>8, <1>9

LEMMA GenmovesKept ==
  ASSUME Whole, NEW o \in Node, GenmovesAnswered(o), Types'
  PROVE  Kept
<1>1. node[o].pc = "genmoves" /\ box[o] # <<>> /\ root' = root
  BY DEF GenmovesAnswered
<1>2. o \in Live /\ Types /\ Tree
  BY <1>1 DEF Live, Whole
<1>3. OneAnswer(o, "genmoves", {"moves"})
  BY <1>1, <1>2 DEF Tree, Stages, Stage
<1>4. Busy(o) = {} /\ Len(box[o]) = 1 /\ Kin(o) = {} /\ node[o].pc \notin Waiting
  BY <1>1, <1>2, <1>3, NoKin DEF OneAnswer, Tree, Waiting
<1>5. node[o].maxval = -1 /\ ~raised
  BY <1>1, <1>2, ValuesAre DEF Whole
<1>6. PICK M \in NodeRec : M = node[o]
  BY <1>2 DEF Types
<1>7. CASE Head(box[o]).n = 1
  <2>1. PICK x \in MsgRec : x = Report(o, "exact", 0) /\ x.type = "exact"
    <3>1. 0 \in Val
      BY Sizes
    <3> QED
      BY <1>2, <3>1, ReportsAre, Zenon
  <2>2. x.pos = node[o].pos /\ ~x.own
    BY <2>1 DEF Report, Msg
  <2>3. EndWith(o, <<x, Stopped>>) /\ eng' = eng /\ raised' = raised
    BY <1>7, <2>1 DEF GenmovesAnswered, EndWith
  <2> QED
    BY <1>1, <1>2, <1>4, <1>5, <2>1, <2>2, <2>3, EndExact
<1>8. ASSUME Head(box[o]).n # 1 PROVE Kept
  <2>1. PICK b \in Seq(MsgRec) : box' = [box EXCEPT ![o] = b]
    <3>1. box[o] \in Seq(MsgRec) /\ o \in Queue
      BY <1>2, LiveTypes
    <3>2. Tail(box[o]) \in Seq(MsgRec)
      BY <1>1, <1>4, <3>1, StopsTaken
    <3>4. box' = [box EXCEPT ![o] = Tail(@)]
      BY <1>8 DEF GenmovesAnswered
    <3> QED
      BY <1>2, <3>1, <3>2, <3>4 DEF Types
  <2>2. PICK late \in BOOLEAN : node' = [node EXCEPT ![o] = Searched(M, late)]
    BY <1>6, <1>8 DEF GenmovesAnswered
  <2>3. CASE Len(M.usis) = 1
    <3>1. node' = [node EXCEPT ![o] = SingleNode(node[o])]
      BY <1>6, <2>2, <2>3, SearchedType
    <3>2. PICK h \in Engine : h = Head(node[o].usis) /\ h = node[o].usis[1] /\ h \in Team(o)
      BY <1>2, <1>4, FirstStubs
    <3>3. eng' = [eng EXCEPT ![h] = Search(@, node[o].pos, FALSE, node[o].sink)]
          /\ raised' = Refuses(h)
      BY <1>6, <1>8, <2>3, <3>2, Zenon DEF GenmovesAnswered
    <3>4. ~raised'
      BY <1>2, <1>4, <3>2, <3>3, NotRefused
    <3>5. eng' = [eng EXCEPT ![node[o].usis[1]] = Search(@, node[o].pos, FALSE, node[o].sink)]
      BY <3>2, <3>3, Zenon
    <3>6. node[o].pc \notin {"mated", "collect"} \cup Waiting
      BY <1>1 DEF Waiting
    <3> QED
      BY <1>1, <1>2, <1>4, <2>1, <3>1, <3>4, <3>5, <3>6, HandKept
  <2>4. CASE Len(M.usis) # 1
    <3>1. eng' = eng /\ raised' = raised
      BY <1>6, <1>8, <2>4 DEF GenmovesAnswered
    <3>2. PICK r : /\ r = Searched(M, late) /\ r.pc \in {"presearch", "timeless"}
                   /\ r.sink = M.sink /\ r.pos = M.pos /\ r.kids = M.kids
                   /\ r.stopped = M.stopped /\ r.maxval = M.maxval
      BY <2>4, SearchedType
    <3>3. node' = [node EXCEPT ![o] = r] /\ node'[o] = r
      BY <1>2, <2>2, <3>2 DEF Types
    <3>4. Mails(o, <<>>)
      BY <1>2, <2>1, NotPushed DEF Tree
    <3>5. MayUse(o)
      BY <3>1 DEF MayUse
    <3>6. Values(o)'
      BY <1>5, <1>6, <3>2, <3>3, PlainValues DEF Waiting
    <3>7. r.pc \notin Idle /\ r.pc # "mated" /\ node[o].pc \notin {"mated", "collect"}
      BY <1>1, <3>2 DEF Idle
    <3> QED
      BY <1>1, <1>2, <1>5, <1>6, <3>1, <3>2, <3>3, <3>4, <3>5, <3>6, <3>7, Proceeds
  <2> QED
    BY <2>3, <2>4
<1> QED
  BY <1>7, <1>8

LEMMA PresearchKept ==
  ASSUME Whole, NEW o \in Node, Presearch(o), Types'
  PROVE  Kept
<1>1. node[o].pc = "presearch" /\ root' = root
  BY DEF Presearch
<1>2. o \in Live /\ Types /\ Tree
  BY <1>1 DEF Live, Whole
<1>3. Busy(o) = {} /\ Kin(o) = {} /\ node[o].pc \notin Waiting /\ node[o].maxval = -1 /\ ~raised
  BY <1>1, <1>2, NoKin, ValuesAre DEF Tree, Stages, Stage, Quiet, Waiting, Whole
<1>4. PICK e \in Engine, f \in Engine :
        e = node[o].usis[1] /\ f = node[o].usis[2] /\ e # f /\ e \in Team(o) /\ f \in Team(o)
  <2>1. /\ node[o].usis[1] \in Engine /\ Members(o) \subseteq Engine
        /\ node[o].usis[1] \in Members(o) /\ Team(o) = Members(o)
        /\ node[o].usis[2] \in Members(o) /\ node[o].usis[1] # node[o].usis[2]
    BY <1>1, <1>2, <1>3, FirstStubs
  <2> QED
    BY <2>1
<1>5. CASE node[o].stopped
  <2>1. EndWith(o, <<Stopped>>) /\ eng' = eng /\ raised' = raised
    BY <1>5 DEF Presearch
  <2> QED
    BY <1>1, <1>2, <1>3, <1>5, <2>1, EndSilent DEF Keen
<1>6. CASE ~node[o].stopped
  <2>1. /\ node' = [node EXCEPT ![o].pc = "await", ![o].stubs = {e, f},
                                ![o].await = {"search", "mate"}]
        /\ box' = box /\ raised' = (Refuses(e) \/ Refuses(f))
    BY <1>4, <1>6 DEF Presearch
  <2>13. PICK r : r = [node[o] EXCEPT !.pc = "await", !.stubs = {e, f},
                                      !.await = {"search", "mate"}]
    OBVIOUS
  <2>2. /\ r.pc = "await" /\ r.sink = node[o].sink /\ r.pos = node[o].pos
        /\ r.kids = node[o].kids /\ r.stopped = node[o].stopped
        /\ r.maxval = node[o].maxval
    <3>1. PICK M \in NodeRec : M = node[o]
      BY <1>2 DEF Types
    <3> QED
      BY <2>13, <3>1 DEF NodeRec
  <2>3. node' = [node EXCEPT ![o] = r] /\ node'[o] = r
    BY <1>2, <2>1, <2>13 DEF Types
  <2>4. PICK pos : pos = node[o].pos
    OBVIOUS
  <2>5. PICK g, h : g = Search(eng[e], pos, FALSE, o) /\ h = CheckmateSearch(eng[f], pos, o)
    OBVIOUS
  <2>6. eng' = [eng EXCEPT ![e] = g, ![f] = h]
    <3>1. eng' = [eng EXCEPT ![e] = Search(@, pos, FALSE, o), ![f] = CheckmateSearch(@, pos, o)]
      BY <1>4, <1>6, <2>4, Zenon DEF Presearch
    <3>2. eng' = [eng EXCEPT ![e] = g, ![f] = CheckmateSearch(eng[f], pos, o)]
      BY <1>4, <2>5, <3>1, Zenon
    <3> QED
      BY <2>5, <3>2, Zenon
  <2>7. eng'[e] = g /\ eng'[f] = h /\ \A d \in Engine \ {e, f} : eng'[d] = eng[d]
    BY <1>2, <1>4, <2>6 DEF Types
  <2>8. g.sink = o /\ h.sink = o
    BY <2>5 DEF Search, CheckmateSearch, Go
  <2>9. MayUse(o)
    BY <1>4, <2>7, <2>8 DEF MayUse
  <2>10. ~raised'
    BY <1>2, <1>3, <1>4, <2>1, NotRefused
  <2>11. Mails(o, <<>>) /\ Values(o)'
    BY <1>2, <1>3, <2>1, <2>2, <2>3, NothingPushed, PlainValues DEF Waiting
  <2>12. r.pc \notin Idle /\ r.pc # "mated" /\ node[o].pc \notin {"mated", "collect"}
    BY <1>1, <2>2 DEF Idle
  <2> QED
    BY <1>1, <1>2, <2>2, <2>3, <2>9, <2>10, <2>11, <2>12, Proceeds
<1> QED
  BY <1>5, <1>6

-----------------------------------------------------------------------------
LEMMA ReportSays ==
  ASSUME NEW o, NEW type, NEW v
  PROVE  /\ Report(o, type, v).pos = node[o].pos /\ ~Report(o, type, v).own
         /\ Report(o, type, v).type = type /\ ValueAt(Report(o, type, v)) = Top - v
BY DEF Report, Msg, ValueAt

LEMMA SaidOne ==
  ASSUME NEW x \in MsgRec, x.type # "stopped"
  PROVE  /\ <<x>> \in Seq(MsgRec) /\ Said(<<x>>) = {1} /\ <<x>>[1] = x /\ Stops(<<x>>) = {}
BY DEF Said, Stops

\* A thread goes on to the next part of its search.
LEMMA PassesOn ==
  ASSUME Whole, Types', NEW o \in Live, NEW r, node' = [node EXCEPT ![o] = r],
         r.pc \in {"await", "split", "forced", "probability"},
         node[o].pc \notin {"mated", "collect"},
         r.sink = node[o].sink, r.pos = node[o].pos, r.kids = node[o].kids,
         r.stopped = node[o].stopped, r.maxval = node[o].maxval, MayUse(o),
         Mails(o, <<>>), root' = root, raised' = raised
  PROVE  Kept
<1>1. node'[o] = r /\ ~raised'
  BY LiveTypes, OthersStill DEF Whole
<1>2. r.maxval = -1
  BY ValuesAre
<1>3. Values(o)'
  BY <1>1, <1>2, PlainValues DEF Waiting
<1>4. r.pc \notin Idle /\ r.pc # "mated" /\ r.kids \subseteq node[o].kids
  BY DEF Idle
<1> QED
  BY <1>1, <1>3, <1>4, Proceeds

LEMMA MateKept ==
  ASSUME Whole, Types', NEW o \in Live, node[o].pc = "await", NEW r, node' = [node EXCEPT ![o] = r],
         r.pc = "mated", r.sink = node[o].sink, r.pos = node[o].pos, r.kids = node[o].kids,
         r.stopped = node[o].stopped, r.maxval = node[o].maxval,
         NEW x \in MsgRec, x = Report(o, "exact", Top), NEW b \in Seq(MsgRec),
         box' = [Push(box, o, <<x>>) EXCEPT ![o] = b],
         NEW S, eng' = StopStubs(eng, S), root' = root, raised' = raised
  PROVE  Kept
<1>1. node'[o] = r /\ ~raised' /\ r.maxval = -1
  BY LiveTypes, OthersStill, ValuesAre DEF Whole
<1>2. PICK ms \in Seq(MsgRec) : ms = <<x>> /\ Said(ms) = {1} /\ ms[1] = x /\ Stops(ms) = {}
  <2>1. x.type # "stopped"
    BY ReportSays
  <2> QED
    BY <2>1, SaidOne, Zenon
<1>3. Mails(o, ms)
  BY <1>2, Pushed DEF Whole, Tree
<1>4. MayUse(o)
  BY StoppedStubs, NoStubUsed DEF Whole
<1>5. x.pos = node[o].pos /\ ~x.own /\ x.type = "exact" /\ ValueAt(x) = 0
  <2>1. ValueAt(x) = Top - Top
    BY ReportSays
  <2> QED
    BY <2>1, ReportSays, Sizes
<1>6. Ceiling(o) = Top + 1 /\ Ceiling(o)' = -1 /\ ~Calm(o) /\ Calm(o)'
  BY <1>1 DEF Ceiling, Calm
<1>7. Utters(o, ms)
  BY <1>2, <1>5, <1>6, Sizes DEF Utters
<1>8. GoesOn(o, ms)
  <2>1. Exactly(ms)
    BY <1>2, <1>5 DEF Exactly
  <2>2. -1 <= Top + 1 /\ -1 <= 0
    BY Sizes
  <2> QED
    BY <1>1, <1>2, <1>5, <1>6, <2>1, <2>2 DEF GoesOn
<1>9. Values(o)'
  BY <1>1, PlainValues DEF Waiting
<1>10. r.pc \notin Idle /\ r.kids \subseteq node[o].kids
  BY DEF Idle
<1> QED
  BY <1>1, <1>3, <1>4, <1>7, <1>8, <1>9, <1>10, StaysKept

LEMMA TakeKept ==
  ASSUME Whole, NEW o \in Node, PresearchTake(o), Types'
  PROVE  Kept
<1>1. node[o].pc = "await" /\ box[o] # <<>> /\ raised' = raised /\ root' = root
  BY DEF PresearchTake
<1>2. o \in Live /\ Types /\ Tree /\ ~raised'
  BY <1>1 DEF Live, Whole
<1>3. PICK M \in NodeRec : M = node[o]
  BY <1>2 DEF Types
<1>4. /\ box[o] \in Seq(MsgRec) /\ Head(box[o]) = box[o][1] /\ o \in Queue
      /\ Tail(box[o]) \in Seq(MsgRec)
  BY <1>1, <1>2, LiveTypes, StopsTaken
<1>5. Awaits(o)
  BY <1>1, <1>2 DEF Tree, Stages, Stage
<1>6. PICK x \in MsgRec : x = Report(o, "exact", Top) /\ x.type = "exact"
  <2>1. Top \in Val
    BY Sizes
  <2> QED
    BY <1>2, <2>1, ReportsAre, Zenon
<1>7. PICK b \in Seq(MsgRec) : b = Tail(box[o])
  BY <1>4
<1>8. ASSUME box' = [box EXCEPT ![o] = Tail(@)], eng' = eng,
             NEW r, node' = [node EXCEPT ![o] = r], r.pc = "await",
             r.sink = M.sink, r.pos = M.pos, r.kids = M.kids,
             r.stopped = M.stopped, r.maxval = M.maxval
      PROVE  Kept
  <2>1. box' = [box EXCEPT ![o] = b]
    BY <1>4, <1>7, <1>8, <1>2 DEF Types
  <2>2. Mails(o, <<>>)
    BY <1>2, <2>1, NotPushed DEF Tree
  <2>3. MayUse(o)
    BY <1>8 DEF MayUse
  <2> QED
    BY <1>1, <1>2, <1>3, <1>8, <2>2, <2>3, PassesOn
<1>9. CASE box[o][1].type = "exact"
  <2>1. box' = [box EXCEPT ![o] = Tail(@)] /\ node' = node /\ eng' = eng
    BY <1>4, <1>9 DEF PresearchTake
  <2>2. node' = [node EXCEPT ![o] = M]
    BY <1>2, <1>3, <2>1 DEF Types
  <2> QED
    BY <1>1, <1>3, <1>8, <2>1, <2>2
<1>10. CASE box[o][1].type = "stopped"
  <2>1. /\ box' = [box EXCEPT ![o] = Tail(@)] /\ eng' = eng
        /\ node' = [node EXCEPT ![o].await = @ \ {"search"}, ![o].stubs = @ \ {M.usis[1]}]
    BY <1>3, <1>4, <1>10 DEF PresearchTake
  <2>2. PICK r : r = [M EXCEPT !.await = M.await \ {"search"}, !.stubs = M.stubs \ {M.usis[1]}]
    OBVIOUS
  <2>3. r.pc = M.pc /\ r.sink = M.sink /\ r.pos = M.pos /\ r.kids = M.kids
        /\ r.stopped = M.stopped /\ r.maxval = M.maxval
    BY <2>2 DEF NodeRec
  <2>4. node' = [node EXCEPT ![o] = r]
    BY <1>2, <1>3, <2>1, <2>2 DEF Types, NodeRec
  <2> QED
    BY <1>1, <1>3, <1>8, <2>1, <2>3, <2>4
<1>11. CASE box[o][1].type = "nomate"
  <2>1. /\ box' = [box EXCEPT ![o] = Tail(@)] /\ eng' = eng
        /\ node' = [node EXCEPT ![o].await = @ \ {"mate"}, ![o].stubs = @ \ {M.usis[2]}]
    BY <1>3, <1>4, <1>11 DEF PresearchTake
  <2>2. PICK r : r = [M EXCEPT !.await = M.await \ {"mate"}, !.stubs = M.stubs \ {M.usis[2]}]
    OBVIOUS
  <2>3. r.pc = M.pc /\ r.sink = M.sink /\ r.pos = M.pos /\ r.kids = M.kids
        /\ r.stopped = M.stopped /\ r.maxval = M.maxval
    BY <2>2 DEF NodeRec
  <2>4. node' = [node EXCEPT ![o] = r]
    BY <1>2, <1>3, <2>1, <2>2 DEF Types, NodeRec
  <2> QED
    BY <1>1, <1>3, <1>8, <2>1, <2>3, <2>4
<1>12. CASE box[o][1].type = "mate" /\ "search" \in node[o].await
  <2>1. /\ box' = [Push(box, o, <<x>>) EXCEPT ![o] = Tail(@)]
        /\ eng' = StopStubs(eng, {M.usis[1]})
        /\ node' = [node EXCEPT ![o].pc = "mated", ![o].stubs = @ \ {M.usis[2]}]
    BY <1>3, <1>4, <1>6, <1>12 DEF PresearchTake
  <2>2. PICK r : r = [M EXCEPT !.pc = "mated", !.stubs = M.stubs \ {M.usis[2]}]
    OBVIOUS
  <2>3. r.pc = "mated" /\ r.sink = M.sink /\ r.pos = M.pos /\ r.kids = M.kids
        /\ r.stopped = M.stopped /\ r.maxval = M.maxval
    BY <2>2 DEF NodeRec
  <2>4. node' = [node EXCEPT ![o] = r]
    BY <1>2, <1>3, <2>1, <2>2 DEF Types, NodeRec
  <2>5. box' = [Push(box, o, <<x>>) EXCEPT ![o] = b]
    <3>1. Push(box, o, <<x>>)[o] = box[o]
      <4>1. node[o].sink \in Queue /\ node[o].sink # o
        BY <1>2, SinkApart DEF Tree
      <4> QED
        BY <1>4, <4>1, <1>2 DEF Push, Types
    <3>2. box' = [Push(box, o, <<x>>) EXCEPT ![o] = Tail(Push(box, o, <<x>>)[o])]
      BY <2>1, Zenon
    <3> QED
      BY <1>7, <3>1, <3>2
  <2> QED
    BY ZenonT(60), <1>1, <1>2, <1>3, <1>6, <2>1, <2>3, <2>4, <2>5, MateKept
<1>13. CASE box[o][1].type = "mate" /\ "search" \notin node[o].await
  <2>1. EndWith(o, <<x, Stopped>>) /\ eng' = eng
    BY <1>4, <1>6, <1>13 DEF PresearchTake
  <2>2. Busy(o) = {} /\ Kin(o) = {}
    BY <1>1, <1>2, <1>5, <1>13, AwaitsLoad, NoKin DEF Tree, Waiting
  <2>3. x.pos = node[o].pos /\ ~x.own
    BY <1>6, ReportSays
  <2> QED
    BY <1>1, <1>2, <1>6, <2>1, <2>2, <2>3, EndExact
<1>14. \/ box[o][1].type \in {"exact", "stopped", "nomate"}
       \/ box[o][1].type = "mate"
  BY <1>4 DEF PresearchTake
<1> QED
  BY <1>9, <1>10, <1>11, <1>12, <1>13, <1>14

LEMMA MateStoppedKept ==
  ASSUME Whole, NEW o \in Node, MateStopped(o), Types'
  PROVE  Kept
<1>1. /\ node[o].pc = "mated" /\ CanFinish(o) /\ raised' = Unexpected(o)
      /\ EndWith(o, <<Stopped>>) /\ eng' = eng /\ root' = root
  BY DEF MateStopped
<1>2. o \in Live /\ o \in Queue /\ Types /\ Tree
  BY <1>1, Sizes DEF Live, Whole
<1>3. Mated(o)
  BY <1>1, <1>2 DEF Tree, Stages, Stage
<1>4. Busy(o) = {} /\ Kin(o) = {} /\ ~raised'
  BY <1>1, <1>2, <1>3, LastEnd, NotUnexpected DEF Mated
<1> QED
  BY <1>1, <1>2, <1>4, EndSilent DEF Keen

LEMMA PresearchEndKept ==
  ASSUME Whole, NEW o \in Node, PresearchEnd(o), Types'
  PROVE  Kept
<1>1. /\ node[o].pc = "await" /\ node[o].await = {} /\ eng' = eng /\ raised' = raised
      /\ root' = root
  BY DEF PresearchEnd
<1>2. o \in Live /\ Types /\ Tree /\ ~raised'
  BY <1>1 DEF Live, Whole
<1>3. Busy(o) = {} /\ Kin(o) = {}
  BY <1>1, <1>2, AwaitsNothing
<1>4. CASE node[o].stopped
  <2>1. EndWith(o, <<Stopped>>)
    BY <1>4 DEF PresearchEnd
  <2> QED
    BY <1>1, <1>2, <1>3, <1>4, <2>1, EndSilent DEF Keen
<1>5. CASE ~node[o].stopped
  <2>1. PICK M \in NodeRec : M = node[o]
    BY <1>2 DEF Types
  <2>2. PICK r : /\ node' = [node EXCEPT ![o] = r] /\ r.pc \in {"split", "forced"}
                 /\ r.sink = M.sink /\ r.pos = M.pos /\ r.kids = M.kids
                 /\ r.stopped = M.stopped /\ r.maxval = M.maxval
    <3>1. CASE \E n \in 0 .. MaxKeys : node' = [node EXCEPT ![o].pc = "split", ![o].keys = n]
      <4>1. PICK n \in 0 .. MaxKeys : node' = [node EXCEPT ![o].pc = "split", ![o].keys = n]
        BY <3>1
      <4>2. PICK r : r = [M EXCEPT !.pc = "split", !.keys = n]
        OBVIOUS
      <4>3. r.pc = "split" /\ r.sink = M.sink /\ r.pos = M.pos /\ r.kids = M.kids
            /\ r.stopped = M.stopped /\ r.maxval = M.maxval
        BY <4>2 DEF NodeRec
      <4>4. node' = [node EXCEPT ![o] = r]
        BY <1>2, <2>1, <4>1, <4>2 DEF Types
      <4> QED
        BY <4>3, <4>4
    <3>2. CASE node' = [node EXCEPT ![o].pc = "forced"]
      <4>2. PICK r : r = [M EXCEPT !.pc = "forced"]
        OBVIOUS
      <4>3. r.pc = "forced" /\ r.sink = M.sink /\ r.pos = M.pos /\ r.kids = M.kids
            /\ r.stopped = M.stopped /\ r.maxval = M.maxval
        BY <4>2 DEF NodeRec
      <4>4. node' = [node EXCEPT ![o] = r]
        BY <1>2, <2>1, <3>2, <4>2 DEF Types
      <4> QED
        BY <4>3, <4>4
    <3> QED
      BY <1>5, <3>1, <3>2 DEF PresearchEnd
  <2>3. Mails(o, <<>>) /\ MayUse(o)
    BY <1>1, <1>2, <1>5, NothingPushed DEF PresearchEnd, MayUse
  <2> QED
    BY <1>1, <1>2, <2>1, <2>2, <2>3, PassesOn
<1> QED
  BY <1>4, <1>5

LEMMA TimelessKept ==
  ASSUME Whole, NEW o \in Node, Timeless(o), Types'
  PROVE  Kept
<1>1. /\ node[o].pc = "timeless" /\ box' = box /\ raised' = raised /\ root' = root
      /\ eng' = [eng EXCEPT ![Head(node[o].usis)] = Ask(@, "probability", node[o].pos, o)]
      /\ node' = [node EXCEPT ![o].pc = "probability"]
  BY DEF Timeless
<1>2. o \in Live /\ Types /\ Tree
  BY <1>1 DEF Live, Whole
<1>3. PICK M \in NodeRec : M = node[o]
  BY <1>2 DEF Types
<1>4. PICK r : r = [M EXCEPT !.pc = "probability"]
  OBVIOUS
<1>5. r.pc = "probability" /\ r.sink = M.sink /\ r.pos = M.pos /\ r.kids = M.kids
      /\ r.stopped = M.stopped /\ r.maxval = M.maxval
  BY <1>4 DEF NodeRec
<1>6. node' = [node EXCEPT ![o] = r]
  BY <1>1, <1>2, <1>3, <1>4 DEF Types
<1>7. Mails(o, <<>>)
  BY <1>1, <1>2, NothingPushed
<1>8. MayUse(o)
  BY <1>1, <1>2, FirstAsked DEF Waiting
<1> QED
  BY <1>1, <1>2, <1>3, <1>5, <1>6, <1>7, <1>8, PassesOn

LEMMA ProbabilityKept ==
  ASSUME Whole, NEW o \in Node, ProbabilityAnswered(o), Types'
  PROVE  Kept
<1>1. /\ node[o].pc = "probability" /\ box[o] # <<>> /\ eng' = eng /\ raised' = raised
      /\ root' = root /\ box' = [box EXCEPT ![o] = Tail(@)]
      /\ node' = [node EXCEPT ![o].pc = "split", ![o].keys = Head(box[o]).n]
  BY DEF ProbabilityAnswered
<1>2. o \in Live /\ Types /\ Tree
  BY <1>1 DEF Live, Whole
<1>3. PICK M \in NodeRec : M = node[o]
  BY <1>2 DEF Types
<1>4. PICK r : r = [M EXCEPT !.pc = "split", !.keys = Head(box[o]).n]
  OBVIOUS
<1>5. r.pc = "split" /\ r.sink = M.sink /\ r.pos = M.pos /\ r.kids = M.kids
      /\ r.stopped = M.stopped /\ r.maxval = M.maxval
  BY <1>4 DEF NodeRec
<1>6. node' = [node EXCEPT ![o] = r]
  BY <1>1, <1>2, <1>3, <1>4 DEF Types
<1>7. Mails(o, <<>>)
  <2>1. box[o] \in Seq(MsgRec) /\ o \in Queue /\ Tail(box[o]) \in Seq(MsgRec)
    BY <1>1, <1>2, LiveTypes, StopsTaken
  <2>2. PICK b \in Seq(MsgRec) : box' = [box EXCEPT ![o] = b]
    BY <1>1, <1>2, <2>1 DEF Types
  <2> QED
    BY <1>2, <2>2, NotPushed DEF Tree
<1>8. MayUse(o)
  BY <1>1 DEF MayUse
<1> QED
  BY <1>1, <1>2, <1>3, <1>5, <1>6, <1>7, <1>8, PassesOn

LEMMA SplitNothingKept ==
  ASSUME Whole, NEW o \in Node, SplitNothing(o), Types'
  PROVE  Kept
<1>1. node[o].pc = "split" /\ root' = root
  BY DEF SplitNothing
<1>2. o \in Live /\ Types /\ Tree /\ ~raised
  BY <1>1 DEF Live, Whole
<1>3. Busy(o) = {} /\ Kin(o) = {} /\ node[o].pc \notin {"mated", "collect"} \cup Waiting
  BY <1>1, <1>2, NoKin DEF Tree, Stages, Stage, Quiet, Waiting
<1>5. CASE node[o].stopped
  <2>1. EndWith(o, <<Stopped>>) /\ eng' = eng /\ raised' = raised
    BY <1>5 DEF SplitNothing
  <2> QED
    BY <1>1, <1>2, <1>3, <1>5, <2>1, EndSilent DEF Keen
<1>6. CASE ~node[o].stopped
  <2>1. PICK h \in Engine : h = Head(node[o].usis) /\ h = node[o].usis[1] /\ h \in Team(o)
    BY <1>2, <1>3, FirstStubs
  <2>2. /\ node' = [node EXCEPT ![o] = SingleNode(node[o])] /\ box' = box
        /\ eng' = [eng EXCEPT ![h] = Search(@, node[o].pos, FALSE, node[o].sink)]
        /\ raised' = Refuses(h)
    BY <1>6, <2>1, Zenon DEF SplitNothing
  <2>3. ~raised'
    BY <1>2, <1>3, <2>1, <2>2, NotRefused
  <2>4. eng' = [eng EXCEPT ![node[o].usis[1]] = Search(@, node[o].pos, FALSE, node[o].sink)]
    BY <2>1, <2>2, Zenon
  <2>5. PICK b \in Seq(MsgRec) : box' = [box EXCEPT ![o] = b]
    BY <1>2, <2>2, LiveTypes DEF Types
  <2> QED
    BY <1>1, <1>2, <1>3, <2>2, <2>3, <2>4, <2>5, HandKept
<1> QED
  BY <1>5, <1>6

-----------------------------------------------------------------------------
(* The loop that collects the reports.                                     *)
LEMMA SplittingLater ==
  ASSUME NEW o, NEW n, NEW bd, NEW V, NEW K, NEW b, NEW mv,
         Size(o)' = n, Bounds(o)' = bd, Voices(o)' = V, Sure(o)' = K,
         box'[o] = b, node'[o].maxval = mv,
         n >= 1, Seated(V, b, n), Falls(V, b, n, bd), node'[o].stopped \/ Served(K, b, n, bd, mv)
  PROVE  Splitting(o)'
<1>1. (Size(o) >= 1)' /\ Seated(Voices(o), box[o], Size(o))'
      /\ Falls(Voices(o), box[o], Size(o), Bounds(o))'
  BY DEF Seated, Falls, Said, MsgKey, KeyOf, ValueAt
<1>2. node'[o].stopped \/ Served(Sure(o), box[o], Size(o), Bounds(o), node[o].maxval)'
  BY DEF Served, Said, MsgKey, KeyOf
<1> QED
  BY <1>1, <1>2 DEF Splitting

\* The searchers of o, as long as they do not act.
LEMMA VoicesStill ==
  ASSUME NEW o, SameJobs(o), Kin(o)' = Kin(o), \A c \in Kin(o) : Still(c), Size(o)' = Size(o)
  PROVE  /\ Voices(o)' = Voices(o)
         /\ (\A c \in Kin(o) : node'[c] = node[c]) => Sure(o)' = Sure(o)
<1>1. Voices(o)' = Voices(o)
  BY StillKid DEF Voices, SameJobs, StubVoice, JobKey
<1>2. ASSUME \A c \in Kin(o) : node'[c] = node[c] PROVE Sure(o)' = Sure(o)
  <2>1. {JobKey(Size(o), e) : e \in Busy(o)}' = {JobKey(Size(o), e) : e \in Busy(o)}
    BY DEF SameJobs, JobKey
  <2>2. {d \in Kin(o) : Keen(d)}' = {d \in Kin(o) : Keen(d)}
    BY <1>2 DEF Keen
  <2>3. {Last(node[c].pos) : c \in {d \in Kin(o) : Keen(d)}}'
          = {Last(node[c].pos) : c \in {d \in Kin(o) : Keen(d)}}
    BY <1>2, <2>2
  <2> QED
    BY <2>1, <2>3 DEF Sure
<1> QED
  BY <1>1, <1>2

LEMMA OverTaken ==
  ASSUME NEW o, box[o] \in Seq(MsgRec), box[o] # <<>>, box'[o] = Tail(box[o]),
         Busy(o)' = Busy(o), Kin(o)' = Kin(o), Over(o)
  PROVE  Over(o)'
<1>1. PICK b \in Seq(MsgRec) : b = box[o]
  OBVIOUS
<1>2. Tail(b) # <<>> => Tail(b)[Len(Tail(b))] = b[Len(b)]
  BY <1>1
<1> QED
  BY <1>1, <1>2 DEF Over, Silent

\* A loop goes on: what its object and the others know of the searchers.
LEMMA LoopOn ==
  ASSUME Types, Tree, NEW o \in Live, NEW r, node' = [node EXCEPT ![o] = r],
         r.pc \notin Idle, r.sink = node[o].sink, eng' = eng
  PROVE  /\ node'[o] = r /\ Kin(o)' = Kin(o) /\ Busy(o)' = Busy(o) /\ SameJobs(o) /\ MayUse(o)
         /\ \A c \in Kin(o) : Still(c) /\ node'[c] = node[c]
<1>1. o \in Node /\ node'[o] = r /\ \A p \in Node \ {o} : Still(p) /\ node'[p] = node[p]
  BY LiveTypes, OthersStill
<1>2. Kin(o)' = Kin(o)
  BY SameKin
<1>3. \A c \in Kin(o) : c \in Live /\ c \in Node \ {o}
  BY SinkApart, LiveTypes DEF Kin, Tree
<1>4. \A q : SameJobs(q)
  BY DEF SameJobs, Busy, Open
<1>5. MayUse(o)
  BY DEF MayUse
<1> QED
  BY <1>1, <1>2, <1>3, <1>4, <1>5 DEF SameJobs

LEMMA CountKept ==
  ASSUME Whole, NEW o \in Node, Count(o), Types'
  PROVE  Kept
<1> DEFINE n == Cardinality(node[o].kids) + Cardinality(node[o].stubs)
<1>1. /\ node[o].pc = "count"
      /\ node' = [node EXCEPT ![o].pc = "collect", ![o].count = n, ![o].stops = 0,
                              ![o].bounds = [i \in 1 .. n |-> -1], ![o].maxval = -1]
      /\ eng' = eng /\ box' = box /\ raised' = raised /\ root' = root
  BY DEF Count
<1>2. o \in Live /\ Types /\ Tree /\ ~raised'
  BY <1>1 DEF Live, Whole
<1>3. PICK k : k = n
  OBVIOUS
<1>4. Size(o) = k /\ Bounds(o) = [i \in 1 .. k |-> -1]
  BY <1>1, <1>3 DEF Size, Bounds
<1>5. Values(o) /\ node[o].maxval = -1
  BY <1>1, <1>2, ValuesAre
<1>6. k \in Nat /\ k >= 1 /\ box[o] \in Seq(MsgRec)
  BY <1>1, <1>2, <1>4, <1>5, SizeType, LiveTypes DEF Values, Splitting
<1>7. PICK M \in NodeRec : M = node[o]
  BY <1>2 DEF Types
<1>8. PICK bd : bd = [i \in 1 .. k |-> -1]
  OBVIOUS
<1>9. PICK r : r = [M EXCEPT !.pc = "collect", !.count = k, !.stops = 0, !.bounds = bd, !.maxval = -1]
  OBVIOUS
<1>10. /\ r.pc = "collect" /\ r.sink = M.sink /\ r.pos = M.pos /\ r.kids = M.kids
       /\ r.stopped = M.stopped /\ r.maxval = -1 /\ r.count = k /\ r.bounds = bd
  BY <1>9 DEF NodeRec
<1>11. node' = [node EXCEPT ![o] = r]
  BY <1>1, <1>2, <1>3, <1>7, <1>8, <1>9 DEF Types
<1>12. r.pc \notin Idle /\ r.pc # "mated"
  BY <1>10 DEF Idle
<1>13. /\ node'[o] = r /\ Kin(o)' = Kin(o) /\ Busy(o)' = Busy(o) /\ SameJobs(o) /\ MayUse(o)
       /\ \A c \in Kin(o) : Still(c) /\ node'[c] = node[c]
  BY <1>1, <1>2, <1>7, <1>10, <1>11, <1>12, LoopOn
<1>14. Size(o)' = k /\ Bounds(o)' = bd
  BY <1>10, <1>13 DEF Size, Bounds
<1>15. Voices(o)' = Voices(o) /\ Sure(o)' = Sure(o)
  BY <1>4, <1>13, <1>14, VoicesStill
<1>16. Splitting(o)'
  <2>1. PICK V, K, b : V = Voices(o) /\ K = Sure(o) /\ b = box[o]
    OBVIOUS
  <2>2. /\ Seated(V, b, k) /\ Falls(V, b, k, bd)
        /\ node'[o].stopped \/ Served(K, b, k, bd, -1)
    BY <1>1, <1>4, <1>5, <1>7, <1>8, <1>10, <1>13, <2>1 DEF Values, Splitting
  <2>3. Voices(o)' = V /\ Sure(o)' = K /\ box'[o] = b /\ node'[o].maxval = -1
    BY <1>1, <1>10, <1>13, <1>15, <2>1
  <2> QED
    BY <1>6, <1>14, <2>2, <2>3, SplittingLater
<1>17. Values(o)'
  <2>1. Over(o)'
    BY <1>1, <1>5, <1>13 DEF Values, Waiting, Over, Silent
  <2>2. Len(bd) = k
    BY <1>6, <1>8
  <2>3. ~IsFinal(node'[o].maxval, node'[o].bounds)
    BY <1>10, <1>13 DEF IsFinal
  <2> QED
    BY <1>10, <1>13, <1>16, <2>1, <2>2, <2>3 DEF Values, IsFinal
<1>18. Mails(o, <<>>)
  BY <1>1, <1>2, NothingPushed
<1> QED
  BY <1>1, <1>2, <1>5, <1>7, <1>10, <1>11, <1>12, <1>13, <1>17, <1>18, Proceeds

LEMMA CollectStoppedKept ==
  ASSUME Whole, NEW o \in Node, CollectStopped(o), Types'
  PROVE  Kept
<1>1. /\ node[o].pc = "collect" /\ box[o] # <<>> /\ Head(box[o]).type = "stopped"
      /\ box' = [box EXCEPT ![o] = Tail(@)] /\ node' = [node EXCEPT ![o].stops = @ + 1]
      /\ eng' = eng /\ raised' = raised /\ root' = root
  BY DEF CollectStopped
<1>2. o \in Live /\ Types /\ Tree /\ ~raised' /\ Values(o)
  BY <1>1, ValuesAre DEF Live, Whole
<1>3. /\ box[o] \in Seq(MsgRec) /\ Tail(box[o]) \in Seq(MsgRec) /\ o \in Queue
  BY <1>1, <1>2, LiveTypes, StopsTaken
<1>4. PICK M \in NodeRec : M = node[o]
  BY <1>2 DEF Types
<1>5. PICK r : r = [M EXCEPT !.stops = M.stops + 1]
  OBVIOUS
<1>6. /\ r.pc = "collect" /\ r.sink = M.sink /\ r.pos = M.pos /\ r.kids = M.kids
      /\ r.stopped = M.stopped /\ r.maxval = M.maxval /\ r.count = M.count /\ r.bounds = M.bounds
  BY <1>1, <1>4, <1>5 DEF NodeRec
<1>7. node' = [node EXCEPT ![o] = r]
  BY <1>1, <1>2, <1>4, <1>5 DEF Types
<1>8. r.pc \notin Idle
  BY <1>6 DEF Idle
<1>9. /\ node'[o] = r /\ Kin(o)' = Kin(o) /\ Busy(o)' = Busy(o) /\ SameJobs(o) /\ MayUse(o)
      /\ \A c \in Kin(o) : Still(c) /\ node'[c] = node[c]
  BY <1>1, <1>2, <1>4, <1>6, <1>7, <1>8, LoopOn
<1>10. Size(o)' = Size(o) /\ Bounds(o)' = Bounds(o)
  BY <1>1, <1>4, <1>6, <1>9 DEF Size, Bounds
<1>11. Voices(o)' = Voices(o) /\ Sure(o)' = Sure(o)
  BY <1>9, <1>10, VoicesStill
<1>12. PICK b \in Seq(MsgRec) : b = Tail(box[o]) /\ box' = [box EXCEPT ![o] = b]
  BY <1>1, <1>2, <1>3 DEF Types
<1>13. Mails(o, <<>>) /\ box'[o] = b
  BY <1>2, <1>12, NotPushed DEF Tree
<1>14. Splitting(o)'
  <2>1. PICK V, K, c, n, bd, mv :
          /\ V = Voices(o) /\ K = Sure(o) /\ c = box[o] /\ n = Size(o) /\ bd = Bounds(o)
          /\ mv = M.maxval
    OBVIOUS
  <2>2. /\ n >= 1 /\ Seated(V, c, n) /\ Falls(V, c, n, bd)
        /\ M.stopped \/ Served(K, c, n, bd, mv)
    BY <1>1, <1>2, <1>4, <2>1 DEF Values, Splitting
  <2>3. c \in Seq(MsgRec) /\ c # <<>> /\ Head(c).type = "stopped" /\ b = Tail(c)
    BY <1>1, <1>3, <1>12, <2>1
  <2>4. /\ Seated(V, b, n) /\ Falls(V, b, n, bd)
        /\ Served(K, c, n, bd, mv) => Served(K, b, n, bd, mv)
    BY <2>2, <2>3, StopRead, Zenon
  <2>5. /\ Size(o)' = n /\ Bounds(o)' = bd /\ Voices(o)' = V /\ Sure(o)' = K /\ box'[o] = b
        /\ node'[o].maxval = mv /\ node'[o].stopped = M.stopped
    BY <1>4, <1>6, <1>9, <1>10, <1>11, <1>13, <2>1
  <2> QED
    BY <2>2, <2>4, <2>5, SplittingLater
<1>15. Values(o)'
  <2>1. Over(o)'
    BY <1>1, <1>2, <1>3, <1>9, <1>12, <1>13, OverTaken DEF Values, Waiting
  <2> QED
    BY <1>1, <1>2, <1>4, <1>6, <1>9, <1>14, <2>1 DEF Values, IsFinal
<1>16. GoesOn(o, <<>>)
  <2>1. Ceiling(o)' = Ceiling(o) /\ Ceiling(o) \in Int
    BY <1>1, <1>2, <1>4, <1>6, <1>9, CeilingType DEF Ceiling
  <2>2. (Keen(o) => Keen(o)') /\ (Calm(o) => Calm(o)')
    BY <1>1, <1>4, <1>6, <1>9 DEF Keen, Calm, IsFinal
  <2>4. Stops(<<>>) = {}
    BY DEF Stops
  <2> QED
    BY <1>4, <1>6, <1>9, <2>1, <2>2, <2>4, NothingSaid DEF GoesOn
<1>17. Utters(o, <<>>) /\ <<>> \in Seq(MsgRec) /\ r.kids \subseteq node[o].kids
  BY <1>4, <1>6, NothingSaid, NewsIs
<1> QED
  BY <1>1, <1>2, <1>4, <1>6, <1>7, <1>8, <1>9, <1>13, <1>15, <1>16, <1>17, StaysKept

LEMMA CollectEndKept ==
  ASSUME Whole, NEW o \in Node, CollectEnd(o), Types'
  PROVE  Kept
<1>1. /\ node[o].pc = "collect" /\ node[o].stops >= node[o].count
      /\ EndWith(o, <<Stopped>>) /\ eng' = eng /\ raised' = raised /\ root' = root
  BY DEF CollectEnd
<1>2. o \in Live /\ o \in Queue /\ Types /\ Tree /\ ~raised' /\ Values(o)
  BY <1>1, Sizes, ValuesAre DEF Live, Whole
<1>3. node[o].stops + Load(o) = node[o].count
  BY <1>1, <1>2 DEF Tree, Stages, Stage
<1>4. node[o].stops \in Nat /\ node[o].count \in Nat /\ Load(o) \in Nat
  BY <1>1, <1>2, LoadType DEF Types, NodeRec
<1>5. Busy(o) = {} /\ Kin(o) = {} /\ StoppedAt(o) = {}
  BY <1>1, <1>2, <1>3, <1>4, NoLoad
<1>6. box[o] = <<>>
  <2>1. box[o] \in Seq(MsgRec) /\ (box[o] # <<>> => box[o][Len(box[o])].type = "stopped")
    BY <1>1, <1>2, <1>5, LiveTypes DEF Values, Waiting, Over, Silent
  <2>2. box[o] # <<>> => Len(box[o]) \in DOMAIN box[o]
    BY <2>1
  <2> QED
    BY <1>5, <2>1, <2>2 DEF StoppedAt
<1>7. ASSUME ~node[o].stopped PROVE FALSE
  <2>1. /\ Size(o) = node[o].count /\ Bounds(o) = node[o].bounds
        /\ Served(Sure(o), box[o], Size(o), Bounds(o), node[o].maxval)
        /\ Len(node[o].bounds) = node[o].count /\ Size(o) >= 1
        /\ ~IsFinal(node[o].maxval, node[o].bounds)
    BY <1>1, <1>2, <1>7 DEF Values, Splitting, Size, Bounds
  <2>2. Sure(o) = {} /\ Said(box[o]) = {}
    BY <1>5, <1>6 DEF Sure, Said
  <2>3. PICK n \in Nat, bd \in Seq(Val \cup {-1}), mv \in Val \cup {-1} :
          n = node[o].count /\ bd = node[o].bounds /\ mv = node[o].maxval
    BY <1>2 DEF Types, NodeRec
  <2>4. \A k \in 1 .. n : bd[k] # -1 /\ bd[k] <= mv
    BY <2>1, <2>2, <2>3 DEF Served
  <2>5. DOMAIN bd = 1 .. n /\ 1 \in 1 .. n /\ bd[1] \in Val \cup {-1}
    BY <2>1, <2>3
  <2>6. mv # -1
    BY <2>4, <2>5, Sizes
  <2> QED
    BY <2>1, <2>3, <2>4, <2>5, <2>6 DEF IsFinal
<1> QED
  BY <1>1, <1>2, <1>5, <1>7, EndSilent DEF Keen

LEMMA ForcedStoppedKept ==
  ASSUME Whole, NEW o \in Node, ForcedStopped(o), Types'
  PROVE  Kept
<1>1. node[o].pc = "forcedwait" /\ CanFinish(o) /\ eng' = eng /\ root' = root
  BY DEF ForcedStopped
<1>2. o \in Live /\ o \in Queue /\ Types /\ Tree /\ Values(o) /\ ~raised
  BY <1>1, Sizes, ValuesAre DEF Live, Whole
<1>3. Load(o) = 1 /\ Reported(o)
  BY <1>1, <1>2 DEF Tree, Stages, Stage, Waiting
<1>4. Busy(o) = {} /\ Kin(o) = {} /\ ~Unexpected(o)
  BY <1>1, <1>2, <1>3, LastEnd, NotUnexpected
<1>5. CASE node[o].stopped
  <2>1. EndWith(o, <<Stopped>>) /\ raised' = Unexpected(o)
    BY <1>5 DEF ForcedStopped
  <2> QED
    BY <1>1, <1>2, <1>4, <1>5, <2>1, EndSilent DEF Keen
<1>6. CASE ~node[o].stopped
  <2>1. ExactLast(box[o]) /\ Over(o)
    BY <1>1, <1>2, <1>4, <1>6 DEF Values, Waiting, Single, Hopes
  <2>2. PICK b \in Seq(MsgRec) : b = box[o]
    BY <1>2, LiveTypes
  <2>3. PICK i \in 1 .. Len(b) : b[i].type = "exact"
    BY <2>1, <2>2 DEF ExactLast, Said
  <2>4. Len(b) \in Nat /\ b # <<>> /\ b[Len(b)].type = "stopped" /\ Len(b) # i
    BY <1>4, <2>1, <2>2, <2>3 DEF Over, Silent
  <2>5. Cardinality(StoppedAt(o)) = 1 /\ IsFiniteSet(StoppedAt(o)) /\ Len(b) \in StoppedAt(o)
    <3>1. Len(b) \in DOMAIN box[o]
      BY <2>2, <2>4
    <3> QED
      BY <1>1, <1>2, <1>3, <2>2, <2>4, <3>1, LastEnd, LoadType DEF StoppedAt
  <2>6. FirstStopped(o) = Len(b)
    <3>1. \A x \in StoppedAt(o) : x = Len(b)
      BY <2>5, FS_Singleton
    <3> QED
      BY <1>1, <1>2, <3>1, FirstIsFirst
  <2>7. WaitStopped(o) # <<>> /\ WaitStopped(o) \in Seq(MsgRec)
    <3>1. FirstStopped(o) # 1
      BY <2>3, <2>4, <2>6
    <3>2. /\ WaitStopped(o) \in Seq(MsgRec)
          /\ WaitStopped(o) = <<box[o][FirstStopped(o) - 1]>>
      BY <1>1, <1>2, <3>1, FirstIsFirst, Zenon
    <3>3. PICK y : WaitStopped(o) = <<y>>
      BY <3>2
    <3> QED
      BY <3>2, <3>3
  <2>8. PICK v \in Val : v = Top - Head(WaitStopped(o)).val
    <3>1. Head(WaitStopped(o)) \in MsgRec
      BY <2>7
    <3>2. Head(WaitStopped(o)).val \in Val
      BY <3>1 DEF MsgRec
    <3> QED
      BY <3>2, Sizes
  <2>9. PICK x \in MsgRec : x = Report(o, "exact", v) /\ x.type = "exact"
    BY <1>2, ReportsAre, Zenon
  <2>10. EndWith(o, <<x, Stopped>>) /\ raised' = Unexpected(o)
    BY <1>6, <2>7, <2>8, <2>9 DEF ForcedStopped
  <2>11. x.pos = node[o].pos /\ ~x.own
    BY <2>9, ReportSays
  <2> QED
    BY <1>1, <1>2, <1>4, <2>9, <2>10, <2>11, EndExact
<1> QED
  BY <1>5, <1>6

-----------------------------------------------------------------------------
(* A report is collected.                                                  *)
LEMMA NotedIs ==
  ASSUME NEW M \in NodeRec, NEW m \in MsgRec
  PROVE  /\ Noted(M, m).pos = M.pos /\ Noted(M, m).kids = M.kids
         /\ Noted(M, m).stopped = M.stopped
         /\ Noted(M, m).bounds = Read(M.bounds, M.count, m)
         /\ Noted(M, m).maxval = Best(M.maxval, m)
<1>1. PICK v : v = ValueAt(m)
  OBVIOUS
<1>2. PICK w : w = IF m.type = "exact" /\ M.maxval < v THEN v ELSE M.maxval
  OBVIOUS
<1>3. PICK bs : bs = [M.bounds EXCEPT ![Searcher(M, m)] = v]
  OBVIOUS
<1>4. Noted(M, m) = [M EXCEPT !.bounds = bs, !.maxval = w]
  BY <1>1, <1>2, <1>3 DEF Noted
<1>5. w = Best(M.maxval, m)
  BY <1>1, <1>2 DEF Best
<1>6. bs = Read(M.bounds, M.count, m)
  BY <1>1, <1>3 DEF Read, Searcher, MsgKey, KeyOf
<1> QED
  BY <1>4, <1>5, <1>6 DEF NodeRec

\* What o knows of its searchers once it has read the report at the head of its queue.
LEMMA ReportRead ==
  ASSUME Whole, NEW o \in Live, node[o].pc = "collect", box[o] # <<>>,
         Head(box[o]).type # "stopped",
         NEW A, A = Noted(node[o], Head(box[o])),
         NEW n, n = node[o].count, NEW mv, mv = node[o].maxval
  PROVE  /\ n \in Nat /\ n >= 1 /\ Len(A.bounds) = n
         /\ Seated(Voices(o), Tail(box[o]), n)
         /\ Falls(Voices(o), Tail(box[o]), n, A.bounds)
         /\ node[o].stopped \/ Served(Sure(o), Tail(box[o]), n, A.bounds, A.maxval)
         /\ mv \in Int /\ A.maxval \in Int /\ mv <= A.maxval /\ mv \in Val \cup {-1}
         /\ A.maxval \in Val \cup {-1} /\ mv >= -1
         /\ IsFinal(mv, node[o].bounds) => A.maxval = mv /\ IsFinal(A.maxval, A.bounds)
<1>1. PICK M \in NodeRec, b \in Seq(MsgRec) : M = node[o] /\ b = box[o]
  BY LiveTypes DEF Whole, Types
<1>2. PICK m \in MsgRec : m = Head(b) /\ b # <<>>
  BY <1>1
<1>3. /\ A.bounds = Read(M.bounds, n, m) /\ A.maxval = Best(mv, m)
  BY <1>1, <1>2, NotedIs
<1>4. Values(o) /\ Size(o) = n /\ Bounds(o) = M.bounds
  BY <1>1, ValuesAre DEF Size, Bounds
<1>5. PICK V, K, bd : V = Voices(o) /\ K = Sure(o) /\ bd = M.bounds
  OBVIOUS
<1>6. /\ n \in Nat /\ n >= 1 /\ bd \in [1 .. n -> Val \cup {-1}] /\ mv \in Val \cup {-1}
      /\ Len(bd) = n
  BY <1>1, <1>4, <1>5, BoundsType DEF Whole, Values
<1>7. \A t \in V : t.top \in Int
  BY <1>5, VoiceTypes DEF Whole
<1>8. /\ Seated(V, b, n) /\ Falls(V, b, n, bd)
      /\ M.stopped \/ Served(K, b, n, bd, mv)
  BY <1>1, <1>4, <1>5 DEF Values, Splitting
<1>9. m.type # "stopped"
  BY <1>1, <1>2
<1>10. /\ Seated(V, Tail(b), n) /\ MsgKey(n, m) \in 1 .. n
       /\ Read(bd, n, m) \in [1 .. n -> Val \cup {-1}] /\ Falls(V, Tail(b), n, Read(bd, n, m))
       /\ bd[MsgKey(n, m)] # -1 => ValueAt(m) <= bd[MsgKey(n, m)]
  BY <1>2, <1>6, <1>7, <1>8, <1>9, FallsRead
<1>11. M.stopped \/ Served(K, Tail(b), n, Read(bd, n, m), Best(mv, m))
  BY <1>2, <1>6, <1>7, <1>8, <1>9, ServedRead
<1>12. ValueAt(m) \in Val /\ ValueAt(m) \in Int /\ ValueAt(m) # -1
  <2>1. ValueAt(m) \in Val
    BY ValueType
  <2> QED
    BY <2>1, Sizes
<1>13. /\ mv \in Int /\ mv >= -1 /\ Best(mv, m) \in Int /\ mv <= Best(mv, m)
       /\ Best(mv, m) \in Val \cup {-1}
  BY <1>6, <1>12, Sizes DEF Best
<1>14. ASSUME IsFinal(mv, bd)
       PROVE  Best(mv, m) = mv /\ IsFinal(Best(mv, m), Read(bd, n, m))
  <2>1. DOMAIN bd = 1 .. n /\ mv # -1 /\ \A i \in 1 .. n : bd[i] # -1 /\ bd[i] <= mv
    BY <1>6, <1>14 DEF IsFinal
  <2>2. ValueAt(m) <= mv
    <3>1. bd[MsgKey(n, m)] # -1 /\ bd[MsgKey(n, m)] <= mv /\ bd[MsgKey(n, m)] \in Val \cup {-1}
      BY <1>6, <1>10, <2>1
    <3>2. bd[MsgKey(n, m)] \in Int
      BY <3>1, Sizes
    <3> QED
      BY <1>10, <1>12, <1>13, <3>1, <3>2
  <2>3. Best(mv, m) = mv
    BY <1>12, <1>13, <2>2 DEF Best
  <2>4. \A i \in 1 .. n : Read(bd, n, m)[i] # -1 /\ Read(bd, n, m)[i] <= mv
    BY <1>6, <1>10, <1>12, <2>1, <2>2 DEF Read
  <2>5. DOMAIN Read(bd, n, m) = 1 .. n
    BY <1>6 DEF Read
  <2> QED
    BY <2>1, <2>3, <2>4, <2>5 DEF IsFinal
<1>15. Len(Read(bd, n, m)) = n
  BY <1>6, <1>10
<1> QED
  BY <1>1, <1>3, <1>5, <1>6, <1>10, <1>11, <1>13, <1>14, <1>15

\* A stop leaves the objects where they are.
LEMMA StoppedAs ==
  ASSUME NEW n \in [Node -> NodeRec], NEW S
  PROVE  \A p \in Node :
           LET r == StopNodes(n, S)[p]
           IN  /\ r.pos = n[p].pos /\ r.bounds = n[p].bounds /\ r.maxval = n[p].maxval
               /\ r.kids \subseteq n[p].kids /\ (n[p].stopped => r.stopped)
               /\ p \in Reach(n, S) => r.stopped
               /\ p \notin Reach(n, S) => r = n[p]
<1> SUFFICES ASSUME NEW p \in Node, NEW r, r = StopNodes(n, S)[p]
             PROVE  /\ r.pos = n[p].pos /\ r.bounds = n[p].bounds /\ r.maxval = n[p].maxval
                    /\ r.kids \subseteq n[p].kids /\ (n[p].stopped => r.stopped)
                    /\ p \in Reach(n, S) => r.stopped
                    /\ p \notin Reach(n, S) => r = n[p]
  BY Zenon
<1>1. PICK M \in NodeRec : M = n[p]
  OBVIOUS
<1>2. CASE p \in Reach(n, S)
  <2>1. r = [M EXCEPT !.stopped = TRUE, !.stubs = {}, !.kids = {}]
    BY <1>1, <1>2 DEF StopNodes
  <2>2. /\ r.pos = M.pos /\ r.bounds = M.bounds /\ r.maxval = M.maxval /\ r.kids = {}
        /\ r.stopped
    BY <2>1 DEF NodeRec
  <2> QED
    BY <1>1, <1>2, <2>2
<1>3. CASE p \notin Reach(n, S)
  BY <1>3 DEF StopNodes
<1> QED
  BY <1>2, <1>3

\* n is node, but for the values of the objects B.
Mirrors(n, B) ==
  /\ n \in [Node -> NodeRec]
  /\ \A p \in Node : /\ n[p].kids = node[p].kids /\ n[p].pc = node[p].pc
                     /\ n[p].pos = node[p].pos /\ n[p].sink = node[p].sink
                     /\ n[p].count = node[p].count /\ n[p].stopped = node[p].stopped
                     /\ p \notin B => n[p] = node[p]

\* The objects below a are stopped: each was told so by its client.
Halts(a, n, B) ==
  /\ Live' = Live /\ \A q : Kin(q)' = Kin(q)
  /\ \A p \in Node \ B : Still(p)
  /\ \A p \in Node : /\ node'[p].kids \subseteq node[p].kids /\ node'[p].sink = node[p].sink
                     /\ node'[p].pc = node[p].pc /\ node'[p].pos = node[p].pos
                     /\ node'[p].count = node[p].count
                     /\ node'[p].bounds = n[p].bounds /\ node'[p].maxval = n[p].maxval
  /\ node'[a].stopped
  /\ \A q : Excused(q, Kin(q) \ {a})

LEMMA StopSpreads ==
  ASSUME Types, Tree, KidsOwn, NEW a \in Reached, NEW n, NEW B, Mirrors(n, B),
         node' = StopNodes(n, {a}), ~StopsBetween
  PROVE  Halts(a, n, B)
<1>0. /\ a \in Node /\ n \in [Node -> NodeRec]
      /\ \A p \in Node : /\ n[p].kids = node[p].kids /\ n[p].pc = node[p].pc
                         /\ n[p].pos = node[p].pos /\ n[p].sink = node[p].sink
                         /\ n[p].count = node[p].count /\ n[p].stopped = node[p].stopped
                         /\ p \notin B => n[p] = node[p]
  BY ReachedIs DEF Mirrors
<1>1. Reach(n, {a}) = Reach(node, {a})
  BY <1>0 DEF Reach
<1>2. \A p \in Node : /\ node'[p].pc = node[p].pc /\ node'[p].sink = node[p].sink
                      /\ node'[p].count = node[p].count
                      /\ p \notin Reach(node, {a}) => node'[p] = n[p]
  BY <1>0, <1>1, StoppedNodes
<1>3. \A p \in Node : /\ node'[p].pos = node[p].pos /\ node'[p].kids \subseteq node[p].kids
                      /\ node'[p].bounds = n[p].bounds /\ node'[p].maxval = n[p].maxval
                      /\ node[p].stopped => node'[p].stopped
                      /\ p \in Reach(node, {a}) => node'[p].stopped
  BY <1>0, <1>1, StoppedAs
<1>4. \A p \in Node : node[p].pc = "count" => node'[p] = node[p]
  BY <1>2, Zenon DEF StopsBetween
<1>5. Live' = Live /\ \A q : Kin(q)' = Kin(q)
  BY <1>2 DEF Live, Kin
<1>6. ASSUME NEW p \in Node \ B PROVE Still(p)
  <2>1. n[p] = node[p]
    BY <1>0
  <2>2. node[p].pc = "count" => node'[p] = node[p]
    BY <1>4
  <2>3. /\ node'[p].bounds = node[p].bounds /\ node'[p].maxval = node[p].maxval
    BY <1>3, <2>1
  <2> QED
    BY <1>2, <1>3, <2>2, <2>3 DEF Still
<1>7. a \in Reach(node, {a})
  BY <1>0 DEF Reach
<1>8. ASSUME NEW q, NEW c \in Kin(q) \ {a}, node'[c].stopped, ~node[c].stopped
      PROVE  q \in Live /\ node'[q].stopped
  <2>1. c \in Live /\ c \in Node /\ c # a /\ node[c].sink = q
    BY <1>8 DEF Kin, Live
  <2>2. c \in Reach(node, {a})
    <3>1. CASE c \notin Reach(node, {a})
      <4>1. node'[c] = n[c]
        BY <1>2, <2>1, <3>1
      <4>2. node'[c].stopped = node[c].stopped
        BY <1>0, <2>1, <4>1
      <4> QED
        BY <1>8, <4>2
    <3> QED
      BY <3>1
  <2>3. q \in Live /\ q \in Reach(node, {a})
    BY <2>1, <2>2, StopFromAbove
  <2> QED
    BY <1>3, <2>3 DEF Live
<1> QED
  BY <1>0, <1>2, <1>3, <1>5, <1>6, <1>7, <1>8 DEF Excused, Halts

\* What a value that is told says of the values that are to come.
LEMMA ValueTold ==
  ASSUME Types, NEW o \in Node, node[o].pc = "collect", node'[o].pc = "collect",
         NEW mv \in Int, mv = node[o].maxval, NEW w \in Int, w = node'[o].maxval,
         -1 <= mv, mv <= w,
         NEW ms, Said(ms) = {} \/ (Said(ms) = {1} /\ w # -1 /\ ValueAt(ms[1]) = Top - w)
  PROVE  /\ Ceiling(o)' <= Ceiling(o)
         /\ \A i \in Said(ms) : Ceiling(o)' <= ValueAt(ms[i]) /\ ValueAt(ms[i]) <= Ceiling(o)
<1>1. /\ Ceiling(o) = IF mv = -1 THEN Top + 1 ELSE Top - mv
      /\ Ceiling(o)' = IF w = -1 THEN Top + 1 ELSE Top - w
  BY DEF Ceiling
<1>2. /\ (IF w = -1 THEN Top + 1 ELSE Top - w) <= (IF mv = -1 THEN Top + 1 ELSE Top - mv)
      /\ w # -1 => Top - w <= (IF mv = -1 THEN Top + 1 ELSE Top - mv) /\ Top - w <= Top - w
  BY Sizes
<1> QED
  BY <1>1, <1>2

\* No final value yet: at most an update is told.
LEMMA CollectOnKept ==
  ASSUME Whole, NEW o \in Node, Types', node[o].pc = "collect", box[o] # <<>>,
         Head(box[o]).type # "stopped",
         NEW A, A = Noted(node[o], Head(box[o])), ~IsFinal(A.maxval, A.bounds),
         node' = [node EXCEPT ![o] = A], eng' = eng,
         box' = [(IF A.maxval > node[o].maxval
                  THEN Push(box, o, <<Report(o, "update", A.maxval)>>) ELSE box)
                   EXCEPT ![o] = Tail(@)],
         raised' = raised, root' = root
  PROVE  Kept
<1>1. o \in Live /\ Types /\ Tree /\ ~raised' /\ Values(o) /\ o \in Queue
  BY ValuesAre, Sizes DEF Live, Whole
<1>2. /\ box[o] \in Seq(MsgRec) /\ Head(box[o]) \in MsgRec /\ box \in [Queue -> Seq(MsgRec)]
      /\ Tail(box[o]) \in Seq(MsgRec)
  BY <1>1, LiveTypes, StopsTaken DEF Types
<1>3. PICK M \in NodeRec, m \in MsgRec : M = node[o] /\ m = Head(box[o])
  BY <1>1, <1>2 DEF Types
<1>4. /\ A.pc = M.pc /\ A.sink = M.sink /\ A.count = M.count
      /\ A.pos = M.pos /\ A.kids = M.kids /\ A.stopped = M.stopped
  BY <1>3, NotedType, NotedIs
<1>5. PICK b \in Seq(MsgRec) : b = Tail(box[o])
  BY <1>2
<1>6. PICK n, mv : n = M.count /\ mv = M.maxval
  OBVIOUS
<1>7. /\ n \in Nat /\ n >= 1 /\ Len(A.bounds) = n
      /\ Seated(Voices(o), b, n) /\ Falls(Voices(o), b, n, A.bounds)
      /\ node[o].stopped \/ Served(Sure(o), b, n, A.bounds, A.maxval)
      /\ mv \in Int /\ A.maxval \in Int /\ mv <= A.maxval /\ mv \in Val \cup {-1}
      /\ A.maxval \in Val \cup {-1} /\ mv >= -1
      /\ ~IsFinal(mv, node[o].bounds)
  BY <1>1, <1>3, <1>5, <1>6, ReportRead
<1>8. A.pc \notin Idle /\ node[o].sink # o /\ node[o].sink \in Queue
  BY <1>1, <1>3, <1>4, SinkApart DEF Idle, Tree
<1>9. /\ node'[o] = A /\ Kin(o)' = Kin(o) /\ Busy(o)' = Busy(o) /\ SameJobs(o) /\ MayUse(o)
      /\ \A c \in Kin(o) : Still(c) /\ node'[c] = node[c]
  BY <1>1, <1>3, <1>4, <1>8, LoopOn
<1>10. PICK ms \in Seq(MsgRec) :
         /\ Mails(o, ms) /\ box'[o] = b /\ Stops(ms) = {}
         /\ \/ Said(ms) = {}
            \/ /\ Said(ms) = {1} /\ A.maxval # -1 /\ ValueAt(ms[1]) = Top - A.maxval
               /\ ms[1].pos = node[o].pos /\ ~ms[1].own
  <2>1. CASE A.maxval > M.maxval
    <3>1. A.maxval \in Val /\ A.maxval # -1
      BY <1>6, <1>7, <2>1
    <3>2. PICK x \in MsgRec : x = Report(o, "update", A.maxval) /\ x.type = "update"
      BY <1>1, <3>1, ReportsAre, Zenon
    <3>3. PICK ms \in Seq(MsgRec) : ms = <<x>> /\ Said(ms) = {1} /\ ms[1] = x /\ Stops(ms) = {}
      <4>1. x.type # "stopped"
        BY <3>2
      <4> QED
        BY <4>1, SaidOne, Zenon
    <3>4. x.pos = node[o].pos /\ ~x.own /\ ValueAt(x) = Top - A.maxval
      BY <3>2, ReportSays
    <3>5. box' = [Push(box, o, ms) EXCEPT ![o] = b]
      <4>1. Push(box, o, ms)[o] = box[o]
        BY <1>1, <1>2, <1>8 DEF Push
      <4>2. box' = [Push(box, o, ms) EXCEPT ![o] = Tail(Push(box, o, ms)[o])]
        BY <1>3, <2>1, <3>2, <3>3
      <4> QED
        BY <1>5, <4>1, <4>2
    <3>6. Mails(o, ms) /\ box'[o] = b
      BY <1>1, <3>5, Pushed DEF Tree
    <3>7. /\ Stops(ms) = {} /\ Said(ms) = {1} /\ ValueAt(ms[1]) = Top - A.maxval
          /\ ms[1].pos = node[o].pos /\ ~ms[1].own
      BY <3>3, <3>4, Zenon
    <3> QED
      BY <3>1, <3>6, <3>7, Zenon
  <2>2. CASE ~(A.maxval > M.maxval)
    <3>1. box' = [box EXCEPT ![o] = b]
      BY <1>1, <1>2, <1>3, <1>5, <2>2
    <3>2. Said(<<>>) = {} /\ Stops(<<>>) = {} /\ <<>> \in Seq(MsgRec)
      BY NothingSaid DEF Stops
    <3> QED
      BY <1>1, <3>1, <3>2, NotPushed DEF Tree
  <2> QED
    BY <2>1, <2>2
<1>11. /\ Ceiling(o)' <= Ceiling(o)
       /\ \A i \in Said(ms) : Ceiling(o)' <= ValueAt(ms[i]) /\ ValueAt(ms[i]) <= Ceiling(o)
  BY <1>1, <1>3, <1>4, <1>6, <1>7, <1>9, <1>10, ValueTold
<1>12. ~Calm(o) /\ (Keen(o) => Keen(o)')
  BY <1>3, <1>4, <1>6, <1>7, <1>9 DEF Calm, Keen
<1>13. Utters(o, ms) /\ GoesOn(o, ms)
  BY <1>3, <1>4, <1>9, <1>10, <1>11, <1>12 DEF Utters, GoesOn
<1>14. Splitting(o)'
  <2>1. Size(o) = n /\ Size(o)' = n /\ Bounds(o)' = A.bounds
    BY <1>3, <1>4, <1>6, <1>9 DEF Size, Bounds
  <2>2. Voices(o)' = Voices(o) /\ Sure(o)' = Sure(o)
    BY <1>9, <2>1, VoicesStill
  <2>3. PICK V, K, bd, mw : V = Voices(o) /\ K = Sure(o) /\ bd = A.bounds /\ mw = A.maxval
    OBVIOUS
  <2>4. /\ Seated(V, b, n) /\ Falls(V, b, n, bd)
        /\ node'[o].stopped \/ Served(K, b, n, bd, mw)
    BY <1>3, <1>4, <1>7, <1>9, <2>3
  <2>5. Size(o)' = n /\ Bounds(o)' = bd /\ Voices(o)' = V /\ Sure(o)' = K /\ box'[o] = b
        /\ node'[o].maxval = mw
    BY <1>9, <1>10, <2>1, <2>2, <2>3
  <2> QED
    BY <1>7, <2>4, <2>5, SplittingLater
<1>15. Values(o)'
  <2>1. Over(o)'
    BY <1>1, <1>2, <1>5, <1>9, <1>10, OverTaken DEF Values, Waiting
  <2>2. node'[o].pc = "collect" /\ ~IsFinal(node'[o].maxval, node'[o].bounds)
        /\ Len(node'[o].bounds) = node'[o].count
    BY <1>3, <1>4, <1>6, <1>7, <1>9
  <2> QED
    BY <1>14, <2>1, <2>2 DEF Values, IsFinal
<1>16. A.kids \subseteq node[o].kids /\ A.sink = node[o].sink
  BY <1>3, <1>4
<1> QED
  BY <1>1, <1>8, <1>9, <1>10, <1>13, <1>15, <1>16, StaysKept

\* A final value: the object tells it as exact, and stops itself and those it waits for.
LEMMA CollectFinalKept ==
  ASSUME Whole, ~StopsBetween, NEW o \in Node, Types', node[o].pc = "collect", box[o] # <<>>,
         Head(box[o]).type # "stopped",
         NEW A, A = Noted(node[o], Head(box[o])), IsFinal(A.maxval, A.bounds),
         NEW noted, noted = [node EXCEPT ![o] = A],
         box' = [Push(box, o, <<Report(o, "exact", A.maxval)>>) EXCEPT ![o] = Tail(@)],
         node' = StopNodes(noted, {o}), eng' = StopStubs(eng, StubsOf(noted, {o})),
         raised' = raised, root' = root
  PROVE  Kept
<1>1. o \in Live /\ Types /\ Tree /\ KidsOwn /\ ~raised' /\ Values(o) /\ o \in Queue
      /\ AllValues /\ o \in Reached
  BY ValuesAre, Sizes, ReachedIs DEF Live, Whole
<1>2. /\ box[o] \in Seq(MsgRec) /\ Head(box[o]) \in MsgRec /\ box \in [Queue -> Seq(MsgRec)]
      /\ Tail(box[o]) \in Seq(MsgRec)
  BY <1>1, LiveTypes, StopsTaken DEF Types
<1>3. PICK M \in NodeRec, m \in MsgRec : M = node[o] /\ m = Head(box[o])
  BY <1>1, <1>2 DEF Types
<1>4. /\ A \in NodeRec /\ A.pc = M.pc /\ A.sink = M.sink /\ A.count = M.count
      /\ A.pos = M.pos /\ A.kids = M.kids /\ A.stopped = M.stopped
  BY <1>3, NotedType, NotedIs
<1>5. PICK b \in Seq(MsgRec) : b = Tail(box[o])
  BY <1>2
<1>6. PICK n, mv : n = M.count /\ mv = M.maxval
  OBVIOUS
<1>7. /\ n \in Nat /\ n >= 1 /\ Len(A.bounds) = n
      /\ Seated(Voices(o), b, n) /\ Falls(Voices(o), b, n, A.bounds)
      /\ mv \in Int /\ A.maxval \in Int /\ mv <= A.maxval /\ mv \in Val \cup {-1}
      /\ A.maxval \in Val \cup {-1} /\ mv >= -1
  BY <1>1, <1>3, <1>5, <1>6, ReportRead
<1>8. node[o].sink # o /\ node[o].sink \in Queue
  BY <1>1, SinkApart DEF Tree
<1>9. /\ noted \in [Node -> NodeRec] /\ noted[o] = A /\ \A p \in Node \ {o} : noted[p] = node[p]
  BY <1>1, <1>4 DEF Types
<1>10. Mirrors(noted, {o})
  <2>1. \A p \in Node : /\ noted[p].kids = node[p].kids /\ noted[p].pc = node[p].pc
                        /\ noted[p].pos = node[p].pos /\ noted[p].sink = node[p].sink
                        /\ noted[p].count = node[p].count /\ noted[p].stopped = node[p].stopped
    <3> SUFFICES ASSUME NEW p \in Node
                 PROVE  /\ noted[p].kids = node[p].kids /\ noted[p].pc = node[p].pc
                        /\ noted[p].pos = node[p].pos /\ noted[p].sink = node[p].sink
                        /\ noted[p].count = node[p].count /\ noted[p].stopped = node[p].stopped
      OBVIOUS
    <3>1. CASE p = o
      BY <1>3, <1>4, <1>9, <3>1
    <3>2. CASE p # o
      BY <1>9, <3>2
    <3> QED
      BY <3>1, <3>2
  <2> QED
    BY <1>9, <2>1 DEF Mirrors
<1>11. Halts(o, noted, {o})
  BY <1>1, <1>10, StopSpreads
<1>12. /\ node'[o].pc = "collect" /\ node'[o].bounds = A.bounds /\ node'[o].maxval = A.maxval
       /\ node'[o].count = n /\ node'[o].pos = node[o].pos
  <2>1. /\ node'[o].pc = node[o].pc /\ node'[o].pos = node[o].pos
        /\ node'[o].count = node[o].count
        /\ node'[o].bounds = noted[o].bounds /\ node'[o].maxval = noted[o].maxval
    BY <1>11, Zenon DEF Halts
  <2> QED
    BY <1>3, <1>6, <1>9, <2>1
<1>13. \A q : SameJobs(q)
  <2>1. \A e \in Engine : AlikeStub(e)
    BY <1>1, StoppedStubs
  <2> QED
    BY <2>1 DEF SameJobs, Busy, Open, AlikeStub
<1>14. PICK ms \in Seq(MsgRec) :
         /\ Mails(o, ms) /\ box'[o] = b /\ Stops(ms) = {}
         /\ Said(ms) = {1} /\ ValueAt(ms[1]) = Top - A.maxval
         /\ ms[1].pos = node[o].pos /\ ~ms[1].own /\ ms[1].type = "exact" /\ A.maxval # -1
  <2>1. A.maxval \in Val /\ A.maxval # -1
    BY <1>7 DEF IsFinal
  <2>2. PICK x \in MsgRec : x = Report(o, "exact", A.maxval) /\ x.type = "exact"
    BY <1>1, <2>1, ReportsAre, Zenon
  <2>3. PICK ms \in Seq(MsgRec) : ms = <<x>> /\ Said(ms) = {1} /\ ms[1] = x /\ Stops(ms) = {}
    <3>1. x.type # "stopped"
      BY <2>2
    <3> QED
      BY <3>1, SaidOne, Zenon
  <2>4. x.pos = node[o].pos /\ ~x.own /\ ValueAt(x) = Top - A.maxval
    BY <2>2, ReportSays
  <2>5. box' = [Push(box, o, ms) EXCEPT ![o] = b]
    <3>1. Push(box, o, ms)[o] = box[o]
      BY <1>1, <1>2, <1>8 DEF Push
    <3>2. box' = [Push(box, o, ms) EXCEPT ![o] = Tail(Push(box, o, ms)[o])]
      BY <1>3, <2>2, <2>3, Zenon
    <3> QED
      BY <1>5, <3>1, <3>2
  <2>6. Mails(o, ms) /\ box'[o] = b
    BY <1>1, <2>5, Pushed DEF Tree
  <2>7. /\ Stops(ms) = {} /\ Said(ms) = {1} /\ ValueAt(ms[1]) = Top - A.maxval
        /\ ms[1].pos = node[o].pos /\ ~ms[1].own /\ ms[1].type = "exact"
    BY <2>2, <2>3, <2>4, Zenon
  <2> QED
    BY <2>1, <2>6, <2>7, Zenon
<1>15. /\ Ceiling(o)' <= Ceiling(o)
       /\ \A i \in Said(ms) : Ceiling(o)' <= ValueAt(ms[i]) /\ ValueAt(ms[i]) <= Ceiling(o)
  BY <1>1, <1>3, <1>6, <1>7, <1>12, <1>14, ValueTold
<1>16. Calm(o)' /\ Exactly(ms)
  BY <1>12, <1>14 DEF Calm, IsFinal, Exactly
<1>17. Utters(o, ms) /\ GoesOn(o, ms)
  BY <1>12, <1>14, <1>15, <1>16 DEF Utters, GoesOn
<1>18. (\A p \in Live \ {o} : Values(p)') /\ \A q \in External : Follows(q)
  <2>1. PICK s : s = node[o].sink
    OBVIOUS
  <2>2. Shows(s, o, ms)
    BY <1>11, <1>13, <1>17 DEF Shows, SameJobs, Halts
  <2>3. Acts(o, s, ms)
    BY <1>1, <1>11, <1>13, <1>14, <1>17, <2>1, <2>2, MailsPosts DEF Acts, SameJobs, Live, Halts
  <2> QED
    BY <1>1, <2>3, ActsKept
<1>19. Splitting(o)'
  <2>1. Size(o) = n /\ Size(o)' = n /\ Bounds(o)' = A.bounds
    BY <1>3, <1>6, <1>12 DEF Size, Bounds
  <2>2. Voices(o)' = Voices(o)
    <3>1. \A c \in Kin(o) : Still(c)
      BY SMTT(90), <1>1, <1>11, SinkApart DEF Kin, Live, Tree, Halts
    <3> QED
      BY <1>11, <1>13, <2>1, <3>1, VoicesStill DEF Halts
  <2>3. PICK V, K, bd, mw : V = Voices(o) /\ K = Sure(o)' /\ bd = A.bounds /\ mw = A.maxval
    OBVIOUS
  <2>4. /\ Seated(V, b, n) /\ Falls(V, b, n, bd)
        /\ node'[o].stopped \/ Served(K, b, n, bd, mw)
    BY <1>7, <1>11, <2>3 DEF Halts
  <2>5. Size(o)' = n /\ Bounds(o)' = bd /\ Voices(o)' = V /\ Sure(o)' = K /\ box'[o] = b
        /\ node'[o].maxval = mw
    BY <1>12, <1>14, <2>1, <2>2, <2>3
  <2> QED
    BY <1>7, <2>4, <2>5, SplittingLater
<1>20. Values(o)'
  <2>1. Over(o)'
    BY <1>1, <1>2, <1>5, <1>11, <1>13, <1>14, OverTaken DEF Values, Waiting, SameJobs, Halts
  <2>2. Len(node'[o].bounds) = node'[o].count
    BY <1>7, <1>12
  <2> QED
    BY <1>11, <1>12, <1>19, <2>1, <2>2 DEF Values, Halts
<1>21. KidsOwn'
  <2>1. /\ \A x \in Reached : node'[x].kids \subseteq node[x].kids
        /\ \A c \in Live' : node'[c].sink = node[c].sink
        /\ Live' \subseteq Live /\ root' \in {root, 0}
    BY <1>1, <1>11, ReachedIs DEF Live, Halts
  <2> HIDE DEF Live, Reached, KidsOwn, Types
  <2> QED
    BY <1>1, <2>1, KidsShrunk
<1>22. SinksStay
  BY <1>11 DEF SinksStay, Halts, Live
<1> QED
  BY <1>1, <1>11, <1>18, <1>20, <1>21, <1>22 DEF Kept, AllValues, Halts

LEMMA CollectKept ==
  ASSUME Whole, ~StopsBetween, NEW o \in Node, Collect(o), Types'
  PROVE  Kept
<1>1. /\ node[o].pc = "collect" /\ box[o] # <<>> /\ Head(box[o]).type # "stopped"
      /\ raised' = raised /\ root' = root
  BY DEF Collect
<1>2. PICK A : A = Noted(node[o], Head(box[o]))
  OBVIOUS
<1>3. PICK noted : noted = [node EXCEPT ![o] = A]
  OBVIOUS
<1>4. CASE IsFinal(A.maxval, A.bounds)
  <2>1. /\ box' = [Push(box, o, <<Report(o, "exact", A.maxval)>>) EXCEPT ![o] = Tail(@)]
        /\ node' = StopNodes(noted, {o}) /\ eng' = StopStubs(eng, StubsOf(noted, {o}))
    BY <1>2, <1>3, <1>4 DEF Collect
  <2> QED
    BY <1>1, <1>2, <1>3, <1>4, <2>1, CollectFinalKept
<1>5. CASE ~IsFinal(A.maxval, A.bounds)
  <2>1. /\ box' = [(IF A.maxval > node[o].maxval
                    THEN Push(box, o, <<Report(o, "update", A.maxval)>>) ELSE box)
                     EXCEPT ![o] = Tail(@)]
        /\ node' = [node EXCEPT ![o] = A] /\ eng' = eng
    BY <1>2, <1>5 DEF Collect
  <2> QED
    BY <1>1, <1>2, <1>5, <2>1, CollectOnKept
<1> QED
  BY <1>4, <1>5

-----------------------------------------------------------------------------
(* New objects.                                                            *)
LEMMA UnusedApart ==
  ASSUME Types
  PROVE  Unused \cap Reached = {} /\ Unused \subseteq Node /\ Unused \cap Live = {}
BY UnusedIs DEF Unused, InUse, Reached

\* A thread makes objects for the stubs of its team.
Begets(o, F) ==
  /\ F \subseteq Unused /\ MayUse(o)
  /\ \A p \in Node \ (F \cup {o}) : node'[p] = node[p]
  /\ node'[o].pc \in Waiting /\ node'[o].sink = node[o].sink /\ node'[o].pos = node[o].pos
  /\ node'[o].stopped = node[o].stopped /\ node'[o].maxval = -1 /\ node'[o].kids \subseteq F
  /\ \A c \in F : /\ node'[c].pc \in {"presearch", "timeless", "leaf"} /\ node'[c].sink = o
                  /\ node'[c].maxval = -1 /\ node'[c].kids = {}
  /\ \A q \in Queue \ F : box'[q] = box[q]
  /\ root' = root

LEMMA BegetsLive ==
  ASSUME Types, Tree, NEW o \in Live, NEW F, Begets(o, F), node[o].pc \notin Waiting
  PROVE  /\ Live' \subseteq Live \cup F /\ Live \subseteq Live' /\ F \cap Reached = {}
         /\ F \subseteq Node /\ F \cap Live = {} /\ o \notin F
         /\ \A q : q # o => Kin(q)' = Kin(q)
         /\ Kin(o) = {} /\ Kin(o)' = {c \in F : node'[c].pc # "leaf"}
<1>1. F \cap Reached = {} /\ F \subseteq Node /\ F \cap Live = {} /\ o \in Node
  BY UnusedApart DEF Begets, Live
<1>2. \A p \in Live : node'[p].pc \notin Idle /\ node'[p].sink = node[p].sink
  <2> SUFFICES ASSUME NEW p \in Live PROVE node'[p].pc \notin Idle /\ node'[p].sink = node[p].sink
    OBVIOUS
  <2>1. CASE p = o
    BY <2>1 DEF Begets, Waiting, Idle
  <2>2. CASE p # o
    <3>1. node'[p] = node[p] /\ node[p].pc \notin Idle
      BY <1>1, <2>2 DEF Begets, Live, Idle
    <3> QED
      BY <3>1
  <2> QED
    BY <2>1, <2>2
<1>3. Live \subseteq Live'
  BY <1>2 DEF Live, Idle
<1>4. ASSUME NEW p \in Live', p \notin F PROVE p \in Live
  <2>1. p \in Node /\ node'[p].pc \notin Idle
    BY <1>4 DEF Live, Idle
  <2>2. CASE p # o
    BY <1>4, <2>1, <2>2 DEF Begets, Live, Idle
  <2> QED
    BY <2>2
<1>5. ASSUME NEW q, q # o PROVE Kin(q)' = Kin(q)
  <2>1. \A p : p \in Kin(q)' <=> p \in Live' /\ node'[p].sink = q
    BY DEF Kin
  <2>2. \A p \in F : node'[p].sink = o
    BY DEF Begets
  <2>3. \A p : p \in Kin(q)' <=> p \in Kin(q)
    BY <1>2, <1>3, <1>4, <1>5, <2>1, <2>2 DEF Kin
  <2> QED
    BY <2>3 DEF Kin
<1>6. Kin(o) = {}
  BY NoKin DEF Tree
<1>7. \A c \in F : c \in Live' <=> node'[c].pc # "leaf"
  BY <1>1 DEF Begets, Live
<1>8. \A p : p \in Kin(o)' <=> p \in F /\ node'[p].pc # "leaf"
  <2>1. \A p : p \in Kin(o)' <=> p \in Live' /\ node'[p].sink = o
    BY DEF Kin
  <2>2. \A p \in F : node'[p].sink = o
    BY DEF Begets
  <2>3. \A p \in Live : node[p].sink # o
    BY <1>6 DEF Kin
  <2> QED
    BY <1>2, <1>4, <1>7, <2>1, <2>2, <2>3
<1>9. Kin(o)' = {c \in F : node'[c].pc # "leaf"}
  BY <1>8 DEF Kin
<1> QED
  BY <1>1, <1>3, <1>4, <1>5, <1>6, <1>9

LEMMA ForkKept ==
  ASSUME Whole, Types', NEW o \in Live, node[o].pc \in {"forced", "split"},
         NEW F, Begets(o, F), Values(o)', ~raised'
  PROVE  Kept
<1>s. PICK s : s = node[o].sink
  OBVIOUS
<1>1. o \in Node /\ s # o /\ s \in Queue /\ node[o].pc \notin Waiting /\ node[o].maxval = -1
      /\ s \in Readers
  BY <1>s, LiveTypes, SinkApart, ValuesAre DEF Whole, Tree, Waiting, Readers
<1>2. /\ Live' \subseteq Live \cup F /\ Live \subseteq Live' /\ F \cap Reached = {}
      /\ F \subseteq Node /\ F \cap Live = {} /\ o \notin F
      /\ \A q : q # o => Kin(q)' = Kin(q)
  BY <1>1, BegetsLive DEF Whole
<1>3. \A p \in Live \ {o} : node'[p] = node[p] /\ Still(p)
  BY <1>2 DEF Begets, Still, Live
<1>4. \A q \in Readers : q \notin F /\ q \in Queue
  BY <1>2, ReadersAre, Sizes DEF Readers, Whole
<1>5. Posts(o, <<>>)
  <2>1. \A q \in Readers : box'[q] = box[q]
    BY <1>4 DEF Begets
  <2>2. PICK b \in Seq(MsgRec) : b = box[s]
    BY <1>1 DEF Whole, Types
  <2>3. box'[s] = box[s] \o <<>>
    BY <1>1, <2>1, <2>2
  <2> QED
    BY <1>s, <2>1, <2>3 DEF Posts
<1>6. \A q : q # o => SameJobs(q)
  BY TeamJobs DEF Begets, Whole
<1>7. Utters(o, <<>>) /\ <<>> \in Seq(MsgRec)
  BY NothingSaid, NewsIs
<1>8. GoesOn(o, <<>>)
  <2>1. Ceiling(o)' = Top + 1 /\ Ceiling(o) = Top + 1 /\ ~Calm(o) /\ (Keen(o) => Keen(o)')
    BY <1>1 DEF Begets, Ceiling, Calm, Keen, Waiting
  <2>2. Stops(<<>>) = {} /\ Top + 1 <= Top + 1
    BY Sizes DEF Stops
  <2> QED
    BY <2>1, <2>2, NothingSaid DEF GoesOn, Begets
<1>9. Acts(o, s, <<>>)
  <2>1. Shows(s, o, <<>>)
    BY <1>1, <1>2, <1>6, <1>8 DEF Shows, SameJobs
  <2>2. \A q : Excused(q, Kin(q) \ {o})
    BY <1>3 DEF Excused, Kin
  <2>3. \A q \in Readers \ {o, s} : SameJobs(q) /\ Kin(q)' = Kin(q)
    BY <1>2, <1>6
  <2> QED
    BY <1>s, <1>1, <1>3, <1>5, <1>6, <1>7, <2>1, <2>2, <2>3 DEF Acts, SameJobs
<1>10. (\A p \in Live \ {o} : Values(p)') /\ \A q \in External : Follows(q)
  BY <1>7, <1>9, ActsKept DEF Whole
<1>11. ASSUME NEW c \in F, c \in Live' PROVE Values(c)'
  BY <1>11, PlainValues DEF Begets, Waiting, Live
<1>12. KidsOwn'
  <2>1. F \in SUBSET Node /\ root' = root
        /\ node'[o].kids \subseteq F /\ (\A x \in F : node'[x].kids = {} /\ node'[x].sink = o)
    BY <1>2 DEF Begets
  <2>2. \A x \in Node \ F : x # o => node'[x].kids \subseteq node[x].kids
    BY DEF Begets
  <2>3. \A c \in Live : node'[c].sink = node[c].sink
    BY <1>3 DEF Begets
  <2> QED
    BY <1>2, <2>1, <2>2, <2>3, KidsForked DEF Whole
<1>13. SinksStay
  BY <1>2, <1>3 DEF SinksStay, Begets
<1> QED
  BY <1>2, <1>10, <1>11, <1>12, <1>13 DEF Kept, AllValues

\* A new object has no value yet and is not stopped.
LEMMA NewIs ==
  ASSUME NEW usis, NEW pos, NEW ply, NEW q, NEW late
  PROVE  /\ New(usis, pos, ply, q, late).kids = {} /\ New(usis, pos, ply, q, late).maxval = -1
         /\ ~New(usis, pos, ply, q, late).stopped
         /\ New(usis, pos, ply, q, late).pos = pos
<1>1. PICK M \in NodeRec : M = FreeNode
  BY FreeIs
<1>2. M.kids = {} /\ M.maxval = -1 /\ ~M.stopped
  BY <1>1 DEF FreeNode
<1>3. PICK r : r = [M EXCEPT !.pc = "new", !.usis = usis, !.pos = pos, !.ply = ply, !.sink = q,
                             !.late = late]
  OBVIOUS
<1>4. r.kids = M.kids /\ r.maxval = M.maxval /\ r.stopped = M.stopped /\ r.pos = pos
  BY <1>3 DEF NodeRec
<1>5. New(usis, pos, ply, q, late) = r
  BY <1>1, <1>3, Zenon DEF New
<1> QED
  BY <1>2, <1>4, <1>5

LEMMA ForcedKept ==
  ASSUME Whole, NEW o \in Node, Forced(o), Types'
  PROVE  Kept
<1>1. node[o].pc = "forced" /\ eng' = eng /\ raised' = raised /\ root' = root
  BY DEF Forced
<1>2. o \in Live /\ Types /\ Tree /\ ~raised'
  BY <1>1 DEF Live, Whole
<1>3. Busy(o) = {} /\ Kin(o) = {} /\ node[o].pc \notin Waiting
  BY <1>1, <1>2, NoKin DEF Tree, Stages, Stage, Quiet, Waiting
<1>4. CASE node[o].ply = 0
  <2>1. EndWith(o, <<Report(o, "exact", 0), Stopped>>)
    BY <1>4 DEF Forced
  <2>2. PICK x \in MsgRec : x = Report(o, "exact", 0) /\ x.type = "exact"
    <3>1. 0 \in Val
      BY Sizes
    <3> QED
      BY <1>2, <3>1, ReportsAre, Zenon
  <2>3. EndWith(o, <<x, Stopped>>)
    BY <2>1, <2>2
  <2>4. x.pos = node[o].pos /\ ~x.own
    BY <2>2, ReportSays
  <2> QED
    BY <1>1, <1>2, <1>3, <2>2, <2>3, <2>4, EndExact
<1>5. CASE node[o].ply # 0
  <2>1. PICK M \in NodeRec : M = node[o]
    BY <1>2 DEF Types
  <2>2. PICK c : c = Fresh
    OBVIOUS
  <2>3. c \in Unused
    <3>1. Room(1)
      BY <1>5 DEF Forced
    <3>2. Unused # {}
      <4>1. Cardinality(Unused) >= 1
        BY <3>1, UnusedIs, FS_CardinalityType DEF Room
      <4>2. Unused = {} => Cardinality(Unused) = 0
        BY FS_EmptySet, Zenon
      <4> QED
        BY <4>1, <4>2
    <3> QED
      BY <2>2, <3>2 DEF Fresh
  <2>4. c \in Node /\ c # o
    BY <1>2, <2>3, UnusedIs
  <2>5. PICK late \in BOOLEAN :
          node' = [node EXCEPT ![o].pc = "forcedwait", ![o].kids = {c}, ![o].stubs = {},
                     ![c] = Searched(New(M.usis, Append(M.pos, 1), M.ply + 1, o, late), late)]
    BY <1>5, <2>1, <2>2 DEF Forced
  <2>6. PICK kid : kid = New(M.usis, Append(M.pos, 1), M.ply + 1, o, late)
    OBVIOUS
  <2>7. /\ kid \in NodeRec /\ kid.usis = M.usis /\ kid.sink = o
        /\ kid.kids = {} /\ kid.maxval = -1 /\ ~kid.stopped
    <3>1. M.usis \in Seq(Engine) /\ M.pos \in Seq(Nat) /\ M.ply \in Nat
      BY DEF NodeRec
    <3>2. PICK usis \in Seq(Engine), p \in Seq(Nat), l \in Nat :
            usis = M.usis /\ p = M.pos /\ l = M.ply
      BY <3>1, Zenon
    <3>3. PICK pos \in Seq(Nat) : pos = Append(p, 1)
      <4>1. Append(p, 1) \in Seq(Nat)
        OBVIOUS
      <4> QED
        BY <4>1, Zenon
    <3>4. PICK ply \in Nat : ply = l + 1
      OBVIOUS
    <3>5. kid = New(usis, pos, ply, o, late) /\ o \in Queue
      BY <2>6, <3>2, <3>3, <3>4, Sizes, Zenon
    <3>6. kid \in NodeRec /\ kid.usis = usis /\ kid.sink = o
      BY <3>5, NewType
    <3>7. /\ New(usis, pos, ply, o, late).kids = {} /\ New(usis, pos, ply, o, late).maxval = -1
          /\ ~New(usis, pos, ply, o, late).stopped
      <4>1. New(usis, pos, ply, o, late).kids = {}
        BY NewIs, Zenon
      <4>2. New(usis, pos, ply, o, late).maxval = -1
        BY NewIs, SMT
      <4>3. ~New(usis, pos, ply, o, late).stopped
        BY NewIs, Zenon
      <4> QED
        BY <4>1, <4>2, <4>3, Zenon
    <3>8. kid.kids = {} /\ kid.maxval = -1 /\ ~kid.stopped
      BY <3>5, <3>7, Zenon
    <3> QED
      BY <3>2, <3>6, <3>8
  <2>8. PICK s : /\ s = Searched(kid, late) /\ s.pc \in {"presearch", "timeless"}
                 /\ s.sink = o /\ s.kids = {} /\ s.maxval = -1 /\ ~s.stopped
    <3>1. M.usis \in Seq(Engine) /\ Len(M.usis) >= 2
      BY <1>1, <1>2, <2>1 DEF Tree, Squads, NodeRec
    <3>2. PICK k : k = Len(M.usis)
      OBVIOUS
    <3>3. k >= 2
      BY <3>1, <3>2
    <3>4. k # 1
      BY <3>3
    <3>5. Len(kid.usis) # 1
      BY <2>7, <3>2, <3>4, Zenon
    <3> QED
      BY <2>7, <3>5, SearchedType
  <2>9. PICK r : r = [M EXCEPT !.pc = "forcedwait", !.kids = {c}, !.stubs = {}]
    OBVIOUS
  <2>10. /\ r.pc = "forcedwait" /\ r.sink = M.sink /\ r.pos = M.pos /\ r.kids = {c}
         /\ r.stopped = M.stopped /\ r.maxval = M.maxval
    BY <2>9 DEF NodeRec
  <2>11. node' = [node EXCEPT ![o] = r, ![c] = s]
    BY <1>2, <2>1, <2>4, <2>5, <2>6, <2>8, <2>9 DEF Types
  <2>12. node'[o] = r /\ node'[c] = s /\ \A p \in Node \ {o, c} : node'[p] = node[p]
    BY <1>2, <2>4, <2>11 DEF Types
  <2>13. \A q \in Queue \ {c} : box'[q] = box[q]
    BY <1>2, <1>5, <2>2 DEF Forced, Types
  <2>14. PICK F : F = {c}
    OBVIOUS
  <2>15. MayUse(o)
    BY <1>1 DEF MayUse
  <2>16. Begets(o, F)
    <3>1. r.maxval = -1
      BY <1>1, <1>2, <2>1, <2>10, ValuesAre
    <3>2. \A p \in Node \ (F \cup {o}) : node'[p] = node[p]
      BY <2>12, <2>14
    <3>3. \A k \in F : /\ node'[k].pc \in {"presearch", "timeless", "leaf"} /\ node'[k].sink = o
                       /\ node'[k].maxval = -1 /\ node'[k].kids = {}
      BY <2>8, <2>12, <2>14
    <3> QED
      BY <1>1, <2>1, <2>3, <2>10, <2>12, <2>13, <2>14, <2>15, <3>1, <3>2, <3>3
         DEF Begets, Waiting
  <2>17. Kin(o)' = {c} /\ Keen(c)'
    <3>1. Kin(o)' = {p \in F : node'[p].pc # "leaf"}
      BY <1>2, <1>3, <2>16, BegetsLive
    <3> QED
      BY <2>8, <2>12, <2>14, <3>1 DEF Keen
  <2>18. Values(o)'
    <3>1. Over(o)' /\ Single(o)'
      BY <2>17 DEF Over, Silent, Single, Hopes
    <3>2. node'[o].pc = "forcedwait" /\ node'[o].maxval = -1
      BY <2>10, <2>12, <2>16 DEF Begets
    <3> QED
      BY <3>1, <3>2 DEF Values
  <2> QED
    BY <1>1, <1>2, <2>16, <2>18, ForkKept
<1> QED
  BY <1>4, <1>5

-----------------------------------------------------------------------------
(* A searcher for each place.                                              *)

\* The places of the moves run from one up to their number.
LEMMA PlacesRun ==
  ASSUME NEW C \in SUBSET Nat, IsFiniteSet(C), NEW k, k = Cardinality(C)
  PROVE  /\ k \in Nat /\ \A i \in C : Place(C, i) \in 1 .. k
         /\ \A i, l \in C : Place(C, i) = Place(C, l) => i = l
         /\ \A j \in 1 .. k : \E i \in C : Place(C, i) = j
<1> DEFINE L(i) == {m \in C : m <= i}
<1>0. k \in Nat
  BY FS_CardinalityType
<1>1. ASSUME NEW i \in C
      PROVE  /\ L(i) \in SUBSET C /\ i \in L(i) /\ IsFiniteSet(L(i))
             /\ Place(C, i) = Cardinality(L(i)) /\ Place(C, i) \in 1 .. k
  <2>1. L(i) \in SUBSET C /\ i \in L(i)
    OBVIOUS
  <2>2. Place(C, i) = Cardinality(L(i))
    BY DEF Place
  <2>3. PICK S : S = L(i)
    OBVIOUS
  <2>6. S \in SUBSET C /\ i \in S
    BY <2>1, <2>3
  <2>4. IsFiniteSet(S) /\ Cardinality(S) <= k /\ Cardinality(S) \in Nat
    BY <2>6, FS_Subset, FS_CardinalityType
  <2>5. Cardinality(S) # 0
    BY <2>4, <2>6, FS_EmptySet
  <2>7. PICK c \in Nat : c = Cardinality(S) /\ c # 0 /\ c <= k
    BY <2>4, <2>5, Zenon
  <2>8. c \in 1 .. k
    BY <1>0, <2>7
  <2> QED
    BY <2>1, <2>2, <2>3, <2>4, <2>7, <2>8, Zenon
<1>2. ASSUME NEW i \in C, NEW l \in C, i < l PROVE Place(C, i) # Place(C, l)
  <2>1. PICK S, T : S = L(i) /\ T = L(l)
    OBVIOUS
  <2>2. S \in SUBSET T /\ l \in T /\ l \notin S
    <3>1. \A m \in C : m \in Nat
      OBVIOUS
    <3>2. i \in Nat /\ l \in Nat /\ ~(l <= i) /\ l <= l
      BY <1>2, <3>1
    <3>3. \A m \in C : m <= i => m <= l
      BY <1>2, <3>1, <3>2
    <3>4. \A m : (m \in S <=> m \in C /\ m <= i) /\ (m \in T <=> m \in C /\ m <= l)
      BY <2>1
    <3> QED
      BY <3>2, <3>3, <3>4
  <2>3. IsFiniteSet(T) /\ Place(C, i) = Cardinality(S) /\ Place(C, l) = Cardinality(T)
    BY <1>1, <2>1
  <2>4. Cardinality(T) = Cardinality(S) => T = S
    BY <2>2, <2>3, FS_Subset, Zenon
  <2> QED
    BY <2>2, <2>3, <2>4
<1>3. \A i, l \in C : Place(C, i) = Place(C, l) => i = l
  BY <1>2
<1>4. PICK f : f = [i \in C |-> Place(C, i)]
  OBVIOUS
<1>5. f \in Injection(C, 1 .. k)
  BY <1>1, <1>3, <1>4 DEF Injection, IsInjective
<1>6. IsFiniteSet(1 .. k) /\ Cardinality(1 .. k) = Cardinality(C)
  BY <1>0, UpTo
<1>7. f \in Surjection(C, 1 .. k)
  BY <1>5, <1>6, FS_Injection, Zenon
<1>8. \A j \in 1 .. k : \E i \in C : Place(C, i) = j
  BY <1>4, <1>7 DEF Surjection
<1> QED
  BY <1>0, <1>1, <1>3, <1>8

\* A child for each place, which has no value and is not stopped.
Seats(kids) ==
  LET k == Cardinality(DOMAIN kids)
  IN  /\ k \in Nat /\ \A i \in DOMAIN kids : Last(kids[i].pos) \in 1 .. k
      /\ \A i, l \in DOMAIN kids : Last(kids[i].pos) = Last(kids[l].pos) => i = l
      /\ \A j \in 1 .. k : \E i \in DOMAIN kids : Last(kids[i].pos) = j
      /\ \A i \in DOMAIN kids : kids[i].kids = {} /\ kids[i].maxval = -1 /\ ~kids[i].stopped

LEMMA LastPlaced ==
  ASSUME NEW s \in Seq(Nat), NEW x \in Nat
  PROVE  Append(s, x) \in Seq(Nat) /\ Last(Append(s, x)) = x
BY DEF Last

LEMMA KidsSeats ==
  ASSUME Types, NEW o \in Live
  PROVE  Seats(Children(o))
<1>1. PICK M \in NodeRec : M = node[o]
  BY LiveTypes DEF Types
<1>2. PICK u, y, late : u = M.usis /\ y = M.ply /\ late = M.late
  OBVIOUS
<1>0. PICK n \in Nat, ps \in Seq(Nat) : n = M.keys /\ ps = M.pos
  <2>1. M.keys \in Nat /\ M.pos \in Seq(Nat)
    BY DEF NodeRec
  <2> QED
    BY <2>1, Zenon
<1>3. PICK share : share = Dist(Weights(n, y), Len(u) - 1)
  OBVIOUS
<1>4. DOMAIN share = 1 .. n
  <2>1. PICK w : w = Weights(n, y)
    OBVIOUS
  <2>2. DOMAIN w = 1 .. n
    BY <2>1 DEF Weights
  <2>3. PICK m : m = Len(u) - 1
    OBVIOUS
  <2>4. share = Dist(w, m)
    BY <1>3, <2>1, <2>3
  <2>5. DOMAIN share = DOMAIN w
    BY <2>4 DEF Dist
  <2> QED
    BY <2>2, <2>5
<1>5. PICK C : C = Chosen(share)
  OBVIOUS
<1>6. C \in SUBSET (1 .. n)
  BY <1>4, <1>5 DEF Chosen
<1>7. IsFiniteSet(C) /\ C \in SUBSET Nat
  <2>1. IsFiniteSet(1 .. n)
    BY UpTo
  <2>2. IsFiniteSet(C)
    BY <1>6, <2>1, FS_Subset, Zenon
  <2>3. C \in SUBSET Nat
    BY <1>6
  <2> QED
    BY <2>2, <2>3
<1>8. PICK kids : kids = Children(o)
  OBVIOUS
<1>9. kids = [i \in C |-> New(Dealt(u, share, i), Append(ps, Place(C, i)), y + 1, o, late)]
  BY <1>0, <1>1, <1>2, <1>3, <1>5, <1>8, Zenon DEF Children
<1>10. DOMAIN kids = C
  BY <1>9
<1>11. PICK k : k = Cardinality(C)
  OBVIOUS
<1>12. /\ k \in Nat /\ \A i \in C : Place(C, i) \in 1 .. k
       /\ \A i, l \in C : Place(C, i) = Place(C, l) => i = l
       /\ \A j \in 1 .. k : \E i \in C : Place(C, i) = j
  BY <1>7, <1>11, PlacesRun, Zenon
<1>13. ASSUME NEW i \in C
       PROVE  /\ Last(kids[i].pos) = Place(C, i)
              /\ kids[i].kids = {} /\ kids[i].maxval = -1 /\ ~kids[i].stopped
  <2>1. PICK d, pos, l : d = Dealt(u, share, i) /\ pos = Append(ps, Place(C, i)) /\ l = y + 1
    OBVIOUS
  <2>2. kids[i] = New(d, pos, l, o, late)
    BY <1>9, <2>1
  <2>3. kids[i].pos = pos
    BY <2>2, NewIs
  <2>4. kids[i].kids = {} /\ kids[i].maxval = -1 /\ ~kids[i].stopped
    <3>1. kids[i].kids = {}
      BY <2>2, NewIs
    <3>2. kids[i].maxval = -1
      BY <2>2, NewIs
    <3>3. ~kids[i].stopped
      BY <2>2, NewIs
    <3> QED
      BY <3>1, <3>2, <3>3
  <2>5. Place(C, i) \in Nat
    BY <1>12
  <2>6. Last(pos) = Place(C, i)
    BY <2>1, <2>5, LastPlaced
  <2> QED
    BY <2>3, <2>4, <2>6
<1> QED
  BY <1>8, <1>10, <1>11, <1>12, <1>13 DEF Seats

-----------------------------------------------------------------------------
LEMMA EngagedHead ==
  ASSUME Types, NEW o \in Live, NEW kids, NEW id, NEW late, Placed(o, kids, id, late),
         NEW r, NEW i \in Alone(kids)
  PROVE  Engaged(r, kids[i].usis[1], Range(kids)) = Search(r, kids[i].pos, FALSE, o)
<1>1. PICK S : S = Range(kids)
  OBVIOUS
<1>2. \A M : M \in S <=> \E k \in DOMAIN kids : M = kids[k]
  BY <1>1 DEF Range
<1>3. PICK x : x = kids[i].usis[1]
  OBVIOUS
<1>4. i \in DOMAIN kids
  BY DEF Alone
<1>5. kids[i].usis = <<x>> /\ kids[i] \in S /\ x \in ToSet(kids[i].usis)
  BY <1>2, <1>3, <1>4, KidFacts
<1>6. \E M \in S : M.usis = <<x>>
  BY <1>5
<1>7. PICK L : L = CHOOSE M \in S : M.usis = <<x>>
  OBVIOUS
<1>8. L \in S /\ L.usis = <<x>>
  BY <1>6, <1>7, Zenon
<1>9. PICK k \in DOMAIN kids : L = kids[k]
  BY <1>2, <1>8
<1>10. x \in ToSet(kids[k].usis)
  <2>1. kids[k].usis = kids[i].usis
    BY <1>5, <1>8, <1>9
  <2> QED
    BY <1>5, <2>1
<1>11. k = i
  BY <1>4, <1>5, <1>10 DEF Placed
<1>12. L.sink = o
  BY <1>9, KidFacts
<1>13. Engaged(r, x, S) = Search(r, L.pos, FALSE, L.sink)
  BY <1>6, <1>7, Zenon DEF Engaged
<1> QED
  BY <1>1, <1>3, <1>9, <1>11, <1>12, <1>13, Zenon

\* What the stubs search for o after split_search.
Sends(o, kids) ==
  /\ eng'[node[o].usis[1]].jobs = <<Job("search", node[o].pos, TRUE)>>
  /\ \A i \in Alone(kids) : eng'[kids[i].usis[1]].jobs = <<Job("search", kids[i].pos, FALSE)>>
  /\ \A x \in Heads(kids) \cup {node[o].usis[1]} : eng'[x].sink = o
  /\ \A x \in Engine : x \notin Heads(kids) \cup {node[o].usis[1]} => eng'[x] = eng[x]

LEMMA SentOnce ==
  ASSUME NEW r, r.jobs = <<>>, NEW j, NEW q, NEW g,
         g = [searching |-> TRUE, stopped |-> FALSE, sink |-> q, jobs |-> Append(r.jobs, j)]
  PROVE  g.jobs = <<j>> /\ g.sink = q
<1>1. Append(<<>>, j) = <<j>>
  OBVIOUS
<1> QED
  BY <1>1

LEMMA SplitSends ==
  ASSUME Types, Tree, NEW o \in Live, node[o].pc = "split",
         NEW kids, NEW id, NEW late, Splits(o, kids, id, late)
  PROVE  Sends(o, kids)
<1>1. Placed(o, kids, id, late)
  BY DEF Splits
<1>2. PICK e \in Engine : e = node[o].usis[1] /\ e \in Members(o)
  BY FirstStubs
<1>3. Busy(o) = {} /\ node[o].pc \notin Waiting
  BY NoKin DEF Tree, Stages, Stage, Quiet, Waiting
<1>4. \A x \in Members(o) : x \in Engine /\ eng[x].jobs = <<>>
  BY <1>3, FirstStubs DEF Open
<1>5. eng' = [x \in Engine |->
        IF x = e THEN Search(eng[x], node[o].pos, TRUE, o) ELSE Engaged(eng[x], x, Range(kids))]
  BY <1>2, Zenon DEF Splits
<1>6. /\ Heads(kids) \subseteq Members(o) /\ e \notin Heads(kids)
  BY <1>1, <1>2, HeadsAre
<1>7. eng'[e] = Search(eng[e], node[o].pos, TRUE, o)
  BY <1>5
<1>8. eng'[e].jobs = <<Job("search", node[o].pos, TRUE)>> /\ eng'[e].sink = o
  <2>1. PICK j : j = Job("search", node[o].pos, TRUE)
    OBVIOUS
  <2>2. PICK g : g = eng'[e]
    OBVIOUS
  <2>3. g = [searching |-> TRUE, stopped |-> FALSE, sink |-> o, jobs |-> Append(eng[e].jobs, j)]
    BY <1>7, <2>1, <2>2, Zenon DEF Search, Go
  <2>4. eng[e].jobs = <<>>
    BY <1>2, <1>4
  <2>5. g.jobs = <<j>> /\ g.sink = o
    BY <2>3, <2>4, SentOnce
  <2> QED
    BY <2>1, <2>2, <2>5, Zenon
<1>9. ASSUME NEW i \in Alone(kids)
      PROVE  /\ eng'[kids[i].usis[1]].jobs = <<Job("search", kids[i].pos, FALSE)>>
             /\ eng'[kids[i].usis[1]].sink = o
  <2>1. PICK x : x = kids[i].usis[1]
    OBVIOUS
  <2>2. x \in Heads(kids)
    BY <2>1 DEF Heads
  <2>3. x \in Engine /\ x # e /\ eng[x].jobs = <<>>
    BY <1>4, <1>6, <2>2
  <2>4. eng'[x] = Engaged(eng[x], x, Range(kids))
    BY <1>5, <2>3
  <2>5. Engaged(eng[x], x, Range(kids)) = Search(eng[x], kids[i].pos, FALSE, o)
    BY <1>1, <2>1, EngagedHead, Zenon
  <2>6. PICK j : j = Job("search", kids[i].pos, FALSE)
    OBVIOUS
  <2>7. PICK g : g = eng'[x]
    OBVIOUS
  <2>8. g = [searching |-> TRUE, stopped |-> FALSE, sink |-> o, jobs |-> Append(eng[x].jobs, j)]
    BY <2>4, <2>5, <2>6, <2>7, Zenon DEF Search, Go
  <2>9. g.jobs = <<j>> /\ g.sink = o
    BY <2>3, <2>8, SentOnce
  <2> QED
    BY <2>1, <2>6, <2>7, <2>9, Zenon
<1>10. \A x \in Heads(kids) : eng'[x].sink = o
  BY <1>9 DEF Heads
<1>11. ASSUME NEW x \in Engine, x # e, x \notin Heads(kids) PROVE eng'[x] = eng[x]
  <2>1. eng'[x] = Engaged(eng[x], x, Range(kids))
    BY <1>5, <1>11
  <2>2. Engaged(eng[x], x, Range(kids)) = eng[x]
    BY <1>1, <1>11, EngagedIs, Zenon
  <2> QED
    BY <2>1, <2>2
<1> QED
  BY <1>2, <1>8, <1>9, <1>10, <1>11 DEF Sends

-----------------------------------------------------------------------------
\* Searchers V that have said nothing: y has the last place, the others those of I.
Newly(V, K, y, I, W, P, k) ==
  /\ \A s \in V : (s = y /\ s.key = k + 1) \/ \E i \in I : s = W[i] /\ s.key = P[i]
  /\ \A i \in I : P[i] \in 1 .. k /\ P[i] \in K
  /\ \A i, l \in I : P[i] = P[l] => i = l
  /\ \A j \in 1 .. k : \E i \in I : P[i] = j
  /\ k + 1 \in K

LEMMA NewlySeated ==
  ASSUME NEW k \in Nat, NEW V, NEW K, NEW y, NEW I, NEW W, NEW P, Newly(V, K, y, I, W, P, k),
         NEW bd, bd = [i \in 1 .. k + 1 |-> -1]
  PROVE  Seated(V, <<>>, k + 1) /\ Falls(V, <<>>, k + 1, bd) /\ Served(K, <<>>, k + 1, bd, -1)
<1>1. Said(<<>>) = {}
  BY DEF Said
<1>2. \A s \in V : s.key \in 1 .. k + 1
  <2>1. k + 1 \in 1 .. k + 1 /\ 1 .. k \subseteq 1 .. k + 1
    OBVIOUS
  <2> QED
    BY <2>1 DEF Newly
<1>3. \A s, t \in V : s.key = t.key => s = t
  <2>1. k + 1 \notin 1 .. k
    OBVIOUS
  <2> QED
    BY <2>1 DEF Newly
<1>4. \A s \in V : bd[s.key] = -1
  BY <1>2
<1>5. \A j \in 1 .. k + 1 : j \in K
  <2>1. \A j \in 1 .. k + 1 : j = k + 1 \/ j \in 1 .. k
    OBVIOUS
  <2>2. \A j \in 1 .. k : j \in K
    BY DEF Newly
  <2> QED
    BY <2>1, <2>2 DEF Newly
<1>6. Seated(V, <<>>, k + 1)
  BY <1>1, <1>2, <1>3 DEF Seated
<1>7. Falls(V, <<>>, k + 1, bd)
  BY <1>1, <1>4 DEF Falls
<1>8. Served(K, <<>>, k + 1, bd, -1)
  BY <1>5 DEF Served
<1> QED
  BY <1>6, <1>7, <1>8

LEMMA SplitKept ==
  ASSUME Whole, NEW o \in Node, Split(o), Types'
  PROVE  Kept
<1>1. node[o].pc = "split"
  BY DEF Split
<1>2. o \in Live /\ Types /\ Tree /\ ~raised
  BY <1>1 DEF Live, Whole
<1>3. Busy(o) = {} /\ Kin(o) = {} /\ node[o].pc \notin Waiting /\ Team(o) = Members(o)
  <2>1. node[o].pc \notin Waiting
    BY <1>1 DEF Waiting
  <2>2. Busy(o) = {} /\ Kin(o) = {}
    BY <1>1, <1>2, <2>1, NoKin DEF Tree, Stages, Stage, Quiet
  <2> QED
    BY <1>2, <2>1, <2>2, FirstStubs
<1>4. PICK kids, id, late : kids = Children(o) /\ Splits(o, kids, id, late)
  BY <1>2, SplitIs, Zenon
<1>5. Placed(o, kids, id, late) /\ Sends(o, kids) /\ Seats(kids)
  <2>1. Placed(o, kids, id, late)
    BY <1>4 DEF Splits
  <2>2. Sends(o, kids)
    BY <1>1, <1>2, <1>4, SplitSends, Zenon
  <2>3. Seats(Children(o))
    BY <1>2, KidsSeats
  <2> QED
    BY <1>4, <2>1, <2>2, <2>3
<1>6. PICK e \in Engine : e = node[o].usis[1] /\ e \in Members(o) /\ Head(node[o].usis) = e
  BY <1>2, FirstStubs
<1>7. PICK F : F = {id[i] : i \in DOMAIN kids}
  OBVIOUS
<1>8. PICK H : H = Heads(kids) \cup {e}
  OBVIOUS
<1>9. /\ Heads(kids) \subseteq Members(o) /\ e \notin Heads(kids) /\ H \subseteq Members(o)
      /\ Members(o) \subseteq Engine /\ root' = root /\ o \in Node
  BY <1>2, <1>4, <1>5, <1>6, <1>8, HeadsAre, FirstStubs DEF Splits
<1>10. ~raised'
  <2>1. raised' = (\/ Refuses(Head(node[o].usis))
                   \/ \E i \in DOMAIN kids : Len(kids[i].usis) = 1 /\ Refuses(kids[i].usis[1]))
    BY <1>4, Zenon DEF Split, SplitAmong
  <2>2. \A x \in Members(o) : ~Refuses(x)
    BY <1>2, <1>3, NotRefused
  <2>3. \A i \in DOMAIN kids : Len(kids[i].usis) = 1 => kids[i].usis[1] \in Members(o)
    BY <1>9 DEF Heads, Alone
  <2> QED
    BY <1>6, <2>1, <2>2, <2>3
<1>11. /\ F \subseteq Unused /\ o \notin F /\ IsFiniteSet(DOMAIN kids)
       /\ \A i \in DOMAIN kids : id[i] \in F /\ id[i] \in Node
       /\ \A p \in F : \E i \in DOMAIN kids : p = id[i]
  BY <1>2, <1>5, <1>7, UnusedIs DEF Placed
<1>12. PICK k \in Nat : k = Cardinality(DOMAIN kids) /\ Cardinality(F) = k
  <2>1. id \in [DOMAIN kids -> F]
    BY <1>5, <1>11 DEF Placed
  <2>2. \A i, l \in DOMAIN kids : id[i] = id[l] => i = l
    BY <1>5 DEF Placed
  <2>3. \A p \in F : \E i \in DOMAIN kids : id[i] = p
    BY <1>11
  <2>4. Cardinality(F) = Cardinality(DOMAIN kids)
    BY <1>11, <2>1, <2>2, <2>3, ImageSize, Zenon
  <2> QED
    BY <1>5, <2>4 DEF Seats
<1>13. PICK M \in NodeRec : M = node[o]
  BY <1>2 DEF Types
<1>14. PICK r : r = [M EXCEPT !.pc = "count", !.kids = F, !.stubs = {e}]
  OBVIOUS
<1>15. /\ r.pc = "count" /\ r.sink = M.sink /\ r.pos = M.pos /\ r.kids = F /\ r.stubs = {e}
       /\ r.stopped = M.stopped /\ r.maxval = M.maxval
  BY <1>14 DEF NodeRec
<1>16. node'[o] = r /\ M.maxval = -1
  <2>1. node'[o] = r
    BY <1>4, <1>6, <1>7, <1>13, <1>14, Zenon DEF Splits
  <2>2. M.maxval = -1
    BY <1>1, <1>2, <1>13, ValuesAre
  <2> QED
    BY <2>1, <2>2
<1>17. ASSUME NEW i \in DOMAIN kids
       PROVE  /\ node'[id[i]].sink = o /\ node'[id[i]].maxval = -1 /\ node'[id[i]].kids = {}
              /\ ~node'[id[i]].stopped /\ node'[id[i]].pos = kids[i].pos
              /\ i \in Alone(kids) => node'[id[i]].pc = "leaf"
              /\ i \notin Alone(kids) => node'[id[i]].pc \in {"presearch", "timeless"}
  <2>1. PICK L \in NodeRec : L = kids[i]
    BY <1>2, <1>5, KidFacts
  <2>2. PICK l \in BOOLEAN : l = late[i]
    BY <1>5 DEF Placed
  <2>3. PICK s : s = Searched(L, l)
    OBVIOUS
  <2>4. node'[id[i]] = s
    BY <1>4, <2>1, <2>2, <2>3, Zenon DEF Splits
  <2>5. L.sink = o /\ L.kids = {} /\ L.maxval = -1 /\ ~L.stopped
    BY <1>2, <1>5, <2>1, KidFacts DEF Seats
  <2>6. /\ Len(L.usis) = 1 => s.pc = "leaf"
        /\ Len(L.usis) # 1 => s.pc \in {"presearch", "timeless"}
        /\ s.sink = L.sink /\ s.pos = L.pos /\ s.kids = L.kids /\ s.maxval = L.maxval
    BY <2>3, SearchedType, Zenon
  <2>7. s.stopped = L.stopped
    BY <2>3, SearchedType, Zenon
  <2>8. i \in Alone(kids) <=> Len(L.usis) = 1
    BY <2>1 DEF Alone
  <2> QED
    BY <2>1, <2>4, <2>5, <2>6, <2>7, <2>8
<1>18. MayUse(o)
  <2>1. \A x \in Engine : x \in H => x \in Team(o) /\ eng'[x].sink = o
    BY <1>3, <1>5, <1>6, <1>8, <1>9 DEF Sends
  <2>2. \A x \in Engine : x \notin H => eng'[x] = eng[x]
    BY <1>5, <1>6, <1>8 DEF Sends
  <2> QED
    BY <2>1, <2>2 DEF MayUse
<1>19. Begets(o, F)
  <2>1. \A p \in Node \ (F \cup {o}) : node'[p] = node[p]
    BY <1>4, <1>7 DEF Splits
  <2>2. \A q \in Queue \ F : box'[q] = box[q]
    <3>1. box' = [q \in Queue |-> IF q \in F THEN <<>> ELSE box[q]]
      BY <1>4, <1>7, Zenon DEF Splits
    <3> QED
      BY <3>1
  <2>3. \A c \in F : /\ node'[c].pc \in {"presearch", "timeless", "leaf"} /\ node'[c].sink = o
                     /\ node'[c].maxval = -1 /\ node'[c].kids = {}
    BY <1>11, <1>17
  <2>4. /\ node'[o].pc \in Waiting /\ node'[o].sink = node[o].sink /\ node'[o].pos = node[o].pos
        /\ node'[o].stopped = node[o].stopped /\ node'[o].maxval = -1 /\ node'[o].kids \subseteq F
    BY <1>13, <1>15, <1>16 DEF Waiting
  <2> QED
    BY <1>9, <1>11, <1>18, <2>1, <2>2, <2>3, <2>4 DEF Begets
<1>20. box'[o] = <<>>
  <2>1. box[o] = <<>> /\ o \in Queue
    BY <1>1, <1>2, LiveTypes DEF Tree, Stages, Stage, Quiet
  <2> QED
    BY <1>11, <1>19, <2>1 DEF Begets
<1>21. Kin(o)' = {c \in F : node'[c].pc # "leaf"}
  BY <1>2, <1>3, <1>19, BegetsLive
<1>22. Busy(o)' = H
  <2>1. ASSUME NEW x \in Engine PROVE x \in Busy(o)' <=> x \in H
    <3>1. CASE x \in H
      <4>1. eng'[x].sink = o
        BY <1>5, <1>6, <1>8, <3>1 DEF Sends
      <4>2. eng'[x].jobs # <<>>
        <5>1. CASE x = e
          <6>1. PICK j : eng'[x].jobs = <<j>>
            BY <1>5, <1>6, <5>1, Zenon DEF Sends
          <6> QED
            BY <6>1
        <5>2. CASE x # e
          <6>1. PICK i \in Alone(kids) : x = kids[i].usis[1]
            BY <1>8, <3>1, <5>2 DEF Heads
          <6>2. PICK j : eng'[x].jobs = <<j>>
            BY <1>5, <6>1, Zenon DEF Sends
          <6> QED
            BY <6>2
        <5> QED
          BY <5>1, <5>2
      <4> QED
        BY <3>1, <4>1, <4>2 DEF Busy, Open
    <3>2. CASE x \notin H
      BY <1>3, <1>5, <1>6, <1>8, <3>2 DEF Sends, Busy, Open
    <3> QED
      BY <3>1, <3>2
  <2>2. Busy(o)' \subseteq Engine /\ H \subseteq Engine
    BY <1>9 DEF Busy
  <2> QED
    BY <2>1, <2>2
<1>23. Size(o)' = k + 1
  <2>1. Cardinality({e}) = 1
    BY FS_Singleton, Zenon
  <2>2. Size(o)' = Cardinality(r.kids) + Cardinality(r.stubs)
    BY <1>15, <1>16 DEF Size
  <2> QED
    BY <1>12, <1>15, <2>1, <2>2
<1>24. PICK bd : bd = [i \in 1 .. k + 1 |-> -1]
  OBVIOUS
<1>25. Bounds(o)' = bd
  BY <1>15, <1>16, <1>23, <1>24 DEF Bounds
\* The voices, and their keys.
<1>26. PICK P : P = [i \in DOMAIN kids |-> Last(kids[i].pos)]
  OBVIOUS
<1>27. PICK y : y = StubVoice(k + 1, e)'
  OBVIOUS
<1>28. PICK W : W = [i \in DOMAIN kids |-> IF i \in Alone(kids) THEN StubVoice(k + 1, kids[i].usis[1])'
                                          ELSE KidVoice(id[i])']
  OBVIOUS
<1>29. JobKey(k + 1, e)' = k + 1
  <2>1. PICK j : j = Job("search", node[o].pos, TRUE)
    OBVIOUS
  <2>2. j.own = TRUE
    BY <2>1 DEF Job
  <2>3. eng'[e].jobs = <<j>>
    BY <1>5, <1>6, <2>1, Zenon DEF Sends
  <2>4. eng'[e].jobs[1] = j
    BY <2>3
  <2> QED
    BY <2>2, <2>4 DEF JobKey, KeyOf
<1>30. ASSUME NEW i \in Alone(kids) PROVE JobKey(k + 1, kids[i].usis[1])' = P[i] /\ i \in DOMAIN kids
  <2>1. i \in DOMAIN kids
    BY DEF Alone
  <2>2. PICK j : j = Job("search", kids[i].pos, FALSE)
    OBVIOUS
  <2>3. ~j.own /\ j.pos = kids[i].pos
    BY <2>2 DEF Job
  <2>4. PICK x : x = kids[i].usis[1]
    OBVIOUS
  <2>5. eng'[x].jobs = <<j>>
    BY <1>5, <2>2, <2>4, Zenon DEF Sends
  <2>6. eng'[x].jobs[1] = j
    BY <2>5
  <2>7. JobKey(k + 1, x)' = Last(kids[i].pos)
    BY <2>3, <2>6 DEF JobKey, KeyOf
  <2> QED
    BY <1>26, <2>1, <2>4, <2>7
<1>31. \A s \in Voices(o)' : \/ s = y /\ s.key = k + 1
                             \/ \E i \in DOMAIN kids : s = W[i] /\ s.key = P[i]
  <2>1. SUFFICES ASSUME NEW s \in Voices(o)'
                 PROVE  \/ s = y /\ s.key = k + 1
                        \/ \E i \in DOMAIN kids : s = W[i] /\ s.key = P[i]
    OBVIOUS
  <2>2. CASE \E x \in H : s = StubVoice(k + 1, x)'
    <3>1. PICK x \in H : s = StubVoice(k + 1, x)'
      BY <2>2
    <3>2. s.key = JobKey(k + 1, x)'
      BY <3>1 DEF StubVoice
    <3>3. CASE x = e
      BY <1>27, <1>29, <3>1, <3>2, <3>3
    <3>4. CASE x # e
      <4>1. PICK i \in Alone(kids) : x = kids[i].usis[1]
        BY <1>8, <3>4 DEF Heads
      <4>2. i \in DOMAIN kids /\ s.key = P[i]
        BY <1>30, <3>2, <4>1
      <4>3. s = W[i]
        BY <1>28, <3>1, <4>1, <4>2
      <4> QED
        BY <4>2, <4>3
    <3> QED
      BY <3>3, <3>4
  <2>3. CASE \E c \in Kin(o)' : s = KidVoice(c)'
    <3>1. PICK c \in Kin(o)' : s = KidVoice(c)'
      BY <2>3
    <3>2. PICK i \in DOMAIN kids : c = id[i]
      BY <1>11, <1>21, <3>1
    <3>3. i \notin Alone(kids)
      BY <1>17, <1>21, <3>1, <3>2
    <3>4. s.key = P[i]
      <4>1. s.key = Last(node'[c].pos)
        BY <3>1 DEF KidVoice
      <4> QED
        BY <1>17, <1>26, <3>2, <4>1
    <3>5. s = W[i]
      BY <1>28, <3>1, <3>2, <3>3
    <3> QED
      BY <3>4, <3>5
  <2> QED
    BY <1>22, <1>23, <2>2, <2>3 DEF Voices
<1>32. PICK K : K = Sure(o)'
  OBVIOUS
<1>33. k + 1 \in K /\ \A i \in DOMAIN kids : P[i] \in K
  <2>1. \A x \in H : JobKey(k + 1, x)' \in K
    BY <1>22, <1>23, <1>32 DEF Sure
  <2>2. k + 1 \in K
    BY <1>8, <1>29, <2>1
  <2>3. ASSUME NEW i \in DOMAIN kids PROVE P[i] \in K
    <3>1. CASE i \in Alone(kids)
      <4>1. kids[i].usis[1] \in H
        BY <1>8, <3>1 DEF Heads
      <4> QED
        BY <1>30, <2>1, <3>1, <4>1
    <3>2. CASE i \notin Alone(kids)
      <4>1. PICK c : c = id[i]
        OBVIOUS
      <4>2. c \in Kin(o)' /\ Keen(c)' /\ node'[c].pos = kids[i].pos
        BY <1>11, <1>17, <1>21, <3>2, <4>1 DEF Keen
      <4>3. Last(node'[c].pos) \in K
        BY <1>32, <4>2 DEF Sure
      <4> QED
        BY <1>26, <4>2, <4>3
    <3> QED
      BY <3>1, <3>2
  <2> QED
    BY <2>2, <2>3
<1>34. PICK V : V = Voices(o)'
  OBVIOUS
<1>35. Seated(V, <<>>, k + 1) /\ Falls(V, <<>>, k + 1, bd) /\ Served(K, <<>>, k + 1, bd, -1)
  <2>1. PICK I : I = DOMAIN kids
    OBVIOUS
  <2>2. \A i \in I : P[i] \in 1 .. k
    BY <1>5, <1>12, <1>26, <2>1 DEF Seats
  <2>3. \A i, l \in I : P[i] = P[l] => i = l
    BY <1>5, <1>12, <1>26, <2>1 DEF Seats
  <2>4. \A j \in 1 .. k : \E i \in I : P[i] = j
    BY <1>5, <1>12, <1>26, <2>1 DEF Seats
  <2>5. \A s \in V : (s = y /\ s.key = k + 1) \/ \E i \in I : s = W[i] /\ s.key = P[i]
    BY <1>31, <1>34, <2>1
  <2>6. \A i \in I : P[i] \in K
    BY <1>33, <2>1
  <2> QED
    <3>1. Newly(V, K, y, I, W, P, k)
      BY <1>33, <2>2, <2>3, <2>4, <2>5, <2>6 DEF Newly
    <3> QED
      BY <1>24, <3>1, NewlySeated
<1>36. Splitting(o)'
  <2>1. k + 1 >= 1
    OBVIOUS
  <2> QED
    BY <1>15, <1>16, <1>20, <1>23, <1>25, <1>32, <1>34, <1>35, <2>1, SplittingLater
<1>37. Values(o)'
  <2>1. Over(o)'
    BY <1>20 DEF Over
  <2> QED
    BY <1>15, <1>16, <1>36, <2>1 DEF Values
<1> QED
  BY <1>1, <1>2, <1>10, <1>19, <1>37, ForkKept

-----------------------------------------------------------------------------
(* The steps of everybody.                                                 *)
LEMMA NodeKept ==
  ASSUME Whole, ~StopsBetween, NEW o \in Node, NodeStep(o)
  PROVE  Kept /\ Fine
<1>1. Fine
  BY NodeFine DEF Whole
<1>2. Types'
  BY <1>1 DEF Fine
<1>3. CASE BookAnswered(o) \/ GenmovesAnswered(o)
  BY <1>1, <1>2, <1>3, BookKept, GenmovesKept
<1>4. CASE Presearch(o) \/ PresearchTake(o) \/ MateStopped(o) \/ PresearchEnd(o)
  BY <1>1, <1>2, <1>4, PresearchKept, TakeKept, MateStoppedKept, PresearchEndKept
<1>5. CASE Forced(o) \/ ForcedStopped(o) \/ Timeless(o) \/ ProbabilityAnswered(o)
  BY <1>1, <1>2, <1>5, ForcedKept, ForcedStoppedKept, TimelessKept, ProbabilityKept
<1>6. CASE Split(o) \/ SplitNothing(o) \/ Count(o)
  BY <1>1, <1>2, <1>6, SplitKept, SplitNothingKept, CountKept
<1>7. CASE Collect(o) \/ CollectStopped(o) \/ CollectEnd(o)
  BY <1>1, <1>2, <1>7, CollectKept, CollectStoppedKept, CollectEndKept
<1> QED
  BY <1>3, <1>4, <1>5, <1>6, <1>7 DEF NodeStep

\* The objects are left as they are.
LEMMA SameKids ==
  ASSUME KidsOwn, node' = node, root' = root
  PROVE  KidsOwn' /\ SinksStay /\ Live' = Live /\ \A q : Kin(q)' = Kin(q)
<1>1. Live' = Live
  BY DEF Live
<1>2. \A q : Kin(q)' = Kin(q)
  BY <1>1 DEF Kin
<1>3. Reached' = Reached
  BY <1>1 DEF Reached, Reach
<1>4. KidsOwn'
  BY <1>1, <1>3 DEF KidsOwn
<1> QED
  BY <1>1, <1>2, <1>4 DEF SinksStay

LEMMA AnswerKept ==
  ASSUME Whole, NEW e \in Engine, ReaderStep(e)
  PROVE  Kept /\ Fine
<1>1. Fine
  BY ReaderFine DEF Whole
<1>2. AllValues' /\ (\A q \in External : Follows(q)) /\ raised' = raised
  BY <1>1, ReaderKept DEF Fine, Whole
<1>3. node' = node /\ root' = root
  BY DEF ReaderStep
<1>4. KidsOwn' /\ SinksStay
  BY <1>3, SameKids DEF Whole
<1> QED
  BY <1>1, <1>2, <1>4 DEF Kept, Whole

\* The client's object tells its client, if it runs.
RootAbove == root \in Live => node[root].sink \in External

\* The client stops its object.
Halted == /\ KidsOwn' /\ AllValues' /\ ~raised' /\ SinksStay
          /\ \A q \in External : /\ \A P : Places(q, P) => Places(q, P)'
                                 /\ root \notin Kin(q) /\ Single(q) => Single(q)'

LEMMA StopKept ==
  ASSUME Whole, ~StopsBetween, Types', root \in Node, RootAbove,
         node' = StopNodes(node, {root}),
         \A e \in Engine : AlikeStub(e), box' = box, raised' = raised, root' = root
  PROVE  Halted
<1>1. Types /\ Tree /\ KidsOwn /\ AllValues /\ ~raised
  BY DEF Whole
<1>2. Halts(root, node, {})
  <2>1. root \in Reached
    BY <1>1, ReachedIs
  <2>2. Mirrors(node, {})
    BY <1>1 DEF Mirrors, Types
  <2> QED
    BY <1>1, <2>1, <2>2, StopSpreads
<1>3. /\ Live' = Live /\ (\A q : Kin(q)' = Kin(q)) /\ (\A p \in Node : Still(p))
      /\ \A p \in Node : node'[p].kids \subseteq node[p].kids /\ node'[p].sink = node[p].sink
  BY <1>2 DEF Halts
<1>4. \A q : root \notin Kin(q) => Excused(q, Kin(q))
  <2>1. \A q : root \notin Kin(q) => Kin(q) \ {root} = Kin(q)
    OBVIOUS
  <2> QED
    BY <1>2, <2>1 DEF Halts
<1>5. \A q : SameJobs(q)
  BY DEF AlikeStub, SameJobs, Busy, Open
<1>6. \A q : \A c \in Kin(q) : c \in Node /\ c \in Live
  BY DEF Kin, Live
<1>7. AllValues'
  <2>1. ASSUME NEW p \in Live PROVE Values(p)'
    <3>1. p \in Node /\ p \notin External
      BY Sizes DEF Live
    <3>2. root \notin Kin(p)
      BY <3>1 DEF Kin, RootAbove
    <3> QED
      BY <1>1, <1>3, <1>4, <1>5, <1>6, <3>1, <3>2, ValuesKept DEF AllValues
  <2> QED
    BY <1>3, <2>1 DEF AllValues
<1>8. KidsOwn'
  <2>1. \A x \in Reached : node'[x].kids \subseteq node[x].kids
    BY <1>1, <1>3, ReachedIs
  <2>2. \A c \in Live' : node'[c].sink = node[c].sink
    BY <1>3 DEF Live
  <2> QED
    BY <1>1, <1>3, <2>1, <2>2, KidsShrunk
<1>9. SinksStay
  BY <1>3 DEF SinksStay, Live
<1>10. ASSUME NEW q \in External, NEW P, Places(q, P) PROVE Places(q, P)'
  <2>1. \A c \in Kin(q) : node'[c].pos = node[c].pos
    BY <1>3, <1>6 DEF Still
  <2> QED
    BY <1>3, <1>5, <1>10, <2>1 DEF Places, SameJobs
<1>11. ASSUME NEW q \in External, root \notin Kin(q), Single(q) PROVE Single(q)'
  <2>1. q \notin Live
    BY Sizes DEF Live
  <2> QED
    BY <1>3, <1>4, <1>5, <1>6, <1>11, <2>1, QueueKept
<1> QED
  BY <1>1, <1>7, <1>8, <1>9, <1>10, <1>11 DEF Halted
-----------------------------------------------------------------------------
(* What a client may rely on at the end of its search.                     *)
LEMMA ExactRead ==
  ASSUME Types, NEW q \in Queue, CanFinish(q), EndsLast(q), ExactLast(box[q])
  PROVE  \E i \in Said(box[q]) : WaitStopped(q) = <<box[q][i]>> /\ box[q][i].type = "exact"
<1>1. PICK b \in Seq(MsgRec) : b = box[q]
  BY DEF Types
<1>2. PICK i \in Said(b) : b[i].type = "exact" /\ \A k \in Said(b) : k <= i
  BY <1>1 DEF ExactLast
<1>3. PICK n \in Nat : n = Len(b)
  OBVIOUS
<1>4. FirstStopped(q) = n
  BY <1>1, <1>3, FirstIsFirst DEF EndsLast
<1>5. b[n].type = "stopped" /\ n \in DOMAIN b /\ \A k \in DOMAIN b : b[k].type = "stopped" => k = n
  <2>1. FirstStopped(q) \in StoppedAt(q)
    BY FirstIsFirst
  <2> QED
    BY <1>1, <1>3, <1>4, <2>1 DEF StoppedAt, EndsLast
<1>6. i \in DOMAIN b /\ i # n /\ DOMAIN b = 1 .. n
  BY <1>1, <1>2, <1>3, <1>5 DEF Said
<1>7. n # 1 /\ n - 1 \in DOMAIN b /\ n - 1 # n
  BY <1>6
<1>8. n - 1 \in Said(b)
  BY <1>5, <1>7 DEF Said
<1>9. i = n - 1
  <2>1. n - 1 <= i
    BY <1>2, <1>8
  <2> QED
    BY <1>6, <2>1
<1>10. FirstStopped(q) # 1
  BY <1>4, <1>7
<1>11. WaitStopped(q) = <<box[q][FirstStopped(q) - 1]>>
  BY <1>10, FirstIsFirst
<1>12. WaitStopped(q) = <<box[q][i]>>
  BY <1>4, <1>9, <1>11
<1> QED
  BY <1>1, <1>2, <1>12

-----------------------------------------------------------------------------
(* A final value stands.                                                   *)
Stands(p) ==
  node[p].pc = "collect" /\ node'[p].pc = "collect" /\ IsFinal(node[p].maxval, node[p].bounds)
    => node'[p].maxval = node[p].maxval /\ IsFinal(node'[p].maxval, node'[p].bounds)

\* The objects but o keep their values.
Leaves(o) == \A p \in Live \ {o} : node'[p] = node[p]

LEMMA LeavesStands ==
  ASSUME NEW o \in Node, Leaves(o), Stands(o)
  PROVE  \A p \in Node : Stands(p)
<1>1. ASSUME NEW p \in Node, p # o, node[p].pc = "collect" PROVE node'[p] = node[p]
  BY <1>1 DEF Leaves, Live
<1> QED
  BY <1>1 DEF Stands

\* A thread that is not in its loop.
LEMMA OthersStand ==
  ASSUME Whole, ~StopsBetween, NEW o \in Node, NodeStep(o), ~Collect(o), ~Split(o), ~Forced(o)
  PROVE  \A p \in Node : Stands(p)
<1>0. node \in [Node -> NodeRec]
  BY DEF Whole, Types
<1>1. CASE node[o].pc # "collect"
  <2>1. Stands(o)
    BY <1>1 DEF Stands
  <2>2. ASSUME \E r : node' = [node EXCEPT ![o] = r] \/ node' = node PROVE Leaves(o)
    BY <1>0, <2>2 DEF Leaves, Live
  <2>3. CASE BookAnswered(o)
    BY <2>1, <2>2, <2>3, LeavesStands DEF BookAnswered
  <2>4. CASE GenmovesAnswered(o)
    BY <2>1, <2>2, <2>4, LeavesStands DEF GenmovesAnswered
  <2>5. CASE Presearch(o)
    BY <2>1, <2>2, <2>5, LeavesStands DEF Presearch, EndWith
  <2>6. CASE PresearchTake(o)
    BY <2>1, <2>2, <2>6, LeavesStands DEF PresearchTake, EndWith
  <2>7. CASE MateStopped(o) \/ PresearchEnd(o)
    BY <2>1, <2>2, <2>7, LeavesStands DEF MateStopped, PresearchEnd, EndWith
  <2>8. CASE ForcedStopped(o)
    BY <2>1, <2>2, <2>8, LeavesStands DEF ForcedStopped, EndWith
  <2>9. CASE Timeless(o) \/ ProbabilityAnswered(o)
    BY <2>1, <2>2, <2>9, LeavesStands DEF Timeless, ProbabilityAnswered
  <2>10. CASE SplitNothing(o)
    BY <2>1, <2>2, <2>10, LeavesStands DEF SplitNothing, EndWith
  <2>11. CASE Count(o)
    BY <2>1, <2>2, <2>11, LeavesStands DEF Count
  <2>12. CASE CollectStopped(o) \/ CollectEnd(o)
    BY <1>1, <2>12 DEF CollectStopped, CollectEnd
  <2> QED
    BY <2>3, <2>4, <2>5, <2>6, <2>7, <2>8, <2>9, <2>10, <2>11, <2>12 DEF NodeStep
<1>2. CASE node[o].pc = "collect"
  <2>1. CollectStopped(o) \/ CollectEnd(o)
    BY <1>2 DEF NodeStep, BookAnswered, GenmovesAnswered, Presearch, PresearchTake, MateStopped,
                PresearchEnd, ForcedStopped, Timeless, ProbabilityAnswered, SplitNothing, Count
  <2>2. CASE CollectStopped(o)
    <3>1. PICK M \in NodeRec : M = node[o]
      BY <1>0
    <3>2. PICK k : node' = [node EXCEPT ![o].stops = k]
      BY <2>2 DEF CollectStopped
    <3>3. PICK r : r = [M EXCEPT !.stops = k]
      OBVIOUS
    <3>4. node' = [node EXCEPT ![o] = r]
      BY <1>0, <3>1, <3>2, <3>3
    <3>5. r.maxval = M.maxval /\ r.bounds = M.bounds
      BY <3>3 DEF NodeRec
    <3>6. node'[o] = r /\ Leaves(o)
      BY <1>0, <3>4 DEF Leaves, Live
    <3>7. Stands(o)
      BY <3>1, <3>5, <3>6 DEF Stands
    <3> QED
      BY <3>6, <3>7, LeavesStands
  <2>3. CASE CollectEnd(o)
    <3>1. node' = [node EXCEPT ![o] = Done(node[o])]
      BY <2>3 DEF CollectEnd, EndWith
    <3>2. PICK d : d = Done(node[o])
      OBVIOUS
    <3>3. d.pc = "done"
      BY <3>2 DEF Done, FreeNode
    <3>4. node'[o] = d /\ Leaves(o)
      BY <1>0, <3>1, <3>2 DEF Leaves, Live
    <3>5. Stands(o)
      BY <3>3, <3>4 DEF Stands
    <3> QED
      BY <3>4, <3>5, LeavesStands
  <2> QED
    BY <2>1, <2>2, <2>3
<1> QED
  BY <1>1, <1>2

\* New objects take nobody's place.
LEMMA ForksStand ==
  ASSUME Whole, NEW o \in Node, Split(o) \/ Forced(o)
  PROVE  \A p \in Node : Stands(p)
<1>1. node[o].pc # "collect" /\ o \in Live /\ Types /\ Tree
  BY DEF Split, Forced, Whole, Live
<1>2. Stands(o)
  BY <1>1 DEF Stands
<1>3. CASE Forced(o)
  <2>1. Leaves(o)
    <3>1. CASE node[o].ply = 0
      BY <1>1, <1>3, <3>1 DEF Forced, EndWith, Leaves, Live, Types
    <3>2. CASE node[o].ply # 0
      <4>1. Fresh \in Unused
        <5>1. Room(1)
          BY <1>3, <3>2 DEF Forced
        <5>2. Unused # {}
          <6>1. Cardinality(Unused) >= 1
            BY <5>1, UnusedIs, FS_CardinalityType DEF Room
          <6>2. Unused = {} => Cardinality(Unused) = 0
            BY FS_EmptySet, Zenon
          <6> QED
            BY <6>1, <6>2
        <5> QED
          BY <5>2 DEF Fresh
      <4>2. PICK c : c = Fresh /\ c \notin Live
        BY <4>1, UnusedIs
      <4>3. PICK late \in BOOLEAN :
              node' = [node EXCEPT ![o].pc = "forcedwait", ![o].kids = {c}, ![o].stubs = {},
                         ![c] = Searched(New(node[o].usis, Append(node[o].pos, 1),
                                             node[o].ply + 1, o, late), late)]
        BY <1>3, <3>2, <4>2 DEF Forced
      <4> QED
        BY <1>1, <4>2, <4>3 DEF Leaves, Live, Types
    <3> QED
      BY <3>1, <3>2
  <2> QED
    BY <1>2, <2>1, LeavesStands
<1>4. CASE Split(o)
  <2>1. PICK kids, id, late : Splits(o, kids, id, late)
    BY <1>1, <1>4, SplitIs, Zenon
  <2>2. ASSUME NEW p \in Live, p # o PROVE node'[p] = node[p]
    <3>1. \A i \in DOMAIN kids : id[i] \in Unused
      BY <2>1 DEF Splits, Placed
    <3>2. p \in Node /\ p \notin Unused
      BY UnusedIs DEF Live
    <3>3. p \notin {id[i] : i \in DOMAIN kids}
      BY <3>1, <3>2
    <3> QED
      BY <2>1, <2>2, <3>2, <3>3 DEF Splits
  <2>3. Leaves(o)
    BY <2>2 DEF Leaves
  <2> QED
    BY <1>2, <2>3, LeavesStands
<1> QED
  BY <1>3, <1>4

\* The loop: no report changes a final value.
LEMMA CollectStands ==
  ASSUME Whole, NEW o \in Node, Collect(o)
  PROVE  \A p \in Node : Stands(p)
<1>1. PICK A : A = Noted(node[o], Head(box[o]))
  OBVIOUS
<1>2. PICK noted : noted = [node EXCEPT ![o] = A]
  OBVIOUS
<1>3. /\ node[o].pc = "collect" /\ box[o] # <<>> /\ Head(box[o]).type # "stopped"
      /\ node' = noted \/ node' = StopNodes(noted, {o})
  BY <1>1, <1>2 DEF Collect
<1>4. o \in Live /\ Types /\ Tree
  BY <1>3 DEF Whole, Live
<1>5. PICK m \in MsgRec : m = Head(box[o])
  <2>1. PICK b \in Seq(MsgRec) : b = box[o]
    BY <1>4, LiveTypes DEF Types
  <2>2. b # <<>>
    BY <1>3, <2>1
  <2>3. Head(b) \in MsgRec
    BY <2>2
  <2> QED
    BY <2>1, <2>3
<1>6. A \in NodeRec
  BY <1>1, <1>4, <1>5, NotedType DEF Types
<1>7. noted \in [Node -> NodeRec] /\ noted[o] = A /\ \A p \in Node \ {o} : noted[p] = node[p]
  BY <1>2, <1>4, <1>6 DEF Types
<1>8. IsFinal(node[o].maxval, node[o].bounds)
        => A.maxval = node[o].maxval /\ IsFinal(A.maxval, A.bounds)
  <2>1. PICK k, mv : k = node[o].count /\ mv = node[o].maxval
    OBVIOUS
  <2>2. IsFinal(mv, node[o].bounds) => A.maxval = mv /\ IsFinal(A.maxval, A.bounds)
    BY <1>1, <1>3, <1>4, <2>1, ReportRead
  <2> QED
    BY <2>1, <2>2
<1>9. \A p \in Node : node'[p].maxval = noted[p].maxval /\ node'[p].bounds = noted[p].bounds
  <2>1. CASE node' = noted
    BY <2>1
  <2>2. CASE node' = StopNodes(noted, {o})
    BY <1>7, <2>2, StoppedAs
  <2> QED
    BY <1>3, <2>1, <2>2
<1>10. Stands(o)
  BY <1>7, <1>8, <1>9 DEF Stands
<1>11. \A p \in Node \ {o} : Stands(p)
  BY <1>7, <1>9 DEF Stands
<1> QED
  BY <1>10, <1>11

LEMMA StopStands ==
  ASSUME Types, NEW S, node' = StopNodes(node, S)
  PROVE  \A p \in Node : Stands(p)
<1>1. \A p \in Node : node'[p].maxval = node[p].maxval /\ node'[p].bounds = node[p].bounds
  BY StoppedAs DEF Types
<1> QED
  BY <1>1 DEF Stands

LEMMA NodeStands ==
  ASSUME Whole, ~StopsBetween, NEW o \in Node, NodeStep(o)
  PROVE  \A p \in Node : Stands(p)
BY OthersStand, ForksStand, CollectStands

-----------------------------------------------------------------------------
(* One root search.                                                        *)

\* The object of a root search, before it asks for the book.
LEMMA RootBare ==
  ASSUME NEW u, NEW pos, NEW q, NEW late, NEW r, r = RootCall(New(u, pos, 0, q, late))
  PROVE  /\ r.kids = {} /\ r.maxval = -1 /\ ~r.stopped /\ r.pos = pos /\ r.sink = q
         /\ r.pc = "book" /\ r.usis = u
<1>1. PICK M \in NodeRec : M = FreeNode
  BY FreeIs
<1>2. M.kids = {} /\ M.maxval = -1 /\ ~M.stopped
  BY <1>1 DEF FreeNode
<1>3. PICK z : z = 0
  OBVIOUS
<1>4. PICK s : s = [M EXCEPT !.pc = "new", !.usis = u, !.pos = pos, !.ply = z, !.sink = q,
                             !.late = late]
  OBVIOUS
<1>5. New(u, pos, 0, q, late) = s
  BY <1>1, <1>3, <1>4, Zenon DEF New
<1>6. r = [s EXCEPT !.pc = "book"]
  BY <1>5, Zenon DEF RootCall
<1> QED
  BY <1>2, <1>4, <1>6 DEF NodeRec

\* The object that is made is about the engines and the position it was made for.
LEMMA NewFields ==
  ASSUME NEW u, NEW pos, NEW q, NEW late, NEW M, M = New(u, pos, 0, q, late)
  PROVE  M.usis = u /\ M.pos = pos
<1>1. PICK F \in NodeRec : F = FreeNode
  BY FreeIs
<1>2. PICK z : z = 0
  OBVIOUS
<1>3. PICK s : s = [F EXCEPT !.pc = "new", !.usis = u, !.pos = pos, !.ply = z, !.sink = q,
                             !.late = late]
  OBVIOUS
<1>4. M = s
  BY <1>1, <1>2, <1>3, Zenon DEF New
<1> QED
  BY <1>3, <1>4 DEF NodeRec

\* The stub r after it was asked about the position pos.
LEMMA AskedOnce ==
  ASSUME NEW r \in StubRec, r.jobs = <<>>, NEW pos, NEW q, NEW g, g = Ask(r, "book", pos, q)
  PROVE  g.jobs # <<>> /\ g.jobs[1].pos = pos /\ g.sink = q
<1>1. PICK j : j = Job("book", pos, FALSE)
  OBVIOUS
<1>2. j.pos = pos
  BY <1>1 DEF Job
<1>3. g = [r EXCEPT !.sink = q, !.jobs = Append(@, j)]
  BY <1>1, Zenon DEF Ask
<1>4. Append(<<>>, j) = <<j>> /\ <<j>> # <<>> /\ <<j>>[1] = j
  OBVIOUS
<1>5. g.jobs = Append(<<>>, j) /\ g.sink = q
  BY <1>3 DEF StubRec
<1> QED
  BY <1>2, <1>4, <1>5

\* The object c has just been made for the queue q, and has asked for the book.
Starts(c, q, pos) ==
  /\ node[c].kids = {} /\ node[c].maxval = -1 /\ ~node[c].stopped /\ node[c].pos = pos
  /\ node[c].sink = q /\ node[c].pc = "book"
  /\ box[c] = <<>> /\ Kin(c) = {} /\ \A e \in Busy(c) : eng[e].jobs[1].pos = pos

LEMMA StartValues ==
  ASSUME NEW c \in Node, NEW q \in External, NEW pos, Starts(c, q, pos)
  PROVE  /\ Values(c) /\ Single(q)
         /\ Busy(q) = {} /\ Kin(q) = {c} /\ box[q] = <<>> => Places(q, pos)
<1>1. c \in Kin(q) /\ Keen(c)
  BY DEF Starts, Kin, Live, Keen
<1>2. Single(q)
  BY <1>1 DEF Single, Hopes
<1>3. Said(<<>>) = {}
  BY DEF Said
<1>4. Places(c, node[c].pos)
  BY <1>3 DEF Starts, Places
<1>5. Values(c)
  BY <1>4 DEF Starts, Values, Waiting
<1>6. Busy(q) = {} /\ Kin(q) = {c} /\ box[q] = <<>> => Places(q, pos)
  BY <1>3 DEF Starts, Places
<1> QED
  BY <1>2, <1>5, <1>6

WholeInvariant ==
  ClusterInvariant /\ Whole /\ root \in Node /\ (asked \/ Single(Client)) /\ RootAbove

\* The first search has no values yet, and nobody stopped it.
LEMMA WholeStarts ==
  ASSUME NEW q \in External, NEW ps \in Seq(Nat), StartsWith(q, ps)
  PROVE  Whole /\ RootAbove /\ Single(q) /\ Places(q, ps)
<1>1. /\ Types /\ Tree /\ Live = {1} /\ root = 1
      /\ \A p \in Queue : box[p] = <<>>
  BY RootStarts
<1>2. Types /\ Tree
  BY <1>1
<1>3. 1 \in Node /\ 1 \in Engine /\ 1 \in Queue /\ 1 \notin External /\ q \in Queue /\ q # 1
  BY Sizes DEF Node, Engine
<1>4. PICK u, f : u = [i \in 1 .. N |-> i] /\ f = FALSE
  OBVIOUS
<1>5. PICK M, r : M = New(u, ps, 0, q, f) /\ r = RootCall(M)
  OBVIOUS
<1>6. M = New([i \in 1 .. N |-> i], ps, 0, q, FALSE)
  BY <1>4, <1>5, Zenon
<1>7. /\ r.kids = {} /\ r.maxval = -1 /\ ~r.stopped /\ r.pos = ps /\ r.sink = q
      /\ r.pc = "book" /\ r.usis = u
  BY <1>5, RootBare
<1>8. /\ node = [o \in Node |-> IF o = 1 THEN r ELSE FreeNode] /\ box = [p \in Queue |-> <<>>]
      /\ ~raised /\ root = 1
      /\ eng = RootAsks([e \in Engine |-> IdleStub], 1, M)
  BY <1>5, <1>6, Zenon DEF StartsWith
<1>9. /\ node[1] = r /\ \A o \in Node : o # 1 => node[o].pc = "free"
  BY <1>3, <1>8, FreeIs
<1>10. \A o \in Node : node[o].kids = {}
  <2>1. FreeNode.kids = {}
    BY DEF FreeNode
  <2> QED
    BY <1>7, <1>8, <2>1
<1>11. Live = {1}
  BY <1>3, <1>7, <1>9 DEF Live
<1>12. KidsOwn
  <2>1. Reached \subseteq Node
    BY <1>2, ReachedIs
  <2> QED
    BY <1>10, <2>1 DEF KidsOwn
<1>13. PICK E \in [Engine -> StubRec] : E = [e \in Engine |-> IdleStub]
  BY FreeIs
<1>14. \A e \in Engine : E[e].jobs = <<>> /\ E[e] \in StubRec
  BY <1>13, FreeIs
<1>15. M.usis = u /\ M.pos = ps
  BY <1>5, NewFields
<1>16. Head(u) = 1
  <2>1. PICK k \in Nat \ {0} : k = N
    BY SizesAssumption
  <2> QED
    BY <1>4, <2>1
<1>17. PICK g : g = Ask(E[1], "book", ps, 1)
  OBVIOUS
<1>18. eng = [E EXCEPT ![1] = g]
  <2>1. eng = [E EXCEPT ![Head(M.usis)] = Ask(@, "book", M.pos, 1)]
    BY <1>8, <1>13, Zenon DEF RootAsks
  <2>2. eng = [E EXCEPT ![1] = Ask(@, "book", ps, 1)]
    BY <1>15, <1>16, <2>1, Zenon
  <2> QED
    BY <1>17, <2>2
<1>19. g.jobs # <<>> /\ g.jobs[1].pos = ps /\ g.sink = 1
  BY <1>3, <1>14, <1>17, AskedOnce
<1>20. eng[1] = g /\ \A e \in Engine : e # 1 => eng[e].jobs = <<>>
  BY <1>3, <1>14, <1>18
<1>21. Starts(1, q, ps)
  <2>1. box[1] = <<>>
    BY <1>3, <1>8
  <2>2. Kin(1) = {}
    BY <1>3, <1>7, <1>9, <1>11 DEF Kin
  <2>3. \A e \in Busy(1) : eng[e].jobs[1].pos = ps
    BY <1>19, <1>20 DEF Busy, Open
  <2> QED
    BY <1>7, <1>9, <2>1, <2>2, <2>3 DEF Starts
<1>22. Values(1) /\ Single(q) /\ Places(q, ps)
  <2>1. Busy(q) = {}
    BY <1>3, <1>19, <1>20 DEF Busy, Open
  <2>2. Kin(q) = {1} /\ box[q] = <<>>
    BY <1>1, <1>3, <1>7, <1>9, <1>11 DEF Kin
  <2> QED
    BY <1>3, <1>21, <2>1, <2>2, StartValues
<1>23. AllValues
  BY <1>11, <1>22 DEF AllValues
<1>24. RootAbove
  BY <1>3, <1>7, <1>8, <1>9 DEF RootAbove
<1> QED
  BY <1>2, <1>8, <1>12, <1>22, <1>23, <1>24 DEF Whole

LEMMA WholeInit ==
  ASSUME Init
  PROVE  WholeInvariant
<1>1. ClusterInvariant
  BY ClusterInit
<1>2. PICK ps \in Seq(Nat) : ps = <<>>
  <2>1. <<>> \in Seq(Nat)
    OBVIOUS
  <2> QED
    BY <2>1, Zenon
<1>3. StartsWith(Client, ps)
  BY <1>2, Zenon DEF Init, StartsWith
<1>4. Client \in External
  BY DEF External
<1>5. Whole /\ RootAbove /\ Single(Client)
  BY <1>3, <1>4, WholeStarts
<1>6. root \in Node
  <2>1. root = 1
    BY Zenon DEF Init
  <2> QED
    BY <2>1, Sizes DEF Node
<1> QED
  BY <1>1, <1>5, <1>6 DEF WholeInvariant

LEMMA WholeNext ==
  ASSUME WholeInvariant, ~StopsBetween, [Next]_vars
  PROVE  WholeInvariant' /\ \A p \in Node : Stands(p)
<1>1. ClusterInvariant' /\ ClusterInvariant /\ Types' /\ Tree'
  BY ClusterNext DEF WholeInvariant, ClusterInvariant
<1>2. Whole /\ root \in Node /\ RootAbove /\ root \in Reached /\ Load(Client) = 1 /\ Client \in External
      /\ (asked \/ Single(Client))
  BY ReachedIs DEF WholeInvariant, Whole, ClusterInvariant, ClientInv, External
<1>3. ASSUME Kept, root' = root, asked' = asked PROVE WholeInvariant'
  <2>1. Whole'
    BY <1>1, <1>3 DEF Kept, Whole
  <2>2. RootAbove'
    BY <1>2, <1>3 DEF Kept, SinksStay, RootAbove
  <2>3. asked' \/ Single(Client)'
    BY <1>2, <1>3 DEF Kept, Follows
  <2> QED
    BY <1>1, <1>2, <1>3, <2>1, <2>2, <2>3 DEF WholeInvariant
<1>4. ASSUME NEW e \in Engine, ReaderStep(e) PROVE WholeInvariant' /\ \A p \in Node : Stands(p)
  <2>1. Kept
    BY <1>2, <1>4, AnswerKept
  <2>2. node' = node /\ root' = root /\ asked' = asked
    BY <1>4 DEF ReaderStep
  <2> QED
    BY <1>3, <2>1, <2>2 DEF Stands
<1>5. ASSUME NEW o \in Node, NodeStep(o) PROVE WholeInvariant' /\ \A p \in Node : Stands(p)
  <2>1. Kept /\ \A p \in Node : Stands(p)
    BY <1>2, <1>5, NodeKept, NodeStands
  <2>2. root' = root /\ asked' = asked
    BY <1>5 DEF NodeStep, BookAnswered, GenmovesAnswered, Presearch, PresearchTake, MateStopped,
                PresearchEnd, Forced, ForcedStopped, Timeless, ProbabilityAnswered, Split,
                SplitAmong, SplitNothing, Count, Collect, CollectStopped, CollectEnd
  <2> QED
    BY <1>3, <2>1, <2>2
<1>6. CASE ClientStop
  <2>1. /\ node' = StopNodes(node, {root}) /\ eng' = StopStubs(eng, StubsOf(node, {root}))
        /\ box' = box /\ raised' = raised /\ root' = root /\ asked' = TRUE
    BY <1>6 DEF ClientStop
  <2>2. \A e \in Engine : AlikeStub(e)
    BY <1>2, <2>1, StoppedStubs DEF Whole
  <2>3. Halted
    BY <1>1, <1>2, <2>1, <2>2, StopKept
  <2>4. Whole'
    BY <1>1, <2>3 DEF Halted, Whole
  <2>5. RootAbove'
    BY <1>2, <2>1, <2>3 DEF Halted, SinksStay, RootAbove
  <2>6. \A p \in Node : Stands(p)
    BY <1>2, <2>1, StopStands DEF Whole
  <2> QED
    BY <1>1, <1>2, <2>1, <2>4, <2>5, <2>6 DEF WholeInvariant
<1>7. CASE UNCHANGED vars
  <2>1. node' = node /\ eng' = eng /\ box' = box /\ raised' = raised /\ root' = root /\ asked' = asked
    BY <1>7 DEF vars
  <2>2. KidsOwn' /\ SinksStay /\ Live' = Live /\ \A q : Kin(q)' = Kin(q)
    BY <1>2, <2>1, SameKids DEF Whole
  <2>3. \A p : Still(p)
    BY <2>1 DEF Still
  <2>4. \A q : SameJobs(q) /\ Excused(q, Kin(q))
    BY <2>1 DEF SameJobs, Busy, Open, Excused
  <2>5. AllValues'
    BY <1>2, <2>1, <2>2, <2>3, <2>4, ValuesKept DEF Whole, AllValues
  <2>6. Whole'
    BY <1>1, <1>2, <2>1, <2>2, <2>5 DEF Whole
  <2>7. RootAbove'
    BY <1>2, <2>1, <2>2 DEF SinksStay, RootAbove
  <2>8. Single(Client) => Single(Client)'
    <3>1. Client \notin Live
      BY <1>2, Sizes DEF Live
    <3> QED
      BY <2>1, <2>2, <2>3, <2>4, <3>1, QueueKept
  <2>9. \A p \in Node : Stands(p)
    BY <2>1 DEF Stands
  <2> QED
    BY <1>1, <1>2, <2>1, <2>6, <2>7, <2>8, <2>9 DEF WholeInvariant
<1> QED
  BY <1>4, <1>5, <1>6, <1>7 DEF Next, Work

\* While no stop falls between the halves of split_search, what every queue is still to be told
\* is bounded by what it was told before, and a value that is needed is on its way.
THEOREM WholeHolds ==
  Spec /\ StopsOutside => []WholeInvariant
<1>1. Init => WholeInvariant
  BY WholeInit
<1>2. WholeInvariant /\ [Next]_vars /\ [~StopsBetween]_vars => WholeInvariant'
  BY WholeNext, Outside
<1> QED
  BY <1>1, <1>2, PTL DEF Spec, StopsOutside

\* In every behaviour in which no stop, the client's or an object's own, falls between
\* usiMulti.rb:180 and :183, no thread of usiMulti.rb meets one of its raises. The raise that
\* such a stop leads to is what NoRaise is violated by in the run ponder_race.
THEOREM NoRaiseHolds ==
  Spec /\ StopsOutside => []NoRaise
<1>1. WholeInvariant => NoRaise
  BY DEF WholeInvariant, Whole, NoRaise
<1> QED
  BY <1>1, WholeHolds, PTL

\* A root search that its client did not stop has an exact result when it ends and leaves
\* nobody working, in every behaviour in which no object stops another between usiMulti.rb:180
\* and :183. An object's own stop can fall there with four processes or more.
THEOREM EndIsWholeHolds ==
  Spec /\ StopsOutside => []EndIsWhole
<1>1. WholeInvariant /\ EndIsQuiet => EndIsWhole
  <2>1. SUFFICES ASSUME WholeInvariant, CanFinish(Client), ~asked
                 PROVE  \E m \in ToSet(WaitStopped(Client)) : m.type = "exact"
    BY DEF EndIsWhole
  <2>2. Types /\ Load(Client) = 1 /\ Client \in Queue /\ Single(Client) /\ EndsLast(Client)
    BY <2>1, Sizes DEF WholeInvariant, ClusterInvariant, ClientInv, External, EndsLast
  <2>3. Busy(Client) = {} /\ Kin(Client) = {}
    BY <2>1, <2>2, LastEnd
  <2>4. ExactLast(box[Client])
    BY <2>2, <2>3 DEF Single, Hopes
  <2>5. PICK m : WaitStopped(Client) = <<m>> /\ m.type = "exact"
    BY <2>1, <2>2, <2>4, ExactRead
  <2>6. m \in ToSet(<<m>>)
    BY DEF ToSet
  <2> QED
    BY <2>5, <2>6
<1> QED
  BY <1>1, WholeHolds, EndIsQuietHolds, PTL

\* A final value stands, in every behaviour in which no stop falls between usiMulti.rb:180
\* and :183: what the searchers that were stopped for it still report does not change it.
THEOREM FinalStandsHolds ==
  Spec /\ StopsOutside => FinalStands
<1>1. WholeInvariant /\ [Next]_vars /\ [~StopsBetween]_vars
        => [\A o \in Node : node[o].pc = "collect" /\ node'[o].pc = "collect"
              /\ IsFinal(node[o].maxval, node[o].bounds)
              => node'[o].maxval = node[o].maxval /\ IsFinal(node'[o].maxval, node'[o].bounds)]_vars
  BY WholeNext, Outside DEF Stands
<1> QED
  BY <1>1, WholeHolds, PTL DEF Spec, StopsOutside, FinalStands
=============================================================================
