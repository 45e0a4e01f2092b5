------------------------ MODULE NtfsIndexTreeProofs -------------------------
(***************************************************************************)
(* What the calls do to the tree of NtfsIndex, and what it promises, for   *)
(* any names and sizes, any volume, and any number of calls.               *)
(*                                                                         *)
(* Each part of a call takes labels to labels: a split gives the new block *)
(* the level of the old, a push-down raises the record, a separator that   *)
(* is replaced moves a bound.                                              *)
(*                                                                         *)
(* At the end, what the calls cost: the room in the record, and one block  *)
(* for each level that a split climbs.                                     *)
(***************************************************************************)
EXTENDS NtfsIndexProofs

(***************************************************************************)
(* Insertion below the root.                                               *)
(***************************************************************************)
\* e is the tree with k in it, the nodes of d where they were.
Gained(d, g, k, e) ==
  /\ KeysIn(e) = KeysIn(d) \cup {k}
  /\ \E h : Tree(e, -1, h) /\ \A u \in InTree(d) : h.lev[u] = g.lev[u]
\* What the insertion of k below v promises: the tree with k, or with v's separator once
\* it is in v's parent.
Grew(d, g, v, k, r) ==
  /\ r.how = "exists" => k \in KeysIn(d)
  /\ r.how = "done" => Gained(d, g, k, r.dir)
  /\ r.how = "split" =>
       /\ r.dir \in Volume /\ d.used \subseteq r.dir.used
       /\ \A u \in InTree(d) : g.lev[u] > g.lev[v] => NodeAt(r.dir, u) = NodeAt(d, u)
       /\ \A i \in Slots(NodeAt(d, g.par[v])) : SubAt(NodeAt(d, g.par[v]), i) = v =>
            Gained(d, g, k, NodeWith(r.dir, g.par[v], Promote(NodeAt(d, g.par[v]), i, r.sep, r.right)))

\* What has no pointers has none at the median.
LEMMA BareMedian ==
  ASSUME NEW m \in Node, Bare(m), m.keys # << >>
  PROVE  m.keys[(Len(m.keys) \div 2) + 1].sub = None
<1>1. PICK c \in Nat : c = Len(m.keys) /\ c >= 1
  <2>1. Len(m.keys) \in Nat /\ m.keys \in Seq(Item)
    BY NodeFacts
  <2>2. Len(m.keys) # 0
    BY <2>1
  <2> QED BY <2>1, <2>2
<1>2. PICK j : j = (c \div 2) + 1
  OBVIOUS
<1>3. j \in 1..c
  BY <1>1, <1>2, HalfFacts
<1>4. j \in Slots(m) /\ j <= Len(m.keys)
  <2>1. j \in 1..(c + 1) /\ j <= c
    BY <1>1, <1>3
  <2> QED BY <2>1, <1>1 DEF Slots
<1>5. SubAt(m, j) = None
  BY <1>4 DEF Bare
<1>6. m.keys[j].sub = None
  BY <1>4, <1>5 DEF SubAt
<1> QED BY <1>1, <1>2, <1>6

\* Adding to a leaf that is not full, or splitting it.
LEMMA LeafStep ==
  ASSUME NEW d, NEW g, Tree(d, -1, g), NEW v \in d.used, g.lev[v] = 0, NEW k \in Key,
         Between(k, g.lo[v], g.hi[v]), ~ Has(d.node[v], k), NEW r, r = InsertLeaf(d, v, k)
  PROVE  Grew(d, g, v, k, r)
<1>1. /\ d \in Volume /\ v \in Block /\ v # None /\ v \in InTree(d) /\ InTree(d) \subseteq Place
  BY TreeFacts
<1>2. PICK n \in Node : n = d.node[v] /\ Bare(n) /\ n.end = None /\ n = NodeAt(d, v)
  BY LeafBare
<1>3. PICK m : m = [keys |-> WithKey(d, v, k), end |-> d.node[v].end]
  OBVIOUS
<1>4. PICK t : t = Put(d, v, m)
  OBVIOUS
<1>5. Tree(t, -1, g) /\ KeysIn(t) = KeysIn(d) \cup {k} /\ m \in Node /\ Len(m.keys) = Len(n.keys) + 1
  <2>1. PICK x : x = -1
    OBVIOUS
  <2>2. Tree(d, x, g) /\ x \in {-1, v} /\ ~ Has(d.node[v], k)
    BY <2>1
  <2>3. Tree(t, -1, g) /\ KeysIn(t) = KeysIn(d) \cup {k} /\ m \in Node /\ Len(m.keys) = Len(d.node[v].keys) + 1
    BY <2>2, <1>3, <1>4, AddLeaf
  <2> QED BY <2>3, <1>2
<1>6. /\ InTree(t) = InTree(d) /\ t.used = d.used /\ NodeAt(t, v) = m
      /\ \A u \in Place : u # v => NodeAt(t, u) = NodeAt(d, u)
  BY <1>1, <1>4, <1>5, PutNodes
<1>7. Gained(d, g, k, t)
  BY <1>5 DEF Gained
<1>8. CASE LeafFits(d, v, k)
  <2>1. r = Done(t)
    BY <1>1, <1>3, <1>4, <1>8, InsertLeafFacts
  <2>2. r.how = "done" /\ r.dir = t
    BY <2>1 DEF Done
  <2> QED BY <2>2, <1>7 DEF Grew
<1>9. CASE ~ LeafFits(d, v, k)
  <2>1. r = SplitNode(d, v, WithKey(d, v, k), None, None) /\ WithKey(d, v, k) \in Seq(Item)
    BY <1>1, <1>9, InsertLeafFacts
  <2>2. m.keys = WithKey(d, v, k) /\ m.end = None
    BY <1>2, <1>3
  <2>3. ~ (Width(m.keys) <= BlockRoom)
    <3>1. SubAt(n, Slot(n, k)) = None
      BY <1>2, SlotFacts DEF Bare, Slots
    <3> QED BY <3>1, <2>2, <1>2, <1>9 DEF LeafFits
  <2>4. m.keys # << >>
    <3>1. Len(m.keys) # 0
      BY <1>2, <1>5, NodeFacts
    <3> QED BY <3>1
  <2>5. Len(m.keys) >= 3
    BY <2>3, <2>4, <1>5, WideFacts
  <2>6. Bare(m)
    <3>1. v \in t.used /\ t.node[v] = m
      BY <1>1, <1>6 DEF NodeAt
    <3> QED BY <3>1, <1>5, LeafBare
  <2>7. r = Overflow(d, v, m)
    <3>1. m.keys[(Len(m.keys) \div 2) + 1].sub = None
      BY <2>4, <2>6, <1>5, BareMedian
    <3> QED BY <3>1, <2>1, <2>2 DEF Overflow
  <2>8. CASE r.how = "split"
    <3>1. PICK p : p = g.par[v]
      OBVIOUS
    <3>2. p \in InTree(d) /\ p # v /\ p \in Place
      BY <3>1, <1>1, ParentFacts
    <3>3. NodeAt(t, p) = NodeAt(d, p)
      BY <3>2, <1>6
    <3>4. ASSUME NEW i \in Slots(NodeAt(d, p)), SubAt(NodeAt(d, p), i) = v,
                 NEW e, e = NodeWith(r.dir, p, Promote(NodeAt(d, p), i, r.sep, r.right))
          PROVE  Stepped(t, g, v, r, e)
      <4>1. PICK M : M = Promote(NodeAt(t, p), i, r.sep, r.right)
        OBVIOUS
      <4>2. e = NodeWith(r.dir, p, M) /\ i \in Slots(NodeAt(t, p)) /\ SubAt(NodeAt(t, p), i) = v
        BY <3>3, <3>4, <4>1
      <4>3. v \in t.used
        BY <1>6
      <4> QED BY <4>1, <4>2, <4>3, <3>1, <2>5, <2>7, <2>8, <1>1, <1>4, <1>5, SplitStep
    <3>5. ASSUME NEW i \in Slots(NodeAt(d, p)), SubAt(NodeAt(d, p), i) = v
          PROVE  Gained(d, g, k, NodeWith(r.dir, p, Promote(NodeAt(d, p), i, r.sep, r.right)))
      <4>1. PICK e : e = NodeWith(r.dir, p, Promote(NodeAt(d, p), i, r.sep, r.right))
        OBVIOUS
      <4>2. StillTree(t, g, e)
        BY <4>1, <3>4, <3>5 DEF Stepped
      <4> QED BY <4>1, <4>2, <1>5, <1>6 DEF StillTree, Gained
    <3>6. PICK i \in Slots(NodeAt(d, p)) : SubAt(NodeAt(d, p), i) = v
      BY <3>1, ParentFacts
    <3>7. PICK e : e = NodeWith(r.dir, p, Promote(NodeAt(d, p), i, r.sep, r.right))
      OBVIOUS
    <3>8. /\ r.dir \in Volume /\ t.used \subseteq r.dir.used
          /\ \A u \in InTree(t) : u # v => NodeAt(r.dir, u) = NodeAt(t, u)
      BY <3>4, <3>6, <3>7 DEF Stepped
    <3>9. \A u \in InTree(d) : g.lev[u] > g.lev[v] => NodeAt(r.dir, u) = NodeAt(d, u)
      <4>1. \A u \in InTree(d) : g.lev[u] > g.lev[v] => u # v
        BY <1>1, TreeFacts
      <4> QED BY <4>1, <3>8, <1>1, <1>6
    <3> QED BY <3>1, <3>5, <3>8, <3>9, <2>8, <1>6 DEF Grew
  <2>9. CASE r.how # "split"
    <3>1. r.how = "refused"
      <4>1. PICK half : half = Len(WithKey(d, v, k)) \div 2
        OBVIOUS
      <4>2. None \in Sub
        BY ConstFacts
      <4>3. r = Refused(d)
        BY <4>1, <4>2, <2>1, <2>9, <1>1, SplitFacts
      <4> QED BY <4>3 DEF Refused
    <3> QED BY <3>1 DEF Grew
  <2> QED BY <2>8, <2>9
<1> QED BY <1>8, <1>9

\* A separator that has come up from a child goes into its parent, which may be split.
LEMMA InnerStep ==
  ASSUME NEW d, NEW g, Tree(d, -1, g), NEW v \in d.used, NEW k \in Key, NEW n, n = NodeAt(d, v),
         NEW i \in Slots(n), NEW c \in d.used, SubAt(n, i) = c, NEW b \in Result(d), Grew(d, g, c, k, b),
         b.how = "split", NEW m, m = Promote(n, i, b.sep, b.right), NEW r,
         \/ Width(m.keys) <= BlockRoom /\ r = Done(Put(b.dir, v, m))
         \/ ~ (Width(m.keys) <= BlockRoom) /\ r = Overflow(b.dir, v, m)
  PROVE  Grew(d, g, v, k, r)
<1>1. /\ d \in Volume /\ v \in Block /\ v # None /\ v \in InTree(d) /\ InTree(d) \subseteq Place
      /\ c \in Block /\ n \in Node /\ \A u \in Place : g.lev[u] \in Nat
  BY TreeFacts
<1>2. g.par[c] = v /\ g.lev[c] + 1 = g.lev[v]
  BY <1>1, PointerFacts
<1>3. PICK f : f = b.dir
  OBVIOUS
<1>4. /\ f \in Volume /\ d.used \subseteq f.used
      /\ \A u \in InTree(d) : g.lev[u] > g.lev[c] => NodeAt(f, u) = NodeAt(d, u)
  BY <1>3 DEF Grew
<1>5. PICK t : t = Put(f, v, m)
  OBVIOUS
<1>6. Gained(d, g, k, t)
  <2>1. Gained(d, g, k, NodeWith(b.dir, v, m))
    BY <1>2 DEF Grew
  <2> QED BY <2>1, <1>1, <1>3, <1>5 DEF NodeWith
<1>7. m \in Node /\ Len(m.keys) = Len(n.keys) + 1 /\ Len(n.keys) \in Nat
  <2>1. PICK x \in Item : x = b.sep
    BY ResultFacts
  <2>2. PICK w \in Sub : w = b.right
    BY ResultFacts, ConstFacts
  <2>3. m = Promote(n, i, x, w) /\ i \in 1..(Len(n.keys) + 1)
    BY <2>1, <2>2 DEF Slots
  <2> QED BY <2>3, <1>1, PromoteFacts, NodeFacts
<1>8. CASE r = Done(t)
  <2>1. r.how = "done" /\ r.dir = t
    BY <1>8 DEF Done
  <2> QED BY <2>1, <1>6 DEF Grew
<1>9. CASE ~ (Width(m.keys) <= BlockRoom) /\ r = Overflow(f, v, m)
  <2>1. Len(m.keys) >= 3
    <3>1. Len(m.keys) # 0
      BY <1>7
    <3>2. m.keys # << >>
      BY <3>1
    <3> QED BY <3>2, <1>7, <1>9, WideFacts
  <2>2. PICK h : Tree(t, -1, h) /\ \A u \in InTree(d) : h.lev[u] = g.lev[u]
    BY <1>6 DEF Gained
  <2>3. KeysIn(t) = KeysIn(d) \cup {k}
    BY <1>6 DEF Gained
  <2>4. /\ InTree(t) = InTree(f) /\ t.used = f.used /\ NodeAt(t, v) = m
        /\ \A u \in Place : u # v => NodeAt(t, u) = NodeAt(f, u)
    BY <1>1, <1>4, <1>5, <1>7, PutNodes
  <2>5. PICK p : p = g.par[v]
    OBVIOUS
  <2>6. p \in InTree(d) /\ p # v /\ p \in Place /\ g.lev[p] = g.lev[v] + 1
    BY <2>5, <1>1, ParentFacts
  <2>7. InTree(d) \subseteq InTree(t) /\ v \in t.used
    BY <2>4, <1>1, <1>4 DEF InTree
  <2>8. NodeAt(t, p) = NodeAt(d, p)
    <3>1. g.lev[p] > g.lev[c]
      BY <2>6, <1>1, <1>2 DEF Place
    <3> QED BY <3>1, <2>4, <2>6, <1>4
  <2>9. ASSUME NEW j \in Slots(NodeAt(d, p)), SubAt(NodeAt(d, p), j) = v,
               NEW e, e = NodeWith(r.dir, p, Promote(NodeAt(d, p), j, r.sep, r.right)), r.how = "split"
        PROVE  Stepped(t, h, v, r, e)
    <3>1. PICK M : M = Promote(NodeAt(t, p), j, r.sep, r.right)
      OBVIOUS
    <3>2. e = NodeWith(r.dir, p, M) /\ j \in Slots(NodeAt(t, p)) /\ SubAt(NodeAt(t, p), j) = v
      BY <2>8, <2>9, <3>1
    <3>3. p = h.par[v]
      <4>1. p \in InTree(t)
        BY <2>6, <2>7
      <4> QED BY <4>1, <3>2, <2>2, <1>1, PointerFacts
    <3>4. f \in Volume /\ v \in Block /\ m \in Node /\ Len(m.keys) >= 3 /\ t = Put(f, v, m)
      BY <2>1, <1>1, <1>4, <1>5, <1>7
    <3>5. Tree(t, -1, h) /\ v \in t.used
      BY <2>2, <2>7
    <3>6. r = Overflow(f, v, m) /\ r.how = "split"
      BY <2>9, <1>9
    <3> QED BY <3>1, <3>2, <3>3, <3>4, <3>5, <3>6, SplitStep
  <2>10. CASE r.how = "split"
    <3>1. ASSUME NEW j \in Slots(NodeAt(d, p)), SubAt(NodeAt(d, p), j) = v
          PROVE  Gained(d, g, k, NodeWith(r.dir, p, Promote(NodeAt(d, p), j, r.sep, r.right)))
      <4>1. PICK e : e = NodeWith(r.dir, p, Promote(NodeAt(d, p), j, r.sep, r.right))
        OBVIOUS
      <4>2. StillTree(t, h, e)
        BY <4>1, <2>9, <2>10, <3>1 DEF Stepped
      <4>3. PICK y : Tree(e, -1, y) /\ \A u \in InTree(t) : y.lev[u] = h.lev[u]
        BY <4>2 DEF StillTree
      <4>4. \A u \in InTree(d) : y.lev[u] = g.lev[u]
        BY <4>3, <2>2, <2>7
      <4>5. KeysIn(e) = KeysIn(d) \cup {k}
        BY <4>2, <2>3 DEF StillTree
      <4> QED BY <4>1, <4>3, <4>4, <4>5 DEF Gained
    <3>2. PICK j \in Slots(NodeAt(d, p)) : SubAt(NodeAt(d, p), j) = v
      BY <2>5, ParentFacts
    <3>3. PICK e : e = NodeWith(r.dir, p, Promote(NodeAt(d, p), j, r.sep, r.right))
      OBVIOUS
    <3>4. /\ r.dir \in Volume /\ t.used \subseteq r.dir.used
          /\ \A u \in InTree(t) : u # v => NodeAt(r.dir, u) = NodeAt(t, u)
      BY <2>9, <2>10, <3>2, <3>3 DEF Stepped
    <3>5. \A u \in InTree(d) : g.lev[u] > g.lev[v] => NodeAt(r.dir, u) = NodeAt(d, u)
      <4> SUFFICES ASSUME NEW u \in InTree(d), g.lev[u] > g.lev[v] PROVE NodeAt(r.dir, u) = NodeAt(d, u)
        OBVIOUS
      <4>1. u \in Place /\ v \in Place /\ c \in Place
        BY <1>1 DEF Place
      <4>2. u # v /\ g.lev[u] > g.lev[c]
        BY <4>1, <1>1, <1>2
      <4>3. NodeAt(f, u) = NodeAt(d, u) /\ u \in InTree(t)
        BY <4>2, <1>4, <2>7
      <4> QED BY <4>1, <4>2, <4>3, <2>4, <3>4
    <3>6. d.used \subseteq r.dir.used
      BY <3>4, <2>4, <1>4
    <3> QED BY <3>1, <3>4, <3>5, <3>6, <2>5, <2>10 DEF Grew
  <2>11. CASE r.how # "split"
    <3>1. r.how = "refused"
      <4>1. PICK s \in Seq(Item) : s = m.keys
        BY <1>7, NodeFacts
      <4>2. PICK half : half = Len(s) \div 2
        OBVIOUS
      <4>3. half + 1 \in 1..Len(m.keys)
        <5>1. PICK z \in Nat : z = Len(s) /\ z >= 1
          BY <4>1, <2>1
        <5>2. half = z \div 2
          BY <4>2, <5>1
        <5>3. half + 1 \in 1..z
          BY <5>1, <5>2, HalfFacts
        <5> QED BY <4>1, <5>1, <5>3
      <4>4. PICK le \in Sub : le = m.keys[half + 1].sub
        BY <4>3, <1>7, NodeFacts
      <4>5. PICK re \in Sub : re = m.end
        BY <1>7, NodeFacts
      <4>6. r = SplitNode(f, v, s, le, re)
        BY <4>1, <4>2, <4>4, <4>5, <1>9 DEF Overflow
      <4>7. r = Refused(f)
        BY <4>2, <4>6, <2>11, <1>1, <1>4, SplitFacts
      <4> QED BY <4>7 DEF Refused
    <3> QED BY <3>1 DEF Grew
  <2> QED BY <2>10, <2>11
<1> QED BY <1>3, <1>5, <1>8, <1>9

\* An insertion that succeeds, or comes up with a separator, has reached a leaf.
Deepened(d, g, v, h, r) == r.how \in {"done", "split"} => g.lev[v] < h

\* The insertion below a block of the tree (NtfsBtreeInsertRec).
LEMMA InsertWalk ==
  ASSUME NEW d, NEW g, Tree(d, -1, g), NEW v \in d.used, NEW k \in Key, Between(k, g.lo[v], g.hi[v]),
         NEW r, r = InsertRec(d, v, k)
  PROVE  Grew(d, g, v, k, r) /\ Deepened(d, g, v, InsertLevels, r)
<1>1. /\ d \in Volume /\ InTree(d) \subseteq Place /\ d.used \subseteq Block
      /\ (\A u \in d.used : u \in InTree(d) /\ u # None)
      /\ (\A u \in Place : g.lev[u] \in Nat /\ NodeAt(d, u) \in Node)
  BY TreeFacts
<1>2. PICK L \in [0..InsertLevels -> [Sub -> Result(d)]] :
        /\ \A w \in Sub : L[0][w] = Refused(d)
        /\ \A h \in 1..InsertLevels : \A w \in Sub : L[h][w] = InsertNode(d, w, k, L[h - 1])
        /\ \A w \in Sub : InsertRec(d, w, k) = L[InsertLevels][w]
  BY <1>1, InsertRecLevels
<1>3. PICK N \in Nat : N = InsertLevels
  BY DEF InsertLevels
<1> DEFINE D == {h \in 0..N : /\ \A w \in d.used : Between(k, g.lo[w], g.hi[w]) =>
                                     Grew(d, g, w, k, L[h][w]) /\ Deepened(d, g, w, h, L[h][w])
                              /\ L[h][-1].how = "refused"}
<1>4. \A u \in d.used : u \in Sub
  BY <1>1, ConstFacts
<1>5. -1 \in Sub /\ -1 \notin Block
  BY ConstFacts
<1>6. Refused(d).how = "refused"
  BY DEF Refused
<1>7. 0 \in D
  <2>1. \A w \in d.used : L[0][w].how = "refused"
    BY <1>2, <1>4, <1>6
  <2>2. \A w \in d.used : Grew(d, g, w, k, L[0][w]) /\ Deepened(d, g, w, 0, L[0][w])
    BY <2>1 DEF Grew, Deepened
  <2>3. L[0][-1].how = "refused"
    BY <1>2, <1>5, <1>6
  <2> QED BY <2>2, <2>3, <1>3
<1>8. ASSUME NEW h \in 1..N, h - 1 \in D PROVE h \in D
  <2>1. PICK B \in [Sub -> Result(d)] : B = L[h - 1]
    BY <1>2, <1>3, <1>8
  <2>2. \A w \in Sub : L[h][w] = InsertNode(d, w, k, B)
    BY <2>1, <1>2, <1>3
  <2>3. L[h][-1].how = "refused"
    <3>1. InsertNode(d, -1, k, B) = Refused(d)
      BY <1>5 DEF InsertNode, Readable
    <3> QED BY <3>1, <2>2, <1>5, <1>6
  <2>4. B[-1].how = "refused"
    BY <2>1, <1>8
  <2>5. ASSUME NEW w \in d.used, Between(k, g.lo[w], g.hi[w])
        PROVE  Grew(d, g, w, k, L[h][w]) /\ Deepened(d, g, w, h, L[h][w])
    <3>1. PICK y : y = L[h][w]
      OBVIOUS
    <3>2. y = InsertNode(d, w, k, B) /\ w \in Sub /\ w \in InTree(d)
      BY <3>1, <2>2, <1>1, <1>4
    <3>3. CASE ~ Readable(d, w)
      <4>1. y.how = "refused"
        BY <3>2, <3>3, <1>6 DEF InsertNode
      <4> QED BY <4>1, <3>1 DEF Grew, Deepened
    <3>4. CASE Readable(d, w)
      <4>1. PICK n : n = d.node[w]
        OBVIOUS
      <4>2. PICK i : i = Slot(n, k)
        OBVIOUS
      <4>3. PICK b : b = B[SubAt(n, i)]
        OBVIOUS
      <4>4. PICK m : m = Promote(n, i, b.sep, b.right)
        OBVIOUS
      <4>5. /\ w \in Block /\ n \in Node /\ i \in 1..(Len(n.keys) + 1) /\ b \in Result(d) /\ y \in Result(d)
            /\ Has(n, k) => y = Exists(d)
            /\ ~ Has(n, k) /\ n.end = None => y = InsertLeaf(d, w, k)
            /\ ~ Has(n, k) /\ n.end # None /\ b.how # "split" => y = b
            /\ ~ Has(n, k) /\ n.end # None /\ b.how = "split" =>
                 \/ Width(m.keys) <= BlockRoom /\ y = Done(Put(b.dir, w, m))
                 \/ ~ (Width(m.keys) <= BlockRoom) /\ y = Overflow(b.dir, w, m)
        BY <3>2, <3>4, <4>1, <4>2, <4>3, <4>4, <1>1, InsertNodeFacts
      <4>6. n = NodeAt(d, w)
        BY <4>1, <1>1 DEF NodeAt
      <4>7. CASE Has(n, k)
        <5>1. y.how = "exists"
          BY <4>5, <4>7 DEF Exists
        <5>2. k \in KeysIn(d)
          BY <3>2, <4>6, <4>7 DEF KeysIn
        <5> QED BY <5>1, <5>2, <3>1 DEF Grew, Deepened
      <4>8. CASE ~ Has(n, k) /\ g.lev[w] = 0
        <5>1. n.end = None
          BY <4>1, <4>8, LeafBare
        <5>2. y = InsertLeaf(d, w, k)
          BY <5>1, <4>5, <4>8
        <5>3. Grew(d, g, w, k, y)
          BY <5>2, <4>1, <4>8, <2>5, LeafStep
        <5>4. g.lev[w] < h
          BY <4>8, <1>3
        <5> QED BY <5>3, <5>4, <3>1 DEF Deepened
      <4>9. CASE ~ Has(n, k) /\ g.lev[w] # 0
        <5>1. g.lev[w] > 0 /\ i \in Slots(n) /\ w # -1
          BY <4>5, <4>9, <1>1, <1>5 DEF Slots, Place
        <5>2. \A j \in Slots(n) : Child(d, g, w, j) \/ Stump(d, w, j)
          BY <5>1, <3>2, <4>6 DEF Tree, Fits
        <5>3. n.end # None
          <6>1. PICK j : j = Len(n.keys) + 1
            OBVIOUS
          <6>2. Len(n.keys) \in Nat
            BY <4>5, NodeFacts
          <6>3. j \in Slots(n) /\ SubAt(n, j) = n.end
            BY <6>1, <6>2 DEF Slots, SubAt
          <6>4. Child(d, g, w, j) => n.end \in d.used
            BY <6>3, <4>6 DEF Child
          <6>5. Stump(d, w, j) => n.end = -1
            BY <6>3, <4>6, <1>1 DEF Stump
          <6> QED BY <6>3, <6>4, <6>5, <5>2, <1>1, ConstFacts
        <5>4. CASE Stump(d, w, i)
          <6>1. SubAt(n, i) = -1
            BY <5>4, <4>6, <1>1 DEF Stump
          <6>2. b.how = "refused"
            BY <6>1, <4>3, <2>4
          <6>3. y = b
            BY <6>2, <5>3, <4>5, <4>9
          <6> QED BY <6>2, <6>3, <3>1 DEF Grew, Deepened
        <5>5. CASE Child(d, g, w, i)
          <6>1. PICK c : c = SubAt(n, i)
            OBVIOUS
          <6>2. /\ c \in d.used /\ g.lev[c] + 1 = g.lev[w]
                /\ g.lo[c] = LoAt(n, g.lo[w], i) /\ g.hi[c] = HiAt(n, g.hi[w], i)
            BY <6>1, <5>5, <4>6 DEF Child
          <6>3. Between(k, g.lo[c], g.hi[c])
            <7>1. Sorted(n, g.lo[w], g.hi[w]) /\ g.lo[w] \in Int /\ g.hi[w] \in Int
              BY <3>2, <4>6, KeyBetween
            <7>2. Between(k, LoAt(n, g.lo[w], i), HiAt(n, g.hi[w], i))
              BY <7>1, <4>2, <4>5, <4>9, <2>5, SlotBetween
            <7> QED BY <7>2, <6>2
          <6>4. Grew(d, g, c, k, b) /\ Deepened(d, g, c, h - 1, b)
            BY <6>1, <6>2, <6>3, <4>3, <2>1, <1>8
          <6>5. Deepened(d, g, w, h, y)
            <7>1. y.how \in {"done", "split"} => b.how \in {"done", "split"}
              BY <4>5, <4>9, <5>3
            <7>2. c \in Place /\ w \in Place
              BY <6>2, <1>1 DEF Place
            <7>3. g.lev[c] < h - 1 => g.lev[w] < h
              BY <7>2, <6>2, <1>1, <1>3
            <7> QED BY <7>1, <7>3, <6>4 DEF Deepened
          <6>6. CASE b.how = "split"
            <7>1. \/ Width(m.keys) <= BlockRoom /\ y = Done(Put(b.dir, w, m))
                  \/ ~ (Width(m.keys) <= BlockRoom) /\ y = Overflow(b.dir, w, m)
              BY <6>6, <5>3, <4>5, <4>9
            <7>2. Grew(d, g, w, k, y)
              BY <7>1, <6>1, <6>2, <6>4, <6>6, <5>1, <4>4, <4>5, <4>6, InnerStep
            <7> QED BY <7>2, <6>5, <3>1
          <6>7. CASE b.how # "split"
            <7>1. y = b
              BY <6>7, <5>3, <4>5, <4>9
            <7>2. Grew(d, g, w, k, y)
              BY <7>1, <6>4, <6>7 DEF Grew
            <7> QED BY <7>2, <6>5, <3>1
          <6> QED BY <6>6, <6>7
        <5> QED BY <5>1, <5>2, <5>4, <5>5
      <4> QED BY <4>7, <4>8, <4>9
    <3> QED BY <3>3, <3>4
  <2> QED BY <2>3, <2>5, <1>8
<1> HIDE DEF D
<1>9. \A h \in 0..N : h \in D
  BY <1>7, <1>8, KeptByAll
<1>10. N \in D
  BY <1>9, <1>3
<1>11. Grew(d, g, v, k, L[N][v]) /\ Deepened(d, g, v, N, L[N][v])
  BY <1>10 DEF D
<1> QED BY <1>2, <1>3, <1>4, <1>11

(***************************************************************************)
(* The root of the tree.                                                   *)
(***************************************************************************)
\* The block c keeps its labels, under p.
Stays(e, h, g, c, p) ==
  c \in e.used /\ h.lev[c] = g.lev[c] /\ h.lo[c] = g.lo[c] /\ h.hi[c] = g.hi[c] /\ h.par[c] = p

\* A node that keeps its items, its labels and its children fits.
LEMMA SameFits ==
  ASSUME NEW d, NEW x, NEW g, Tree(d, x, g), NEW u \in InTree(d), NEW e, NEW y, NEW h,
         NodeAt(e, u) = NodeAt(d, u), u = x <=> u = y,
         h.lev[u] = g.lev[u], h.lo[u] = g.lo[u], h.hi[u] = g.hi[u],
         \A c \in d.used : g.par[c] = u => Stays(e, h, g, c, u)
  PROVE  Fits(e, y, h, u)
<1>1. Fits(d, x, g, u)
  BY DEF Tree
<1>2. ASSUME NEW j \in Slots(NodeAt(d, u)), Child(d, g, u, j) PROVE Child(e, h, u, j)
  <2>1. PICK c : c = SubAt(NodeAt(d, u), j)
    OBVIOUS
  <2>2. /\ c \in d.used /\ g.lev[c] + 1 = g.lev[u] /\ g.par[c] = u
        /\ g.lo[c] = LoAt(NodeAt(d, u), g.lo[u], j) /\ g.hi[c] = HiAt(NodeAt(d, u), g.hi[u], j)
    BY <2>1, <1>2 DEF Child
  <2>3. Stays(e, h, g, c, u)
    BY <2>2
  <2> QED BY <2>1, <2>2, <2>3 DEF Child, Stays
<1>3. \A j : Stump(d, u, j) => Stump(e, u, j)
  BY DEF Stump
<1> QED BY <1>1, <1>2, <1>3 DEF Fits

\* The labels after the root's items have gone to the block w.
PushLabels(d, g, w) ==
  [lev |-> [u \in Place |-> IF u = None THEN g.lev[None] + 1 ELSE IF u = w THEN g.lev[None] ELSE g.lev[u]],
   par |-> [u \in Place |-> IF u = w THEN None ELSE IF u \in d.used /\ g.par[u] = None THEN w ELSE g.par[u]],
   lo |-> [u \in Place |-> IF u = w THEN -1 ELSE g.lo[u]],
   hi |-> [u \in Place |-> IF u = w THEN -1 ELSE g.hi[u]]]
PushLabeled(d, g, w, h) ==
  /\ h \in Labels /\ h.lev[None] = g.lev[None] + 1 /\ h.lev[w] = g.lev[None]
  /\ h.par[w] = None /\ h.lo[w] = -1 /\ h.hi[w] = -1
  /\ \A u \in Place \ {w} : /\ h.lo[u] = g.lo[u] /\ h.hi[u] = g.hi[u]
                            /\ u # None => h.lev[u] = g.lev[u]
                            /\ u \in d.used /\ g.par[u] = None => h.par[u] = w
                            /\ ~ (u \in d.used /\ g.par[u] = None) => h.par[u] = g.par[u]

\* These labels.
LEMMA PushLabelsFacts ==
  ASSUME NEW d, NEW g \in Labels, NEW w \in Place, w # None, NEW h, h = PushLabels(d, g, w)
  PROVE  PushLabeled(d, g, w, h)
<1>1. /\ g.lev \in [Place -> Nat] /\ g.par \in [Place -> Place] /\ g.lo \in [Place -> Int]
      /\ g.hi \in [Place -> Int] /\ None \in Place
  BY DEF Labels, Place
<1>2. PICK a : a = [u \in Place |-> IF u = None THEN g.lev[None] + 1 ELSE IF u = w THEN g.lev[None] ELSE g.lev[u]]
  OBVIOUS
<1>3. PICK b : b = [u \in Place |-> IF u = w THEN None ELSE IF u \in d.used /\ g.par[u] = None THEN w ELSE g.par[u]]
  OBVIOUS
<1>4. PICK c : c = [u \in Place |-> IF u = w THEN -1 ELSE g.lo[u]]
  OBVIOUS
<1>5. PICK f : f = [u \in Place |-> IF u = w THEN -1 ELSE g.hi[u]]
  OBVIOUS
<1>6. h = [lev |-> a, par |-> b, lo |-> c, hi |-> f]
  BY <1>2, <1>3, <1>4, <1>5 DEF PushLabels
<1>7. h.lev = a /\ h.par = b /\ h.lo = c /\ h.hi = f
  BY <1>6
<1>8. /\ a \in [Place -> Nat] /\ a[None] = g.lev[None] + 1 /\ a[w] = g.lev[None]
      /\ \A u \in Place \ {w} : u # None => a[u] = g.lev[u]
  <2>1. PICK N \in Nat : N = g.lev[None]
    BY <1>1
  <2>2. N + 1 \in Nat /\ a = [u \in Place |-> IF u = None THEN N + 1 ELSE IF u = w THEN N ELSE g.lev[u]]
    BY <2>1, <1>2
  <2>3. a \in [Place -> Nat]
    BY <2>1, <2>2, <1>1
  <2> QED BY <2>1, <2>2, <2>3, <1>1
<1>9. /\ b \in [Place -> Place] /\ b[w] = None
      /\ \A u \in Place \ {w} : /\ u \in d.used /\ g.par[u] = None => b[u] = w
                                /\ ~ (u \in d.used /\ g.par[u] = None) => b[u] = g.par[u]
  BY <1>1, <1>3
<1>10. c \in [Place -> Int] /\ c[w] = -1 /\ \A u \in Place \ {w} : c[u] = g.lo[u]
  <2>1. PICK z \in Int : z = -1
    OBVIOUS
  <2>2. c = [u \in Place |-> IF u = w THEN z ELSE g.lo[u]]
    BY <2>1, <1>4
  <2> QED BY <2>1, <2>2, <1>1
<1>11. f \in [Place -> Int] /\ f[w] = -1 /\ \A u \in Place \ {w} : f[u] = g.hi[u]
  <2>1. PICK z \in Int : z = -1
    OBVIOUS
  <2>2. f = [u \in Place |-> IF u = w THEN z ELSE g.hi[u]]
    BY <2>1, <1>5
  <2> QED BY <2>1, <2>2, <1>1
<1>12. h \in Labels
  BY <1>6, <1>8, <1>9, <1>10, <1>11 DEF Labels
<1> QED BY <1>7, <1>8, <1>9, <1>10, <1>11, <1>12 DEF PushLabeled

\* The root's items have a block of their own, under an empty root.
PushedTo(d, e, w) ==
  /\ e \in Volume /\ e.large = d.large /\ w \in Block \ d.used /\ e.used = d.used \cup {w}
  /\ e.used \subseteq 0..(e.owned - 1) /\ e.owned + e.free = d.owned + d.free
  /\ e.root = EmptyRoot(w) /\ e.node[w] = Pushed(d.root)
  /\ \A u \in Block \ {w} : e.node[u] = d.node[u]

\* What pushing down does (NtfsBtreePushDownRoot).
LEMMA PushedToFacts ==
  ASSUME NEW d \in Volume, ~ NoBlock(d), d.used \subseteq 0..(d.owned - 1), NEW e, e = PushDownRoot(d)
  PROVE  PushedTo(d, e, NewBlock(d))
<1>1. PICK w : w = NewBlock(d)
  OBVIOUS
<1>2. PICK a : a = AllocBlock(d)
  OBVIOUS
<1>3. /\ a \in Volume /\ w \in Block /\ w < a.owned /\ a.used = d.used \cup {w}
      /\ a.owned + a.free = d.owned + d.free /\ w \notin d.used /\ a.used \subseteq 0..(a.owned - 1) /\ a.owned > 0
  BY <1>1, <1>2, AllocFacts
<1>4. e \in Volume /\ e = Directory(EmptyRoot(w), d.large, [d.node EXCEPT ![w] = Pushed(d.root)],
                                    d.used \cup {w}, a.owned, a.free)
  BY <1>1, <1>2, PushDownFacts
<1>5. PICK f : f = [d.node EXCEPT ![w] = Pushed(d.root)]
  OBVIOUS
<1>6. f[w] = Pushed(d.root) /\ \A u \in Block \ {w} : f[u] = d.node[u]
  BY <1>3, <1>5, VolumeFacts
<1>7. /\ e.root = EmptyRoot(w) /\ e.large = d.large /\ e.node = f /\ e.used = d.used \cup {w}
      /\ e.owned = a.owned /\ e.free = a.free
  <2>1. e = Directory(EmptyRoot(w), d.large, f, d.used \cup {w}, a.owned, a.free)
    BY <1>4, <1>5
  <2> QED BY <2>1 DEF Directory
<1> QED BY <1>1, <1>3, <1>4, <1>6, <1>7 DEF PushedTo

\* The tree is one level higher.
LEMMA PushTree ==
  ASSUME NEW d, NEW g, Tree(d, -1, g), NEW w, NEW e, PushedTo(d, e, w)
  PROVE  KeysIn(e) = KeysIn(d) /\ \E h : Tree(e, -1, h) /\ h.lev[None] = g.lev[None] + 1
<1>1. /\ d \in Volume /\ g \in Labels /\ d.used \subseteq Block /\ InTree(d) \subseteq Place
      /\ None \in InTree(d) /\ -1 \notin Place
      /\ (\A u \in Place : g.lev[u] \in Nat /\ g.lo[u] \in Int /\ g.hi[u] \in Int)
      /\ (\A u \in InTree(d) : u # None => u \in d.used)
      /\ (\A u \in Place : NodeAt(d, u) \in Node)
      /\ (\A u \in d.used : u # None /\ u # -1 /\ u \in Block)
  BY TreeFacts, ConstFacts DEF Place
<1>2. /\ e \in Volume /\ e.large = d.large /\ w \in Block \ d.used /\ e.used = d.used \cup {w}
      /\ e.used \subseteq 0..(e.owned - 1) /\ e.owned + e.free = d.owned + d.free
      /\ e.root = EmptyRoot(w) /\ e.node[w] = Pushed(d.root)
      /\ \A u \in Block \ {w} : e.node[u] = d.node[u]
  BY DEF PushedTo
<1>3. w # None /\ w # -1 /\ w \in Place /\ None \in Place /\ w \notin InTree(d) /\ w \in Sub
  BY <1>2, ConstFacts DEF Place, InTree
<1>4. PICK m : m = Pushed(d.root)
  OBVIOUS
<1>5. d.root \in Node /\ NodeAt(d, None) = d.root /\ m \in Node /\ m.keys = d.root.keys
      /\ m.end = IF d.root.end = None THEN -1 ELSE d.root.end
  <2>1. d.root \in Node
    BY <1>1, VolumeFacts
  <2> QED BY <2>1, <1>4, PushedFacts DEF NodeAt
<1>6. PICK h : h = PushLabels(d, g, w)
  OBVIOUS
<1>7. /\ h \in Labels /\ h.lev[None] = g.lev[None] + 1 /\ h.lev[w] = g.lev[None]
      /\ h.par[w] = None /\ h.lo[w] = -1 /\ h.hi[w] = -1
      /\ \A u \in Place \ {w} : /\ h.lo[u] = g.lo[u] /\ h.hi[u] = g.hi[u]
                                /\ u # None => h.lev[u] = g.lev[u]
                                /\ u \in d.used /\ g.par[u] = None => h.par[u] = w
                                /\ ~ (u \in d.used /\ g.par[u] = None) => h.par[u] = g.par[u]
  <2>1. g \in Labels /\ w \in Place /\ w # None /\ h = PushLabels(d, g, w)
    BY <1>1, <1>3, <1>6
  <2>2. PushLabeled(d, g, w, h)
    BY <2>1, PushLabelsFacts
  <2> QED BY <2>2 DEF PushLabeled
<1>8. NodeAt(e, w) = m /\ NodeAt(e, None) = EmptyRoot(w) /\ \A u \in Block \ {w} : NodeAt(e, u) = NodeAt(d, u)
  BY <1>2, <1>3, <1>4, ConstFacts DEF NodeAt
<1>9. g.lev[None] > 0 /\ g.lo[None] = -1 /\ g.hi[None] = -1 /\ d.large /\ d.owned + d.free = Clusters
  BY DEF Tree
<1>10. Slots(m) = Slots(d.root)
  BY <1>5 DEF Slots
<1>11. Fits(e, -1, h, w)
  <2>1. Fits(d, -1, g, None)
    BY <1>1 DEF Tree
  <2>2. Sorted(m, -1, -1)
    BY <2>1, <1>5, <1>9 DEF Fits, Sorted
  <2>3. ASSUME NEW j \in Slots(m) PROVE Child(e, h, w, j) \/ Stump(e, w, j)
    <3>1. Child(d, g, None, j) \/ Stump(d, None, j)
      BY <2>1, <1>3, <1>5, <1>9, <1>10, ConstFacts DEF Fits
    <3>2. CASE Stump(d, None, j)
      <4>1. j = Len(d.root.keys) + 1 /\ SubAt(d.root, j) = None
        BY <3>2, <1>5 DEF Stump
      <4>2. Len(d.root.keys) \in Nat
        BY <1>5, NodeFacts
      <4>3. ~ (j <= Len(d.root.keys))
        BY <4>1, <4>2
      <4>4. d.root.end = None
        BY <4>1, <4>3 DEF SubAt
      <4>5. SubAt(m, j) = -1
        BY <4>3, <4>4, <1>5 DEF SubAt
      <4> QED BY <4>1, <4>5, <1>3, <1>5, <1>8 DEF Stump
    <3>3. CASE Child(d, g, None, j)
      <4>1. PICK c : c = SubAt(d.root, j)
        OBVIOUS
      <4>2. /\ c \in d.used /\ g.lev[c] + 1 = g.lev[None] /\ g.par[c] = None
            /\ g.lo[c] = LoAt(d.root, -1, j) /\ g.hi[c] = HiAt(d.root, -1, j)
        BY <3>3, <4>1, <1>5, <1>9 DEF Child
      <4>3. c \in Place \ {w} /\ c # None /\ c \in e.used
        BY <4>2, <1>1, <1>2 DEF Place
      <4>4. SubAt(m, j) = c
        BY <4>1, <4>3, <1>5 DEF SubAt
      <4>5. LoAt(m, -1, j) = LoAt(d.root, -1, j) /\ HiAt(m, -1, j) = HiAt(d.root, -1, j)
        BY <1>5 DEF LoAt, HiAt
      <4> QED BY <4>2, <4>3, <4>4, <4>5, <1>7, <1>8 DEF Child
    <3> QED BY <3>1, <3>2, <3>3
  <2> QED BY <2>2, <2>3, <1>3, <1>7, <1>8, <1>9 DEF Fits
<1>12. Fits(e, -1, h, None)
  <2>1. EmptyRoot(w) \in Node /\ EmptyRoot(w).keys = << >> /\ EmptyRoot(w).end = w
    BY <1>3, EmptyRootFacts
  <2>2. PICK n : n = EmptyRoot(w)
    OBVIOUS
  <2>3. Len(n.keys) = 0 /\ n.end = w
    BY <2>1, <2>2
  <2>4. Sorted(n, -1, -1)
    BY <2>3 DEF Sorted
  <2>5. \A j \in Slots(n) : j = 1 /\ SubAt(n, j) = w /\ LoAt(n, -1, j) = -1 /\ HiAt(n, -1, j) = -1
    BY <2>3 DEF Slots, SubAt, LoAt, HiAt
  <2>6. h.lo[None] = -1 /\ h.hi[None] = -1 /\ h.lev[None] > 0 /\ h.lev[w] + 1 = h.lev[None] /\ None # -1
    BY <1>1, <1>3, <1>7, <1>9, ConstFacts
  <2>7. \A j \in Slots(n) : Child(e, h, None, j)
    BY <2>2, <2>5, <2>6, <1>2, <1>7, <1>8 DEF Child
  <2>8. h.lev[None] # 0
    BY <2>6
  <2>9. NodeAt(e, None) = n
    BY <2>2, <1>8
  <2> QED BY <2>4, <2>6, <2>7, <2>8, <2>9 DEF Fits
<1>13. ASSUME NEW u \in d.used PROVE Fits(e, -1, h, u)
  <2>1. u \in Place \ {w} /\ u # None /\ u \in InTree(d) /\ u # -1
    BY <1>1, <1>2 DEF Place, InTree
  <2>2. NodeAt(e, u) = NodeAt(d, u)
    BY <2>1, <1>1, <1>2, <1>8
  <2>3. \A c \in d.used : g.par[c] = u => Stays(e, h, g, c, u)
    <3> SUFFICES ASSUME NEW c \in d.used, g.par[c] = u PROVE Stays(e, h, g, c, u)
      OBVIOUS
    <3>1. c \in Place \ {w} /\ c # None /\ c \in e.used
      BY <1>1, <1>2 DEF Place
    <3> QED BY <3>1, <2>1, <1>7 DEF Stays
  <2> QED BY <2>1, <2>2, <2>3, <1>7, SameFits
<1>14. InTree(e) = InTree(d) \cup {w}
  BY <1>2 DEF InTree
<1>15. \A u \in InTree(e) : h.lev[u] <= h.lev[None] /\ Fits(e, -1, h, u)
  <2>1. \A u \in InTree(e) : u = None \/ u = w \/ u \in d.used
    BY <1>1, <1>14
  <2>2. \A u \in d.used : h.lev[u] <= h.lev[None]
    <3> SUFFICES ASSUME NEW u \in d.used PROVE h.lev[u] <= h.lev[None]
      OBVIOUS
    <3>1. g.lev[u] < g.lev[None]
      BY ParentFacts
    <3>2. u \in Place \ {w} /\ u # None
      BY <1>1, <1>2 DEF Place
    <3> QED BY <3>1, <3>2, <1>1, <1>3, <1>7
  <2>3. h.lev[w] <= h.lev[None] /\ h.lev[None] <= h.lev[None]
    BY <1>1, <1>3, <1>7
  <2> QED BY <2>1, <2>2, <2>3, <1>11, <1>12, <1>13
<1>16. ASSUME NEW v \in e.used
       PROVE  \E u \in InTree(e) : \E i \in Slots(NodeAt(e, u)) : SubAt(NodeAt(e, u), i) = v
  <2>1. CASE v = w
    <3>1. EmptyRoot(w).keys = << >> /\ EmptyRoot(w).end = w
      BY <1>3, EmptyRootFacts
    <3>2. 1 \in Slots(EmptyRoot(w)) /\ SubAt(EmptyRoot(w), 1) = w
      BY <3>1 DEF Slots, SubAt
    <3> QED BY <2>1, <3>2, <1>1, <1>8, <1>14
  <2>2. CASE v # w
    <3>1. v \in d.used
      BY <2>2, <1>2
    <3>2. PICK p : p = g.par[v]
      OBVIOUS
    <3>3. p \in InTree(d) /\ \E i \in Slots(NodeAt(d, p)) : SubAt(NodeAt(d, p), i) = v
      BY <3>1, <3>2, ParentFacts
    <3>4. PICK i \in Slots(NodeAt(d, p)) : SubAt(NodeAt(d, p), i) = v
      BY <3>3
    <3>5. CASE p = None
      <4>1. i \in Slots(m) /\ SubAt(d.root, i) = v /\ v # None
        BY <3>1, <3>4, <3>5, <1>1, <1>5, <1>10
      <4>2. SubAt(m, i) = v
        BY <4>1, <1>5 DEF SubAt
      <4> QED BY <4>1, <4>2, <1>8, <1>14
    <3>6. CASE p # None
      <4>1. NodeAt(e, p) = NodeAt(d, p) /\ p \in InTree(e)
        BY <3>3, <3>6, <1>1, <1>2, <1>8, <1>14
      <4> QED BY <4>1, <3>4
    <3> QED BY <3>5, <3>6
  <2> QED BY <2>1, <2>2
<1>17. \A v \in Block \ e.used : Idle(e, v)
  BY <1>2 DEF Tree, Idle
<1>18. h.lev[None] > 0 /\ h.lo[None] = -1 /\ h.hi[None] = -1 /\ e.large /\ e.owned + e.free = Clusters
  BY <1>1, <1>2, <1>3, <1>7, <1>9
<1>19. Tree(e, -1, h)
  BY <1>2, <1>7, <1>15, <1>16, <1>17, <1>18, TreeBuilt
<1>20. KeysIn(e) = KeysIn(d)
  <2>1. \A k : Has(m, k) <=> Has(d.root, k)
    BY <1>5 DEF Has
  <2>2. \A k : ~ Has(EmptyRoot(w), k)
    BY <1>3, EmptyRootFacts DEF Has
  <2>3. \A k \in Key : k \in KeysIn(e) <=> Has(m, k) \/ \E u \in d.used : Has(NodeAt(d, u), k)
    <3>1. \A u \in InTree(e) : u = None \/ u = w \/ u \in d.used
      BY <1>1, <1>14
    <3>2. \A u \in d.used : NodeAt(e, u) = NodeAt(d, u) /\ u \in InTree(e)
      BY <1>1, <1>2, <1>8 DEF InTree
    <3> QED BY <3>1, <3>2, <2>2, <1>8, <1>14 DEF KeysIn
  <2>4. \A k \in Key : k \in KeysIn(d) <=> Has(d.root, k) \/ \E u \in d.used : Has(NodeAt(d, u), k)
    BY <1>1, <1>5 DEF KeysIn, InTree
  <2>5. KeysIn(e) \subseteq Key /\ KeysIn(d) \subseteq Key
    BY DEF KeysIn
  <2> QED BY <2>1, <2>3, <2>4, <2>5
<1> QED BY <1>7, <1>19, <1>20

\* The labels of a tree of one block.
OneLabels ==
  [lev |-> [u \in Place |-> IF u = None THEN 1 ELSE 0], par |-> [u \in Place |-> None],
   lo |-> [u \in Place |-> -1], hi |-> [u \in Place |-> -1]]
OneLabeled(h) ==
  /\ h \in Labels /\ h.lev[None] = 1 /\ h.lev[0] = 0 /\ h.par[0] = None
  /\ h.lo[None] = -1 /\ h.hi[None] = -1 /\ h.lo[0] = -1 /\ h.hi[0] = -1

\* These labels.
LEMMA OneLabelsFacts ==
  ASSUME 0 \in Block, NEW h, h = OneLabels
  PROVE  OneLabeled(h)
<1>0. None \in Place /\ 0 \in Place /\ None # 0 /\ -1 \in Int
  BY ConstFacts DEF Place
<1>1. PICK a : a = [u \in Place |-> IF u = None THEN 1 ELSE 0]
  OBVIOUS
<1>2. PICK b : b = [u \in Place |-> None]
  OBVIOUS
<1>3. PICK c : c = [u \in Place |-> -1]
  OBVIOUS
<1>4. h = [lev |-> a, par |-> b, lo |-> c, hi |-> c]
  BY <1>1, <1>2, <1>3 DEF OneLabels
<1>5. a \in [Place -> Nat] /\ a[None] = 1 /\ a[0] = 0
  BY <1>0, <1>1
<1>6. b \in [Place -> Place] /\ b[0] = None
  BY <1>0, <1>2
<1>7. c \in [Place -> Int] /\ c[None] = -1 /\ c[0] = -1
  <2>1. PICK z \in Int : z = -1
    OBVIOUS
  <2>2. c = [u \in Place |-> z]
    BY <2>1, <1>3
  <2> QED BY <2>1, <2>2, <1>0
<1>8. h.lev = a /\ h.par = b /\ h.lo = c /\ h.hi = c
  BY <1>4
<1>9. h \in Labels
  BY <1>4, <1>5, <1>6, <1>7 DEF Labels
<1> QED BY <1>5, <1>6, <1>7, <1>8, <1>9 DEF OneLabeled

\* An index with one block below an empty root.
OneBlock(d, m) ==
  /\ d \in Volume /\ d.large /\ 0 \in Block /\ d.used = {0} /\ d.owned > 0 /\ d.owned + d.free = Clusters
  /\ d.root = EmptyRoot(0) /\ d.node[0] = m /\ \A v \in Block \ {0} : Idle(d, v)
  /\ m \in Node /\ Bare(m) /\ Sorted(m, -1, -1)

\* It is a tree.
LEMMA OneBlockTree ==
  ASSUME NEW d, NEW m, OneBlock(d, m), NEW x \in {-1, 0}, x = 0 => m = Leaf(<< >>), x = -1 => m.keys # << >>
  PROVE  KeysIn(d) = {k \in Key : Has(m, k)} /\ \E h : OneLabeled(h) /\ Tree(d, x, h)
<1>1. /\ d \in Volume /\ d.large /\ 0 \in Block /\ d.used = {0} /\ d.owned > 0 /\ d.owned + d.free = Clusters
      /\ d.root = EmptyRoot(0) /\ d.node[0] = m /\ \A v \in Block \ {0} : Idle(d, v)
      /\ m \in Node /\ Bare(m) /\ Sorted(m, -1, -1)
  BY DEF OneBlock
<1>2. PICK h : OneLabeled(h)
  BY <1>1, OneLabelsFacts
<1>3. /\ h \in Labels /\ h.lev[None] = 1 /\ h.lev[0] = 0 /\ h.par[0] = None
      /\ h.lo[None] = -1 /\ h.hi[None] = -1 /\ h.lo[0] = -1 /\ h.hi[0] = -1
  BY <1>2 DEF OneLabeled
<1>4. None # 0 /\ None # -1 /\ InTree(d) = {0, None} /\ NodeAt(d, 0) = m /\ NodeAt(d, None) = EmptyRoot(0)
      /\ 0 \in Sub
  BY <1>1, ConstFacts DEF InTree, NodeAt
<1>5. PICK n : n = EmptyRoot(0)
  OBVIOUS
<1>6. n.keys = << >> /\ Len(n.keys) = 0 /\ n.end = 0
  BY <1>4, <1>5, EmptyRootFacts
<1>7. \A j \in Slots(n) : j = 1 /\ SubAt(n, j) = 0 /\ LoAt(n, -1, j) = -1 /\ HiAt(n, -1, j) = -1
  BY <1>6 DEF Slots, SubAt, LoAt, HiAt
<1>8. Sorted(n, -1, -1)
  BY <1>6 DEF Sorted
<1>9. Fits(d, x, h, None)
  <2>1. \A j \in Slots(n) : Child(d, h, None, j)
    BY <1>1, <1>3, <1>4, <1>5, <1>7 DEF Child
  <2>2. None # x /\ h.lev[None] # 0
    BY <1>3, <1>4
  <2> QED BY <2>1, <2>2, <1>3, <1>4, <1>5, <1>8 DEF Fits
<1>10. Fits(d, x, h, 0)
  <2>1. 0 = x => m = Leaf(<< >>)
    OBVIOUS
  <2>2. 0 # x => m.keys # << >>
    OBVIOUS
  <2>3. ~ (h.lev[0] > 0)
    BY <1>3
  <2> QED BY <2>1, <2>2, <2>3, <1>1, <1>3, <1>4 DEF Fits
<1>11. \A u \in InTree(d) : h.lev[u] <= h.lev[None] /\ Fits(d, x, h, u)
  BY <1>3, <1>4, <1>9, <1>10
<1>12. \A v \in d.used : \E u \in InTree(d) : \E i \in Slots(NodeAt(d, u)) : SubAt(NodeAt(d, u), i) = v
  <2>1. 1 \in Slots(n) /\ None \in InTree(d)
    BY <1>4, <1>6 DEF Slots
  <2> QED BY <2>1, <1>1, <1>4, <1>5, <1>7
<1>13. d.used \subseteq 0..(d.owned - 1)
  <2>1. PICK o \in Nat : o = d.owned
    BY <1>1, VolumeFacts
  <2>2. 0 \in 0..(o - 1)
    BY <2>1, <1>1
  <2> QED BY <2>1, <2>2, <1>1
<1>14. \A v \in Block \ d.used : Idle(d, v)
  BY <1>1
<1>15. Tree(d, x, h)
  <2>1. h.lev[None] > 0
    BY <1>3
  <2> QED BY <2>1, <1>1, <1>3, <1>11, <1>12, <1>13, <1>14, TreeBuilt
<1>16. KeysIn(d) = {k \in Key : Has(m, k)}
  <2>1. \A k : ~ Has(n, k)
    BY <1>6 DEF Has
  <2> QED BY <2>1, <1>4, <1>5 DEF KeysIn
<1> QED BY <1>2, <1>15, <1>16

\* A tree of the keys K that a lookup reaches.
Ripe(K, d) == KeysIn(d) = K /\ Rooted(d) /\ \E h : Tree(d, -1, h) /\ h.lev[None] <= InsertLevels

\* The insertion below the root, and what comes up from it (NtfsInsertIndexAllocationEntry).
LEMMA RootStep ==
  ASSUME NEW d, NEW g, Tree(d, -1, g), NEW k \in Key, k \notin KeysIn(d),
         NEW v, v = SubAt(d.root, Slot(d.root, k)), v # None, NEW r, r = InsertRec(d, v, k),
         NEW s, s = IF r.how = "split" THEN RootInsertSep(r, v) ELSE r
  PROVE  s.how # "exists" /\ (s.how = "done" => Ripe(KeysIn(d) \cup {k}, s.dir))
<1>1. /\ d \in Volume /\ None \in InTree(d) /\ NodeAt(d, None) = d.root /\ d.root \in Node /\ None \in Place
      /\ (\A u \in Place : g.lev[u] \in Nat) /\ None # -1 /\ InTree(d) \subseteq Place
      /\ (\A u \in d.used : u \in Place /\ u \in Block /\ u \in Sub)
  <2>1. /\ d \in Volume /\ None \in InTree(d) /\ (\A u \in Place : g.lev[u] \in Nat) /\ InTree(d) \subseteq Place
        /\ \A u \in d.used : u \in Block
    BY TreeFacts
  <2>2. d.root \in Node
    BY <2>1, VolumeFacts
  <2> QED BY <2>1, <2>2, ConstFacts DEF NodeAt, Place
<1>2. PICK n \in Node : n = d.root
  BY <1>1
<1>3. PICK i : i = Slot(n, k)
  OBVIOUS
<1>4. i \in Slots(n) /\ v = SubAt(n, i) /\ Len(n.keys) \in Nat
  BY <1>2, <1>3, SlotFacts, NodeFacts DEF Slots
<1>5. g.lev[None] > 0 /\ g.lo[None] = -1 /\ g.hi[None] = -1 /\ Fits(d, -1, g, None)
  BY <1>1 DEF Tree
<1>6. Child(d, g, None, i)
  <2>1. Child(d, g, None, i) \/ Stump(d, None, i)
    BY <1>1, <1>2, <1>4, <1>5 DEF Fits
  <2>2. ~ Stump(d, None, i)
    BY <1>1, <1>2, <1>4 DEF Stump
  <2> QED BY <2>1, <2>2
<1>7. v \in d.used /\ g.lev[v] + 1 = g.lev[None] /\ g.par[v] = None
      /\ g.lo[v] = LoAt(n, -1, i) /\ g.hi[v] = HiAt(n, -1, i)
  BY <1>1, <1>2, <1>4, <1>5, <1>6 DEF Child
<1>8. ~ Has(n, k)
  BY <1>1, <1>2 DEF KeysIn
<1>9. Between(k, g.lo[v], g.hi[v])
  <2>1. PICK a \in Int : a = -1
    OBVIOUS
  <2>2. Sorted(n, a, a) /\ Between(k, a, a)
    BY <2>1, <1>1, <1>2, <1>5, ConstFacts DEF Fits, Between
  <2>3. Between(k, LoAt(n, a, i), HiAt(n, a, i))
    BY <2>2, <1>3, <1>8, SlotBetween
  <2> QED BY <2>1, <2>3, <1>7
<1>10. Grew(d, g, v, k, r) /\ Deepened(d, g, v, InsertLevels, r)
  BY <1>7, <1>9, InsertWalk
<1>11. r \in Result(d)
  <2>1. PICK L \in [0..InsertLevels -> [Sub -> Result(d)]] :
          \A w \in Sub : InsertRec(d, w, k) = L[InsertLevels][w]
    BY <1>1, InsertRecLevels
  <2>2. InsertLevels \in 0..InsertLevels
    BY DEF InsertLevels
  <2> QED BY <2>1, <2>2, <1>1, <1>7
<1>12. Rooted(d)
  <2> SUFFICES ASSUME n.keys = << >> PROVE n.end # None
    BY <1>2 DEF Rooted
  <2>1. Len(n.keys) = 0
    OBVIOUS
  <2>2. v = n.end
    BY <2>1, <1>4 DEF Slots, SubAt
  <2> QED BY <2>2
<1>13. r.how \in {"done", "split"} => g.lev[None] <= InsertLevels
  <2>1. PICK a \in Nat : a = g.lev[v]
    BY <1>1, <1>7
  <2>2. PICK N \in Nat : N = InsertLevels
    BY DEF InsertLevels
  <2>3. a < N => a + 1 <= N
    BY <2>1, <2>2
  <2> QED BY <2>1, <2>2, <2>3, <1>7, <1>10 DEF Deepened
<1>14. ASSUME NEW e, Gained(d, g, k, e), Rooted(e), g.lev[None] <= InsertLevels
       PROVE  Ripe(KeysIn(d) \cup {k}, e)
  <2>1. PICK h : Tree(e, -1, h) /\ \A u \in InTree(d) : h.lev[u] = g.lev[u]
    BY <1>14 DEF Gained
  <2>2. h.lev[None] <= InsertLevels
    BY <2>1, <1>1, <1>14
  <2> QED BY <2>1, <2>2, <1>14 DEF Ripe, Gained
<1>15. CASE r.how = "split"
  <2>1. PICK j : j = Min(SlotOf(n, v))
    OBVIOUS
  <2>2. j \in Slots(n) /\ SubAt(n, j) = v
    BY <2>1, <1>4, SlotOfFacts DEF Slots
  <2>3. r.dir \in Volume /\ r.dir.root = n
    BY <1>1, <1>2, <1>11, ResultFacts, GrownFacts
  <2>4. PICK m : m = RootPromoted(r, v)
    OBVIOUS
  <2>5. m \in Node /\ s \in Call3
        /\ s = IF Width(m.keys) <= RootRoom THEN Done(RootWith(r.dir, m)) ELSE Refused(r.dir)
    <3>1. i \in 1..(Len(d.root.keys) + 1) /\ SubAt(d.root, i) = v
      BY <1>2, <1>4 DEF Slots
    <3>2. s = RootInsertSep(r, v)
      BY <1>15
    <3> QED BY <3>1, <3>2, <2>4, <1>1, <1>11, <1>15, RootInsertSepFacts
  <2>6. s.how # "exists"
    BY <2>5 DEF Done, Refused
  <2>7. ASSUME s.how = "done" PROVE Ripe(KeysIn(d) \cup {k}, s.dir)
    <3>1. s = Done(RootWith(r.dir, m))
      BY <2>5, <2>7 DEF Refused
    <3>2. PICK e : e = RootWith(r.dir, m)
      OBVIOUS
    <3>3. s.dir = e
      BY <3>1, <3>2 DEF Done
    <3>4. m = Promote(n, j, r.sep, r.right)
      BY <2>1, <2>3, <2>4 DEF RootPromoted
    <3>5. e = NodeWith(r.dir, None, Promote(NodeAt(d, None), j, r.sep, r.right))
      BY <3>2, <3>4, <1>1, <1>2 DEF NodeWith
    <3>6. j \in Slots(NodeAt(d, g.par[v])) /\ SubAt(NodeAt(d, g.par[v]), j) = v
      BY <2>2, <1>1, <1>2, <1>7
    <3>7. Gained(d, g, k, NodeWith(r.dir, g.par[v], Promote(NodeAt(d, g.par[v]), j, r.sep, r.right)))
      BY <3>6, <1>10, <1>15 DEF Grew
    <3>8. Gained(d, g, k, e)
      BY <3>5, <3>7, <1>7
    <3>9. Rooted(e)
      <4>1. e.root = m
        BY <3>2, <2>3, <2>5, RootWithFacts
      <4>2. PICK y \in Item : y = r.sep
        BY <1>11, <1>15, ResultFacts
      <4>3. PICK w \in Sub : w = r.right
        BY <1>11, <1>15, ResultFacts, ConstFacts
      <4>4. j \in 1..(Len(n.keys) + 1) /\ m = Promote(n, j, y, w)
        BY <2>2, <3>4, <4>2, <4>3 DEF Slots
      <4>5. Len(m.keys) = Len(n.keys) + 1
        BY <4>4, PromoteFacts
      <4>6. Len(m.keys) # 0
        BY <4>5, <1>4
      <4> QED BY <4>1, <4>6 DEF Rooted
    <3> QED BY <3>3, <3>8, <3>9, <1>13, <1>14, <1>15
  <2> QED BY <2>6, <2>7
<1>16. CASE r.how # "split"
  <2>1. s = r
    BY <1>16
  <2>2. r.how # "exists"
    BY <1>10 DEF Grew
  <2>3. ASSUME r.how = "done" PROVE Ripe(KeysIn(d) \cup {k}, r.dir)
    <3>1. Gained(d, g, k, r.dir)
      BY <2>3, <1>10 DEF Grew
    <3>2. r.dir.root = d.root
      BY <1>1, <1>11, ResultFacts, GrownFacts
    <3>3. Rooted(r.dir)
      BY <3>2, <1>12 DEF Rooted
    <3> QED BY <3>1, <3>3, <2>3, <1>13, <1>14
  <2> QED BY <2>1, <2>2, <2>3
<1> QED BY <1>15, <1>16

(***************************************************************************)
(* Insertion.                                                              *)
(***************************************************************************)
\* What an insertion of k into a directory d with the keys K promises: a call that is
\* refused leaves the directory as it was, unless clusters or blocks have changed.
Inserts(K, d, k, r) ==
  /\ r.how \in {"done", "refused"}
  /\ r.how = "done" => \/ Ripe(K \cup {k}, r.dir)
                       \/ Small(r.dir) /\ KeysIn(r.dir) = K \cup {k}
  /\ r.how = "refused" /\ r.dir.free = d.free /\ r.dir.node = d.node => r.dir = d

\* An insertion into a tree.
LEMMA LargeStep ==
  ASSUME NEW d, NEW g, Tree(d, -1, g), NEW k \in Key, k \notin KeysIn(d), NEW r, r = InsertLarge(d, k)
  PROVE  Inserts(KeysIn(d), d, k, r)
<1>1. d \in Volume /\ d.large /\ d.owned > 0 /\ Expand(d) = d /\ d.used \subseteq 0..(d.owned - 1)
  <2>1. d \in Volume /\ d.large /\ d.used \subseteq 0..(d.owned - 1)
    BY DEF Tree
  <2>2. d.owned > 0
    BY <2>1, VolumeFacts
  <2> QED BY <2>1, <2>2, ExpandFacts
<1>2. CASE RootFull(d, k) /\ NoBlock(d)
  <2>1. r = Refused(d)
    BY <1>1, <1>2, InsertLargeFacts
  <2>2. r.how = "refused" /\ r.dir = d
    BY <2>1 DEF Refused
  <2> QED BY <2>2 DEF Inserts
<1>3. CASE ~ (RootFull(d, k) /\ NoBlock(d))
  <2>1. PICK o : o = Outcome(d, k)
    OBVIOUS
  <2>2. /\ o \in Call3 /\ r.how = o.how
        /\ r.dir = IF o.how = "done" THEN o.dir ELSE LeftBy(d, k)
    BY <2>1, <1>1, <1>3, InsertLargeFacts, OutcomeFacts
  <2>3. PICK p : p = Start(d, k)
    OBVIOUS
  <2>4. PICK h : Tree(p, -1, h) /\ KeysIn(p) = KeysIn(d)
    <3>1. CASE RootFull(d, k)
      <4>1. p = PushDownRoot(d) /\ ~ NoBlock(d)
        BY <2>3, <3>1, <1>1, <1>3 DEF Start
      <4>2. PushedTo(d, p, NewBlock(d))
        BY <4>1, <1>1, PushedToFacts
      <4> QED BY <4>2, PushTree
    <3>2. CASE ~ RootFull(d, k)
      BY <2>3, <3>2, <1>1 DEF Start
    <3> QED BY <3>1, <3>2
  <2>5. ~ Has(p.root, k)
    <3>1. NodeAt(p, None) = p.root /\ None \in InTree(p)
      BY DEF NodeAt, InTree
    <3> QED BY <3>1, <2>4 DEF KeysIn
  <2>6. PICK v : v = SubAt(p.root, Slot(p.root, k))
    OBVIOUS
  <2>7. PICK q : q = InsertRec(p, v, k)
    OBVIOUS
  <2>8. o = IF v = None THEN Refused(p) ELSE IF q.how = "split" THEN RootInsertSep(q, v) ELSE q
    BY <2>1, <2>3, <2>5, <2>6, <2>7 DEF Outcome, Way, Deep
  <2>9. o.how # "exists" /\ (o.how = "done" => Ripe(KeysIn(d) \cup {k}, o.dir))
    <3>1. CASE v = None
      <4>1. o.how = "refused"
        BY <2>8, <3>1 DEF Refused
      <4> QED BY <4>1
    <3>2. CASE v # None
      <4>1. o = IF q.how = "split" THEN RootInsertSep(q, v) ELSE q
        BY <2>8, <3>2
      <4>2. k \notin KeysIn(p) /\ Tree(p, -1, h)
        BY <2>4
      <4>3. o.how # "exists" /\ (o.how = "done" => Ripe(KeysIn(p) \cup {k}, o.dir))
        BY <4>1, <4>2, <2>6, <2>7, <3>2, RootStep
      <4> QED BY <4>3, <2>4
    <3> QED BY <3>1, <3>2
  <2>10. o.how \in {"done", "refused", "exists"}
    BY <2>2 DEF Call3
  <2>11. ASSUME r.how = "refused", r.dir.free = d.free, r.dir.node = d.node PROVE r.dir = d
    <3>1. r.dir = LeftBy(d, k)
      BY <2>2, <2>11
    <3>2. PICK f : f = [w \in Block |-> IF w < d.owned THEN Start(d, k).node[w] ELSE Expand(d).node[w]]
      OBVIOUS
    <3>3. r.dir = Directory(d.root, TRUE, f, d.used, d.owned, o.dir.free)
      BY <3>1, <3>2, <2>1, <1>1, <1>3, LeftByFacts
    <3>4. PICK e : e = r.dir
      OBVIOUS
    <3>5. e.node = f /\ e.free = o.dir.free
      BY <3>3, <3>4 DEF Directory
    <3>6. f = d.node /\ o.dir.free = d.free
      BY <3>4, <3>5, <2>11
    <3>7. r.dir = Directory(d.root, d.large, d.node, d.used, d.owned, d.free)
      <4>1. d.large = TRUE
        BY <1>1, VolumeFacts
      <4> QED BY <4>1, <3>3, <3>6
    <3> QED BY <3>7, <1>1, VolumeFacts DEF Directory
  <2> QED BY <2>2, <2>9, <2>10, <2>11 DEF Inserts
<1> QED BY <1>2, <1>3

\* The keys of a directory whose names are all in the record.
LEMMA SmallKeys ==
  ASSUME NEW d, Small(d)
  PROVE  /\ d \in Volume /\ d.root \in Node /\ ~ d.large /\ d.used = {} /\ d.owned \in Nat /\ d.owned <= 1
         /\ d.free \in Nat /\ d.owned + d.free = Clusters /\ Sorted(d.root, -1, -1) /\ Bare(d.root)
         /\ (d.owned = 1 => d.root.keys = << >>)
         /\ KeysIn(d) = {k \in Key : Has(d.root, k)} /\ (d.root.keys = << >> => KeysIn(d) = {})
<1>1. d \in Volume /\ d.root \in Node /\ d.owned \in Nat /\ d.free \in Nat
  BY VolumeFacts DEF Small
<1>2. KeysIn(d) = {k \in Key : Has(d.root, k)}
  <2>1. InTree(d) = {None} /\ NodeAt(d, None) = d.root
    BY DEF Small, InTree, NodeAt
  <2> QED BY <2>1 DEF KeysIn
<1>3. d.root.keys = << >> => KeysIn(d) = {}
  BY <1>2 DEF Has
<1> QED BY <1>1, <1>2, <1>3 DEF Small

\* A key that a bare node in order has not got is added to it.
LEMMA AddToBare ==
  ASSUME NEW n \in Node, Bare(n), Sorted(n, -1, -1), NEW k \in Key, ~ Has(n, k),
         NEW m, m = [keys |-> InsertAt(n.keys, Slot(n, k), Plain(k)), end |-> n.end]
  PROVE  /\ m \in Node /\ Bare(m) /\ Sorted(m, -1, -1) /\ m.keys # << >> /\ m.end = n.end
         /\ \A q : Has(m, q) <=> Has(n, q) \/ q = k
<1>1. PICK i : i = Slot(n, k)
  OBVIOUS
<1>2. PICK x \in Item : x = Plain(k) /\ x.key = k /\ x.sub = None
  BY PlainFacts
<1>3. PICK c \in Nat : c = Len(n.keys)
  BY NodeFacts
<1>4. i \in 1..(c + 1) /\ i \in Slots(n)
  BY <1>1, <1>3, SlotFacts DEF Slots
<1>5. /\ m \in Node /\ Len(m.keys) = c + 1 /\ m.end = n.end
      /\ \A j \in 1..(c + 1) : m.keys[j] = IF j < i THEN n.keys[j] ELSE IF j = i THEN x ELSE n.keys[j - 1]
      /\ \A j \in 1..(c + 2) : SubAt(m, j) = IF j < i THEN SubAt(n, j) ELSE IF j = i THEN x.sub ELSE SubAt(n, j - 1)
  <2>1. i \in 1..(Len(n.keys) + 1) /\ m = [keys |-> InsertAt(n.keys, i, x), end |-> n.end]
    BY <1>1, <1>2, <1>3, <1>4
  <2> QED BY <2>1, <1>3, AddFacts
<1>6. PICK a \in Int : a = -1
  OBVIOUS
<1>7. Sorted(n, a, a) /\ Between(k, a, a)
  BY <1>6, ConstFacts DEF Between
<1>8. Between(k, LoAt(n, a, i), HiAt(n, a, i))
  BY <1>1, <1>7, SlotBetween
<1>9. AddedAt(n, m, i, k)
  <2>1. \A j \in 1..(c + 1) : m.keys[j].key = IF j < i THEN n.keys[j].key ELSE IF j = i THEN k ELSE n.keys[j - 1].key
    BY <1>2, <1>5
  <2> QED BY <2>1, <1>3, <1>5 DEF AddedAt
<1>10. Sorted(m, a, a) /\ \A q : Has(m, q) <=> Has(n, q) \/ q = k
  BY <1>4, <1>5, <1>7, <1>8, <1>9, SortedAdd
<1>11. Bare(m)
  <2> SUFFICES ASSUME NEW j \in Slots(m) PROVE SubAt(m, j) = None
    BY DEF Bare
  <2>1. j \in 1..(c + 2)
    BY <1>3, <1>5 DEF Slots
  <2>2. j < i => j \in Slots(n)
    BY <2>1, <1>3, <1>4 DEF Slots
  <2>3. j > i => j - 1 \in Slots(n)
    BY <2>1, <1>3, <1>4 DEF Slots
  <2>4. j < i \/ j = i \/ j > i
    BY <2>1, <1>4
  <2>5. CASE j < i
    BY <2>1, <2>2, <2>5, <1>5 DEF Bare
  <2>6. CASE j = i
    BY <2>1, <2>6, <1>2, <1>4, <1>5
  <2>7. CASE j > i
    <3>1. ~ (j < i) /\ j # i
      BY <2>1, <2>7, <1>4
    <3>2. SubAt(m, j) = SubAt(n, j - 1)
      BY <3>1, <2>1, <1>5
    <3> QED BY <3>2, <2>3, <2>7 DEF Bare
  <2> QED BY <2>4, <2>5, <2>6, <2>7
<1>12. m.keys # << >>
  <2>1. Len(m.keys) # 0
    BY <1>5
  <2> QED BY <2>1
<1> QED BY <1>5, <1>6, <1>10, <1>11, <1>12

\* A bare root and its end.
LEMMA BareEnd ==
  ASSUME NEW n \in Node, Bare(n)
  PROVE  n.end = None
<1>1. PICK c \in Nat : c = Len(n.keys)
  BY NodeFacts
<1>2. c + 1 \in Slots(n) /\ ~ (c + 1 <= Len(n.keys))
  BY <1>1 DEF Slots
<1> QED BY <1>2 DEF Bare, SubAt

\* An insertion into the record, or what the record is converted to
\* (NtfsConvertRootToSingleIndexAllocation).
LEMMA SmallStep ==
  ASSUME NEW d, Small(d), d.owned = 0, NEW k \in Key, k \notin KeysIn(d), NEW r, r = InsertSmall(d, k)
  PROVE  Inserts(KeysIn(d), d, k, r)
<1>1. /\ d \in Volume /\ d.root \in Node /\ ~ d.large /\ d.used = {} /\ d.free \in Nat /\ d.free = Clusters
      /\ Sorted(d.root, -1, -1) /\ Bare(d.root) /\ KeysIn(d) = {q \in Key : Has(d.root, q)} /\ ~ Has(d.root, k)
      /\ d.root.end = None /\ \A v \in Block : Idle(d, v)
  <2>1. /\ d \in Volume /\ d.root \in Node /\ ~ d.large /\ d.used = {} /\ d.free \in Nat
        /\ Sorted(d.root, -1, -1) /\ Bare(d.root) /\ KeysIn(d) = {q \in Key : Has(d.root, q)}
        /\ d.owned + d.free = Clusters
    BY SmallKeys
  <2>2. d.free = Clusters
    BY <2>1
  <2> QED BY <2>1, <2>2, BareEnd DEF Small
<1>2. PICK s : s = RootKeys(d, k)
  OBVIOUS
<1>3. PICK m : m = [keys |-> s, end |-> d.root.end]
  OBVIOUS
<1>4. /\ m \in Node /\ Bare(m) /\ Sorted(m, -1, -1) /\ m.keys # << >> /\ m.end = None /\ m.keys = s
      /\ \A q : Has(m, q) <=> Has(d.root, q) \/ q = k
  <2>1. m = [keys |-> InsertAt(d.root.keys, Slot(d.root, k), Plain(k)), end |-> d.root.end]
    BY <1>2, <1>3 DEF RootKeys
  <2>2. /\ m \in Node /\ Bare(m) /\ Sorted(m, -1, -1) /\ m.keys # << >> /\ m.end = d.root.end
        /\ \A q : Has(m, q) <=> Has(d.root, q) \/ q = k
    BY <2>1, <1>1, AddToBare
  <2> QED BY <2>2, <1>1, <1>3
<1>5. {q \in Key : Has(m, q)} = KeysIn(d) \cup {k}
  BY <1>1, <1>4
<1>6. CASE Width(s) <= RootRoom
  <2>1. PICK e : e = RootWith(d, m)
    OBVIOUS
  <2>2. r = Done(e)
    BY <2>1, <1>1, <1>2, <1>3, <1>6, InsertSmallFacts
  <2>3. /\ e \in Volume /\ e.root = m /\ e.large = d.large /\ e.node = d.node /\ e.used = d.used
        /\ e.owned = d.owned /\ e.free = d.free
    BY <2>1, <1>1, <1>4, RootWithFacts
  <2>4. Small(e)
    <3>1. e.owned <= 1 /\ e.owned + e.free = Clusters /\ e.owned # 1
      BY <2>3, <1>1
    <3> QED BY <3>1, <2>3, <1>1, <1>4 DEF Small, Idle
  <2>5. KeysIn(e) = KeysIn(d) \cup {k}
    BY <2>3, <2>4, <1>5, SmallKeys
  <2>6. r.how = "done" /\ r.dir = e
    BY <2>2 DEF Done
  <2> QED BY <2>4, <2>5, <2>6 DEF Inserts
<1>7. CASE ~ (Width(s) <= RootRoom) /\ NoChunk(d)
  <2>1. r = Refused(d)
    BY <1>1, <1>2, <1>7, InsertSmallFacts
  <2>2. r.how = "refused" /\ r.dir = d
    BY <2>1 DEF Refused
  <2> QED BY <2>2 DEF Inserts
<1>8. CASE ~ (Width(s) <= RootRoom) /\ ~ NoChunk(d)
  <2>1. PICK f : f = [d.node EXCEPT ![0] = Leaf(s)]
    OBVIOUS
  <2>2. PICK e : e = Directory(EmptyRoot(0), TRUE, f, {0}, 1, d.free - 1)
    OBVIOUS
  <2>3. 0 \in Block /\ r = Done(e)
    BY <2>1, <2>2, <1>1, <1>2, <1>8, InsertSmallFacts
  <2>4. r.how = "done" /\ r.dir = e /\ r \in Call3
    <3>1. r \in Call3
      BY <1>1, InsertSmallFacts
    <3> QED BY <3>1, <2>3 DEF Done
  <2>5. /\ e.root = EmptyRoot(0) /\ e.large = TRUE /\ e.node = f /\ e.used = {0} /\ e.owned = 1
        /\ e.free = d.free - 1
    BY <2>2 DEF Directory
  <2>6. e \in Volume
    BY <2>4 DEF Call3
  <2>7. m = Leaf(s)
    BY <1>1, <1>3 DEF Leaf
  <2>8. f[0] = m /\ \A u \in Block \ {0} : f[u] = d.node[u]
    BY <2>1, <2>3, <2>7, <1>1, VolumeFacts
  <2>9. e.owned + e.free = Clusters /\ e.owned > 0
    BY <2>5, <1>1
  <2>10. OneBlock(e, m)
    <3>1. \A u \in Block \ {0} : Idle(e, u)
      BY <2>5, <2>8, <1>1 DEF Idle
    <3> QED BY <3>1, <2>3, <2>5, <2>6, <2>8, <2>9, <1>4 DEF OneBlock
  <2>11. KeysIn(e) = {q \in Key : Has(m, q)} /\ \E h : OneLabeled(h) /\ Tree(e, -1, h)
    <3>1. PICK x : x = -1
      OBVIOUS
    <3>2. x \in {-1, 0} /\ (x = 0 => m = Leaf(<< >>)) /\ (x = -1 => m.keys # << >>)
      BY <3>1, <1>4
    <3>3. KeysIn(e) = {q \in Key : Has(m, q)} /\ \E h : OneLabeled(h) /\ Tree(e, x, h)
      BY <3>2, <2>10, OneBlockTree
    <3> QED BY <3>1, <3>3
  <2>12. PICK h : OneLabeled(h) /\ Tree(e, -1, h)
    BY <2>11
  <2>13. h.lev[None] <= InsertLevels
    <3>1. h.lev[None] = 1
      BY <2>12 DEF OneLabeled
    <3> QED BY <3>1 DEF InsertLevels
  <2>14. Rooted(e)
    <3>1. e.root.end = 0 /\ 0 # None
      BY <2>3, <2>5, ConstFacts DEF EmptyRoot
    <3> QED BY <3>1 DEF Rooted
  <2>15. Ripe(KeysIn(d) \cup {k}, e)
    BY <2>11, <2>12, <2>13, <2>14, <1>5 DEF Ripe
  <2> QED BY <2>4, <2>15 DEF Inserts
<1> QED BY <1>6, <1>7, <1>8

\* An insertion into a folded index, which gets its first block back.
LEMMA FirstStep ==
  ASSUME NEW d, Small(d), d.owned = 1, NEW k \in Key, k \notin KeysIn(d), NEW r, r = InsertLarge(d, k)
  PROVE  Inserts(KeysIn(d), d, k, r) /\ r.how = "done"
<1>1. /\ d \in Volume /\ ~ d.large /\ d.used = {} /\ d.owned > 0 /\ d.owned + d.free = Clusters
      /\ KeysIn(d) = {} /\ \A v \in Block : Idle(d, v)
  BY SmallKeys DEF Small
<1>2. PICK e : e = Expand(d)
  OBVIOUS
<1>3. PICK f : f = [d.node EXCEPT ![0] = Leaf(<< >>)]
  OBVIOUS
<1>4. e \in Volume /\ 0 \in Block /\ e = Directory(EmptyRoot(0), TRUE, f, d.used \cup {0}, d.owned, d.free)
  BY <1>1, <1>2, <1>3, ExpandFacts
<1>5. /\ e.root = EmptyRoot(0) /\ e.large = TRUE /\ e.node = f /\ e.used = {0} /\ e.owned = d.owned
      /\ e.free = d.free
  BY <1>1, <1>4 DEF Directory
<1>50. PICK o \in Block : o = 0
  BY <1>4
<1>51. e.root.keys = << >> /\ Len(e.root.keys) = 0 /\ e.root.end = 0 /\ e.root \in Node /\ o \in Sub
  <2>1. o \in Sub /\ EmptyRoot(o) = EmptyRoot(0)
    BY <1>50, ConstFacts
  <2>2. EmptyRoot(o) \in Node /\ EmptyRoot(o).keys = << >> /\ EmptyRoot(o).end = o
    BY <2>1, EmptyRootFacts
  <2> QED BY <2>1, <2>2, <1>5, <1>50
<1>6. PICK n : n = Leaf(<< >>)
  OBVIOUS
<1>7. n \in Node /\ n.keys = << >> /\ n.end = None /\ Len(n.keys) = 0
  BY <1>6, EmptyLeafFacts
<1>8. f[0] = n /\ \A u \in Block \ {0} : f[u] = d.node[u]
  BY <1>1, <1>3, <1>4, <1>6, VolumeFacts
<1>9. Bare(n) /\ Sorted(n, -1, -1) /\ ~ Has(n, k) /\ SubAt(n, 1) = None /\ 1 \in Slots(n)
  BY <1>7 DEF Bare, Sorted, Has, SubAt, Slots
<1>10. OneBlock(e, n)
  <2>1. \A u \in Block \ {0} : Idle(e, u)
    BY <1>1, <1>5, <1>8 DEF Idle
  <2> QED BY <2>1, <1>1, <1>4, <1>5, <1>7, <1>8, <1>9 DEF OneBlock
<1>11. KeysIn(e) = {} /\ \E h : OneLabeled(h) /\ Tree(e, 0, h)
  <2>1. PICK x : x = 0
    OBVIOUS
  <2>2. x \in {-1, 0} /\ (x = 0 => n = Leaf(<< >>)) /\ (x = -1 => n.keys # << >>)
    BY <2>1, <1>6
  <2>3. KeysIn(e) = {q \in Key : Has(n, q)} /\ \E h : OneLabeled(h) /\ Tree(e, x, h)
    BY <2>2, <1>10, OneBlockTree
  <2>4. \A q : ~ Has(n, q)
    BY <1>7 DEF Has
  <2> QED BY <2>1, <2>3, <2>4
<1>12. PICK h : OneLabeled(h) /\ Tree(e, 0, h)
  BY <1>11
<1>13. h.lev[0] = 0 /\ h.lo[0] = -1 /\ h.hi[0] = -1 /\ h.lev[None] = 1
  BY <1>12 DEF OneLabeled
<1>14. e.node[0] = n
  BY <1>5, <1>8
<1>15. PICK m : m = [keys |-> WithKey(e, 0, k), end |-> e.node[0].end]
  OBVIOUS
<1>16. PICK t : t = Put(e, 0, m)
  OBVIOUS
<1>17. Tree(t, -1, h) /\ KeysIn(t) = KeysIn(e) \cup {k} /\ m \in Node /\ Len(m.keys) = 1
  <2>1. PICK v : v = 0
    OBVIOUS
  <2>2. v \in e.used /\ h.lev[v] = 0 /\ Between(k, h.lo[v], h.hi[v]) /\ ~ Has(e.node[v], k)
    <3>1. Between(k, -1, -1)
      BY ConstFacts DEF Between
    <3> QED BY <3>1, <2>1, <1>5, <1>9, <1>13, <1>14
  <2>3. m = [keys |-> WithKey(e, v, k), end |-> e.node[v].end] /\ t = Put(e, v, m)
    BY <2>1, <1>15, <1>16
  <2>4. Tree(e, v, h)
    BY <2>1, <1>12
  <2>5. Tree(t, -1, h) /\ KeysIn(t) = KeysIn(e) \cup {k} /\ m \in Node /\ Len(m.keys) = Len(e.node[v].keys) + 1
    BY <2>2, <2>3, <2>4, AddLeaf
  <2> QED BY <2>1, <2>5, <1>7, <1>14
<1>18. InsertLeaf(e, 0, k) = Done(t)
  <2>1. LeafFits(e, 0, k)
    <3>1. Slot(n, k) = 1
      BY <1>7, SlotFacts
    <3>2. m.keys = WithKey(e, 0, k)
      BY <1>15
    <3>3. m.keys # << >> /\ ~ (Len(m.keys) >= 3)
      <4>1. Len(m.keys) # 0
        BY <1>17
      <4>2. m.keys # << >>
        BY <4>1
      <4>3. ~ (Len(m.keys) >= 3)
        BY <1>17
      <4> QED BY <4>2, <4>3
    <3>4. Width(m.keys) <= BlockRoom
      BY <3>3, <1>17, WideFacts
    <3> QED BY <3>1, <3>2, <3>4, <1>9, <1>14 DEF LeafFits
  <2> QED BY <2>1, <1>4, <1>15, <1>16, InsertLeafFacts
<1>19. InsertRec(e, 0, k) = Done(t)
  <2>1. PICK L \in [0..InsertLevels -> [Sub -> Result(e)]] :
          /\ \A q \in 1..InsertLevels : \A w \in Sub : L[q][w] = InsertNode(e, w, k, L[q - 1])
          /\ \A w \in Sub : InsertRec(e, w, k) = L[InsertLevels][w]
    BY <1>4, InsertRecLevels
  <2>2. InsertLevels \in 1..InsertLevels /\ InsertLevels - 1 \in 0..InsertLevels /\ 0 \in Sub
    BY <1>4, ConstFacts DEF InsertLevels
  <2>3. PICK B \in [Sub -> Result(e)] : B = L[InsertLevels - 1]
    BY <2>1, <2>2
  <2>4. PICK q : q = InsertNode(e, 0, k, B)
    OBVIOUS
  <2>5. InsertRec(e, 0, k) = q
    BY <2>1, <2>2, <2>3, <2>4
  <2>6. Readable(e, 0)
    <3>1. SubAt(e.node[0], 1) # -1 /\ 1 \in Slots(e.node[0])
      BY <1>9, <1>14, ConstFacts
    <3> QED BY <3>1, <1>4, ReadableFacts
  <2>7. q = InsertLeaf(e, 0, k)
    <3>1. Readable(e, 0) /\ ~ Has(e.node[0], k) /\ e.node[0].end = None
      BY <2>6, <1>7, <1>9, <1>14
    <3> QED BY <3>1, <2>4 DEF InsertNode
  <2> QED BY <2>5, <2>7, <1>18
<1>20. r = Done(t)
  <2>1. ~ RootFull(e, k) /\ Start(d, k) = e
    <3>1. e.root.keys = << >>
      BY <1>51
    <3>2. ~ RootFull(e, k)
      BY <3>1 DEF RootFull
    <3> QED BY <3>2, <1>2 DEF Start
  <2>2. e.root.keys = << >> /\ Len(e.root.keys) = 0 /\ e.root.end = 0 /\ e.root \in Node
    BY <1>51
  <2>3. ~ Has(e.root, k) /\ SubAt(e.root, Slot(e.root, k)) = 0
    <3>1. Slot(e.root, k) = 1
      BY <2>2, SlotFacts
    <3> QED BY <3>1, <2>2 DEF Has, SubAt
  <2>4. Way(d, k) = 0 /\ 0 # None
    BY <2>1, <2>3, <1>4, ConstFacts DEF Way
  <2>5. Deep(d, k) = Done(t) /\ Done(t).how = "done" /\ Done(t).dir = t
    BY <2>1, <2>4, <1>19 DEF Deep, Done
  <2>6. Outcome(d, k) = Done(t)
    BY <2>1, <2>3, <2>4, <2>5 DEF Outcome
  <2>7. r \in Call3 /\ r.how = "done" /\ r.dir = t
    <3>1. ~ (RootFull(Expand(d), k) /\ NoBlock(Expand(d)))
      BY <2>1, <1>2
    <3> QED BY <3>1, <2>5, <2>6, <1>1, InsertLargeFacts
  <2> QED BY <2>7 DEF Call3, Done
<1>21. Ripe(KeysIn(d) \cup {k}, t)
  <2>1. h.lev[None] <= InsertLevels
    BY <1>13 DEF InsertLevels
  <2>2. t.root.end = 0 /\ 0 # None
    <3>1. t = Put(e, o, m)
      BY <1>16, <1>50
    <3>2. t.root = e.root
      BY <3>1 DEF Put, Directory
    <3> QED BY <3>2, <1>4, <1>51, ConstFacts
  <2> QED BY <2>1, <2>2, <1>1, <1>11, <1>17 DEF Ripe, Rooted
<1>22. r.how = "done" /\ r.dir = t
  BY <1>20 DEF Done
<1>23. Inserts(KeysIn(d), d, k, r)
  BY <1>21, <1>22 DEF Inserts
<1> QED BY <1>22, <1>23

\* The insertion of a name that is not there (NtfsInsertIndexEntry).
LEMMA EntryStep ==
  ASSUME NEW d, Small(d) \/ \E g : Tree(d, -1, g), NEW k \in Key, k \notin KeysIn(d), NEW r, r = InsertEntry(d, k)
  PROVE  Inserts(KeysIn(d), d, k, r)
<1>1. CASE Small(d)
  <2>1. d.owned = 0 \/ d.owned = 1
    BY <1>1, SmallKeys
  <2>2. CASE d.owned = 0
    <3>1. r = InsertSmall(d, k)
      BY <2>2 DEF InsertEntry
    <3> QED BY <3>1, <2>2, <1>1, SmallStep
  <2>3. CASE d.owned = 1
    <3>1. r = InsertLarge(d, k)
      BY <2>3 DEF InsertEntry
    <3> QED BY <3>1, <2>3, <1>1, FirstStep
  <2> QED BY <2>1, <2>2, <2>3
<1>2. ASSUME NEW g, Tree(d, -1, g) PROVE Inserts(KeysIn(d), d, k, r)
  <2>1. d.owned > 0
    BY <1>2, VolumeFacts DEF Tree
  <2>2. r = InsertLarge(d, k)
    BY <2>1 DEF InsertEntry
  <2> QED BY <2>2, <1>2, LargeStep
<1> QED BY <1>1, <1>2

(***************************************************************************)
(* Extraction.                                                             *)
(***************************************************************************)
\* The last key below v is the last of the leaf l, at the end of v's subtree.
TakenOut(d, g, v, l, r) ==
  /\ g.lev[l] = 0 /\ g.hi[l] = g.hi[v] /\ g.lo[v] <= g.lo[l] /\ d.node[l].keys # << >>
  /\ r = Wrote(d, l, Cutlast(d.node[l]), d.node[l].keys[Len(d.node[l].keys)].key, None)
Extracted(d, g, v, r) == r.how = "done" /\ \E l \in d.used : TakenOut(d, g, v, l, r)

\* A tree without the cut window.
Whole(d) == \A v \in d.used : ~ Cut(d.node[v])

\* A block of such a tree above the leaves has a child at its end.
LEMMA EndFacts ==
  ASSUME NEW d, NEW g, Tree(d, -1, g), Whole(d), NEW v \in d.used, g.lev[v] # 0, NEW n, n = d.node[v],
         NEW c, c = n.end
  PROVE  /\ n \in Node /\ c \in d.used /\ g.lev[c] + 1 = g.lev[v] /\ g.hi[c] = g.hi[v] /\ g.lo[v] <= g.lo[c]
         /\ c # None /\ Readable(d, v)
<1>1. /\ d \in Volume /\ v \in Block /\ v # None /\ v \in InTree(d) /\ v \in Place /\ n = NodeAt(d, v)
      /\ n \in Node /\ Len(n.keys) \in Nat /\ g.lev[v] \in Nat /\ g.lo[v] \in Int /\ g.hi[v] \in Int
      /\ d.used \subseteq Block
  <2>1. /\ d \in Volume /\ v \in Block /\ v # None /\ v \in InTree(d) /\ d.used \subseteq Block
    BY TreeFacts
  <2>2. v \in Place /\ n = NodeAt(d, v)
    BY <2>1 DEF Place, NodeAt
  <2> QED BY <2>1, <2>2, TreeFacts
<1>2. PICK j : j = Len(n.keys) + 1
  OBVIOUS
<1>3. j \in Slots(n) /\ ~ (j <= Len(n.keys)) /\ SubAt(n, j) = c
  BY <1>1, <1>2 DEF Slots, SubAt
<1>4. Fits(d, -1, g, v) /\ v # -1 /\ g.lev[v] > 0
  BY <1>1, ConstFacts DEF Tree
<1>5. Child(d, g, v, j)
  <2>1. Child(d, g, v, j) \/ Stump(d, v, j)
    BY <1>1, <1>3, <1>4 DEF Fits
  <2>2. ~ Stump(d, v, j)
    BY <1>1, <1>3 DEF Stump, Whole, Cut
  <2> QED BY <2>1, <2>2
<1>6. c \in d.used /\ g.lev[c] + 1 = g.lev[v] /\ g.lo[c] = LoAt(n, g.lo[v], j) /\ g.hi[c] = HiAt(n, g.hi[v], j)
  BY <1>1, <1>3, <1>5 DEF Child
<1>7. g.hi[c] = g.hi[v]
  BY <1>3, <1>6 DEF HiAt
<1>8. g.lo[v] <= g.lo[c]
  <2>1. CASE j = 1
    BY <2>1, <1>1, <1>6 DEF LoAt
  <2>2. CASE j # 1
    <3>1. j - 1 \in 1..Len(n.keys)
      BY <2>2, <1>1, <1>2
    <3>2. Sorted(n, g.lo[v], g.hi[v])
      BY <1>1, <1>4 DEF Fits
    <3>3. g.lo[v] < n.keys[j - 1].key /\ n.keys[j - 1].key \in Nat
      BY <3>1, <3>2, <1>1, NodeFacts DEF Sorted, Between
    <3>4. g.lo[c] = n.keys[j - 1].key
      BY <2>2, <1>6 DEF LoAt
    <3> QED BY <3>3, <3>4, <1>1
  <2> QED BY <2>1, <2>2
<1>9. c # None /\ c # -1
  BY <1>1, <1>6, ConstFacts
<1>10. Readable(d, v)
  BY <1>1, <1>3, <1>9, ReadableFacts
<1> QED BY <1>1, <1>6, <1>7, <1>8, <1>9, <1>10

\* The extraction below a block of the tree (NtfsExtractMaxKey).
LEMMA ExtractWalk ==
  ASSUME NEW d, NEW g, Tree(d, -1, g), Whole(d), NEW v \in d.used, g.lev[v] < RemoveLevels,
         NEW r, r = ExtractMaxKey(d, v)
  PROVE  Extracted(d, g, v, r)
<1>1. /\ d \in Volume /\ d.used \subseteq Block
      /\ (\A u \in d.used : u \in InTree(d) /\ u # None /\ u # -1 /\ u \in Sub /\ u \in Place)
      /\ (\A u \in Place : g.lev[u] \in Nat /\ NodeAt(d, u) \in Node /\ g.lo[u] \in Int /\ g.hi[u] \in Int)
  <2>1. /\ d \in Volume /\ d.used \subseteq Block /\ (\A u \in d.used : u \in InTree(d))
        /\ (\A u \in Place : g.lev[u] \in Nat /\ NodeAt(d, u) \in Node /\ g.lo[u] \in Int /\ g.hi[u] \in Int)
    BY TreeFacts
  <2> QED BY <2>1, ConstFacts DEF Place
<1>2. PICK L \in [0..RemoveLevels -> [Sub -> Extract(d)]] :
        /\ \A h \in 1..RemoveLevels : \A w \in Sub : L[h][w] = ExtractNode(d, w, L[h - 1])
        /\ \A w \in Sub : ExtractMaxKey(d, w) = L[RemoveLevels][w]
  BY <1>1, ExtractMaxKeyLevels
<1>3. PICK N \in Nat : N = RemoveLevels
  BY DEF RemoveLevels
<1> DEFINE D == {h \in 0..N : \A w \in d.used : g.lev[w] < h => Extracted(d, g, w, L[h][w])}
<1>4. 0 \in D
  BY <1>1, <1>3
<1>5. ASSUME NEW h \in 1..N, h - 1 \in D PROVE h \in D
  <2>1. PICK B \in [Sub -> Extract(d)] : B = L[h - 1]
    BY <1>2, <1>3, <1>5
  <2>2. ASSUME NEW w \in d.used, g.lev[w] < h PROVE Extracted(d, g, w, L[h][w])
    <3>1. PICK y : y = L[h][w]
      OBVIOUS
    <3>2. y = ExtractNode(d, w, B) /\ w \in Sub /\ w \in InTree(d) /\ w \in Block
      BY <3>1, <2>1, <1>1, <1>2, <1>3, <1>5
    <3>3. PICK n : n = d.node[w]
      OBVIOUS
    <3>4. PICK a : a = n.keys[Len(n.keys)]
      OBVIOUS
    <3>5. PICK right : right = B[n.end]
      OBVIOUS
    <3>6. PICK left : left = B[a.sub]
      OBVIOUS
    <3>7. CASE g.lev[w] = 0
      <4>1. n \in Node /\ Bare(n) /\ n.end = None /\ n = NodeAt(d, w)
        BY <3>3, <3>7, LeafBare
      <4>2. n.keys # << >>
        BY <4>1, <3>2, <3>7, <1>1 DEF Tree, Fits
      <4>3. Readable(d, w)
        BY <4>2, <3>2, <3>3, <1>1, ReadableFacts
      <4>4. PICK z : z = Len(n.keys)
        OBVIOUS
      <4>5. z \in 1..Len(n.keys) /\ z \in Slots(n) /\ z <= Len(n.keys)
        BY <4>1, <4>2, <4>4, LastFacts, NodeFacts DEF Slots
      <4>6. a.sub = None
        BY <4>1, <4>4, <4>5, <3>4 DEF Bare, SubAt
      <4>11. /\ y = ExtractNode(d, w, B) /\ d \in Volume /\ w \in Sub /\ Readable(d, w) /\ n = d.node[w]
            /\ a = n.keys[Len(n.keys)] /\ right = B[n.end] /\ left = B[a.sub]
        BY <4>3, <3>2, <3>3, <3>4, <3>5, <3>6, <1>1
      <4>7. y = Wrote(d, w, Cutlast(n), a.key, None)
        <5>1. n.end = None /\ n.keys # << >> /\ a.sub = None
          BY <4>1, <4>2, <4>6
        <5>2. n.keys # << >> => (a.sub = None => y = Wrote(d, w, Cutlast(n), a.key, None))
          BY <4>11, <5>1, ExtractNodeFacts
        <5> QED BY <5>1, <5>2
      <4>8. y.how = "done"
        BY <4>7 DEF Wrote, Taken
      <4>9. g.lo[w] <= g.lo[w]
        BY <1>1
      <4>10. TakenOut(d, g, w, w, y)
        BY <4>2, <4>7, <4>9, <3>3, <3>4, <3>7 DEF TakenOut
      <4> QED BY <4>8, <4>10, <3>1 DEF Extracted
    <3>8. CASE g.lev[w] # 0
      <4>1. PICK c : c = n.end
        OBVIOUS
      <4>2. /\ c \in d.used /\ g.lev[c] + 1 = g.lev[w] /\ g.hi[c] = g.hi[w] /\ g.lo[w] <= g.lo[c]
            /\ c # None /\ Readable(d, w)
        BY <4>1, <3>3, <3>8, EndFacts
      <4>3. g.lev[c] < h - 1
        BY <4>2, <2>2, <1>1
      <4>4. Extracted(d, g, c, right)
        BY <4>1, <4>2, <4>3, <3>5, <2>1, <1>5
      <4>5. PICK l \in d.used : TakenOut(d, g, c, l, right)
        BY <4>4 DEF Extracted
      <4>6. right.how = "done"
        BY <4>4 DEF Extracted
      <4>7. n.end # None /\ right.how # "none"
        BY <4>1, <4>2, <4>6
      <4>8. y = right
        <5>1. Readable(d, w)
          BY <4>2
        <5>2. /\ y = ExtractNode(d, w, B) /\ d \in Volume /\ w \in Sub /\ Readable(d, w) /\ n = d.node[w]
              /\ a = n.keys[Len(n.keys)] /\ right = B[n.end] /\ left = B[a.sub]
          BY <5>1, <3>2, <3>3, <3>4, <3>5, <3>6, <1>1
        <5> QED BY <5>2, <4>7, ExtractNodeFacts
      <4>9. g.hi[l] = g.hi[w] /\ g.lo[w] <= g.lo[l]
        <5>1. g.hi[l] = g.hi[c] /\ g.lo[c] <= g.lo[l]
          BY <4>5 DEF TakenOut
        <5> QED BY <5>1, <4>2, <1>1
      <4>10. TakenOut(d, g, w, l, y)
        BY <4>5, <4>8, <4>9 DEF TakenOut
      <4> QED BY <4>6, <4>8, <4>10, <3>1 DEF Extracted
    <3> QED BY <3>7, <3>8
  <2> QED BY <2>2, <1>5
<1> HIDE DEF D
<1>6. \A h \in 0..N : h \in D
  BY <1>4, <1>5, KeptByAll
<1>7. N \in D
  BY <1>6, <1>3
<1> QED BY <1>1, <1>2, <1>3, <1>7 DEF D

(***************************************************************************)
(* A separator takes the key before it.                                    *)
(***************************************************************************)
Renamed(z, k, p) == IF z = k THEN p ELSE z
\* m is n with p for k.
Renames(n, m, k, p) ==
  /\ Len(m.keys) = Len(n.keys)
  /\ \A j \in 1..Len(n.keys) : m.keys[j].key = Renamed(n.keys[j].key, k, p)
  /\ \A j \in Slots(n) : SubAt(m, j) = SubAt(n, j)
\* p is smaller than k, and no key of n is between.
Parts(n, k, p) == \A j \in 1..Len(n.keys) : LET z == n.keys[j].key IN z = k \/ z < p \/ k < z

\* A node with p for k is in order between its bounds with p for k.
LEMMA RenameSorted ==
  ASSUME NEW n \in Node, NEW m \in Node, NEW a \in Int, NEW b \in Int, Sorted(n, a, b), NEW k \in Key, NEW p \in Key,
         p < k, Parts(n, k, p), Renames(n, m, k, p), Has(n, k) => a < p,
         NEW c, c = Renamed(a, k, p), NEW f, f = Renamed(b, k, p)
  PROVE  /\ Sorted(m, c, f)
         /\ \A j \in Slots(n) : /\ LoAt(m, c, j) = Renamed(LoAt(n, a, j), k, p)
                                /\ HiAt(m, f, j) = Renamed(HiAt(n, b, j), k, p)
         /\ \A q : Has(m, q) <=> \E z : Has(n, z) /\ q = Renamed(z, k, p)
<1>1. PICK l \in Nat : l = Len(n.keys) /\ DOMAIN n.keys = 1..l
  BY NodeFacts
<1>2. Len(m.keys) = l /\ DOMAIN m.keys = 1..l
  BY <1>1, NodeFacts DEF Renames
<1>3. \A j \in 1..l : n.keys[j].key \in Nat /\ m.keys[j].key = Renamed(n.keys[j].key, k, p)
  BY <1>1, NodeFacts DEF Renames
<1>4. k \in Nat /\ p \in Nat
  BY ConstFacts
<1>5. ASSUME NEW j \in 1..l PROVE Between(m.keys[j].key, c, f)
  <2>1. PICK z \in Nat : z = n.keys[j].key
    BY <1>3
  <2>2. a < z /\ (b = -1 \/ z < b) /\ (z = k \/ z < p \/ k < z)
    BY <2>1, <1>1 DEF Sorted, Between, Parts
  <2>3. z = k => a < p
    BY <2>1, <1>1 DEF Has
  <2>4. PICK y \in Nat : y = Renamed(z, k, p)
    BY <1>4 DEF Renamed
  <2>5. c < y
    BY <2>2, <2>3, <2>4, <1>4 DEF Renamed
  <2>6. f = -1 \/ y < f
    BY <2>2, <2>3, <2>4, <1>4 DEF Renamed
  <2>7. m.keys[j].key = y
    BY <2>1, <2>4, <1>3
  <2> QED BY <2>5, <2>6, <2>7 DEF Between
<1>6. ASSUME NEW i \in 1..l, NEW j \in 1..l, i < j PROVE m.keys[i].key < m.keys[j].key
  <2>1. PICK z \in Nat : z = n.keys[i].key
    BY <1>3
  <2>2. PICK y \in Nat : y = n.keys[j].key
    BY <1>3
  <2>3. z < y /\ (z = k \/ z < p \/ k < z) /\ (y = k \/ y < p \/ k < y)
    BY <2>1, <2>2, <1>1, <1>6 DEF Sorted, Parts
  <2>4. Renamed(z, k, p) < Renamed(y, k, p)
    BY <2>3, <1>4 DEF Renamed
  <2> QED BY <2>1, <2>2, <2>4, <1>3
<1>7. Sorted(m, c, f)
  BY <1>2, <1>5, <1>6 DEF Sorted
<1>8. ASSUME NEW j \in Slots(n)
      PROVE  /\ LoAt(m, c, j) = Renamed(LoAt(n, a, j), k, p)
             /\ HiAt(m, f, j) = Renamed(HiAt(n, b, j), k, p)
  <2>1. j \in 1..(l + 1)
    BY <1>1 DEF Slots
  <2>2. j # 1 => j - 1 \in 1..l
    BY <2>1, <1>1
  <2>3. j <= l => j \in 1..l
    BY <2>1, <1>1
  <2>4. LoAt(m, c, j) = Renamed(LoAt(n, a, j), k, p)
    <3>1. CASE j = 1
      BY <3>1 DEF LoAt
    <3>2. CASE j # 1
      <4>1. LoAt(m, c, j) = m.keys[j - 1].key /\ LoAt(n, a, j) = n.keys[j - 1].key
        BY <3>2 DEF LoAt
      <4> QED BY <4>1, <3>2, <2>2, <1>3
    <3> QED BY <3>1, <3>2
  <2>5. HiAt(m, f, j) = Renamed(HiAt(n, b, j), k, p)
    <3>1. CASE j <= l
      <4>1. HiAt(m, f, j) = m.keys[j].key /\ HiAt(n, b, j) = n.keys[j].key
        BY <3>1, <1>1, <1>2 DEF HiAt
      <4> QED BY <4>1, <3>1, <2>3, <1>3
    <3>2. CASE ~ (j <= l)
      BY <3>2, <1>1, <1>2 DEF HiAt
    <3> QED BY <3>1, <3>2
  <2> QED BY <2>4, <2>5
<1>9. ASSUME NEW q PROVE Has(m, q) <=> \E z : Has(n, z) /\ q = Renamed(z, k, p)
  <2>1. Has(m, q) <=> \E j \in 1..l : m.keys[j].key = q
    BY <1>2 DEF Has
  <2>2. \A z : Has(n, z) <=> \E j \in 1..l : n.keys[j].key = z
    BY <1>1 DEF Has
  <2> QED BY <2>1, <2>2, <1>3
<1> QED BY <1>7, <1>8, <1>9

\* The labels when the separator k has become p.
RenameLabels(g, k, p) ==
  [lev |-> g.lev, par |-> g.par,
   lo |-> [u \in Place |-> Renamed(g.lo[u], k, p)], hi |-> [u \in Place |-> Renamed(g.hi[u], k, p)]]
RenameLabeled(g, k, p, h) ==
  /\ h \in Labels /\ h.lev = g.lev /\ h.par = g.par
  /\ \A u \in Place : h.lo[u] = Renamed(g.lo[u], k, p) /\ h.hi[u] = Renamed(g.hi[u], k, p)

\* These labels.
LEMMA RenameLabelsFacts ==
  ASSUME NEW g \in Labels, NEW k \in Int, NEW p \in Int, NEW h, h = RenameLabels(g, k, p)
  PROVE  RenameLabeled(g, k, p, h)
<1>1. g.lev \in [Place -> Nat] /\ g.par \in [Place -> Place] /\ g.lo \in [Place -> Int] /\ g.hi \in [Place -> Int]
  BY DEF Labels
<1>2. \A z \in Int : Renamed(z, k, p) \in Int
  BY DEF Renamed
<1>3. PICK a : a = [u \in Place |-> Renamed(g.lo[u], k, p)]
  OBVIOUS
<1>4. PICK b : b = [u \in Place |-> Renamed(g.hi[u], k, p)]
  OBVIOUS
<1>5. a \in [Place -> Int] /\ \A u \in Place : a[u] = Renamed(g.lo[u], k, p)
  BY <1>1, <1>2, <1>3
<1>6. b \in [Place -> Int] /\ \A u \in Place : b[u] = Renamed(g.hi[u], k, p)
  BY <1>1, <1>2, <1>4
<1>7. h = [lev |-> g.lev, par |-> g.par, lo |-> a, hi |-> b]
  BY <1>3, <1>4 DEF RenameLabels
<1>8. h \in Labels /\ h.lev = g.lev /\ h.par = g.par /\ h.lo = a /\ h.hi = b
  BY <1>1, <1>5, <1>6, <1>7 DEF Labels
<1> QED BY <1>5, <1>6, <1>8 DEF RenameLabeled

\* Tree e has p for the key k of d, and is as high.
RenamedTree(d, x, g, k, p, e) ==
  KeysIn(e) = (KeysIn(d) \ {k}) \cup {p} /\ \E h : Tree(e, x, h) /\ h.lev = g.lev

\* A separator of the tree takes a key between its child's bound and itself
\* (NtfsRemoveOneDirEntryByChild).
LEMMA RenameTree ==
  ASSUME NEW d, NEW x, NEW g, Tree(d, x, g), NEW u \in InTree(d), NEW n, n = NodeAt(d, u), NEW i \in 1..Len(n.keys),
         NEW k, k = n.keys[i].key, NEW p \in Key, p < k, LoAt(n, g.lo[u], i) < p,
         \A q \in KeysIn(d) : q = k \/ q < p \/ k < q,
         NEW m, m = Rekeyed(n, i, p), NEW e, e = NodeWith(d, u, m)
  PROVE  RenamedTree(d, x, g, k, p, e)
<1>1. /\ d \in Volume /\ g \in Labels /\ d.used \subseteq Block /\ InTree(d) \subseteq Place /\ None \in InTree(d)
      /\ (\A w \in Place : g.lev[w] \in Nat /\ g.lo[w] \in Int /\ g.hi[w] \in Int)
      /\ (\A w \in InTree(d) : w # None => w \in d.used) /\ (\A w \in d.used : w \in Place)
      /\ (\A w \in Place : NodeAt(d, w) \in Node /\ Len(NodeAt(d, w).keys) \in Nat)
      /\ u \in Place /\ n \in Node /\ None \in Place
  BY TreeFacts DEF Place
<1>2. PICK l \in Nat : l = Len(n.keys) /\ DOMAIN n.keys = 1..l
  BY <1>1, NodeFacts
<1>3. k \in Key /\ k \in Nat /\ p \in Nat /\ i \in 1..l /\ (\A j \in 1..l : n.keys[j].key \in Nat)
  BY <1>1, <1>2, NodeFacts, ConstFacts
<1>4. m \in Node /\ Renames(n, m, k, p)
  <2>1. /\ m \in Node /\ Len(m.keys) = l
        /\ \A j \in 1..l : m.keys[j].key = IF j = i THEN p ELSE n.keys[j].key
        /\ \A j \in 1..(l + 1) : SubAt(m, j) = SubAt(n, j)
    <3>1. m = [n EXCEPT !.keys[i].key = p]
      BY DEF Rekeyed
    <3>2. i \in 1..Len(n.keys) /\ p \in Key /\ n \in Node
      BY <1>1
    <3> QED BY <3>1, <3>2, <1>2, RekeyFacts
  <2>2. \A j \in 1..l : n.keys[j].key = k <=> j = i
    <3>1. Sorted(n, g.lo[u], g.hi[u])
      BY KeyBetween
    <3>2. \A a, b \in 1..l : a < b => n.keys[a].key < n.keys[b].key
      BY <3>1, <1>2 DEF Sorted
    <3> QED BY <3>2, <1>3
  <2> QED BY <2>1, <2>2, <1>2 DEF Renames, Renamed, Slots
<1>5. /\ e \in Volume /\ e.large = d.large /\ e.used = d.used /\ e.owned = d.owned /\ e.free = d.free
      /\ InTree(e) = InTree(d) /\ NodeAt(e, u) = m /\ \A t \in Place : t # u => NodeAt(e, t) = NodeAt(d, t)
  <2>1. d \in Volume /\ u \in Place /\ m \in Node /\ e = NodeWith(d, u, m)
    BY <1>1, <1>4
  <2> QED BY <2>1, NodeWithNodes
<1>6. Has(n, k) /\ k \in KeysIn(d)
  BY <1>2, <1>3 DEF Has, KeysIn
<1>7. u # x
  <2> SUFFICES ASSUME u = x PROVE FALSE
    OBVIOUS
  <2>1. n = Leaf(<< >>)
    BY DEF Tree, Fits
  <2> QED BY <2>1, <1>2, <1>3, EmptyLeafFacts
<1>8. g.lo[u] < p
  <2>1. PICK a \in Int : a = g.lo[u]
    BY <1>1
  <2>2. CASE i = 1
    BY <2>1, <2>2 DEF LoAt
  <2>3. CASE i # 1
    <3>1. i - 1 \in 1..l
      BY <2>3, <1>2, <1>3
    <3>2. Sorted(n, a, g.hi[u])
      BY <2>1, KeyBetween
    <3>3. a < n.keys[i - 1].key
      BY <3>1, <3>2, <1>2 DEF Sorted, Between
    <3>4. n.keys[i - 1].key < p
      BY <2>3 DEF LoAt
    <3> QED BY <2>1, <3>1, <3>3, <3>4, <1>3
  <2> QED BY <2>2, <2>3
<1>9. PICK h : h = RenameLabels(g, k, p)
  OBVIOUS
<1>10. /\ h \in Labels /\ h.lev = g.lev /\ h.par = g.par
       /\ \A w \in Place : h.lo[w] = Renamed(g.lo[w], k, p) /\ h.hi[w] = Renamed(g.hi[w], k, p)
  <2>1. g \in Labels /\ k \in Int /\ p \in Int /\ h = RenameLabels(g, k, p)
    BY <1>1, <1>3, <1>9
  <2>2. RenameLabeled(g, k, p, h)
    BY <2>1, RenameLabelsFacts
  <2> QED BY <2>2 DEF RenameLabeled
\* Every node, the separator's or another, has p for k.
<1>11. ASSUME NEW w \in InTree(d), NEW s, s = NodeAt(d, w), NEW t, t = NodeAt(e, w)
       PROVE  /\ s \in Node /\ t \in Node /\ Renames(s, t, k, p) /\ Sorted(t, h.lo[w], h.hi[w])
              /\ \A j \in Slots(s) : /\ LoAt(t, h.lo[w], j) = Renamed(LoAt(s, g.lo[w], j), k, p)
                                     /\ HiAt(t, h.hi[w], j) = Renamed(HiAt(s, g.hi[w], j), k, p)
              /\ \A q : Has(t, q) <=> \E z : Has(s, z) /\ q = Renamed(z, k, p)
  <2>1. s \in Node /\ w \in Place /\ DOMAIN s.keys = 1..Len(s.keys)
        /\ \A j \in 1..Len(s.keys) : s.keys[j].key \in Key
    BY <1>1, <1>11, NodeFacts
  <2>2. Renames(s, t, k, p) /\ t \in Node /\ (Has(s, k) => g.lo[w] < p)
    <3>1. CASE w = u
      BY <3>1, <1>4, <1>5, <1>8, <1>11
    <3>2. CASE w # u
      <4>1. t = s
        BY <3>2, <2>1, <1>5, <1>11
      <4>2. ~ Has(s, k)
        BY <3>2, <1>3, <1>6, <1>11, Unique
      <4>3. \A j \in 1..Len(s.keys) : s.keys[j].key # k
        BY <4>2, <2>1 DEF Has
      <4> QED BY <4>1, <4>2, <4>3, <2>1 DEF Renames, Renamed
    <3> QED BY <3>1, <3>2
  <2>3. Parts(s, k, p)
    <3>1. \A j \in 1..Len(s.keys) : s.keys[j].key \in KeysIn(d)
      BY <2>1, <1>11 DEF KeysIn, Has
    <3> QED BY <3>1 DEF Parts
  <2>4. PICK a \in Int : a = g.lo[w]
    BY <2>1, <1>1
  <2>5. PICK b \in Int : b = g.hi[w]
    BY <2>1, <1>1
  <2>6. PICK c : c = h.lo[w] /\ c = Renamed(a, k, p)
    BY <2>1, <2>4, <1>10
  <2>7. PICK f : f = h.hi[w] /\ f = Renamed(b, k, p)
    BY <2>1, <2>5, <1>10
  <2>8. Sorted(s, a, b) /\ (Has(s, k) => a < p)
    BY <2>2, <2>4, <2>5, <1>11, KeyBetween
  <2>9. /\ Sorted(t, c, f)
        /\ \A j \in Slots(s) : /\ LoAt(t, c, j) = Renamed(LoAt(s, a, j), k, p)
                               /\ HiAt(t, f, j) = Renamed(HiAt(s, b, j), k, p)
        /\ \A q : Has(t, q) <=> \E z : Has(s, z) /\ q = Renamed(z, k, p)
    <3>1. c = Renamed(a, k, p) /\ f = Renamed(b, k, p)
      BY <2>6, <2>7
    <3> QED BY <3>1, <2>1, <2>2, <2>3, <2>8, <1>3, RenameSorted
  <2> QED BY <2>1, <2>2, <2>4, <2>5, <2>6, <2>7, <2>9
<1>12. ASSUME NEW w \in InTree(d) PROVE Fits(e, x, h, w)
  <2>1. PICK s : s = NodeAt(d, w)
    OBVIOUS
  <2>2. PICK t : t = NodeAt(e, w)
    OBVIOUS
  <2>3. /\ s \in Node /\ t \in Node /\ Renames(s, t, k, p) /\ Sorted(t, h.lo[w], h.hi[w])
        /\ \A j \in Slots(s) : /\ LoAt(t, h.lo[w], j) = Renamed(LoAt(s, g.lo[w], j), k, p)
                               /\ HiAt(t, h.hi[w], j) = Renamed(HiAt(s, g.hi[w], j), k, p)
    BY <2>1, <2>2, <1>11
  <2>4. Slots(t) = Slots(s) /\ Len(t.keys) = Len(s.keys) /\ Len(s.keys) \in Nat /\ Len(t.keys) \in Nat
        /\ \A j \in Slots(s) : SubAt(t, j) = SubAt(s, j)
    BY <2>3, NodeFacts DEF Renames, Slots
  <2>5. s.keys # << >> => t.keys # << >>
    <3> SUFFICES ASSUME t.keys = << >> PROVE s.keys = << >>
      OBVIOUS
    <3>1. Len(s.keys) = 0 /\ s.keys \in Seq(Item)
      BY <2>3, <2>4, NodeFacts
    <3> QED BY <3>1
  <2>6. w = x => t = Leaf(<< >>)
    <3>1. w = x => t = s
      BY <2>1, <2>2, <1>1, <1>5, <1>7
    <3> QED BY <3>1, <2>1 DEF Tree, Fits
  <2>7. h.lev[w] = g.lev[w] /\ Fits(d, x, g, w)
    BY <1>10 DEF Tree
  <2>8. ASSUME NEW j \in Slots(s), Child(d, g, w, j) PROVE Child(e, h, w, j)
    <3>1. PICK c : c = SubAt(s, j)
      OBVIOUS
    <3>2. /\ c \in d.used /\ g.lev[c] + 1 = g.lev[w] /\ g.par[c] = w
          /\ g.lo[c] = LoAt(s, g.lo[w], j) /\ g.hi[c] = HiAt(s, g.hi[w], j)
      BY <3>1, <2>1, <2>8 DEF Child
    <3>3. h.lo[c] = Renamed(g.lo[c], k, p) /\ h.hi[c] = Renamed(g.hi[c], k, p) /\ c \in e.used
      BY <3>2, <1>1, <1>5, <1>10
    <3> QED BY <3>1, <3>2, <3>3, <2>2, <2>3, <2>4, <1>10 DEF Child
  <2>9. \A j \in Slots(s) : Stump(d, w, j) => Stump(e, w, j)
    BY <2>1, <2>2, <2>4 DEF Stump
  <2>10. w # x /\ h.lev[w] = 0 => Bare(t) /\ t.keys # << >>
    BY <2>1, <2>4, <2>5, <2>7 DEF Fits, Bare
  <2>11. w # x /\ h.lev[w] > 0 => \A j \in Slots(t) : Child(e, h, w, j) \/ Stump(e, w, j)
    BY <2>1, <2>4, <2>7, <2>8, <2>9 DEF Fits
  <2> QED BY <2>2, <2>3, <2>6, <2>10, <2>11 DEF Fits
<1>13. \A w \in InTree(e) : h.lev[w] <= h.lev[None] /\ Fits(e, x, h, w)
  <2>1. \A w \in InTree(d) : g.lev[w] <= g.lev[None]
    <3> SUFFICES ASSUME NEW w \in InTree(d) PROVE g.lev[w] <= g.lev[None]
      OBVIOUS
    <3>1. CASE w = None
      BY <3>1, <1>1
    <3>2. CASE w # None
      <4>1. w \in d.used
        BY <3>2, <1>1
      <4>2. g.lev[w] < g.lev[None]
        BY <4>1, ParentFacts
      <4> QED BY <4>1, <4>2, <1>1
    <3> QED BY <3>1, <3>2
  <2> QED BY <2>1, <1>5, <1>10, <1>12
<1>14. ASSUME NEW v \in e.used
       PROVE  \E w \in InTree(e) : \E j \in Slots(NodeAt(e, w)) : SubAt(NodeAt(e, w), j) = v
  <2>1. v \in d.used
    BY <1>5
  <2>2. PICK w : w = g.par[v]
    OBVIOUS
  <2>3. w \in InTree(d) /\ \E j \in Slots(NodeAt(d, w)) : SubAt(NodeAt(d, w), j) = v
    BY <2>1, <2>2, ParentFacts
  <2>4. PICK j \in Slots(NodeAt(d, w)) : SubAt(NodeAt(d, w), j) = v
    BY <2>3
  <2>5. Renames(NodeAt(d, w), NodeAt(e, w), k, p)
    BY <2>3, <1>11
  <2>6. j \in Slots(NodeAt(e, w)) /\ SubAt(NodeAt(e, w), j) = v
    BY <2>4, <2>5 DEF Renames, Slots
  <2> QED BY <2>3, <2>6, <1>5
<1>15. \A v \in Block \ e.used : Idle(e, v)
  <2> SUFFICES ASSUME NEW v \in Block \ d.used PROVE Idle(e, v)
    BY <1>5
  <2>1. v # u /\ v \in Place /\ v # None
    BY <1>1, ConstFacts DEF Place, InTree
  <2>2. e.node[v] = d.node[v]
    BY <2>1, <1>5 DEF NodeAt
  <2> QED BY <2>2 DEF Tree, Idle
<1>16. h.lev[None] > 0 /\ h.lo[None] = -1 /\ h.hi[None] = -1
  <2>1. g.lev[None] > 0 /\ g.lo[None] = -1 /\ g.hi[None] = -1
    BY DEF Tree
  <2>2. Renamed(-1, k, p) = -1
    BY <1>3 DEF Renamed
  <2> QED BY <2>1, <2>2, <1>1, <1>10
<1>17. e.large /\ e.used \subseteq 0..(e.owned - 1) /\ e.owned + e.free = Clusters
  BY <1>5 DEF Tree
<1>18. Tree(e, x, h)
  BY <1>5, <1>10, <1>13, <1>14, <1>15, <1>16, <1>17, TreeBuilt
<1>19. KeysIn(e) = (KeysIn(d) \ {k}) \cup {p}
  <2>1. \A q \in Key : q \in KeysIn(e) <=> \E w \in InTree(d) : \E z : Has(NodeAt(d, w), z) /\ q = Renamed(z, k, p)
    BY <1>5, <1>11 DEF KeysIn
  <2>2. \A w \in InTree(d) : \A z : Has(NodeAt(d, w), z) => z \in KeysIn(d)
    <3> SUFFICES ASSUME NEW w \in InTree(d), NEW z, Has(NodeAt(d, w), z) PROVE z \in KeysIn(d)
      OBVIOUS
    <3>1. z \in Key
      BY <1>1, NodeFacts DEF Has
    <3> QED BY <3>1 DEF KeysIn
  <2>3. \A z \in KeysIn(d) : \E w \in InTree(d) : Has(NodeAt(d, w), z)
    BY DEF KeysIn
  <2>4. \A q \in Key : q \in KeysIn(e) <=> \E z \in KeysIn(d) : q = Renamed(z, k, p)
    BY <2>1, <2>2, <2>3
  <2>5. KeysIn(e) \subseteq Key /\ KeysIn(d) \subseteq Key
    BY DEF KeysIn
  <2> QED BY <2>4, <2>5, <1>6 DEF Renamed
<1> QED BY <1>10, <1>18, <1>19 DEF RenamedTree

(***************************************************************************)
(* Folding.                                                                *)
(***************************************************************************)
\* e is tree d but for children of nodes with keys, so the walk down the ends is
\* the same.
Alike(d, e) ==
  /\ e \in Volume
  /\ \A w \in InTree(d) : /\ NodeAt(e, w).keys = NodeAt(d, w).keys
                          /\ NodeAt(d, w).keys = << >> => NodeAt(e, w).end = NodeAt(d, w).end

\* A tree with a key is not folded (NtfsSubtreeIsEmpty).
LEMMA NotFolded ==
  ASSUME NEW d, NEW x, NEW g, Tree(d, x, g), g.lev[None] <= InsertLevels, KeysIn(d) # {}, NEW e, Alike(d, e)
  PROVE  ~ Foldable(e)
<1>1. /\ d \in Volume /\ e \in Volume /\ d.used \subseteq Block /\ None \in InTree(d)
      /\ (\A u \in d.used : u \in InTree(d) /\ u # None /\ u # -1 /\ u \in Sub /\ u \in Block /\ u \in Place)
      /\ (\A u \in InTree(d) : u \in Place)
      /\ (\A u \in Place : g.lev[u] \in Nat /\ NodeAt(d, u) \in Node /\ g.lo[u] \in Int /\ g.hi[u] \in Int)
  <2>1. /\ d \in Volume /\ d.used \subseteq Block /\ (\A u \in d.used : u \in InTree(d)) /\ None \in InTree(d)
        /\ InTree(d) \subseteq Place
        /\ (\A u \in Place : g.lev[u] \in Nat /\ NodeAt(d, u) \in Node /\ g.lo[u] \in Int /\ g.hi[u] \in Int)
    BY TreeFacts
  <2> QED BY <2>1, ConstFacts DEF Place, Alike
<1>2. PICK k \in Key : \E u \in InTree(d) : Has(NodeAt(d, u), k)
  BY DEF KeysIn
<1>3. PICK t \in InTree(d) : Has(NodeAt(d, t), k)
  BY <1>2
\* A node above k without keys of its own has a child at its end that is above k.
<1>4. ASSUME NEW w \in InTree(d), Between(k, g.lo[w], g.hi[w]), NEW n, n = NodeAt(d, w), n.keys = << >>
      PROVE  /\ n.end \in d.used /\ g.lev[n.end] + 1 = g.lev[w]
             /\ Between(k, g.lo[n.end], g.hi[n.end])
  <2>1. n \in Node /\ Len(n.keys) = 0
    BY <1>1, <1>4
  <2>2. t # w
    <3>1. DOMAIN n.keys = 1..0
      BY <2>1, NodeFacts
    <3> QED BY <3>1, <1>3, <1>4 DEF Has
  <2>3. PICK i : i = Slot(n, k)
    OBVIOUS
  <2>4. PICK c \in d.used : SubAt(n, i) = c /\ g.lev[c] + 1 = g.lev[w] /\ Between(k, g.lo[c], g.hi[c])
    BY <1>3, <1>4, <2>2, <2>3, Towards
  <2>5. i \in 1..(Len(n.keys) + 1)
    BY <2>1, <2>3, SlotFacts
  <2>6. c = n.end
    BY <2>1, <2>4, <2>5 DEF SubAt
  <2> QED BY <2>4, <2>6
<1>5. PICK L \in [0..RemoveLevels -> [Sub -> Key \cup {None}]] :
        /\ \A h \in 1..RemoveLevels : \A w \in Sub : L[h][w] = First(e, w, L[h - 1])
        /\ \A w \in Sub : KeyBelow(e, w) = L[RemoveLevels][w]
  BY <1>1, KeyBelowFacts
<1>6. PICK N \in Nat : N = RemoveLevels /\ InsertLevels < N
  BY DEF RemoveLevels, InsertLevels
<1> DEFINE D == {h \in 0..N : \A w \in d.used : g.lev[w] < h /\ Between(k, g.lo[w], g.hi[w]) => L[h][w] # None}
<1>7. 0 \in D
  BY <1>1, <1>6
<1>8. ASSUME NEW h \in 1..N, h - 1 \in D PROVE h \in D
  <2>1. PICK B \in [Sub -> Key \cup {None}] : B = L[h - 1]
    BY <1>5, <1>6, <1>8
  <2>2. ASSUME NEW w \in d.used, g.lev[w] < h, Between(k, g.lo[w], g.hi[w]) PROVE L[h][w] # None
    <3>1. L[h][w] = First(e, w, B) /\ w \in Block /\ w \in InTree(d) /\ w # None /\ w \in Place /\ g.lev[w] \in Nat
      BY <1>1, <1>5, <1>6, <1>8, <2>1
    <3>2. PICK n : n = NodeAt(d, w)
      OBVIOUS
    <3>3. PICK m : m = e.node[w]
      OBVIOUS
    <3>4. m = NodeAt(e, w) /\ m \in Node /\ n \in Node
      BY <3>1, <3>2, <3>3, <1>1, VolumeFacts DEF NodeAt
    <3>5. m.keys = n.keys /\ (n.keys = << >> => m.end = n.end)
      BY <3>1, <3>2, <3>4 DEF Alike
    <3>6. CASE n.keys # << >>
      <4>1. Readable(e, w)
        BY <3>1, <3>3, <3>5, <3>6, <1>1, ReadableFacts
      <4>2. First(e, w, B) = m.keys[1].key
        BY <4>1, <3>3, <3>5, <3>6 DEF First
      <4>3. m.keys[1].key \in Key
        <5>1. m.keys \in Seq(Item) /\ m.keys # << >>
          BY <3>4, <3>5, <3>6, NodeFacts
        <5>2. 1 \in 1..Len(m.keys)
          BY <5>1
        <5> QED BY <5>2, <3>4, NodeFacts
      <4>4. m.keys[1].key # None
        <5>1. PICK q \in Key : q = m.keys[1].key
          BY <4>3
        <5>2. Key \subseteq Nat /\ None \notin Int
          BY ConstFacts
        <5>3. q \in Int
          BY <5>2
        <5> QED BY <5>1, <5>2, <5>3
      <4> QED BY <3>1, <4>2, <4>4
    <3>7. CASE n.keys = << >>
      <4>1. PICK c : c = n.end
        OBVIOUS
      <4>2. c \in d.used /\ g.lev[c] + 1 = g.lev[w] /\ Between(k, g.lo[c], g.hi[c])
        BY <4>1, <3>1, <3>2, <3>7, <2>2, <1>4
      <4>3. Len(m.keys) = 0
        BY <3>5, <3>7
      <4>4. 1 \in Slots(m) /\ SubAt(m, 1) = c
        BY <4>1, <4>3, <3>5, <3>7 DEF Slots, SubAt
      <4>5. Readable(e, w)
        <5>1. SubAt(m, 1) # -1
          BY <4>2, <4>4, <1>1
        <5> QED BY <5>1, <4>4, <3>1, <3>3, <1>1, ReadableFacts
      <4>6. First(e, w, B) = B[c]
        BY <4>1, <4>5, <3>3, <3>5, <3>7 DEF First
      <4>7. g.lev[c] < h - 1 /\ g.lev[c] \in Nat
        BY <4>2, <2>2, <3>1, <1>1
      <4>8. B[c] # None
        BY <4>2, <4>7, <2>1, <1>8
      <4> QED BY <3>1, <4>6, <4>8
    <3> QED BY <3>6, <3>7
  <2> QED BY <2>2, <1>8
<1> HIDE DEF D
<1>9. \A h \in 0..N : h \in D
  BY <1>7, <1>8, KeptByAll
<1>10. N \in D
  BY <1>9, <1>6
<1> SUFFICES ASSUME e.root.keys = << >> PROVE KeyBelow(e, e.root.end) # None
  BY DEF Foldable, SubtreeIsEmpty
<1>11. PICK n : n = NodeAt(d, None)
  OBVIOUS
<1>12. n.keys = << >> /\ e.root.end = n.end
  BY <1>1, <1>11 DEF Alike, NodeAt
<1>13. Between(k, g.lo[None], g.hi[None])
  <2>1. g.lo[None] = -1 /\ g.hi[None] = -1 /\ k \in Nat
    BY ConstFacts DEF Tree
  <2> QED BY <2>1 DEF Between
<1>14. PICK c : c = n.end
  OBVIOUS
<1>15. c \in d.used /\ g.lev[c] + 1 = g.lev[None] /\ Between(k, g.lo[c], g.hi[c])
  BY <1>1, <1>11, <1>12, <1>13, <1>14, <1>4
<1>16. g.lev[c] < N
  <2>1. g.lev[c] \in Nat /\ g.lev[None] \in Nat /\ InsertLevels \in Nat
    BY <1>1, <1>15 DEF Place, InsertLevels
  <2> QED BY <2>1, <1>6, <1>15
<1>17. L[N][c] # None
  BY <1>10, <1>15, <1>16 DEF D
<1> QED BY <1>1, <1>5, <1>6, <1>12, <1>14, <1>15, <1>17

\* A root without keys and without a child is all there is.
LEMMA Barren ==
  ASSUME NEW d, NEW x, NEW g, Tree(d, x, g), d.root.keys = << >>, d.root.end = None
  PROVE  d.used = {} /\ KeysIn(d) = {}
<1>1. /\ (\A u \in d.used : u \in InTree(d) /\ u \in Place /\ u # None) /\ (\A u \in InTree(d) : u # None => u \in d.used)
      /\ (\A u \in Place : g.lev[u] \in Nat) /\ None \in Place
  BY TreeFacts DEF Place
<1>2. PICK N \in Nat : N = g.lev[None]
  BY <1>1
<1> DEFINE D == {h \in 0..N : \A w \in d.used : g.lev[w] + h # N}
<1>3. 0 \in D
  <2>1. \A w \in d.used : g.lev[w] < N /\ g.lev[w] \in Nat
    BY <1>1, <1>2, ParentFacts
  <2>2. \A w \in d.used : g.lev[w] + 0 # N
    BY <2>1, <1>2
  <2> QED BY <2>2, <1>2
<1>4. ASSUME NEW h \in 1..N, h - 1 \in D PROVE h \in D
  <2>1. ASSUME NEW w \in d.used, g.lev[w] + h = N PROVE FALSE
    <3>1. PICK p : p = g.par[w]
      OBVIOUS
    <3>2. /\ p \in InTree(d) /\ g.lev[p] = g.lev[w] + 1
          /\ \E i \in Slots(NodeAt(d, p)) : SubAt(NodeAt(d, p), i) = w
      BY <3>1, ParentFacts
    <3>3. p # None
      <4> SUFFICES ASSUME p = None PROVE FALSE
        OBVIOUS
      <4>1. PICK i \in Slots(d.root) : SubAt(d.root, i) = w
        BY <3>2 DEF NodeAt
      <4>2. Len(d.root.keys) = 0
        OBVIOUS
      <4>3. SubAt(d.root, i) = None
        BY <4>1, <4>2 DEF Slots, SubAt
      <4> QED BY <4>1, <4>3, <1>1
    <3>4. p \in d.used /\ g.lev[w] \in Nat /\ g.lev[p] \in Nat
      BY <3>2, <3>3, <1>1
    <3>5. g.lev[p] + (h - 1) = N
      BY <3>2, <3>4, <2>1
    <3> QED BY <3>4, <3>5, <1>4
  <2> QED BY <2>1, <1>4
<1> HIDE DEF D
<1>5. \A h \in 0..N : h \in D
  BY <1>3, <1>4, KeptByAll
<1>6. d.used = {}
  <2> SUFFICES ASSUME NEW w \in d.used PROVE FALSE
    OBVIOUS
  <2>1. PICK l \in Nat : l = g.lev[w] /\ l < N
    BY <1>1, <1>2, ParentFacts
  <2>2. N - l \in 0..N /\ l + (N - l) = N
    BY <2>1
  <2>3. N - l \in D
    BY <2>2, <1>5
  <2> QED BY <2>1, <2>2, <2>3 DEF D
<1>7. KeysIn(d) = {}
  <2>1. InTree(d) = {None}
    BY <1>6 DEF InTree
  <2>2. \A k : ~ Has(d.root, k)
    BY DEF Has
  <2> QED BY <2>1, <2>2 DEF KeysIn, NodeAt
<1> QED BY <1>6, <1>7

\* What is left of a removal, folded or not.
Settled(K, d) == (\E v \in d.used : Cut(d.node[v])) \/ (KeysIn(d) = K /\ (Small(d) \/ Big(d)))

\* A tree with a key is left as it is (NtfsCollapseIndexToResident).
LEMMA SettledTree ==
  ASSUME NEW d, NEW g, Tree(d, -1, g), g.lev[None] <= InsertLevels, KeysIn(d) # {}
  PROVE  Settled(KeysIn(d), Collapse(d))
<1>1. d \in Volume
  BY DEF Tree
<1>2. Alike(d, d)
  BY <1>1 DEF Alike
<1>3. ~ Foldable(d)
  BY <1>2, NotFolded
<1>4. Collapse(d) = d
  BY <1>1, <1>3, CollapseFacts
<1>5. Rooted(d)
  BY Barren DEF Rooted
<1>6. ASSUME \A v \in d.used : ~ Cut(d.node[v]) PROVE Big(d)
  BY <1>5, <1>6 DEF Big
<1> QED BY <1>4, <1>6 DEF Settled

\* So is an index in the record.
LEMMA SettledSmall ==
  ASSUME NEW d, Small(d)
  PROVE  Settled(KeysIn(d), Collapse(d))
<1>1. d \in Volume /\ ~ d.large
  BY DEF Small
<1>2. Collapse(d) = d
  BY <1>1, CollapseFacts DEF Foldable
<1> QED BY <1>2 DEF Settled

\* An index that has lost its last child is folded.
LEMMA SettledBarren ==
  ASSUME NEW d, NEW x, NEW g, Tree(d, x, g), d.root.keys = << >>, d.root.end = None
  PROVE  Settled({}, Collapse(d)) /\ KeysIn(d) = {}
<1>1. d.used = {} /\ KeysIn(d) = {}
  BY Barren
<1>2. /\ d \in Volume /\ d.large /\ d.owned + d.free = Clusters /\ d.owned \in Nat /\ d.free \in Nat
      /\ (\A v \in Block : Idle(d, v)) /\ d.owned > 0 /\ d.owned <= Clusters /\ d.node \in [Block -> Node]
  BY <1>1, VolumeFacts DEF Tree
<1>3. Foldable(d)
  <2>1. PICK L \in [0..RemoveLevels -> [Sub -> Key \cup {None}]] :
          /\ \A h \in 1..RemoveLevels : \A w \in Sub : L[h][w] = First(d, w, L[h - 1])
          /\ \A w \in Sub : KeyBelow(d, w) = L[RemoveLevels][w]
    BY <1>2, KeyBelowFacts
  <2>2. RemoveLevels \in 1..RemoveLevels /\ None \in Sub
    BY ConstFacts DEF RemoveLevels
  <2>3. KeyBelow(d, None) = First(d, None, L[RemoveLevels - 1])
    BY <2>1, <2>2
  <2>4. ~ Readable(d, None)
    BY ConstFacts DEF Readable
  <2>5. KeyBelow(d, None) = None
    BY <2>3, <2>4 DEF First
  <2> QED BY <2>5, <1>2 DEF Foldable, SubtreeIsEmpty
<1>4. PICK c : c = Collapse(d)
  OBVIOUS
<1>5. c \in Volume /\ c = Folded(d)
  BY <1>2, <1>3, <1>4, CollapseFacts
<1>6. /\ c.root = Leaf(<< >>) /\ c.large = FALSE /\ c.node = FoldedNodes(d) /\ c.used = {} /\ c.owned = 1
      /\ c.free = d.free + d.owned - 1
  BY <1>1, <1>5 DEF Folded, Directory
<1>7. c.owned + c.free = Clusters
  BY <1>2, <1>6
<1>8. \A v \in Block : Idle(c, v)
  <2>1. ASSUME NEW v \in Block PROVE c.node[v] = d.node[v] \/ c.node[v] = Blank
    BY <1>6 DEF FoldedNodes
  <2>2. Blank.keys = << >> /\ Blank.end \notin Block
    BY BlankFacts, ConstFacts
  <2> QED BY <1>2, <2>1, <2>2 DEF Idle
<1>9. Sorted(c.root, -1, -1) /\ Bare(c.root) /\ c.root.keys = << >>
  <2>1. PICK m : m = Leaf(<< >>)
    OBVIOUS
  <2>2. m.keys = << >> /\ m.end = None /\ Len(m.keys) = 0
    BY <2>1, EmptyLeafFacts
  <2>3. Sorted(m, -1, -1)
    BY <2>2 DEF Sorted
  <2>4. Bare(m)
    BY <2>2 DEF Bare, Slots, SubAt
  <2> QED BY <1>6, <2>1, <2>2, <2>3, <2>4
<1>10. Small(c)
  BY <1>5, <1>6, <1>7, <1>8, <1>9 DEF Small
<1>11. KeysIn(c) = {}
  BY <1>9, <1>10, SmallKeys
<1> QED BY <1>1, <1>4, <1>10, <1>11 DEF Settled

(***************************************************************************)
(* A key leaves the tree.                                                  *)
(***************************************************************************)
\* The tree has the keys K, the levels it had, and lacks nothing but for the block x.
Took(K, g, e, x) ==
  /\ KeysIn(e) = K
  /\ \E h : /\ h.lev = g.lev
            /\ (x = None /\ Tree(e, -1, h) /\ K # {}) \/ (x \in e.used /\ Tree(e, x, h))

\* A leaf loses a key.
LEMMA TakeLeaf ==
  ASSUME NEW d, NEW g, Tree(d, -1, g), NEW u \in d.used, g.lev[u] = 0, NEW k \in Key, NEW n, n = NodeAt(d, u),
         Has(n, k), NEW i, i = Slot(n, k), NEW m, m = Without(n, i), NEW e, e = NodeWith(d, u, m),
         NEW x, x = IF m.keys = << >> THEN u ELSE None
  PROVE  Took(KeysIn(d) \ {k}, g, e, x)
<1>1. /\ d \in Volume /\ u \in Block /\ u \in InTree(d) /\ u # None /\ u \in Place /\ n \in Node /\ n = d.node[u]
      /\ None # -1
  BY TreeFacts, ConstFacts DEF Place, NodeAt
<1>2. i \in 1..Len(n.keys) /\ n.keys[i].key = k
  <2>1. Sorted(n, g.lo[u], g.hi[u])
    BY <1>1, KeyBetween
  <2> QED BY <2>1, <1>1, HasSlot
<1>3. e = Put(d, u, m)
  BY <1>1 DEF NodeWith
<1>4. PICK y : y = IF m.keys = << >> THEN u ELSE -1
  OBVIOUS
<1>5. m \in Node /\ Len(m.keys) = Len(n.keys) - 1 /\ Tree(e, y, g) /\ KeysIn(e) = KeysIn(d) \ {k}
  <2>1. n = d.node[u] /\ i \in 1..Len(n.keys) /\ k = n.keys[i].key /\ e = Put(d, u, m)
    BY <1>1, <1>2, <1>3
  <2>2. CutTo(d, g, u, k, m, e)
    BY <2>1, CutLeaf
  <2> QED BY <2>2, <1>1, <1>4 DEF CutTo
<1>6. e.used = d.used /\ NodeAt(e, u) = m /\ InTree(e) = InTree(d)
  BY <1>1, <1>3, <1>5, PutNodes
<1>7. CASE m.keys = << >>
  <2>1. x = u /\ y = u
    BY <1>4, <1>7
  <2> QED BY <2>1, <1>5, <1>6 DEF Took
<1>8. CASE m.keys # << >>
  <2>1. x = None /\ y = -1
    BY <1>4, <1>8
  <2>2. KeysIn(e) # {}
    <3>1. m.keys \in Seq(Item)
      BY <1>5, NodeFacts
    <3>2. 1 \in 1..Len(m.keys)
      BY <3>1, <1>8
    <3>3. Has(m, m.keys[1].key) /\ m.keys[1].key \in Key
      BY <3>2, <1>5, NodeFacts DEF Has
    <3> QED BY <3>3, <1>1, <1>6 DEF KeysIn
  <2> QED BY <2>1, <2>2, <1>5 DEF Took
<1> QED BY <1>7, <1>8

\* A separator is replaced by its predecessor, the last key of a leaf
\* (NtfsExtractMaxKey).
LEMMA TakeInner ==
  ASSUME NEW d, NEW g, Tree(d, -1, g), Whole(d), g.lev[None] <= InsertLevels, NEW u \in InTree(d), NEW k \in Key,
         NEW n, n = NodeAt(d, u), Has(n, k), NEW i, i = Slot(n, k), NEW v \in d.used, SubAt(n, i) = v,
         NEW q, q = ExtractMaxKey(d, v)
  PROVE  /\ q.how = "done" /\ q.dir.node # d.node /\ q.key \in Key
         /\ \A m, e : m = Rekeyed(n, i, q.key) /\ e = NodeWith(q.dir, u, m) => Took(KeysIn(d) \ {k}, g, e, q.emptied)
<1>1. /\ d \in Volume /\ (\A w \in d.used : w \in InTree(d) /\ w \in Block /\ w # None /\ w \in Place)
      /\ (\A w \in Place : g.lev[w] \in Nat /\ NodeAt(d, w) \in Node /\ g.lo[w] \in Int /\ g.hi[w] \in Int)
      /\ u \in Place /\ n \in Node /\ None # -1
  BY TreeFacts, ConstFacts DEF Place
<1>2. i \in 1..Len(n.keys) /\ n.keys[i].key = k /\ i \in Slots(n)
  <2>1. Sorted(n, g.lo[u], g.hi[u])
    BY <1>1, KeyBetween
  <2>2. i \in 1..Len(n.keys) /\ n.keys[i].key = k
    BY <2>1, <1>1, HasSlot
  <2> QED BY <2>2, <1>1, NodeFacts DEF Slots
<1>3. g.lev[v] + 1 = g.lev[u] /\ g.lo[v] = LoAt(n, g.lo[u], i) /\ g.hi[v] = k
  <2>1. /\ g.lev[v] + 1 = g.lev[u] /\ g.lo[v] = LoAt(n, g.lo[u], i) /\ g.hi[v] = HiAt(n, g.hi[u], i)
    BY <1>1, <1>2, PointerFacts
  <2>2. HiAt(n, g.hi[u], i) = k
    BY <1>1, <1>2, NodeFacts DEF HiAt
  <2> QED BY <2>1, <2>2
<1>4. Extracted(d, g, v, q)
  <2>1. g.lev[v] < g.lev[None]
    BY ParentFacts
  <2>2. g.lev[v] \in Nat /\ g.lev[None] \in Nat
    BY <1>1 DEF Place
  <2>3. g.lev[v] < RemoveLevels
    BY <2>1, <2>2 DEF InsertLevels, RemoveLevels
  <2> QED BY <2>3, ExtractWalk
<1>5. PICK l \in d.used : TakenOut(d, g, v, l, q)
  BY <1>4 DEF Extracted
<1>6. PICK s : s = d.node[l]
  OBVIOUS
<1>7. PICK z : z = Len(s.keys)
  OBVIOUS
<1>8. PICK p : p = s.keys[z].key
  OBVIOUS
<1>9. PICK c : c = Cutlast(s)
  OBVIOUS
<1>10. /\ g.lev[l] = 0 /\ g.hi[l] = k /\ g.lo[v] <= g.lo[l] /\ s.keys # << >>
       /\ q = Wrote(d, l, c, p, None)
  BY <1>3, <1>5, <1>6, <1>7, <1>8, <1>9 DEF TakenOut
<1>11. /\ s \in Node /\ s = NodeAt(d, l) /\ z \in 1..Len(s.keys) /\ z \in Nat /\ p \in Key /\ c = Without(s, z)
       /\ DOMAIN s.keys = 1..z /\ Has(s, p) /\ (\A j \in 1..z : s.keys[j].key \in Nat)
  <2>1. s \in Node /\ s = NodeAt(d, l)
    BY <1>1, <1>6 DEF NodeAt
  <2>2. z \in 1..Len(s.keys)
    BY <2>1, <1>7, <1>10, LastFacts
  <2> QED BY <2>1, <2>2, <1>7, <1>8, <1>9, NodeFacts DEF Cutlast, Has
<1>12. PICK f : f = Put(d, l, c)
  OBVIOUS
<1>13. PICK y : y = IF c.keys = << >> THEN l ELSE -1
  OBVIOUS
<1>14. /\ c \in Node /\ Len(c.keys) = Len(s.keys) - 1 /\ Tree(f, y, g) /\ KeysIn(f) = KeysIn(d) \ {p}
  <2>1. /\ s = d.node[l] /\ z \in 1..Len(s.keys) /\ p = s.keys[z].key /\ c = Without(s, z) /\ p \in Key
        /\ g.lev[l] = 0 /\ f = Put(d, l, c)
    BY <1>6, <1>8, <1>10, <1>11, <1>12
  <2>2. CutTo(d, g, l, p, c, f)
    BY <2>1, CutLeaf
  <2> QED BY <2>2, <1>6, <1>13 DEF CutTo
<1>15. /\ f \in Volume /\ f.used = d.used /\ InTree(f) = InTree(d) /\ NodeAt(f, l) = c
       /\ (\A t \in Place : t # l => NodeAt(f, t) = NodeAt(d, t)) /\ f.node[l] = c
  <2>1. /\ f \in Volume /\ f.used = d.used /\ InTree(f) = InTree(d) /\ NodeAt(f, l) = c
        /\ \A t \in Place : t # l => NodeAt(f, t) = NodeAt(d, t)
    <3>1. d \in Volume /\ l \in Block /\ c \in Node /\ f = Put(d, l, c)
      BY <1>1, <1>12, <1>14
    <3> QED BY <3>1, PutNodes
  <2>2. l # None
    BY <1>1
  <2> QED BY <2>1, <2>2 DEF NodeAt
<1>16. /\ q.how = "done" /\ q.dir = f /\ q.key = p /\ q.emptied = IF c.keys = << >> THEN l ELSE None
  BY <1>10, <1>12 DEF Wrote, Taken
<1>17. f.node # d.node
  <2>1. c # s
    BY <1>7, <1>11, <1>14
  <2> QED BY <2>1, <1>6, <1>15
<1>18. u # l
  <2>1. g.lev[v] \in Nat
    BY <1>1
  <2> QED BY <2>1, <1>3, <1>10
<1>19. NodeAt(f, u) = n /\ u \in InTree(f)
  BY <1>1, <1>15, <1>18
<1>20. k \in Nat /\ p \in Nat /\ p < k /\ LoAt(n, g.lo[u], i) < p
  <2>1. Between(p, g.lo[l], g.hi[l])
    BY <1>1, <1>11, KeyBetween
  <2>2. k \in Nat /\ p \in Nat /\ g.lo[l] \in Int /\ g.lo[v] \in Int
    BY <1>1, <1>11, ConstFacts
  <2>3. g.lo[l] < p /\ p < k
    BY <2>1, <2>2, <1>10 DEF Between
  <2>4. g.lo[v] < p
    BY <2>2, <2>3, <1>10
  <2> QED BY <2>2, <2>3, <2>4, <1>3
<1>21. ASSUME NEW o \in KeysIn(f) PROVE o = k \/ o < p \/ k < o
  <2>1. o \in KeysIn(d) /\ o # p /\ o \in Key /\ o \in Nat
    BY <1>14, ConstFacts DEF KeysIn
  <2> SUFFICES ASSUME p < o, o < k PROVE FALSE
    BY <2>1, <1>20
  <2>2. Between(o, g.lo[l], g.hi[l])
    <3>1. Between(p, g.lo[l], g.hi[l])
      BY <1>1, <1>11, KeyBetween
    <3>2. g.lo[l] < p /\ g.lo[l] \in Int
      BY <3>1, <1>1 DEF Between
    <3>3. g.lo[l] < o
      BY <3>2, <2>1, <1>20
    <3> QED BY <3>3, <1>10 DEF Between
  <2>3. PICK w \in InTree(d) : Has(NodeAt(d, w), o)
    BY <2>1 DEF KeysIn
  <2>4. w \in Place /\ g.lev[w] \in Nat
    BY TreeFacts
  <2>5. l \in InTree(d) /\ g.lev[l] <= g.lev[w]
    BY <2>4, <1>1, <1>10
  <2>6. l = w
    BY <2>1, <2>2, <2>3, <2>5, Only
  <2>7. PICK j \in 1..z : s.keys[j].key = o
    BY <2>3, <2>6, <1>11 DEF Has
  <2>8. j # z
    BY <2>1, <2>7, <1>8
  <2>9. Sorted(s, g.lo[l], g.hi[l])
    BY <1>1, <1>11, KeyBetween
  <2>10. j < z
    BY <2>7, <2>8, <1>11
  <2>11. s.keys[j].key < s.keys[z].key
    BY <2>7, <2>9, <2>10, <1>7, <1>11 DEF Sorted
  <2>12. o < p
    BY <2>7, <2>11, <1>8
  <2> QED BY <2>1, <2>12, <1>20
<1>22. ASSUME NEW m, NEW e, m = Rekeyed(n, i, q.key), e = NodeWith(q.dir, u, m)
       PROVE  Took(KeysIn(d) \ {k}, g, e, q.emptied)
  <2>1. /\ u \in InTree(f) /\ n = NodeAt(f, u) /\ i \in 1..Len(n.keys) /\ k = n.keys[i].key /\ p \in Key /\ p < k
        /\ LoAt(n, g.lo[u], i) < p /\ (\A o \in KeysIn(f) : o = k \/ o < p \/ k < o)
        /\ m = Rekeyed(n, i, p) /\ e = NodeWith(f, u, m) /\ Tree(f, y, g)
    BY <1>2, <1>11, <1>14, <1>16, <1>19, <1>20, <1>21, <1>22
  <2>2. KeysIn(e) = (KeysIn(f) \ {k}) \cup {p} /\ \E h : Tree(e, y, h) /\ h.lev = g.lev
    <3>1. RenamedTree(f, y, g, k, p, e)
      BY <2>1, RenameTree
    <3> QED BY <3>1 DEF RenamedTree
  <2>3. KeysIn(e) = KeysIn(d) \ {k}
    <3>1. p \in KeysIn(d)
      BY <1>1, <1>11 DEF KeysIn
    <3> QED BY <3>1, <2>2, <1>14, <1>20
  <2>4. e.used = d.used
    <3>1. m \in Node
      BY <2>1, <1>1, RekeyedFacts
    <3>2. u \in Block \cup {None} /\ f \in Volume /\ e = NodeWith(f, u, m) /\ f.used = d.used
      BY <2>1, <1>1, <1>15 DEF Place
    <3>3. e.used = f.used
      BY <3>1, <3>2, NodeWithFacts
    <3> QED BY <3>2, <3>3
  <2>5. CASE c.keys = << >>
    <3>1. y = l /\ q.emptied = l
      BY <2>5, <1>13, <1>16
    <3> QED BY <3>1, <2>2, <2>3, <2>4 DEF Took
  <2>6. CASE c.keys # << >>
    <3>1. y = -1 /\ q.emptied = None /\ KeysIn(e) # {}
      BY <2>2, <2>6, <1>13, <1>16
    <3> QED BY <3>1, <2>2, <2>3 DEF Took
  <2> QED BY <2>5, <2>6
<1> QED BY <1>11, <1>16, <1>17, <1>22

(***************************************************************************)
(* The key that is asked for leaves the tree.                              *)
(***************************************************************************)
\* A single item is the whole of its node, and the node is empty without it.
LEMMA OnlyKey ==
  ASSUME NEW n \in Node, NEW k \in Key, NEW i \in 1..Len(n.keys), n.keys[i] = Plain(k), NEW m, m = Without(n, i)
  PROVE  m.keys = << >> <=> n.keys = <<Plain(k)>>
<1>1. n.keys \in Seq(Item) /\ Len(n.keys) \in Nat /\ m \in Node /\ Len(m.keys) = Len(n.keys) - 1 /\ m.keys \in Seq(Item)
  BY WithoutFacts, NodeFacts
<1>2. m.keys = << >> <=> Len(m.keys) = 0
  <2>1. PICK s \in Seq(Item) : s = m.keys
    BY <1>1
  <2>2. s = << >> <=> Len(s) = 0
    BY EmptySeq
  <2> QED BY <2>1, <2>2
<1>3. Len(m.keys) = 0 <=> Len(n.keys) = 1
  BY <1>1
<1>4. Len(n.keys) = 1 => n.keys = <<Plain(k)>>
  <2> SUFFICES ASSUME Len(n.keys) = 1 PROVE n.keys = <<Plain(k)>>
    OBVIOUS
  <2>1. n.keys[1] = Plain(k)
    <3>1. i = 1
      OBVIOUS
    <3> QED BY <3>1
  <2> QED BY <2>1, <1>1
<1>5. n.keys = <<Plain(k)>> => Len(n.keys) = 1
  OBVIOUS
<1> QED BY <1>2, <1>3, <1>4, <1>5

\* The only node with k is the one that is found by reading every block.
LEMMA TreeHolder ==
  ASSUME NEW d, NEW x, NEW g, Tree(d, x, g), NEW k \in KeysIn(d), NEW u, u = HolderOf(d, k)
  PROVE  /\ Has(d.root, k) \/ Holders(d, k) # {}
         /\ u \in InTree(d) /\ u \in Place /\ Has(NodeAt(d, u), k) /\ NodeAt(d, u) \in Node
<1>1. d \in Volume /\ k \in Key /\ None \in InTree(d)
  BY TreeFacts DEF KeysIn
<1>2. Has(d.root, k) \/ Holders(d, k) # {}
  <2>1. KeysIn(d) = {z \in Key : Has(d.root, z) \/ \E v \in Block : Readable(d, v) /\ Has(d.node[v], z)}
    BY TreeScan
  <2>2. Has(d.root, k) \/ \E v \in Block : Readable(d, v) /\ Has(d.node[v], k)
    BY <2>1
  <2> QED BY <2>2 DEF Holders
<1>3. u \in Block \cup {None} /\ NodeAt(d, u) \in Node /\ Has(NodeAt(d, u), k)
  BY <1>1, <1>2, HolderFacts
<1>4. CASE u = None
  BY <1>1, <1>2, <1>3, <1>4 DEF Place
<1>5. CASE u # None
  <2>1. d.node[u].keys # << >>
    <3> SUFFICES ASSUME d.node[u].keys = << >> PROVE FALSE
      OBVIOUS
    <3> QED BY <1>3, <1>5 DEF Has, NodeAt
  <2>2. u \in d.used
    BY <2>1, <1>3, <1>5 DEF Tree, Idle
  <2> QED BY <2>2, <1>2, <1>3 DEF InTree, Place
<1> QED BY <1>4, <1>5

\* A removal that stops has cut a leaf; one that does not leaves a tree
\* (NtfsRemoveOneDirEntryByChild).
LEMMA TakeStep ==
  ASSUME NEW d, NEW g, Tree(d, -1, g), Whole(d), g.lev[None] <= InsertLevels, NEW k \in KeysIn(d),
         NEW u, u = HolderOf(d, k), NEW r, r = TakenFrom(d, k)
  PROVE  /\ r.how # "done" => r.dir.node # d.node
         /\ r.how = "done" => Took(KeysIn(d) \ {k}, g, NodeWith(r.dir, u, r.node), EmptiedBy(d, k))
<1>1. /\ d \in Volume /\ (\A w \in InTree(d) : w # None => w \in d.used)
      /\ (\A w \in d.used : w \in Block /\ w # None) /\ (\A w \in Place : g.lev[w] \in Nat) /\ None # -1 /\ None \notin Block
  BY TreeFacts, ConstFacts
<1>2. PICK n : n = NodeAt(d, u)
  OBVIOUS
<1>3. u \in InTree(d) /\ u \in Place /\ Has(n, k) /\ n \in Node /\ k \in Key
  BY <1>2, TreeHolder DEF KeysIn
<1>4. PICK i : i = Slot(n, k)
  OBVIOUS
<1>5. PICK v : v = n.keys[i].sub
  OBVIOUS
<1>6. PICK q : q = ExtractMaxKey(d, v)
  OBVIOUS
<1>7. PICK room : room = RoomOf(u)
  OBVIOUS
<1>8. r = TakeKey(d, n, k, room)
  BY <1>2, <1>7 DEF TakenFrom
<1>9. /\ i \in 1..Len(n.keys) /\ v \in Sub
      /\ v = None => r = Kept(d, Without(n, i), None)
      /\ v # None /\ q.how = "done" =>
           \/ Width(Rekeyed(n, i, q.key).keys) > room /\ r = Unsupported(q.dir)
           \/ ~ (Width(Rekeyed(n, i, q.key).keys) > room) /\ r = Kept(q.dir, Rekeyed(n, i, q.key), q.emptied)
  <2>1. n \in Node /\ d \in Volume /\ k \in Key /\ Has(n, k) /\ i = Slot(n, k) /\ v = n.keys[i].sub /\ q = ExtractMaxKey(d, v)
    BY <1>1, <1>3, <1>4, <1>5, <1>6
  <2> QED BY <2>1, <1>8, TakeKeyFacts
<1>10. SubAt(n, i) = v /\ i \in Slots(n) /\ i # Len(n.keys) + 1 /\ n.keys[i].key = k /\ n.keys[i] = [key |-> k, sub |-> v]
  <2>1. SubAt(n, i) = v /\ i \in Slots(n) /\ i # Len(n.keys) + 1
    BY <1>3, <1>5, <1>9, NodeFacts DEF SubAt, Slots
  <2>2. n.keys[i].key = k
    <3>1. Sorted(n, g.lo[u], g.hi[u])
      BY <1>2, <1>3, KeyBetween
    <3> QED BY <3>1, <1>3, <1>4, HasSlot
  <2>3. n.keys[i] \in Item
    BY <1>3, <1>9, NodeFacts
  <2>4. n.keys[i] = [key |-> n.keys[i].key, sub |-> n.keys[i].sub]
    BY <2>3 DEF Item
  <2> QED BY <2>1, <2>2, <2>4, <1>5
<1>11. EmptiedBy(d, k) = IF u # None /\ n.keys = <<Plain(k)>> THEN u ELSE r.emptied
  BY <1>2 DEF EmptiedBy
<1>12. Fits(d, -1, g, u) /\ u # -1
  BY <1>1, <1>3, ConstFacts DEF Tree, Place
<1>13. CASE g.lev[u] = 0
  <2>1. v = None
    BY <1>2, <1>10, <1>12, <1>13 DEF Fits, Bare
  <2>2. u # None /\ u \in d.used
    <3>1. g.lev[None] > 0
      BY DEF Tree
    <3>2. u # None
      BY <3>1, <1>13
    <3> QED BY <3>2, <1>1, <1>3
  <2>3. PICK m : m = Without(n, i)
    OBVIOUS
  <2>4. r.how = "done" /\ r.dir = d /\ r.node = m /\ r.emptied = None
    BY <2>1, <2>3, <1>9 DEF Kept
  <2>5. PICK x : x = IF m.keys = << >> THEN u ELSE None
    OBVIOUS
  <2>6. EmptiedBy(d, k) = x
    <3>1. n.keys[i] = Plain(k)
      BY <2>1, <1>10 DEF Plain
    <3>2. m.keys = << >> <=> n.keys = <<Plain(k)>>
      BY <3>1, <2>3, <1>3, <1>9, OnlyKey
    <3> QED BY <3>2, <2>2, <2>4, <2>5, <1>11
  <2>7. PICK e : e = NodeWith(d, u, m)
    OBVIOUS
  <2>8. Took(KeysIn(d) \ {k}, g, e, x)
    BY <2>2, <2>3, <2>5, <2>7, <1>2, <1>3, <1>4, <1>13, TakeLeaf
  <2> QED BY <2>4, <2>6, <2>7, <2>8
<1>14. CASE g.lev[u] # 0
  <2>1. v \in d.used
    <3>1. g.lev[u] > 0
      BY <1>1, <1>3, <1>14
    <3>2. Child(d, g, u, i) \/ Stump(d, u, i)
      BY <3>1, <1>2, <1>10, <1>12 DEF Fits
    <3>3. ~ Stump(d, u, i)
      BY <1>2, <1>10 DEF Stump
    <3> QED BY <3>2, <3>3, <1>2, <1>10 DEF Child
  <2>2. /\ q.how = "done" /\ q.dir.node # d.node
        /\ \A m, e : m = Rekeyed(n, i, q.key) /\ e = NodeWith(q.dir, u, m) => Took(KeysIn(d) \ {k}, g, e, q.emptied)
    <3>1. Has(n, k) /\ n = NodeAt(d, u) /\ i = Slot(n, k) /\ SubAt(n, i) = v /\ k \in Key /\ u \in InTree(d)
      BY <1>2, <1>3, <1>4, <1>10
    <3> QED BY <3>1, <2>1, <1>6, TakeInner
  <2>3. v # None
    BY <2>1, <1>1
  <2>4. CASE r = Unsupported(q.dir)
    <3>1. r.how = "unsupported" /\ r.dir = q.dir
      BY <2>4 DEF Unsupported
    <3> QED BY <3>1, <2>2
  <2>5. CASE r = Kept(q.dir, Rekeyed(n, i, q.key), q.emptied)
    <3>1. r.how = "done" /\ r.dir = q.dir /\ r.node = Rekeyed(n, i, q.key) /\ r.emptied = q.emptied
      BY <2>5 DEF Kept
    <3>2. n.keys # <<Plain(k)>>
      <4> SUFFICES ASSUME n.keys = <<Plain(k)>> PROVE FALSE
        OBVIOUS
      <4>1. i = 1
        BY <1>9
      <4>2. v = None
        BY <4>1, <1>5 DEF Plain
      <4> QED BY <4>2, <2>3
    <3>3. EmptiedBy(d, k) = q.emptied
      BY <3>1, <3>2, <1>11
    <3> QED BY <3>1, <3>3, <2>2
  <2> QED BY <2>2, <2>3, <2>4, <2>5, <1>9
<1> QED BY <1>13, <1>14

(***************************************************************************)
(* The pointer to an empty block goes.                                     *)
(***************************************************************************)
\* The one pointer to a block is found in the record or by reading every block.
LEMMA TreeHost ==
  ASSUME NEW d, NEW x, NEW g, Tree(d, x, g), NEW v \in d.used, NEW u, u = HostOf(d, v), NEW n, n = NodeAt(d, u),
         NEW i, i = HostSlot(d, v)
  PROVE  /\ SlotOf(d.root, v) # {} \/ Hosts(d, v) # {}
         /\ u = g.par[v] /\ u \in InTree(d) /\ u \in Place /\ u # v /\ u # x /\ g.lev[u] = g.lev[v] + 1
         /\ n \in Node /\ i \in Slots(n) /\ SubAt(n, i) = v /\ Child(d, g, u, i)
<1>1. /\ d \in Volume /\ d.used \subseteq Block /\ v \in Block /\ v # None /\ v # -1 /\ None \in InTree(d)
      /\ InTree(d) \subseteq Place /\ (\A w \in InTree(d) : w # None => w \in d.used)
      /\ (\A w \in d.used : w \in InTree(d)) /\ d.root \in Node /\ (\A w \in Block : d.node[w] \in Node) /\ None \notin Block
  BY TreeFacts, ConstFacts, VolumeFacts
<1>2. PICK p : p = g.par[v]
  OBVIOUS
<1>3. PICK j \in Slots(NodeAt(d, p)) : SubAt(NodeAt(d, p), j) = v
  BY <1>2, ParentFacts
<1>4. p \in InTree(d) /\ p # v /\ g.lev[p] = g.lev[v] + 1
  BY <1>2, ParentFacts
<1>5. SlotOf(d.root, v) # {} \/ Hosts(d, v) # {}
  <2>1. CASE p = None
    <3>1. j \in SlotOf(d.root, v)
      BY <2>1, <1>3 DEF SlotOf, Slots, NodeAt
    <3> QED BY <3>1
  <2>2. CASE p # None
    <3>1. p \in Block /\ p \in d.used
      BY <2>2, <1>1, <1>4
    <3>2. j \in Slots(d.node[p]) /\ SubAt(d.node[p], j) = v
      BY <2>2, <1>3 DEF NodeAt
    <3>3. Readable(d, p)
      <4>1. SubAt(d.node[p], j) # -1
        BY <3>2, <1>1
      <4> QED BY <4>1, <3>1, <3>2, <1>1, ReadableFacts
    <3>4. j \in SlotOf(d.node[p], v)
      BY <3>2 DEF SlotOf, Slots
    <3> QED BY <3>1, <3>3, <3>4, <1>4 DEF Hosts
  <2> QED BY <2>1, <2>2
<1>6. /\ u \in Block \cup {None} /\ u # v /\ (SlotOf(d.root, v) = {} => u \in Hosts(d, v)) /\ n \in Node
      /\ i \in 1..(Len(n.keys) + 1) /\ SubAt(n, i) = v
  BY <1>1, <1>5, HostFacts
<1>7. u \in InTree(d)
  <2> SUFFICES ASSUME u \notin InTree(d) PROVE FALSE
    OBVIOUS
  <2>1. u \in Block \ d.used /\ u # None
    BY <1>1, <1>6 DEF InTree
  <2>2. n.keys = << >> /\ n.end \notin Block
    BY <2>1 DEF Tree, Idle, NodeAt
  <2>3. Len(n.keys) = 0
    BY <2>2
  <2>4. SubAt(n, i) = n.end
    BY <2>3, <1>6 DEF SubAt
  <2> QED BY <2>2, <2>4, <1>1, <1>6
<1>8. i \in Slots(n)
  BY <1>6 DEF Slots
<1>9. Child(d, g, u, i) /\ g.par[v] = u /\ u # x
  <2>1. i \in Slots(NodeAt(d, u)) /\ SubAt(NodeAt(d, u), i) = v
    BY <1>6, <1>8
  <2> QED BY <2>1, <1>1, <1>7, PointerFacts
<1> QED BY <1>1, <1>2, <1>4, <1>5, <1>6, <1>7, <1>8, <1>9

\* The directory e is d without the block v, whose host is u and becomes m.
Unhung(d, v, u, m, e) ==
  /\ e \in Volume /\ e.large = d.large /\ e.owned = d.owned /\ e.free = d.free
  /\ e.used = d.used \ {v} /\ InTree(e) = InTree(d) \ {v}
  /\ NodeAt(e, u) = m /\ \A t \in Place : t # u => NodeAt(e, t) = NodeAt(d, t)

\* That is what unhooking makes of d.
LEMMA UnhookedIs ==
  ASSUME NEW d \in Volume, NEW v \in Block, NEW u, u = HostOf(d, v), u \in Place, NEW n, n = NodeAt(d, u), n \in Node,
         NEW i, i = HostSlot(d, v), i \in Slots(n), NEW m, m = Off(n, i), NEW e, e = Unhooked(d, v)
  PROVE  m \in Node /\ Unhung(d, v, u, m, e)
<1>1. m \in Node
  BY OffFacts DEF Slots
<1>2. PICK f : f = NodeWith(d, u, m)
  OBVIOUS
<1>3. e = InUse(f, d.used \ {v})
  BY <1>2 DEF Unhooked
<1>4. /\ f \in Volume /\ f.large = d.large /\ f.used = d.used /\ f.owned = d.owned /\ f.free = d.free
      /\ NodeAt(f, u) = m /\ \A t \in Place : t # u => NodeAt(f, t) = NodeAt(d, t)
  BY <1>1, <1>2, NodeWithNodes
<1>5. d.used \ {v} \in SUBSET Block
  BY VolumeFacts
<1>6. /\ e \in Volume /\ e.root = f.root /\ e.large = f.large /\ e.node = f.node /\ e.used = d.used \ {v}
      /\ e.owned = f.owned /\ e.free = f.free
  BY <1>3, <1>4, <1>5, InUseFacts
<1>7. \A t : NodeAt(e, t) = NodeAt(f, t)
  BY <1>6 DEF NodeAt
<1>8. InTree(e) = InTree(d) \ {v}
  BY <1>6, ConstFacts DEF InTree
<1> QED BY <1>1, <1>4, <1>6, <1>7, <1>8 DEF Unhung

\* What the call comes to, when e is the directory without the pointer.
UnhookTo(e, u, n, i, s) ==
  /\ i <= Len(n.keys) => s = LeftWith(InsertEntry(e, n.keys[i].key), None)
  /\ ~ (i <= Len(n.keys)) => s = LeftWith(Done(e), IF u # None /\ Off(n, i).keys = << >> THEN u ELSE None)

\* Taking out a pointer is that and nothing else (NtfsDropEmptyIndexBlock).
LEMMA UnhookIs ==
  ASSUME NEW d \in Volume, NEW v \in Block, SlotOf(d.root, v) # {} \/ Hosts(d, v) # {}, NEW u, u = HostOf(d, v),
         NEW n, n = NodeAt(d, u), NEW i, i = HostSlot(d, v), NEW e, e = Unhooked(d, v), NEW s, s = Unhook(d, v)
  PROVE  UnhookTo(e, u, n, i, s)
<1>1. /\ i <= Len(n.keys) => s = LeftWith(InsertEntry(e, n.keys[i].key), None)
      /\ ~ (i <= Len(n.keys)) => s = LeftWith(Done(e), IF u # None /\ Off(n, i).keys = << >> THEN u ELSE None)
  BY UnhookFacts
<1> QED BY <1>1 DEF UnhookTo

\* What a node is without the pointer at its end: the record without a last child, or
\* an empty block.
Remnant(u, n, y) ==
  \/ u = None /\ y = -1
  \/ u # None /\ n.keys = << >> /\ y = u

\* The keys stay, and the tree but for the block y.
EndedTree(d, y, g, e) == Tree(e, y, g) /\ KeysIn(e) = KeysIn(d)

\* Without the pointer at the end of one node it still is such a tree.
LEMMA EndTree ==
  ASSUME NEW d, NEW g, NEW v, Tree(d, v, g), v \in d.used, NEW u \in InTree(d), u = g.par[v], NEW n, n = NodeAt(d, u),
         NEW i, i = Len(n.keys) + 1, SubAt(n, i) = v, NEW m, m = [n EXCEPT !.end = None], NEW e, Unhung(d, v, u, m, e),
         NEW y, Remnant(u, n, y)
  PROVE  EndedTree(d, y, g, e)
<1>0. \/ u = None /\ y = -1
      \/ u # None /\ n.keys = << >> /\ y = u
  BY DEF Remnant
<1>1. /\ d \in Volume /\ g \in Labels /\ v \in InTree(d) /\ v \in Block /\ v # None /\ v # -1 /\ None # -1 /\ None \notin Block
      /\ (\A w \in InTree(d) : w \in Place /\ w # -1 /\ NodeAt(d, w) \in Node) /\ (\A w \in d.used : w \in InTree(d) /\ w # None)
      /\ u \in Place /\ n \in Node /\ Len(n.keys) \in Nat
  <2>1. /\ d \in Volume /\ g \in Labels /\ v \in InTree(d) /\ v \in Block /\ v # None
        /\ InTree(d) \subseteq Place /\ (\A w \in Place : NodeAt(d, w) \in Node) /\ (\A w \in d.used : w \in InTree(d) /\ w # None)
    BY TreeFacts
  <2>2. -1 \notin Place /\ None # -1 /\ None \notin Block /\ -1 \notin Block
    BY ConstFacts DEF Place
  <2> QED BY <2>1, <2>2, NodeFacts
<1>2. u # v
  BY ParentFacts
<1>3. /\ m \in Node /\ m.keys = n.keys /\ m.end = None /\ Slots(m) = Slots(n)
      /\ \A j \in 1..Len(n.keys) : SubAt(m, j) = SubAt(n, j)
  BY <1>1, NoEndFacts DEF Slots
<1>4. /\ e \in Volume /\ e.large = d.large /\ e.owned = d.owned /\ e.free = d.free
      /\ e.used = d.used \ {v} /\ InTree(e) = InTree(d) \ {v}
      /\ NodeAt(e, u) = m /\ \A t \in Place : t # u => NodeAt(e, t) = NodeAt(d, t)
  BY DEF Unhung
<1>5. g.lev[u] # 0 /\ g.lev[u] \in Nat
  <2>1. g.lev[u] = g.lev[v] + 1 /\ g.lev[v] \in Nat /\ v \in Place
    BY <1>1, ParentFacts, TreeFacts
  <2> QED BY <2>1
<1>6. ASSUME NEW w \in InTree(e), w # u PROVE Fits(e, y, g, w)
  <2>1. w \in InTree(d) /\ w # v /\ w # y /\ w # -1 /\ NodeAt(e, w) = NodeAt(d, w)
    BY <1>0, <1>1, <1>4, <1>6
  <2>2. \A c \in d.used : g.par[c] = w => Stays(e, g, g, c, w)
    <3> SUFFICES ASSUME NEW c \in d.used, g.par[c] = w PROVE Stays(e, g, g, c, w)
      OBVIOUS
    <3>1. c # v
      BY <1>6
    <3> QED BY <3>1, <1>4 DEF Stays
  <2>3. w = v <=> w = y
    BY <2>1
  <2> QED BY <2>1, <2>2, <2>3, SameFits
<1>7. Fits(e, y, g, u)
  <2>1. Fits(d, v, g, u) /\ Sorted(n, g.lo[u], g.hi[u])
    BY DEF Tree, Fits
  <2>2. Sorted(m, g.lo[u], g.hi[u])
    BY <2>1, <1>3 DEF Sorted
  <2>3. CASE u = None
    <3>1. y = -1 /\ u # y
      BY <2>3, <1>0, <1>1
    <3>2. \A j \in Slots(m) : Child(e, g, u, j) \/ Stump(e, u, j)
      <4> SUFFICES ASSUME NEW j \in Slots(m) PROVE Child(e, g, u, j) \/ Stump(e, u, j)
        OBVIOUS
      <4>1. CASE j = Len(n.keys) + 1
        <5>1. SubAt(m, j) = None
          BY <4>1, <1>1, <1>3 DEF SubAt
        <5> QED BY <5>1, <4>1, <2>3, <1>3, <1>4 DEF Stump
      <4>2. CASE j # Len(n.keys) + 1
        <5>1. j \in 1..Len(n.keys) /\ j \in Slots(n)
          BY <4>2, <1>1, <1>3 DEF Slots
        <5>2. Child(d, g, u, j)
          <6>1. Child(d, g, u, j) \/ Stump(d, u, j)
            BY <5>1, <2>1, <1>2, <1>5 DEF Fits
          <6> QED BY <6>1, <4>2 DEF Stump
        <5>3. PICK c : c = SubAt(n, j)
          OBVIOUS
        <5>4. c # v
          <6> SUFFICES ASSUME c = v PROVE FALSE
            OBVIOUS
          <6>1. Len(n.keys) + 1 \in Slots(n)
            BY <1>1 DEF Slots
          <6>2. j = Len(n.keys) + 1
            BY <6>1, <5>1, <5>3, <1>1, PointerFacts
          <6> QED BY <6>2, <4>2
        <5>5. SubAt(m, j) = c /\ c \in e.used /\ LoAt(m, g.lo[u], j) = LoAt(n, g.lo[u], j) /\ HiAt(m, g.hi[u], j) = HiAt(n, g.hi[u], j)
          <6>1. SubAt(m, j) = c
            BY <5>1, <5>3, <1>3
          <6>2. c \in d.used
            BY <5>2, <5>3 DEF Child
          <6> QED BY <6>1, <6>2, <5>4, <1>3, <1>4 DEF LoAt, HiAt
        <5> QED BY <5>2, <5>3, <5>5, <1>4 DEF Child
      <4> QED BY <4>1, <4>2
    <3> QED BY <3>1, <3>2, <2>2, <1>4, <1>5 DEF Fits
  <2>4. CASE u # None
    <3>1. y = u /\ n.keys = << >>
      BY <2>4, <1>0
    <3>2. m = Leaf(<< >>)
      <4>1. m = [keys |-> m.keys, end |-> m.end]
        BY <1>3, NodeFacts
      <4> QED BY <4>1, <3>1, <1>3 DEF Leaf
    <3> QED BY <3>1, <3>2, <2>2, <1>4 DEF Fits
  <2> QED BY <2>3, <2>4
<1>8. \A w \in InTree(e) : g.lev[w] <= g.lev[None] /\ Fits(e, y, g, w)
  <2>1. \A w \in InTree(d) : g.lev[w] <= g.lev[None]
    <3> SUFFICES ASSUME NEW w \in InTree(d) PROVE g.lev[w] <= g.lev[None]
      OBVIOUS
    <3>1. g.lev[w] \in Nat /\ (w # None => w \in d.used)
      BY TreeFacts
    <3>2. CASE w = None
      BY <3>1, <3>2
    <3>3. CASE w # None
      <4>1. g.lev[w] < g.lev[None] /\ g.lev[None] \in Nat
        BY <3>1, <3>3, ParentFacts, TreeFacts DEF Place
      <4> QED BY <4>1, <3>1
    <3> QED BY <3>2, <3>3
  <2> QED BY <2>1, <1>4, <1>6, <1>7
<1>9. ASSUME NEW c \in e.used
      PROVE  \E w \in InTree(e) : \E j \in Slots(NodeAt(e, w)) : SubAt(NodeAt(e, w), j) = c
  <2>1. c \in d.used /\ c # v
    BY <1>4
  <2>2. PICK w : w = g.par[c]
    OBVIOUS
  <2>3. PICK j \in Slots(NodeAt(d, w)) : SubAt(NodeAt(d, w), j) = c
    BY <2>1, <2>2, ParentFacts
  <2>4. w \in InTree(d) /\ w # v
    BY <2>1, <2>2, ParentFacts
  <2>5. w \in InTree(e) /\ w \in Place
    BY <2>4, <1>1, <1>4
  <2>6. CASE w # u
    BY <2>3, <2>5, <2>6, <1>4
  <2>7. CASE w = u
    <3>1. j # Len(n.keys) + 1
      BY <2>1, <2>3, <2>7
    <3>2. j \in 1..Len(n.keys) /\ j \in Slots(m)
      BY <3>1, <2>3, <2>7, <1>1, <1>3 DEF Slots
    <3>3. SubAt(m, j) = c
      BY <3>2, <2>3, <2>7, <1>3
    <3> QED BY <3>2, <3>3, <2>5, <2>7, <1>4
  <2> QED BY <2>6, <2>7
<1>10. ASSUME NEW w \in Block \ e.used PROVE Idle(e, w)
  <2>1. w # u
    <3> SUFFICES ASSUME w = u PROVE FALSE
      OBVIOUS
    <3>1. u # None /\ u \in d.used
      BY <1>1, <1>10, TreeFacts
    <3> QED BY <3>1, <1>2, <1>4, <1>10
  <2>2. w \in Place /\ w # None /\ e.node[w] = d.node[w]
    <3>1. w \in Place /\ w # None
      BY <1>1, <1>10 DEF Place
    <3> QED BY <3>1, <2>1, <1>4 DEF NodeAt
  <2>3. Idle(d, w)
    <3>1. CASE w = v
      <4>1. NodeAt(d, v) = Leaf(<< >>)
        BY <1>1 DEF Tree, Fits
      <4>2. d.node[v].keys = << >> /\ d.node[v].end = None
        BY <4>1, <1>1, EmptyLeafFacts DEF NodeAt
      <4> QED BY <4>2, <3>1, <1>1 DEF Idle
    <3>2. CASE w # v
      BY <3>2, <1>4, <1>10 DEF Tree
    <3> QED BY <3>1, <3>2
  <2> QED BY <2>2, <2>3 DEF Idle
<1>11. g.lev[None] > 0 /\ g.lo[None] = -1 /\ g.hi[None] = -1 /\ e.large /\ e.used \subseteq 0..(e.owned - 1) /\ e.owned + e.free = Clusters
  BY <1>4 DEF Tree
<1>12. Tree(e, y, g)
  BY <1>1, <1>4, <1>8, <1>9, <1>10, <1>11, TreeBuilt
<1>13. KeysIn(e) = KeysIn(d)
  <2>1. \A k : ~ Has(NodeAt(d, v), k)
    <3>1. NodeAt(d, v) = Leaf(<< >>)
      BY <1>1 DEF Tree, Fits
    <3>2. NodeAt(d, v).keys = << >>
      BY <3>1, EmptyLeafFacts
    <3> QED BY <3>2 DEF Has
  <2>2. \A w \in InTree(e) : \A k : Has(NodeAt(e, w), k) <=> Has(NodeAt(d, w), k)
    <3> SUFFICES ASSUME NEW w \in InTree(e) PROVE NodeAt(e, w).keys = NodeAt(d, w).keys
      BY DEF Has
    <3>1. w \in Place
      BY <1>1, <1>4
    <3> QED BY <3>1, <1>3, <1>4
  <2> QED BY <2>1, <2>2, <1>4 DEF KeysIn
<1> QED BY <1>12, <1>13 DEF EndedTree

(***************************************************************************)
(* A separator goes with the empty block before it.                        *)
(***************************************************************************)
\* What lay above the separator s now lies above its predecessor a.
LowerLabels(g, s, a) ==
  [lev |-> g.lev, par |-> g.par, lo |-> [u \in Place |-> Renamed(g.lo[u], s, a)], hi |-> g.hi]
LowerLabeled(g, s, a, h) ==
  /\ h \in Labels /\ h.lev = g.lev /\ h.par = g.par /\ h.hi = g.hi
  /\ \A u \in Place : h.lo[u] = Renamed(g.lo[u], s, a)

\* These labels.
LEMMA LowerLabelsFacts ==
  ASSUME NEW g \in Labels, NEW s \in Int, NEW a \in Int, NEW h, h = LowerLabels(g, s, a)
  PROVE  LowerLabeled(g, s, a, h)
<1>1. g.lev \in [Place -> Nat] /\ g.par \in [Place -> Place] /\ g.lo \in [Place -> Int] /\ g.hi \in [Place -> Int]
  BY DEF Labels
<1>2. \A z \in Int : Renamed(z, s, a) \in Int
  BY DEF Renamed
<1>3. PICK b : b = [u \in Place |-> Renamed(g.lo[u], s, a)]
  OBVIOUS
<1>4. b \in [Place -> Int] /\ \A u \in Place : b[u] = Renamed(g.lo[u], s, a)
  BY <1>1, <1>2, <1>3
<1>5. h = [lev |-> g.lev, par |-> g.par, lo |-> b, hi |-> g.hi]
  BY <1>3 DEF LowerLabels
<1>6. h \in Labels /\ h.lev = g.lev /\ h.par = g.par /\ h.lo = b /\ h.hi = g.hi
  BY <1>1, <1>4, <1>5 DEF Labels
<1> QED BY <1>4, <1>6 DEF LowerLabeled

\* A node is sorted above a lower bound too.
LEMMA SortedLower ==
  ASSUME NEW n \in Node, NEW a \in Int, NEW b, NEW c \in Int, Sorted(n, a, b), c <= a
  PROVE  Sorted(n, c, b)
<1>1. \A j \in 1..Len(n.keys) : n.keys[j].key \in Int
  BY NodeFacts, ConstFacts
<1>2. ASSUME NEW j \in 1..Len(n.keys) PROVE Between(n.keys[j].key, c, b)
  <2>1. PICK z \in Int : z = n.keys[j].key
    BY <1>1
  <2>2. Between(z, a, b)
    BY <2>1 DEF Sorted
  <2>3. a < z /\ (b = -1 \/ z < b)
    BY <2>2 DEF Between
  <2>4. c < z
    BY <2>3
  <2> QED BY <2>1, <2>3, <2>4 DEF Between
<1> QED BY <1>2 DEF Sorted

\* A tree without the key s.
LoweredTree(d, s, e) == KeysIn(e) = KeysIn(d) \ {s} /\ \E h : Tree(e, -1, h)

\* The separator goes, and what comes after it moves up (NtfsDropEmptyIndexBlock).
LEMMA LowerTree ==
  ASSUME NEW d, NEW g, NEW v, Tree(d, v, g), v \in d.used, NEW u \in InTree(d), u = g.par[v], NEW n, n = NodeAt(d, u),
         NEW i \in 1..Len(n.keys), SubAt(n, i) = v, NEW s, s = n.keys[i].key, NEW m, m = Without(n, i),
         NEW e, Unhung(d, v, u, m, e)
  PROVE  LoweredTree(d, s, e)
<1>1. /\ d \in Volume /\ g \in Labels /\ v \in InTree(d) /\ v \in Block /\ v # None /\ v # -1 /\ None # -1 /\ None \notin Block
      /\ (\A w \in InTree(d) : w \in Place /\ w # -1 /\ NodeAt(d, w) \in Node) /\ (\A w \in d.used : w \in InTree(d) /\ w # None)
      /\ u \in Place /\ n \in Node /\ Len(n.keys) \in Nat /\ v \in Place
      /\ (\A w \in Place : g.lo[w] \in Int /\ g.hi[w] \in Int /\ g.lev[w] \in Nat)
  <2>1. /\ d \in Volume /\ g \in Labels /\ v \in InTree(d) /\ v \in Block /\ v # None
        /\ InTree(d) \subseteq Place /\ (\A w \in Place : NodeAt(d, w) \in Node) /\ (\A w \in d.used : w \in InTree(d) /\ w # None)
        /\ (\A w \in Place : g.lo[w] \in Int /\ g.hi[w] \in Int /\ g.lev[w] \in Nat)
    BY TreeFacts
  <2>2. -1 \notin Place /\ None # -1 /\ None \notin Block /\ -1 \notin Block
    BY ConstFacts DEF Place
  <2> QED BY <2>1, <2>2, NodeFacts
<1>2. u # v /\ g.lev[u] # 0 /\ g.lev[u] > 0
  <2>1. u # v /\ g.lev[u] = g.lev[v] + 1 /\ g.lev[v] \in Nat
    BY <1>1, ParentFacts
  <2> QED BY <2>1
<1>3. PICK l \in Nat : l = Len(n.keys)
  BY <1>1
<1>4. /\ i \in 1..l /\ DOMAIN n.keys = 1..l /\ s \in Key /\ s \in Nat /\ (\A j \in 1..l : n.keys[j].key \in Nat) /\ Slots(n) = 1..(l + 1)
      /\ i \in Slots(n)
  <2>1. i \in 1..l /\ DOMAIN n.keys = 1..l /\ s \in Key /\ s \in Nat /\ (\A j \in 1..l : n.keys[j].key \in Nat)
    BY <1>1, <1>3, NodeFacts
  <2>2. Slots(n) = 1..(l + 1)
    BY <1>3 DEF Slots
  <2> QED BY <2>1, <2>2
<1>5. /\ m \in Node /\ Len(m.keys) = l - 1 /\ m.end = n.end /\ CutAt(n, m, i)
      /\ \A j \in 1..l : SubAt(m, j) = IF j < i THEN SubAt(n, j) ELSE SubAt(n, j + 1)
  <2>1. /\ m \in Node /\ Len(m.keys) = Len(n.keys) - 1 /\ m.end = n.end
        /\ (\A j \in 1..(Len(n.keys) - 1) : m.keys[j] = IF j < i THEN n.keys[j] ELSE n.keys[j + 1])
        /\ (\A j \in 1..Len(n.keys) : SubAt(m, j) = IF j < i THEN SubAt(n, j) ELSE SubAt(n, j + 1))
    <3>1. PICK o \in Node : o = n
      BY <1>1
    <3>2. i \in 1..Len(o.keys) /\ m = Without(o, i)
      BY <3>1
    <3>3. /\ m \in Node /\ Len(m.keys) = Len(o.keys) - 1 /\ m.end = o.end
          /\ (\A j \in 1..(Len(o.keys) - 1) : m.keys[j] = IF j < i THEN o.keys[j] ELSE o.keys[j + 1])
          /\ (\A j \in 1..Len(o.keys) : SubAt(m, j) = IF j < i THEN SubAt(o, j) ELSE SubAt(o, j + 1))
      BY <3>2, WithoutFacts
    <3> QED BY <3>1, <3>3
  <2>2. CutAt(n, m, i)
    BY <2>1 DEF CutAt
  <2> QED BY <2>1, <2>2, <1>3
<1>6. /\ e \in Volume /\ e.large = d.large /\ e.owned = d.owned /\ e.free = d.free
      /\ e.used = d.used \ {v} /\ InTree(e) = InTree(d) \ {v}
      /\ NodeAt(e, u) = m /\ \A t \in Place : t # u => NodeAt(e, t) = NodeAt(d, t)
  BY DEF Unhung
<1>7. PICK a : a = g.lo[v]
  OBVIOUS
<1>8. PICK lo : lo = g.lo[u]
  OBVIOUS
<1>9. PICK hi : hi = g.hi[u]
  OBVIOUS
<1>10. lo \in Int /\ hi \in Int /\ Sorted(n, lo, hi) /\ lo < s /\ Fits(d, v, g, u)
  <2>1. Sorted(n, lo, hi) /\ lo \in Int /\ hi \in Int /\ Fits(d, v, g, u)
    BY <1>1, <1>8, <1>9, KeyBetween DEF Tree
  <2>2. Between(s, lo, hi)
    BY <2>1 DEF Sorted
  <2> QED BY <2>1, <2>2 DEF Between
<1>11. a \in Int /\ a = LoAt(n, lo, i) /\ a < s
  <2>1. a = LoAt(n, lo, i) /\ a \in Int
    BY <1>1, <1>4, <1>7, <1>8, PointerFacts
  <2>2. CASE i = 1
    BY <2>1, <2>2, <1>10 DEF LoAt
  <2>3. CASE i # 1
    <3>1. i - 1 \in 1..Len(n.keys) /\ i - 1 < i
      BY <2>3, <1>3, <1>4
    <3>2. n.keys[i - 1].key < n.keys[i].key
      BY <3>1, <1>10 DEF Sorted
    <3> QED BY <3>2, <2>1, <2>3 DEF LoAt
  <2> QED BY <2>1, <2>2, <2>3
<1>12. PICK h : h = LowerLabels(g, s, a)
  OBVIOUS
<1>13. /\ h \in Labels /\ h.lev = g.lev /\ h.par = g.par /\ h.hi = g.hi
       /\ \A w \in Place : h.lo[w] = Renamed(g.lo[w], s, a) /\ h.lo[w] \in Int
  <2>1. g \in Labels /\ s \in Int /\ a \in Int
    BY <1>1, <1>4, <1>11
  <2>2. LowerLabeled(g, s, a, h)
    BY <2>1, <1>12, LowerLabelsFacts
  <2>3. \A w \in Place : h.lo[w] = Renamed(g.lo[w], s, a)
    BY <2>2 DEF LowerLabeled
  <2>4. \A w \in Place : h.lo[w] \in Int
    BY <2>1, <2>3, <1>1 DEF Renamed
  <2> QED BY <2>2, <2>3, <2>4 DEF LowerLabeled
<1>14. Has(n, s)
  BY <1>4 DEF Has
<1>15. ASSUME NEW w \in InTree(e), w # u PROVE Fits(e, -1, h, w)
  <2>1. w \in InTree(d) /\ w # v /\ w # -1 /\ NodeAt(e, w) = NodeAt(d, w) /\ w \in Place
    BY <1>1, <1>6, <1>15
  <2>2. PICK c : c = NodeAt(d, w)
    OBVIOUS
  <2>3. c \in Node /\ Sorted(c, g.lo[w], g.hi[w]) /\ ~ Has(c, s) /\ DOMAIN c.keys = 1..Len(c.keys) /\ Len(c.keys) \in Nat
    <3>1. ~ Has(c, s)
      BY <2>1, <2>2, <1>4, <1>14, <1>15, Unique
    <3> QED BY <3>1, <2>1, <2>2, KeyBetween, NodeFacts
  <2>4. Sorted(c, h.lo[w], h.hi[w])
    <3>1. PICK y \in Int : y = g.lo[w]
      BY <2>1, <1>1
    <3>2. PICK z \in Int : z = h.lo[w]
      BY <2>1, <1>13
    <3>3. z <= y
      BY <3>1, <3>2, <2>1, <1>4, <1>11, <1>13 DEF Renamed
    <3>4. PICK t : t = g.hi[w]
      OBVIOUS
    <3>5. Sorted(c, z, t)
      BY <3>1, <3>3, <3>4, <2>3, SortedLower
    <3> QED BY <3>2, <3>4, <3>5, <1>13
  <2>5. ASSUME NEW j \in Slots(c), Child(d, g, w, j) PROVE Child(e, h, w, j)
    <3>1. PICK y : y = SubAt(c, j)
      OBVIOUS
    <3>2. /\ y \in d.used /\ g.lev[y] + 1 = g.lev[w] /\ g.par[y] = w
          /\ g.lo[y] = LoAt(c, g.lo[w], j) /\ g.hi[y] = HiAt(c, g.hi[w], j)
      BY <3>1, <2>2, <2>5 DEF Child
    <3>3. y # v /\ y \in e.used /\ y \in Place
      BY <3>2, <1>1, <1>6, <1>15
    <3>4. Renamed(LoAt(c, g.lo[w], j), s, a) = LoAt(c, h.lo[w], j)
      <4>1. CASE j = 1
        BY <4>1, <2>1, <1>13 DEF LoAt
      <4>2. CASE j # 1
        <5>1. j - 1 \in 1..Len(c.keys)
          BY <4>2, <2>3, <2>5 DEF Slots
        <5>2. c.keys[j - 1].key # s
          BY <5>1, <2>3 DEF Has
        <5> QED BY <5>2, <4>2 DEF LoAt, Renamed
      <4> QED BY <4>1, <4>2
    <3>5. h.lo[y] = LoAt(c, h.lo[w], j)
      BY <3>2, <3>3, <3>4, <1>13
    <3> QED BY <3>1, <3>2, <3>3, <3>5, <2>1, <2>2, <1>13 DEF Child
  <2>6. \A j \in Slots(c) : Stump(d, w, j) => Stump(e, w, j)
    BY <2>1 DEF Stump
  <2>7. Fits(d, v, g, w)
    BY <2>1 DEF Tree
  <2> QED BY <2>1, <2>2, <2>4, <2>5, <2>6, <2>7, <1>13 DEF Fits
<1>16. Fits(e, -1, h, u)
  <2>1. h.lo[u] = lo /\ h.hi[u] = hi /\ u # -1 /\ h.lev[u] = g.lev[u]
    BY <1>1, <1>8, <1>9, <1>10, <1>13 DEF Renamed
  <2>2. /\ Sorted(m, lo, hi)
        /\ \A j \in Slots(m) : /\ LoAt(m, lo, j) = IF j <= i THEN LoAt(n, lo, j) ELSE LoAt(n, lo, j + 1)
                               /\ HiAt(m, hi, j) = IF j < i THEN HiAt(n, hi, j) ELSE HiAt(n, hi, j + 1)
    <3>1. n \in Node /\ m \in Node /\ lo \in Int /\ hi \in Int /\ Sorted(n, lo, hi) /\ i \in 1..Len(n.keys) /\ CutAt(n, m, i)
      BY <1>1, <1>5, <1>10
    <3> QED BY <3>1, SortedCut
  <2>3. \A j \in Slots(n) : Child(d, g, u, j) \/ Stump(d, u, j)
    BY <1>2, <1>10 DEF Fits
  <2>4. Slots(m) = 1..l
    BY <1>3, <1>5 DEF Slots
  <2>5. ASSUME NEW j \in Slots(m) PROVE Child(e, h, u, j) \/ Stump(e, u, j)
    <3>1. PICK f \in Nat : f = IF j < i THEN j ELSE j + 1
      BY <2>4
    <3>2. f \in 1..(l + 1) /\ f \in Slots(n) /\ f # i /\ j \in 1..l
      BY <3>1, <2>4, <2>5, <1>4
    <3>3. SubAt(m, j) = SubAt(n, f) /\ HiAt(m, hi, j) = HiAt(n, hi, f)
      BY <3>1, <3>2, <2>2, <2>5, <1>5
    <3>4. PICK y : y = SubAt(n, f)
      OBVIOUS
    <3>5. CASE Child(d, g, u, f)
      <4>1. /\ y \in d.used /\ g.lev[y] + 1 = g.lev[u] /\ g.par[y] = u
            /\ g.lo[y] = LoAt(n, lo, f) /\ g.hi[y] = HiAt(n, hi, f)
        BY <3>4, <3>5, <1>8, <1>9 DEF Child
      <4>2. y # v
        <5> SUFFICES ASSUME y = v PROVE FALSE
          OBVIOUS
        <5>1. f = i
          <6>1. /\ Tree(d, v, g) /\ u \in InTree(d) /\ n = NodeAt(d, u)
                /\ i \in Slots(n) /\ f \in Slots(n) /\ v \in Block
                /\ SubAt(n, i) = v /\ SubAt(n, f) = v
            BY <3>2, <3>4, <1>1, <1>4
          <6> QED BY <6>1, PointerFacts
        <5> QED BY <5>1, <3>2
      <4>3. y \in e.used /\ y \in Place
        BY <4>1, <4>2, <1>1, <1>6
      <4>4. Renamed(LoAt(n, lo, f), s, a) = LoAt(m, lo, j)
        <5>1. CASE j < i
          <6>1. f = j /\ LoAt(m, lo, j) = LoAt(n, lo, j)
            BY <5>1, <3>1, <3>2, <2>2, <2>5, <1>4
          <6>2. LoAt(n, lo, j) # s
            <7>1. CASE j = 1
              BY <7>1, <1>4, <1>10 DEF LoAt
            <7>2. CASE j # 1
              <8>1. j - 1 \in 1..Len(n.keys) /\ j - 1 < i
                BY <7>2, <5>1, <3>2, <1>3, <1>4
              <8>2. n.keys[j - 1].key < s
                BY <8>1, <1>10 DEF Sorted
              <8>3. n.keys[j - 1].key # s
                BY <8>2, <1>4
              <8> QED BY <8>3, <7>2 DEF LoAt
            <7> QED BY <7>1, <7>2
          <6> QED BY <6>1, <6>2 DEF Renamed
        <5>2. CASE j = i
          <6>1. f = i + 1 /\ LoAt(m, lo, j) = LoAt(n, lo, i)
            BY <5>2, <3>1, <3>2, <2>2, <2>5, <1>4
          <6>2. LoAt(n, lo, f) = s
            <7>1. f # 1 /\ f - 1 = i
              BY <6>1, <1>4
            <7> QED BY <7>1 DEF LoAt
          <6> QED BY <6>1, <6>2, <1>11 DEF Renamed
        <5>3. CASE i < j
          <6>1. f = j + 1 /\ LoAt(m, lo, j) = LoAt(n, lo, f)
            BY <5>3, <3>1, <3>2, <2>2, <2>5, <1>4
          <6>2. LoAt(n, lo, f) = n.keys[j].key
            <7>1. f # 1 /\ f - 1 = j
              BY <6>1, <3>2
            <7> QED BY <7>1 DEF LoAt
          <6>3. n.keys[j].key # s
            <7>1. s < n.keys[j].key
              BY <5>3, <3>2, <1>3, <1>10 DEF Sorted
            <7> QED BY <7>1, <3>2, <1>4
          <6> QED BY <6>1, <6>2, <6>3 DEF Renamed
        <5> QED BY <5>1, <5>2, <5>3, <3>2, <1>4
      <4>5. h.lo[y] = LoAt(m, lo, j) /\ h.hi[y] = HiAt(m, hi, j)
        BY <4>1, <4>3, <4>4, <3>3, <1>13
      <4> QED BY <4>1, <4>3, <4>5, <3>3, <3>4, <2>1, <1>6, <1>13 DEF Child
    <3>6. CASE Stump(d, u, f)
      <4>1. f = l + 1 /\ SubAt(n, f) = IF u = None THEN None ELSE -1
        BY <3>6, <1>3 DEF Stump
      <4>2. j = l
        BY <4>1, <3>1, <3>2
      <4>3. j = Len(m.keys) + 1
        BY <4>2, <1>5
      <4> QED BY <4>1, <4>3, <3>3, <1>6 DEF Stump
    <3> QED BY <3>2, <3>5, <3>6, <2>3
  <2> QED BY <2>1, <2>2, <2>5, <1>2, <1>6 DEF Fits
<1>17. \A w \in InTree(e) : h.lev[w] <= h.lev[None] /\ Fits(e, -1, h, w)
  <2>1. \A w \in InTree(d) : g.lev[w] <= g.lev[None]
    <3> SUFFICES ASSUME NEW w \in InTree(d) PROVE g.lev[w] <= g.lev[None]
      OBVIOUS
    <3>1. g.lev[w] \in Nat /\ (w # None => w \in d.used)
      BY TreeFacts
    <3>2. CASE w = None
      BY <3>1, <3>2
    <3>3. CASE w # None
      <4>1. g.lev[w] < g.lev[None] /\ g.lev[None] \in Nat
        BY <3>1, <3>3, ParentFacts, TreeFacts DEF Place
      <4> QED BY <4>1, <3>1
    <3> QED BY <3>2, <3>3
  <2> QED BY <2>1, <1>6, <1>13, <1>15, <1>16
<1>18. ASSUME NEW c \in e.used
       PROVE  \E w \in InTree(e) : \E j \in Slots(NodeAt(e, w)) : SubAt(NodeAt(e, w), j) = c
  <2>1. c \in d.used /\ c # v
    BY <1>6
  <2>2. PICK w : w = g.par[c]
    OBVIOUS
  <2>3. PICK j \in Slots(NodeAt(d, w)) : SubAt(NodeAt(d, w), j) = c
    BY <2>1, <2>2, ParentFacts
  <2>4. w \in InTree(d) /\ w # v
    BY <2>1, <2>2, ParentFacts
  <2>5. w \in InTree(e) /\ w \in Place
    BY <2>4, <1>1, <1>6
  <2>6. CASE w # u
    BY <2>3, <2>5, <2>6, <1>6
  <2>7. CASE w = u
    <3>1. j # i /\ j \in 1..(l + 1)
      BY <2>1, <2>3, <2>7, <1>4
    <3>2. PICK f \in Nat : f = IF j < i THEN j ELSE j - 1
      BY <3>1, <1>4
    <3>3. f \in 1..l /\ j = IF f < i THEN f ELSE f + 1
      BY <3>1, <3>2, <1>4
    <3>4. SubAt(m, f) = c
      BY <3>3, <2>3, <2>7, <1>5
    <3>5. f \in Slots(m)
      BY <3>3, <1>5 DEF Slots
    <3> QED BY <3>4, <3>5, <2>5, <2>7, <1>6
  <2> QED BY <2>6, <2>7
<1>19. ASSUME NEW w \in Block \ e.used PROVE Idle(e, w)
  <2>1. w # u
    <3> SUFFICES ASSUME w = u PROVE FALSE
      OBVIOUS
    <3>1. u # None /\ u \in d.used
      BY <1>1, <1>19, TreeFacts
    <3> QED BY <3>1, <1>2, <1>6, <1>19
  <2>2. w \in Place /\ w # None /\ e.node[w] = d.node[w]
    <3>1. w \in Place /\ w # None
      BY <1>1, <1>19 DEF Place
    <3> QED BY <3>1, <2>1, <1>6 DEF NodeAt
  <2>3. Idle(d, w)
    <3>1. CASE w = v
      <4>1. NodeAt(d, v) = Leaf(<< >>)
        BY <1>1 DEF Tree, Fits
      <4>2. d.node[v].keys = << >> /\ d.node[v].end = None
        BY <4>1, <1>1, EmptyLeafFacts DEF NodeAt
      <4> QED BY <4>2, <3>1, <1>1 DEF Idle
    <3>2. CASE w # v
      BY <3>2, <1>6, <1>19 DEF Tree
    <3> QED BY <3>1, <3>2
  <2> QED BY <2>2, <2>3 DEF Idle
<1>20. h.lev[None] > 0 /\ h.lo[None] = -1 /\ h.hi[None] = -1 /\ e.large /\ e.used \subseteq 0..(e.owned - 1) /\ e.owned + e.free = Clusters
  <2>1. g.lev[None] > 0 /\ g.lo[None] = -1 /\ g.hi[None] = -1 /\ e.large /\ e.used \subseteq 0..(e.owned - 1) /\ e.owned + e.free = Clusters
    BY <1>6 DEF Tree
  <2>2. Renamed(-1, s, a) = -1
    BY <1>4 DEF Renamed
  <2> QED BY <2>1, <2>2, <1>13 DEF Place
<1>21. Tree(e, -1, h)
  BY <1>6, <1>13, <1>17, <1>18, <1>19, <1>20, TreeBuilt
<1>22. KeysIn(e) = KeysIn(d) \ {s}
  <2>1. \A k : ~ Has(NodeAt(d, v), k)
    <3>1. NodeAt(d, v) = Leaf(<< >>)
      BY <1>1 DEF Tree, Fits
    <3>2. NodeAt(d, v).keys = << >>
      BY <3>1, EmptyLeafFacts
    <3> QED BY <3>2 DEF Has
  <2>2. \A k : Has(m, k) <=> Has(n, k) /\ k # s
    <3>1. n \in Node /\ m \in Node /\ lo \in Int /\ hi \in Int /\ Sorted(n, lo, hi) /\ i \in 1..Len(n.keys) /\ CutAt(n, m, i)
      BY <1>1, <1>5, <1>10
    <3>2. \A k : Has(m, k) <=> Has(n, k) /\ k # n.keys[i].key
      BY <3>1, SortedCut
    <3> QED BY <3>2
  <2>3. \A w \in InTree(e) : w # u => NodeAt(e, w) = NodeAt(d, w)
    BY <1>1, <1>6
  <2>4. \A w \in InTree(d) : w # u => ~ Has(NodeAt(d, w), s)
    BY <1>4, <1>14, Unique
  <2>5. u \in InTree(e)
    BY <1>2, <1>6
  <2>6. \A k : (\E w \in InTree(e) : Has(NodeAt(e, w), k)) <=> k # s /\ \E w \in InTree(d) : Has(NodeAt(d, w), k)
    BY <2>1, <2>2, <2>3, <2>4, <2>5, <1>6
  <2> QED BY <2>6 DEF KeysIn
<1> QED BY <1>21, <1>22 DEF LoweredTree

(***************************************************************************)
(* Dropping.                                                               *)
(***************************************************************************)
\* A node with keys has them in the tree.
LEMMA NodeKeys ==
  ASSUME NEW d, NEW x, NEW g, Tree(d, x, g), NEW u \in InTree(d), NodeAt(d, u).keys # << >>
  PROVE  KeysIn(d) # {} /\ 1 \in 1..Len(NodeAt(d, u).keys)
<1>1. PICK n \in Node : n = NodeAt(d, u)
  BY TreeFacts
<1>2. n.keys \in Seq(Item) /\ n.keys # << >>
  BY <1>1, NodeFacts
<1>3. 1 \in 1..Len(n.keys)
  BY <1>2
<1>4. Has(n, n.keys[1].key) /\ n.keys[1].key \in Key
  BY <1>3, NodeFacts DEF Has
<1> QED BY <1>1, <1>3, <1>4 DEF KeysIn

\* Where dropping has got after l rounds, in a tree of N levels with the keys K: a
\* separator was not inserted again, or all is settled, or a block l levels up is next.
Ready(K, N, l, s) ==
  \/ s.how # "done" /\ s.next = None
  \/ s.next = None /\ Settled(K, Collapse(s.dir))
  \/ /\ s.how = "done" /\ s.next \in s.dir.used /\ KeysIn(s.dir) = K
     /\ \E h : Tree(s.dir, s.next, h) /\ h.lev[None] = N /\ l <= h.lev[s.next]

\* One round (NtfsDropEmptyIndexBlock).
LEMMA UnhookStep ==
  ASSUME NEW d, NEW v, NEW g, Tree(d, v, g), v \in d.used, NEW N, g.lev[None] = N, N <= InsertLevels, NEW l \in Nat,
         l <= g.lev[v], NEW s, s = Unhook(d, v)
  PROVE  Ready(KeysIn(d), N, l + 1, s)
<1>1. /\ d \in Volume /\ v \in Block /\ None \in InTree(d) /\ v \in Place /\ None \notin Block
      /\ (\A w \in InTree(d) : w \in Place /\ (w # None => w \in d.used)) /\ d.used \subseteq Block
      /\ (\A w \in Place : g.lev[w] \in Nat)
  BY TreeFacts, ConstFacts DEF Place
<1>2. PICK u : u = HostOf(d, v)
  OBVIOUS
<1>3. PICK n : n = NodeAt(d, u)
  OBVIOUS
<1>4. PICK i : i = HostSlot(d, v)
  OBVIOUS
<1>5. /\ SlotOf(d.root, v) # {} \/ Hosts(d, v) # {}
      /\ u = g.par[v] /\ u \in InTree(d) /\ u \in Place /\ u # v /\ g.lev[u] = g.lev[v] + 1
      /\ n \in Node /\ i \in Slots(n) /\ SubAt(n, i) = v
  BY <1>2, <1>3, <1>4, TreeHost
<1>6. PICK e : e = Unhooked(d, v)
  OBVIOUS
<1>7. PICK m : m = Off(n, i)
  OBVIOUS
<1>8. m \in Node /\ Unhung(d, v, u, m, e)
  <2>1. d \in Volume /\ v \in Block /\ u = HostOf(d, v) /\ u \in Place /\ n = NodeAt(d, u) /\ n \in Node
        /\ i = HostSlot(d, v) /\ i \in Slots(n)
    BY <1>1, <1>2, <1>3, <1>4, <1>5
  <2> QED BY <2>1, <1>6, <1>7, UnhookedIs
<1>9. /\ i <= Len(n.keys) => s = LeftWith(InsertEntry(e, n.keys[i].key), None)
      /\ ~ (i <= Len(n.keys)) => s = LeftWith(Done(e), IF u # None /\ m.keys = << >> THEN u ELSE None)
  <2>1. d \in Volume /\ v \in Block /\ u = HostOf(d, v) /\ n = NodeAt(d, u) /\ i = HostSlot(d, v) /\ e = Unhooked(d, v)
    BY <1>1, <1>2, <1>3, <1>4, <1>6
  <2>2. SlotOf(d.root, v) # {} \/ Hosts(d, v) # {}
    BY <1>5
  <2>3. UnhookTo(e, u, n, i, s)
    BY <2>1, <2>2, UnhookIs
  <2> QED BY <2>3, <1>7 DEF UnhookTo
<1>10. Len(n.keys) \in Nat /\ i \in 1..(Len(n.keys) + 1) /\ g.lev[u] > 0
  <2>1. Len(n.keys) \in Nat
    BY <1>5, NodeFacts
  <2>2. g.lev[v] \in Nat
    BY <1>1
  <2> QED BY <2>1, <2>2, <1>5 DEF Slots
<1>11. CASE i <= Len(n.keys)
  <2>1. i \in 1..Len(n.keys)
    BY <1>10, <1>11
  <2>2. PICK k : k = n.keys[i].key
    OBVIOUS
  <2>3. PICK r : r = InsertEntry(e, k)
    OBVIOUS
  <2>4. s = LeftWith(r, None) /\ m = Without(n, i)
    BY <2>2, <2>3, <1>7, <1>9, <1>11 DEF Off
  <2>5. s.how = r.how /\ s.dir = r.dir /\ s.next = None
    BY <2>4 DEF LeftWith
  <2>6. LoweredTree(d, k, e)
    <3>1. u \in InTree(d) /\ u = g.par[v] /\ n = NodeAt(d, u) /\ SubAt(n, i) = v /\ k = n.keys[i].key /\ m = Without(n, i)
      BY <2>2, <2>4, <1>3, <1>5
    <3> QED BY <3>1, <2>1, <1>8, LowerTree
  <2>7. k \in Key /\ k \in KeysIn(d)
    <3>1. k \in Key /\ Has(n, k)
      BY <2>1, <2>2, <1>5, NodeFacts DEF Has
    <3> QED BY <3>1, <1>3, <1>5 DEF KeysIn
  <2>8. KeysIn(e) = KeysIn(d) \ {k} /\ \E h : Tree(e, -1, h)
    BY <2>6 DEF LoweredTree
  <2>9. Inserts(KeysIn(e), e, k, r)
    <3>1. k \notin KeysIn(e)
      BY <2>8
    <3> QED BY <3>1, <2>3, <2>7, <2>8, EntryStep
  <2>10. KeysIn(e) \cup {k} = KeysIn(d)
    BY <2>7, <2>8
  <2>11. CASE r.how # "done"
    BY <2>5, <2>11 DEF Ready
  <2>12. CASE r.how = "done"
    <3>1. Ripe(KeysIn(d), r.dir) \/ (Small(r.dir) /\ KeysIn(r.dir) = KeysIn(d))
      BY <2>9, <2>10, <2>12 DEF Inserts
    <3>2. CASE Ripe(KeysIn(d), r.dir)
      <4>1. PICK h : Tree(r.dir, -1, h) /\ h.lev[None] <= InsertLevels
        BY <3>2 DEF Ripe
      <4>2. KeysIn(r.dir) = KeysIn(d) /\ KeysIn(r.dir) # {}
        BY <3>2, <2>7 DEF Ripe
      <4>3. Settled(KeysIn(r.dir), Collapse(r.dir))
        BY <4>1, <4>2, SettledTree
      <4> QED BY <4>2, <4>3, <2>5 DEF Ready
    <3>3. CASE Small(r.dir) /\ KeysIn(r.dir) = KeysIn(d)
      <4>1. Settled(KeysIn(r.dir), Collapse(r.dir))
        BY <3>3, SettledSmall
      <4> QED BY <4>1, <3>3, <2>5 DEF Ready
    <3> QED BY <3>1, <3>2, <3>3
  <2> QED BY <2>11, <2>12
<1>12. CASE ~ (i <= Len(n.keys))
  <2>1. i = Len(n.keys) + 1 /\ SubAt(n, Len(n.keys) + 1) = v
    BY <1>5, <1>10, <1>12
  <2>2. m = [n EXCEPT !.end = None] /\ m.keys = n.keys /\ m.end = None
    BY <1>5, <1>7, <1>12, NoEndFacts DEF Off
  <2>3. s.how = "done" /\ s.dir = e /\ s.next = IF u # None /\ n.keys = << >> THEN u ELSE None
    BY <2>2, <1>9, <1>12 DEF LeftWith, Done
  <2>4. ASSUME NEW y, Remnant(u, n, y) PROVE Tree(e, y, g) /\ KeysIn(e) = KeysIn(d)
    <3>1. /\ u \in InTree(d) /\ u = g.par[v] /\ n = NodeAt(d, u) /\ i = Len(n.keys) + 1 /\ SubAt(n, i) = v
          /\ m = [n EXCEPT !.end = None] /\ Unhung(d, v, u, m, e) /\ Tree(d, v, g) /\ v \in d.used
      BY <2>1, <2>2, <1>3, <1>5, <1>8
    <3>2. EndedTree(d, y, g, e)
      BY <3>1, <2>4, EndTree
    <3> QED BY <3>2 DEF EndedTree
  <2>5. CASE u = None
    <3>1. PICK y : y = -1
      OBVIOUS
    <3>2. Tree(e, y, g) /\ KeysIn(e) = KeysIn(d)
      BY <3>1, <2>4, <2>5 DEF Remnant
    <3>3. NodeAt(e, None) = m /\ e.root = m
      BY <2>5, <1>8 DEF Unhung, NodeAt
    <3>4. s.next = None
      BY <2>3, <2>5
    <3>5. CASE m.keys = << >>
      <4>1. Settled({}, Collapse(e)) /\ KeysIn(e) = {}
        BY <3>2, <3>3, <3>5, <2>2, SettledBarren
      <4> QED BY <4>1, <3>2, <3>4, <2>3 DEF Ready
    <3>6. CASE m.keys # << >>
      <4>1. KeysIn(e) # {}
        <5>1. None \in InTree(e)
          BY DEF InTree
        <5> QED BY <5>1, <3>2, <3>3, <3>6, NodeKeys
      <4>2. Tree(e, -1, g) /\ g.lev[None] <= InsertLevels
        BY <3>1, <3>2
      <4>3. Settled(KeysIn(e), Collapse(e))
        BY <4>1, <4>2, SettledTree
      <4> QED BY <4>3, <3>2, <3>4, <2>3 DEF Ready
    <3> QED BY <3>5, <3>6
  <2>6. CASE u # None /\ n.keys = << >>
    <3>1. Tree(e, u, g) /\ KeysIn(e) = KeysIn(d)
      BY <2>4, <2>6 DEF Remnant
    <3>2. s.next = u /\ u \in e.used
      BY <2>3, <2>6, <1>1, <1>5, <1>8 DEF Unhung
    <3>3. l + 1 <= g.lev[u]
      <4>1. g.lev[v] \in Nat
        BY <1>1
      <4> QED BY <4>1, <1>5
    <3> QED BY <3>1, <3>2, <3>3, <2>3 DEF Ready
  <2>7. CASE u # None /\ n.keys # << >>
    <3>1. s.next = None /\ u \in d.used /\ u \in e.used
      BY <2>3, <2>7, <1>1, <1>5, <1>8 DEF Unhung
    <3>2. KeysIn(d) # {} /\ 1 \in 1..Len(n.keys)
      BY <2>7, <1>3, <1>5, NodeKeys
    <3>3. Cut(m)
      <4>1. 1 \in Slots(n) /\ SubAt(n, 1) = n.keys[1].sub
        BY <3>2, <1>10 DEF Slots, SubAt
      <4>2. u # v /\ Fits(d, v, g, u)
        BY <1>5 DEF Tree
      <4>3. Child(d, g, u, 1) \/ Stump(d, u, 1)
        BY <4>1, <4>2, <1>3, <1>10 DEF Fits
      <4>4. ~ Stump(d, u, 1)
        <5>1. 1 # Len(n.keys) + 1
          BY <3>2, <1>10
        <5> QED BY <5>1, <1>3 DEF Stump
      <4>5. n.keys[1].sub \in d.used
        BY <4>1, <4>3, <4>4, <1>3 DEF Child
      <4>6. 1 \in DOMAIN n.keys
        BY <3>2, <1>5, NodeFacts
      <4> QED BY <4>5, <4>6, <2>2, <1>1 DEF Cut
    <3>4. e.node[u] = m /\ e \in Volume
      <4>1. NodeAt(e, u) = m /\ e \in Volume
        BY <1>8 DEF Unhung
      <4> QED BY <4>1, <2>7 DEF NodeAt
    <3>5. Alike(d, e)
      <4>1. ASSUME NEW w \in InTree(d)
            PROVE  /\ NodeAt(e, w).keys = NodeAt(d, w).keys
                   /\ NodeAt(d, w).keys = << >> => NodeAt(e, w).end = NodeAt(d, w).end
        <5>1. w \in Place
          BY <1>1
        <5>2. CASE w = u
          BY <5>2, <2>2, <2>7, <1>3, <1>8 DEF Unhung
        <5>3. CASE w # u
          BY <5>1, <5>3, <1>8 DEF Unhung
        <5> QED BY <5>2, <5>3
      <4> QED BY <4>1, <3>4 DEF Alike
    <3>6. ~ Foldable(e)
      BY <3>2, <3>5, NotFolded
    <3>7. Collapse(e) = e
      BY <3>4, <3>6, CollapseFacts
    <3>8. Settled(KeysIn(d), Collapse(e))
      BY <3>1, <3>3, <3>4, <3>7 DEF Settled
    <3> QED BY <3>1, <3>8, <2>3 DEF Ready
  <2> QED BY <2>5, <2>6, <2>7
<1> QED BY <1>11, <1>12

\* All the rounds: the tree is lower than the bound on them.
LEMMA DropSteps ==
  ASSUME NEW d, NEW v, NEW g, Tree(d, v, g), v \in d.used, g.lev[None] <= InsertLevels,
         NEW s, s = DropEmptyBlock(d, v)
  PROVE  s.how # "done" \/ Settled(KeysIn(d), Collapse(s.dir))
<1>1. d \in Volume /\ v \in Block /\ v \in Place /\ None \in Place /\ \A w \in Place : g.lev[w] \in Nat
  BY TreeFacts DEF Place
<1>2. PICK L \in [0..DropRounds -> Stage] :
        /\ L[0] = LeftWith(Done(d), v)
        /\ \A h \in 1..DropRounds : L[h] = UnhookNext(L[h - 1])
        /\ DropEmptyBlock(d, v) = L[DropRounds]
  BY <1>1, DropRoundsFacts
<1>3. PICK R \in Nat : R = DropRounds /\ InsertLevels <= R
  BY DEF DropRounds, InsertLevels
<1>4. PICK N \in Nat : N = g.lev[None] /\ N <= R
  <2>1. g.lev[None] \in Nat /\ InsertLevels \in Nat
    BY <1>1 DEF InsertLevels
  <2> QED BY <2>1, <1>3
<1>5. PICK K : K = KeysIn(d)
  OBVIOUS
<1> DEFINE D == {h \in 0..R : Ready(K, N, h, L[h])}
<1>6. 0 \in D
  <2>1. PICK z : z = L[0]
    OBVIOUS
  <2>2. z.how = "done" /\ z.dir = d /\ z.next = v
    BY <2>1, <1>2 DEF LeftWith, Done
  <2>3. 0 <= g.lev[v]
    BY <1>1
  <2>4. Ready(K, N, 0, z)
    BY <2>2, <2>3, <1>4, <1>5 DEF Ready
  <2> QED BY <2>1, <2>4, <1>3
<1>7. ASSUME NEW h \in 1..R, h - 1 \in D PROVE h \in D
  <2>1. PICK z : z = L[h - 1]
    OBVIOUS
  <2>2. L[h] = UnhookNext(z) /\ Ready(K, N, h - 1, z) /\ h - 1 \in Nat
    BY <2>1, <1>2, <1>3, <1>7
  <2>3. None \notin Block
    BY ConstFacts
  <2>4. CASE z.next = None
    <3>1. L[h] = z
      BY <2>2, <2>4 DEF UnhookNext
    <3>2. ASSUME NEW o, NEW t, Tree(z.dir, o, t), NEW w \in z.dir.used PROVE w # None
      BY <3>2, TreeFacts
    <3>3. Ready(K, N, h, z)
      BY <3>2, <2>2, <2>4 DEF Ready
    <3> QED BY <3>1, <3>3, <1>7
  <2>5. CASE z.next # None
    <3>1. /\ z.next \in z.dir.used /\ KeysIn(z.dir) = K
          /\ \E t : Tree(z.dir, z.next, t) /\ t.lev[None] = N /\ h - 1 <= t.lev[z.next]
      BY <2>2, <2>5 DEF Ready
    <3>2. PICK c : c = z.dir
      OBVIOUS
    <3>3. PICK y : y = z.next
      OBVIOUS
    <3>4. PICK t : Tree(c, y, t) /\ t.lev[None] = N /\ h - 1 <= t.lev[y]
      BY <3>1, <3>2, <3>3
    <3>5. PICK q : q = Unhook(c, y)
      OBVIOUS
    <3>6. PICK a \in Nat : a = h - 1
      BY <2>2
    <3>7. N <= InsertLevels /\ a <= t.lev[y] /\ y \in c.used
      BY <3>1, <3>2, <3>3, <3>4, <3>6, <1>4
    <3>8. Ready(KeysIn(c), N, a + 1, q)
      BY <3>4, <3>5, <3>7, UnhookStep
    <3>9. a + 1 = h
      BY <3>6
    <3>10. L[h] = q
      BY <3>2, <3>3, <3>5, <2>2, <2>5 DEF UnhookNext
    <3> QED BY <3>1, <3>2, <3>8, <3>9, <3>10, <1>7
  <2> QED BY <2>4, <2>5
<1> HIDE DEF D
<1>8. \A h \in 0..R : h \in D
  BY <1>6, <1>7, KeptByAll
<1>9. Ready(K, N, R, s)
  <2>1. R \in D
    BY <1>3, <1>8
  <2> QED BY <2>1, <1>2, <1>3 DEF D
<1>10. ~ \E h : Tree(s.dir, s.next, h) /\ s.next \in s.dir.used /\ h.lev[None] = N /\ R <= h.lev[s.next]
  <2> SUFFICES ASSUME NEW h, Tree(s.dir, s.next, h), s.next \in s.dir.used, h.lev[None] = N, R <= h.lev[s.next] PROVE FALSE
    OBVIOUS
  <2>1. h.lev[s.next] < h.lev[None] /\ s.next \in Place /\ None \in Place /\ \A w \in Place : h.lev[w] \in Nat
    BY ParentFacts, TreeFacts DEF Place
  <2>2. h.lev[s.next] \in Nat
    BY <2>1
  <2> QED BY <2>1, <2>2, <1>4
<1> QED BY <1>5, <1>9, <1>10 DEF Ready

(***************************************************************************)
(* Removal.                                                                *)
(***************************************************************************)
\* What a removal comes to, in an index with the keys K: nothing was there, or a leaf
\* was cut and its key is nowhere, or a separator was not inserted again, or k has
\* gone from an index that is whole or that has lost the end of a block.
Removes(K, d, k, q) ==
  /\ q.dir \in Volume /\ q.how \in {"done", "unsupported", "not found"}
  /\ q.how = "not found" => q.dir = d /\ k \notin K
  /\ q.how = "unsupported" => q.dir.node # d.node
  /\ q.how = "done" => k \in K /\ "drop" \in DOMAIN q /\ (q.drop # "done" \/ Settled(K \ {k}, q.dir))

\* A removal that has dropped what it emptied has settled.
LEMMA GoneFacts ==
  ASSUME NEW e, NEW x, NEW K, NEW g, Took(K, g, e, x), g.lev[None] <= InsertLevels, None \in Place,
         NEW q, q = GoneWith(Dropped(e, x))
  PROVE  q.how = "done" /\ "drop" \in DOMAIN q /\ (q.drop # "done" \/ Settled(K, q.dir))
<1>1. PICK s : s = Dropped(e, x)
  OBVIOUS
<1>2. q.how = "done" /\ q.dir = Collapse(s.dir) /\ q.drop = s.how /\ "drop" \in DOMAIN q
  BY <1>1 DEF GoneWith
<1>3. PICK h : /\ h.lev = g.lev
               /\ (x = None /\ Tree(e, -1, h) /\ K # {}) \/ (x \in e.used /\ Tree(e, x, h))
  BY DEF Took
<1>4. KeysIn(e) = K /\ h.lev[None] <= InsertLevels
  BY <1>3 DEF Took
<1>5. CASE x = None /\ Tree(e, -1, h) /\ K # {}
  <2>1. s.how = "done" /\ s.dir = e
    BY <1>1, <1>5 DEF Dropped, Done
  <2>2. Settled(KeysIn(e), Collapse(e))
    BY <1>4, <1>5, SettledTree
  <2> QED BY <2>1, <2>2, <1>2, <1>4
<1>6. CASE x \in e.used /\ Tree(e, x, h)
  <2>1. x # None
    BY <1>6, TreeFacts
  <2>2. s = DropEmptyBlock(e, x)
    BY <2>1, <1>1 DEF Dropped
  <2>3. s.how # "done" \/ Settled(KeysIn(e), Collapse(s.dir))
    BY <2>2, <1>4, <1>6, DropSteps
  <2> QED BY <2>3, <1>2, <1>4
<1> QED BY <1>3, <1>5, <1>6

\* From a tree.
LEMMA RemoveBig ==
  ASSUME NEW d, Big(d), NEW k \in Key, NEW q, q = RemoveEntry(d, k)
  PROVE  Removes(KeysIn(d), d, k, q)
<1>1. PICK g : Tree(d, -1, g) /\ g.lev[None] <= InsertLevels
  BY DEF Big
<1>2. Whole(d) /\ d \in Volume
  BY <1>1 DEF Big, Whole, Tree
<1>3. PICK u : u = HolderOf(d, k)
  OBVIOUS
<1>4. PICK r : r = TakenFrom(d, k)
  OBVIOUS
<1>5. RemoveTo(d, k, u, r, q)
  BY <1>2, <1>3, <1>4, RemoveEntryFacts
<1>6. CASE k \notin KeysIn(d)
  <2>1. KeysIn(d) = {z \in Key : Has(d.root, z) \/ \E v \in Block : Readable(d, v) /\ Has(d.node[v], z)}
    BY <1>1, TreeScan
  <2>2. ~ Has(d.root, k) /\ Holders(d, k) = {}
    BY <2>1, <1>6 DEF Holders
  <2>3. q.how = "not found" /\ q.dir = d /\ q.dir \in Volume
    BY <2>2, <1>5 DEF RemoveTo
  <2> QED BY <2>3, <1>6 DEF Removes
<1>7. CASE k \in KeysIn(d)
  <2>1. Has(d.root, k) \/ Holders(d, k) # {}
    BY <1>1, <1>3, <1>7, TreeHolder
  <2>2. /\ r.how # "done" => r.dir.node # d.node
        /\ r.how = "done" => Took(KeysIn(d) \ {k}, g, NodeWith(r.dir, u, r.node), EmptiedBy(d, k))
    BY <1>1, <1>2, <1>3, <1>4, <1>7, TakeStep
  <2>3. q.dir \in Volume
    BY <1>5 DEF RemoveTo
  <2>4. CASE r.how # "done"
    <3>1. q.how = "unsupported" /\ q.dir = r.dir
      BY <2>1, <2>4, <1>5 DEF RemoveTo
    <3> QED BY <3>1, <2>2, <2>3, <2>4 DEF Removes
  <2>5. CASE r.how = "done"
    <3>1. PICK e : e = NodeWith(r.dir, u, r.node)
      OBVIOUS
    <3>2. PICK x : x = EmptiedBy(d, k)
      OBVIOUS
    <3>3. q = GoneWith(Dropped(e, x))
      BY <3>1, <3>2, <2>1, <2>5, <1>5 DEF RemoveTo
    <3>4. Took(KeysIn(d) \ {k}, g, e, x)
      BY <3>1, <3>2, <2>2, <2>5
    <3>5. q.how = "done" /\ "drop" \in DOMAIN q /\ (q.drop # "done" \/ Settled(KeysIn(d) \ {k}, q.dir))
      <4>1. None \in Place
        BY DEF Place
      <4> QED BY <4>1, <3>3, <3>4, <1>1, GoneFacts
    <3> QED BY <3>5, <2>3, <1>7 DEF Removes
  <2> QED BY <2>4, <2>5
<1> QED BY <1>6, <1>7

\* From an index in the record.
LEMMA RemoveSmall ==
  ASSUME NEW d, Small(d), NEW k \in Key, NEW q, q = RemoveEntry(d, k)
  PROVE  Removes(KeysIn(d), d, k, q)
<1>1. PICK n : n = d.root
  OBVIOUS
<1>2. /\ d \in Volume /\ n \in Node /\ ~ d.large /\ d.used = {} /\ Sorted(n, -1, -1) /\ Bare(n)
      /\ (d.owned = 1 => n.keys = << >>) /\ KeysIn(d) = {z \in Key : Has(n, z)}
  BY <1>1, SmallKeys
<1>3. PICK u : u = HolderOf(d, k)
  OBVIOUS
<1>4. PICK r : r = TakenFrom(d, k)
  OBVIOUS
<1>5. RemoveTo(d, k, u, r, q)
  BY <1>2, <1>3, <1>4, RemoveEntryFacts
<1>6. Holders(d, k) = {}
  <2>1. \A v \in Block : d.node[v].keys = << >>
    BY DEF Small, Idle
  <2>2. \A v \in Block : ~ Has(d.node[v], k)
    BY <2>1 DEF Has
  <2> QED BY <2>2 DEF Holders
<1>7. CASE ~ Has(n, k)
  <2>1. q.how = "not found" /\ q.dir = d /\ q.dir \in Volume
    BY <1>1, <1>5, <1>6, <1>7 DEF RemoveTo
  <2> QED BY <2>1, <1>2, <1>7 DEF Removes
<1>8. CASE Has(n, k)
  <2>1. u = None /\ NodeAt(d, u) = n
    BY <1>1, <1>3, <1>8 DEF HolderOf, NodeAt
  <2>2. PICK i : i = Slot(n, k)
    OBVIOUS
  <2>3. i \in 1..Len(n.keys) /\ n.keys[i].key = k
    BY <2>2, <1>2, <1>8, HasSlot
  <2>4. PICK v : v = n.keys[i].sub
    OBVIOUS
  <2>5. v = None
    <3>1. i \in Slots(n) /\ SubAt(n, i) = v
      BY <2>3, <2>4, <1>2, NodeFacts DEF Slots, SubAt
    <3> QED BY <3>1, <1>2 DEF Bare
  <2>6. PICK m : m = Without(n, i)
    OBVIOUS
  <2>7. r.how = "done" /\ r.dir = d /\ r.node = m /\ r.emptied = None
    <3>1. PICK x : x = ExtractMaxKey(d, v)
      OBVIOUS
    <3>2. PICK room : room = RoomOf(u)
      OBVIOUS
    <3>3. r = TakeKey(d, n, k, room)
      BY <3>2, <2>1, <1>3, <1>4 DEF TakenFrom
    <3>4. r = Kept(d, Without(n, i), None)
      <4>1. n \in Node /\ d \in Volume /\ k \in Key /\ Has(n, k) /\ i = Slot(n, k) /\ v = n.keys[i].sub /\ x = ExtractMaxKey(d, v)
        BY <3>1, <2>2, <2>4, <1>2, <1>8
      <4>2. /\ i \in 1..Len(n.keys) /\ v \in Sub
            /\ v = None => r = Kept(d, Without(n, i), None)
        BY <4>1, <3>3, TakeKeyFacts
      <4> QED BY <4>2, <2>5
    <3> QED BY <3>4, <2>6 DEF Kept
  <2>8. EmptiedBy(d, k) = None
    BY <2>1, <2>7, <1>3, <1>4 DEF EmptiedBy
  <2>9. PICK e : e = RootWith(d, m)
    OBVIOUS
  <2>10. q = GoneWith(Done(e))
    <3>1. q = GoneWith(Dropped(NodeWith(r.dir, u, r.node), EmptiedBy(d, k)))
      BY <2>7, <1>1, <1>5, <1>8 DEF RemoveTo
    <3>2. NodeWith(r.dir, u, r.node) = e
      BY <2>1, <2>7, <2>9 DEF NodeWith
    <3> QED BY <3>1, <3>2, <2>8 DEF Dropped
  <2>11. /\ m \in Node /\ Len(m.keys) = Len(n.keys) - 1
         /\ (\A j \in 1..(Len(n.keys) - 1) : m.keys[j] = IF j < i THEN n.keys[j] ELSE n.keys[j + 1])
         /\ (\A j \in 1..Len(n.keys) : SubAt(m, j) = IF j < i THEN SubAt(n, j) ELSE SubAt(n, j + 1))
    BY <2>3, <2>6, <1>2, WithoutFacts
  <2>12. CutAt(n, m, i)
    BY <2>11 DEF CutAt
  <2>13. Sorted(m, -1, -1) /\ \A z : Has(m, z) <=> Has(n, z) /\ z # k
    <3>1. PICK a \in Int : a = -1
      OBVIOUS
    <3>2. Sorted(n, a, a) /\ i \in 1..Len(n.keys) /\ n \in Node /\ m \in Node
      BY <3>1, <2>3, <2>11, <1>2
    <3>3. Sorted(m, a, a) /\ \A z : Has(m, z) <=> Has(n, z) /\ z # n.keys[i].key
      BY <3>2, <2>12, SortedCut
    <3> QED BY <3>1, <3>3, <2>3
  <2>14. Bare(m)
    <3> SUFFICES ASSUME NEW j \in Slots(m) PROVE SubAt(m, j) = None
      BY DEF Bare
    <3>1. PICK l \in Nat : l = Len(n.keys)
      BY <1>2, NodeFacts
    <3>2. j \in 1..l /\ j + 1 \in 1..(l + 1) /\ j \in 1..(l + 1)
      BY <3>1, <2>11 DEF Slots
    <3>3. SubAt(n, j) = None /\ SubAt(n, j + 1) = None
      BY <3>1, <3>2, <1>2 DEF Bare, Slots
    <3> QED BY <3>1, <3>2, <3>3, <2>11
  <2>15. /\ e \in Volume /\ e.root = m /\ e.large = d.large /\ e.node = d.node /\ e.used = d.used
         /\ e.owned = d.owned /\ e.free = d.free
    BY <2>9, <2>11, <1>2, RootWithFacts
  <2>16. d.owned # 1
    <3> SUFFICES ASSUME n.keys = << >> PROVE FALSE
      BY <1>2
    <3> QED BY <1>8 DEF Has
  <2>17. Small(e)
    BY <2>13, <2>14, <2>15, <2>16 DEF Small, Idle
  <2>18. KeysIn(e) = KeysIn(d) \ {k}
    <3>1. KeysIn(e) = {z \in Key : Has(m, z)}
      BY <2>15, <2>17, SmallKeys
    <3> QED BY <3>1, <2>13, <1>2
  <2>19. q.how = "done" /\ q.dir = Collapse(e) /\ q.drop = "done" /\ "drop" \in DOMAIN q
    BY <2>10 DEF GoneWith, Done
  <2>20. Settled(KeysIn(d) \ {k}, q.dir)
    BY <2>17, <2>18, <2>19, SettledSmall
  <2>21. q.dir \in Volume /\ k \in KeysIn(d)
    BY <1>2, <1>5, <1>8 DEF RemoveTo
  <2> QED BY <2>19, <2>20, <2>21 DEF Removes
<1> QED BY <1>7, <1>8

(***************************************************************************)
(* What an index without trouble shows.                                    *)
(***************************************************************************)
\* An index in the record, or a tree.
Tidy(d) == Small(d) \/ Big(d)

\* An index in the record has no key outside its root.
LEMMA SmallBlocks ==
  ASSUME NEW d, Small(d)
  PROVE  /\ d \in Volume /\ d.root \in Node /\ d.used = {} /\ InTree(d) = {None} /\ NodeAt(d, None) = d.root
         /\ \A v \in Block : \A k : ~ Has(d.node[v], k)
<1>1. d \in Volume /\ d.root \in Node /\ d.used = {}
  BY SmallKeys
<1>2. InTree(d) = {None} /\ NodeAt(d, None) = d.root
  BY <1>1 DEF InTree, NodeAt
<1>3. \A v \in Block : d.node[v].keys = << >>
  BY DEF Small, Idle
<1>4. \A v \in Block : \A k : ~ Has(d.node[v], k)
  BY <1>3 DEF Has
<1> QED BY <1>1, <1>2, <1>4

\* A lookup sees the keys of the record.
LEMMA SmallVisible ==
  ASSUME NEW d, Small(d)
  PROVE  Visible(d) = KeysIn(d)
<1>1. PICK n : n = d.root
  OBVIOUS
<1>2. d \in Volume /\ n \in Node /\ d.used = {} /\ Sorted(n, -1, -1) /\ Bare(n) /\ KeysIn(d) = {k \in Key : Has(n, k)}
  BY <1>1, SmallKeys
<1> SUFFICES ASSUME NEW k \in Key PROVE Search(d, k) = k <=> Has(n, k)
  BY <1>2 DEF Visible
<1>3. PICK i : i = Slot(n, k)
  OBVIOUS
<1>4. i \in Slots(n) /\ DOMAIN n.keys = 1..Len(n.keys) /\ Len(n.keys) \in Nat /\ k # None /\ None \in Sub
  BY <1>2, <1>3, SlotFacts, NodeFacts, ConstFacts DEF Slots
<1>5. PICK B : B = SearchBlocks(d, k)
  OBVIOUS
<1>6. B[None] = None
  <2>1. PICK L \in [0..SearchLevels -> [Sub -> Key \cup {None}]] :
          /\ \A w \in Sub : L[0][w] = None
          /\ \A h \in 1..SearchLevels : \A w \in Sub : L[h][w] = Sought(d, k, w, L[h - 1])
          /\ \A v \in Sub : SearchBlocks(d, k)[v] = L[SearchLevels][v]
    BY <1>2, SearchLevelsFacts
  <2>2. SearchLevels \in 1..SearchLevels
    BY DEF SearchLevels
  <2>3. B[None] = Sought(d, k, None, L[SearchLevels - 1])
    BY <2>1, <2>2, <1>4, <1>5
  <2> QED BY <2>3, <1>2 DEF Sought
<1>7. Search(d, k) = SearchNode(n, k, B)
  BY <1>1, <1>5 DEF Search
<1>8. SubAt(n, i) = None
  BY <1>2, <1>4 DEF Bare
<1>9. CASE Has(n, k)
  <2>1. PICK a \in Int : a = -1
    OBVIOUS
  <2>2. i \in 1..Len(n.keys) /\ n.keys[i].key = k
    BY <2>1, <1>2, <1>3, <1>9, HasSlot
  <2>3. i <= Len(n.keys)
    BY <2>2, <1>4
  <2> QED BY <2>2, <2>3, <1>3, <1>7, <1>9 DEF SearchNode
<1>10. CASE ~ Has(n, k)
  <2>1. ~ (i <= Len(n.keys) /\ n.keys[i].key = k)
    BY <1>4, <1>10 DEF Has, Slots
  <2>2. Search(d, k) = None
    BY <2>1, <1>3, <1>6, <1>7, <1>8 DEF SearchNode
  <2> QED BY <2>2, <1>4, <1>10
<1> QED BY <1>9, <1>10

\* An index in the record is in order.
LEMMA SmallOrdered ==
  ASSUME NEW d, Small(d), NEW u \in InTree(d)
  PROVE  Ordered(d, NodeAt(d, u))
<1>1. PICK n \in Node : n = d.root
  BY SmallBlocks
<1>2. NodeAt(d, u) = n
  BY <1>1, SmallBlocks
<1>3. \A v : Below(d, v) = {}
  BY SmallBlocks DEF Below
<1>4. \A i \in 2..Len(n.keys) : n.keys[i - 1].key < n.keys[i].key
  <2>1. Sorted(n, -1, -1) /\ Len(n.keys) \in Nat
    BY <1>1, SmallKeys, NodeFacts
  <2> QED BY <2>1 DEF Sorted
<1> QED BY <1>2, <1>3, <1>4 DEF Ordered

\* Nothing points to a block of an index in the record.
LEMMA SmallPointers ==
  ASSUME NEW d, Small(d)
  PROVE  /\ d.used = {v \in Block : Pointers(d, v) # {}}
         /\ \A v \in d.used : Cardinality(Pointers(d, v)) = 1 /\ v < d.owned
         /\ d.owned + d.free = Clusters
<1>1. d.used = {} /\ NodeAt(d, None) = d.root /\ Bare(d.root) /\ d.owned + d.free = Clusters
  BY SmallKeys, SmallBlocks
<1>2. ASSUME NEW v \in Block PROVE Pointers(d, v) = {}
  <2>1. SlotOf(d.root, v) = {}
    BY <1>1, ConstFacts DEF SlotOf, Bare, Slots
  <2> QED BY <2>1, <1>1 DEF Pointers
<1> QED BY <1>1, <1>2

\* Nor is there a key in one.
LEMMA SmallScan ==
  ASSUME NEW d, Small(d)
  PROVE  KeysIn(d) = {k \in Key : Has(d.root, k) \/ \E v \in Block : Readable(d, v) /\ Has(d.node[v], k)}
BY SmallKeys, SmallBlocks

\* A lookup sees the keys of the index.
LEMMA TidyVisible ==
  ASSUME NEW d, Tidy(d)
  PROVE  Visible(d) = KeysIn(d)
<1>1. CASE Small(d)
  BY <1>1, SmallVisible
<1>2. CASE Big(d)
  <2>1. PICK g : Tree(d, -1, g) /\ g.lev[None] <= InsertLevels
    BY <1>2 DEF Big
  <2> QED BY <2>1, TreeVisible
<1> QED BY <1>1, <1>2 DEF Tidy

(***************************************************************************)
(* The steps of an index without trouble.                                  *)
(***************************************************************************)
\* A call outside the windows.
Clear(d, r) ==
  /\ r.how \in {"refused", "unsupported"} => r.dir.free = d.free /\ r.dir.node = d.node
  /\ "drop" \in DOMAIN r => r.drop = "done"
  /\ Whole(r.dir)

\* An index stays tidy, and the call has told the truth of its name.
Told(d, r, J) ==
  /\ Tidy(r.dir) /\ KeysIn(r.dir) = J
  /\ r.how = "done" <=> J # KeysIn(d)

\* A tree that a lookup reaches and that has not lost the end of a block.
LEMMA RipeTidy ==
  ASSUME NEW K, NEW d, Ripe(K, d), Whole(d)
  PROVE  Tidy(d) /\ KeysIn(d) = K
BY DEF Ripe, Whole, Tidy, Big

\* An insertion outside the windows adds its name or does nothing.
LEMMA InsertTold ==
  ASSUME NEW d, Tidy(d), NEW k \in Key, k \notin KeysIn(d), NEW r, r = InsertEntry(d, k), Clear(d, r)
  PROVE  Told(d, r, KeysIn(d) \cup {k}) \/ Told(d, r, KeysIn(d))
<1>1. Small(d) \/ \E g : Tree(d, -1, g)
  BY DEF Tidy, Big
<1>2. PICK K : K = KeysIn(d)
  OBVIOUS
<1>3. Inserts(K, d, k, r)
  BY <1>1, <1>2, EntryStep
<1>4. CASE r.how = "done"
  <2>1. Tidy(r.dir) /\ KeysIn(r.dir) = K \cup {k}
    <3>1. CASE Ripe(K \cup {k}, r.dir)
      <4>1. PICK e : e = r.dir
        OBVIOUS
      <4>2. PICK J : J = K \cup {k}
        OBVIOUS
      <4>3. Ripe(J, e) /\ Whole(e)
        BY <3>1, <4>1, <4>2 DEF Clear
      <4> QED BY <4>1, <4>2, <4>3, RipeTidy
    <3>2. CASE Small(r.dir) /\ KeysIn(r.dir) = K \cup {k}
      BY <3>2 DEF Tidy
    <3> QED BY <1>3, <1>4, <3>1, <3>2 DEF Inserts
  <2> QED BY <2>1, <1>2, <1>4 DEF Told
<1>5. CASE r.how = "refused"
  <2>1. r.dir = d
    BY <1>3, <1>5 DEF Inserts, Clear
  <2> QED BY <2>1, <1>5 DEF Told
<1> QED BY <1>3, <1>4, <1>5 DEF Inserts

\* A removal outside the windows takes its name away or does nothing.
LEMMA RemoveTold ==
  ASSUME NEW d, Tidy(d), NEW k \in Key, NEW r, r = RemoveEntry(d, k), Clear(d, r)
  PROVE  (k \in KeysIn(d) /\ Told(d, r, KeysIn(d) \ {k})) \/ Told(d, r, KeysIn(d))
<1>1. PICK K : K = KeysIn(d)
  OBVIOUS
<1>2. Removes(K, d, k, r)
  BY <1>1, RemoveBig, RemoveSmall DEF Tidy
<1>3. CASE r.how = "done"
  <2>1. k \in K /\ Settled(K \ {k}, r.dir)
    BY <1>2, <1>3 DEF Removes, Clear
  <2>2. Tidy(r.dir) /\ KeysIn(r.dir) = K \ {k}
    BY <2>1 DEF Settled, Clear, Whole, Tidy
  <2> QED BY <2>1, <2>2, <1>1, <1>3 DEF Told
<1>4. CASE r.how = "unsupported"
  BY <1>2, <1>4 DEF Removes, Clear
<1>5. CASE r.how = "not found"
  <2>1. r.dir = d
    BY <1>2, <1>5 DEF Removes
  <2> QED BY <2>1, <1>5 DEF Told
<1> QED BY <1>2, <1>3, <1>4, <1>5 DEF Removes

\* No window has been opened by a call that leaves no trouble.
LEMMA ClearCall ==
  ASSUME NEW r, Call(r), trouble' = {}
  PROVE  trouble = {} /\ Clear(dir, r)
<1>1. trouble = {} /\ Windows(r) = {}
  BY DEF Call
<1>2. r.how \in {"refused", "unsupported"} => r.dir.free = dir.free /\ r.dir.node = dir.node
  BY <1>1 DEF Windows
<1>3. "drop" \in DOMAIN r => r.drop = "done"
  BY <1>1 DEF Windows
<1>4. Whole(r.dir)
  BY <1>1 DEF Windows, Whole
<1> QED BY <1>1, <1>2, <1>3, <1>4 DEF Clear

\* What such a call does to the names.
Shown(J) ==
  /\ names' = J /\ names' = KeysIn(dir') /\ Tidy(dir')
  /\ status' = "done" <=> names' # names

\* A call that has told the truth of what the index keeps shows it.
LEMMA ToldShown ==
  ASSUME NEW r, Call(r), NEW J, Told(dir, r, J), names = KeysIn(dir)
  PROVE  Shown(J)
<1>1. PICK e : e = r.dir
  OBVIOUS
<1>2. dir' = e /\ status' = r.how /\ names' = Visible(e)
  BY <1>1 DEF Call
<1>3. Tidy(e) /\ KeysIn(e) = J /\ (r.how = "done" <=> J # names)
  BY <1>1 DEF Told
<1>4. Visible(e) = KeysIn(e)
  BY <1>3, TidyVisible
<1>5. KeysIn(dir') = J /\ Tidy(dir')
  BY <1>2, <1>3
<1> QED BY <1>2, <1>3, <1>4, <1>5 DEF Shown

\* TreeInv says what an index without trouble is.
LEMMA InvTidy ==
  ASSUME TreeInv, trouble = {}
  PROVE  names = KeysIn(dir) /\ Tidy(dir)
BY DEF TreeInv, Tidy

\* The insertion of a name.
LEMMA InsertShown ==
  ASSUME TreeInv, trouble' = {}, NEW k \in Key, InsertName(k)
  PROVE  Shown(names \cup {k}) \/ Shown(names)
<1>1. PICK r : r = InsertEntry(dir, k) /\ Call(r)
  BY DEF InsertName
<1>2. trouble = {} /\ Clear(dir, r)
  BY <1>1, ClearCall
<1>3. names = KeysIn(dir) /\ Tidy(dir) /\ k \notin names
  BY <1>2, InvTidy DEF InsertName
<1>4. PICK d : d = dir
  OBVIOUS
<1>5. Told(d, r, KeysIn(d) \cup {k}) \/ Told(d, r, KeysIn(d))
  BY <1>1, <1>2, <1>3, <1>4, InsertTold
<1>6. Told(dir, r, names \cup {k}) \/ Told(dir, r, names)
  BY <1>3, <1>4, <1>5
<1> QED BY <1>1, <1>3, <1>6, ToldShown

\* The removal of a name.
LEMMA RemoveShown ==
  ASSUME TreeInv, trouble' = {}, NEW k \in Key, RemoveName(k)
  PROVE  (k \in names /\ Shown(names \ {k})) \/ Shown(names)
<1>1. PICK r : r = RemoveEntry(dir, k) /\ Call(r)
  BY DEF RemoveName
<1>2. trouble = {} /\ Clear(dir, r)
  BY <1>1, ClearCall
<1>3. names = KeysIn(dir) /\ Tidy(dir)
  BY <1>2, InvTidy
<1>4. PICK d : d = dir
  OBVIOUS
<1>5. (k \in KeysIn(d) /\ Told(d, r, KeysIn(d) \ {k})) \/ Told(d, r, KeysIn(d))
  BY <1>1, <1>2, <1>3, <1>4, RemoveTold
<1>6. (k \in names /\ Told(dir, r, names \ {k})) \/ Told(dir, r, names)
  BY <1>3, <1>4, <1>5
<1> QED BY <1>1, <1>3, <1>6, ToldShown

\* Init => TreeInv.
LEMMA TreeInit == Init => TreeInv
<1> SUFFICES ASSUME Init PROVE TreeInv
  OBVIOUS
<1>1. PICK f : f = [v \in Block |-> Blank]
  OBVIOUS
<1>2. PICK z \in Node : z = Leaf(<< >>) /\ z.keys = << >> /\ z.end = None /\ Len(z.keys) = 0
  BY EmptyLeafFacts
<1>3. PICK d : d = Directory(z, FALSE, f, {}, 0, Clusters)
  OBVIOUS
<1>4. dir = d
  BY <1>1, <1>2, <1>3 DEF Init, Directory
<1>5. TypeInv
  BY TypeInit
<1>6. d \in Volume
  BY <1>4, <1>5 DEF TypeInv
<1>7. d.root = z /\ ~ d.large /\ d.node = f /\ d.used = {} /\ d.owned = 0 /\ d.free = Clusters
  BY <1>3 DEF Directory
<1>8. \A v \in Block : Idle(d, v)
  <2>1. \A v \in Block : d.node[v] = Blank
    BY <1>1, <1>7
  <2> QED BY <2>1, BlankFacts, ConstFacts DEF Idle
<1>9. Sorted(z, -1, -1) /\ Bare(z)
  <2>1. Sorted(z, -1, -1)
    BY <1>2 DEF Sorted
  <2>2. Bare(z)
    BY <1>2 DEF Bare, Slots, SubAt
  <2> QED BY <2>1, <2>2
<1>10. d.owned <= 1 /\ d.owned + d.free = Clusters /\ d.owned # 1
  BY <1>7, ConstFacts
<1>11. Small(d)
  BY <1>6, <1>7, <1>8, <1>9, <1>10 DEF Small
<1>12. KeysIn(d) = {}
  BY <1>2, <1>7, <1>11, SmallKeys
<1>13. names = {} /\ trouble = {}
  BY DEF Init
<1> QED BY <1>4, <1>5, <1>11, <1>12, <1>13 DEF TreeInv

\* TreeInv /\ [Next]_vars => TreeInv'.
LEMMA TreeNext == TreeInv /\ [Next]_vars => TreeInv'
<1> SUFFICES ASSUME TreeInv, [Next]_vars PROVE TreeInv'
  OBVIOUS
<1>1. TypeInv'
  BY TypeNext DEF TreeInv
<1>2. ASSUME trouble' = {} PROVE names' = KeysIn(dir') /\ Tidy(dir')
  <2>1. CASE UNCHANGED vars
    <3>1. names = KeysIn(dir) /\ Tidy(dir)
      BY <1>2, <2>1, InvTidy DEF vars
    <3>2. names' = names /\ dir' = dir
      BY <2>1 DEF vars
    <3> QED BY <3>1, <3>2
  <2>2. ASSUME NEW k \in Key, InsertName(k) PROVE names' = KeysIn(dir') /\ Tidy(dir')
    BY <1>2, <2>2, InsertShown DEF Shown
  <2>3. ASSUME NEW k \in Key, RemoveName(k) PROVE names' = KeysIn(dir') /\ Tidy(dir')
    BY <1>2, <2>3, RemoveShown DEF Shown
  <2>4. CASE Fill
    <3>1. names' = names /\ dir' = dir /\ trouble = {}
      BY <1>2, <2>4 DEF Fill
    <3> QED BY <3>1, InvTidy
  <2> QED BY <2>1, <2>2, <2>3, <2>4 DEF Next
<1> QED BY <1>1, <1>2 DEF TreeInv, Tidy

(***************************************************************************)
(* The safety properties.                                                  *)
(***************************************************************************)
\* TreeInv holds throughout.
LEMMA TreeAlways == Spec => []TreeInv
<1> QED BY TreeInit, TreeNext, PTL DEF Spec

\* Outside the known windows every node is in collation order and between the separators
\* that lead to it, so a descent by comparison finds what an enumeration lists
\* (NtfsEfiSearchIndexBlock).
THEOREM StaysInOrder == Spec => []InCollationOrder
<1>1. TreeInv => InCollationOrder
  <2> SUFFICES ASSUME TreeInv, trouble = {}, NEW u \in dir.used \cup {None} PROVE Ordered(dir, NodeAt(dir, u))
    BY DEF InCollationOrder
  <2>1. PICK d : d = dir
    OBVIOUS
  <2>2. Tidy(d) /\ u \in InTree(d)
    BY <2>1, InvTidy DEF InTree
  <2>3. CASE Small(d)
    BY <2>1, <2>2, <2>3, SmallOrdered
  <2>4. CASE Big(d)
    <3>1. PICK g : Tree(d, -1, g)
      BY <2>4 DEF Big
    <3>2. PICK x \in Int : x = -1
      OBVIOUS
    <3> QED BY <2>1, <2>2, <3>1, <3>2, TreeOrdered
  <2> QED BY <2>2, <2>3, <2>4 DEF Tidy
<1> QED BY <1>1, TreeAlways, PTL

\* Outside the known windows the blocks marked in use are those of the tree, each with
\* one pointer to it, and no cluster of the volume is lost (NtfsBtreeAllocBlock).
THEOREM BlocksStayAgreed == Spec => []BlocksAgree
<1>1. TreeInv => BlocksAgree
  <2> SUFFICES ASSUME TreeInv, trouble = {}
               PROVE  /\ dir.used = {v \in Block : Pointers(dir, v) # {}}
                      /\ \A v \in dir.used : Cardinality(Pointers(dir, v)) = 1 /\ v < dir.owned
                      /\ dir.owned + dir.free = Clusters
    BY DEF BlocksAgree
  <2>1. PICK d : d = dir
    OBVIOUS
  <2>2. Tidy(d)
    BY <2>1, InvTidy
  <2>3. /\ d.used = {v \in Block : Pointers(d, v) # {}}
        /\ \A v \in d.used : Cardinality(Pointers(d, v)) = 1 /\ v < d.owned
        /\ d.owned + d.free = Clusters
    <3>1. CASE Small(d)
      BY <3>1, SmallPointers
    <3>2. CASE Big(d)
      <4>1. PICK g : Tree(d, -1, g)
        BY <3>2 DEF Big
      <4>2. PICK x \in Int : x = -1
        OBVIOUS
      <4> QED BY <4>1, <4>2, TreePointers
    <3> QED BY <2>2, <3>1, <3>2 DEF Tidy
  <2> QED BY <2>1, <2>3
<1> QED BY <1>1, TreeAlways, PTL

\* Outside the known windows the removal, which reads every block, and the lookup, which
\* descends, see the same names (NtfsRemoveOneDirEntryByChild).
THEOREM ScanStaysAgreed == Spec => []ScanAgreesWithLookup
<1>1. TreeInv => ScanAgreesWithLookup
  <2> SUFFICES ASSUME TreeInv, trouble = {}
               PROVE  names = {k \in Key : Has(dir.root, k) \/ \E v \in Block : Readable(dir, v) /\ Has(dir.node[v], k)}
    BY DEF ScanAgreesWithLookup
  <2>1. PICK d : d = dir
    OBVIOUS
  <2>2. Tidy(d) /\ names = KeysIn(d)
    BY <2>1, InvTidy
  <2>3. KeysIn(d) = {k \in Key : Has(d.root, k) \/ \E v \in Block : Readable(d, v) /\ Has(d.node[v], k)}
    <3>1. CASE Small(d)
      BY <3>1, SmallScan
    <3>2. CASE Big(d)
      <4>1. PICK g : Tree(d, -1, g)
        BY <3>2 DEF Big
      <4>2. PICK x \in Int : x = -1
        OBVIOUS
      <4> QED BY <4>1, <4>2, TreeScan
    <3> QED BY <2>2, <3>1, <3>2 DEF Tidy
  <2> QED BY <2>1, <2>2, <2>3
<1> QED BY <1>1, TreeAlways, PTL

\* Outside the known windows a directory without names is back in its record and keeps
\* one block at most (NtfsCollapseIndexToResident).
THEOREM EmptyStaysSmall == Spec => []EmptyIsSmall
<1>1. TreeInv => EmptyIsSmall
  <2> SUFFICES ASSUME TreeInv, trouble = {}, names = {} PROVE ~ dir.large /\ dir.used = {} /\ dir.owned <= 1
    BY DEF EmptyIsSmall
  <2>1. PICK d : d = dir
    OBVIOUS
  <2>2. Tidy(d) /\ KeysIn(d) = {}
    BY <2>1, InvTidy
  <2>3. ~ Big(d)
    <3> SUFFICES ASSUME Big(d) PROVE FALSE
      OBVIOUS
    <3>1. PICK g : Tree(d, -1, g)
      BY DEF Big
    <3> QED BY <2>2, <3>1, TreeHasKeys DEF Big
  <2>4. Small(d)
    BY <2>2, <2>3 DEF Tidy
  <2> QED BY <2>1, <2>4 DEF Small
<1> QED BY <1>1, TreeAlways, PTL

\* What a step outside the windows does, in terms of the calls.
LEMMA StepShown ==
  ASSUME TreeInv, trouble' = {}, Next
  PROVE  \/ \E k \in Key : InsertName(k) /\ Shown(names \cup {k})
         \/ \E k \in Key : RemoveName(k) /\ k \in names /\ Shown(names \ {k})
         \/ Shown(names)
<1>1. ASSUME NEW k \in Key, InsertName(k) PROVE Shown(names \cup {k}) \/ Shown(names)
  BY <1>1, InsertShown
<1>2. ASSUME NEW k \in Key, RemoveName(k) PROVE (k \in names /\ Shown(names \ {k})) \/ Shown(names)
  BY <1>2, RemoveShown
<1>3. CASE Fill
  <2>1. names' = names /\ dir' = dir /\ trouble = {} /\ status' # "done"
    BY <1>3 DEF Fill
  <2>2. names = KeysIn(dir) /\ Tidy(dir)
    BY <2>1, InvTidy
  <2> QED BY <2>1, <2>2 DEF Shown
<1> QED BY <1>1, <1>2, <1>3 DEF Next

\* Every call outside the known windows is a step of a set of names: a tree of blocks
\* that splits, promotes, extracts, drops and folds keeps what NameSet promises.
THEOREM IndexImplementsNameSet == Spec => ImplementsNameSet
<1>1. Init => Names!Init
  BY DEF Init, Names!Init
<1>2. TreeInv /\ [Next]_vars => [trouble' = {} /\ names' # names => Names!Next]_vars
  <2> SUFFICES ASSUME TreeInv, Next, trouble' = {}, names' # names PROVE Names!Next
    OBVIOUS
  <2>1. ~ Shown(names)
    BY DEF Shown
  <2>2. CASE \E k \in Key : InsertName(k) /\ Shown(names \cup {k})
    <3>1. PICK k \in Key : InsertName(k) /\ Shown(names \cup {k})
      BY <2>2
    <3>2. Names!Add(k)
      BY <3>1 DEF InsertName, Shown, Names!Add
    <3> QED BY <3>2 DEF Names!Next
  <2>3. CASE \E k \in Key : RemoveName(k) /\ k \in names /\ Shown(names \ {k})
    <3>1. PICK k \in Key : k \in names /\ Shown(names \ {k})
      BY <2>3
    <3>2. Names!Remove(k)
      BY <3>1 DEF Shown, Names!Remove
    <3> QED BY <3>2 DEF Names!Next
  <2> QED BY <2>1, <2>2, <2>3, StepShown
<1>3. Spec => [][trouble' = {} /\ names' # names => Names!Next]_vars
  BY <1>2, TreeAlways, PTL DEF Spec
<1> QED BY <1>1, <1>3 DEF ImplementsNameSet, Spec

\* Outside the known windows a call that reports success has changed the name it was
\* asked for, and any other has changed none (NtfsInsertIndexEntry,
\* NtfsRemoveOneDirEntryByChild).
THEOREM CallsChangeAsAsked == Spec => ChangesAsAsked
<1> DEFINE Asked ==
      /\ \A k \in names' \ names : InsertName(k)
      /\ \A k \in names \ names' : RemoveName(k)
      /\ status' = "done" <=> names' # names
<1>1. TreeInv /\ [Next]_vars => [trouble' = {} => Asked]_vars
  <2> SUFFICES ASSUME TreeInv, Next, trouble' = {} PROVE Asked
    OBVIOUS
  <2>1. CASE Shown(names)
    BY <2>1 DEF Shown
  <2>2. CASE \E k \in Key : InsertName(k) /\ Shown(names \cup {k})
    <3>1. PICK k \in Key : InsertName(k) /\ Shown(names \cup {k})
      BY <2>2
    <3>2. names' = names \cup {k} /\ (status' = "done" <=> names' # names)
      BY <3>1 DEF Shown
    <3>3. \A j \in names' \ names : j = k
      BY <3>2
    <3>4. names \ names' = {}
      BY <3>2
    <3> QED BY <3>1, <3>2, <3>3, <3>4
  <2>3. CASE \E k \in Key : RemoveName(k) /\ k \in names /\ Shown(names \ {k})
    <3>1. PICK k \in Key : RemoveName(k) /\ k \in names /\ Shown(names \ {k})
      BY <2>3
    <3>2. names' = names \ {k} /\ (status' = "done" <=> names' # names)
      BY <3>1 DEF Shown
    <3>3. \A j \in names \ names' : j = k
      BY <3>2
    <3>4. names' \ names = {}
      BY <3>2
    <3> QED BY <3>1, <3>2, <3>3, <3>4
  <2> QED BY <2>1, <2>2, <2>3, StepShown
<1> QED BY <1>1, TreeAlways, PTL DEF Spec, ChangesAsAsked

(***************************************************************************)
(* The room that items take.                                               *)
(***************************************************************************)
\* The sums of the first values of a function,
Sums(f, N, z) == f \in [0..N -> Nat] /\ f[0] = 0 /\ \A i \in 1..N : f[i] = f[i - 1] + z[i]
\* which exist,
LEMMA SumsExist ==
  ASSUME NEW N \in Nat, NEW z \in [1..N -> Nat]
  PROVE  \E f : Sums(f, N, z)
<1> DEFINE Upto(n, w) == w[0] = 0 /\ \A k \in 1..n : w[k] = w[k - 1] + z[k]
           Bad == {n \in 0..N : ~ \E w \in [0..n -> Nat] : Upto(n, w)}
<1>0. SUFFICES \E w \in [0..N -> Nat] : Upto(N, w)
  BY DEF Sums
<1>1. SUFFICES ASSUME Bad # {} PROVE FALSE
  <2>1. N \in 0..N
    OBVIOUS
  <2>2. SUFFICES ASSUME Bad = {} PROVE \E w \in [0..N -> Nat] : Upto(N, w)
    OBVIOUS
  <2>3. N \notin Bad
    BY <2>2
  <2> HIDE DEF Upto
  <2> QED BY <2>1, <2>3
<1>2. PICK n \in Bad : \A m \in Bad : n <= m
  <2>1. Bad \in SUBSET Nat
    OBVIOUS
  <2> HIDE DEF Bad
  <2> QED BY <1>1, <2>1, LeastNumber
<1>3. n # 0
  <2> DEFINE w == [i \in 0..0 |-> 0]
  <2>1. w \in [0..0 -> Nat] /\ Upto(0, w)
    OBVIOUS
  <2> QED BY <1>2, <2>1
<1>4. n \in 1..N /\ n - 1 \in 0..N /\ ~ n <= n - 1
  BY <1>2, <1>3
<1>5. PICK v \in [0..(n - 1) -> Nat] : Upto(n - 1, v)
  <2> HIDE DEF Upto
  <2> QED BY <1>2, <1>4
<1>6. v[n - 1] \in Nat /\ z[n] \in Nat
  BY <1>4, <1>5
<1> DEFINE w == [i \in 0..n |-> IF i < n THEN v[i] ELSE v[n - 1] + z[n]]
<1>7. \A i \in 0..n : i < n => w[i] = v[i] /\ v[i] \in Nat
  BY <1>4, <1>5
<1>8. w[n] = v[n - 1] + z[n] /\ w[n] \in Nat
  BY <1>4, <1>6
<1>9. w \in [0..n -> Nat]
  BY <1>4, <1>5, <1>6
<1>10. Upto(n, w)
  <2> HIDE DEF w
  <2>1. w[0] = 0
    BY <1>4, <1>5, <1>7
  <2>2. ASSUME NEW k \in 1..n PROVE w[k] = w[k - 1] + z[k]
    <3>1. k - 1 \in 0..n /\ k - 1 < n
      BY <1>4
    <3>2. CASE k = n
      BY <1>7, <1>8, <3>1, <3>2
    <3>3. CASE k # n
      <4>1. k \in 1..(n - 1) /\ k \in 0..n /\ k < n
        BY <1>4, <3>3
      <4> QED BY <1>5, <1>7, <3>1, <4>1
    <3> QED BY <3>2, <3>3
  <2> QED BY <2>1, <2>2
<1> HIDE DEF Upto, w
<1> QED BY <1>2, <1>9, <1>10

\* give the room that items take.
LEMMA WidthSums ==
  ASSUME NEW s \in Seq(Item), NEW z, z = [i \in 1..Len(s) |-> Size[s[i].key]]
  PROVE  z \in [1..Len(s) -> Nat] /\ \E f : Sums(f, Len(s), z) /\ Width(s) = f[Len(s)]
<1>1. PICK N \in Nat : N = Len(s)
  OBVIOUS
<1>2. \A i \in 1..N : s[i].key \in Key
  <2>1. \A i \in 1..N : s[i] \in Item
    BY <1>1
  <2> QED BY <2>1 DEF Item
<1>3. z \in [1..N -> Nat] /\ \A i \in 1..N : z[i] = Size[s[i].key]
  BY <1>1, <1>2, SizeAssumption
<1> DEFINE F(l) == [i \in 0..N |-> IF i = 0 THEN 0 ELSE l[i - 1] + Size[s[i].key]]
<1>4. PICK w : Sums(w, N, z)
  BY <1>3, SumsExist
<1>5. w = F(w)
  <2>1. w \in [0..N -> Nat] /\ w[0] = 0 /\ \A i \in 1..N : w[i] = w[i - 1] + z[i]
    BY <1>4 DEF Sums
  <2>2. ASSUME NEW i \in 0..N PROVE w[i] = IF i = 0 THEN 0 ELSE w[i - 1] + Size[s[i].key]
    <3>1. CASE i = 0
      BY <2>1, <3>1
    <3>2. CASE i # 0
      <4>1. i \in 1..N
        BY <3>2
      <4> QED BY <2>1, <3>2, <4>1, <1>3
    <3> QED BY <3>1, <3>2
  <2> QED BY <2>1, <2>2
<1>6. PICK L : L = CHOOSE l : l = F(l)
  OBVIOUS
<1>7. L = F(L)
  <2> HIDE DEF F
  <2> QED BY <1>5, <1>6
<1>8. Width(s) = L[N]
  BY <1>1, <1>6 DEF Width
<1>9. L[0] = 0 /\ \A i \in 1..N : L[i] = L[i - 1] + z[i]
  <2>1. 0 \in 0..N /\ \A i \in 1..N : i \in 0..N /\ i # 0
    BY <1>1
  <2> QED BY <1>3, <1>7, <2>1
<1>10. \A i \in 0..N : L[i] \in Nat
  <2> DEFINE G == {i \in 0..N : L[i] \in Nat}
  <2>1. 0 \in G
    BY <1>9
  <2>2. ASSUME NEW i \in 1..N, i - 1 \in G PROVE i \in G
    <3>1. L[i - 1] \in Nat /\ z[i] \in Nat /\ i \in 0..N
      BY <2>2, <1>3
    <3>2. L[i] = L[i - 1] + z[i]
      BY <1>9
    <3>3. L[i] \in Nat
      BY <3>1, <3>2
    <3> QED BY <3>1, <3>3
  <2> HIDE DEF G
  <2>3. \A i \in 0..N : i \in G
    BY <2>1, <2>2, KeptByAll
  <2> QED BY <2>3 DEF G
<1>11. L \in [0..N -> Nat]
  <2>1. L = [i \in 0..N |-> L[i]]
    BY <1>7
  <2> QED BY <1>10, <2>1
<1>12. Sums(L, N, z)
  BY <1>9, <1>11 DEF Sums
<1> QED BY <1>1, <1>3, <1>8, <1>12

\* A term that is put in is added,
LEMMA SumsAdd ==
  ASSUME NEW N \in Nat, NEW z \in [1..N -> Nat], NEW y \in [1..(N + 1) -> Nat], NEW f, NEW h,
         Sums(f, N, z), Sums(h, N + 1, y), NEW i \in 1..(N + 1),
         \A j \in 1..(N + 1) : (j < i => y[j] = z[j]) /\ (j > i => y[j] = z[j - 1])
  PROVE  h[N + 1] = f[N] + y[i] /\ f[N] \in Nat
<1>1. f \in [0..N -> Nat] /\ f[0] = 0 /\ \A j \in 1..N : f[j] = f[j - 1] + z[j]
  BY DEF Sums
<1>2. h \in [0..(N + 1) -> Nat] /\ h[0] = 0 /\ \A j \in 1..(N + 1) : h[j] = h[j - 1] + y[j]
  BY DEF Sums
<1>3. PICK x \in Nat : x = y[i]
  OBVIOUS
<1> DEFINE D == {j \in 0..(N + 1) : IF j < i THEN h[j] = f[j] ELSE h[j] = f[j - 1] + x}
<1>4. 0 \in D
  BY <1>1, <1>2
<1>5. ASSUME NEW j \in 1..(N + 1), j - 1 \in D PROVE j \in D
  <2>1. h[j] = h[j - 1] + y[j]
    BY <1>2
  <2>2. IF j - 1 < i THEN h[j - 1] = f[j - 1] ELSE h[j - 1] = f[(j - 1) - 1] + x
    BY <1>5
  <2>3. CASE j < i
    <3>1. j \in 1..N /\ j - 1 < i
      BY <2>3
    <3>2. y[j] = z[j] /\ f[j] = f[j - 1] + z[j]
      BY <2>3, <3>1, <1>1
    <3>3. h[j] = f[j]
      BY <2>1, <2>2, <3>1, <3>2
    <3> QED BY <2>3, <3>3
  <2>4. CASE j = i
    <3>1. j - 1 < i /\ ~ (j < i)
      BY <2>4
    <3>2. h[j] = f[j - 1] + x
      BY <2>1, <2>2, <2>4, <3>1, <1>3
    <3> QED BY <3>1, <3>2
  <2>5. CASE j > i
    <3>1. ~ (j < i) /\ ~ (j - 1 < i) /\ j - 1 \in 1..N
      BY <2>5
    <3>2. y[j] = z[j - 1] /\ f[j - 1] = f[(j - 1) - 1] + z[j - 1]
      BY <2>5, <3>1, <1>1
    <3>3. f[(j - 1) - 1] \in Nat /\ z[j - 1] \in Nat
      <4>1. (j - 1) - 1 \in 0..N
        BY <3>1
      <4> QED BY <4>1, <3>1, <1>1
    <3>4. h[j - 1] = f[(j - 1) - 1] + x
      BY <2>2, <3>1
    <3>5. h[j] = f[j - 1] + x
      BY <2>1, <3>2, <3>3, <3>4
    <3> QED BY <3>1, <3>5
  <2> QED BY <2>3, <2>4, <2>5
<1> HIDE DEF D
<1>6. \A j \in 0..(N + 1) : j \in D
  <2>1. PICK M \in Nat : M = N + 1
    OBVIOUS
  <2>2. \A j \in 1..M : j - 1 \in D => j \in D
    BY <2>1, <1>5
  <2>3. \A j \in 0..M : j \in D
    BY <2>2, <1>4, KeptByAll
  <2> QED BY <2>1, <2>3
<1>7. N + 1 \in D /\ ~ (N + 1 < i)
  BY <1>6
<1>8. h[N + 1] = f[(N + 1) - 1] + x
  BY <1>7 DEF D
<1>9. (N + 1) - 1 = N /\ f[N] \in Nat
  BY <1>1
<1> QED BY <1>3, <1>8, <1>9

\* and so is an item that is put in.
LEMMA WidthAdd ==
  ASSUME NEW s \in Seq(Item), NEW t \in Seq(Item), Len(t) = Len(s) + 1, NEW i \in 1..(Len(s) + 1), NEW k \in Key,
         \A j \in 1..(Len(s) + 1) : t[j].key = IF j < i THEN s[j].key ELSE IF j = i THEN k ELSE s[j - 1].key
  PROVE  Width(s) \in Nat /\ Size[k] \in Nat /\ Width(t) = Width(s) + Size[k]
<1>1. PICK N \in Nat : N = Len(s)
  OBVIOUS
<1>2. PICK z : z = [j \in 1..Len(s) |-> Size[s[j].key]]
  OBVIOUS
<1>3. PICK y : y = [j \in 1..Len(t) |-> Size[t[j].key]]
  OBVIOUS
<1>4. z \in [1..N -> Nat] /\ \E f : Sums(f, N, z) /\ Width(s) = f[N]
  BY <1>1, <1>2, WidthSums
<1>5. y \in [1..(N + 1) -> Nat] /\ \E f : Sums(f, N + 1, y) /\ Width(t) = f[N + 1]
  BY <1>1, <1>3, WidthSums
<1>6. PICK f : Sums(f, N, z) /\ Width(s) = f[N]
  BY <1>4
<1>7. PICK h : Sums(h, N + 1, y) /\ Width(t) = h[N + 1]
  BY <1>5
<1>8. \A j \in 1..N : z[j] = Size[s[j].key]
  BY <1>1, <1>2
<1>9. \A j \in 1..(N + 1) : y[j] = Size[t[j].key]
  BY <1>1, <1>3
<1>10. \A j \in 1..(N + 1) : (j < i => y[j] = z[j]) /\ (j > i => y[j] = z[j - 1])
  <2> SUFFICES ASSUME NEW j \in 1..(N + 1) PROVE (j < i => y[j] = z[j]) /\ (j > i => y[j] = z[j - 1])
    OBVIOUS
  <2>1. CASE j < i
    <3>1. j \in 1..N /\ ~ (j > i) /\ i \in 1..(N + 1)
      BY <2>1, <1>1
    <3>2. t[j].key = s[j].key
      BY <2>1, <1>1
    <3> QED BY <3>1, <3>2, <1>8, <1>9
  <2>2. CASE j > i
    <3>1. j - 1 \in 1..N /\ ~ (j < i) /\ j # i /\ i \in 1..(N + 1)
      BY <2>2, <1>1
    <3>2. t[j].key = s[j - 1].key
      BY <3>1, <1>1
    <3> QED BY <3>1, <3>2, <1>8, <1>9
  <2>3. CASE ~ (j < i) /\ ~ (j > i)
    BY <2>3
  <2> QED BY <2>1, <2>2, <2>3
<1>11. y[i] = Size[k] /\ i \in 1..(N + 1)
  <2>1. i \in 1..(N + 1) /\ ~ (i < i)
    BY <1>1
  <2>2. t[i].key = k
    BY <2>1, <1>1
  <2> QED BY <2>1, <2>2, <1>9
<1>12. h[N + 1] = f[N] + y[i] /\ f[N] \in Nat
  BY <1>4, <1>5, <1>6, <1>7, <1>10, <1>11, SumsAdd
<1> QED BY <1>6, <1>7, <1>11, <1>12, SizeAssumption

\* No items take no room.
LEMMA WidthNone == Width(<< >>) = 0
<1>0. << >> \in Seq(Item) /\ Len(<< >>) = 0
  OBVIOUS
<1>1. PICK s \in Seq(Item) : s = << >> /\ Len(s) = 0
  BY <1>0
<1>2. PICK z : z = [i \in 1..Len(s) |-> Size[s[i].key]]
  OBVIOUS
<1>3. PICK f : Sums(f, 0, z) /\ Width(s) = f[0]
  BY <1>1, <1>2, WidthSums
<1> QED BY <1>1, <1>3 DEF Sums

LEMMA WidthType ==
  ASSUME NEW s \in Seq(Item)
  PROVE  Width(s) \in Nat
<1>1. PICK N \in Nat : N = Len(s)
  OBVIOUS
<1>2. PICK z : z = [j \in 1..Len(s) |-> Size[s[j].key]]
  OBVIOUS
<1>3. PICK f : Sums(f, N, z) /\ Width(s) = f[N]
  BY <1>1, <1>2, WidthSums
<1>4. f \in [0..N -> Nat] /\ N \in 0..N
  BY <1>3 DEF Sums
<1> QED BY <1>3, <1>4

\* An item that is taken out gives its room back,
LEMMA WidthWithout ==
  ASSUME NEW n \in Node, NEW i \in 1..Len(n.keys), NEW m, m = Without(n, i)
  PROVE  Width(m.keys) \in Nat /\ Width(m.keys) <= Width(n.keys)
<1>1. m \in Node /\ Len(m.keys) = Len(n.keys) - 1
      /\ \A j \in 1..(Len(n.keys) - 1) : m.keys[j] = IF j < i THEN n.keys[j] ELSE n.keys[j + 1]
  BY WithoutFacts
<1>2. n.keys \in Seq(Item) /\ m.keys \in Seq(Item)
  BY <1>1, NodeFacts
<1>3. n.keys[i] \in Item
  BY <1>2
<1>4. n.keys[i].key \in Key
  BY <1>3 DEF Item
<1>5. Len(n.keys) = Len(m.keys) + 1 /\ i \in 1..(Len(m.keys) + 1)
  BY <1>1, <1>2
<1>6. \A j \in 1..(Len(m.keys) + 1) :
        n.keys[j].key = IF j < i THEN m.keys[j].key ELSE IF j = i THEN n.keys[i].key ELSE m.keys[j - 1].key
  <2>1. PICK N \in Nat : N = Len(m.keys)
    BY <1>2
  <2>2. i \in 1..(N + 1) /\ \A j \in 1..N : m.keys[j] = IF j < i THEN n.keys[j] ELSE n.keys[j + 1]
    BY <2>1, <1>1, <1>5
  <2>3. ASSUME NEW j \in 1..(N + 1)
        PROVE  n.keys[j].key = IF j < i THEN m.keys[j].key ELSE IF j = i THEN n.keys[i].key ELSE m.keys[j - 1].key
    <3>1. CASE j < i
      <4>1. j \in 1..N
        BY <3>1, <2>2
      <4> QED BY <4>1, <3>1, <2>2
    <3>2. CASE j = i
      BY <3>2
    <3>3. CASE j > i
      <4>1. j - 1 \in 1..N /\ ~ (j - 1 < i) /\ (j - 1) + 1 = j /\ ~ (j < i) /\ j # i
        BY <3>3, <2>2
      <4>2. m.keys[j - 1] = n.keys[j]
        BY <4>1, <2>2
      <4> QED BY <4>1, <4>2
    <3> QED BY <3>1, <3>2, <3>3, <2>2
  <2> QED BY <2>1, <2>3
<1>7. Width(m.keys) \in Nat /\ Size[n.keys[i].key] \in Nat
      /\ Width(n.keys) = Width(m.keys) + Size[n.keys[i].key]
  BY <1>2, <1>4, <1>5, <1>6, WidthAdd
<1> QED BY <1>7

\* and a separator that comes up takes its own.
LEMMA WidthPromote ==
  ASSUME NEW n \in Node, NEW i \in 1..(Len(n.keys) + 1), NEW x \in Item, NEW v \in Sub,
         NEW m, m = Promote(n, i, x, v)
  PROVE  Width(n.keys) \in Nat /\ Size[x.key] \in Nat /\ Width(m.keys) = Width(n.keys) + Size[x.key]
<1>1. /\ m \in Node /\ Len(m.keys) = Len(n.keys) + 1
      /\ \A j \in 1..(Len(n.keys) + 1) :
           m.keys[j].key = IF j < i THEN n.keys[j].key ELSE IF j = i THEN x.key ELSE n.keys[j - 1].key
  BY PromoteFacts
<1>2. n.keys \in Seq(Item) /\ m.keys \in Seq(Item)
  BY <1>1, NodeFacts
<1>3. x.key \in Key
  BY DEF Item
<1> QED BY <1>1, <1>2, <1>3, WidthAdd

(***************************************************************************)
(* The record holds the root.                                              *)
(***************************************************************************)
Held(d) == Width(d.root.keys) <= RootRoom

LEMMA HeldEmpty ==
  ASSUME NEW d, d.root.keys = << >>
  PROVE  Held(d)
BY WidthNone, SizeAssumption DEF Held

\* An insertion writes no root that is too long,
LEMMA HeldLarge ==
  ASSUME NEW d \in Volume, NEW k \in Key, d.owned > 0, Held(d),
         ~ (RootFull(Expand(d), k) /\ NoBlock(Expand(d)))
  PROVE  Held(Outcome(d, k).dir) /\ Held(LeftBy(d, k))
<1>1. Expand(d) \in Volume /\ Held(Expand(d))
  <2>0. /\ Expand(d) \in Volume /\ (d.large => Expand(d) = d)
        /\ ~ d.large => 0 \in Block
             /\ Expand(d) = Directory(EmptyRoot(0), TRUE, [d.node EXCEPT ![0] = Leaf(<< >>)],
                                      d.used \cup {0}, d.owned, d.free)
    BY ExpandFacts
  <2>1. CASE d.large
    BY <2>0, <2>1
  <2>2. CASE ~ d.large
    <3>1. Expand(d).root = EmptyRoot(0) /\ 0 \in Sub
      BY <2>0, <2>2 DEF Directory, Sub
    <3>2. Expand(d).root.keys = << >>
      BY <3>1, EmptyRootFacts
    <3> QED BY <2>0, <3>2, HeldEmpty
  <2> QED BY <2>1, <2>2
<1>2. Held(Start(d, k))
  <2>1. CASE RootFull(Expand(d), k)
    <3>1. ~ NoBlock(Expand(d))
      BY <2>1
    <3>2. PushDownRoot(Expand(d)).root = EmptyRoot(NewBlock(Expand(d)))
      BY <3>1, <1>1, PushDownFacts DEF Directory
    <3>3. PushDownRoot(Expand(d)).root.keys = << >>
      BY <3>2 DEF EmptyRoot
    <3> QED BY <2>1, <3>3, HeldEmpty DEF Start
  <2>2. CASE ~ RootFull(Expand(d), k)
    BY <2>2, <1>1 DEF Start
  <2> QED BY <2>1, <2>2
<1>3. /\ Start(d, k) \in Volume /\ Start(d, k).root \in Node
      /\ Slot(Start(d, k).root, k) \in 1..(Len(Start(d, k).root.keys) + 1)
      /\ Way(d, k) \in Sub /\ Deep(d, k) \in Result(Start(d, k))
  BY StartFacts
<1>4. Deep(d, k).dir.root = Start(d, k).root
  <2>1. Deep(d, k).dir \in Grown(Start(d, k))
    BY <1>3, ResultFacts
  <2> QED BY <2>1, <1>3, GrownFacts
<1>5. Held(Deep(d, k).dir)
  BY <1>2, <1>4 DEF Held
<1>6. CASE Has(Start(d, k).root, k)
  <2>1. Outcome(d, k).dir = Start(d, k)
    BY <1>6 DEF Outcome, Exists
  <2>2. LeftBy(d, k).root = Expand(d).root
    BY LeftByFacts DEF Directory
  <2> QED BY <2>1, <2>2, <1>1, <1>2 DEF Held
<1>7. Held(LeftBy(d, k))
  <2>2. LeftBy(d, k).root = Expand(d).root
    BY LeftByFacts DEF Directory
  <2> QED BY <2>2, <1>1 DEF Held
<1>8. Held(Outcome(d, k).dir)
  <2>1. CASE Has(Start(d, k).root, k)
    BY <1>6, <2>1
  <2>2. CASE ~ Has(Start(d, k).root, k) /\ Way(d, k) = None
    <3>1. Outcome(d, k).dir = Start(d, k)
      BY <2>2 DEF Outcome, Refused
    <3> QED BY <3>1, <1>2
  <2>3. CASE ~ Has(Start(d, k).root, k) /\ Way(d, k) # None /\ Deep(d, k).how # "split"
    <3>1. Outcome(d, k) = Deep(d, k)
      BY <2>3 DEF Outcome
    <3> QED BY <3>1, <1>5
  <2>4. CASE ~ Has(Start(d, k).root, k) /\ Way(d, k) # None /\ Deep(d, k).how = "split"
    <3>1. Outcome(d, k) = RootInsertSep(Deep(d, k), Way(d, k))
      BY <2>4 DEF Outcome
    <3>2. PICK i \in 1..(Len(Start(d, k).root.keys) + 1) : SubAt(Start(d, k).root, i) = Way(d, k)
      BY <1>3 DEF Way
    <3>3. PICK m : m = RootPromoted(Deep(d, k), Way(d, k))
      OBVIOUS
    <3>4. m \in Node /\ Outcome(d, k) = IF Width(m.keys) <= RootRoom
                           THEN Done(RootWith(Deep(d, k).dir, m)) ELSE Refused(Deep(d, k).dir)
      <4>1. Deep(d, k) \in Result(Start(d, k)) /\ Deep(d, k).how = "split" /\ Start(d, k) \in Volume
        BY <1>3, <2>4
      <4> QED BY <4>1, <3>1, <3>2, <3>3, RootInsertSepFacts
    <3>5. CASE Width(m.keys) <= RootRoom
      <4>1. Outcome(d, k).dir.root = m
        BY <3>4, <3>5 DEF Done, RootWith, Directory
      <4> QED BY <4>1, <3>5 DEF Held
    <3>6. CASE ~ (Width(m.keys) <= RootRoom)
      <4>1. Outcome(d, k).dir = Deep(d, k).dir
        BY <3>4, <3>6 DEF Refused
      <4> QED BY <4>1, <1>5
    <3> QED BY <3>5, <3>6
  <2> QED BY <2>1, <2>2, <2>3, <2>4
<1> QED BY <1>7, <1>8

LEMMA HeldInsert ==
  ASSUME NEW d \in Volume, NEW k \in Key, Held(d)
  PROVE  Held(InsertEntry(d, k).dir)
<1>0. d.owned \in Nat
  BY VolumeFacts
<1>1. CASE d.owned > 0
  <2>0. InsertEntry(d, k) = InsertLarge(d, k)
    BY <1>1 DEF InsertEntry
  <2>1. CASE RootFull(Expand(d), k) /\ NoBlock(Expand(d))
    <3>1. InsertLarge(d, k).dir = Expand(d)
      BY <2>1, <1>1, InsertLargeFacts DEF Refused
    <3>2. Held(Expand(d))
      <4>0. /\ Expand(d) \in Volume /\ (d.large => Expand(d) = d)
            /\ ~ d.large => Expand(d) = Directory(EmptyRoot(0), TRUE, [d.node EXCEPT ![0] = Leaf(<< >>)],
                                      d.used \cup {0}, d.owned, d.free)
        BY <1>1, ExpandFacts
      <4>1. CASE d.large
        BY <4>0, <4>1
      <4>2. CASE ~ d.large
        <5>1. Expand(d).root = EmptyRoot(0)
          BY <4>0, <4>2 DEF Directory
        <5>2. Expand(d).root.keys = << >>
          BY <5>1 DEF EmptyRoot
        <5> QED BY <5>2, HeldEmpty
      <4> QED BY <4>1, <4>2
    <3> QED BY <2>0, <3>1, <3>2
  <2>2. CASE ~ (RootFull(Expand(d), k) /\ NoBlock(Expand(d)))
    <3>1. InsertLarge(d, k).dir = IF Outcome(d, k).how = "done" THEN Outcome(d, k).dir ELSE LeftBy(d, k)
      BY <2>2, <1>1, InsertLargeFacts
    <3>2. Held(Outcome(d, k).dir) /\ Held(LeftBy(d, k))
      BY <2>2, <1>1, HeldLarge
    <3> QED BY <2>0, <3>1, <3>2
  <2> QED BY <2>1, <2>2
<1>2. CASE ~ (d.owned > 0)
  <2>0. InsertEntry(d, k) = InsertSmall(d, k) /\ d.owned = 0
    BY <1>0, <1>2 DEF InsertEntry
  <2>1. CASE Has(d.root, k)
    <3>1. InsertSmall(d, k) = Exists(d)
      BY <2>0, <2>1, InsertSmallFacts
    <3>2. InsertSmall(d, k).dir = d
      BY <3>1 DEF Exists
    <3> QED BY <2>0, <3>2
  <2>2. CASE ~ Has(d.root, k) /\ Width(RootKeys(d, k)) <= RootRoom
    <3>1. InsertSmall(d, k) = Done(RootWith(d, [keys |-> RootKeys(d, k), end |-> d.root.end]))
      BY <2>0, <2>2, InsertSmallFacts
    <3>2. InsertSmall(d, k).dir.root.keys = RootKeys(d, k)
      BY <3>1 DEF Done, RootWith, Directory
    <3> QED BY <2>0, <2>2, <3>2 DEF Held
  <2>3. CASE ~ Has(d.root, k) /\ ~ (Width(RootKeys(d, k)) <= RootRoom) /\ NoChunk(d)
    <3>1. InsertSmall(d, k) = Refused(d)
      BY <2>0, <2>3, InsertSmallFacts
    <3>2. InsertSmall(d, k).dir = d
      BY <3>1 DEF Refused
    <3> QED BY <2>0, <3>2
  <2>4. CASE ~ Has(d.root, k) /\ ~ (Width(RootKeys(d, k)) <= RootRoom) /\ ~ NoChunk(d)
    <3>1. InsertSmall(d, k) = Done(Directory(EmptyRoot(0), TRUE, [d.node EXCEPT ![0] = Leaf(RootKeys(d, k))],
                                                    {0}, 1, d.free - 1))
      BY <2>0, <2>4, InsertSmallFacts
    <3>2. InsertSmall(d, k).dir.root.keys = << >>
      BY <3>1 DEF Done, Directory, EmptyRoot
    <3> QED BY <2>0, <3>2, HeldEmpty
  <2> QED BY <2>1, <2>2, <2>3, <2>4
<1> QED BY <1>1, <1>2

\* A block that nothing points to stays,
LEMMA UnhookNothing ==
  ASSUME NEW d \in Volume, NEW v \in Block, NEW r, r = Unhook(d, v), SlotOf(d.root, v) = {}, Hosts(d, v) = {}
  PROVE  r.dir = d
<1>1. PICK u : u = HostOf(d, v)
  OBVIOUS
<1>2. PICK n : n = NodeAt(d, u)
  OBVIOUS
<1>3. PICK i : i = HostSlot(d, v)
  OBVIOUS
<1>4. PICK e : e = Unhooked(d, v)
  OBVIOUS
<1>5. r = LeftWith(Done(d), None)
  BY <1>1, <1>2, <1>3, <1>4, UnhookFacts
<1> QED BY <1>5 DEF LeftWith, Done

\* a removal takes from the root or looks first whether a longer name fits, and
LEMMA HeldUnhook ==
  ASSUME NEW s \in Stage, Held(s.dir)
  PROVE  Held(UnhookNext(s).dir)
<1>0. s.dir \in Volume /\ s.next \in Block \cup {None}
  BY DEF Stage
<1>1. CASE s.next = None
  BY <1>1 DEF UnhookNext
<1>2. CASE s.next # None
  <2>1. PICK v \in Block : v = s.next
    BY <1>0, <1>2
  <2>2. PICK d \in Volume : d = s.dir
    BY <1>0
  <2>3. UnhookNext(s) = Unhook(d, v)
    BY <1>2, <2>1, <2>2 DEF UnhookNext
  <2>4. PICK u : u = HostOf(d, v)
    OBVIOUS
  <2>5. PICK n : n = NodeAt(d, u)
    OBVIOUS
  <2>6. PICK i : i = HostSlot(d, v)
    OBVIOUS
  <2>7. PICK e : e = Unhooked(d, v)
    OBVIOUS
  <2>8. PICK r : r = Unhook(d, v)
    OBVIOUS
  <2>10. CASE SlotOf(d.root, v) = {} /\ Hosts(d, v) = {}
    <3>1. r.dir = d
      BY <2>1, <2>2, <2>8, <2>10, UnhookNothing
    <3> QED BY <3>1, <2>2, <2>3, <2>8
  <2>11. CASE SlotOf(d.root, v) # {} \/ Hosts(d, v) # {}
    <3>0. UnhookTo(e, u, n, i, r)
      BY <2>1, <2>2, <2>4, <2>5, <2>6, <2>7, <2>8, <2>11, UnhookIs
    <3>1. u \in Block \cup {None} /\ n \in Node /\ i \in 1..(Len(n.keys) + 1)
      BY <2>11, <2>4, <2>5, <2>6, HostFacts
    <3>2. PICK m : m = Off(n, i)
      OBVIOUS
    <3>3. m \in Node
      BY <3>1, <3>2, OffFacts
    <3>4. PICK c : c = NodeWith(d, u, m)
      OBVIOUS
    <3>5. c \in Volume
      BY <3>1, <3>3, <3>4, NodeWithFacts
    <3>6. e = InUse(c, d.used \ {v})
      BY <2>4, <2>5, <2>6, <2>7, <3>2, <3>4 DEF Unhooked
    <3>7. e.root = c.root
      BY <3>6 DEF InUse, Directory
    <3>8. Held(c)
      <4>1. CASE u = None
        <5>1. c.root = m /\ n = d.root
          BY <4>1, <3>4, <2>5 DEF NodeWith, RootWith, Directory, NodeAt
        <5>2. Width(m.keys) <= RootRoom
          <6>1. CASE i <= Len(n.keys)
            <7>1. m = Without(n, i) /\ i \in 1..Len(n.keys)
              BY <6>1, <3>1, <3>2 DEF Off
            <7>2. Width(m.keys) \in Nat /\ Width(m.keys) <= Width(n.keys)
              BY <7>1, <3>1, WidthWithout
            <7>3. Width(n.keys) <= RootRoom
              BY <2>2, <5>1 DEF Held
            <7>4. Width(n.keys) \in Nat
              <8>1. n.keys \in Seq(Item)
                BY <3>1, NodeFacts
              <8> QED BY <8>1, WidthType
            <7> QED BY <7>2, <7>3, <7>4, SizeAssumption
          <6>2. CASE ~ (i <= Len(n.keys))
            <7>1. m.keys = n.keys
              BY <6>2, <3>1, <3>2 DEF Off, Node
            <7> QED BY <7>1, <2>2, <5>1 DEF Held
          <6> QED BY <6>1, <6>2
        <5> QED BY <5>1, <5>2 DEF Held
      <4>2. CASE u # None
        <5>1. c.root = d.root
          BY <4>2, <3>4 DEF NodeWith, Put, Directory
        <5> QED BY <5>1, <2>2 DEF Held
      <4> QED BY <4>1, <4>2
    <3>9. Held(e) /\ e \in Volume
      <4>1. d.used \ {v} \in SUBSET Block
        BY <2>2, VolumeFacts
      <4>2. e \in Volume
        BY <4>1, <3>5, <3>6, InUseFacts
      <4> QED BY <4>2, <3>7, <3>8 DEF Held
    <3>10. CASE i <= Len(n.keys)
      <4>1. n.keys \in Seq(Item) /\ i \in 1..Len(n.keys)
        BY <3>1, <3>10, NodeFacts
      <4>2. n.keys[i] \in Item
        BY <4>1
      <4>3. n.keys[i].key \in Key
        BY <4>2 DEF Item
      <4>4. r.dir = InsertEntry(e, n.keys[i].key).dir
        BY <3>0, <3>10 DEF UnhookTo, LeftWith
      <4>5. Held(r.dir)
        BY <4>3, <4>4, <3>9, HeldInsert
      <4> QED BY <4>5, <2>3, <2>8
    <3>11. CASE ~ (i <= Len(n.keys))
      <4>1. r.dir = e
        BY <3>0, <3>11 DEF UnhookTo, LeftWith, Done
      <4> QED BY <4>1, <3>9, <2>3, <2>8
    <3> QED BY <3>10, <3>11
  <2> QED BY <2>10, <2>11
<1> QED BY <1>1, <1>2

LEMMA HeldDrop ==
  ASSUME NEW d \in Volume, Held(d), NEW v \in Block \cup {None}
  PROVE  Held(Dropped(d, v).dir)
<1>1. CASE v = None
  BY <1>1 DEF Dropped, Done
<1>2. CASE v # None
  <2>1. v \in Block /\ Dropped(d, v) = DropEmptyBlock(d, v)
    BY <1>2 DEF Dropped
  <2>2. PICK L \in [0..DropRounds -> Stage] :
           /\ L[0] = LeftWith(Done(d), v)
           /\ \A h \in 1..DropRounds : L[h] = UnhookNext(L[h - 1])
           /\ DropEmptyBlock(d, v) = L[DropRounds]
    BY <2>1, DropRoundsFacts
  <2>3. PICK N \in Nat : N = DropRounds
    BY DEF DropRounds
  <2> DEFINE D == {h \in 0..N : Held(L[h].dir)}
  <2>4. 0 \in D
    <3>1. L[0].dir = d
      BY <2>2 DEF LeftWith, Done
    <3> QED BY <3>1, <2>3
  <2>5. ASSUME NEW h \in 1..N, h - 1 \in D PROVE h \in D
    <3>1. h - 1 \in 0..N /\ h \in 0..N
      BY <2>3
    <3>2. L[h - 1] \in Stage /\ L[h] = UnhookNext(L[h - 1]) /\ Held(L[h - 1].dir)
      BY <3>1, <2>2, <2>3, <2>5
    <3>3. Held(L[h].dir)
      BY <3>2, HeldUnhook
    <3> QED BY <3>1, <3>3
  <2> HIDE DEF D
  <2>6. \A h \in 0..N : h \in D
    BY <2>4, <2>5, KeptByAll
  <2>7. Held(L[N].dir)
    BY <2>3, <2>6 DEF D
  <2> QED BY <2>1, <2>2, <2>3, <2>7
<1> QED BY <1>1, <1>2

\* a root of which a name is taken is no longer than the record.
LEMMA HeldTaken ==
  ASSUME NEW d \in Volume, Held(d), NEW n \in Node, n = d.root, NEW k \in Key, Has(n, k),
         NEW r, r = TakeKey(d, n, k, RootRoom), r.how = "done"
  PROVE  Width(r.node.keys) <= RootRoom
<1>1. PICK i : i = Slot(n, k)
  OBVIOUS
<1>2. PICK v : v = n.keys[i].sub
  OBVIOUS
<1>3. PICK x : x = ExtractMaxKey(d, v)
  OBVIOUS
<1>4. /\ i \in 1..Len(n.keys) /\ v \in Sub /\ x \in Extract(d)
      /\ v = None => r = Kept(d, Without(n, i), None)
      /\ v # None /\ x.how = "none" => r = Kept(FreeSubtree(d, v), Without(n, i), None)
      /\ v # None /\ x.how = "unsupported" => r = Unsupported(x.dir)
      /\ v # None /\ x.how = "done" =>
              \/ Width(Rekeyed(n, i, x.key).keys) > RootRoom /\ r = Unsupported(x.dir)
              \/ ~ (Width(Rekeyed(n, i, x.key).keys) > RootRoom) /\ r = Kept(x.dir, Rekeyed(n, i, x.key), x.emptied)
  BY <1>1, <1>2, <1>3, TakeKeyFacts
<1>5. PICK m : m = Without(n, i)
  OBVIOUS
<1>6. Width(m.keys) <= RootRoom
  <2>1. Width(m.keys) \in Nat /\ Width(m.keys) <= Width(n.keys)
    BY <1>4, <1>5, WidthWithout
  <2>2. n.keys \in Seq(Item)
    BY NodeFacts
  <2>3. Width(n.keys) \in Nat
    BY <2>2, WidthType
  <2>4. Width(n.keys) <= RootRoom
    BY DEF Held
  <2> QED BY <2>1, <2>3, <2>4, SizeAssumption
<1>7. CASE v = None
  <2>1. r.node = m
    BY <1>4, <1>5, <1>7 DEF Kept
  <2> QED BY <2>1, <1>6
<1>8. CASE v # None /\ x.how = "none"
  <2>1. r.node = m
    BY <1>4, <1>5, <1>8 DEF Kept
  <2> QED BY <2>1, <1>6
<1>9. CASE v # None /\ x.how = "unsupported"
  <2>1. r.how = "unsupported"
    BY <1>4, <1>9 DEF Unsupported
  <2> QED BY <2>1
<1>10. CASE v # None /\ x.how = "done"
  <2>1. PICK p : p = Rekeyed(n, i, x.key)
    OBVIOUS
  <2>2. \/ Width(p.keys) > RootRoom /\ r.how = "unsupported"
        \/ ~ (Width(p.keys) > RootRoom) /\ r.node = p
    BY <1>4, <1>10, <2>1 DEF Kept, Unsupported
  <2>3. ~ (Width(p.keys) > RootRoom) /\ r.node = p
    BY <2>2
  <2>4. p \in Node
    <3>1. x.key \in Key
      BY <1>4, <1>10, TakenFacts, ExtractFacts
    <3> QED BY <3>1, <2>1, <1>4, RekeyedFacts
  <2>5. p.keys \in Seq(Item)
    BY <2>4, NodeFacts
  <2>6. Width(p.keys) \in Nat
    BY <2>5, WidthType
  <2> QED BY <2>3, <2>6, SizeAssumption
<1>11. x.how \in {"none", "unsupported", "done"}
  BY <1>4, ExtractFacts
<1> QED BY <1>7, <1>8, <1>9, <1>10, <1>11

LEMMA HeldRemove ==
  ASSUME NEW d \in Volume, NEW k \in Key, Held(d)
  PROVE  Held(RemoveEntry(d, k).dir)
<1>1. PICK u : u = HolderOf(d, k)
  OBVIOUS
<1>2. PICK r : r = TakenFrom(d, k)
  OBVIOUS
<1>3. PICK q : q = RemoveEntry(d, k)
  OBVIOUS
<1>4. RemoveTo(d, k, u, r, q)
  BY <1>1, <1>2, <1>3, RemoveEntryFacts
<1>5. CASE ~ Has(d.root, k) /\ Holders(d, k) = {}
  <2>1. q.dir = d
    BY <1>4, <1>5 DEF RemoveTo
  <2> QED BY <2>1, <1>3
<1>6. CASE Has(d.root, k) \/ Holders(d, k) # {}
  <2>1. u \in Block \cup {None}
        /\ NodeAt(d, u) \in Node /\ Has(NodeAt(d, u), k)
    BY <1>1, <1>6, HolderFacts
  <2>2. PICK n \in Node : n = NodeAt(d, u)
    BY <2>1
  <2>3. r = TakeKey(d, n, k, RoomOf(u)) /\ Has(n, k)
    BY <1>1, <1>2, <2>1, <2>2 DEF TakenFrom
  <2>4. (r.how = "done" => r \in Keeping(d)) /\ (r.how # "done" => r.dir \in Pruned(d))
    BY <2>3, TakeKeyFacts
  <2>5. CASE r.how # "done"
    <3>1. q.dir = r.dir
      BY <1>4, <1>6, <2>5 DEF RemoveTo
    <3>2. r.dir.root = d.root
      BY <2>4, <2>5, PrunedFacts
    <3> QED BY <3>1, <3>2, <1>3 DEF Held
  <2>6. CASE r.how = "done"
    <3>1. r.dir \in Pruned(d) /\ r.node \in Node /\ r.emptied \in Block \cup {None}
      BY <2>4, <2>6 DEF Keeping
    <3>2. r.dir \in Volume /\ r.dir.root = d.root
      BY <3>1, PrunedFacts
    <3>3. PICK c : c = NodeWith(r.dir, u, r.node)
      OBVIOUS
    <3>4. c \in Volume
      BY <2>1, <3>1, <3>2, <3>3, NodeWithFacts
    <3>5. Held(c)
      <4>1. CASE u = None
        <5>1. c.root = r.node /\ n = d.root /\ RoomOf(u) = RootRoom
          BY <4>1, <3>3, <2>2 DEF NodeWith, RootWith, Directory, NodeAt, RoomOf
        <5>2. Width(r.node.keys) <= RootRoom
          BY <5>1, <2>3, <2>6, HeldTaken
        <5> QED BY <5>1, <5>2 DEF Held
      <4>2. CASE u # None
        <5>1. c.root = r.dir.root
          BY <4>2, <3>3 DEF NodeWith, Put, Directory
        <5> QED BY <5>1, <3>2 DEF Held
      <4> QED BY <4>1, <4>2
    <3>6. PICK y : y = EmptiedBy(d, k)
      OBVIOUS
    <3>7. y \in Block \cup {None}
      BY <3>1, <3>6, <2>1, <1>1, <1>2 DEF EmptiedBy
    <3>8. Held(Dropped(c, y).dir) /\ Dropped(c, y).dir \in Volume
      BY <3>4, <3>5, <3>7, HeldDrop, DroppedFacts
    <3>9. q.dir = Collapse(Dropped(c, y).dir)
      <4>1. q = GoneWith(Dropped(NodeWith(r.dir, u, r.node), EmptiedBy(d, k)))
        BY <1>4, <1>6, <2>6 DEF RemoveTo
      <4> QED BY <4>1, <3>3, <3>6 DEF GoneWith
    <3>10. PICK b \in Volume : b = Dropped(c, y).dir
      BY <3>8
    <3>11. Held(Collapse(b))
      <4>1. CASE Foldable(b)
        <5>1. Collapse(b) = Folded(b)
          BY <4>1, CollapseFacts
        <5>2. Collapse(b).root.keys = << >>
          BY <5>1 DEF Folded, Directory, Leaf
        <5> QED BY <5>2, HeldEmpty
      <4>2. CASE ~ Foldable(b)
        <5>1. Collapse(b) = b
          BY <4>2, CollapseFacts
        <5> QED BY <5>1, <3>8, <3>10
      <4> QED BY <4>1, <4>2
    <3> QED BY <3>9, <3>10, <3>11, <1>3
  <2> QED BY <2>5, <2>6
<1> QED BY <1>5, <1>6

\* The keys of the root never take more than the record can hold (NtfsRootInsertSep,
\* NtfsRemoveOneDirEntryByChild).
THEOREM RootFitsRecord == Spec => []Held(dir)
<1>1. Init => Held(dir)
  <2>1. Init => dir.root.keys = << >>
    BY DEF Init, Leaf
  <2> QED BY <2>1, HeldEmpty
<1>2. TypeInv /\ Held(dir) /\ [Next]_vars => Held(dir)'
  <2> SUFFICES ASSUME TypeInv, Held(dir), [Next]_vars PROVE Held(dir)'
    OBVIOUS
  <2>1. dir \in Volume
    BY DEF TypeInv
  <2>2. CASE UNCHANGED vars
    BY <2>2 DEF vars, Held
  <2>3. CASE Next
    <3>0. CASE Fill
      BY <3>0 DEF Fill, Held
    <3>1. SUFFICES ASSUME NEW k \in Key, InsertName(k) \/ RemoveName(k) PROVE Held(dir)'
      BY <2>3, <3>0 DEF Next
    <3>2. CASE InsertName(k)
      <4>1. dir' = InsertEntry(dir, k).dir
        BY <3>2 DEF InsertName, Call
      <4>2. Held(InsertEntry(dir, k).dir)
        BY <2>1, HeldInsert
      <4> QED BY <4>1, <4>2 DEF Held
    <3>3. CASE RemoveName(k)
      <4>1. dir' = RemoveEntry(dir, k).dir
        BY <3>3 DEF RemoveName, Call
      <4>2. Held(RemoveEntry(dir, k).dir)
        BY <2>1, HeldRemove
      <4> QED BY <4>1, <4>2 DEF Held
    <3> QED BY <3>1, <3>2, <3>3
  <2> QED BY <2>2, <2>3
<1>3. Spec => []TypeInv
  BY TypeInit, TypeNext, PTL DEF Spec
<1> QED BY <1>1, <1>2, <1>3, PTL DEF Spec

(***************************************************************************)
(* The blocks that can still be had.                                       *)
(***************************************************************************)
LEMMA SpareType ==
  ASSUME NEW d \in Volume, limit \in Nat
  PROVE  Spare(d) \in Nat /\ IsFiniteSet(0..(d.owned - 1) \ d.used)
<1>1. d.owned \in Nat /\ d.free \in Nat
  BY VolumeFacts
<1>2. 0 \in Int /\ d.owned - 1 \in Int
  BY <1>1
<1>3. IsFiniteSet(0..(d.owned - 1))
  BY <1>2, FS_Interval
<1>4. 0..(d.owned - 1) \ d.used \in SUBSET (0..(d.owned - 1))
  OBVIOUS
<1>5. IsFiniteSet(0..(d.owned - 1) \ d.used)
  BY <1>3, <1>4, FS_Subset
<1>6. PICK c : c = Cardinality(0..(d.owned - 1) \ d.used)
  OBVIOUS
<1>7. c \in Nat
  BY <1>5, <1>6, FS_CardinalityType
<1>8. Spare(d) = Fresh(d) + c
  BY <1>6 DEF Spare
<1>9. Fresh(d) \in Nat
  BY <1>1 DEF Fresh, NoChunk
<1> QED BY <1>5, <1>7, <1>8, <1>9

\* Without one nothing can be split,
LEMMA SpareNone ==
  ASSUME NEW d \in Volume, NoBlock(d)
  PROVE  Spare(d) = 0
<1>1. Fresh(d) = 0 /\ 0..(d.owned - 1) \ d.used = {}
  BY DEF NoBlock, Fresh
<1>2. Cardinality({}) = 0
  BY FS_EmptySet
<1>3. Spare(d) = 0 + 0
  BY <1>1, <1>2 DEF Spare
<1> QED BY <1>3

LEMMA SpareSame ==
  ASSUME NEW d, NEW e, e.used = d.used, e.owned = d.owned, e.free = d.free
  PROVE  Spare(e) = Spare(d)
BY DEF Spare, Fresh, NoChunk

\* and a block that is taken is one less at most, whether it was owned or not.
LEMMA SpareAlloc ==
  ASSUME NEW d \in Volume, ~ NoBlock(d), d.used \subseteq 0..(d.owned - 1), limit \in Nat,
         NEW e, e = AllocBlock(d)
  PROVE  Spare(d) <= Spare(e) + 1 /\ Spare(e) \in Nat
<1>1. PICK w : w = NewBlock(d)
  OBVIOUS
<1>2. /\ e \in Volume /\ w \in Block /\ w < e.owned /\ e.used = d.used \cup {w}
      /\ w \notin d.used /\ e.used \subseteq 0..(e.owned - 1)
      /\ e.owned >= d.owned /\ e.free <= d.free /\ e.owned + e.free = d.owned + d.free
  BY <1>1, AllocFacts
<1>3. /\ d.owned \in Nat /\ d.free \in Nat /\ e.owned \in Nat /\ e.free \in Nat
      /\ d = [root |-> d.root, large |-> d.large, node |-> d.node, used |-> d.used,
              owned |-> d.owned, free |-> d.free]
  BY <1>2, VolumeFacts
<1> DEFINE S == 0..(d.owned - 1) \ d.used
           T == 0..(e.owned - 1) \ e.used
<1>4. IsFiniteSet(S) /\ IsFiniteSet(T) /\ Spare(e) \in Nat
  BY <1>2, SpareType
<1>5. Cardinality(S) \in Nat /\ Cardinality(T) \in Nat
  <2> HIDE DEF S, T
  <2> QED BY <1>4, FS_CardinalityType
<1>6. Spare(d) = Fresh(d) + Cardinality(S) /\ Spare(e) = Fresh(e) + Cardinality(T)
  BY DEF Spare
<1>7. w \in Nat /\ w \in S \cup {d.owned} /\ \A y \in S : w <= y
  <2>1. S \cup {d.owned} \in SUBSET Nat
    BY <1>3
  <2>2. w = Min(S \cup {d.owned})
    BY <1>1 DEF NewBlock
  <2> HIDE DEF S
  <2>3. w \in S \cup {d.owned} /\ \A y \in S \cup {d.owned} : w <= y
    BY <2>1, <2>2, MinFacts
  <2> QED BY <2>1, <2>3
<1>8. CASE w < d.owned
  <2>1. e.owned = d.owned /\ e.free = d.free
    <3>1. e = [d EXCEPT !.used = @ \cup {w}]
      BY <1>1, <1>8 DEF AllocBlock
    <3> QED BY <3>1, <1>3
  <2>2. T = S \ {w}
    BY <2>1, <1>2
  <2>3. w \in S
    BY <1>3, <1>7, <1>8
  <2>4. Cardinality(T) = Cardinality(S) - 1
    <3> HIDE DEF S, T
    <3> QED BY <2>2, <2>3, <1>4, FS_RemoveElement
  <2>5. Fresh(e) = Fresh(d) /\ Fresh(d) \in Nat
    BY <2>1, <1>3 DEF Fresh, NoChunk
  <2> HIDE DEF S, T
  <2> QED BY <2>4, <2>5, <1>4, <1>5, <1>6
<1>9. CASE ~ (w < d.owned)
  <2>1. S = {} /\ w = d.owned
    <3>1. w = d.owned
      BY <1>3, <1>7, <1>9
    <3>2. S = {}
      <4>1. SUFFICES ASSUME NEW y \in S PROVE FALSE
        OBVIOUS
      <4>2. w <= y
        BY <1>7
      <4> QED BY <3>1, <4>2, <1>3
    <3> QED BY <3>1, <3>2
  <2>2. d.used = 0..(d.owned - 1)
    BY <2>1
  <2>3. T = (d.owned + 1)..(e.owned - 1)
    <3>1. e.used = 0..d.owned
      BY <2>1, <2>2, <1>2, <1>3
    <3> QED BY <3>1, <1>2, <1>3
  <2>4. d.owned < e.owned
    BY <2>1, <1>2
  <2>5. PICK a \in Int : a = d.owned + 1
    BY <1>3
  <2>6. PICK b \in Int : b = e.owned - 1
    BY <1>3
  <2>7. Cardinality(T) = IF a > b THEN 0 ELSE b - a + 1
    <3>1. T = a..b
      BY <2>3, <2>5, <2>6
    <3> HIDE DEF T
    <3> QED BY <3>1, FS_Interval
  <2>8. Cardinality(S) = 0
    <3> HIDE DEF S
    <3> QED BY <2>1, FS_EmptySet
  <2> HIDE DEF S, T
  <2>9. Cardinality(T) = e.owned - d.owned - 1
    BY <2>4, <2>5, <2>6, <2>7, <1>3
  <2>10. Fresh(d) <= Fresh(e) + (e.owned - d.owned) /\ Fresh(d) \in Nat /\ Fresh(e) \in Nat
    BY <1>2, <1>3 DEF Fresh, NoChunk
  <2>11. Spare(d) = Fresh(d) + 0 /\ Spare(e) = Fresh(e) + (e.owned - d.owned - 1)
    BY <2>8, <2>9, <1>6
  <2>12. Fresh(d) + 0 <= Fresh(e) + (e.owned - d.owned - 1) + 1
    BY <2>10, <1>3
  <2> QED BY <2>11, <2>12, <1>4
<1> QED BY <1>8, <1>9

\* A split takes one block.
Split1(d, r) ==
  /\ r.dir \in Volume /\ r.dir.used \subseteq 0..(r.dir.owned - 1)
  /\ Spare(d) <= Spare(r.dir) + 1
LEMMA SpareSplit ==
  ASSUME NEW d \in Volume, d.used \subseteq 0..(d.owned - 1), limit \in Nat, NEW v \in Block, NEW ord \in Seq(Item),
         NEW le \in Sub, NEW re \in Sub, Len(ord) >= 2, NEW r, r = SplitNode(d, v, ord, le, re)
  PROVE  /\ r.how \in {"refused", "split"}
         /\ r.how = "refused" => Spare(d) = 0
         /\ r.how = "split" => Split1(d, r)
<1>1. PICK half : half = Len(ord) \div 2
  OBVIOUS
<1>2. /\ r \in Result(d)
      /\ r.how # "split" => r = Refused(d) /\ (Len(ord) < 2 \/ NoBlock(d))
      /\ r.how = "split" => SplitAs(d, v, ord, le, re, half, r)
  BY <1>1, SplitFacts
<1>3. CASE r.how # "split"
  <2>1. r.how = "refused"
    BY <1>2, <1>3 DEF Refused
  <2>2. NoBlock(d)
    <3>1. PICK c \in Nat : c = Len(ord)
      OBVIOUS
    <3> QED BY <3>1, <1>2, <1>3
  <2> QED BY <2>1, <2>2, SpareNone
<1>4. CASE r.how = "split"
  <2>1. SplitAs(d, v, ord, le, re, half, r)
    BY <1>2, <1>4
  <2>2. PICK a : a = AllocBlock(d)
    OBVIOUS
  <2>3. ~ NoBlock(d)
    BY <2>1 DEF SplitAs
  <2>4. a.used \subseteq 0..(a.owned - 1)
    BY <2>2, <2>3, AllocFacts
  <2>5. Spare(d) <= Spare(a) + 1
    BY <2>2, <2>3, SpareAlloc
  <2>6. r.dir.used = a.used /\ r.dir.owned = a.owned /\ r.dir.free = a.free
    BY <2>1, <2>2 DEF SplitAs, Put, Directory
  <2>7. Spare(r.dir) = Spare(a)
    BY <2>6, SpareSame
  <2>8. r.dir \in Volume
    <3>1. r.dir \in Grown(d)
      BY <1>2, ResultFacts
    <3> QED BY <3>1, GrownFacts
  <2>9. Split1(d, r)
    BY <2>4, <2>5, <2>6, <2>7, <2>8 DEF Split1
  <2> QED BY <2>9, <1>4
<1> QED BY <1>3, <1>4

(***************************************************************************)
(* The height of the tree.                                                 *)
(***************************************************************************)
\* One level on.
Higher(d, w, b) == IF w \in Block THEN 1 + b[d.node[w].end] ELSE 0
LEMMA HigherFacts ==
  ASSUME NEW d \in Volume, NEW b \in [Sub -> Nat], NEW w \in Sub
  PROVE  Higher(d, w, b) \in Nat
<1>1. CASE w \in Block
  <2>1. d.node[w] \in Node
    BY <1>1, VolumeFacts
  <2>2. d.node[w].end \in Sub
    BY <2>1, NodeFacts
  <2>3. b[d.node[w].end] \in Nat
    BY <2>2
  <2> QED BY <1>1, <2>3 DEF Higher
<1>2. CASE w \notin Block
  BY <1>2 DEF Higher
<1> QED BY <1>1, <1>2

LEMMA HeightLevels ==
  ASSUME NEW d \in Volume
  PROVE  \E L \in [0..InsertLevels -> [Sub -> Nat]] :
           /\ \A w \in Sub : L[0][w] = 0
           /\ \A h \in 1..InsertLevels : \A w \in Sub : L[h][w] = Higher(d, w, L[h - 1])
           /\ Height(d) = L[InsertLevels][d.root.end]
<1> DEFINE D == [Sub -> Nat]
           f == [b \in D |-> [w \in Sub |-> Higher(d, w, b)]]
           a == [w \in Sub |-> 0]
           F(l) == [h \in 0..InsertLevels |->
                      [v \in Sub |-> IF h > 0 /\ v \in Block THEN 1 + l[h - 1][d.node[v].end] ELSE 0]]
<1>1. InsertLevels \in Nat
  BY DEF InsertLevels
<1>2. a \in D
  OBVIOUS
<1>3. f \in [D -> D]
  <2>1. ASSUME NEW b \in D PROVE [w \in Sub |-> Higher(d, w, b)] \in D
    <3>1. \A w \in Sub : Higher(d, w, b) \in Nat
      BY HigherFacts
    <3> QED BY <3>1
  <2> QED BY <2>1
<1>4. PICK W \in [0..InsertLevels -> D] : W[0] = a /\ \A h \in 1..InsertLevels : W[h] = f[W[h - 1]]
  <2> HIDE DEF D, f, a
  <2>1. \E W : Follows(W, InsertLevels, D, f, a)
    BY <1>1, <1>2, <1>3, Iterates, Zenon
  <2> QED BY <2>1 DEF Follows
<1>5. \A h \in 1..InsertLevels : h - 1 \in 0..InsertLevels /\ h # 0 /\ h > 0
  BY <1>1
<1>6. \A h \in 1..InsertLevels : W[h] = [w \in Sub |-> Higher(d, w, W[h - 1])]
  BY <1>4, <1>5
<1>7. W = F(W)
  <2>1. ASSUME NEW h \in 0..InsertLevels
        PROVE  W[h] = [v \in Sub |-> IF h > 0 /\ v \in Block THEN 1 + W[h - 1][d.node[v].end] ELSE 0]
    <3>1. CASE h = 0
      BY <1>4, <3>1
    <3>2. CASE h # 0
      <4>1. h \in 1..InsertLevels /\ h > 0
        BY <1>1, <3>2
      <4> QED BY <1>6, <3>2, <4>1 DEF Higher
    <3> QED BY <3>1, <3>2
  <2> QED BY <1>4, <2>1
<1>8. PICK L : L = CHOOSE l : l = F(l)
  OBVIOUS
<1>9. L = F(L)
  <2> HIDE DEF F
  <2> QED BY <1>7, <1>8
<1>10. Height(d) = L[InsertLevels][d.root.end]
  BY <1>8 DEF Height
<1>11. L[0] = a
  BY <1>1, <1>9
<1>12. ASSUME NEW h \in 1..InsertLevels PROVE L[h] = [w \in Sub |-> Higher(d, w, L[h - 1])]
  <2>1. h \in 0..InsertLevels /\ h # 0 /\ h > 0
    BY <1>1
  <2>2. L[h] = [v \in Sub |-> IF h > 0 /\ v \in Block THEN 1 + L[h - 1][d.node[v].end] ELSE 0]
    BY <1>9, <2>1
  <2> QED BY <2>1, <2>2 DEF Higher
<1>13. \A h \in 0..InsertLevels : L[h] \in D
  <2> DEFINE G == {h \in 0..InsertLevels : L[h] \in D}
  <2>1. 0 \in G
    BY <1>1, <1>2, <1>11
  <2>2. ASSUME NEW h \in 1..InsertLevels, h - 1 \in G PROVE h \in G
    <3>1. L[h - 1] \in D
      BY <2>2
    <3>2. L[h] = f[L[h - 1]]
      BY <1>12, <3>1
    <3>3. h \in 0..InsertLevels
      BY <1>1
    <3> QED BY <1>3, <3>1, <3>2, <3>3
  <2> HIDE DEF G
  <2>3. \A h \in 0..InsertLevels : h \in G
    BY <1>1, <2>1, <2>2, KeptByAll
  <2> QED BY <2>3 DEF G
<1>14. L \in [0..InsertLevels -> D]
  <2>1. L = [h \in 0..InsertLevels |-> L[h]]
    BY <1>9
  <2> QED BY <1>13, <2>1
<1> HIDE DEF F, f
<1>15. \A w \in Sub : L[0][w] = 0
  BY <1>11
<1>16. \A h \in 1..InsertLevels : \A w \in Sub : L[h][w] = Higher(d, w, L[h - 1])
  BY <1>12
<1> HIDE DEF a
<1> QED BY <1>10, <1>14, <1>15, <1>16

\* A root that has a last child leads to the tree.
LEMMA RootEnd ==
  ASSUME NEW d, NEW g, Tree(d, -1, g), d.root.end # None, NEW c, c = d.root.end
  PROVE  c \in d.used /\ g.lev[c] + 1 = g.lev[None]
<1>1. None \in InTree(d) /\ None \in Place /\ \A u \in Place : NodeAt(d, u) \in Node
  BY TreeFacts DEF Place
<1>2. PICK n : n = d.root
  OBVIOUS
<1>3. n = NodeAt(d, None) /\ n \in Node
  BY <1>1, <1>2 DEF NodeAt
<1>4. Fits(d, -1, g, None) /\ g.lev[None] > 0
  BY <1>1 DEF Tree
<1>5. None # -1
  BY ConstFacts
<1>6. \A i \in Slots(n) : Child(d, g, None, i) \/ Stump(d, None, i)
  BY <1>3, <1>4, <1>5 DEF Fits
<1>7. PICK j : j = Len(n.keys) + 1
  OBVIOUS
<1>8. Len(n.keys) \in Nat
  BY <1>3, NodeFacts
<1>9. j \in Slots(n) /\ SubAt(n, j) = c
  BY <1>2, <1>7, <1>8 DEF Slots, SubAt
<1>10. ~ Stump(d, None, j)
  BY <1>2, <1>3, <1>9 DEF Stump
<1>11. Child(d, g, None, j)
  BY <1>6, <1>9, <1>10
<1> QED BY <1>3, <1>9, <1>11 DEF Child

\* The labels of a tree give its height.
LEMMA TreeHeight ==
  ASSUME NEW d, NEW g, Tree(d, -1, g), Whole(d), d.root.end # None, g.lev[None] <= InsertLevels
  PROVE  Height(d) = g.lev[None]
<1>1. /\ d \in Volume /\ None \in InTree(d) /\ d.used \subseteq Block
      /\ (\A u \in d.used : u \in InTree(d) /\ u # None)
      /\ (\A u \in Place : g.lev[u] \in Nat /\ NodeAt(d, u) \in Node)
  BY TreeFacts
<1>2. PICK L \in [0..InsertLevels -> [Sub -> Nat]] :
        /\ \A w \in Sub : L[0][w] = 0
        /\ \A h \in 1..InsertLevels : \A w \in Sub : L[h][w] = Higher(d, w, L[h - 1])
        /\ Height(d) = L[InsertLevels][d.root.end]
  BY <1>1, HeightLevels
<1>3. PICK N \in Nat : N = InsertLevels
  BY DEF InsertLevels
<1>4. \A u \in d.used : u \in Sub /\ u \in Place /\ u \in Block
  BY <1>1, ConstFacts DEF Place
<1>5. None \in Sub /\ None \notin Block /\ None \in Place
  BY ConstFacts DEF Place
<1>6. \A h \in 0..N : L[h][None] = 0
  <2> SUFFICES ASSUME NEW h \in 0..N PROVE L[h][None] = 0
    OBVIOUS
  <2>1. CASE h = 0
    BY <2>1, <1>2, <1>5
  <2>2. CASE h # 0
    <3>1. h \in 1..InsertLevels
      BY <2>2, <1>3
    <3>2. L[h][None] = Higher(d, None, L[h - 1])
      BY <3>1, <1>2, <1>5
    <3> QED BY <3>2, <1>5 DEF Higher
  <2> QED BY <2>1, <2>2
<1> DEFINE D == {h \in 0..N : \A v \in d.used : g.lev[v] < h => L[h][v] = g.lev[v] + 1}
<1>7. 0 \in D
  <2>1. ASSUME NEW v \in d.used PROVE ~ (g.lev[v] < 0)
    <3>1. g.lev[v] \in Nat
      BY <1>1, <1>4
    <3> QED BY <3>1
  <2> QED BY <2>1
<1>8. ASSUME NEW h \in 1..N, h - 1 \in D PROVE h \in D
  <2>1. ASSUME NEW v \in d.used, g.lev[v] < h PROVE L[h][v] = g.lev[v] + 1
    <3>1. PICK n : n = d.node[v]
      OBVIOUS
    <3>2. PICK c : c = n.end
      OBVIOUS
    <3>3. L[h][v] = 1 + L[h - 1][c]
      <4>1. h \in 1..InsertLevels
        BY <1>3
      <4>2. L[h][v] = Higher(d, v, L[h - 1])
        BY <4>1, <1>2, <1>4
      <4> QED BY <4>2, <3>1, <3>2, <1>4 DEF Higher
    <3>4. g.lev[v] \in Nat /\ h - 1 \in 0..N
      BY <1>1, <1>4
    <3>5. CASE g.lev[v] = 0
      <4>1. c = None
        BY <3>5, <3>1, <3>2, LeafBare
      <4>2. L[h - 1][c] = 0
        BY <4>1, <3>4, <1>6
      <4> QED BY <4>2, <3>3, <3>5
    <3>6. CASE g.lev[v] # 0
      <4>1. c \in d.used /\ g.lev[c] + 1 = g.lev[v]
        BY <3>1, <3>2, <3>6, EndFacts
      <4>2. g.lev[c] \in Nat
        BY <4>1, <1>1, <1>4
      <4>3. g.lev[c] < h - 1
        BY <4>1, <4>2, <3>4, <2>1
      <4>4. L[h - 1][c] = g.lev[c] + 1
        BY <4>1, <4>3, <1>8
      <4> QED BY <4>1, <4>2, <4>4, <3>3, <3>4
    <3> QED BY <3>5, <3>6
  <2>2. h \in 0..N
    OBVIOUS
  <2> QED BY <2>1, <2>2
<1> HIDE DEF D
<1>9. \A h \in 0..N : h \in D
  BY <1>7, <1>8, KeptByAll
<1>10. \A v \in d.used : g.lev[v] < N => L[N][v] = g.lev[v] + 1
  <2>1. N \in D
    BY <1>9
  <2> QED BY <2>1 DEF D
<1>11. PICK c : c = d.root.end
  OBVIOUS
<1>12. c \in d.used /\ g.lev[c] + 1 = g.lev[None]
  BY <1>11, RootEnd
<1>13. g.lev[c] < N /\ g.lev[c] \in Nat
  <2>1. g.lev[c] \in Nat /\ g.lev[None] \in Nat
    BY <1>1, <1>4, <1>5, <1>12
  <2> QED BY <2>1, <1>3, <1>12
<1>14. L[N][c] = g.lev[c] + 1
  BY <1>10, <1>12, <1>13
<1> QED BY <1>2, <1>3, <1>11, <1>12, <1>14

\* Every block of a tree can be read,
LEMMA TreeReadable ==
  ASSUME NEW d, NEW g, Tree(d, -1, g), Whole(d), NEW v \in d.used
  PROVE  Readable(d, v)
<1>1. d \in Volume /\ v \in Block /\ v \in InTree(d) /\ v # None /\ v # -1
  BY TreeFacts, ConstFacts
<1>2. PICK n : n = d.node[v]
  OBVIOUS
<1>3. CASE g.lev[v] = 0
  <2>1. Fits(d, -1, g, v) /\ NodeAt(d, v) = n
    BY <1>1, <1>2 DEF Tree, NodeAt
  <2>2. n.keys # << >>
    BY <2>1, <1>1, <1>3 DEF Fits
  <2> QED BY <2>2, <1>1, <1>2, ReadableFacts
<1>4. CASE g.lev[v] # 0
  <2>1. PICK c : c = n.end
    OBVIOUS
  <2> QED BY <2>1, <1>2, <1>4, EndFacts
<1> QED BY <1>3, <1>4

\* and what is promoted is in the node.
LEMMA PromotedNode ==
  ASSUME NEW d, NEW n \in Node, NEW i \in 1..(Len(n.keys) + 1), NEW b \in Result(d), b.how = "split",
         NEW m, m = Promote(n, i, b.sep, b.right)
  PROVE  /\ m \in Node /\ m.keys # << >> /\ Len(m.keys) = Len(n.keys) + 1 /\ m.keys[i] = b.sep
         /\ b.sep \in Item /\ b.right \in Sub
<1>1. b.sep \in Item /\ b.right \in Block
  BY ResultFacts
<1>2. b.right \in Sub
  BY <1>1, ConstFacts
<1>3. m \in Node /\ Len(m.keys) = Len(n.keys) + 1 /\ m.keys[i] = b.sep
  BY <1>1, <1>2, PromoteFacts
<1>4. Len(n.keys) \in Nat
  BY NodeFacts
<1>5. m.keys # << >>
  <2>1. Len(m.keys) # 0
    BY <1>3, <1>4
  <2> QED BY <2>1
<1> QED BY <1>1, <1>2, <1>3, <1>5

(***************************************************************************)
(* What an insertion needs.                                                *)
(***************************************************************************)
\* A refusal below v means that there is no block for each level, and a split has
\* taken at most one from each.
Costs(d, l, r) ==
  /\ r.how = "refused" => Spare(d) <= l
  /\ r.how = "split" => /\ r.dir \in Volume /\ r.dir.used \subseteq 0..(r.dir.owned - 1)
                        /\ Spare(d) <= Spare(r.dir) + l + 1

LEMMA LeafCost ==
  ASSUME NEW d, NEW g, Tree(d, -1, g), NEW v \in d.used, g.lev[v] = 0, NEW k \in Key,
         limit \in Nat, NEW r, r = InsertLeaf(d, v, k)
  PROVE  Costs(d, 0, r)
<1>1. d \in Volume /\ v \in Block
  BY TreeFacts
<1>2. d.used \subseteq 0..(d.owned - 1)
  BY DEF Tree
<1>3. PICK n : n = d.node[v]
  OBVIOUS
<1>4. n \in Node /\ n = NodeAt(d, v)
  BY <1>3, LeafBare
<1>5. n.keys # << >>
  <2>1. Fits(d, -1, g, v)
    BY DEF Tree, InTree
  <2>2. v # -1
    BY <1>1, ConstFacts
  <2> QED BY <2>1, <2>2, <1>4 DEF Fits
<1>6. PICK ord : ord = WithKey(d, v, k)
  OBVIOUS
<1>7. /\ ord \in Seq(Item) /\ Len(ord) = Len(n.keys) + 1
      /\ LeafFits(d, v, k) => r = Done(Put(d, v, [keys |-> ord, end |-> d.node[v].end]))
      /\ ~ LeafFits(d, v, k) => r = SplitNode(d, v, ord, None, None)
  BY <1>1, <1>3, <1>6, InsertLeafFacts
<1>8. Len(ord) >= 2
  <2>1. Len(n.keys) \in Nat /\ n.keys \in Seq(Item)
    BY <1>4, NodeFacts
  <2>2. Len(n.keys) # 0
    BY <2>1, <1>5
  <2> QED BY <2>1, <2>2, <1>7
<1>9. CASE LeafFits(d, v, k)
  <2>1. r.how = "done"
    BY <1>7, <1>9 DEF Done
  <2> QED BY <2>1 DEF Costs
<1>10. CASE ~ LeafFits(d, v, k)
  <2>1. r = SplitNode(d, v, ord, None, None) /\ None \in Sub
    BY <1>7, <1>10, ConstFacts
  <2>2. /\ r.how = "refused" => Spare(d) = 0
        /\ r.how = "split" => Split1(d, r)
    BY <2>1, <1>1, <1>2, <1>7, <1>8, SpareSplit
  <2>3. r.how = "split" => Spare(r.dir) \in Nat
    BY <2>2, SpareType DEF Split1
  <2> QED BY <2>2, <2>3 DEF Costs, Split1
<1> QED BY <1>9, <1>10

LEMMA InnerCost ==
  ASSUME NEW d \in Volume, NEW v \in Block, NEW l \in Nat, NEW b \in Result(d), Costs(d, l, b), b.how = "split",
         limit \in Nat, NEW m \in Node, m.keys # << >>, NEW r,
         \/ Width(m.keys) <= BlockRoom /\ r = Done(Put(b.dir, v, m))
         \/ ~ (Width(m.keys) <= BlockRoom) /\ r = Overflow(b.dir, v, m)
  PROVE  Costs(d, l + 1, r)
<1>1. PICK f : f = b.dir
  OBVIOUS
<1>2. f \in Volume /\ f.used \subseteq 0..(f.owned - 1) /\ Spare(d) <= Spare(f) + l + 1
  BY <1>1 DEF Costs
<1>3. Spare(f) \in Nat /\ Spare(d) \in Nat
  BY <1>2, SpareType
<1>4. CASE Width(m.keys) <= BlockRoom
  <2>1. r.how = "done"
    BY <1>4 DEF Done
  <2> QED BY <2>1 DEF Costs
<1>5. CASE ~ (Width(m.keys) <= BlockRoom)
  <2>1. Len(m.keys) >= 3
    BY <1>5, WideFacts
  <2>2. m.keys \in Seq(Item) /\ m.end \in Sub /\ Len(m.keys) \in Nat
    BY NodeFacts
  <2>3. PICK half : half = Len(m.keys) \div 2
    OBVIOUS
  <2>4. half + 1 \in 1..Len(m.keys)
    <3>1. Len(m.keys) >= 1
      BY <2>1, <2>2
    <3> QED BY <3>1, <2>2, <2>3, HalfFacts
  <2>5. m.keys[half + 1] \in Item
    BY <2>2, <2>4
  <2>6. PICK le \in Sub : le = m.keys[half + 1].sub
    BY <2>5 DEF Item
  <2>7. r = SplitNode(f, v, m.keys, le, m.end)
    BY <1>1, <1>5, <2>3, <2>6 DEF Overflow
  <2>8. Len(m.keys) >= 2
    BY <2>1, <2>2
  <2>9. /\ r.how = "refused" => Spare(f) = 0
        /\ r.how = "split" => Split1(f, r)
    BY <2>2, <2>6, <2>7, <2>8, <1>2, SpareSplit
  <2>10. r.how = "refused" => Spare(d) <= l + 1
    BY <2>9, <1>2, <1>3
  <2>11. r.how = "split" => Spare(d) <= Spare(r.dir) + (l + 1) + 1
    <3>1. SUFFICES ASSUME r.how = "split" PROVE Spare(d) <= Spare(r.dir) + (l + 1) + 1
      OBVIOUS
    <3>2. r.dir \in Volume /\ Spare(f) <= Spare(r.dir) + 1
      BY <3>1, <2>9 DEF Split1
    <3>3. Spare(r.dir) \in Nat
      BY <3>2, SpareType
    <3> QED BY <3>2, <3>3, <1>2, <1>3
  <2> QED BY <2>9, <2>10, <2>11 DEF Costs, Split1
<1> QED BY <1>4, <1>5

\* What the levels of an insertion are (NtfsBtreeInsertRec).
Walks(d, k, L) ==
  /\ L \in [0..InsertLevels -> [Sub -> Result(d)]]
  /\ \A w \in Sub : L[0][w] = Refused(d)
  /\ \A h \in 1..InsertLevels : \A w \in Sub : L[h][w] = InsertNode(d, w, k, L[h - 1])
  /\ \A w \in Sub : InsertRec(d, w, k) = L[InsertLevels][w]

LEMMA CostWalk ==
  ASSUME NEW d, NEW g, Tree(d, -1, g), Whole(d), limit \in Nat, NEW k \in Key, NEW L, Walks(d, k, L)
  PROVE  \A h \in 0..InsertLevels : \A w \in d.used :
           Between(k, g.lo[w], g.hi[w]) /\ g.lev[w] < h => Costs(d, g.lev[w], L[h][w])
<1>1. /\ d \in Volume /\ InTree(d) \subseteq Place /\ d.used \subseteq Block
      /\ (\A u \in d.used : u \in InTree(d) /\ u # None)
      /\ (\A u \in Place : g.lev[u] \in Nat /\ NodeAt(d, u) \in Node)
  BY TreeFacts
<1>2. /\ L \in [0..InsertLevels -> [Sub -> Result(d)]]
      /\ \A h \in 1..InsertLevels : \A w \in Sub : L[h][w] = InsertNode(d, w, k, L[h - 1])
  BY DEF Walks
<1>3. PICK N \in Nat : N = InsertLevels
  BY DEF InsertLevels
<1> DEFINE D == {h \in 0..N : \A w \in d.used : Between(k, g.lo[w], g.hi[w]) /\ g.lev[w] < h =>
                                                  Costs(d, g.lev[w], L[h][w])}
<1>4. \A u \in d.used : u \in Sub /\ u \in Place /\ u \in Block
  BY <1>1, ConstFacts DEF Place
<1>5. 0 \in D
  <2>1. ASSUME NEW v \in d.used PROVE ~ (g.lev[v] < 0)
    <3>1. g.lev[v] \in Nat
      BY <1>1, <1>4
    <3> QED BY <3>1
  <2> QED BY <2>1
<1>6. ASSUME NEW h \in 1..N, h - 1 \in D PROVE h \in D
  <2>1. PICK B \in [Sub -> Result(d)] : B = L[h - 1]
    BY <1>2, <1>3
  <2>2. \A w \in Sub : L[h][w] = InsertNode(d, w, k, B)
    BY <2>1, <1>2, <1>3
  <2>3. ASSUME NEW w \in d.used, Between(k, g.lo[w], g.hi[w]), g.lev[w] < h
        PROVE  Costs(d, g.lev[w], L[h][w])
    <3>1. PICK y : y = L[h][w]
      OBVIOUS
    <3>2. y = InsertNode(d, w, k, B) /\ w \in Sub /\ w \in InTree(d) /\ w \in Block
      BY <3>1, <2>2, <1>1, <1>4
    <3>3. Readable(d, w)
      BY TreeReadable
    <3>4. PICK n : n = d.node[w]
      OBVIOUS
    <3>5. PICK i : i = Slot(n, k)
      OBVIOUS
    <3>6. PICK b : b = B[SubAt(n, i)]
      OBVIOUS
    <3>7. PICK m : m = Promote(n, i, b.sep, b.right)
      OBVIOUS
    <3>8. /\ n \in Node /\ i \in 1..(Len(n.keys) + 1) /\ b \in Result(d) /\ y \in Result(d)
          /\ Has(n, k) => y = Exists(d)
          /\ ~ Has(n, k) /\ n.end = None => y = InsertLeaf(d, w, k)
          /\ ~ Has(n, k) /\ n.end # None /\ b.how # "split" => y = b
          /\ ~ Has(n, k) /\ n.end # None /\ b.how = "split" =>
               \/ Width(m.keys) <= BlockRoom /\ y = Done(Put(b.dir, w, m))
               \/ ~ (Width(m.keys) <= BlockRoom) /\ y = Overflow(b.dir, w, m)
      BY <3>2, <3>3, <3>4, <3>5, <3>6, <3>7, <1>1, InsertNodeFacts
    <3>9. n = NodeAt(d, w)
      BY <3>4, <1>1 DEF NodeAt
    <3>10. CASE Has(n, k)
      <4>1. y.how = "exists"
        BY <3>8, <3>10 DEF Exists
      <4> QED BY <4>1, <3>1 DEF Costs
    <3>11. CASE ~ Has(n, k) /\ g.lev[w] = 0
      <4>1. n.end = None
        BY <3>4, <3>11, LeafBare
      <4>2. y = InsertLeaf(d, w, k)
        BY <4>1, <3>8, <3>11
      <4>3. Costs(d, 0, y)
        BY <4>2, <3>11, LeafCost
      <4> QED BY <4>3, <3>1, <3>11
    <3>12. CASE ~ Has(n, k) /\ g.lev[w] # 0
      <4>1. g.lev[w] \in Nat /\ g.lev[w] > 0 /\ i \in Slots(n) /\ w # -1
        BY <3>8, <3>12, <1>1, <1>4, ConstFacts DEF Slots
      <4>2. n.end \in d.used
        BY <3>4, <3>12, EndFacts
      <4>3. n.end # None
        BY <4>2, <1>1
      <4>4. PICK c : c = SubAt(n, i)
        OBVIOUS
      <4>5. /\ c \in d.used /\ g.lev[c] + 1 = g.lev[w]
            /\ g.lo[c] = LoAt(n, g.lo[w], i) /\ g.hi[c] = HiAt(n, g.hi[w], i)
        <5>1. Child(d, g, w, i) \/ Stump(d, w, i)
          BY <4>1, <3>2, <3>9 DEF Tree, Fits
        <5>2. ~ Stump(d, w, i)
          <6>1. SUFFICES ASSUME Stump(d, w, i) PROVE FALSE
            OBVIOUS
          <6>2. i = Len(n.keys) + 1 /\ c = -1
            BY <6>1, <4>4, <3>9, <1>1 DEF Stump
          <6>3. Len(n.keys) \in Nat
            BY <3>8, NodeFacts
          <6>4. n.end = -1
            BY <6>2, <6>3, <4>4 DEF SubAt
          <6> QED BY <6>4, <4>2, <1>1, ConstFacts
        <5> QED BY <5>1, <5>2, <4>4, <3>9 DEF Child
      <4>6. Between(k, g.lo[c], g.hi[c])
        <5>1. Sorted(n, g.lo[w], g.hi[w]) /\ g.lo[w] \in Int /\ g.hi[w] \in Int
          BY <3>2, <3>9, KeyBetween
        <5>2. Between(k, LoAt(n, g.lo[w], i), HiAt(n, g.hi[w], i))
          BY <5>1, <3>5, <3>8, <3>12, <2>3, SlotBetween
        <5> QED BY <5>2, <4>5
      <4>7. PICK l \in Nat : l = g.lev[c]
        BY <4>5, <1>1, <1>4
      <4>8. l + 1 = g.lev[w] /\ l < h - 1
        BY <4>1, <4>5, <4>7, <2>3
      <4>9. Costs(d, l, b)
        BY <4>4, <4>5, <4>6, <4>7, <4>8, <3>6, <2>1, <1>6
      <4>10. CASE b.how = "split"
        <5>1. \/ Width(m.keys) <= BlockRoom /\ y = Done(Put(b.dir, w, m))
              \/ ~ (Width(m.keys) <= BlockRoom) /\ y = Overflow(b.dir, w, m)
          BY <4>10, <4>3, <3>8, <3>12
        <5>2. m \in Node /\ m.keys # << >>
          BY <4>10, <3>7, <3>8, PromotedNode
        <5>3. Costs(d, l + 1, y)
          BY <5>1, <5>2, <4>9, <4>10, <3>2, <3>8, <1>1, InnerCost
        <5> QED BY <5>3, <4>8, <3>1
      <4>11. CASE b.how # "split"
        <5>1. y = b
          BY <4>11, <4>3, <3>8, <3>12
        <5>2. b.how = "refused" => Spare(d) <= l
          BY <4>9 DEF Costs
        <5>3. Spare(d) \in Nat
          BY <1>1, SpareType
        <5>4. b.how = "refused" => Spare(d) <= g.lev[w]
          BY <5>2, <5>3, <4>8, <4>1
        <5> QED BY <5>1, <5>4, <4>11, <3>1 DEF Costs
      <4> QED BY <4>10, <4>11
    <3> QED BY <3>10, <3>11, <3>12
  <2>4. h \in 0..N
    OBVIOUS
  <2> QED BY <2>3, <2>4
<1> HIDE DEF D
<1>7. \A h \in 0..N : h \in D
  BY <1>5, <1>6, KeptByAll
<1> QED BY <1>3, <1>7 DEF D

(***************************************************************************)
(* What an insertion needs, at the root.                                   *)
(***************************************************************************)
\* The root of a tree leads to a block for every name that it does not have itself.
Leads(d, g, k, v) ==
  /\ v \in d.used /\ v \in Sub /\ g.par[v] = None /\ g.lev[v] \in Nat /\ g.lev[v] + 1 = g.lev[None]
  /\ Between(k, g.lo[v], g.hi[v])
LEMMA RootLeads ==
  ASSUME NEW d, NEW g, Tree(d, -1, g), d.root.end # None, NEW k \in Key, ~ Has(d.root, k),
         NEW v, v = SubAt(d.root, Slot(d.root, k))
  PROVE  Leads(d, g, k, v)
<1>1. /\ d \in Volume /\ None \in InTree(d) /\ NodeAt(d, None) = d.root /\ d.root \in Node /\ None \in Place
      /\ (\A u \in Place : g.lev[u] \in Nat) /\ None # -1
      /\ (\A u \in d.used : u \in Place /\ u \in Block /\ u \in Sub)
  <2>1. /\ d \in Volume /\ None \in InTree(d) /\ (\A u \in Place : g.lev[u] \in Nat)
        /\ \A u \in d.used : u \in Block
    BY TreeFacts
  <2>2. d.root \in Node
    BY <2>1, VolumeFacts
  <2> QED BY <2>1, <2>2, ConstFacts DEF NodeAt, Place
<1>2. PICK n \in Node : n = d.root
  BY <1>1
<1>3. PICK i : i = Slot(n, k)
  OBVIOUS
<1>4. i \in Slots(n) /\ v = SubAt(n, i) /\ Len(n.keys) \in Nat
  BY <1>2, <1>3, SlotFacts, NodeFacts DEF Slots
<1>5. g.lev[None] > 0 /\ g.lo[None] = -1 /\ g.hi[None] = -1 /\ Fits(d, -1, g, None)
  BY <1>1 DEF Tree
<1>6. Child(d, g, None, i)
  <2>1. Child(d, g, None, i) \/ Stump(d, None, i)
    BY <1>1, <1>2, <1>4, <1>5 DEF Fits
  <2>2. SubAt(n, Len(n.keys) + 1) = n.end
    BY <1>4 DEF SubAt
  <2>3. ~ Stump(d, None, i)
    BY <2>2, <1>1, <1>2, <1>4 DEF Stump
  <2> QED BY <2>1, <2>3
<1>7. v \in d.used /\ g.lev[v] + 1 = g.lev[None] /\ g.par[v] = None
      /\ g.lo[v] = LoAt(n, -1, i) /\ g.hi[v] = HiAt(n, -1, i)
  BY <1>1, <1>2, <1>4, <1>5, <1>6 DEF Child
<1>8. Between(k, g.lo[v], g.hi[v])
  <2>1. PICK a \in Int : a = -1
    OBVIOUS
  <2>2. Sorted(n, a, a) /\ Between(k, a, a)
    BY <2>1, <1>1, <1>2, <1>5, ConstFacts DEF Fits, Between
  <2>3. Between(k, LoAt(n, a, i), HiAt(n, a, i))
    BY <2>2, <1>2, <1>3, SlotBetween
  <2> QED BY <2>1, <2>3, <1>7
<1> QED BY <1>1, <1>7, <1>8 DEF Leads

LEMMA WalksExist ==
  ASSUME NEW d \in Volume, NEW k \in Key
  PROVE  \E L : Walks(d, k, L)
<1>1. PICK L \in [0..InsertLevels -> [Sub -> Result(d)]] :
        /\ \A w \in Sub : L[0][w] = Refused(d)
        /\ \A h \in 1..InsertLevels : \A w \in Sub : L[h][w] = InsertNode(d, w, k, L[h - 1])
        /\ \A w \in Sub : InsertRec(d, w, k) = L[InsertLevels][w]
  BY InsertRecLevels
<1> QED BY <1>1 DEF Walks

\* An insertion from the root down is refused below the root for want of blocks, and
\* what comes up is a name of the tree or the new one.
LEMMA WayCost ==
  ASSUME NEW d, NEW g, Tree(d, -1, g), Whole(d), d.root.end # None, g.lev[None] <= InsertLevels, limit \in Nat,
         NEW k \in Key, ~ Has(d.root, k), NEW v, v = SubAt(d.root, Slot(d.root, k)), NEW r, r = InsertRec(d, v, k)
  PROVE  /\ r \in Result(d)
         /\ r.how = "refused" => Spare(d) <= g.lev[None]
         /\ r.how = "split" => r.sep.key \in KeysIn(d) \cup {k}
<1>1. d \in Volume /\ d.root \in Node /\ None \in Place /\ NodeAt(d, None) = d.root
  <2>1. d \in Volume
    BY DEF Tree
  <2> QED BY <2>1, VolumeFacts DEF Place, NodeAt
<1>2. Leads(d, g, k, v)
  BY RootLeads
<1>3. /\ v \in d.used /\ v \in Sub /\ g.par[v] = None /\ Between(k, g.lo[v], g.hi[v])
      /\ g.lev[v] \in Nat /\ g.lev[v] + 1 = g.lev[None]
  BY <1>2 DEF Leads
<1>4. PICK L : Walks(d, k, L)
  BY <1>1, WalksExist
<1>5. PICK N \in Nat : N = InsertLevels
  BY DEF InsertLevels
<1>6. r = L[N][v] /\ r \in Result(d)
  <2>1. N \in 0..InsertLevels
    BY <1>5
  <2> QED BY <2>1, <1>3, <1>4, <1>5 DEF Walks
<1>7. Costs(d, g.lev[v], r)
  <2>1. g.lev[v] < N /\ N \in 0..InsertLevels
    BY <1>3, <1>5
  <2> QED BY <2>1, <1>3, <1>4, <1>6, CostWalk
<1>8. r.how = "refused" => Spare(d) <= g.lev[None]
  <2>1. Spare(d) \in Nat
    BY <1>1, SpareType
  <2>2. r.how = "refused" => Spare(d) <= g.lev[v]
    BY <1>7 DEF Costs
  <2> QED BY <2>1, <2>2, <1>3
<1>9. ASSUME r.how = "split" PROVE r.sep.key \in KeysIn(d) \cup {k}
  <2>1. Grew(d, g, v, k, r)
    BY <1>3, InsertWalk
  <2>2. PICK n \in Node : n = d.root
    BY <1>1
  <2>3. PICK i \in 1..(Len(n.keys) + 1) : SubAt(n, i) = v
    BY <2>2, SlotFacts
  <2>4. PICK m : m = Promote(n, i, r.sep, r.right)
    OBVIOUS
  <2>5. m \in Node /\ m.keys[i] = r.sep /\ Len(m.keys) = Len(n.keys) + 1 /\ r.sep \in Item
    BY <2>3, <2>4, <1>6, <1>9, PromotedNode
  <2>6. PICK e : e = NodeWith(r.dir, None, m)
    OBVIOUS
  <2>7. Gained(d, g, k, e)
    <3>1. \A j \in Slots(NodeAt(d, g.par[v])) : SubAt(NodeAt(d, g.par[v]), j) = v =>
            Gained(d, g, k, NodeWith(r.dir, g.par[v], Promote(NodeAt(d, g.par[v]), j, r.sep, r.right)))
      BY <2>1, <1>9 DEF Grew
    <3>2. NodeAt(d, g.par[v]) = n /\ i \in Slots(n)
      BY <2>2, <2>3, <1>1, <1>3 DEF Slots
    <3> QED BY <3>1, <3>2, <2>3, <2>4, <2>6, <1>3
  <2>8. KeysIn(e) = KeysIn(d) \cup {k}
    BY <2>7 DEF Gained
  <2>9. e.root = m
    BY <2>6 DEF NodeWith, RootWith, Directory
  <2>10. Has(m, r.sep.key)
    <3>1. DOMAIN m.keys = 1..Len(m.keys)
      BY <2>5, NodeFacts
    <3>2. Len(n.keys) \in Nat
      BY <2>2, NodeFacts
    <3>3. i \in DOMAIN m.keys
      BY <3>1, <3>2, <2>3, <2>5
    <3> QED BY <3>3, <2>5 DEF Has
  <2>11. r.sep.key \in Key
    BY <2>5 DEF Item
  <2>12. None \in InTree(e) /\ NodeAt(e, None) = m
    BY <2>9 DEF InTree, NodeAt
  <2>13. r.sep.key \in KeysIn(e)
    BY <2>10, <2>11, <2>12 DEF KeysIn
  <2> QED BY <2>8, <2>13
<1> QED BY <1>6, <1>8, <1>9

\* A root with room for the new name refuses only a separator that is longer.
LEMMA StayCost ==
  ASSUME NEW d, NEW g, Tree(d, -1, g), Whole(d), d.root.end # None, g.lev[None] <= InsertLevels, limit \in Nat,
         NEW k \in Key, ~ Has(d.root, k), ~ RootFull(d, k), NEW v, v = SubAt(d.root, Slot(d.root, k)), NEW r, r = InsertRec(d, v, k),
         NEW s, s = IF r.how = "split" THEN RootInsertSep(r, v) ELSE r, s.how = "refused"
  PROVE  Spare(d) <= g.lev[None] \/ \E j \in KeysIn(d) \cup {k} : TooLong(j, k)
<1>1. /\ r \in Result(d)
      /\ r.how = "refused" => Spare(d) <= g.lev[None]
      /\ r.how = "split" => r.sep.key \in KeysIn(d) \cup {k}
  BY WayCost
<1>2. CASE r.how # "split"
  BY <1>1, <1>2
<1>3. CASE r.how = "split"
  <2>1. d \in Volume /\ d.root \in Node
    <3>1. d \in Volume
      BY DEF Tree
    <3> QED BY <3>1, VolumeFacts
  <2>2. PICK n \in Node : n = d.root
    BY <2>1
  <2>3. PICK i \in 1..(Len(n.keys) + 1) : SubAt(n, i) = v
    BY <2>2, SlotFacts
  <2>4. PICK m : m = RootPromoted(r, v)
    OBVIOUS
  <2>5. s = IF Width(m.keys) <= RootRoom THEN Done(RootWith(r.dir, m)) ELSE Refused(r.dir)
    <3>1. s = RootInsertSep(r, v)
      BY <1>3
    <3> QED BY <3>1, <2>1, <2>2, <2>3, <2>4, <1>1, <1>3, RootInsertSepFacts
  <2>6. ~ (Width(m.keys) <= RootRoom)
    <3>1. Done(RootWith(r.dir, m)).how = "done"
      BY DEF Done
    <3> QED BY <3>1, <2>5
  <2>7. PICK x \in Item : x = r.sep
    BY <1>1, <1>3, ResultFacts
  <2>8. PICK w \in Sub : w = r.right
    BY <1>1, <1>3, ResultFacts, ConstFacts
  <2>9. PICK j : j = Min(SlotOf(n, v))
    OBVIOUS
  <2>10. j \in 1..(Len(n.keys) + 1)
    BY <2>3, <2>9, SlotOfFacts
  <2>11. m = Promote(n, j, x, w)
    <3>1. r.dir.root = n
      <4>1. r.dir \in Grown(d)
        BY <1>1, ResultFacts
      <4> QED BY <4>1, <2>1, <2>2, GrownFacts
    <3> QED BY <3>1, <2>4, <2>7, <2>8, <2>9 DEF RootPromoted
  <2>12. Width(n.keys) \in Nat /\ Size[x.key] \in Nat /\ Width(m.keys) = Width(n.keys) + Size[x.key]
    BY <2>10, <2>11, WidthPromote
  <2>13. n.keys = << >> \/ Width(n.keys) + Size[k] + Margin <= RootRoom
    <3>1. Size[k] \in Nat /\ Margin \in Nat /\ RootRoom \in Nat
      BY SizeAssumption
    <3>2. n.keys = << >> \/ ~ (RootRoom < Width(n.keys) + Size[k] + Margin)
      BY <2>2 DEF RootFull
    <3> QED BY <3>1, <3>2, <2>12
  <2>14. TooLong(x.key, k)
    <3>1. Size[k] \in Nat /\ Margin \in Nat /\ RootRoom \in Nat
      BY SizeAssumption
    <3>2. CASE n.keys = << >>
      <4>1. Width(n.keys) = 0
        BY <3>2, WidthNone
      <4> QED BY <4>1, <3>1, <2>6, <2>12 DEF TooLong
    <3>3. CASE Width(n.keys) + Size[k] + Margin <= RootRoom
      BY <3>1, <3>3, <2>6, <2>12 DEF TooLong
    <3> QED BY <3>2, <3>3, <2>13
  <2> QED BY <2>7, <2>14, <1>1, <1>3
<1> QED BY <1>2, <1>3

\* A root that moves to a block of its own is not split there again, and has taken
\* one block.
LEMMA PushCost ==
  ASSUME NEW d, NEW g, Tree(d, -1, g), Whole(d), Held(d), d.root.end # None, g.lev[None] < InsertLevels,
         limit \in Nat, NEW k \in Key, ~ NoBlock(d), NEW p, p = PushDownRoot(d),
         NEW v, v = SubAt(p.root, Slot(p.root, k)), NEW r, r = InsertRec(p, v, k)
  PROVE  v # None /\ r.how # "split" /\ (r.how = "refused" => Spare(d) <= g.lev[None])
<1>1. /\ d \in Volume /\ d.used \subseteq 0..(d.owned - 1) /\ d.used \subseteq Block
      /\ (\A u \in Place : g.lev[u] \in Nat) /\ None \in Place
  BY TreeFacts DEF Tree, Place
<1>2. PICK w : w = NewBlock(d)
  OBVIOUS
<1>3. PushedTo(d, p, w)
  BY <1>1, <1>2, PushedToFacts
<1>4. /\ p \in Volume /\ w \in Block \ d.used /\ p.used = d.used \cup {w}
      /\ p.root = EmptyRoot(w) /\ p.node[w] = Pushed(d.root)
      /\ \A u \in Block \ {w} : p.node[u] = d.node[u]
  BY <1>3 DEF PushedTo
<1>5. PICK h : Tree(p, -1, h) /\ h.lev[None] = g.lev[None] + 1
  BY <1>3, PushTree
<1>6. w \in Sub /\ w # None /\ None \notin Block /\ -1 \notin Block
  BY <1>4, ConstFacts
<1>7. p.root \in Node /\ p.root.keys = << >> /\ p.root.end = w
  BY <1>4, <1>6, EmptyRootFacts
<1>8. v = w /\ ~ Has(p.root, k)
  <2>1. Len(p.root.keys) = 0 /\ DOMAIN p.root.keys = {}
    BY <1>7
  <2>2. Slot(p.root, k) \in 1..(Len(p.root.keys) + 1)
    BY <1>7, SlotFacts
  <2>3. Slot(p.root, k) = 1
    BY <2>1, <2>2
  <2> QED BY <2>1, <2>3, <1>7 DEF SubAt, Has
<1>9. PICK n : n = d.root
  OBVIOUS
<1>10. n \in Node /\ n.end \in d.used /\ p.node[w] = n
  <2>1. n.end \in d.used
    BY <1>9, RootEnd
  <2>2. n \in Node
    BY <1>1, <1>9, VolumeFacts
  <2> QED BY <2>1, <2>2, <1>4, <1>9 DEF Pushed
<1>11. Whole(p)
  <2>1. SUFFICES ASSUME NEW u \in p.used PROVE ~ Cut(p.node[u])
    BY DEF Whole
  <2>2. CASE u = w
    <3>1. n.end \in Block /\ n.end # -1
      BY <1>1, <1>6, <1>10
    <3> QED BY <2>2, <3>1, <1>10 DEF Cut
  <2>3. CASE u # w
    <3>1. u \in d.used /\ u \in Block \ {w}
      BY <2>3, <1>1, <1>4
    <3>2. p.node[u] = d.node[u] /\ ~ Cut(d.node[u])
      BY <3>1, <1>4 DEF Whole
    <3> QED BY <3>2
  <2> QED BY <2>2, <2>3
<1>12. Leads(p, h, k, w)
  <2>1. p.root.end # None
    BY <1>6, <1>7
  <2> QED BY <2>1, <1>5, <1>8, RootLeads
<1>13. /\ w \in p.used /\ h.lev[w] \in Nat /\ h.lev[w] + 1 = h.lev[None] /\ Between(k, h.lo[w], h.hi[w])
  BY <1>12 DEF Leads
<1>14. PICK H \in Nat : H = g.lev[None]
  BY <1>1
<1>15. h.lev[w] = H
  BY <1>5, <1>13, <1>14
<1>16. Spare(d) <= Spare(p) + 1 /\ Spare(d) \in Nat /\ Spare(p) \in Nat
  <2>1. PICK a : a = AllocBlock(d)
    OBVIOUS
  <2>2. Spare(d) <= Spare(a) + 1 /\ Spare(a) \in Nat
    BY <2>1, <1>1, SpareAlloc
  <2>6. Spare(d) \in Nat
    BY <1>1, SpareType
  <2>3. a.used = d.used \cup {w}
    BY <2>1, <1>1, <1>2, AllocFacts
  <2>4. p.used = d.used \cup {w} /\ p.owned = a.owned /\ p.free = a.free
    BY <2>1, <1>1, <1>2, PushDownFacts DEF Directory
  <2>5. Spare(p) = Spare(a)
    BY <2>3, <2>4, SpareSame
  <2> QED BY <2>2, <2>5, <2>6
<1>17. PICK L : Walks(p, k, L)
  BY <1>4, WalksExist
<1>18. PICK N \in Nat : N = InsertLevels /\ N - 1 \in 0..InsertLevels /\ N \in 1..InsertLevels /\ H < N
  BY <1>14 DEF InsertLevels
<1>19. PICK B \in [Sub -> Result(p)] : B = L[N - 1]
  BY <1>17, <1>18 DEF Walks
<1>20. r = InsertNode(p, w, k, B)
  <2>1. r = L[N][w]
    BY <1>6, <1>8, <1>17, <1>18 DEF Walks
  <2>2. L[N][w] = InsertNode(p, w, k, L[N - 1])
    BY <1>6, <1>17, <1>18 DEF Walks
  <2> QED BY <2>1, <2>2, <1>19
<1>21. Readable(p, w)
  BY <1>5, <1>11, <1>13, TreeReadable
<1>22. PICK i : i = Slot(n, k)
  OBVIOUS
<1>23. PICK b : b = B[SubAt(n, i)]
  OBVIOUS
<1>24. PICK m : m = Promote(n, i, b.sep, b.right)
  OBVIOUS
<1>25. /\ i \in 1..(Len(n.keys) + 1) /\ b \in Result(p)
       /\ Has(n, k) => r = Exists(p)
       /\ ~ Has(n, k) /\ n.end # None /\ b.how # "split" => r = b
       /\ ~ Has(n, k) /\ n.end # None /\ b.how = "split" =>
            \/ Width(m.keys) <= BlockRoom /\ r = Done(Put(b.dir, w, m))
            \/ ~ (Width(m.keys) <= BlockRoom) /\ r = Overflow(b.dir, w, m)
  <2>1. n = p.node[w]
    BY <1>10
  <2> QED BY <2>1, <1>4, <1>6, <1>20, <1>21, <1>22, <1>23, <1>24, InsertNodeFacts
<1>26. n.end # None
  BY <1>1, <1>6, <1>10
<1>27. CASE Has(n, k)
  <2>1. r.how = "exists"
    BY <1>25, <1>27 DEF Exists
  <2> QED BY <2>1, <1>6, <1>8
<1>28. CASE ~ Has(n, k) /\ b.how = "split"
  <2>1. PICK x \in Item : x = b.sep
    BY <1>25, <1>28, ResultFacts
  <2>2. PICK y \in Sub : y = b.right
    BY <1>25, <1>28, ResultFacts, ConstFacts
  <2>3. m = Promote(n, i, x, y)
    BY <2>1, <2>2, <1>24
  <2>4. Width(n.keys) \in Nat /\ Size[x.key] \in Nat /\ Width(m.keys) = Width(n.keys) + Size[x.key]
    BY <2>3, <1>10, <1>25, WidthPromote
  <2>5. x.key \in Key
    BY <2>1 DEF Item
  <2>6. RootRoom + Size[x.key] <= BlockRoom /\ RootRoom \in Nat /\ BlockRoom \in Nat
    BY <2>5, SizeAssumption
  <2>7. Width(n.keys) <= RootRoom
    BY <1>9 DEF Held
  <2>8. Width(m.keys) <= BlockRoom
    BY <2>4, <2>6, <2>7
  <2>9. r = Done(Put(b.dir, w, m))
    BY <2>8, <1>25, <1>26, <1>28
  <2>10. r.how = "done"
    BY <2>9 DEF Done
  <2> QED BY <2>10, <1>6, <1>8
<1>29. CASE ~ Has(n, k) /\ b.how # "split"
  <2>1. r = b
    BY <1>25, <1>26, <1>29
  <2>2. SUFFICES ASSUME b.how = "refused" PROVE Spare(d) <= H
    BY <2>1, <1>6, <1>8, <1>14, <1>29
  <2>3. NodeAt(p, w) = n /\ w \in InTree(p) /\ w # -1
    BY <1>6, <1>10, <1>13, <1>4 DEF NodeAt, InTree
  <2>4. H > 0
    BY <1>14 DEF Tree
  <2>5. i \in Slots(n) /\ Fits(p, -1, h, w)
    BY <2>3, <1>5, <1>25 DEF Tree, Slots
  <2>6. Child(p, h, w, i)
    <3>1. Child(p, h, w, i) \/ Stump(p, w, i)
      BY <2>3, <2>4, <2>5, <1>15 DEF Fits
    <3>2. ~ Stump(p, w, i)
      <4>1. SUFFICES ASSUME Stump(p, w, i) PROVE FALSE
        OBVIOUS
      <4>2. i = Len(n.keys) + 1 /\ SubAt(n, i) = -1
        BY <4>1, <2>3, <1>6 DEF Stump
      <4>3. Len(n.keys) \in Nat
        BY <1>10, NodeFacts
      <4>4. n.end = -1
        BY <4>2, <4>3 DEF SubAt
      <4> QED BY <4>4, <1>1, <1>6, <1>10
    <3> QED BY <3>1, <3>2
  <2>7. PICK c : c = SubAt(n, i)
    OBVIOUS
  <2>8. /\ c \in p.used /\ h.lev[c] + 1 = h.lev[w]
        /\ h.lo[c] = LoAt(n, h.lo[w], i) /\ h.hi[c] = HiAt(n, h.hi[w], i)
    BY <2>3, <2>6, <2>7 DEF Child
  <2>9. Between(k, h.lo[c], h.hi[c])
    <3>1. Sorted(n, h.lo[w], h.hi[w]) /\ h.lo[w] \in Int /\ h.hi[w] \in Int
      BY <2>3, <1>5, KeyBetween
    <3>2. Between(k, LoAt(n, h.lo[w], i), HiAt(n, h.hi[w], i))
      BY <3>1, <1>10, <1>13, <1>22, <1>29, SlotBetween
    <3> QED BY <3>2, <2>8
  <2>10. h.lev[c] \in Nat
    <3>1. \A u \in p.used : u \in Block
      BY <1>4, VolumeFacts
    <3>2. \A u \in Place : h.lev[u] \in Nat
      BY <1>5, TreeFacts
    <3> QED BY <3>1, <3>2, <2>8 DEF Place
  <2>11. h.lev[c] < N - 1
    BY <2>8, <2>10, <1>15, <1>18
  <2>12. Costs(p, h.lev[c], L[N - 1][c])
    BY <2>8, <2>9, <2>11, <1>5, <1>11, <1>17, <1>18, CostWalk
  <2>13. Spare(p) <= h.lev[c]
    BY <2>2, <2>7, <2>12, <1>19, <1>23 DEF Costs
  <2> QED BY <2>8, <2>10, <2>13, <1>15, <1>16
<1> QED BY <1>27, <1>28, <1>29

LEMMA LargeCost ==
  ASSUME NEW d, NEW g, Tree(d, -1, g), Whole(d), Held(d), d.root.end # None, g.lev[None] < InsertLevels,
         limit \in Nat, NEW k \in Key, k \notin KeysIn(d), NEW r, r = InsertLarge(d, k), r.how = "refused"
  PROVE  Spare(d) <= g.lev[None] \/ \E j \in KeysIn(d) \cup {k} : TooLong(j, k)
<1>1. d \in Volume /\ d.large /\ d.owned > 0 /\ Expand(d) = d
  <2>1. d \in Volume /\ d.large
    BY DEF Tree
  <2>2. d.owned > 0
    BY <2>1, VolumeFacts
  <2> QED BY <2>1, <2>2, ExpandFacts
<1>2. PICK H \in Nat : H = g.lev[None]
  <2>1. None \in Place
    BY DEF Place
  <2> QED BY <2>1, TreeFacts
<1>3. CASE RootFull(d, k) /\ NoBlock(d)
  <2>1. Spare(d) = 0
    BY <1>1, <1>3, SpareNone
  <2> QED BY <2>1, <1>2
<1>4. CASE ~ (RootFull(d, k) /\ NoBlock(d))
  <2>1. PICK o : o = Outcome(d, k)
    OBVIOUS
  <2>2. o.how = "refused"
    BY <2>1, <1>1, <1>4, InsertLargeFacts
  <2>3. PICK p : p = Start(d, k)
    OBVIOUS
  <2>4. PICK v : v = SubAt(p.root, Slot(p.root, k))
    OBVIOUS
  <2>5. PICK q : q = InsertRec(p, v, k)
    OBVIOUS
  <2>6. ~ Has(p.root, k)
    <3>1. Has(p.root, k) => o.how = "exists"
      BY <2>1, <2>3 DEF Outcome, Exists
    <3> QED BY <3>1, <2>2
  <2>7. o = IF v = None THEN Refused(p) ELSE IF q.how = "split" THEN RootInsertSep(q, v) ELSE q
    BY <2>1, <2>3, <2>4, <2>5, <2>6 DEF Outcome, Way, Deep
  <2>8. CASE RootFull(d, k)
    <3>1. p = PushDownRoot(d) /\ ~ NoBlock(d)
      BY <2>3, <2>8, <1>1, <1>4 DEF Start
    <3>2. v # None /\ q.how # "split" /\ (q.how = "refused" => Spare(d) <= g.lev[None])
      BY <3>1, <2>4, <2>5, PushCost
    <3> QED BY <3>2, <2>2, <2>7
  <2>9. CASE ~ RootFull(d, k)
    <3>1. p = d
      BY <2>3, <2>9, <1>1 DEF Start
    <3>2. v \in d.used
      BY <3>1, <2>4, <2>6, RootLeads DEF Leads
    <3>3. v # None
      BY <3>2, TreeFacts
    <3>4. o = IF q.how = "split" THEN RootInsertSep(q, v) ELSE q
      BY <3>3, <2>7
    <3>5. g.lev[None] <= InsertLevels
      BY <1>2 DEF InsertLevels
    <3> QED BY <3>1, <3>4, <3>5, <2>2, <2>4, <2>5, <2>6, <2>9, StayCost
  <2> QED BY <2>8, <2>9
<1> QED BY <1>3, <1>4

\* A folded index, or one in the record, refuses only for want of a chunk.
LEMMA SmallCost ==
  ASSUME NEW d, Small(d), limit \in Nat, NEW k \in Key, k \notin KeysIn(d), NEW r, r = InsertEntry(d, k),
         r.how = "refused"
  PROVE  Spare(d) <= Height(d)
<1>1. /\ d \in Volume /\ d.root \in Node /\ Bare(d.root) /\ KeysIn(d) = {q \in Key : Has(d.root, q)}
      /\ d.owned = 0 \/ d.owned = 1
  BY SmallKeys
<1>2. d.owned = 0
  <2>1. SUFFICES ASSUME d.owned = 1 PROVE FALSE
    BY <1>1
  <2>2. r = InsertLarge(d, k)
    BY <2>1 DEF InsertEntry
  <2>3. r.how = "done"
    BY <2>1, <2>2, FirstStep
  <2> QED BY <2>3
<1>3. NoChunk(d)
  <2>1. SUFFICES ASSUME ~ NoChunk(d) PROVE FALSE
    OBVIOUS
  <2>2. r = InsertSmall(d, k)
    BY <1>2 DEF InsertEntry
  <2>3. ~ Has(d.root, k)
    BY <1>1
  <2>4. r.how = "done"
    <3>1. CASE Width(RootKeys(d, k)) <= RootRoom
      <4>1. r = Done(RootWith(d, [keys |-> RootKeys(d, k), end |-> d.root.end]))
        BY <1>1, <1>2, <2>2, <2>3, <3>1, InsertSmallFacts
      <4> QED BY <4>1 DEF Done
    <3>2. CASE ~ (Width(RootKeys(d, k)) <= RootRoom)
      <4>1. r = Done(Directory(EmptyRoot(0), TRUE, [d.node EXCEPT ![0] = Leaf(RootKeys(d, k))], {0}, 1, d.free - 1))
        BY <1>1, <1>2, <2>1, <2>2, <2>3, <3>2, InsertSmallFacts
      <4> QED BY <4>1 DEF Done
    <3> QED BY <3>1, <3>2
  <2> QED BY <2>4
<1>4. Spare(d) = 0
  <2>1. NoBlock(d)
    BY <1>2, <1>3 DEF NoBlock
  <2> QED BY <2>1, <1>1, SpareNone
<1>5. Height(d) \in Nat
  <2>1. PICK L \in [0..InsertLevels -> [Sub -> Nat]] : Height(d) = L[InsertLevels][d.root.end]
    BY <1>1, HeightLevels
  <2>2. d.root.end \in Sub /\ InsertLevels \in 0..InsertLevels
    BY <1>1, NodeFacts DEF InsertLevels
  <2> QED BY <2>1, <2>2
<1> QED BY <1>4, <1>5

\* However short of clusters, of mapping pairs or of bits the directory is, an insertion
\* is refused only if there are fewer blocks to be had than the levels of the tree and one
\* more, at the limit of its depth, behind a root whose last child has gone, or for a
\* separator that is too long: the blocks that the directory owns and does not use are
\* used first (NtfsBtreeAllocBlock).
THEOREM RefusesOnlyWhenFull == Spec => RefusedOnlyWhenFull
<1>1. ASSUME TreeInv, Held(dir), NEW k \in Key, trouble = {}, InsertName(k), status' = "refused"
      PROVE  \/ Spare(dir) <= Height(dir) \/ Height(dir) = InsertLevels
             \/ dir.large /\ dir.root.end = None
             \/ \E j \in names \cup {k} : TooLong(j, k)
  <2>1. names = KeysIn(dir) /\ (Small(dir) \/ Big(dir)) /\ dir \in Volume
    BY <1>1 DEF TreeInv, TypeInv
  <2>2. PICK r : r = InsertEntry(dir, k)
    OBVIOUS
  <2>3. k \notin KeysIn(dir) /\ r.how = "refused"
    BY <2>1, <2>2, <1>1 DEF InsertName, Call
  <2>0. limit \in Nat
    BY <1>1, SizeAssumption DEF TreeInv, TypeInv, TypeOK
  <2>4. CASE Small(dir)
    <3>1. Spare(dir) <= Height(dir)
      BY <2>0, <2>2, <2>3, <2>4, SmallCost
    <3> QED BY <3>1
  <2>5. CASE Big(dir)
    <3>1. PICK g : Tree(dir, -1, g) /\ g.lev[None] <= InsertLevels
      BY <2>5 DEF Big
    <3>2. Whole(dir)
      BY <2>5 DEF Big, Whole
    <3>3. SUFFICES ASSUME dir.root.end # None
                   PROVE  \/ Spare(dir) <= Height(dir) \/ Height(dir) = InsertLevels
                          \/ \E j \in names \cup {k} : TooLong(j, k)
      BY <3>1 DEF Tree
    <3>4. Height(dir) = g.lev[None]
      BY <3>1, <3>2, <3>3, TreeHeight
    <3>5. None \in Place /\ \A u \in Place : g.lev[u] \in Nat
      BY <3>1, TreeFacts DEF Place
    <3>6. SUFFICES ASSUME g.lev[None] # InsertLevels
                   PROVE  Spare(dir) <= g.lev[None] \/ \E j \in names \cup {k} : TooLong(j, k)
      BY <3>4
    <3>7. g.lev[None] < InsertLevels
      BY <3>1, <3>5, <3>6 DEF InsertLevels
    <3>8. r = InsertLarge(dir, k)
      <4>1. dir.large /\ dir.owned \in Nat
        BY <2>1, <3>1, VolumeFacts DEF Tree
      <4>2. dir.owned > 0
        BY <2>1, <4>1, VolumeFacts
      <4> QED BY <2>2, <4>2 DEF InsertEntry
    <3> QED BY <3>1, <3>2, <3>3, <3>7, <3>8, <2>0, <2>1, <2>3, <1>1, LargeCost
  <2> QED BY <2>1, <2>4, <2>5
<1> DEFINE Short(k) ==
      \/ Spare(dir) <= Height(dir) \/ Height(dir) = InsertLevels
      \/ dir.large /\ dir.root.end = None
      \/ \E j \in names \cup {k} : TooLong(j, k)
<1>2. TreeInv /\ Held(dir) /\ [Next]_vars =>
        [trouble = {} /\ status' = "refused" => \A k \in Key : InsertName(k) => Short(k)]_vars
  BY <1>1
<1>3. Spec => []TreeInv
  BY TreeAlways
<1>4. Spec => []Held(dir)
  BY RootFitsRecord
<1> QED BY <1>2, <1>3, <1>4, PTL DEF Spec, RefusedOnlyWhenFull

=============================================================================
