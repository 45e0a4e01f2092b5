-------------------------- MODULE NtfsIndexProofs --------------------------
(***************************************************************************)
(* Theorems about NtfsIndex, for any names and sizes, any volume, and any  *)
(* number of calls.                                                        *)
(*                                                                         *)
(* A walk is a function from levels to functions on blocks.  Iterates says *)
(* that such a function exists; the lemmas named Levels and Rounds take    *)
(* each walk of the model to its steps, and the lemmas named Facts say     *)
(* what one step does.  Then the tree: Tree(d, x, g) says that the         *)
(* directory d is a tree with the labels g, and TreeInv is the invariant   *)
(* of which NtfsIndexTreeProofs shows that every call keeps it.            *)
(***************************************************************************)
EXTENDS NtfsIndex, SequenceTheorems, FiniteSetTheorems, WellFoundedInduction, TLAPS

(***************************************************************************)
(* Numbers.                                                                *)
(***************************************************************************)
\* Every set of numbers has a least one: the form of induction used below.
LEMMA LeastNumber ==
  ASSUME NEW T \in SUBSET Nat, T # {}
  PROVE  \E x \in T : \A y \in T : x <= y
<1> DEFINE R == OpToRel(<, Nat)
<1>1. IsWellFoundedOn(R, Nat)
  BY NatLessThanWellFounded
<1>2. \E x \in T : \A y \in T : ~ (<<y, x>> \in R)
  <2> HIDE DEF R
  <2> QED BY <1>1, WFMin
<1>3. \A x, y \in Nat : y < x => <<y, x>> \in R
  BY DEF OpToRel
<1> HIDE DEF R
<1>4. PICK x \in T : \A y \in T : ~ (<<y, x>> \in R)
  BY <1>2
<1>5. \A y \in T : x <= y
  <2>1. SUFFICES ASSUME NEW y \in T, ~ x <= y PROVE FALSE
    OBVIOUS
  <2>2. x \in Nat /\ y \in Nat
    OBVIOUS
  <2>3. y < x
    BY <2>1, <2>2
  <2> QED BY <1>3, <1>4, <2>2, <2>3
<1> QED BY <1>4, <1>5

\* The least element that the model takes is one,
LEMMA MinFacts ==
  ASSUME NEW T \in SUBSET Nat, T # {}
  PROVE  Min(T) \in T /\ \A y \in T : Min(T) <= y
<1>1. \E x \in T : \A y \in T : x <= y
  BY LeastNumber
<1> QED BY <1>1 DEF Min

\* and so is the greatest of a set that has a bound.
LEMMA MaxFacts ==
  ASSUME NEW T \in SUBSET Nat, T # {}, NEW b \in Nat, \A y \in T : y <= b
  PROVE  Max(T) \in T /\ \A y \in T : y <= Max(T)
<1> DEFINE D == {x \in Nat : \A y \in T : y <= x}
<1>1. b \in D
  OBVIOUS
<1>2. PICK m \in D : \A x \in D : m <= x
  BY <1>1, LeastNumber
<1>3. m \in T
  <2>1. SUFFICES ASSUME m \notin T PROVE FALSE
    OBVIOUS
  <2>2. PICK t \in T : TRUE
    OBVIOUS
  <2>3. m # 0 /\ m \in Nat
    BY <1>2, <2>1, <2>2
  <2>4. m - 1 \in Nat
    BY <2>3
  <2>5. \A y \in T : y <= m - 1
    BY <1>2, <2>1
  <2> QED BY <1>2, <2>3, <2>4, <2>5
<1>4. \E x \in T : \A y \in T : x >= y
  BY <1>2, <1>3
<1> QED BY <1>4 DEF Max

\* What holds at 0 and is handed on from each number to the next holds up to N.
LEMMA KeptByAll ==
  ASSUME NEW N \in Nat, NEW D, 0 \in D,
         \A k \in 1..N : k - 1 \in D => k \in D
  PROVE  \A k \in 0..N : k \in D
<1> DEFINE Bad == {k \in Nat : k <= N /\ k \notin D}
<1>1. SUFFICES ASSUME Bad # {} PROVE FALSE
  OBVIOUS
<1>2. PICK k \in Bad : \A m \in Bad : k <= m
  BY <1>1, LeastNumber
<1>3. k \in 1..N /\ k - 1 \in Nat /\ k - 1 <= N /\ ~ k <= k - 1
  BY <1>2
<1>4. k - 1 \in D
  BY <1>2, <1>3
<1> QED BY <1>2, <1>3, <1>4

\* A function of a set into itself can be iterated.
Follows(w, N, D, f, a) ==
  w \in [0..N -> D] /\ w[0] = a /\ \A k \in 1..N : w[k] = f[w[k - 1]]
\* Such a sequence of values exists for every function of a set into itself.
LEMMA Iterates ==
  ASSUME NEW N \in Nat, NEW D, NEW f \in [D -> D], NEW a \in D
  PROVE  \E w : Follows(w, N, D, f, a)
<1> DEFINE Upto(n, w) == w[0] = a /\ \A k \in 1..n : w[k] = f[w[k - 1]]
           Bad == {n \in Nat : ~ \E w \in [0..n -> D] : Upto(n, w)}
<1>0. SUFFICES \E w \in [0..N -> D] : Upto(N, w)
  BY DEF Follows
<1>1. SUFFICES ASSUME Bad # {} PROVE FALSE
  OBVIOUS
<1>2. PICK n \in Bad : \A m \in Bad : n <= m
  BY <1>1, LeastNumber
<1>3. n # 0
  <2> DEFINE w == [i \in 0..0 |-> a]
  <2>1. w \in [0..0 -> D] /\ Upto(0, w)
    OBVIOUS
  <2> QED BY <1>2, <2>1
<1>4. n \in Nat /\ n - 1 \in Nat /\ ~ n <= n - 1
  BY <1>2, <1>3
<1>5. PICK v \in [0..(n - 1) -> D] : Upto(n - 1, v)
  <2> HIDE DEF Upto
  <2> QED BY <1>2, <1>4
<1> DEFINE w == [i \in 0..n |-> IF i < n THEN v[i] ELSE f[v[n - 1]]]
<1>6. v[n - 1] \in D /\ \A i \in 0..n : i < n => w[i] = v[i] /\ v[i] \in D
  BY <1>4
<1>7. w[n] = f[v[n - 1]] /\ w[n] \in D
  BY <1>4, <1>6
<1>8. w \in [0..n -> D]
  BY <1>4, <1>6
<1>9. Upto(n, w)
  <2> HIDE DEF w
  <2>1. w[0] = a
    BY <1>3, <1>4, <1>5, <1>6
  <2>2. ASSUME NEW k \in 1..n PROVE w[k] = f[w[k - 1]]
    <3>1. k - 1 \in 0..n /\ k - 1 < n
      BY <1>4
    <3>2. CASE k = n
      BY <1>6, <1>7, <3>1, <3>2
    <3>3. CASE k # n
      <4>1. k \in 1..(n - 1) /\ k \in 0..n /\ k < n
        BY <1>4, <3>3
      <4> QED BY <1>5, <1>6, <3>1, <4>1
    <3> QED BY <3>2, <3>3
  <2> QED BY <2>1, <2>2
<1> HIDE DEF Upto, w
<1> QED BY <1>2, <1>8, <1>9

(***************************************************************************)
(* Sequences.                                                              *)
(***************************************************************************)
\* What InsertAt does to a sequence of items.
LEMMA InsertFacts ==
  ASSUME NEW s \in Seq(Item), NEW e \in Item, NEW i \in 1..(Len(s) + 1)
  PROVE  \A t : t = InsertAt(s, i, e) =>
           /\ t \in Seq(Item) /\ Len(t) = Len(s) + 1
           /\ \A j \in 1..(Len(s) + 1) : t[j] = IF j < i THEN s[j] ELSE IF j = i THEN e ELSE s[j - 1]
<1>0. Len(s) \in Nat /\ i \in Nat /\ 1 <= i /\ i <= Len(s) + 1
  OBVIOUS
<1>1. PICK n \in Nat : n = Len(s)
  BY <1>0
<1>2. PICK a : a = SubSeq(s, 1, i - 1)
  OBVIOUS
<1>3. PICK b : b = SubSeq(s, i, Len(s))
  OBVIOUS
<1>4. PICK o : o = <<e>>
  OBVIOUS
<1>5. a \in Seq(Item) /\ Len(a) = i - 1 /\ \A j \in 1..(i - 1) : a[j] = s[j]
  BY <1>0, <1>2
<1>6. b \in Seq(Item) /\ Len(b) = n + 1 - i /\ \A j \in 1..(n + 1 - i) : b[j] = s[i + j - 1]
  BY <1>0, <1>1, <1>3
<1>7. o \in Seq(Item) /\ Len(o) = 1 /\ o[1] = e
  BY <1>4
<1>8. a \o o \in Seq(Item) /\ Len(a \o o) = i
      /\ \A j \in 1..i : (a \o o)[j] = IF j <= i - 1 THEN a[j] ELSE o[j - (i - 1)]
  BY <1>0, <1>5, <1>7, ConcatProperties
<1>9. PICK c : c = a \o o
  OBVIOUS
<1>10. c \in Seq(Item) /\ Len(c) = i /\ \A j \in 1..i : c[j] = IF j < i THEN s[j] ELSE e
  <2>1. \A j \in 1..i : j = i => j - (i - 1) = 1
    BY <1>0
  <2>2. \A j \in 1..i : ~ (j <= i - 1) => j = i
    BY <1>0
  <2> QED BY <1>0, <1>5, <1>7, <1>8, <1>9, <2>1, <2>2
<1>11. c \o b \in Seq(Item) /\ Len(c \o b) = n + 1
       /\ \A j \in 1..(n + 1) : (c \o b)[j] = IF j <= i THEN c[j] ELSE b[j - i]
  <2>1. Len(c) + Len(b) = n + 1
    BY <1>0, <1>1, <1>6, <1>10
  <2> QED BY <1>6, <1>10, <2>1, ConcatProperties
<1>12. InsertAt(s, i, e) = c \o b
  BY <1>2, <1>3, <1>4, <1>9 DEF InsertAt
<1>13. \A j \in 1..(n + 1) : j > i => j - i \in 1..(n + 1 - i) /\ i + (j - i) - 1 = j - 1
  BY <1>0, <1>1
<1>14. \A j \in 1..(n + 1) : (c \o b)[j] = IF j < i THEN s[j] ELSE IF j = i THEN e ELSE s[j - 1]
  BY <1>0, <1>1, <1>6, <1>10, <1>11, <1>13
<1> QED BY <1>1, <1>11, <1>12, <1>14

\* What RemoveAt gives, item by item.
LEMMA RemoveFacts ==
  ASSUME NEW S, NEW s \in Seq(S), NEW i \in 1..Len(s)
  PROVE  /\ RemoveAt(s, i) \in Seq(S)
         /\ Len(RemoveAt(s, i)) = Len(s) - 1
         /\ \A j \in 1..(Len(s) - 1) : RemoveAt(s, i)[j] = IF j < i THEN s[j] ELSE s[j + 1]
<1>0. Len(s) \in Nat /\ i \in Nat /\ 1 <= i /\ i <= Len(s)
  OBVIOUS
<1>1. PICK n \in Nat : n = Len(s)
  BY <1>0
<1>2. PICK a : a = SubSeq(s, 1, i - 1)
  OBVIOUS
<1>3. PICK b : b = SubSeq(s, i + 1, Len(s))
  OBVIOUS
<1>5. a \in Seq(S) /\ Len(a) = i - 1 /\ \A j \in 1..(i - 1) : a[j] = s[j]
  BY <1>0, <1>2
<1>6. b \in Seq(S) /\ Len(b) = n - i /\ \A j \in 1..(n - i) : b[j] = s[i + j]
  BY <1>0, <1>1, <1>3
<1>11. a \o b \in Seq(S) /\ Len(a \o b) = n - 1
       /\ \A j \in 1..(n - 1) : (a \o b)[j] = IF j <= i - 1 THEN a[j] ELSE b[j - (i - 1)]
  <2>0. Len(a) = i - 1 /\ Len(b) = n - i
    BY <1>5, <1>6
  <2>1. Len(a) + Len(b) = n - 1
    BY <1>0, <1>1, <2>0
  <2>2. /\ a \o b \in Seq(S) /\ Len(a \o b) = Len(a) + Len(b)
        /\ \A j \in 1..(Len(a) + Len(b)) : (a \o b)[j] = IF j <= Len(a) THEN a[j] ELSE b[j - Len(a)]
    BY <1>5, <1>6, ConcatProperties, Zenon
  <2>3. Len(a) = i - 1
    BY <1>5
  <2> QED BY <2>1, <2>2, <2>3
<1>12. RemoveAt(s, i) = a \o b
  BY <1>2, <1>3 DEF RemoveAt
<1>13. \A j \in 1..(n - 1) : ~ (j <= i - 1) => j - (i - 1) \in 1..(n - i) /\ i + (j - (i - 1)) = j + 1
  BY <1>0, <1>1
<1>14. ASSUME NEW j \in 1..(n - 1) PROVE (a \o b)[j] = IF j < i THEN s[j] ELSE s[j + 1]
  <2>1. CASE j < i
    <3>1. j \in 1..(i - 1) /\ j <= i - 1
      BY <1>0, <2>1
    <3> QED BY <1>5, <1>11, <2>1, <3>1
  <2>2. CASE ~ (j < i)
    <3>1. ~ (j <= i - 1)
      BY <1>0, <2>2
    <3> QED BY <1>6, <1>11, <1>13, <2>2, <3>1
  <2> QED BY <2>1, <2>2
<1> QED BY <1>1, <1>11, <1>12, <1>14

\* What SubSeq gives, item by item.
LEMMA PartFacts ==
  ASSUME NEW S, NEW s \in Seq(S), NEW a \in 1..(Len(s) + 1), NEW b \in 0..Len(s), a <= b + 1
  PROVE  /\ SubSeq(s, a, b) \in Seq(S)
         /\ Len(SubSeq(s, a, b)) = b + 1 - a
         /\ \A j \in 1..(b + 1 - a) : SubSeq(s, a, b)[j] = s[a + j - 1]
OBVIOUS

(***************************************************************************)
(* Nodes.  A node is its keys and, one more, the children around them.     *)
(***************************************************************************)
\* The constants, and the values that are not mixed up.
LEMMA ConstFacts ==
  /\ Clusters \in Nat /\ MaxAfter \in Nat /\ Block \subseteq Nat /\ Key \subseteq Nat
  /\ None \notin Int /\ None \notin Block /\ -1 \notin Block /\ None # -1
  /\ Sub = Block \cup {None, -1}
BY SizeAssumption DEF Block, Sub

\* The parts of a node have their types.
LEMMA NodeFacts ==
  ASSUME NEW n \in Node
  PROVE  /\ n = [keys |-> n.keys, end |-> n.end]
         /\ n.keys \in Seq(Item) /\ n.end \in Sub /\ Len(n.keys) \in Nat
         /\ DOMAIN n.keys = 1..Len(n.keys)
         /\ \A i \in 1..Len(n.keys) : n.keys[i] \in Item /\ n.keys[i].key \in Key
                                      /\ n.keys[i].key \in Nat /\ n.keys[i].sub \in Sub
         /\ \A i \in 1..(Len(n.keys) + 1) : SubAt(n, i) \in Sub
<1>1. /\ n.keys \in Seq(Item) /\ n.end \in Sub /\ n = [keys |-> n.keys, end |-> n.end]
  BY DEF Node
<1>2. Len(n.keys) \in Nat /\ DOMAIN n.keys = 1..Len(n.keys)
  BY <1>1
<1>3. \A i \in 1..Len(n.keys) : n.keys[i] \in Item
  BY <1>1
<1>4. \A i \in 1..Len(n.keys) : n.keys[i].key \in Key /\ n.keys[i].sub \in Sub
  BY <1>3 DEF Item
<1>5. \A i \in 1..Len(n.keys) : n.keys[i].key \in Nat
  BY <1>4, ConstFacts
<1>6. ASSUME NEW i \in 1..(Len(n.keys) + 1) PROVE SubAt(n, i) \in Sub
  <2>1. CASE i <= Len(n.keys)
    <3>1. i \in 1..Len(n.keys)
      BY <1>2, <2>1
    <3> QED BY <1>4, <2>1, <3>1 DEF SubAt
  <2>2. CASE ~ (i <= Len(n.keys))
    BY <1>1, <2>2 DEF SubAt
  <2> QED BY <2>1, <2>2
<1> QED BY <1>1, <1>2, <1>3, <1>4, <1>5, <1>6

\* A leaf of any items is a node,
LEMMA LeafFacts ==
  ASSUME NEW s \in Seq(Item)
  PROVE  Leaf(s) \in Node /\ Leaf(s).keys = s /\ Leaf(s).end = None
BY ConstFacts DEF Leaf, Node

\* and so is one without items,
LEMMA EmptyLeafFacts ==
  Leaf(<< >>) \in Node /\ Leaf(<< >>).keys = << >> /\ Leaf(<< >>).end = None /\ Len(Leaf(<< >>).keys) = 0
<1>1. << >> \in Seq(Item) /\ Len(<< >>) = 0
  OBVIOUS
<1> QED BY <1>1, LeafFacts

\* and a block that has never been written.
LEMMA BlankFacts == Blank \in Node /\ Blank.keys = << >> /\ Blank.end = -1
<1>1. << >> \in Seq(Item)
  OBVIOUS
<1> QED BY <1>1, ConstFacts DEF Blank, Node

\* The entry of a name in a leaf.
LEMMA PlainFacts ==
  ASSUME NEW k \in Key
  PROVE  Plain(k) \in Item /\ Plain(k).key = k /\ Plain(k).sub = None
BY ConstFacts DEF Plain, Item

\* The slot of k is the first whose key is not smaller.
LEMMA SlotFacts ==
  ASSUME NEW n \in Node, NEW k \in Key
  PROVE  /\ Slot(n, k) \in 1..(Len(n.keys) + 1)
         /\ \A j \in 1..Len(n.keys) : j < Slot(n, k) => n.keys[j].key < k
         /\ Slot(n, k) <= Len(n.keys) => k <= n.keys[Slot(n, k)].key
<1> DEFINE T == {i \in DOMAIN n.keys : n.keys[i].key >= k} \cup {Len(n.keys) + 1}
<1>1. T \in SUBSET Nat /\ T # {} /\ T \subseteq 1..(Len(n.keys) + 1)
  BY NodeFacts
<1>2. Slot(n, k) = Min(T)
  BY DEF Slot
<1>3. PICK m : m = Slot(n, k)
  OBVIOUS
<1> HIDE DEF T
<1>4. m \in T /\ \A y \in T : m <= y
  BY <1>1, <1>2, <1>3, MinFacts
<1>5. \A j \in 1..Len(n.keys) : j \in T <=> n.keys[j].key >= k
  BY NodeFacts DEF T
<1>6. k \in Nat /\ \A j \in 1..Len(n.keys) : n.keys[j].key \in Nat
  BY NodeFacts, ConstFacts
<1>7. m \in 1..(Len(n.keys) + 1)
  BY <1>1, <1>4
<1>8. \A j \in 1..Len(n.keys) : j < m => n.keys[j].key < k
  BY <1>4, <1>5, <1>6, <1>7
<1>9. m <= Len(n.keys) => k <= n.keys[m].key
  <2>1. SUFFICES ASSUME m <= Len(n.keys) PROVE k <= n.keys[m].key
    OBVIOUS
  <2>2. m \in 1..Len(n.keys)
    BY <1>7, <2>1, NodeFacts
  <2> QED BY <1>4, <1>5, <1>6, <2>2
<1> QED BY <1>3, <1>7, <1>8, <1>9

\* An item goes in: its key and the child before it.
LEMMA AddFacts ==
  ASSUME NEW n \in Node, NEW x \in Item, NEW i \in 1..(Len(n.keys) + 1), NEW m,
         m = [keys |-> InsertAt(n.keys, i, x), end |-> n.end]
  PROVE  /\ m \in Node /\ Len(m.keys) = Len(n.keys) + 1 /\ m.end = n.end
         /\ m.keys = InsertAt(n.keys, i, x)
         /\ \A j \in 1..(Len(n.keys) + 1) :
              m.keys[j] = IF j < i THEN n.keys[j] ELSE IF j = i THEN x ELSE n.keys[j - 1]
         /\ \A j \in 1..(Len(n.keys) + 2) :
              SubAt(m, j) = IF j < i THEN SubAt(n, j) ELSE IF j = i THEN x.sub ELSE SubAt(n, j - 1)
<1>1. PICK c \in Nat : c = Len(n.keys)
  BY NodeFacts
<1>2. PICK s : s = InsertAt(n.keys, i, x)
  OBVIOUS
<1>3. n.keys \in Seq(Item) /\ n.end \in Sub /\ n = [keys |-> n.keys, end |-> n.end]
  BY NodeFacts
<1>4. m = [keys |-> s, end |-> n.end]
  BY <1>2
<1>5. m.keys = s /\ m.end = n.end
  BY <1>4
<1>6. /\ s \in Seq(Item) /\ Len(s) = c + 1
      /\ \A j \in 1..(c + 1) : s[j] = IF j < i THEN n.keys[j] ELSE IF j = i THEN x ELSE n.keys[j - 1]
  <2>1. PICK q : q = n.keys
    OBVIOUS
  <2>2. q \in Seq(Item) /\ i \in 1..(Len(q) + 1) /\ s = InsertAt(q, i, x) /\ Len(q) = c
    BY <1>1, <1>2, <1>3, <2>1
  <2>3. \A t : t = InsertAt(q, i, x) =>
          /\ t \in Seq(Item) /\ Len(t) = Len(q) + 1
          /\ \A j \in 1..(Len(q) + 1) : t[j] = IF j < i THEN q[j] ELSE IF j = i THEN x ELSE q[j - 1]
    BY <2>2, InsertFacts
  <2> QED BY <2>1, <2>2, <2>3
<1>7. m \in Node
  <2>1. s \in Seq(Item)
    BY <1>6
  <2> QED BY <1>3, <1>4, <2>1 DEF Node
<1>8. i \in 1..(c + 1)
  BY <1>1
<1>9. ASSUME NEW j \in 1..(c + 2)
      PROVE  SubAt(m, j) = IF j < i THEN SubAt(n, j) ELSE IF j = i THEN x.sub ELSE SubAt(n, j - 1)
  <2>1. CASE j = c + 2
    <3>1. ~ (j <= c + 1) /\ ~ (j < i) /\ j # i /\ ~ (j - 1 <= c)
      BY <1>8, <2>1
    <3> QED BY <1>1, <1>5, <1>6, <3>1 DEF SubAt
  <2>2. CASE j # c + 2
    <3>1. j \in 1..(c + 1) /\ j <= c + 1
      BY <2>2
    <3>2. SubAt(m, j) = s[j].sub
      BY <1>5, <1>6, <3>1 DEF SubAt
    <3>3. CASE j < i
      <4>1. j <= c
        BY <1>8, <3>3
      <4> QED BY <1>1, <1>6, <3>1, <3>2, <3>3, <4>1 DEF SubAt
    <3>4. CASE j = i
      BY <1>6, <3>1, <3>2, <3>4
    <3>5. CASE ~ (j < i) /\ j # i
      <4>1. j - 1 <= c
        BY <3>1
      <4> QED BY <1>1, <1>6, <3>1, <3>2, <3>5, <4>1 DEF SubAt
    <3> QED BY <3>3, <3>4, <3>5
  <2> QED BY <2>1, <2>2
<1> QED BY <1>1, <1>2, <1>5, <1>6, <1>7, <1>9

\* A child is replaced.
LEMMA SetFacts ==
  ASSUME NEW n \in Node, NEW i \in 1..(Len(n.keys) + 1), NEW v \in Sub, NEW m, m = SetSub(n, i, v)
  PROVE  /\ m \in Node /\ Len(m.keys) = Len(n.keys)
         /\ \A j \in 1..Len(n.keys) : m.keys[j].key = n.keys[j].key
         /\ m.end = IF i = Len(n.keys) + 1 THEN v ELSE n.end
         /\ \A j \in 1..(Len(n.keys) + 1) : SubAt(m, j) = IF j = i THEN v ELSE SubAt(n, j)
<1>1. PICK c \in Nat : c = Len(n.keys)
  BY NodeFacts
<1>2. n.keys \in Seq(Item) /\ n.end \in Sub /\ n = [keys |-> n.keys, end |-> n.end]
  BY NodeFacts
<1>3. CASE i <= c
  <2>1. i \in 1..c /\ i # c + 1
    BY <1>1, <1>3
  <2>2. PICK x : x = [n.keys[i] EXCEPT !.sub = v]
    OBVIOUS
  <2>3. n.keys[i] \in Item
    BY <1>1, <2>1, NodeFacts
  <2>4. x \in Item /\ x.key = n.keys[i].key /\ x.sub = v
    BY <2>2, <2>3 DEF Item
  <2>5. PICK s : s = [n.keys EXCEPT ![i] = x]
    OBVIOUS
  <2>6. s \in Seq(Item) /\ Len(s) = c /\ \A j \in 1..c : s[j] = IF j = i THEN x ELSE n.keys[j]
    BY <1>1, <1>2, <2>1, <2>4, <2>5
  <2>7. m = [keys |-> s, end |-> n.end]
    BY <1>1, <1>2, <1>3, <2>2, <2>5 DEF SetSub
  <2>8. m.keys = s /\ m.end = n.end
    BY <2>7
  <2>9. m \in Node
    BY <1>2, <2>6, <2>7 DEF Node
  <2>10. \A j \in 1..c : m.keys[j].key = n.keys[j].key
    BY <2>4, <2>6, <2>8
  <2>11. ASSUME NEW j \in 1..(c + 1) PROVE SubAt(m, j) = IF j = i THEN v ELSE SubAt(n, j)
    <3>1. CASE j <= c
      BY <1>1, <2>4, <2>6, <2>8, <3>1 DEF SubAt
    <3>2. CASE ~ (j <= c)
      <4>1. j # i
        BY <1>3, <3>2
      <4> QED BY <1>1, <2>6, <2>8, <3>2, <4>1 DEF SubAt
    <3> QED BY <3>1, <3>2
  <2> QED BY <1>1, <2>1, <2>6, <2>8, <2>9, <2>10, <2>11
<1>4. CASE ~ (i <= c)
  <2>1. i = c + 1
    BY <1>1, <1>4
  <2>2. m = [keys |-> n.keys, end |-> v]
    BY <1>1, <1>2, <1>4 DEF SetSub
  <2>3. m \in Node /\ m.keys = n.keys /\ m.end = v
    BY <1>2, <2>2 DEF Node
  <2>4. ASSUME NEW j \in 1..(c + 1) PROVE SubAt(m, j) = IF j = i THEN v ELSE SubAt(n, j)
    BY <1>1, <2>1, <2>3 DEF SubAt
  <2> QED BY <1>1, <2>1, <2>3, <2>4
<1> QED BY <1>3, <1>4

\* A separator comes up: it goes before the slot of the node that was split.
LEMMA PromoteFacts ==
  ASSUME NEW n \in Node, NEW i \in 1..(Len(n.keys) + 1), NEW x \in Item, NEW v \in Sub,
         NEW m, m = Promote(n, i, x, v)
  PROVE  /\ m \in Node /\ Len(m.keys) = Len(n.keys) + 1
         /\ m.end = IF i = Len(n.keys) + 1 THEN v ELSE n.end
         /\ m.keys[i] = x
         /\ \A j \in 1..(Len(n.keys) + 1) :
              m.keys[j].key = IF j < i THEN n.keys[j].key ELSE IF j = i THEN x.key ELSE n.keys[j - 1].key
         /\ \A j \in 1..(Len(n.keys) + 2) :
              SubAt(m, j) = IF j < i THEN SubAt(n, j) ELSE IF j = i THEN x.sub
                            ELSE IF j = i + 1 THEN v ELSE SubAt(n, j - 1)
<1>1. PICK c \in Nat : c = Len(n.keys)
  BY NodeFacts
<1>2. PICK b : b = SetSub(n, i, v)
  OBVIOUS
<1>3. /\ b \in Node /\ Len(b.keys) = c /\ b.end = IF i = c + 1 THEN v ELSE n.end
      /\ \A j \in 1..c : b.keys[j].key = n.keys[j].key
      /\ \A j \in 1..(c + 1) : SubAt(b, j) = IF j = i THEN v ELSE SubAt(n, j)
  BY <1>1, <1>2, SetFacts
<1>4. i \in 1..(Len(b.keys) + 1) /\ i \in 1..(c + 1)
  BY <1>1, <1>3
<1>5. m = [keys |-> InsertAt(b.keys, i, x), end |-> b.end]
  BY <1>2, <1>3, NodeFacts DEF Promote
<1>6. /\ m \in Node /\ Len(m.keys) = c + 1 /\ m.end = b.end
      /\ \A j \in 1..(c + 1) : m.keys[j] = IF j < i THEN b.keys[j] ELSE IF j = i THEN x ELSE b.keys[j - 1]
      /\ \A j \in 1..(c + 2) : SubAt(m, j) = IF j < i THEN SubAt(b, j) ELSE IF j = i THEN x.sub ELSE SubAt(b, j - 1)
  BY <1>3, <1>4, <1>5, AddFacts
<1>7. ASSUME NEW j \in 1..(c + 1)
      PROVE  m.keys[j].key = IF j < i THEN n.keys[j].key ELSE IF j = i THEN x.key ELSE n.keys[j - 1].key
  <2>1. CASE j < i
    <3>1. j \in 1..c
      BY <1>4, <2>1
    <3> QED BY <1>3, <1>6, <2>1, <3>1
  <2>2. CASE j = i
    BY <1>6, <2>2
  <2>3. CASE ~ (j < i) /\ j # i
    <3>1. j - 1 \in 1..c
      BY <1>4, <2>3
    <3> QED BY <1>3, <1>6, <2>3, <3>1
  <2> QED BY <2>1, <2>2, <2>3
<1>8. ASSUME NEW j \in 1..(c + 2)
      PROVE  SubAt(m, j) = IF j < i THEN SubAt(n, j) ELSE IF j = i THEN x.sub
                           ELSE IF j = i + 1 THEN v ELSE SubAt(n, j - 1)
  <2>1. CASE j < i
    <3>1. j \in 1..(c + 1) /\ j # i
      BY <1>4, <2>1
    <3> QED BY <1>3, <1>6, <2>1, <3>1
  <2>2. CASE j = i
    BY <1>6, <2>2
  <2>3. CASE j = i + 1
    <3>1. j - 1 = i /\ ~ (j < i) /\ j # i
      BY <1>4, <2>3
    <3> QED BY <1>3, <1>4, <1>6, <2>3, <3>1
  <2>4. CASE ~ (j < i) /\ j # i /\ j # i + 1
    <3>1. j - 1 \in 1..(c + 1) /\ j - 1 # i
      BY <1>4, <2>4
    <3> QED BY <1>3, <1>6, <2>4, <3>1
  <2> QED BY <2>1, <2>2, <2>3, <2>4
<1>9. m.keys[i] = x
  BY <1>4, <1>6
<1> QED BY <1>1, <1>3, <1>6, <1>7, <1>8, <1>9

\* An item leaves, with the child before its key.
LEMMA WithoutFacts ==
  ASSUME NEW n \in Node, NEW i \in 1..Len(n.keys), NEW m, m = Without(n, i)
  PROVE  /\ m \in Node /\ Len(m.keys) = Len(n.keys) - 1 /\ m.end = n.end
         /\ \A j \in 1..(Len(n.keys) - 1) : m.keys[j] = IF j < i THEN n.keys[j] ELSE n.keys[j + 1]
         /\ \A j \in 1..Len(n.keys) : SubAt(m, j) = IF j < i THEN SubAt(n, j) ELSE SubAt(n, j + 1)
<1>1. PICK c \in Nat : c = Len(n.keys)
  BY NodeFacts
<1>2. PICK s : s = RemoveAt(n.keys, i)
  OBVIOUS
<1>3. n.keys \in Seq(Item) /\ n.end \in Sub /\ n = [keys |-> n.keys, end |-> n.end]
  BY NodeFacts
<1>4. m = [keys |-> s, end |-> n.end]
  BY <1>2, <1>3 DEF Without
<1>5. m.keys = s /\ m.end = n.end
  BY <1>4
<1>6. /\ s \in Seq(Item) /\ Len(s) = c - 1
      /\ \A j \in 1..(c - 1) : s[j] = IF j < i THEN n.keys[j] ELSE n.keys[j + 1]
  BY <1>1, <1>2, <1>3, RemoveFacts
<1>7. m \in Node
  BY <1>3, <1>4, <1>6 DEF Node
<1>8. i \in 1..c
  BY <1>1
<1>9. ASSUME NEW j \in 1..c
      PROVE  SubAt(m, j) = IF j < i THEN SubAt(n, j) ELSE SubAt(n, j + 1)
  <2>1. CASE j = c
    <3>1. ~ (j <= c - 1) /\ ~ (j < i) /\ ~ (j + 1 <= c)
      BY <1>8, <2>1
    <3> QED BY <1>1, <1>5, <1>6, <3>1 DEF SubAt
  <2>2. CASE j # c
    <3>1. j \in 1..(c - 1) /\ j <= c - 1 /\ j <= c /\ j + 1 <= c
      BY <2>2
    <3> QED BY <1>1, <1>5, <1>6, <3>1 DEF SubAt
  <2> QED BY <2>1, <2>2
<1> QED BY <1>1, <1>5, <1>6, <1>7, <1>9

\* A node of some of the items of another.
LEMMA SomeFacts ==
  ASSUME NEW s \in Seq(Item), NEW a \in 1..(Len(s) + 1), NEW b \in 0..Len(s), a <= b + 1,
         NEW v \in Sub, NEW m, m = [keys |-> SubSeq(s, a, b), end |-> v]
  PROVE  /\ m \in Node /\ Len(m.keys) = b + 1 - a /\ m.end = v
         /\ \A j \in 1..(b + 1 - a) : m.keys[j] = s[a + j - 1]
         /\ \A j \in 1..(b + 2 - a) : SubAt(m, j) = IF j = b + 2 - a THEN v ELSE s[a + j - 1].sub
<1>1. PICK t : t = SubSeq(s, a, b)
  OBVIOUS
<1>2. t \in Seq(Item) /\ Len(t) = b + 1 - a /\ \A j \in 1..(b + 1 - a) : t[j] = s[a + j - 1]
  BY <1>1, PartFacts
<1>3. m = [keys |-> t, end |-> v] /\ m.keys = t /\ m.end = v
  BY <1>1
<1>4. m \in Node
  BY <1>2, <1>3 DEF Node
<1>5. ASSUME NEW j \in 1..(b + 2 - a)
      PROVE  SubAt(m, j) = IF j = b + 2 - a THEN v ELSE s[a + j - 1].sub
  <2>1. CASE j = b + 2 - a
    <3>1. ~ (j <= b + 1 - a)
      BY <2>1
    <3> QED BY <1>2, <1>3, <2>1, <3>1 DEF SubAt
  <2>2. CASE j # b + 2 - a
    <3>1. j \in 1..(b + 1 - a) /\ j <= b + 1 - a
      BY <2>2
    <3> QED BY <1>2, <1>3, <2>2, <3>1 DEF SubAt
  <2> QED BY <2>1, <2>2
<1> QED BY <1>2, <1>3, <1>4, <1>5

\* Items and a last child make a node.
LEMMA NodeMade ==
  ASSUME NEW s \in Seq(Item), NEW v \in Sub
  PROVE  [keys |-> s, end |-> v] \in Node
BY DEF Node

\* The key of an item is replaced.
LEMMA RekeyFacts ==
  ASSUME NEW n \in Node, NEW i \in 1..Len(n.keys), NEW k \in Key, NEW m, m = [n EXCEPT !.keys[i].key = k]
  PROVE  /\ m \in Node /\ Len(m.keys) = Len(n.keys) /\ m.end = n.end
         /\ \A j \in 1..Len(n.keys) : m.keys[j].key = IF j = i THEN k ELSE n.keys[j].key
         /\ \A j \in 1..(Len(n.keys) + 1) : SubAt(m, j) = SubAt(n, j)
<1>1. PICK c \in Nat : c = Len(n.keys)
  BY NodeFacts
<1>2. n.keys \in Seq(Item) /\ n.end \in Sub /\ n = [keys |-> n.keys, end |-> n.end]
  BY NodeFacts
<1>3. PICK x : x = [n.keys[i] EXCEPT !.key = k]
  OBVIOUS
<1>4. n.keys[i] \in Item
  BY NodeFacts
<1>5. x \in Item /\ x.key = k /\ x.sub = n.keys[i].sub
  BY <1>3, <1>4 DEF Item
<1>6. PICK s : s = [n.keys EXCEPT ![i] = x]
  OBVIOUS
<1>7. s \in Seq(Item) /\ Len(s) = c /\ \A j \in 1..c : s[j] = IF j = i THEN x ELSE n.keys[j]
  BY <1>1, <1>2, <1>5, <1>6
<1>8. m = [keys |-> s, end |-> n.end]
  BY <1>2, <1>3, <1>6
<1>9. m.keys = s /\ m.end = n.end
  BY <1>8
<1>10. m \in Node
  <2>1. [keys |-> s, end |-> n.end] \in Node
    BY <1>2, <1>7, NodeMade
  <2> QED BY <2>1, <1>8
<1>11. \A j \in 1..c : m.keys[j].key = IF j = i THEN k ELSE n.keys[j].key
  BY <1>5, <1>7, <1>9
<1>12. ASSUME NEW j \in 1..(c + 1) PROVE SubAt(m, j) = SubAt(n, j)
  <2>1. CASE j <= c
    BY <1>1, <1>5, <1>7, <1>9, <2>1 DEF SubAt
  <2>2. CASE ~ (j <= c)
    BY <1>1, <1>7, <1>9, <2>2 DEF SubAt
  <2> QED BY <2>1, <2>2
<1> QED BY <1>1, <1>7, <1>9, <1>10, <1>11, <1>12

\* The child at the end goes.
LEMMA NoEndFacts ==
  ASSUME NEW n \in Node, NEW m, m = [n EXCEPT !.end = None]
  PROVE  m \in Node /\ m.keys = n.keys /\ m.end = None
         /\ \A j \in 1..Len(n.keys) : SubAt(m, j) = SubAt(n, j)
<1>1. n.keys \in Seq(Item) /\ n = [keys |-> n.keys, end |-> n.end] /\ Len(n.keys) \in Nat
  BY NodeFacts
<1>2. m = [keys |-> n.keys, end |-> None]
  BY <1>1
<1>3. m \in Node /\ m.keys = n.keys /\ m.end = None
  BY <1>1, <1>2, ConstFacts DEF Node
<1> QED BY <1>1, <1>3 DEF SubAt

(***************************************************************************)
(* Directories.                                                            *)
(***************************************************************************)
Dir == [root : Node, large : BOOLEAN, node : [Block -> Node], used : SUBSET Block,
        owned : 0..Clusters, free : 0..Clusters]
\* An index that is not folded has a block.
Volume == {d \in Dir : d.owned + d.free <= Clusters /\ (d.large => d.owned > 0)}

\* The fields of a directory have their types.
LEMMA VolumeFacts ==
  ASSUME NEW d \in Volume
  PROVE  /\ d.root \in Node /\ d.large \in BOOLEAN /\ d.node \in [Block -> Node] /\ d.used \subseteq Block
         /\ d.owned \in Nat /\ d.free \in Nat /\ d.owned <= Clusters /\ d.free <= Clusters
         /\ d.owned + d.free <= Clusters /\ (d.large => d.owned > 0)
         /\ \A v \in Block : d.node[v] \in Node
         /\ d = [root |-> d.root, large |-> d.large, node |-> d.node, used |-> d.used,
                 owned |-> d.owned, free |-> d.free]
<1>1. d \in Dir /\ d.owned + d.free <= Clusters /\ (d.large => d.owned > 0)
  BY DEF Volume
<1>2. /\ d.root \in Node /\ d.large \in BOOLEAN /\ d.node \in [Block -> Node] /\ d.used \in SUBSET Block
      /\ d.owned \in 0..Clusters /\ d.free \in 0..Clusters
      /\ d = [root |-> d.root, large |-> d.large, node |-> d.node, used |-> d.used,
              owned |-> d.owned, free |-> d.free]
  BY <1>1 DEF Dir
<1> QED BY <1>1, <1>2, ConstFacts

\* The directory with these fields.
Directory(root, large, node, used, owned, free) ==
  [root |-> root, large |-> large, node |-> node, used |-> used, owned |-> owned, free |-> free]

\* Fields of these types make a directory.
LEMMA DirectoryFacts ==
  ASSUME NEW root \in Node, NEW large \in BOOLEAN, NEW node \in [Block -> Node], NEW used \in SUBSET Block,
         NEW owned \in Nat, NEW free \in Nat, owned + free <= Clusters, large => owned > 0
  PROVE  LET d == Directory(root, large, node, used, owned, free)
         IN  /\ d \in Volume /\ d.root = root /\ d.large = large /\ d.node = node /\ d.used = used
             /\ d.owned = owned /\ d.free = free
<1> DEFINE d == Directory(root, large, node, used, owned, free)
<1>1. owned \in 0..Clusters /\ free \in 0..Clusters
  BY ConstFacts
<1>2. /\ d.root = root /\ d.large = large /\ d.node = node /\ d.used = used
      /\ d.owned = owned /\ d.free = free
  BY DEF Directory
<1>3. d \in Dir
  BY <1>1 DEF Directory, Dir
<1> QED BY <1>2, <1>3 DEF Volume

\* The block that is given out is free, and it is the directory's own afterwards.
LEMMA AllocFacts ==
  ASSUME NEW d \in Volume, ~ NoBlock(d), NEW e, e = AllocBlock(d), NEW w, w = NewBlock(d)
  PROVE  /\ e \in Volume /\ w \in Block /\ w < e.owned
         /\ e.root = d.root /\ e.large = d.large /\ e.node = d.node /\ e.used = d.used \cup {w}
         /\ e.owned >= d.owned /\ e.free <= d.free /\ e.owned + e.free = d.owned + d.free
         /\ d.used \subseteq 0..(d.owned - 1) => w \notin d.used /\ e.used \subseteq 0..(e.owned - 1)
         /\ e.owned > 0
<1>1. /\ d.root \in Node /\ d.large \in BOOLEAN /\ d.node \in [Block -> Node] /\ d.used \subseteq Block
      /\ d.owned \in Nat /\ d.free \in Nat /\ d.owned <= Clusters /\ d.free <= Clusters
      /\ d.owned + d.free <= Clusters /\ (d.large => d.owned > 0)
      /\ d = [root |-> d.root, large |-> d.large, node |-> d.node, used |-> d.used,
              owned |-> d.owned, free |-> d.free]
  BY VolumeFacts
<1>2. Clusters \in Nat
  BY ConstFacts
<1> DEFINE T == ((0..(d.owned - 1)) \ d.used) \cup {d.owned}
<1>3. T \in SUBSET Nat /\ T # {}
  BY <1>1
<1>4. w = Min(T)
  BY DEF NewBlock
<1>5. w \in T /\ \A y \in T : w <= y
  BY <1>3, <1>4, MinFacts
<1>6. CASE w < d.owned
  <2>1. w \in Nat /\ w \in 0..(d.owned - 1) /\ w \notin d.used /\ w \in Block
    BY <1>1, <1>2, <1>5, <1>6 DEF Block
  <2>2. e = Directory(d.root, d.large, d.node, d.used \cup {w}, d.owned, d.free)
    BY <1>1, <1>6 DEF AllocBlock, Directory
  <2>3. d.used \cup {w} \in SUBSET Block
    BY <1>1, <2>1
  <2>4. /\ e \in Volume /\ e.root = d.root /\ e.large = d.large /\ e.node = d.node
        /\ e.used = d.used \cup {w} /\ e.owned = d.owned /\ e.free = d.free
    BY <1>1, <2>2, <2>3, DirectoryFacts
  <2>5. d.used \subseteq 0..(d.owned - 1) => e.used \subseteq 0..(e.owned - 1)
    BY <2>1, <2>4
  <2> QED BY <1>1, <1>6, <2>1, <2>4, <2>5
<1>7. CASE ~ (w < d.owned)
  <2>1. w = d.owned
    BY <1>1, <1>5, <1>7
  <2>2. 0..(d.owned - 1) \subseteq d.used
    <3>1. SUFFICES ASSUME NEW y \in 0..(d.owned - 1), y \notin d.used PROVE FALSE
      OBVIOUS
    <3>2. y \in T
      BY <3>1
    <3> QED BY <1>1, <1>5, <2>1, <3>2
  <2>3. d.free >= 1
    BY <1>1, <2>2 DEF NoBlock, NoChunk
  <2>4. PICK got : got = Max({c \in Asks : c <= d.free})
    OBVIOUS
  <2>5. got \in Nat /\ 1 <= got /\ got <= d.free
    <3> DEFINE A == {c \in Asks : c <= d.free}
    <3>1. A \in SUBSET Nat /\ 1 \in A /\ \A y \in A : y <= d.free
      BY <2>3, SizeAssumption
    <3> HIDE DEF A
    <3>2. Max(A) \in A /\ \A y \in A : y <= Max(A)
      BY <1>1, <3>1, MaxFacts
    <3>3. got = Max(A)
      BY <2>4 DEF A
    <3> QED BY <3>1, <3>2, <3>3
  <2>6. w \in Nat /\ w \in Block
    BY <1>1, <1>2, <2>1, <2>5 DEF Block
  <2>7. e = Directory(d.root, d.large, d.node, d.used \cup {w}, d.owned + got, d.free - got)
    <3>1. e = [d EXCEPT !.used = @ \cup {w}, !.owned = @ + got, !.free = @ - got]
      BY <1>7, <2>4 DEF AllocBlock
    <3> QED BY <1>1, <3>1 DEF Directory
  <2>8. d.used \cup {w} \in SUBSET Block
    BY <1>1, <2>6
  <2>9. d.owned + got \in Nat /\ d.free - got \in Nat /\ (d.owned + got) + (d.free - got) = d.owned + d.free
        /\ d.owned + got > 0
    BY <1>1, <2>5
  <2>10. /\ e \in Volume /\ e.root = d.root /\ e.large = d.large /\ e.node = d.node
         /\ e.used = d.used \cup {w} /\ e.owned = d.owned + got /\ e.free = d.free - got
    BY <1>1, <2>7, <2>8, <2>9, DirectoryFacts
  <2>11. d.used \subseteq 0..(d.owned - 1) => w \notin d.used /\ e.used \subseteq 0..(e.owned - 1)
    BY <1>1, <2>1, <2>5, <2>10
  <2> QED BY <1>1, <2>1, <2>5, <2>6, <2>9, <2>10, <2>11
<1> QED BY <1>6, <1>7

(***************************************************************************)
(* Insertion below the root.                                               *)
(***************************************************************************)
\* An insertion only takes clusters.
Grown(d) ==
  {e \in Volume : /\ e.root = d.root /\ e.large = d.large
                  /\ e.owned >= d.owned /\ e.free <= d.free /\ e.owned + e.free = d.owned + d.free}

\* How an insertion ends, or what it passes up.
Ended(d) == [how : {"done", "refused", "exists"}, dir : Grown(d)]
Halved(d) == [how : {"split"}, dir : Grown(d), sep : Item, right : Block]
Result(d) == Ended(d) \cup Halved(d)

\* What an insertion may do to a directory keeps its root, and can be done twice.
LEMMA GrownFacts ==
  ASSUME NEW d \in Volume, NEW e \in Grown(d)
  PROVE  /\ e \in Volume /\ e.root = d.root /\ e.large = d.large
         /\ e.owned >= d.owned /\ e.free <= d.free /\ e.owned + e.free = d.owned + d.free
         /\ \A b \in Grown(e) : b \in Grown(d)
<1>1. /\ e \in Volume /\ e.root = d.root /\ e.large = d.large
      /\ e.owned >= d.owned /\ e.free <= d.free /\ e.owned + e.free = d.owned + d.free
  BY DEF Grown
<1>2. d.owned \in Nat /\ d.free \in Nat /\ e.owned \in Nat /\ e.free \in Nat
  BY <1>1, VolumeFacts
<1>3. ASSUME NEW b \in Grown(e) PROVE b \in Grown(d)
  <2>1. /\ b \in Volume /\ b.root = e.root /\ b.large = e.large
        /\ b.owned >= e.owned /\ b.free <= e.free /\ b.owned + b.free = e.owned + e.free
    BY <1>3 DEF Grown
  <2>2. b.owned \in Nat /\ b.free \in Nat
    BY <2>1, VolumeFacts
  <2>3. /\ b.root = d.root /\ b.large = d.large /\ b.owned >= d.owned /\ b.free <= d.free
        /\ b.owned + b.free = d.owned + d.free
    BY <1>1, <1>2, <2>1, <2>2
  <2> QED BY <2>1, <2>3 DEF Grown
<1> QED BY <1>1, <1>3

\* Nothing is an insertion too.
LEMMA SelfGrown ==
  ASSUME NEW d \in Volume
  PROVE  d \in Grown(d)
<1>1. d.owned \in Nat /\ d.free \in Nat
  BY VolumeFacts
<1> QED BY <1>1 DEF Grown

\* The three ends of an insertion that has not split a block.
LEMMA EndedFacts ==
  ASSUME NEW d, NEW e \in Grown(d)
  PROVE  Done(e) \in Result(d) /\ Refused(e) \in Result(d) /\ Exists(e) \in Result(d)
<1>1. Done(e) \in Ended(d) /\ Refused(e) \in Ended(d) /\ Exists(e) \in Ended(d)
  BY DEF Done, Refused, Exists, Ended
<1> QED BY <1>1 DEF Result

\* What the end of an insertion below the root may be.
LEMMA ResultFacts ==
  ASSUME NEW d, NEW r \in Result(d)
  PROVE  /\ r.how \in {"done", "refused", "exists", "split"} /\ r.dir \in Grown(d)
         /\ r.how = "split" => r.sep \in Item /\ r.right \in Block
         /\ r.how # "split" => r \in Ended(d)
<1>1. CASE r \in Ended(d)
  BY <1>1 DEF Ended
<1>2. CASE r \in Halved(d)
  BY <1>2 DEF Halved
<1> QED BY <1>1, <1>2 DEF Result

\* The node of block v is n, and nothing else has changed.
Put(d, v, n) == Directory(d.root, d.large, [d.node EXCEPT ![v] = n], d.used, d.owned, d.free)

\* What Put changes and what it keeps.
LEMMA PutFacts ==
  ASSUME NEW d \in Volume, NEW v \in Block, NEW n \in Node, NEW e, e = Put(d, v, n)
  PROVE  /\ e \in Volume /\ e.root = d.root /\ e.large = d.large /\ e.used = d.used
         /\ e.owned = d.owned /\ e.free = d.free /\ e \in Grown(d)
         /\ e.node[v] = n /\ \A u \in Block \ {v} : e.node[u] = d.node[u]
<1>1. /\ d.root \in Node /\ d.large \in BOOLEAN /\ d.node \in [Block -> Node] /\ d.used \in SUBSET Block
      /\ d.owned \in Nat /\ d.free \in Nat /\ d.owned + d.free <= Clusters /\ (d.large => d.owned > 0)
  BY VolumeFacts
<1>2. PICK f : f = [d.node EXCEPT ![v] = n]
  OBVIOUS
<1>3. f \in [Block -> Node] /\ f[v] = n /\ \A u \in Block \ {v} : f[u] = d.node[u]
  BY <1>1, <1>2
<1>4. e = Directory(d.root, d.large, f, d.used, d.owned, d.free)
  BY <1>2 DEF Put
<1>5. /\ e \in Volume /\ e.root = d.root /\ e.large = d.large /\ e.node = f /\ e.used = d.used
      /\ e.owned = d.owned /\ e.free = d.free
  BY <1>1, <1>3, <1>4, DirectoryFacts
<1>6. e \in Grown(d)
  BY <1>1, <1>5 DEF Grown
<1> QED BY <1>3, <1>5, <1>6

\* A block that is written is Put.
LEMMA PutIs ==
  ASSUME NEW d \in Volume, NEW v, NEW n
  PROVE  [d EXCEPT !.node[v] = n] = Put(d, v, n)
<1>1. d = [root |-> d.root, large |-> d.large, node |-> d.node, used |-> d.used,
           owned |-> d.owned, free |-> d.free]
  BY VolumeFacts
<1> QED BY <1>1 DEF Put, Directory

\* r has put the items before and after the median into v and a new block.
SplitAs(d, v, ord, le, re, half, r) ==
  /\ Len(ord) >= 2 /\ ~ NoBlock(d) /\ r.right = NewBlock(d)
  /\ half \in 1..(Len(ord) - 1)
  /\ r.sep = [key |-> ord[half + 1].key, sub |-> v]
  /\ r.dir = Put(Put(AllocBlock(d), v, [keys |-> SubSeq(ord, 1, half), end |-> le]),
                 NewBlock(d), [keys |-> SubSeq(ord, half + 2, Len(ord)), end |-> re])

\* A node is split, or refused and nothing has changed.
LEMMA SplitFacts ==
  ASSUME NEW d \in Volume, NEW v \in Block, NEW ord \in Seq(Item), NEW le \in Sub, NEW re \in Sub,
         NEW r, r = SplitNode(d, v, ord, le, re), NEW half, half = Len(ord) \div 2
  PROVE  /\ r \in Result(d)
         /\ r.how # "split" => r = Refused(d) /\ (Len(ord) < 2 \/ NoBlock(d))
         /\ r.how = "split" => SplitAs(d, v, ord, le, re, half, r)
<1>1. CASE Len(ord) < 2 \/ NoBlock(d)
  <2>1. r = Refused(d)
    BY <1>1 DEF SplitNode
  <2>2. r \in Result(d)
    BY <2>1, SelfGrown, EndedFacts
  <2>3. r.how = "refused"
    BY <2>1 DEF Refused
  <2> QED BY <1>1, <2>1, <2>2, <2>3
<1>2. CASE ~ (Len(ord) < 2 \/ NoBlock(d))
  <2>1. PICK c \in Nat : c = Len(ord)
    OBVIOUS
  <2>2. c >= 2 /\ half = c \div 2
    BY <1>2, <2>1
  <2>3. half \in 1..(c - 1)
    BY <2>2
  <2>4. PICK a : a = AllocBlock(d)
    OBVIOUS
  <2>5. PICK w : w = NewBlock(d)
    OBVIOUS
  <2>6. /\ a \in Volume /\ w \in Block /\ a.root = d.root /\ a.large = d.large
        /\ a.owned >= d.owned /\ a.free <= d.free /\ a.owned + a.free = d.owned + d.free
    BY <1>2, <2>4, <2>5, AllocFacts
  <2>7. PICK l : l = [keys |-> SubSeq(ord, 1, half), end |-> le]
    OBVIOUS
  <2>8. PICK m : m = [keys |-> SubSeq(ord, half + 2, Len(ord)), end |-> re]
    OBVIOUS
  <2>9. l \in Node
    <3>1. 1 \in 1..(Len(ord) + 1) /\ half \in 0..Len(ord) /\ 1 <= half + 1
      BY <2>1, <2>3
    <3> QED BY <2>7, <3>1, SomeFacts
  <2>10. m \in Node
    <3>1. half + 2 \in 1..(Len(ord) + 1) /\ Len(ord) \in 0..Len(ord) /\ half + 2 <= Len(ord) + 1
      BY <2>1, <2>3
    <3> QED BY <2>8, <3>1, SomeFacts
  <2>11. PICK b : b = Put(a, v, l)
    OBVIOUS
  <2>12. PICK e : e = Put(b, w, m)
    OBVIOUS
  <2>13. b \in Volume /\ b \in Grown(a)
    BY <2>6, <2>9, <2>11, PutFacts
  <2>14. e \in Volume /\ e \in Grown(b)
    BY <2>6, <2>10, <2>12, <2>13, PutFacts
  <2>15. a \in Grown(d)
    BY <2>6 DEF Grown
  <2>16. e \in Grown(d)
    BY <2>6, <2>13, <2>14, <2>15, GrownFacts
  <2>17. [a EXCEPT !.node[v] = l, !.node[w] = m] = e
    <3>1. [a EXCEPT !.node[v] = l] = b
      BY <2>6, <2>11, PutIs
    <3>2. [b EXCEPT !.node[w] = m] = e
      BY <2>12, <2>13, PutIs
    <3> QED BY <3>1, <3>2
  <2>18. PICK s : s = [key |-> ord[half + 1].key, sub |-> v]
    OBVIOUS
  <2>19. s \in Item
    <3>1. half + 1 \in 1..Len(ord)
      BY <2>1, <2>3
    <3>2. ord[half + 1] \in Item
      BY <3>1
    <3>3. v \in Sub
      BY ConstFacts
    <3> QED BY <2>18, <3>2, <3>3 DEF Item
  <2>20. r = Split(e, s, w)
    <3>1. r = Split([a EXCEPT !.node[v] = l, !.node[w] = m], s, w)
      BY <1>2, <2>4, <2>5, <2>7, <2>8, <2>18 DEF SplitNode
    <3> QED BY <2>17, <3>1
  <2>21. r.how = "split" /\ r.dir = e /\ r.sep = s /\ r.right = w /\ r \in Halved(d)
    BY <2>6, <2>16, <2>19, <2>20 DEF Split, Halved
  <2>22. r \in Result(d)
    BY <2>21 DEF Result
  <2>23. SplitAs(d, v, ord, le, re, half, r)
    BY <1>2, <2>1, <2>2, <2>3, <2>4, <2>5, <2>7, <2>8, <2>11, <2>12, <2>18, <2>21 DEF SplitAs
  <2> QED BY <2>21, <2>22, <2>23
<1> QED BY <1>1, <1>2

\* A split ends as an insertion may.
LEMMA SplitResult ==
  ASSUME NEW d \in Volume, NEW v \in Block, NEW ord \in Seq(Item), NEW le \in Sub, NEW re \in Sub
  PROVE  SplitNode(d, v, ord, le, re) \in Result(d)
<1>1. PICK half : half = Len(ord) \div 2
  OBVIOUS
<1>2. PICK r : r = SplitNode(d, v, ord, le, re)
  OBVIOUS
<1> QED BY <1>1, <1>2, SplitFacts

\* The keys of leaf v with k among them.
WithKey(d, v, k) == InsertAt(d.node[v].keys, Slot(d.node[v], k), Plain(k))
LeafFits(d, v, k) ==
  SubAt(d.node[v], Slot(d.node[v], k)) = None /\ Width(WithKey(d, v, k)) <= BlockRoom

\* The insertion into a leaf, which fits or splits it.
LEMMA InsertLeafFacts ==
  ASSUME NEW d \in Volume, NEW v \in Block, NEW k \in Key
  PROVE  /\ InsertLeaf(d, v, k) \in Result(d) /\ WithKey(d, v, k) \in Seq(Item)
         /\ Len(WithKey(d, v, k)) = Len(d.node[v].keys) + 1
         /\ LeafFits(d, v, k) =>
              InsertLeaf(d, v, k) = Done(Put(d, v, [keys |-> WithKey(d, v, k), end |-> d.node[v].end]))
         /\ ~ LeafFits(d, v, k) => InsertLeaf(d, v, k) = SplitNode(d, v, WithKey(d, v, k), None, None)
<1>a. PICK r : r = InsertLeaf(d, v, k)
  OBVIOUS
<1>b. PICK n : n = d.node[v]
  OBVIOUS
<1>c. PICK i : i = Slot(n, k)
  OBVIOUS
<1>d. PICK ord : ord = WithKey(d, v, k) /\ ord = InsertAt(n.keys, i, Plain(k))
  BY <1>b, <1>c DEF WithKey
<1>1. n \in Node
  BY <1>b, VolumeFacts
<1>2. i \in 1..(Len(n.keys) + 1)
  BY <1>1, <1>c, SlotFacts
<1>3. ord \in Seq(Item) /\ Len(ord) = Len(n.keys) + 1
  <2>1. Plain(k) \in Item /\ n.keys \in Seq(Item)
    BY <1>1, PlainFacts, NodeFacts
  <2> QED BY <1>2, <1>d, <2>1, InsertFacts
<1>6. LeafFits(d, v, k) <=> SubAt(n, i) = None /\ Width(ord) <= BlockRoom
  BY <1>b, <1>c, <1>d DEF LeafFits
<1>4. CASE SubAt(n, i) = None /\ Width(ord) <= BlockRoom
  <2>1. PICK m : m = [keys |-> ord, end |-> n.end]
    OBVIOUS
  <2>2. m \in Node
    BY <1>1, <1>3, <2>1, NodeFacts DEF Node
  <2>3. [d EXCEPT !.node[v].keys = ord] = Put(d, v, m)
    <3>1. [n EXCEPT !.keys = ord] = m
      BY <1>1, <2>1, NodeFacts
    <3>2. [d EXCEPT !.node[v].keys = ord] = [d EXCEPT !.node[v] = m]
      <4>1. d.node \in [Block -> Node] /\ d = [root |-> d.root, large |-> d.large, node |-> d.node,
              used |-> d.used, owned |-> d.owned, free |-> d.free]
        BY VolumeFacts
      <4>2. [d.node EXCEPT ![v].keys = ord] = [d.node EXCEPT ![v] = m]
        BY <1>b, <3>1, <4>1
      <4>3. [d EXCEPT !.node[v].keys = ord] = [d EXCEPT !.node = [d.node EXCEPT ![v].keys = ord]]
        BY <4>1
      <4>4. [d EXCEPT !.node[v] = m] = [d EXCEPT !.node = [d.node EXCEPT ![v] = m]]
        BY <4>1
      <4> QED BY <4>2, <4>3, <4>4
    <3> QED BY <3>2, PutIs
  <2>4. r = Done(Put(d, v, m))
    BY <1>4, <1>a, <1>b, <1>c, <1>d, <2>3 DEF InsertLeaf
  <2>5. Put(d, v, m) \in Grown(d)
    BY <2>2, PutFacts
  <2>6. r \in Result(d)
    BY <2>4, <2>5, EndedFacts
  <2> QED BY <1>3, <1>6, <1>4, <1>a, <1>b, <1>d, <2>1, <2>4, <2>6
<1>5. CASE ~ (SubAt(n, i) = None /\ Width(ord) <= BlockRoom)
  <2>1. r = SplitNode(d, v, ord, None, None)
    BY <1>5, <1>a, <1>b, <1>c, <1>d DEF InsertLeaf
  <2>2. None \in Sub
    BY ConstFacts
  <2>3. r \in Result(d)
    BY <1>3, <2>1, <2>2, SplitFacts
  <2> QED BY <1>3, <1>6, <1>5, <1>a, <1>b, <1>d, <2>1, <2>3
<1> QED BY <1>4, <1>5

\* The place of the median.
LEMMA HalfFacts ==
  ASSUME NEW c \in Nat, c >= 1
  PROVE  (c \div 2) + 1 \in 1..c
OBVIOUS

\* Block v has an item too many: m.
Overflow(d, v, m) == SplitNode(d, v, m.keys, m.keys[(Len(m.keys) \div 2) + 1].sub, m.end)

\* A separator is put into a block of the tree.
LEMMA PutPromoted ==
  ASSUME NEW d \in Volume, NEW v \in Block, NEW b \in Result(d), b.how = "split",
         NEW m \in Node, Len(m.keys) >= 1
  PROVE  b.dir \in Volume /\ Done(Put(b.dir, v, m)) \in Result(d) /\ Overflow(b.dir, v, m) \in Result(d)
<1>1. b.dir \in Grown(d) /\ b.dir \in Volume
  BY ResultFacts, GrownFacts
<1>3. Done(Put(b.dir, v, m)) \in Result(d)
  <2>1. Put(b.dir, v, m) \in Grown(b.dir)
    BY <1>1, PutFacts
  <2>2. Put(b.dir, v, m) \in Grown(d)
    BY <1>1, <2>1, GrownFacts
  <2> QED BY <2>2, EndedFacts
<1>4. Overflow(b.dir, v, m) \in Result(d)
  <2>1. PICK le : le = m.keys[(Len(m.keys) \div 2) + 1].sub
    OBVIOUS
  <2>2. PICK c \in Nat : c = Len(m.keys) /\ c >= 1
    BY NodeFacts
  <2>3. le \in Sub
    <3>1. (c \div 2) + 1 \in 1..c
      BY <2>2, HalfFacts
    <3> QED BY <2>1, <2>2, <3>1, NodeFacts
  <2>4. m.keys \in Seq(Item) /\ m.end \in Sub
    BY NodeFacts
  <2>5. PICK r : r = SplitNode(b.dir, v, m.keys, le, m.end)
    OBVIOUS
  <2>6. r \in Result(b.dir)
    BY <1>1, <2>3, <2>4, <2>5, SplitResult
  <2>7. Grown(b.dir) \subseteq Grown(d)
    BY <1>1, GrownFacts
  <2>8. r \in Result(d)
    <3>1. CASE r \in Ended(b.dir)
      BY <2>7, <3>1 DEF Ended, Result
    <3>2. CASE r \in Halved(b.dir)
      BY <2>7, <3>2 DEF Halved, Result
    <3> QED BY <2>6, <3>1, <3>2 DEF Result
  <2> QED BY <2>1, <2>5, <2>8 DEF Overflow
<1> QED BY <1>1, <1>3, <1>4

\* A step of the walk of an insertion, by its cases (NtfsBtreeInsertRec).
LEMMA InsertNodeFacts ==
  ASSUME NEW d \in Volume, NEW k \in Key, NEW below \in [Sub -> Result(d)], NEW v \in Sub, Readable(d, v),
         NEW r, r = InsertNode(d, v, k, below), NEW n, n = d.node[v], NEW i, i = Slot(n, k),
         NEW b, b = below[SubAt(n, i)], NEW m, m = Promote(n, i, b.sep, b.right)
  PROVE  /\ v \in Block /\ n \in Node /\ i \in 1..(Len(n.keys) + 1) /\ b \in Result(d) /\ r \in Result(d)
         /\ Has(n, k) => r = Exists(d)
         /\ ~ Has(n, k) /\ n.end = None => r = InsertLeaf(d, v, k)
         /\ ~ Has(n, k) /\ n.end # None /\ b.how # "split" => r = b
         /\ ~ Has(n, k) /\ n.end # None /\ b.how = "split" =>
              \/ Width(m.keys) <= BlockRoom /\ r = Done(Put(b.dir, v, m))
              \/ ~ (Width(m.keys) <= BlockRoom) /\ r = Overflow(b.dir, v, m)
<1>1. v \in Block
  BY DEF Readable
<1>2. n \in Node
  BY <1>1, VolumeFacts
<1>3. i \in 1..(Len(n.keys) + 1)
  BY <1>2, SlotFacts
<1>4. SubAt(n, i) \in Sub
  BY <1>2, <1>3, NodeFacts
<1>5. b \in Result(d)
  BY <1>4
<1>6. Has(n, k) => r = Exists(d)
  BY DEF InsertNode
<1>7. ~ Has(n, k) /\ n.end = None => r = InsertLeaf(d, v, k)
  BY DEF InsertNode
<1>8. ~ Has(n, k) /\ n.end # None /\ b.how # "split" => r = b
  BY DEF InsertNode
<1>9. Exists(d) \in Result(d) /\ InsertLeaf(d, v, k) \in Result(d)
  BY <1>1, SelfGrown, EndedFacts, InsertLeafFacts
<1>10. ASSUME ~ Has(n, k), n.end # None, b.how = "split"
       PROVE  /\ r \in Result(d)
              /\ \/ Width(m.keys) <= BlockRoom /\ r = Done(Put(b.dir, v, m))
                 \/ ~ (Width(m.keys) <= BlockRoom) /\ r = Overflow(b.dir, v, m)
  <2>1. b.sep \in Item /\ b.right \in Sub
    BY <1>5, <1>10, ResultFacts, ConstFacts
  <2>2. m \in Node /\ Len(m.keys) = Len(n.keys) + 1
    <3>1. PICK x : x = b.sep
      OBVIOUS
    <3>2. PICK u : u = b.right
      OBVIOUS
    <3>3. x \in Item /\ u \in Sub /\ m = Promote(n, i, x, u)
      BY <2>1, <3>1, <3>2
    <3> QED BY <1>2, <1>3, <3>3, PromoteFacts
  <2>3. Len(m.keys) >= 1
    BY <1>2, <2>2, NodeFacts
  <2>4. b.dir \in Volume /\ Done(Put(b.dir, v, m)) \in Result(d) /\ Overflow(b.dir, v, m) \in Result(d)
    BY <1>1, <1>5, <1>10, <2>2, <2>3, PutPromoted, Zenon
  <2>5. PICK e : e = [b.dir EXCEPT !.node[v] = m]
    OBVIOUS
  <2>6. r = IF Width(m.keys) <= BlockRoom THEN Done(e) ELSE Overflow(b.dir, v, m)
    BY <1>10, <2>5 DEF InsertNode, Overflow
  <2>7. e = Put(b.dir, v, m)
    <3>1. PICK g : g = b.dir
      OBVIOUS
    <3>2. g \in Volume /\ e = [g EXCEPT !.node[v] = m]
      BY <2>4, <2>5, <3>1
    <3>3. e = Put(g, v, m)
      BY <3>2, PutIs
    <3> QED BY <3>1, <3>3
  <2> QED BY <2>4, <2>6, <2>7, Zenon
<1>11. r \in Result(d)
  BY <1>5, <1>6, <1>7, <1>8, <1>9, <1>10, Zenon
<1> QED BY <1>1, <1>2, <1>3, <1>5, <1>6, <1>7, <1>8, <1>10, <1>11, Zenon

\* Every step of that walk ends as an insertion may.
LEMMA InsertNodeResult ==
  ASSUME NEW d \in Volume, NEW k \in Key, NEW below \in [Sub -> Result(d)], NEW v \in Sub
  PROVE  InsertNode(d, v, k, below) \in Result(d)
<1>1. CASE Readable(d, v)
  BY <1>1, InsertNodeFacts
<1>2. CASE ~ Readable(d, v)
  <2>1. InsertNode(d, v, k, below) = Refused(d)
    BY <1>2 DEF InsertNode
  <2> QED BY <2>1, SelfGrown, EndedFacts
<1> QED BY <1>1, <1>2

\* The levels of a walk are those of its recursion.
LEMMA InsertRecLevels ==
  ASSUME NEW d \in Volume, NEW k \in Key
  PROVE  \E L \in [0..InsertLevels -> [Sub -> Result(d)]] :
           /\ \A w \in Sub : L[0][w] = Refused(d)
           /\ \A h \in 1..InsertLevels : \A w \in Sub : L[h][w] = InsertNode(d, w, k, L[h - 1])
           /\ \A w \in Sub : InsertRec(d, w, k) = L[InsertLevels][w]
<1> DEFINE D == [Sub -> Result(d)]
           f == [b \in D |-> [w \in Sub |-> InsertNode(d, w, k, b)]]
           a == [w \in Sub |-> Refused(d)]
           F(l) == [h \in 0..InsertLevels |-> [w \in Sub |-> IF h = 0 THEN Refused(d) ELSE InsertNode(d, w, k, l[h - 1])]]
<1>1. InsertLevels \in Nat
  BY DEF InsertLevels
<1>2. a \in D
  <2>1. Refused(d) \in Result(d)
    BY SelfGrown, EndedFacts
  <2> QED BY <2>1
<1>3. f \in [D -> D]
  <2>1. ASSUME NEW b \in D PROVE [w \in Sub |-> InsertNode(d, w, k, b)] \in D
    <3>1. \A w \in Sub : InsertNode(d, w, k, b) \in Result(d)
      BY InsertNodeResult
    <3> QED BY <3>1
  <2> QED BY <2>1
<1>4. PICK W \in [0..InsertLevels -> D] : W[0] = a /\ \A h \in 1..InsertLevels : W[h] = f[W[h - 1]]
  <2> HIDE DEF D, f, a
  <2>1. \E W : Follows(W, InsertLevels, D, f, a)
    BY <1>1, <1>2, <1>3, Iterates, Zenon
  <2> QED BY <2>1 DEF Follows
<1>5. \A h \in 1..InsertLevels : h - 1 \in 0..InsertLevels /\ h # 0
  BY <1>1
<1>6. \A h \in 1..InsertLevels : W[h] = [w \in Sub |-> InsertNode(d, w, k, W[h - 1])]
  BY <1>4, <1>5
<1>7. W = F(W)
  <2>1. ASSUME NEW h \in 0..InsertLevels
        PROVE  W[h] = [w \in Sub |-> IF h = 0 THEN Refused(d) ELSE InsertNode(d, w, k, W[h - 1])]
    <3>1. CASE h = 0
      BY <1>4, <3>1
    <3>2. CASE h # 0
      <4>1. h \in 1..InsertLevels
        BY <1>1, <3>2
      <4> QED BY <1>6, <3>2, <4>1
    <3> QED BY <3>1, <3>2
  <2> QED BY <1>4, <2>1
<1>8. PICK L : L = CHOOSE l : l = F(l)
  OBVIOUS
<1>9. L = F(L)
  <2> HIDE DEF F
  <2> QED BY <1>7, <1>8
<1>10. \A w \in Sub : InsertRec(d, w, k) = L[InsertLevels][w]
  BY <1>8 DEF InsertRec
<1>11. L[0] = a
  BY <1>1, <1>9
<1>12. ASSUME NEW h \in 1..InsertLevels PROVE L[h] = [w \in Sub |-> InsertNode(d, w, k, L[h - 1])]
  <2>1. h \in 0..InsertLevels /\ h # 0
    BY <1>1
  <2>2. L[h] = [w \in Sub |-> IF h = 0 THEN Refused(d) ELSE InsertNode(d, w, k, L[h - 1])]
    BY <1>9, <2>1
  <2> QED BY <2>1, <2>2
<1>13. \A h \in 0..InsertLevels : L[h] \in D
  <2> DEFINE G == {h \in 0..InsertLevels : L[h] \in D}
  <2>1. 0 \in G
    BY <1>1, <1>2, <1>11
  <2>2. ASSUME NEW h \in 1..InsertLevels, h - 1 \in G PROVE h \in G
    <3>1. L[h - 1] \in D
      BY <2>2
    <3>2. L[h] = f[L[h - 1]]
      BY <1>12, <3>1
    <3>3. h \in 0..InsertLevels
      BY <1>1
    <3> QED BY <1>3, <3>1, <3>2, <3>3
  <2> HIDE DEF G
  <2>3. \A h \in 0..InsertLevels : h \in G
    BY <1>1, <2>1, <2>2, KeptByAll
  <2> QED BY <2>3 DEF G
<1>14. L \in [0..InsertLevels -> D]
  <2>1. L = [h \in 0..InsertLevels |-> L[h]]
    BY <1>9
  <2> QED BY <1>13, <2>1
<1> HIDE DEF F, f
<1>15. \A w \in Sub : L[0][w] = Refused(d)
  BY <1>11
<1>16. \A h \in 1..InsertLevels : \A w \in Sub : L[h][w] = InsertNode(d, w, k, L[h - 1])
  BY <1>12
<1> HIDE DEF a
<1> QED BY <1>10, <1>14, <1>15, <1>16

(***************************************************************************)
(* Insertion at the root.                                                  *)
(***************************************************************************)
Call3 == [how : {"done", "refused", "exists"}, dir : Volume]

\* The ends of a whole insertion.
LEMMA Call3Facts ==
  ASSUME NEW e \in Volume
  PROVE  Done(e) \in Call3 /\ Refused(e) \in Call3 /\ Exists(e) \in Call3
BY DEF Done, Refused, Exists, Call3

\* An insertion below the root that has not split its block can be the end of the whole.
LEMMA ResultCall3 ==
  ASSUME NEW d \in Volume, NEW r \in Result(d), r.how # "split"
  PROVE  r \in Call3
<1>1. r \in Ended(d)
  BY ResultFacts
<1>2. Grown(d) \subseteq Volume
  BY DEF Grown
<1> QED BY <1>1, <1>2 DEF Ended, Call3

EmptyRoot(v) == [keys |-> << >>, end |-> v]

\* A root with a single child.
LEMMA EmptyRootFacts ==
  ASSUME NEW v \in Sub
  PROVE  EmptyRoot(v) \in Node /\ EmptyRoot(v).keys = << >> /\ EmptyRoot(v).end = v
<1>1. << >> \in Seq(Item)
  OBVIOUS
<1> QED BY <1>1 DEF EmptyRoot, Node

\* A folded index gets its first block back, and loses no cluster.
LEMMA ExpandFacts ==
  ASSUME NEW d \in Volume, d.owned > 0
  PROVE  /\ Expand(d) \in Volume /\ Expand(d).large /\ Expand(d).owned = d.owned /\ Expand(d).free = d.free
         /\ d.large => Expand(d) = d
         /\ ~ d.large =>
              /\ 0 \in Block
              /\ Expand(d) = Directory(EmptyRoot(0), TRUE, [d.node EXCEPT ![0] = Leaf(<< >>)],
                                       d.used \cup {0}, d.owned, d.free)
<1>1. /\ d.root \in Node /\ d.large \in BOOLEAN /\ d.node \in [Block -> Node] /\ d.used \in SUBSET Block
      /\ d.owned \in Nat /\ d.free \in Nat /\ d.owned + d.free <= Clusters /\ d.owned <= Clusters
      /\ d = [root |-> d.root, large |-> d.large, node |-> d.node, used |-> d.used,
              owned |-> d.owned, free |-> d.free]
  BY VolumeFacts
<1>2. 0 \in Block /\ 0 \in Sub
  <2>1. Clusters >= 1 /\ Clusters \in Nat
    BY <1>1, ConstFacts
  <2> QED BY <2>1, ConstFacts DEF Block
<1>3. CASE d.large
  <2>1. Expand(d) = d
    BY <1>3 DEF Expand
  <2> QED BY <1>3, <2>1
<1>4. CASE ~ d.large
  <2>1. PICK f : f = [d.node EXCEPT ![0] = Leaf(<< >>)]
    OBVIOUS
  <2>2. f \in [Block -> Node]
    BY <1>1, <1>2, <2>1, EmptyLeafFacts
  <2>3. PICK u : u = d.used \cup {0}
    OBVIOUS
  <2>4. u \in SUBSET Block
    BY <1>1, <1>2, <2>3
  <2>5. PICK e : e = Directory(EmptyRoot(0), TRUE, f, u, d.owned, d.free)
    OBVIOUS
  <2>6. Expand(d) = e
    <3>1. PICK p : p = [d EXCEPT !.node[0] = Leaf(<< >>)]
      OBVIOUS
    <3>2. p = Directory(d.root, d.large, f, d.used, d.owned, d.free)
      BY <2>1, <3>1, PutIs DEF Put
    <3>3. Expand(d) = [p EXCEPT !.used = @ \cup {0}, !.large = TRUE, !.root = EmptyRoot(0)]
      BY <1>4, <3>1 DEF Expand, EmptyRoot
    <3> QED BY <2>3, <2>5, <3>2, <3>3 DEF Directory
  <2>7. e \in Volume /\ e.large = TRUE /\ e.owned = d.owned /\ e.free = d.free
    BY <1>1, <1>2, <2>2, <2>4, <2>5, EmptyRootFacts, DirectoryFacts
  <2> QED BY <1>2, <1>4, <2>1, <2>3, <2>5, <2>6, <2>7
<1> QED BY <1>3, <1>4

\* The node that a push-down writes.
Pushed(n) == IF n.end = None THEN [n EXCEPT !.end = -1] ELSE n

\* What the new block holds after a push-down.
LEMMA PushedFacts ==
  ASSUME NEW n \in Node
  PROVE  /\ Pushed(n) \in Node /\ Pushed(n).keys = n.keys
         /\ Pushed(n).end = IF n.end = None THEN -1 ELSE n.end
<1>1. n.keys \in Seq(Item) /\ n.end \in Sub /\ n = [keys |-> n.keys, end |-> n.end]
  BY NodeFacts
<1>2. CASE n.end = None
  <2>1. Pushed(n) = [keys |-> n.keys, end |-> -1]
    BY <1>1, <1>2 DEF Pushed
  <2>2. -1 \in Sub
    BY ConstFacts
  <2> QED BY <1>1, <1>2, <2>1, <2>2 DEF Node
<1>3. CASE n.end # None
  BY <1>1, <1>3 DEF Pushed
<1> QED BY <1>2, <1>3

\* The push-down of the root's items into a block of their own (NtfsBtreePushDownRoot).
LEMMA PushDownFacts ==
  ASSUME NEW d \in Volume, ~ NoBlock(d)
  PROVE  /\ PushDownRoot(d) \in Volume
         /\ PushDownRoot(d) = Directory(EmptyRoot(NewBlock(d)), d.large,
              [d.node EXCEPT ![NewBlock(d)] = Pushed(d.root)],
              d.used \cup {NewBlock(d)}, AllocBlock(d).owned, AllocBlock(d).free)
<1>1. /\ d.root \in Node /\ d.large \in BOOLEAN /\ d.node \in [Block -> Node] /\ d.used \in SUBSET Block
  BY VolumeFacts
<1>2. PICK a : a = AllocBlock(d)
  OBVIOUS
<1>3. PICK w : w = NewBlock(d)
  OBVIOUS
<1>4. /\ a \in Volume /\ w \in Block /\ a.root = d.root /\ a.large = d.large /\ a.node = d.node
      /\ a.used = d.used \cup {w} /\ a.owned > 0
  BY <1>2, <1>3, AllocFacts
<1>5. /\ a.owned \in Nat /\ a.free \in Nat /\ a.owned + a.free <= Clusters /\ a.used \in SUBSET Block
      /\ a = [root |-> a.root, large |-> a.large, node |-> a.node, used |-> a.used,
              owned |-> a.owned, free |-> a.free]
  BY <1>4, VolumeFacts
<1>6. PICK f : f = [d.node EXCEPT ![w] = Pushed(d.root)]
  OBVIOUS
<1>7. f \in [Block -> Node]
  BY <1>1, <1>4, <1>6, PushedFacts
<1>8. PICK e : e = Directory(EmptyRoot(w), d.large, f, a.used, a.owned, a.free)
  OBVIOUS
<1>9. e \in Volume
  <2>1. w \in Sub
    BY <1>4, ConstFacts
  <2> QED BY <1>1, <1>4, <1>5, <1>7, <1>8, <2>1, EmptyRootFacts, DirectoryFacts
<1>10. PushDownRoot(d) = e
  <2>1. PushDownRoot(d) = [a EXCEPT !.node[w] = Pushed(d.root), !.root = EmptyRoot(w)]
    BY <1>2, <1>3 DEF PushDownRoot, Pushed, EmptyRoot
  <2>2. [a EXCEPT !.node[w] = Pushed(d.root), !.root = EmptyRoot(w)] = e
    <3>1. PICK p : p = [a EXCEPT !.node[w] = Pushed(d.root)]
      OBVIOUS
    <3>2. p = Directory(a.root, a.large, f, a.used, a.owned, a.free)
      <4>1. PICK q : q = Pushed(d.root)
        OBVIOUS
      <4>2. p = [a EXCEPT !.node[w] = q] /\ f = [a.node EXCEPT ![w] = q]
        BY <1>4, <1>6, <3>1, <4>1
      <4>3. p = Put(a, w, q)
        BY <1>4, <4>2, PutIs
      <4> QED BY <4>2, <4>3 DEF Put
    <3>3. [a EXCEPT !.node[w] = Pushed(d.root), !.root = EmptyRoot(w)] = [p EXCEPT !.root = EmptyRoot(w)]
      BY <3>1
    <3> QED BY <1>4, <1>8, <3>2, <3>3 DEF Directory
  <2> QED BY <2>1, <2>2
<1> QED BY <1>2, <1>3, <1>4, <1>6, <1>8, <1>9, <1>10

\* The root's slot of a child.
LEMMA SlotOfFacts ==
  ASSUME NEW n \in Node, NEW v, NEW i \in 1..(Len(n.keys) + 1), SubAt(n, i) = v
  PROVE  /\ Min(SlotOf(n, v)) \in 1..(Len(n.keys) + 1)
         /\ SubAt(n, Min(SlotOf(n, v))) = v
         /\ Min(SlotOf(n, v)) <= i
<1>1. Len(n.keys) \in Nat
  BY NodeFacts
<1>2. PICK T : T = SlotOf(n, v)
  OBVIOUS
<1>3. T \in SUBSET Nat /\ i \in T /\ \A j \in T : j \in 1..(Len(n.keys) + 1) /\ SubAt(n, j) = v
  BY <1>1, <1>2 DEF SlotOf
<1>4. Min(T) \in T /\ \A y \in T : Min(T) <= y
  BY <1>3, MinFacts
<1> QED BY <1>2, <1>3, <1>4

RootWith(d, n) == Directory(n, d.large, d.node, d.used, d.owned, d.free)

\* The record is written, and nothing else changes.
LEMMA RootWithFacts ==
  ASSUME NEW d \in Volume, NEW n \in Node
  PROVE  /\ RootWith(d, n) \in Volume /\ RootWith(d, n).root = n /\ RootWith(d, n).large = d.large
         /\ RootWith(d, n).node = d.node /\ RootWith(d, n).used = d.used
         /\ RootWith(d, n).owned = d.owned /\ RootWith(d, n).free = d.free
         /\ [d EXCEPT !.root = n] = RootWith(d, n)
<1>1. /\ d.root \in Node /\ d.large \in BOOLEAN /\ d.node \in [Block -> Node] /\ d.used \in SUBSET Block
      /\ d.owned \in Nat /\ d.free \in Nat /\ d.owned + d.free <= Clusters /\ (d.large => d.owned > 0)
      /\ d = [root |-> d.root, large |-> d.large, node |-> d.node, used |-> d.used,
              owned |-> d.owned, free |-> d.free]
  BY VolumeFacts
<1>2. PICK e : e = Directory(n, d.large, d.node, d.used, d.owned, d.free)
  OBVIOUS
<1>3. /\ e \in Volume /\ e.root = n /\ e.large = d.large /\ e.node = d.node /\ e.used = d.used
      /\ e.owned = d.owned /\ e.free = d.free
  BY <1>1, <1>2, DirectoryFacts
<1>4. [d EXCEPT !.root = n] = e
  BY <1>1, <1>2 DEF Directory
<1> QED BY <1>2, <1>3, <1>4 DEF RootWith

RootPromoted(r, v) == Promote(r.dir.root, Min(SlotOf(r.dir.root, v)), r.sep, r.right)

\* A separator goes into the record if there is room (NtfsRootInsertSep).
LEMMA RootInsertSepFacts ==
  ASSUME NEW d \in Volume, NEW r \in Result(d), r.how = "split",
         NEW i \in 1..(Len(d.root.keys) + 1), NEW v, SubAt(d.root, i) = v
  PROVE  /\ RootPromoted(r, v) \in Node
         /\ RootInsertSep(r, v) \in Call3
         /\ RootInsertSep(r, v) = IF Width(RootPromoted(r, v).keys) <= RootRoom
                                  THEN Done(RootWith(r.dir, RootPromoted(r, v))) ELSE Refused(r.dir)
         /\ RootInsertSep(r, v).dir.free = r.dir.free
<1>1. PICK g : g = r.dir
  OBVIOUS
<1>2. g \in Volume /\ g.root = d.root /\ r.sep \in Item /\ r.right \in Sub
  BY <1>1, ResultFacts, GrownFacts, ConstFacts
<1>3. PICK n \in Node : n = g.root
  BY <1>2, VolumeFacts
<1>4. PICK j : j = Min(SlotOf(n, v))
  OBVIOUS
<1>5. j \in 1..(Len(n.keys) + 1)
  BY <1>2, <1>3, <1>4, SlotOfFacts
<1>6. PICK m : m = RootPromoted(r, v)
  OBVIOUS
<1>7. m \in Node
  <2>1. PICK x : x = r.sep
    OBVIOUS
  <2>2. PICK u : u = r.right
    OBVIOUS
  <2>3. x \in Item /\ u \in Sub /\ m = Promote(n, j, x, u)
    BY <1>1, <1>2, <1>3, <1>4, <1>6, <2>1, <2>2 DEF RootPromoted
  <2> QED BY <1>5, <2>3, PromoteFacts
<1>8. /\ RootWith(g, m) \in Volume /\ RootWith(g, m).free = g.free /\ [g EXCEPT !.root = m] = RootWith(g, m)
  BY <1>2, <1>7, RootWithFacts
<1>9. RootInsertSep(r, v) = IF Width(m.keys) <= RootRoom THEN Done(RootWith(g, m)) ELSE Refused(g)
  BY <1>1, <1>6, <1>8 DEF RootInsertSep, RootPromoted
<1>10. Done(RootWith(g, m)) \in Call3 /\ Refused(g) \in Call3
  BY <1>2, <1>8, Call3Facts
<1>11. Done(RootWith(g, m)).dir.free = g.free /\ Refused(g).dir.free = g.free
  BY <1>8 DEF Done, Refused
<1> QED BY <1>1, <1>6, <1>7, <1>9, <1>10, <1>11

\* The parts of an insertion into an index that has blocks: the directory that is
\* gone down into, the slot of the root, how the insertion below the root ends,
\* how the whole ends, and what a call that has not gone well leaves.
Start(d, k) == IF RootFull(Expand(d), k) THEN PushDownRoot(Expand(d)) ELSE Expand(d)
Way(d, k) == SubAt(Start(d, k).root, Slot(Start(d, k).root, k))
Deep(d, k) == InsertRec(Start(d, k), Way(d, k), k)
Outcome(d, k) ==
  IF Has(Start(d, k).root, k) THEN Exists(Start(d, k))
  ELSE IF Way(d, k) = None THEN Refused(Start(d, k))
  ELSE IF Deep(d, k).how = "split" THEN RootInsertSep(Deep(d, k), Way(d, k)) ELSE Deep(d, k)
LeftBy(d, k) ==
  [Expand(d) EXCEPT !.free = Outcome(d, k).dir.free,
                    !.node = [w \in Block |-> IF w < Expand(d).owned THEN Start(d, k).node[w] ELSE @[w]]]

\* The directory that is gone down into, and the child of its root.
LEMMA StartFacts ==
  ASSUME NEW d \in Volume, NEW k \in Key, d.owned > 0,
         ~ (RootFull(Expand(d), k) /\ NoBlock(Expand(d)))
  PROVE  /\ Start(d, k) \in Volume /\ Start(d, k).free <= d.free /\ Start(d, k).root \in Node
         /\ Slot(Start(d, k).root, k) \in 1..(Len(Start(d, k).root.keys) + 1)
         /\ Way(d, k) \in Sub
         /\ Deep(d, k) \in Result(Start(d, k))
<1>1. PICK e : e = Expand(d)
  OBVIOUS
<1>2. e \in Volume /\ e.free = d.free /\ d.free \in Nat
  BY <1>1, ExpandFacts, VolumeFacts
<1>3. PICK p : p = Start(d, k)
  OBVIOUS
<1>4. p \in Volume /\ p.free <= d.free
  <2>1. CASE RootFull(e, k)
    <3>1. p = PushDownRoot(e) /\ ~ NoBlock(e)
      BY <1>1, <1>3, <2>1 DEF Start
    <3>2. PICK a : a = AllocBlock(e)
      OBVIOUS
    <3>3. PICK w : w = NewBlock(e)
      OBVIOUS
    <3>4. a \in Volume /\ a.free <= e.free /\ a.owned > 0 /\ a.used = e.used \cup {w} /\ w \in Block
      BY <1>2, <3>1, <3>2, <3>3, AllocFacts
    <3>5. p \in Volume /\ p = Directory(EmptyRoot(w), e.large, [e.node EXCEPT ![w] = Pushed(e.root)],
                                        e.used \cup {w}, a.owned, a.free)
      BY <1>2, <3>1, <3>2, <3>3, PushDownFacts
    <3>6. p.free = a.free
      BY <3>5 DEF Directory
    <3> QED BY <1>2, <3>4, <3>5, <3>6
  <2>2. CASE ~ RootFull(e, k)
    <3>1. p = e
      BY <1>1, <1>3, <2>2 DEF Start
    <3> QED BY <1>2, <3>1
  <2> QED BY <2>1, <2>2
<1>5. p.root \in Node
  BY <1>4, VolumeFacts
<1>6. Slot(p.root, k) \in 1..(Len(p.root.keys) + 1)
  BY <1>5, SlotFacts
<1>7. SubAt(p.root, Slot(p.root, k)) \in Sub
  BY <1>5, <1>6, NodeFacts
<1>8. \A w \in Sub : InsertRec(p, w, k) \in Result(p)
  <2>1. PICK L \in [0..InsertLevels -> [Sub -> Result(p)]] : \A w \in Sub : InsertRec(p, w, k) = L[InsertLevels][w]
    BY <1>4, InsertRecLevels
  <2>2. InsertLevels \in 0..InsertLevels
    BY DEF InsertLevels
  <2> QED BY <2>1, <2>2
<1> QED BY <1>3, <1>4, <1>5, <1>6, <1>7, <1>8 DEF Way, Deep

\* The insertion below the root and in it ends as a whole insertion may.
LEMMA OutcomeFacts ==
  ASSUME NEW d \in Volume, NEW k \in Key, d.owned > 0,
         ~ (RootFull(Expand(d), k) /\ NoBlock(Expand(d)))
  PROVE  Outcome(d, k) \in Call3 /\ Outcome(d, k).dir.free <= d.free
<1>1. PICK p : p = Start(d, k)
  OBVIOUS
<1>2. PICK i : i = Slot(p.root, k)
  OBVIOUS
<1>3. PICK v : v = Way(d, k)
  OBVIOUS
<1>4. PICK r : r = Deep(d, k)
  OBVIOUS
<1>5. /\ p \in Volume /\ p.free <= d.free /\ i \in 1..(Len(p.root.keys) + 1) /\ SubAt(p.root, i) = v
      /\ r \in Result(p)
  BY <1>1, <1>2, <1>3, <1>4, StartFacts DEF Way
<1>6. p.free \in Nat /\ d.free \in Nat
  BY <1>5, VolumeFacts
<1>7. r.dir \in Volume /\ r.dir.free <= p.free /\ r.dir.free \in Nat
  BY <1>5, ResultFacts, GrownFacts, VolumeFacts
<1>8. CASE Has(p.root, k)
  <2>1. Outcome(d, k) = Exists(p)
    BY <1>1, <1>8 DEF Outcome
  <2> QED BY <1>5, <2>1, Call3Facts DEF Exists
<1>9. CASE ~ Has(p.root, k) /\ v = None
  <2>1. Outcome(d, k) = Refused(p)
    BY <1>1, <1>3, <1>9 DEF Outcome
  <2> QED BY <1>5, <2>1, Call3Facts DEF Refused
<1>10. CASE ~ Has(p.root, k) /\ v # None /\ r.how = "split"
  <2>1. Outcome(d, k) = RootInsertSep(r, v)
    BY <1>1, <1>3, <1>4, <1>10 DEF Outcome
  <2>2. RootInsertSep(r, v) \in Call3 /\ RootInsertSep(r, v).dir.free = r.dir.free
    BY <1>5, <1>10, RootInsertSepFacts
  <2> QED BY <1>5, <1>6, <1>7, <2>1, <2>2
<1>11. CASE ~ Has(p.root, k) /\ v # None /\ r.how # "split"
  <2>1. Outcome(d, k) = r
    BY <1>1, <1>3, <1>4, <1>11 DEF Outcome
  <2>2. r \in Call3
    BY <1>5, <1>11, ResultCall3
  <2> QED BY <1>5, <1>6, <1>7, <2>1, <2>2
<1> QED BY <1>8, <1>9, <1>10, <1>11

\* What a call that has not gone well leaves is a directory.
LEMMA LeftByFacts ==
  ASSUME NEW d \in Volume, NEW k \in Key, d.owned > 0,
         ~ (RootFull(Expand(d), k) /\ NoBlock(Expand(d)))
  PROVE  /\ LeftBy(d, k) \in Volume
         /\ LeftBy(d, k) = Directory(Expand(d).root, TRUE,
              [w \in Block |-> IF w < d.owned THEN Start(d, k).node[w] ELSE Expand(d).node[w]],
              Expand(d).used, d.owned, Outcome(d, k).dir.free)
<1>1. PICK e : e = Expand(d)
  OBVIOUS
<1>2. PICK p : p = Start(d, k)
  OBVIOUS
<1>3. PICK s : s = Outcome(d, k)
  OBVIOUS
<1>4. e \in Volume /\ e.large = TRUE /\ e.owned = d.owned /\ e.free = d.free
  BY <1>1, ExpandFacts, VolumeFacts
<1>5. p \in Volume /\ s.dir \in Volume /\ s.dir.free <= d.free
  BY <1>2, <1>3, StartFacts, OutcomeFacts DEF Call3
<1>6. s.dir.free \in Nat /\ d.free \in Nat /\ d.owned \in Nat /\ d.owned + d.free <= Clusters
      /\ e.root \in Node /\ e.used \in SUBSET Block
      /\ e = [root |-> e.root, large |-> e.large, node |-> e.node, used |-> e.used,
              owned |-> e.owned, free |-> e.free]
  BY <1>4, <1>5, VolumeFacts
<1>7. PICK x : x = s.dir.free
  OBVIOUS
<1>8. PICK f : f = [w \in Block |-> IF w < d.owned THEN p.node[w] ELSE e.node[w]]
  OBVIOUS
<1>9. f \in [Block -> Node]
  <2>1. \A w \in Block : p.node[w] \in Node /\ e.node[w] \in Node
    BY <1>4, <1>5, VolumeFacts
  <2> QED BY <1>8, <2>1
<1>10. d.owned + x <= Clusters /\ x \in Nat
  BY <1>5, <1>6, <1>7, ConstFacts
<1>11. PICK g : g = Directory(e.root, TRUE, f, e.used, d.owned, x)
  OBVIOUS
<1>12. g \in Volume
  BY <1>6, <1>9, <1>10, <1>11, DirectoryFacts
<1>13. LeftBy(d, k) = g
  <2>1. LeftBy(d, k) = [e EXCEPT !.free = x, !.node = f]
    <3>1. f = [w \in Block |-> IF w < e.owned THEN p.node[w] ELSE e.node[w]]
      BY <1>4, <1>8
    <3>2. LeftBy(d, k) = [e EXCEPT !.free = x, !.node = [w \in Block |-> IF w < e.owned THEN p.node[w] ELSE @[w]]]
      BY <1>1, <1>2, <1>3, <1>7 DEF LeftBy
    <3> QED BY <1>6, <3>1, <3>2
  <2> QED BY <1>4, <1>6, <1>11, <2>1 DEF Directory
<1> QED BY <1>1, <1>2, <1>3, <1>7, <1>8, <1>11, <1>12, <1>13

\* The insertion into an index that has blocks, by its cases.
LEMMA InsertLargeFacts ==
  ASSUME NEW d \in Volume, NEW k \in Key, d.owned > 0
  PROVE  /\ InsertLarge(d, k) \in Call3
         /\ RootFull(Expand(d), k) /\ NoBlock(Expand(d)) => InsertLarge(d, k) = Refused(Expand(d))
         /\ ~ (RootFull(Expand(d), k) /\ NoBlock(Expand(d))) =>
              /\ InsertLarge(d, k).how = Outcome(d, k).how
              /\ InsertLarge(d, k).dir = IF Outcome(d, k).how = "done" THEN Outcome(d, k).dir ELSE LeftBy(d, k)
<1>1. CASE RootFull(Expand(d), k) /\ NoBlock(Expand(d))
  <2>1. InsertLarge(d, k) = Refused(Expand(d))
    BY <1>1 DEF InsertLarge
  <2>2. Expand(d) \in Volume
    BY ExpandFacts
  <2>3. Refused(Expand(d)) \in Call3
    BY <2>2, Call3Facts
  <2> QED BY <1>1, <2>1, <2>3
<1>2. CASE ~ (RootFull(Expand(d), k) /\ NoBlock(Expand(d)))
  <2>1. PICK s : s = Outcome(d, k)
    OBVIOUS
  <2>2. PICK g : g = LeftBy(d, k)
    OBVIOUS
  <2>3. s \in Call3 /\ g \in Volume
    BY <1>2, <2>1, <2>2, OutcomeFacts, LeftByFacts
  <2>4. InsertLarge(d, k) = IF s.how = "done" THEN s ELSE [s EXCEPT !.dir = g]
    BY <1>2, <2>1, <2>2 DEF InsertLarge, Outcome, LeftBy, Start, Way, Deep
  <2>5. [s EXCEPT !.dir = g] \in Call3 /\ [s EXCEPT !.dir = g].how = s.how /\ [s EXCEPT !.dir = g].dir = g
    BY <2>3 DEF Call3
  <2>6. InsertLarge(d, k) \in Call3 /\ InsertLarge(d, k).how = s.how
        /\ InsertLarge(d, k).dir = IF s.how = "done" THEN s.dir ELSE g
    <3>1. CASE s.how = "done"
      BY <2>3, <2>4, <3>1
    <3>2. CASE s.how # "done"
      BY <2>4, <2>5, <3>2
    <3> QED BY <3>1, <3>2
  <2> QED BY <1>2, <2>1, <2>2, <2>6, Zenon
<1> QED BY <1>1, <1>2

\* Insertion into an index that is all in the record.
RootKeys(d, k) == InsertAt(d.root.keys, Slot(d.root, k), Plain(k))

\* The insertion into an index that has none, by its cases.
LEMMA InsertSmallFacts ==
  ASSUME NEW d \in Volume, NEW k \in Key, d.owned = 0
  PROVE  /\ InsertSmall(d, k) \in Call3 /\ RootKeys(d, k) \in Seq(Item)
         /\ Len(RootKeys(d, k)) = Len(d.root.keys) + 1
         /\ Has(d.root, k) => InsertSmall(d, k) = Exists(d)
         /\ ~ Has(d.root, k) /\ Width(RootKeys(d, k)) <= RootRoom =>
              InsertSmall(d, k) = Done(RootWith(d, [keys |-> RootKeys(d, k), end |-> d.root.end]))
         /\ ~ Has(d.root, k) /\ ~ (Width(RootKeys(d, k)) <= RootRoom) /\ NoChunk(d) => InsertSmall(d, k) = Refused(d)
         /\ ~ Has(d.root, k) /\ ~ (Width(RootKeys(d, k)) <= RootRoom) /\ ~ NoChunk(d) =>
              /\ 0 \in Block
              /\ InsertSmall(d, k) = Done(Directory(EmptyRoot(0), TRUE, [d.node EXCEPT ![0] = Leaf(RootKeys(d, k))],
                                                    {0}, 1, d.free - 1))
<1>1. /\ d.root \in Node /\ d.large \in BOOLEAN /\ d.node \in [Block -> Node] /\ d.used \in SUBSET Block
      /\ d.owned \in Nat /\ d.free \in Nat /\ d.owned + d.free <= Clusters /\ d.free <= Clusters
      /\ d = [root |-> d.root, large |-> d.large, node |-> d.node, used |-> d.used,
              owned |-> d.owned, free |-> d.free]
  BY VolumeFacts
<1>2. PICK ord : ord = RootKeys(d, k)
  OBVIOUS
<1>3. ord \in Seq(Item) /\ Len(ord) = Len(d.root.keys) + 1
  <2>1. PICK n : n = d.root
    OBVIOUS
  <2>2. PICK i : i = Slot(n, k)
    OBVIOUS
  <2>3. n \in Node /\ i \in 1..(Len(n.keys) + 1) /\ n.keys \in Seq(Item) /\ Plain(k) \in Item
    BY <1>1, <2>1, <2>2, SlotFacts, NodeFacts, PlainFacts
  <2>4. ord = InsertAt(n.keys, i, Plain(k))
    BY <1>2, <2>1, <2>2 DEF RootKeys
  <2> QED BY <2>1, <2>3, <2>4, InsertFacts
<1>4. CASE Has(d.root, k)
  <2>1. InsertSmall(d, k) = Exists(d)
    BY <1>4 DEF InsertSmall
  <2> QED BY <1>2, <1>3, <1>4, <2>1, Call3Facts
<1>5. CASE ~ Has(d.root, k) /\ Width(ord) <= RootRoom
  <2>1. PICK m : m = [keys |-> ord, end |-> d.root.end]
    OBVIOUS
  <2>2. m \in Node
    BY <1>1, <1>3, <2>1, NodeFacts DEF Node
  <2>3. InsertSmall(d, k) = Done([d EXCEPT !.root.keys = ord])
    BY <1>2, <1>5 DEF InsertSmall, RootKeys
  <2>4. [d EXCEPT !.root.keys = ord] = RootWith(d, m)
    <3>1. [d.root EXCEPT !.keys = ord] = m
      BY <1>1, <2>1, NodeFacts
    <3>2. [d EXCEPT !.root.keys = ord] = [d EXCEPT !.root = [d.root EXCEPT !.keys = ord]]
      BY <1>1
    <3>3. [d EXCEPT !.root = m] = RootWith(d, m)
      BY <2>2, RootWithFacts
    <3> QED BY <3>1, <3>2, <3>3
  <2>5. RootWith(d, m) \in Volume
    BY <2>2, RootWithFacts
  <2> QED BY <1>2, <1>3, <1>5, <2>1, <2>3, <2>4, <2>5, Call3Facts
<1>6. CASE ~ Has(d.root, k) /\ ~ (Width(ord) <= RootRoom) /\ NoChunk(d)
  <2>1. InsertSmall(d, k) = Refused(d)
    BY <1>2, <1>6 DEF InsertSmall, RootKeys
  <2> QED BY <1>2, <1>3, <1>6, <2>1, Call3Facts
<1>7. CASE ~ Has(d.root, k) /\ ~ (Width(ord) <= RootRoom) /\ ~ NoChunk(d)
  <2>0. d.free # 0
    BY <1>7 DEF NoChunk
  <2>1. Clusters >= 1 /\ Clusters \in Nat /\ d.free - 1 \in Nat /\ 1 + (d.free - 1) <= Clusters
    BY <1>1, <2>0, ConstFacts
  <2>2. 0 \in Block /\ 0 \in Sub
    BY <2>1, ConstFacts DEF Block
  <2>3. PICK f : f = [d.node EXCEPT ![0] = Leaf(ord)]
    OBVIOUS
  <2>4. f \in [Block -> Node]
    BY <1>1, <1>3, <2>2, <2>3, LeafFacts
  <2>5. PICK x : x = d.free - 1
    OBVIOUS
  <2>6. PICK e : e = Directory(EmptyRoot(0), TRUE, f, {0}, 1, x)
    OBVIOUS
  <2>7. e \in Volume
    BY <2>1, <2>2, <2>4, <2>5, <2>6, EmptyRootFacts, DirectoryFacts
  <2>8. InsertSmall(d, k) = Done(e)
    <3>1. PICK q : q = Leaf(ord)
      OBVIOUS
    <3>2. PICK z : z = EmptyRoot(0)
      OBVIOUS
    <3>3. InsertSmall(d, k) = Done([d EXCEPT !.root = z, !.large = TRUE, !.node[0] = q, !.used = {0},
                                            !.owned = 1, !.free = x])
      BY <1>2, <1>7, <2>5, <3>1, <3>2 DEF InsertSmall, RootKeys, EmptyRoot
    <3>4. [d EXCEPT !.root = z, !.large = TRUE, !.node[0] = q, !.used = {0}, !.owned = 1, !.free = x]
            = [root |-> z, large |-> TRUE, node |-> [d.node EXCEPT ![0] = q], used |-> {0}, owned |-> 1,
               free |-> x]
      <4>1. PICK p : p = [d EXCEPT !.root = z]
        OBVIOUS
      <4>2. p = Directory(z, d.large, d.node, d.used, d.owned, d.free)
        BY <1>1, <4>1 DEF Directory
      <4>3. PICK h : h = [p EXCEPT !.node[0] = q]
        OBVIOUS
      <4>4. h = Directory(z, d.large, [d.node EXCEPT ![0] = q], d.used, d.owned, d.free)
        <5>1. h = [p EXCEPT !.node = [p.node EXCEPT ![0] = q]]
          BY <4>2, <4>3 DEF Directory
        <5> QED BY <4>2, <5>1 DEF Directory
      <4>5. [d EXCEPT !.root = z, !.large = TRUE, !.node[0] = q, !.used = {0}, !.owned = 1, !.free = x]
              = [h EXCEPT !.large = TRUE, !.used = {0}, !.owned = 1, !.free = x]
        BY <4>1, <4>3
      <4>6. PICK f0 : f0 = [d.node EXCEPT ![0] = q]
        OBVIOUS
      <4>7. h = [root |-> z, large |-> d.large, node |-> f0, used |-> d.used, owned |-> d.owned, free |-> d.free]
        BY <4>4, <4>6 DEF Directory
      <4>8. PICK r : r = [h EXCEPT !.large = TRUE, !.used = {0}, !.owned = 1, !.free = x]
        OBVIOUS
      <4>9. r = [root |-> z, large |-> TRUE, node |-> f0, used |-> {0}, owned |-> 1, free |-> x]
        BY <4>7, <4>8
      <4> QED BY <4>5, <4>6, <4>8, <4>9
    <3>5. e = [root |-> z, large |-> TRUE, node |-> [d.node EXCEPT ![0] = q], used |-> {0}, owned |-> 1,
               free |-> x]
      BY <2>3, <2>6, <3>1, <3>2 DEF Directory
    <3> QED BY <3>3, <3>4, <3>5
  <2> QED BY <1>2, <1>3, <1>7, <2>2, <2>3, <2>5, <2>6, <2>7, <2>8, Call3Facts
<1> QED BY <1>2, <1>4, <1>5, <1>6, <1>7

\* Every insertion ends with a directory.
LEMMA InsertEntryType ==
  ASSUME NEW d \in Volume, NEW k \in Key
  PROVE  InsertEntry(d, k) \in Call3
<1>1. d.owned \in Nat
  BY VolumeFacts
<1>2. CASE d.owned > 0
  BY <1>2, InsertLargeFacts DEF InsertEntry
<1>3. CASE ~ (d.owned > 0)
  <2>1. d.owned = 0
    BY <1>1, <1>3
  <2> QED BY <1>3, <2>1, InsertSmallFacts DEF InsertEntry
<1> QED BY <1>2, <1>3

(***************************************************************************)
(* Removal.                                                                *)
(***************************************************************************)
\* Taking a key out only changes blocks and which of them are in use.
Pruned(d) ==
  {e \in Volume : e.root = d.root /\ e.large = d.large /\ e.owned = d.owned /\ e.free = d.free}
Unmoved(d) == [how : {"none", "unsupported"}, dir : Pruned(d)]
Removed(d) == [how : {"done"}, dir : Pruned(d), key : Key, emptied : Block \cup {None}]
Extract(d) == Unmoved(d) \cup Removed(d)

\* Taking a key out keeps the record's part of the index.
LEMMA PrunedFacts ==
  ASSUME NEW d \in Volume, NEW e \in Pruned(d)
  PROVE  /\ e \in Volume /\ e.root = d.root /\ e.large = d.large /\ e.owned = d.owned /\ e.free = d.free
         /\ Pruned(e) = Pruned(d)
BY DEF Pruned

\* Nothing is taken out.
LEMMA SelfPruned ==
  ASSUME NEW d \in Volume
  PROVE  d \in Pruned(d)
BY DEF Pruned

\* What the end of an extraction may be,
LEMMA ExtractFacts ==
  ASSUME NEW d, NEW r \in Extract(d)
  PROVE  /\ r.how \in {"none", "unsupported", "done"} /\ r.dir \in Pruned(d)
         /\ r.how = "done" => r.key \in Key /\ r.emptied \in Block \cup {None}
<1>1. CASE r \in Unmoved(d)
  BY <1>1 DEF Unmoved
<1>2. CASE r \in Removed(d)
  BY <1>2 DEF Removed
<1> QED BY <1>1, <1>2 DEF Extract

\* when no key has been found,
LEMMA UnmovedFacts ==
  ASSUME NEW d, NEW e \in Pruned(d)
  PROVE  NoKey(e) \in Extract(d) /\ Unsupported(e) \in Extract(d)
<1>1. NoKey(e) \in Unmoved(d) /\ Unsupported(e) \in Unmoved(d)
  BY DEF NoKey, Unsupported, Unmoved
<1> QED BY <1>1 DEF Extract

\* and when one has.
LEMMA TakenFacts ==
  ASSUME NEW d, NEW e \in Pruned(d), NEW k \in Key, NEW v \in Block \cup {None}
  PROVE  Taken(e, k, v) \in Extract(d)
<1>1. Taken(e, k, v) \in Removed(d)
  BY DEF Taken, Removed
<1> QED BY <1>1 DEF Extract

InUse(d, used) == Directory(d.root, d.large, d.node, used, d.owned, d.free)

\* The blocks in use change, and nothing else.
LEMMA InUseFacts ==
  ASSUME NEW d \in Volume, NEW used \in SUBSET Block
  PROVE  /\ InUse(d, used) \in Volume /\ InUse(d, used).root = d.root /\ InUse(d, used).large = d.large
         /\ InUse(d, used).node = d.node /\ InUse(d, used).used = used
         /\ InUse(d, used).owned = d.owned /\ InUse(d, used).free = d.free
         /\ InUse(d, used) \in Pruned(d)
<1>1. /\ d.root \in Node /\ d.large \in BOOLEAN /\ d.node \in [Block -> Node]
      /\ d.owned \in Nat /\ d.free \in Nat /\ d.owned + d.free <= Clusters /\ (d.large => d.owned > 0)
  BY VolumeFacts
<1>2. PICK e : e = Directory(d.root, d.large, d.node, used, d.owned, d.free)
  OBVIOUS
<1>3. /\ e \in Volume /\ e.root = d.root /\ e.large = d.large /\ e.node = d.node /\ e.used = used
      /\ e.owned = d.owned /\ e.free = d.free
  BY <1>1, <1>2, DirectoryFacts
<1>4. e \in Pruned(d)
  BY <1>3 DEF Pruned
<1> QED BY <1>2, <1>3, <1>4 DEF InUse

\* The blocks below a pointer are given back.
LEMMA FreeSubtreeIs ==
  ASSUME NEW d \in Volume, NEW v
  PROVE  FreeSubtree(d, v) = InUse(d, d.used \ Under(d, v)) /\ FreeSubtree(d, v) \in Pruned(d)
<1>1. d.used \in SUBSET Block
      /\ d = [root |-> d.root, large |-> d.large, node |-> d.node, used |-> d.used,
              owned |-> d.owned, free |-> d.free]
  BY VolumeFacts
<1>2. PICK u : u = d.used \ Under(d, v)
  OBVIOUS
<1>3. u \in SUBSET Block
  BY <1>1, <1>2
<1>4. PICK e : e = [d EXCEPT !.used = u]
  OBVIOUS
<1>5. e = [root |-> d.root, large |-> d.large, node |-> d.node, used |-> u, owned |-> d.owned, free |-> d.free]
  BY <1>1, <1>4
<1>6. e = InUse(d, u)
  BY <1>5 DEF InUse, Directory
<1>7. FreeSubtree(d, v) = e
  BY <1>2, <1>4 DEF FreeSubtree
<1>8. InUse(d, u) \in Pruned(d)
  BY <1>3, InUseFacts
<1> QED BY <1>2, <1>6, <1>7, <1>8

\* A block is written on the way.
LEMMA PutPruned ==
  ASSUME NEW d \in Volume, NEW e \in Pruned(d), NEW v \in Block, NEW n \in Node
  PROVE  Put(e, v, n) \in Pruned(d) /\ [e EXCEPT !.node[v] = n] = Put(e, v, n)
<1>1. e \in Volume /\ e.root = d.root /\ e.large = d.large /\ e.owned = d.owned /\ e.free = d.free
  BY PrunedFacts
<1>2. PICK b : b = Put(e, v, n)
  OBVIOUS
<1>3. b \in Volume /\ b.root = e.root /\ b.large = e.large /\ b.owned = e.owned /\ b.free = e.free
  BY <1>1, <1>2, PutFacts
<1>4. b \in Pruned(d)
  BY <1>1, <1>3 DEF Pruned
<1>5. [e EXCEPT !.node[v] = n] = Put(e, v, n)
  BY <1>1, PutIs
<1> QED BY <1>2, <1>4, <1>5

\* Block v is written with what has been left of it.
Wrote(e, v, m, k, emptied) == Taken(Put(e, v, m), k, IF m.keys = << >> THEN v ELSE emptied)

\* A block that has lost its last key, or has got another for it.
LEMMA WroteFacts ==
  ASSUME NEW d \in Volume, NEW e \in Pruned(d), NEW v \in Block, NEW m \in Node, NEW k \in Key,
         NEW emptied \in Block \cup {None}
  PROVE  Wrote(e, v, m, k, emptied) \in Extract(d)
<1>1. PICK b : b = Put(e, v, m)
  OBVIOUS
<1>2. b \in Pruned(d)
  BY <1>1, PutPruned
<1>3. PICK x : x = IF m.keys = << >> THEN v ELSE emptied
  OBVIOUS
<1>4. x \in Block \cup {None}
  BY <1>3
<1>5. Taken(b, k, x) \in Extract(d)
  BY <1>2, <1>4, TakenFacts
<1> QED BY <1>1, <1>3, <1>5 DEF Wrote

\* The last item of a node that has one.
LEMMA LastFacts ==
  ASSUME NEW n \in Node, n.keys # << >>
  PROVE  Len(n.keys) \in 1..Len(n.keys) /\ n.keys[Len(n.keys)] \in Item
<1>1. n.keys \in Seq(Item) /\ Len(n.keys) \in Nat
  BY NodeFacts
<1>2. Len(n.keys) # 0
  BY <1>1
<1>3. Len(n.keys) \in 1..Len(n.keys)
  BY <1>1, <1>2
<1> QED BY <1>3, NodeFacts

\* The node with its last key replaced.
Relast(n, k) == [n EXCEPT !.keys[Len(n.keys)].key = k]
Cutlast(n) == Without(n, Len(n.keys))

\* The node with its last key replaced or cut off.
LEMMA RelastFacts ==
  ASSUME NEW n \in Node, n.keys # << >>, NEW k \in Key
  PROVE  Relast(n, k) \in Node /\ Cutlast(n) \in Node
<1>1. PICK i : i = Len(n.keys)
  OBVIOUS
<1>2. i \in 1..Len(n.keys)
  BY <1>1, LastFacts
<1>3. PICK m : m = [n EXCEPT !.keys[i].key = k]
  OBVIOUS
<1>4. m \in Node
  BY <1>2, <1>3, RekeyFacts
<1>5. PICK b : b = Without(n, i)
  OBVIOUS
<1>6. b \in Node
  BY <1>2, <1>5, WithoutFacts
<1> QED BY <1>1, <1>3, <1>4, <1>5, <1>6 DEF Relast, Cutlast

\* What a step of the walk to the greatest key does, by cases.
LEMMA ExtractNodeFacts ==
  ASSUME NEW d \in Volume, NEW below \in [Sub -> Extract(d)], NEW v \in Sub, Readable(d, v),
         NEW r, r = ExtractNode(d, v, below), NEW n, n = d.node[v], NEW x, x = n.keys[Len(n.keys)],
         NEW right, right = below[n.end], NEW left, left = below[x.sub]
  PROVE  /\ v \in Block /\ n \in Node /\ right \in Extract(d) /\ r \in Extract(d)
         /\ n.end # None /\ right.how # "none" => r = right
         /\ n.end = None \/ right.how = "none" =>
              /\ n.keys = << >> => r = NoKey(d)
              /\ n.keys # << >> =>
                   /\ x \in Item /\ left \in Extract(d)
                   /\ x.sub = None => r = Wrote(d, v, Cutlast(n), x.key, None)
                   /\ x.sub # None /\ left.how = "none" =>
                        r = Wrote(FreeSubtree(d, x.sub), v, Cutlast(n), x.key, None)
                   /\ x.sub # None /\ left.how = "unsupported" => r = left
                   /\ x.sub # None /\ left.how = "done" =>
                        \/ Width(Relast(n, left.key).keys) > BlockRoom /\ r = Unsupported(left.dir)
                        \/ ~ (Width(Relast(n, left.key).keys) > BlockRoom)
                           /\ r = Wrote(left.dir, v, Relast(n, left.key), x.key, left.emptied)
<1>1. v \in Block
  BY DEF Readable
<1>2. n \in Node
  BY <1>1, VolumeFacts
<1>3. n.end \in Sub
  BY <1>2, NodeFacts
<1>4. right \in Extract(d)
  BY <1>3
<1>5. CASE n.end # None /\ right.how # "none"
  <2>1. r = right
    BY <1>5 DEF ExtractNode
  <2> QED BY <1>1, <1>2, <1>4, <1>5, <2>1
<1>6. CASE ~ (n.end # None /\ right.how # "none") /\ n.keys = << >>
  <2>1. r = NoKey(d)
    BY <1>6 DEF ExtractNode
  <2>2. r \in Extract(d)
    BY <2>1, SelfPruned, UnmovedFacts
  <2> QED BY <1>1, <1>2, <1>4, <1>6, <2>1, <2>2
<1>7. CASE ~ (n.end # None /\ right.how # "none") /\ n.keys # << >>
  <2>1. x \in Item /\ x.sub \in Sub /\ x.key \in Key
    BY <1>2, <1>7, LastFacts DEF Item
  <2>2. left \in Extract(d)
    BY <2>1
  <2>3. d \in Pruned(d) /\ FreeSubtree(d, x.sub) \in Pruned(d)
    BY SelfPruned, FreeSubtreeIs
  <2>4. PICK c \in Node : c = Cutlast(n)
    BY <1>2, <1>7, <2>1, RelastFacts
  <2>5. CASE x.sub = None
    <3>1. r = Taken([d EXCEPT !.node[v] = c], x.key, IF c.keys = << >> THEN v ELSE None)
      BY <1>7, <2>4, <2>5 DEF ExtractNode, Cutlast
    <3>2. [d EXCEPT !.node[v] = c] = Put(d, v, c)
      BY <1>1, PutIs
    <3>3. r = Wrote(d, v, c, x.key, None)
      BY <3>1, <3>2 DEF Wrote
    <3>4. r \in Extract(d)
      BY <1>1, <2>1, <2>3, <3>3, WroteFacts
    <3> QED BY <1>1, <1>2, <1>4, <1>7, <2>1, <2>2, <2>4, <2>5, <3>3, <3>4
  <2>6. CASE x.sub # None /\ left.how = "none"
    <3>1. PICK e : e = FreeSubtree(d, x.sub)
      OBVIOUS
    <3>2. e \in Pruned(d)
      BY <2>3, <3>1
    <3>3. r = Taken([e EXCEPT !.node[v] = c], x.key, IF c.keys = << >> THEN v ELSE None)
      BY <1>7, <2>4, <2>6, <3>1 DEF ExtractNode, Cutlast
    <3>4. [e EXCEPT !.node[v] = c] = Put(e, v, c)
      BY <1>1, <3>2, PutPruned
    <3>5. r = Wrote(e, v, c, x.key, None)
      BY <3>3, <3>4 DEF Wrote
    <3>6. r \in Extract(d)
      BY <1>1, <2>1, <3>2, <3>5, WroteFacts
    <3> QED BY <1>1, <1>2, <1>4, <1>7, <2>1, <2>2, <2>4, <2>6, <3>1, <3>5, <3>6
  <2>7. CASE x.sub # None /\ left.how = "unsupported"
    <3>1. r = left
      BY <1>7, <2>7 DEF ExtractNode
    <3> QED BY <1>1, <1>2, <1>4, <1>7, <2>1, <2>2, <2>7, <3>1
  <2>8. CASE x.sub # None /\ left.how = "done"
    <3>1. left.dir \in Pruned(d) /\ left.key \in Key /\ left.emptied \in Block \cup {None}
      BY <2>2, <2>8, ExtractFacts
    <3>2. PICK m \in Node : m = Relast(n, left.key)
      BY <1>2, <1>7, <3>1, RelastFacts
    <3>3. CASE Width(m.keys) > BlockRoom
      <4>1. r = Unsupported(left.dir)
        BY <1>7, <2>8, <3>2, <3>3 DEF ExtractNode, Relast
      <4>2. r \in Extract(d)
        BY <3>1, <4>1, UnmovedFacts
      <4> QED BY <1>1, <1>2, <1>4, <1>7, <2>1, <2>2, <2>8, <3>2, <3>3, <4>1, <4>2
    <3>4. CASE ~ (Width(m.keys) > BlockRoom)
      <4>1. PICK e : e = left.dir
        OBVIOUS
      <4>2. e \in Pruned(d)
        BY <3>1, <4>1
      <4>3. r = Taken([e EXCEPT !.node[v] = m], x.key, IF m.keys = << >> THEN v ELSE left.emptied)
        BY <1>7, <2>8, <3>2, <3>4, <4>1 DEF ExtractNode, Relast
      <4>4. [e EXCEPT !.node[v] = m] = Put(e, v, m)
        BY <1>1, <4>2, PutPruned
      <4>5. r = Wrote(e, v, m, x.key, left.emptied)
        BY <4>3, <4>4 DEF Wrote
      <4>6. r \in Extract(d)
        <5>1. PICK kk \in Key : kk = x.key
          BY <2>1
        <5>2. PICK em \in Block \cup {None} : em = left.emptied
          BY <3>1
        <5>3. Wrote(e, v, m, kk, em) \in Extract(d)
          BY <1>1, <3>2, <4>2, WroteFacts
        <5> QED BY <4>5, <5>1, <5>2, <5>3
      <4> QED BY <1>1, <1>2, <1>4, <1>7, <2>1, <2>2, <2>8, <3>2, <3>4, <4>1, <4>5, <4>6
    <3> QED BY <3>3, <3>4
  <2>9. left.how \in {"none", "unsupported", "done"}
    BY <2>2, ExtractFacts
  <2> QED BY <2>5, <2>6, <2>7, <2>8, <2>9
<1> QED BY <1>5, <1>6, <1>7

\* Every step of that walk ends as an extraction may.
LEMMA ExtractNodeResult ==
  ASSUME NEW d \in Volume, NEW below \in [Sub -> Extract(d)], NEW v \in Sub
  PROVE  ExtractNode(d, v, below) \in Extract(d)
<1>1. CASE Readable(d, v)
  <2>1. PICK r : r = ExtractNode(d, v, below)
    OBVIOUS
  <2>2. PICK n : n = d.node[v]
    OBVIOUS
  <2>3. PICK x : x = n.keys[Len(n.keys)]
    OBVIOUS
  <2>4. PICK right : right = below[n.end]
    OBVIOUS
  <2>5. PICK left : left = below[x.sub]
    OBVIOUS
  <2>6. r \in Extract(d)
    BY <1>1, <2>1, <2>2, <2>3, <2>4, <2>5, ExtractNodeFacts
  <2> QED BY <2>1, <2>6
<1>2. CASE ~ Readable(d, v)
  <2>1. ExtractNode(d, v, below) = Unsupported(d)
    BY <1>2 DEF ExtractNode
  <2> QED BY <2>1, SelfPruned, UnmovedFacts
<1> QED BY <1>1, <1>2

\* The levels of the walk to the greatest key are those of its recursion.
LEMMA ExtractMaxKeyLevels ==
  ASSUME NEW d \in Volume
  PROVE  \E L \in [0..RemoveLevels -> [Sub -> Extract(d)]] :
           /\ \A w \in Sub : L[0][w] = Unsupported(d)
           /\ \A h \in 1..RemoveLevels : \A w \in Sub : L[h][w] = ExtractNode(d, w, L[h - 1])
           /\ \A w \in Sub : ExtractMaxKey(d, w) = L[RemoveLevels][w]
<1> DEFINE D == [Sub -> Extract(d)]
           f == [b \in D |-> [w \in Sub |-> ExtractNode(d, w, b)]]
           a == [w \in Sub |-> Unsupported(d)]
           F(l) == [h \in 0..RemoveLevels |-> [w \in Sub |-> IF h = 0 THEN Unsupported(d) ELSE ExtractNode(d, w, l[h - 1])]]
<1>1. RemoveLevels \in Nat
  BY DEF RemoveLevels
<1>2. a \in D
  <2>1. Unsupported(d) \in Extract(d)
    BY SelfPruned, UnmovedFacts
  <2> QED BY <2>1
<1>3. f \in [D -> D]
  <2>1. ASSUME NEW b \in D PROVE [w \in Sub |-> ExtractNode(d, w, b)] \in D
    <3>1. \A w \in Sub : ExtractNode(d, w, b) \in Extract(d)
      BY ExtractNodeResult
    <3> QED BY <3>1
  <2> QED BY <2>1
<1>4. PICK W \in [0..RemoveLevels -> D] : W[0] = a /\ \A h \in 1..RemoveLevels : W[h] = f[W[h - 1]]
  <2> HIDE DEF D, f, a
  <2>1. \E W : Follows(W, RemoveLevels, D, f, a)
    BY <1>1, <1>2, <1>3, Iterates, Zenon
  <2> QED BY <2>1 DEF Follows
<1>5. \A h \in 1..RemoveLevels : h - 1 \in 0..RemoveLevels /\ h # 0
  BY <1>1
<1>6. \A h \in 1..RemoveLevels : W[h] = [w \in Sub |-> ExtractNode(d, w, W[h - 1])]
  BY <1>4, <1>5
<1>7. W = F(W)
  <2>1. ASSUME NEW h \in 0..RemoveLevels
        PROVE  W[h] = [w \in Sub |-> IF h = 0 THEN Unsupported(d) ELSE ExtractNode(d, w, W[h - 1])]
    <3>1. CASE h = 0
      BY <1>4, <3>1
    <3>2. CASE h # 0
      <4>1. h \in 1..RemoveLevels
        BY <1>1, <3>2
      <4> QED BY <1>6, <3>2, <4>1
    <3> QED BY <3>1, <3>2
  <2> QED BY <1>4, <2>1
<1>8. PICK L : L = CHOOSE l : l = F(l)
  OBVIOUS
<1>9. L = F(L)
  <2> HIDE DEF F
  <2> QED BY <1>7, <1>8
<1>10. \A w \in Sub : ExtractMaxKey(d, w) = L[RemoveLevels][w]
  BY <1>8 DEF ExtractMaxKey
<1>11. L[0] = a
  BY <1>1, <1>9
<1>12. ASSUME NEW h \in 1..RemoveLevels PROVE L[h] = [w \in Sub |-> ExtractNode(d, w, L[h - 1])]
  <2>1. h \in 0..RemoveLevels /\ h # 0
    BY <1>1
  <2>2. L[h] = [w \in Sub |-> IF h = 0 THEN Unsupported(d) ELSE ExtractNode(d, w, L[h - 1])]
    BY <1>9, <2>1
  <2> QED BY <2>1, <2>2
<1>13. \A h \in 0..RemoveLevels : L[h] \in D
  <2> DEFINE G == {h \in 0..RemoveLevels : L[h] \in D}
  <2>1. 0 \in G
    BY <1>1, <1>2, <1>11
  <2>2. ASSUME NEW h \in 1..RemoveLevels, h - 1 \in G PROVE h \in G
    <3>1. L[h - 1] \in D
      BY <2>2
    <3>2. L[h] = f[L[h - 1]]
      BY <1>12, <3>1
    <3>3. h \in 0..RemoveLevels
      BY <1>1
    <3> QED BY <1>3, <3>1, <3>2, <3>3
  <2> HIDE DEF G
  <2>3. \A h \in 0..RemoveLevels : h \in G
    BY <1>1, <2>1, <2>2, KeptByAll
  <2> QED BY <2>3 DEF G
<1>14. L \in [0..RemoveLevels -> D]
  <2>1. L = [h \in 0..RemoveLevels |-> L[h]]
    BY <1>9
  <2> QED BY <1>13, <2>1
<1> HIDE DEF F, f
<1>15. \A w \in Sub : L[0][w] = Unsupported(d)
  BY <1>11
<1>16. \A h \in 1..RemoveLevels : \A w \in Sub : L[h][w] = ExtractNode(d, w, L[h - 1])
  BY <1>12
<1> HIDE DEF a
<1> QED BY <1>10, <1>14, <1>15, <1>16

\* The whole walk ends as an extraction may.
LEMMA ExtractMaxKeyResult ==
  ASSUME NEW d \in Volume, NEW v \in Sub
  PROVE  ExtractMaxKey(d, v) \in Extract(d)
<1>1. PICK L \in [0..RemoveLevels -> [Sub -> Extract(d)]] : \A w \in Sub : ExtractMaxKey(d, w) = L[RemoveLevels][w]
  BY ExtractMaxKeyLevels
<1>2. RemoveLevels \in 0..RemoveLevels
  BY DEF RemoveLevels
<1> QED BY <1>1, <1>2

\* A key of node n is replaced.
Rekeyed(n, i, k) == [n EXCEPT !.keys[i].key = k]
\* What the taking of a key leaves.
Kept(e, n, v) == [how |-> "done", dir |-> e, node |-> n, emptied |-> v]
Keeping(d) == [how : {"done"}, dir : Pruned(d), node : Node, emptied : Block \cup {None}]

\* A key that has left its node.
LEMMA KeptFacts ==
  ASSUME NEW d \in Volume, NEW e \in Pruned(d), NEW n \in Node, NEW v \in Block \cup {None}
  PROVE  /\ Kept(e, n, v) \in Keeping(d) /\ Kept(e, n, v).how = "done" /\ Kept(e, n, v).dir = e
         /\ Kept(e, n, v).node = n /\ Kept(e, n, v).emptied = v
BY DEF Kept, Keeping

\* A key that another has replaced.
LEMMA RekeyedFacts ==
  ASSUME NEW n \in Node, NEW i \in 1..Len(n.keys), NEW k \in Key
  PROVE  Rekeyed(n, i, k) \in Node
<1>1. PICK m : m = Rekeyed(n, i, k)
  OBVIOUS
<1>2. m = [n EXCEPT !.keys[i].key = k]
  BY <1>1 DEF Rekeyed
<1> QED BY <1>1, <1>2, RekeyFacts

\* A key that a node has is the one at its slot.
LEMMA FoundFacts ==
  ASSUME NEW n \in Node, NEW k \in Key, Has(n, k)
  PROVE  Slot(n, k) \in 1..Len(n.keys)
<1>1. PICK i \in 1..Len(n.keys) : n.keys[i].key = k
  BY NodeFacts DEF Has
<1>2. PICK m : m = Slot(n, k)
  OBVIOUS
<1>3. m \in 1..(Len(n.keys) + 1) /\ \A j \in 1..Len(n.keys) : j < m => n.keys[j].key < k
  BY <1>2, SlotFacts
<1>4. k \in Nat /\ Len(n.keys) \in Nat
  BY ConstFacts, NodeFacts
<1>5. ~ (i < m)
  BY <1>1, <1>3, <1>4
<1> QED BY <1>1, <1>2, <1>3, <1>4, <1>5

\* A key leaves its node, by the cases of the code.
LEMMA TakeKeyFacts ==
  ASSUME NEW d \in Volume, NEW n \in Node, NEW k \in Key, Has(n, k), NEW room,
         NEW r, r = TakeKey(d, n, k, room), NEW i, i = Slot(n, k), NEW v, v = n.keys[i].sub,
         NEW x, x = ExtractMaxKey(d, v)
  PROVE  /\ i \in 1..Len(n.keys) /\ v \in Sub /\ x \in Extract(d)
         /\ r.how = "done" => r \in Keeping(d)
         /\ r.how # "done" => r.how = "unsupported" /\ r.dir \in Pruned(d)
         /\ v = None => r = Kept(d, Without(n, i), None)
         /\ v # None /\ x.how = "none" => r = Kept(FreeSubtree(d, v), Without(n, i), None)
         /\ v # None /\ x.how = "unsupported" => r = Unsupported(x.dir)
         /\ v # None /\ x.how = "done" =>
              \/ Width(Rekeyed(n, i, x.key).keys) > room /\ r = Unsupported(x.dir)
              \/ ~ (Width(Rekeyed(n, i, x.key).keys) > room) /\ r = Kept(x.dir, Rekeyed(n, i, x.key), x.emptied)
<1>1. i \in 1..Len(n.keys)
  BY FoundFacts
<1>2. v \in Sub
  BY <1>1, NodeFacts
<1>3. x \in Extract(d)
  BY <1>2, ExtractMaxKeyResult
<1>4. PICK c \in Node : c = Without(n, i)
  BY <1>1, WithoutFacts
<1>5. None \in Block \cup {None}
  OBVIOUS
<1>6. CASE v = None
  <2>1. r = Kept(d, c, None)
    BY <1>4, <1>6 DEF TakeKey, Kept
  <2>2. r \in Keeping(d) /\ r.how = "done"
    BY <1>5, <2>1, SelfPruned, KeptFacts
  <2> QED BY <1>1, <1>2, <1>3, <1>4, <1>6, <2>1, <2>2
<1>7. CASE v # None /\ x.how = "none"
  <2>1. PICK e \in Pruned(d) : e = FreeSubtree(d, v)
    BY FreeSubtreeIs
  <2>2. r = Kept(e, c, None)
    BY <1>4, <1>7, <2>1 DEF TakeKey, Kept
  <2>3. r \in Keeping(d) /\ r.how = "done"
    BY <1>5, <2>2, KeptFacts
  <2> QED BY <1>1, <1>2, <1>3, <1>4, <1>7, <2>1, <2>2, <2>3
<1>8. CASE v # None /\ x.how = "unsupported"
  <2>1. r = Unsupported(x.dir)
    BY <1>8 DEF TakeKey
  <2>2. r.how = "unsupported" /\ r.dir = x.dir
    BY <2>1 DEF Unsupported
  <2>3. x.dir \in Pruned(d)
    BY <1>3, ExtractFacts
  <2> QED BY <1>1, <1>2, <1>3, <1>8, <2>1, <2>2, <2>3
<1>9. CASE v # None /\ x.how = "done"
  <2>1. PICK kk \in Key : kk = x.key
    BY <1>3, <1>9, ExtractFacts
  <2>2. PICK e \in Pruned(d) : e = x.dir
    BY <1>3, ExtractFacts
  <2>3. PICK em \in Block \cup {None} : em = x.emptied
    BY <1>3, <1>9, ExtractFacts
  <2>4. PICK m \in Node : m = Rekeyed(n, i, kk)
    BY <1>1, RekeyedFacts
  <2>5. r = IF Width(m.keys) > room THEN Unsupported(e) ELSE Kept(e, m, em)
    BY <1>9, <2>1, <2>2, <2>3, <2>4 DEF TakeKey, Kept, Rekeyed
  <2>6. Kept(e, m, em) \in Keeping(d) /\ Kept(e, m, em).how = "done"
    BY KeptFacts
  <2>7. Unsupported(e).how = "unsupported" /\ Unsupported(e).dir = e
    BY DEF Unsupported
  <2>8. CASE Width(m.keys) > room
    <3>1. r = Unsupported(e)
      BY <2>5, <2>8
    <3> QED BY <1>1, <1>2, <1>3, <1>9, <2>1, <2>2, <2>4, <2>7, <2>8, <3>1
  <2>9. CASE ~ (Width(m.keys) > room)
    <3>1. r = Kept(e, m, em)
      BY <2>5, <2>9
    <3> QED BY <1>1, <1>2, <1>3, <1>9, <2>1, <2>2, <2>3, <2>4, <2>6, <2>9, <3>1
  <2> QED BY <2>8, <2>9
<1>10. x.how \in {"none", "unsupported", "done"}
  BY <1>3, ExtractFacts
<1> QED BY <1>6, <1>7, <1>8, <1>9, <1>10

(***************************************************************************)
(* Empty blocks are dropped, and an index without keys is folded.          *)
(***************************************************************************)
Stage == [how : {"done", "refused", "exists"}, dir : Volume, next : Block \cup {None}]
LeftWith(r, next) == [how |-> r.how, dir |-> r.dir, next |-> next]

\* A round of dropping ends with a directory and perhaps a block to drop.
LEMMA StageFacts ==
  ASSUME NEW r \in Call3, NEW x \in Block \cup {None}
  PROVE  /\ LeftWith(r, x) \in Stage /\ LeftWith(r, x).how = r.how /\ LeftWith(r, x).dir = r.dir
         /\ LeftWith(r, x).next = x
BY DEF LeftWith, Stage, Call3

\* The node of a block, or the record's, is n.
NodeWith(d, u, n) == IF u = None THEN RootWith(d, n) ELSE Put(d, u, n)

\* A node of a block or of the record is written.
LEMMA NodeWithFacts ==
  ASSUME NEW d \in Volume, NEW u \in Block \cup {None}, NEW n \in Node
  PROVE  /\ NodeWith(d, u, n) \in Volume /\ NodeWith(d, u, n).used = d.used
         /\ u = None => [d EXCEPT !.root = n] = NodeWith(d, u, n)
         /\ u # None => [d EXCEPT !.node[u] = n] = NodeWith(d, u, n)
<1>1. CASE u = None
  BY <1>1, RootWithFacts DEF NodeWith
<1>2. CASE u # None
  <2>1. PICK e : e = Put(d, u, n)
    OBVIOUS
  <2>2. e \in Volume /\ e.used = d.used
    BY <1>2, <2>1, PutFacts
  <2>3. [d EXCEPT !.node[u] = n] = e
    BY <2>1, PutIs
  <2> QED BY <1>2, <2>1, <2>2, <2>3 DEF NodeWith
<1> QED BY <1>1, <1>2

\* The bits of the blocks in use are written.
LEMMA UsedIs ==
  ASSUME NEW d \in Volume, NEW s \in SUBSET Block
  PROVE  [d EXCEPT !.used = s] = InUse(d, s)
<1>1. d = [root |-> d.root, large |-> d.large, node |-> d.node, used |-> d.used,
           owned |-> d.owned, free |-> d.free]
  BY VolumeFacts
<1>2. PICK e : e = [d EXCEPT !.used = s]
  OBVIOUS
<1>3. e = [root |-> d.root, large |-> d.large, node |-> d.node, used |-> s,
           owned |-> d.owned, free |-> d.free]
  BY <1>1, <1>2
<1> QED BY <1>2, <1>3 DEF InUse, Directory

\* Where the pointer to v is: None is the record.
Hosts(d, v) == {w \in Block \ {v} : Readable(d, w) /\ SlotOf(d.node[w], v) # {}}
HostOf(d, v) == IF SlotOf(d.root, v) # {} THEN None ELSE Min(Hosts(d, v))
HostSlot(d, v) == Min(SlotOf(NodeAt(d, HostOf(d, v)), v))
Off(n, i) == IF i <= Len(n.keys) THEN Without(n, i) ELSE [n EXCEPT !.end = None]
Unhooked(d, v) ==
  InUse(NodeWith(d, HostOf(d, v), Off(NodeAt(d, HostOf(d, v)), HostSlot(d, v))), d.used \ {v})

\* The pointer to a block is found where HostOf says.
LEMMA HostFacts ==
  ASSUME NEW d \in Volume, NEW v \in Block, SlotOf(d.root, v) # {} \/ Hosts(d, v) # {}
  PROVE  /\ HostOf(d, v) \in Block \cup {None} /\ HostOf(d, v) # v
         /\ SlotOf(d.root, v) = {} => HostOf(d, v) \in Hosts(d, v)
         /\ NodeAt(d, HostOf(d, v)) \in Node
         /\ HostSlot(d, v) \in 1..(Len(NodeAt(d, HostOf(d, v)).keys) + 1)
         /\ SubAt(NodeAt(d, HostOf(d, v)), HostSlot(d, v)) = v
<1>1. PICK u : u = HostOf(d, v)
  OBVIOUS
<1>2. u \in Block \cup {None} /\ u # v /\ (SlotOf(d.root, v) = {} => u \in Hosts(d, v))
      /\ SlotOf(NodeAt(d, u), v) # {}
  <2>1. CASE SlotOf(d.root, v) # {}
    BY <1>1, <2>1, ConstFacts DEF HostOf, NodeAt
  <2>2. CASE SlotOf(d.root, v) = {}
    <3>1. PICK T : T = Hosts(d, v)
      OBVIOUS
    <3>2. T \in SUBSET Nat /\ T # {} /\ u = Min(T)
      BY <1>1, <2>2, <3>1, ConstFacts DEF Hosts, HostOf
    <3>3. u \in T
      BY <3>2, MinFacts
    <3> QED BY <2>2, <3>1, <3>3, ConstFacts DEF Hosts, NodeAt
  <2> QED BY <2>1, <2>2
<1>3. PICK n : n = NodeAt(d, u)
  OBVIOUS
<1>4. n \in Node
  BY <1>2, <1>3, VolumeFacts DEF NodeAt
<1>5. PICK i \in 1..(Len(n.keys) + 1) : SubAt(n, i) = v
  BY <1>2, <1>3 DEF SlotOf
<1>6. PICK j : j = Min(SlotOf(n, v))
  OBVIOUS
<1>7. j \in 1..(Len(n.keys) + 1) /\ SubAt(n, j) = v
  BY <1>4, <1>5, <1>6, SlotOfFacts
<1>8. HostSlot(d, v) = j
  BY <1>1, <1>3, <1>6 DEF HostSlot
<1> QED BY <1>1, <1>2, <1>3, <1>4, <1>7, <1>8

\* The node without that pointer.
LEMMA OffFacts ==
  ASSUME NEW n \in Node, NEW i \in 1..(Len(n.keys) + 1)
  PROVE  Off(n, i) \in Node
<1>1. PICK m : m = Off(n, i)
  OBVIOUS
<1>2. CASE i <= Len(n.keys)
  <2>1. i \in 1..Len(n.keys) /\ m = Without(n, i)
    BY <1>1, <1>2, NodeFacts DEF Off
  <2> QED BY <1>1, <2>1, WithoutFacts
<1>3. CASE ~ (i <= Len(n.keys))
  <2>1. m = [n EXCEPT !.end = None]
    BY <1>1, <1>3 DEF Off
  <2> QED BY <1>1, <2>1, NoEndFacts
<1> QED BY <1>2, <1>3

\* The pointer to a block goes, by the cases of the code (NtfsDropEmptyIndexBlock).
LEMMA UnhookFacts ==
  ASSUME NEW d \in Volume, NEW v \in Block, NEW u, u = HostOf(d, v), NEW n, n = NodeAt(d, u),
         NEW i, i = HostSlot(d, v), NEW e, e = Unhooked(d, v), NEW r, r = Unhook(d, v)
  PROVE  /\ r \in Stage
         /\ SlotOf(d.root, v) = {} /\ Hosts(d, v) = {} => r = LeftWith(Done(d), None)
         /\ SlotOf(d.root, v) # {} \/ Hosts(d, v) # {} =>
              /\ e \in Volume
              /\ i <= Len(n.keys) => r = LeftWith(InsertEntry(e, n.keys[i].key), None)
              /\ ~ (i <= Len(n.keys)) =>
                   r = LeftWith(Done(e), IF u # None /\ Off(n, i).keys = << >> THEN u ELSE None)
<1>1. CASE SlotOf(d.root, v) = {} /\ Hosts(d, v) = {}
  <2>1. r = LeftWith(Done(d), None)
    BY <1>1 DEF Unhook, Hosts, LeftWith
  <2>2. Done(d) \in Call3 /\ None \in Block \cup {None}
    BY Call3Facts
  <2>3. r \in Stage
    BY <2>1, <2>2, StageFacts
  <2> QED BY <1>1, <2>1, <2>3
<1>2. CASE SlotOf(d.root, v) # {} \/ Hosts(d, v) # {}
  <2>1. /\ u \in Block \cup {None} /\ u # v /\ n \in Node /\ i \in 1..(Len(n.keys) + 1)
    BY <1>2, HostFacts
  <2>2. PICK m : m = Off(n, i)
    OBVIOUS
  <2>3. m \in Node
    BY <2>1, <2>2, OffFacts
  <2>4. PICK b : b = NodeWith(d, u, m)
    OBVIOUS
  <2>5. b \in Volume /\ b.used = d.used
    BY <2>1, <2>3, <2>4, NodeWithFacts
  <2>6. PICK s : s = d.used \ {v}
    OBVIOUS
  <2>7. s \in SUBSET Block
    BY <2>6, VolumeFacts
  <2>8. e = InUse(b, s)
    BY <2>2, <2>4, <2>6 DEF Unhooked
  <2>9. e \in Volume
    BY <2>5, <2>7, <2>8, InUseFacts
  <2>10. [b EXCEPT !.used = @ \ {v}] = e
    <3>1. [b EXCEPT !.used = @ \ {v}] = [b EXCEPT !.used = s]
      BY <2>5, <2>6
    <3>2. [b EXCEPT !.used = s] = e
      BY <2>5, <2>7, <2>8, UsedIs
    <3> QED BY <3>1, <3>2
  <2>11. CASE SlotOf(d.root, v) # {}
    <3>1. u = None /\ n = d.root /\ i = Min(SlotOf(n, v))
      BY <2>11 DEF HostOf, NodeAt, HostSlot
    <3>2. [d EXCEPT !.root = m] = b
      BY <2>3, <2>4, <3>1, NodeWithFacts
    <3>3. CASE i <= Len(n.keys)
      <4>1. m = Without(n, i)
        BY <2>2, <3>3 DEF Off
      <4>2. r = LeftWith(InsertEntry([[d EXCEPT !.root = m] EXCEPT !.used = @ \ {v}], n.keys[i].key), None)
        BY <2>11, <3>1, <3>3, <4>1 DEF Unhook, LeftWith
      <4>3. r = LeftWith(InsertEntry(e, n.keys[i].key), None)
        BY <2>10, <3>2, <4>2
      <4>4. PICK kk \in Key : kk = n.keys[i].key
        BY <2>1, <3>3, NodeFacts
      <4>5. InsertEntry(e, kk) \in Call3
        BY <2>9, InsertEntryType
      <4>6. r \in Stage
        BY <4>3, <4>4, <4>5, StageFacts
      <4> QED BY <1>2, <2>9, <3>3, <4>3, <4>6
    <3>4. CASE ~ (i <= Len(n.keys))
      <4>1. m = [n EXCEPT !.end = None]
        BY <2>2, <3>4 DEF Off
      <4>2. r = LeftWith(Done([[d EXCEPT !.root = m] EXCEPT !.used = @ \ {v}]), None)
        BY <2>11, <3>1, <3>4, <4>1 DEF Unhook, LeftWith
      <4>3. r = LeftWith(Done(e), None)
        BY <2>10, <3>2, <4>2
      <4>4. Done(e) \in Call3 /\ None \in Block \cup {None}
        BY <2>9, Call3Facts
      <4>5. r \in Stage
        BY <4>3, <4>4, StageFacts
      <4> QED BY <1>2, <2>9, <3>1, <3>4, <4>3, <4>5
    <3> QED BY <3>3, <3>4
  <2>12. CASE SlotOf(d.root, v) = {}
    <3>1. u \in Block /\ u # None /\ u = Min(Hosts(d, v)) /\ n = d.node[u] /\ i = Min(SlotOf(n, v))
      <4>1. u = Min(Hosts(d, v)) /\ u \in Hosts(d, v)
        BY <1>2, <2>12, HostFacts DEF HostOf
      <4> QED BY <4>1, ConstFacts DEF Hosts, NodeAt, HostSlot
    <3>2. [d EXCEPT !.node[u] = m] = b
      BY <2>1, <2>3, <2>4, <3>1, NodeWithFacts
    <3>3. CASE i <= Len(n.keys)
      <4>1. m = Without(n, i)
        BY <2>2, <3>3 DEF Off
      <4>2. r = LeftWith(InsertEntry([[d EXCEPT !.node[u] = m] EXCEPT !.used = @ \ {v}], n.keys[i].key), None)
        BY <1>2, <2>12, <3>1, <3>3, <4>1 DEF Unhook, LeftWith, Hosts
      <4>3. r = LeftWith(InsertEntry(e, n.keys[i].key), None)
        BY <2>10, <3>2, <4>2
      <4>4. PICK kk \in Key : kk = n.keys[i].key
        BY <2>1, <3>3, NodeFacts
      <4>5. InsertEntry(e, kk) \in Call3
        BY <2>9, InsertEntryType
      <4>6. r \in Stage
        BY <4>3, <4>4, <4>5, StageFacts
      <4> QED BY <1>2, <2>9, <3>3, <4>3, <4>6
    <3>4. CASE ~ (i <= Len(n.keys))
      <4>1. m = [n EXCEPT !.end = None]
        BY <2>2, <3>4 DEF Off
      <4>2. PICK x : x = IF m.keys = << >> THEN u ELSE None
        OBVIOUS
      <4>3. r = LeftWith(Done([[d EXCEPT !.node[u] = m] EXCEPT !.used = @ \ {v}]), x)
        BY <1>2, <2>12, <3>1, <3>4, <4>1, <4>2 DEF Unhook, LeftWith, Hosts
      <4>4. r = LeftWith(Done(e), x)
        BY <2>10, <3>2, <4>3
      <4>5. Done(e) \in Call3 /\ x \in Block \cup {None}
        BY <2>9, <3>1, <4>2, Call3Facts
      <4>6. r \in Stage
        BY <4>4, <4>5, StageFacts
      <4> QED BY <1>2, <2>2, <2>9, <3>1, <3>4, <4>2, <4>4, <4>6
    <3> QED BY <3>3, <3>4
  <2> QED BY <2>11, <2>12
<1> QED BY <1>1, <1>2

\* A round of dropping after another.
LEMMA UnhookNextType ==
  ASSUME NEW s \in Stage
  PROVE  UnhookNext(s) \in Stage
<1>1. s.dir \in Volume /\ s.next \in Block \cup {None}
  BY DEF Stage
<1>2. CASE s.next = None
  BY <1>2 DEF UnhookNext
<1>3. CASE s.next # None
  <2>1. PICK d \in Volume : d = s.dir
    BY <1>1
  <2>2. PICK v \in Block : v = s.next
    BY <1>1, <1>3
  <2>3. PICK r : r = Unhook(d, v)
    OBVIOUS
  <2>4. PICK u : u = HostOf(d, v)
    OBVIOUS
  <2>5. PICK n : n = NodeAt(d, u)
    OBVIOUS
  <2>6. PICK i : i = HostSlot(d, v)
    OBVIOUS
  <2>7. PICK e : e = Unhooked(d, v)
    OBVIOUS
  <2>8. r \in Stage
    BY <2>3, <2>4, <2>5, <2>6, <2>7, UnhookFacts
  <2> QED BY <1>3, <2>1, <2>2, <2>3, <2>8 DEF UnhookNext
<1> QED BY <1>2, <1>3

\* The rounds of dropping are those of its recursion.
LEMMA DropRoundsFacts ==
  ASSUME NEW d \in Volume, NEW v \in Block
  PROVE  \E L \in [0..DropRounds -> Stage] :
           /\ L[0] = LeftWith(Done(d), v)
           /\ \A h \in 1..DropRounds : L[h] = UnhookNext(L[h - 1])
           /\ DropEmptyBlock(d, v) = L[DropRounds]
<1> DEFINE f == [s \in Stage |-> UnhookNext(s)]
           a == [how |-> "done", dir |-> d, next |-> v]
           F(l) == [h \in 0..DropRounds |-> IF h = 0 THEN a ELSE UnhookNext(l[h - 1])]
<1>1. DropRounds \in Nat
  BY DEF DropRounds
<1>2. a \in Stage
  BY DEF Stage
<1>3. f \in [Stage -> Stage]
  BY UnhookNextType
<1>4. PICK W \in [0..DropRounds -> Stage] : W[0] = a /\ \A h \in 1..DropRounds : W[h] = f[W[h - 1]]
  <2> HIDE DEF f, a
  <2>1. \E W : Follows(W, DropRounds, Stage, f, a)
    BY <1>1, <1>2, <1>3, Iterates, Zenon
  <2> QED BY <2>1 DEF Follows
<1>5. \A h \in 1..DropRounds : h - 1 \in 0..DropRounds /\ h # 0
  BY <1>1
<1>6. \A h \in 1..DropRounds : W[h] = UnhookNext(W[h - 1])
  BY <1>4, <1>5
<1>7. W = F(W)
  <2> HIDE DEF a
  <2>1. ASSUME NEW h \in 0..DropRounds PROVE W[h] = IF h = 0 THEN a ELSE UnhookNext(W[h - 1])
    <3>1. CASE h = 0
      BY <1>4, <3>1
    <3>2. CASE h # 0
      <4>1. h \in 1..DropRounds
        BY <1>1, <3>2
      <4> QED BY <1>6, <3>2, <4>1
    <3> QED BY <3>1, <3>2
  <2> QED BY <1>4, <2>1
<1>8. PICK L : L = CHOOSE l : l = F(l)
  OBVIOUS
<1>9. L = F(L)
  <2> HIDE DEF F
  <2> QED BY <1>7, <1>8
<1>10. DropEmptyBlock(d, v) = L[DropRounds]
  BY <1>8 DEF DropEmptyBlock
<1>11. L[0] = a
  <2> HIDE DEF a
  <2> QED BY <1>1, <1>9
<1>12. ASSUME NEW h \in 1..DropRounds PROVE L[h] = UnhookNext(L[h - 1])
  <2> HIDE DEF a
  <2>1. h \in 0..DropRounds /\ h # 0
    BY <1>1
  <2>2. L[h] = IF h = 0 THEN a ELSE UnhookNext(L[h - 1])
    BY <1>9, <2>1
  <2> QED BY <2>1, <2>2
<1>13. \A h \in 0..DropRounds : L[h] \in Stage
  <2> DEFINE G == {h \in 0..DropRounds : L[h] \in Stage}
  <2>1. 0 \in G
    BY <1>1, <1>2, <1>11
  <2>2. ASSUME NEW h \in 1..DropRounds, h - 1 \in G PROVE h \in G
    <3>1. L[h - 1] \in Stage
      BY <2>2
    <3>2. L[h] \in Stage
      BY <1>12, <3>1, UnhookNextType
    <3>3. h \in 0..DropRounds
      BY <1>1
    <3> QED BY <3>2, <3>3
  <2> HIDE DEF G
  <2>3. \A h \in 0..DropRounds : h \in G
    BY <1>1, <2>1, <2>2, KeptByAll
  <2> QED BY <2>3 DEF G
<1>14. L \in [0..DropRounds -> Stage]
  <2>1. L = [h \in 0..DropRounds |-> L[h]]
    BY <1>9
  <2> QED BY <1>13, <2>1
<1>15. L[0] = LeftWith(Done(d), v)
  BY <1>11 DEF LeftWith, Done
<1> HIDE DEF F, f, a
<1> QED BY <1>10, <1>12, <1>14, <1>15

\* Dropping ends with a directory.
LEMMA DropType ==
  ASSUME NEW d \in Volume, NEW v \in Block
  PROVE  DropEmptyBlock(d, v) \in Stage
<1>1. PICK L \in [0..DropRounds -> Stage] : DropEmptyBlock(d, v) = L[DropRounds]
  BY DropRoundsFacts
<1>2. DropRounds \in 0..DropRounds
  BY DEF DropRounds
<1> QED BY <1>1, <1>2

\* The index is folded into the record.
Foldable(d) == d.large /\ d.root.keys = << >> /\ SubtreeIsEmpty(d, d.root.end)
FoldedNodes(d) == [v \in Block |-> IF v = 0 THEN d.node[v] ELSE Blank]
Folded(d) ==
  Directory(Leaf(<< >>), FALSE, FoldedNodes(d), d.used \ Under(d, d.root.end), 1, d.free + d.owned - 1)

\* The index is folded, or left as it is.
LEMMA CollapseFacts ==
  ASSUME NEW d \in Volume
  PROVE  /\ Collapse(d) \in Volume
         /\ Foldable(d) => Collapse(d) = Folded(d)
         /\ ~ Foldable(d) => Collapse(d) = d
<1>1. CASE Foldable(d)
  <2>1. /\ d.root \in Node /\ d.node \in [Block -> Node] /\ d.used \in SUBSET Block
        /\ d.owned \in Nat /\ d.free \in Nat /\ d.owned + d.free <= Clusters /\ d.owned > 0
        /\ d = [root |-> d.root, large |-> d.large, node |-> d.node, used |-> d.used,
                owned |-> d.owned, free |-> d.free]
    BY <1>1, VolumeFacts DEF Foldable
  <2>2. PICK u : u = d.used \ Under(d, d.root.end)
    OBVIOUS
  <2>3. u \in SUBSET Block
    BY <2>1, <2>2
  <2>4. PICK f : f = FoldedNodes(d)
    OBVIOUS
  <2>5. f \in [Block -> Node]
    BY <2>1, <2>4, BlankFacts DEF FoldedNodes
  <2>6. PICK x : x = d.free + d.owned - 1
    OBVIOUS
  <2>7. x \in Nat /\ 1 + x <= Clusters
    BY <2>1, <2>6, ConstFacts
  <2>8. PICK z \in Node : z = Leaf(<< >>)
    BY EmptyLeafFacts
  <2>9. PICK g : g = Directory(z, FALSE, f, u, 1, x)
    OBVIOUS
  <2>10. g \in Volume
    BY <2>3, <2>5, <2>7, <2>8, <2>9, DirectoryFacts
  <2>11. PICK b : b = InUse(d, u)
    OBVIOUS
  <2>12. b = [root |-> d.root, large |-> d.large, node |-> d.node, used |-> u,
              owned |-> d.owned, free |-> d.free]
    BY <2>11 DEF InUse, Directory
  <2>13. FreeSubtree(d, d.root.end) = b
    BY <2>2, <2>11, FreeSubtreeIs
  <2>14. PICK c : c = [b EXCEPT !.root = z, !.large = FALSE, !.owned = 1, !.free = x, !.node = f]
    OBVIOUS
  <2>15. c = [root |-> z, large |-> FALSE, node |-> f, used |-> u, owned |-> 1, free |-> x]
    BY <2>12, <2>14
  <2>16. c = g
    BY <2>9, <2>15 DEF Directory
  <2>17. Collapse(d) = [b EXCEPT !.root = z, !.large = FALSE, !.owned = 1, !.free = @ + d.owned - 1, !.node = f]
    BY <1>1, <2>4, <2>8, <2>13 DEF Collapse, Foldable, FoldedNodes
  <2>18. b.free + d.owned - 1 = x
    BY <2>6, <2>12
  <2>19. Collapse(d) = c
    BY <2>14, <2>17, <2>18
  <2> QED BY <1>1, <2>2, <2>4, <2>6, <2>8, <2>9, <2>10, <2>16, <2>19 DEF Folded
<1>2. CASE ~ Foldable(d)
  <2>1. Collapse(d) = d
    BY <1>2 DEF Collapse, Foldable
  <2> QED BY <1>2, <2>1
<1> QED BY <1>1, <1>2

\* How a removal ends.
Gone == [how : {"done"}, dir : Volume, drop : {"done", "refused", "exists"}]
Dropped(d, v) == IF v = None THEN Done(d) ELSE DropEmptyBlock(d, v)
GoneWith(s) == [how |-> "done", dir |-> Collapse(s.dir), drop |-> s.how]

\* The end of a removal is a directory,
LEMMA DroppedFacts ==
  ASSUME NEW d \in Volume, NEW v \in Block \cup {None}
  PROVE  /\ Dropped(d, v).dir \in Volume /\ Dropped(d, v).how \in {"done", "refused", "exists"}
         /\ GoneWith(Dropped(d, v)) \in Gone
<1>1. PICK s : s = Dropped(d, v)
  OBVIOUS
<1>2. s.dir \in Volume /\ s.how \in {"done", "refused", "exists"}
  <2>1. CASE v = None
    BY <1>1, <2>1 DEF Dropped, Done
  <2>2. CASE v # None
    <3>1. s \in Stage
      BY <1>1, <2>2, DropType DEF Dropped
    <3> QED BY <3>1 DEF Stage
  <2> QED BY <2>1, <2>2
<1>3. Collapse(s.dir) \in Volume
  BY <1>2, CollapseFacts
<1> QED BY <1>1, <1>2, <1>3 DEF GoneWith, Gone

\* whatever the key that has been taken leaves to drop.
LEMMA AfterTakeFacts ==
  ASSUME NEW e \in Volume, NEW u \in Block \cup {None}, NEW n \in Node, NEW v \in Block \cup {None},
         NEW d, NEW r \in Keeping(d), r.dir = e, r.node = n
  PROVE  /\ NodeWith(e, u, n) \in Volume
         /\ AfterTake(u, r, v) = GoneWith(Dropped(NodeWith(e, u, n), v))
         /\ AfterTake(u, r, v) \in Gone
<1>1. PICK b : b = NodeWith(e, u, n)
  OBVIOUS
<1>2. b \in Volume /\ (IF u = None THEN [e EXCEPT !.root = n] ELSE [e EXCEPT !.node[u] = n]) = b
  BY <1>1, NodeWithFacts
<1>3. AfterTake(u, r, v) = GoneWith(Dropped(b, v))
  BY <1>2 DEF AfterTake, GoneWith, Dropped
<1> QED BY <1>1, <1>2, <1>3, DroppedFacts

\* Where a name is found, and what the removal does with it.
Holders(d, k) == {w \in Block : Readable(d, w) /\ Has(d.node[w], k)}
HolderOf(d, k) == IF Has(d.root, k) THEN None ELSE Min(Holders(d, k))
RoomOf(u) == IF u = None THEN RootRoom ELSE BlockRoom
TakenFrom(d, k) == TakeKey(d, NodeAt(d, HolderOf(d, k)), k, RoomOf(HolderOf(d, k)))
EmptiedBy(d, k) ==
  IF HolderOf(d, k) # None /\ NodeAt(d, HolderOf(d, k)).keys = <<Plain(k)>> THEN HolderOf(d, k)
  ELSE TakenFrom(d, k).emptied

\* The name is in the node where HolderOf finds it.
LEMMA HolderFacts ==
  ASSUME NEW d \in Volume, NEW k \in Key, Has(d.root, k) \/ Holders(d, k) # {}
  PROVE  /\ HolderOf(d, k) \in Block \cup {None}
         /\ HolderOf(d, k) # None => HolderOf(d, k) \in Holders(d, k) /\ ~ Has(d.root, k)
         /\ NodeAt(d, HolderOf(d, k)) \in Node /\ Has(NodeAt(d, HolderOf(d, k)), k)
<1>1. PICK u : u = HolderOf(d, k)
  OBVIOUS
<1>2. CASE Has(d.root, k)
  BY <1>1, <1>2, VolumeFacts DEF HolderOf, NodeAt
<1>3. CASE ~ Has(d.root, k)
  <2>1. PICK T : T = Holders(d, k)
    OBVIOUS
  <2>2. T \in SUBSET Nat /\ T # {} /\ u = Min(T)
    BY <1>1, <1>3, <2>1, ConstFacts DEF Holders, HolderOf
  <2>3. u \in T
    BY <2>2, MinFacts
  <2>4. u \in Block /\ u # None /\ Has(d.node[u], k)
    BY <2>1, <2>3, ConstFacts DEF Holders
  <2> QED BY <1>1, <1>3, <2>1, <2>3, <2>4, VolumeFacts DEF NodeAt
<1> QED BY <1>2, <1>3

\* The parts of a removal, from node u and with what is taken there.
RemoveTo(d, k, u, r, q) ==
  /\ q.dir \in Volume /\ q.how \in {"done", "unsupported", "not found"}
  /\ ~ Has(d.root, k) /\ Holders(d, k) = {} => q.how = "not found" /\ q.dir = d
  /\ Has(d.root, k) \/ Holders(d, k) # {} =>
       /\ r.how # "done" => q.how = "unsupported" /\ q.dir = r.dir
       /\ r.how = "done" => q = GoneWith(Dropped(NodeWith(r.dir, u, r.node), EmptiedBy(d, k)))

\* The removal of a name, by the cases of the code (NtfsRemoveOneDirEntryByChild).
LEMMA RemoveEntryFacts ==
  ASSUME NEW d \in Volume, NEW k \in Key, NEW u, u = HolderOf(d, k), NEW r, r = TakenFrom(d, k),
         NEW q, q = RemoveEntry(d, k)
  PROVE  RemoveTo(d, k, u, r, q)
<1>1. CASE ~ Has(d.root, k) /\ Holders(d, k) = {}
  <2>1. q = [how |-> "not found", dir |-> d]
    BY <1>1 DEF RemoveEntry, Holders
  <2>2. q.dir = d /\ q.how = "not found"
    <3>1. PICK z : z = [how |-> "not found", dir |-> d]
      OBVIOUS
    <3>2. z.dir = d /\ z.how = "not found"
      BY <3>1
    <3> QED BY <2>1, <3>1, <3>2
  <2> QED BY <1>1, <2>2 DEF RemoveTo
<1>2. CASE Has(d.root, k) \/ Holders(d, k) # {}
  <2>1. u \in Block \cup {None}
    BY <1>2, HolderFacts
  <2>2. PICK n \in Node : n = NodeAt(d, u) /\ Has(n, k)
    BY <1>2, HolderFacts
  <2>3. PICK i : i = Slot(n, k)
    OBVIOUS
  <2>4. PICK v : v = n.keys[i].sub
    OBVIOUS
  <2>5. PICK x : x = ExtractMaxKey(d, v)
    OBVIOUS
  <2>6. PICK room : room = RoomOf(u)
    OBVIOUS
  <2>7. r = TakeKey(d, n, k, room)
    BY <2>2, <2>6 DEF TakenFrom
  <2>8. /\ r.how = "done" => r \in Keeping(d)
        /\ r.how # "done" => r.how = "unsupported" /\ r.dir \in Pruned(d)
    BY <2>2, <2>3, <2>4, <2>5, <2>7, TakeKeyFacts
  <2>9. PICK em : em = IF u # None /\ n.keys = <<Plain(k)>> THEN u ELSE r.emptied
    OBVIOUS
  <2>10. q = IF r.how # "done" THEN r ELSE AfterTake(u, r, em)
    <3>1. u = IF Has(d.root, k) THEN None ELSE Min(Holders(d, k))
      BY DEF HolderOf
    <3> QED BY <1>2, <2>2, <2>6, <2>7, <2>9, <3>1 DEF RemoveEntry, Holders, RoomOf
  <2>11. CASE r.how # "done"
    <3>1. q = r /\ r.dir \in Volume
      BY <2>8, <2>10, <2>11, PrunedFacts
    <3>2. q.how = "unsupported" /\ q.dir = r.dir /\ q.dir \in Volume
      BY <2>8, <2>11, <3>1
    <3> QED BY <1>2, <2>11, <3>2 DEF RemoveTo
  <2>12. CASE r.how = "done"
    <3>1. r \in Keeping(d)
      BY <2>8, <2>12
    <3>2. r.dir \in Pruned(d) /\ r.node \in Node /\ r.emptied \in Block \cup {None}
      BY <3>1 DEF Keeping
    <3>3. PICK e \in Volume : e = r.dir
      BY <3>2, PrunedFacts
    <3>4. PICK m \in Node : m = r.node
      BY <3>2
    <3>5. em \in Block \cup {None}
      BY <2>1, <2>9, <3>2
    <3>6. q = AfterTake(u, r, em)
      BY <2>10, <2>12
    <3>7. NodeWith(e, u, m) \in Volume /\ q = GoneWith(Dropped(NodeWith(e, u, m), em)) /\ q \in Gone
      <4>1. r.dir = e /\ r.node = m
        BY <3>3, <3>4
      <4>2. PICK t : t = AfterTake(u, r, em)
        OBVIOUS
      <4>3. NodeWith(e, u, m) \in Volume
        BY <2>1, NodeWithFacts
      <4>4. t = GoneWith(Dropped(NodeWith(e, u, m), em)) /\ t \in Gone
        BY <2>1, <3>1, <3>5, <4>1, <4>2, AfterTakeFacts
      <4> QED BY <3>6, <4>2, <4>3, <4>4
    <3>8. EmptiedBy(d, k) = em
      BY <2>2, <2>9 DEF EmptiedBy
    <3>9. q.dir \in Volume /\ q.how = "done"
      BY <3>7 DEF Gone
    <3>11. q.how \in {"done", "unsupported", "not found"}
      BY <3>9
    <3>10. NodeWith(r.dir, u, r.node) \in Volume
           /\ q = GoneWith(Dropped(NodeWith(r.dir, u, r.node), EmptiedBy(d, k)))
      BY <3>3, <3>4, <3>7, <3>8
    <3>12. ~ (~ Has(d.root, k) /\ Holders(d, k) = {}) /\ ~ (r.how # "done")
      BY <1>2, <2>12
    <3> QED BY <3>9, <3>10, <3>11, <3>12 DEF RemoveTo
  <2> QED BY <2>11, <2>12
<1> QED BY <1>1, <1>2

(***************************************************************************)
(* The type invariant.                                                     *)
(***************************************************************************)
\* An index that has left the record owns a block.
TypeInv == TypeOK /\ dir \in Volume

\* Init => TypeInv.
LEMMA TypeInit == Init => TypeInv
<1> SUFFICES ASSUME Init PROVE TypeInv
  OBVIOUS
<1>1. PICK f : f = [v \in Block |-> Blank]
  OBVIOUS
<1>2. f \in [Block -> Node]
  BY <1>1, BlankFacts
<1>3. PICK z \in Node : z = Leaf(<< >>)
  BY EmptyLeafFacts
<1>4. dir = Directory(z, FALSE, f, {}, 0, Clusters)
  BY <1>1, <1>3 DEF Init, Directory
<1>5. dir \in Volume
  <2>1. PICK d : d = Directory(z, FALSE, f, {}, 0, Clusters)
    OBVIOUS
  <2>2. d \in Volume
    <3>1. FALSE \in BOOLEAN /\ {} \in SUBSET Block /\ 0 \in Nat /\ Clusters \in Nat /\ 0 + Clusters <= Clusters
          /\ (FALSE => 0 > 0)
      BY ConstFacts
    <3> QED BY <1>2, <1>3, <2>1, <3>1, DirectoryFacts
  <2> QED BY <1>4, <2>1, <2>2
<1> QED BY <1>5, ConstFacts DEF Init, TypeInv, TypeOK, Volume, Dir

\* The count of the calls after the first trouble is bounded.
LEMMA CountFacts ==
  ASSUME NEW a \in 0..(MaxAfter + 1)
  PROVE  0 \in 0..(MaxAfter + 1) /\ (a < MaxAfter => a + 1 \in 0..(MaxAfter + 1))
BY ConstFacts

\* What a call ends with keeps the types.
LEMMA TypeCall ==
  ASSUME TypeInv, NEW r, r.dir \in Volume,
         r.how \in {"done", "refused", "exists", "unsupported", "not found"}, Call(r)
  PROVE  TypeInv'
<1>0. trouble \subseteq {"half", "separator", "cut"}
  BY DEF TypeInv, TypeOK
<1>1. after \in 0..(MaxAfter + 1) /\ MaxAfter \in Nat
  BY ConstFacts DEF TypeInv, TypeOK
<1>2. after' \in 0..(MaxAfter + 1)
  <2>1. CASE trouble = {}
    <3>1. after' = 0
      BY <2>1 DEF Call
    <3>2. 0 \in 0..(MaxAfter + 1)
      BY <1>1, CountFacts
    <3> QED BY <3>1, <3>2
  <2>2. CASE trouble # {}
    <3>1. after < MaxAfter /\ after' = after + 1
      BY <2>2 DEF Call
    <3>2. after + 1 \in 0..(MaxAfter + 1)
      BY <1>1, <3>1, CountFacts
    <3> QED BY <3>1, <3>2
  <2> QED BY <2>1, <2>2
<1>3. trouble' \subseteq {"half", "separator", "cut"}
  <2>1. Windows(r) \subseteq {"half", "separator", "cut"}
    BY DEF Windows
  <2> QED BY <1>0, <2>1 DEF Call
<1>4. dir' \in Volume /\ status' \in {"done", "refused", "exists", "unsupported", "not found"}
  BY DEF Call
<1>5. limit' \in Limits
  BY DEF Call, TypeInv, TypeOK
<1> QED BY <1>2, <1>3, <1>4, <1>5 DEF TypeInv, TypeOK, Volume, Dir

\* TypeInv /\ [Next]_vars => TypeInv'.
LEMMA TypeNext == TypeInv /\ [Next]_vars => TypeInv'
<1> SUFFICES ASSUME TypeInv, [Next]_vars PROVE TypeInv'
  OBVIOUS
<1>1. dir \in Volume
  BY DEF TypeInv
<1>2. CASE UNCHANGED vars
  BY <1>2 DEF vars, TypeInv, TypeOK
<1>3. ASSUME NEW k \in Key, InsertName(k) PROVE TypeInv'
  <2>1. InsertEntry(dir, k) \in Call3
    BY <1>1, InsertEntryType
  <2>2. PICK r : r = InsertEntry(dir, k) /\ Call(r)
    BY <1>3 DEF InsertName
  <2>3. r.dir \in Volume /\ r.how \in {"done", "refused", "exists"}
    BY <2>1, <2>2 DEF Call3
  <2> QED BY <2>2, <2>3, TypeCall
<1>4. ASSUME NEW k \in Key, RemoveName(k) PROVE TypeInv'
  <2>1. PICK r : r = RemoveEntry(dir, k) /\ Call(r)
    BY <1>4 DEF RemoveName
  <2>2. r.dir \in Volume /\ r.how \in {"done", "unsupported", "not found"}
    <3>1. PICK d \in Volume : d = dir
      BY <1>1
    <3>2. PICK u : u = HolderOf(d, k)
      OBVIOUS
    <3>3. PICK t : t = TakenFrom(d, k)
      OBVIOUS
    <3>4. RemoveTo(d, k, u, t, r)
      BY <2>1, <3>1, <3>2, <3>3, RemoveEntryFacts
    <3> QED BY <3>4 DEF RemoveTo
  <2> QED BY <2>1, <2>2, TypeCall
<1>5. CASE Fill
  BY <1>5 DEF Fill, TypeInv, TypeOK
<1> QED BY <1>2, <1>3, <1>4, <1>5 DEF Next

\* The fields of the directory keep their types through every call (NtfsInsertIndexEntry,
\* NtfsRemoveOneDirEntryByChild): a walk that ends at its limit still returns a node's
\* own block, no pointer leaves the blocks, and the clusters that the index owns and
\* those that are free are never more than the volume has.
THEOREM IndexTypes == Spec => []TypeOK
<1>1. TypeInv => TypeOK
  BY DEF TypeInv
<1> QED BY <1>1, TypeInit, TypeNext, PTL DEF Spec

(***************************************************************************)
(* The tree.                                                               *)
(***************************************************************************)
\* A labelling of the nodes, of the blocks and of the record: how far a node is
\* above the leaves, which node points to it, and between which separators its
\* keys lie; -1 for no bound.
Place == Block \cup {None}
Labels == [lev : [Place -> Nat], par : [Place -> Place], lo : [Place -> Int], hi : [Place -> Int]]
InTree(d) == d.used \cup {None}
Slots(n) == 1..(Len(n.keys) + 1)
Between(k, a, b) == a < k /\ (b = -1 \/ k < b)

\* The bounds of what hangs at slot i of node n, itself between a and b.
LoAt(n, a, i) == IF i = 1 THEN a ELSE n.keys[i - 1].key
HiAt(n, b, i) == IF i <= Len(n.keys) THEN n.keys[i].key ELSE b
Sorted(n, a, b) ==
  /\ \A i \in 1..Len(n.keys) : Between(n.keys[i].key, a, b)
  /\ \A i, j \in 1..Len(n.keys) : i < j => n.keys[i].key < n.keys[j].key

\* A leaf has no children.  At a slot of any other node is a child one level below,
\* or the last child has gone: of the record, or of a record that was pushed down.
Bare(n) == \A i \in Slots(n) : SubAt(n, i) = None
Child(d, g, u, i) ==
  LET n == NodeAt(d, u)
      c == SubAt(n, i)
  IN  /\ c \in d.used /\ g.lev[c] + 1 = g.lev[u] /\ g.par[c] = u
      /\ g.lo[c] = LoAt(n, g.lo[u], i) /\ g.hi[c] = HiAt(n, g.hi[u], i)
Stump(d, u, i) ==
  i = Len(NodeAt(d, u).keys) + 1 /\ SubAt(NodeAt(d, u), i) = IF u = None THEN None ELSE -1

\* Node u agrees with its labels; x is a block that has lost its last key or child, -1
\* if there is none.
Fits(d, x, g, u) ==
  /\ Sorted(NodeAt(d, u), g.lo[u], g.hi[u])
  /\ u = x => NodeAt(d, u) = Leaf(<< >>)
  /\ u # x /\ g.lev[u] = 0 => Bare(NodeAt(d, u)) /\ NodeAt(d, u).keys # << >>
  /\ u # x /\ g.lev[u] > 0 => \A i \in Slots(NodeAt(d, u)) : Child(d, g, u, i) \/ Stump(d, u, i)

\* A block in use hangs in the tree; any other holds nothing.
Hangs(d, g, v) ==
  g.lev[v] < g.lev[None] /\ g.par[v] \in InTree(d) /\ SlotOf(NodeAt(d, g.par[v]), v) # {}
Idle(d, v) == d.node[v].keys = << >> /\ d.node[v].end \notin Block

\* The directory is a tree with these labels.
Tree(d, x, g) ==
  /\ d \in Volume /\ g \in Labels /\ g.lev[None] > 0 /\ g.lo[None] = -1 /\ g.hi[None] = -1
  /\ d.large /\ d.used \subseteq 0..(d.owned - 1) /\ d.owned + d.free = Clusters
  /\ \A v \in Block \ d.used : Idle(d, v)
  /\ \A v \in d.used : Hangs(d, g, v)
  /\ \A u \in InTree(d) : Fits(d, x, g, u)
KeysIn(d) == {k \in Key : \E u \in InTree(d) : Has(NodeAt(d, u), k)}

\* An index in blocks is a tree that a lookup reaches the leaves of, has a key, and has
\* lost the end of no block.
Rooted(d) == d.root.keys # << >> \/ d.root.end # None
Big(d) ==
  /\ \E g : Tree(d, -1, g) /\ g.lev[None] <= InsertLevels
  /\ Rooted(d) /\ \A v \in d.used : ~ Cut(d.node[v])

\* An index in the record may keep its first block, but then it is empty.
Small(d) ==
  /\ d \in Volume /\ ~ d.large /\ d.used = {} /\ d.owned <= 1 /\ d.owned + d.free = Clusters
  /\ Sorted(d.root, -1, -1) /\ Bare(d.root) /\ (d.owned = 1 => d.root.keys = << >>)
  /\ \A v \in Block : Idle(d, v)

\* The inductive invariant: outside the windows a lookup finds the keys of such an index.
TreeInv == TypeInv /\ (trouble = {} => names = KeysIn(dir) /\ (Small(dir) \/ Big(dir)))

(*****************************************************************************)
(* What a tree is made of.                                                   *)
(*****************************************************************************)
\* The types of a tree's parts.
LEMMA TreeFacts ==
  ASSUME NEW d, NEW x, NEW g, Tree(d, x, g)
  PROVE  /\ d \in Volume /\ g \in Labels /\ d.used \subseteq Block /\ InTree(d) \subseteq Place
         /\ None \in InTree(d) /\ (\A v \in d.used : v \in InTree(d) /\ v \in Block /\ v # None)
         /\ \A u \in Place : /\ g.lev[u] \in Nat /\ g.lo[u] \in Int /\ g.hi[u] \in Int
                             /\ g.par[u] \in Place
         /\ \A u \in Place : NodeAt(d, u) \in Node /\ Len(NodeAt(d, u).keys) \in Nat
         /\ \A u \in InTree(d) : u # None => u \in d.used
  <1>1. d \in Volume /\ g \in Labels
    BY DEF Tree
  <1>2. d.used \subseteq Block /\ d.root \in Node /\ \A v \in Block : d.node[v] \in Node
    BY <1>1, VolumeFacts
  <1>3. None \notin Block
    BY ConstFacts
  <1>4. \A u \in Place : /\ g.lev[u] \in Nat /\ g.lo[u] \in Int /\ g.hi[u] \in Int
                         /\ g.par[u] \in Place
    BY <1>1 DEF Labels
  <1>5. \A u \in Place : NodeAt(d, u) \in Node
    BY <1>2 DEF NodeAt, Place
  <1>6. \A u \in Place : Len(NodeAt(d, u).keys) \in Nat
    BY <1>5, NodeFacts
  <1> QED
    BY <1>1, <1>2, <1>3, <1>4, <1>5, <1>6 DEF InTree, Place

\* A block of the tree hangs in a slot of one node, which points to it once.
LEMMA ParentFacts ==
  ASSUME NEW d, NEW x, NEW g, Tree(d, x, g), NEW v \in d.used
  PROVE  /\ g.par[v] \in InTree(d) /\ g.par[v] # x /\ g.par[v] # v
         /\ g.lev[g.par[v]] = g.lev[v] + 1 /\ g.lev[v] < g.lev[None]
         /\ \E i \in Slots(NodeAt(d, g.par[v])) :
              SubAt(NodeAt(d, g.par[v]), i) = v /\ Child(d, g, g.par[v], i)
  <1>1. PICK p : p = g.par[v]
    OBVIOUS
  <1>2. /\ p \in InTree(d) /\ SlotOf(NodeAt(d, p), v) # {} /\ g.lev[v] < g.lev[None] /\ v \in Block
        /\ p \in Place /\ g.lev[p] \in Nat /\ g.lev[v] \in Nat /\ NodeAt(d, p) \in Node
        /\ Len(NodeAt(d, p).keys) \in Nat /\ v \in Place
    BY <1>1, TreeFacts DEF Tree, Hangs, Place
  <1>3. PICK i \in Slots(NodeAt(d, p)) : SubAt(NodeAt(d, p), i) = v
    BY <1>2 DEF SlotOf, Slots
  <1>4. v # None /\ v # -1
    BY <1>2, ConstFacts
  <1>5. Fits(d, x, g, p)
    BY <1>2 DEF Tree
  <1>6. p # x
    <2> SUFFICES ASSUME p = x PROVE FALSE
      OBVIOUS
    <2>1. NodeAt(d, p) = Leaf(<< >>)
      BY <1>5 DEF Fits
    <2>2. SubAt(NodeAt(d, p), i) = None
      BY <2>1, <1>3, EmptyLeafFacts DEF SubAt, Slots
    <2> QED
      BY <2>2, <1>3, <1>4
  <1>7. g.lev[p] # 0
    BY <1>2, <1>3, <1>4, <1>5, <1>6 DEF Fits, Bare
  <1>8. Child(d, g, p, i)
    <2>1. Child(d, g, p, i) \/ Stump(d, p, i)
      BY <1>2, <1>3, <1>5, <1>6, <1>7 DEF Fits
    <2>2. ~ Stump(d, p, i)
      BY <1>3, <1>4 DEF Stump
    <2> QED
      BY <2>1, <2>2
  <1>9. g.lev[v] + 1 = g.lev[p]
    BY <1>3, <1>8 DEF Child
  <1> QED
    BY <1>1, <1>2, <1>3, <1>6, <1>8, <1>9

\* What a node of the tree points to is in the tree, below it.
LEMMA PointerFacts ==
  ASSUME NEW d, NEW x, NEW g, Tree(d, x, g), NEW u \in InTree(d), NEW i \in Slots(NodeAt(d, u)),
         NEW v \in Block, SubAt(NodeAt(d, u), i) = v
  PROVE  /\ Child(d, g, u, i) /\ v \in d.used /\ g.par[v] = u /\ g.lev[v] + 1 = g.lev[u] /\ u # x
         /\ g.lo[v] = LoAt(NodeAt(d, u), g.lo[u], i) /\ g.hi[v] = HiAt(NodeAt(d, u), g.hi[u], i)
         /\ \A j \in Slots(NodeAt(d, u)) : SubAt(NodeAt(d, u), j) = v => j = i
  <1>1. v # None /\ v # -1
    BY ConstFacts
  <1>2. Fits(d, x, g, u)
    BY DEF Tree
  <1>3. PICK n : n = NodeAt(d, u)
    OBVIOUS
  <1>4. u \in Place /\ g.lev[u] \in Nat /\ n \in Node /\ Len(n.keys) \in Nat /\ g.lo[u] \in Int
    BY <1>3, TreeFacts
  <1>5. u # x
    <2> SUFFICES ASSUME u = x PROVE FALSE
      OBVIOUS
    <2>1. n = Leaf(<< >>)
      BY <1>2, <1>3 DEF Fits
    <2>2. SubAt(n, i) = None
      BY <2>1, <1>3, EmptyLeafFacts DEF SubAt, Slots
    <2> QED
      BY <2>2, <1>1, <1>3
  <1>6. g.lev[u] > 0
    BY <1>1, <1>2, <1>4, <1>5 DEF Fits, Bare
  <1>7. \A j \in Slots(n) : SubAt(n, j) = v => Child(d, g, u, j)
    BY <1>1, <1>2, <1>3, <1>5, <1>6 DEF Fits, Stump
  <1>8. \A j \in Slots(n) : SubAt(n, j) = v => j = i
    <2> SUFFICES ASSUME NEW a \in Slots(n), NEW b \in Slots(n), SubAt(n, a) = v, SubAt(n, b) = v, a < b
                 PROVE  FALSE
      BY <1>3, <1>4 DEF Slots
    <2>1. LoAt(n, g.lo[u], a) = LoAt(n, g.lo[u], b)
      BY <1>3, <1>7 DEF Child
    <2>2. Sorted(n, g.lo[u], g.hi[u])
      BY <1>2, <1>3 DEF Fits
    <2>3. \A j \in 1..Len(n.keys) : n.keys[j].key \in Nat /\ g.lo[u] < n.keys[j].key
      BY <2>2, <1>4, NodeFacts DEF Sorted, Between
    <2>4. b - 1 \in 1..Len(n.keys) /\ a \in 1..Len(n.keys) /\ b # 1
      BY <1>4 DEF Slots
    <2>5. CASE a = 1
      BY <2>1, <2>3, <2>4, <2>5, <1>4 DEF LoAt
    <2>6. CASE a # 1
      <3>1. a - 1 \in 1..Len(n.keys) /\ a - 1 < b - 1
        BY <2>4, <2>6
      <3>2. n.keys[a - 1].key < n.keys[b - 1].key
        BY <3>1, <2>2, <2>4 DEF Sorted
      <3> QED
        BY <3>1, <3>2, <2>1, <2>3, <2>4, <2>6 DEF LoAt
    <2> QED
      BY <2>5, <2>6
  <1>9. Child(d, g, u, i)
    BY <1>3, <1>7
  <1> QED
    BY <1>3, <1>5, <1>8, <1>9 DEF Child

\* Between two neighbouring keys of a node there is one slot.
LEMMA BetweenSlot ==
  ASSUME NEW n \in Node, NEW a \in Int, NEW b \in Int, Sorted(n, a, b), NEW i \in Slots(n), NEW k \in Key,
         Between(k, LoAt(n, a, i), HiAt(n, b, i))
  PROVE  Slot(n, k) = i /\ ~ Has(n, k) /\ Between(k, a, b)
  <1>1. /\ Len(n.keys) \in Nat /\ DOMAIN n.keys = 1..Len(n.keys) /\ k \in Nat /\ i \in 1..(Len(n.keys) + 1)
        /\ \A j \in 1..Len(n.keys) : n.keys[j].key \in Nat
    BY NodeFacts, ConstFacts DEF Slots
  <1>2. /\ \A j \in 1..Len(n.keys) : a < n.keys[j].key /\ (b = -1 \/ n.keys[j].key < b)
        /\ \A j, l \in 1..Len(n.keys) : j < l => n.keys[j].key < n.keys[l].key
    BY DEF Sorted, Between
  <1>3. /\ i # 1 => n.keys[i - 1].key < k
        /\ i = 1 => a < k
        /\ i <= Len(n.keys) => k < n.keys[i].key \/ n.keys[i].key = -1
        /\ i = Len(n.keys) + 1 => b = -1 \/ k < b
    BY <1>1 DEF Between, LoAt, HiAt
  <1>4. /\ \A j \in 1..Len(n.keys) : j < i => n.keys[j].key < k
        /\ \A j \in 1..Len(n.keys) : j >= i => k < n.keys[j].key
    <2>1. ASSUME NEW j \in 1..Len(n.keys), j < i PROVE n.keys[j].key < k
      <3>1. i - 1 \in 1..Len(n.keys) /\ (j = i - 1 \/ j < i - 1) /\ n.keys[i - 1].key < k
        BY <1>1, <1>3, <2>1
      <3>2. j < i - 1 => n.keys[j].key < n.keys[i - 1].key
        BY <3>1, <1>2
      <3> QED
        BY <3>1, <3>2, <1>1
    <2>2. ASSUME NEW j \in 1..Len(n.keys), j >= i PROVE k < n.keys[j].key
      <3>1. i \in 1..Len(n.keys) /\ (j = i \/ i < j) /\ k < n.keys[i].key
        BY <1>1, <1>3, <2>2
      <3>2. i < j => n.keys[i].key < n.keys[j].key
        BY <3>1, <1>2
      <3> QED
        BY <3>1, <3>2, <1>1
    <2> QED
      BY <2>1, <2>2
  <1>5. ~ Has(n, k)
    <2> SUFFICES ASSUME NEW j \in 1..Len(n.keys), n.keys[j].key = k PROVE FALSE
      BY <1>1 DEF Has
    <2>1. j < i \/ j >= i
      BY <1>1
    <2> QED
      BY <2>1, <1>1, <1>4
  <1>6. Slot(n, k) = i
    <2>1. /\ Slot(n, k) \in 1..(Len(n.keys) + 1)
          /\ \A j \in 1..Len(n.keys) : j < Slot(n, k) => n.keys[j].key < k
          /\ Slot(n, k) <= Len(n.keys) => k <= n.keys[Slot(n, k)].key
      BY SlotFacts
    <2>2. CASE Slot(n, k) < i
      BY <2>1, <2>2, <1>1, <1>4
    <2>3. CASE Slot(n, k) > i
      BY <2>1, <2>3, <1>1, <1>4
    <2> QED
      BY <2>1, <2>2, <2>3, <1>1
  <1>7. Between(k, a, b)
    <2>1. a < k
      BY <1>1, <1>2, <1>3
    <2>2. b = -1 \/ k < b
      BY <1>1, <1>2, <1>3
    <2> QED
      BY <2>1, <2>2 DEF Between
  <1> QED
    BY <1>5, <1>6, <1>7

\* A key that a node does not have lies between the neighbours of its slot.
LEMMA SlotBetween ==
  ASSUME NEW n \in Node, NEW a \in Int, NEW b \in Int, Sorted(n, a, b), NEW k \in Key,
         ~ Has(n, k), Between(k, a, b)
  PROVE  Slot(n, k) \in Slots(n) /\ Between(k, LoAt(n, a, Slot(n, k)), HiAt(n, b, Slot(n, k)))
  <1>1. PICK i : i = Slot(n, k)
    OBVIOUS
  <1>2. /\ Len(n.keys) \in Nat /\ DOMAIN n.keys = 1..Len(n.keys) /\ k \in Nat
        /\ \A j \in 1..Len(n.keys) : n.keys[j].key \in Nat /\ n.keys[j].key # k
    BY NodeFacts, ConstFacts DEF Has
  <1>3. /\ i \in 1..(Len(n.keys) + 1)
        /\ \A j \in 1..Len(n.keys) : j < i => n.keys[j].key < k
        /\ i <= Len(n.keys) => k <= n.keys[i].key
    BY <1>1, SlotFacts
  <1>4. LoAt(n, a, i) < k
    BY <1>2, <1>3 DEF LoAt, Between
  <1>5. HiAt(n, b, i) = -1 \/ k < HiAt(n, b, i)
    BY <1>2, <1>3 DEF HiAt, Between
  <1> QED
    BY <1>1, <1>3, <1>4, <1>5 DEF Between, Slots

\* The keys of a node lie where its labels say.
LEMMA KeyBetween ==
  ASSUME NEW d, NEW x, NEW g, Tree(d, x, g), NEW u \in InTree(d)
  PROVE  /\ Sorted(NodeAt(d, u), g.lo[u], g.hi[u]) /\ NodeAt(d, u) \in Node /\ g.lo[u] \in Int /\ g.hi[u] \in Int
         /\ \A k : Has(NodeAt(d, u), k) => Between(k, g.lo[u], g.hi[u])
  <1>1. NodeAt(d, u) \in Node /\ g.lo[u] \in Int /\ g.hi[u] \in Int
    BY TreeFacts
  <1>2. DOMAIN NodeAt(d, u).keys = 1..Len(NodeAt(d, u).keys)
    BY <1>1, NodeFacts
  <1>3. Sorted(NodeAt(d, u), g.lo[u], g.hi[u])
    BY DEF Tree, Fits
  <1> QED
    BY <1>1, <1>2, <1>3 DEF Has, Sorted

\* A node's keys may lie nowhere but in one slot of its parent.
LEMMA StepUp ==
  ASSUME NEW d, NEW x, NEW g, Tree(d, x, g), NEW v \in d.used, NEW k \in Key, Between(k, g.lo[v], g.hi[v]),
         NEW p, p = g.par[v]
  PROVE  /\ p \in InTree(d) /\ g.lev[p] = g.lev[v] + 1 /\ Between(k, g.lo[p], g.hi[p])
         /\ ~ Has(NodeAt(d, p), k) /\ Slot(NodeAt(d, p), k) \in Slots(NodeAt(d, p))
         /\ SubAt(NodeAt(d, p), Slot(NodeAt(d, p), k)) = v
  <1>1. /\ p \in InTree(d) /\ g.lev[p] = g.lev[v] + 1
        /\ \E i \in Slots(NodeAt(d, p)) : SubAt(NodeAt(d, p), i) = v /\ Child(d, g, p, i)
    BY ParentFacts
  <1>2. PICK i \in Slots(NodeAt(d, p)) : SubAt(NodeAt(d, p), i) = v /\ Child(d, g, p, i)
    BY <1>1
  <1>3. /\ NodeAt(d, p) \in Node /\ g.lo[p] \in Int /\ g.hi[p] \in Int
        /\ Sorted(NodeAt(d, p), g.lo[p], g.hi[p])
    BY <1>1, KeyBetween
  <1>4. Between(k, LoAt(NodeAt(d, p), g.lo[p], i), HiAt(NodeAt(d, p), g.hi[p], i))
    BY <1>2 DEF Child
  <1>5. Slot(NodeAt(d, p), k) = i /\ ~ Has(NodeAt(d, p), k) /\ Between(k, g.lo[p], g.hi[p])
    BY <1>3, <1>4, BetweenSlot
  <1> QED
    BY <1>1, <1>2, <1>5

\* At every level above it a node has an ancestor with wider bounds.
LEMMA Ancestor ==
  ASSUME NEW d, NEW x, NEW g, Tree(d, x, g), NEW v \in InTree(d), NEW k \in Key, Between(k, g.lo[v], g.hi[v]),
         NEW l \in Nat, g.lev[v] <= l, l <= g.lev[None]
  PROVE  \E a \in InTree(d) : g.lev[a] = l /\ Between(k, g.lo[a], g.hi[a])
  <1>1. \A u \in InTree(d) : g.lev[u] \in Nat
    BY TreeFacts
  <1> DEFINE D == {m \in Nat : \E a \in InTree(d) : g.lev[a] = g.lev[v] + m /\ Between(k, g.lo[a], g.hi[a])}
             N == l - g.lev[v]
  <1>2. N \in Nat
    BY <1>1
  <1>3. 0 \in D
    BY <1>1
  <1>4. ASSUME NEW m \in 1..N, m - 1 \in D PROVE m \in D
    <2>1. PICK a \in InTree(d) : g.lev[a] = g.lev[v] + (m - 1) /\ Between(k, g.lo[a], g.hi[a])
      BY <1>4
    <2>2. g.lev[a] < g.lev[None]
      BY <2>1, <1>1, TreeFacts
    <2>3. a \in d.used
      BY <2>2, <1>1, TreeFacts
    <2>4. PICK p : p = g.par[a]
      OBVIOUS
    <2>5. p \in InTree(d) /\ g.lev[p] = g.lev[a] + 1 /\ Between(k, g.lo[p], g.hi[p])
      BY <2>1, <2>3, <2>4, StepUp
    <2>6. m \in Nat /\ g.lev[p] = g.lev[v] + m
      BY <2>1, <2>5, <1>1, <1>2
    <2> QED
      BY <2>5, <2>6
  <1> HIDE DEF D
  <1>5. \A m \in 0..N : m \in D
    BY <1>2, <1>3, <1>4, KeptByAll
  <1>6. N \in D /\ g.lev[v] + N = l
    BY <1>2, <1>5, <1>1
  <1> QED
    BY <1>6 DEF D

\* The bounds of the nodes of one level do not overlap.
LEMMA Disjoint ==
  ASSUME NEW d, NEW x, NEW g, Tree(d, x, g), NEW u \in InTree(d), NEW v \in InTree(d), g.lev[u] = g.lev[v],
         NEW k \in Key, Between(k, g.lo[u], g.hi[u]), Between(k, g.lo[v], g.hi[v])
  PROVE  u = v
  <1>1. /\ \A a \in InTree(d) : g.lev[a] \in Nat /\ (a # None => a \in d.used)
        /\ None \in InTree(d)
    BY TreeFacts
  <1>2. \A a \in d.used : g.lev[a] < g.lev[None]
    BY ParentFacts
  <1> DEFINE In(a) == Between(k, g.lo[a], g.hi[a])
             D == {m \in Nat : \A a, b \in InTree(d) :
                     g.lev[a] + m = g.lev[None] /\ g.lev[b] + m = g.lev[None] /\ In(a) /\ In(b) => a = b}
             N == g.lev[None] - g.lev[u]
  <1>3. N \in Nat
    BY <1>1, <1>2
  <1>4. 0 \in D
    <2> SUFFICES ASSUME NEW a \in InTree(d), NEW b \in InTree(d), g.lev[a] + 0 = g.lev[None], g.lev[b] + 0 = g.lev[None]
                 PROVE  a = b
      OBVIOUS
    <2> QED
      BY <1>1, <1>2
  <1>5. ASSUME NEW m \in 1..N, m - 1 \in D PROVE m \in D
    <2> SUFFICES ASSUME NEW a \in InTree(d), NEW b \in InTree(d), g.lev[a] + m = g.lev[None], g.lev[b] + m = g.lev[None],
                        In(a), In(b)
                 PROVE  a = b
      BY <1>3
    <2>1. a \in d.used /\ b \in d.used
      BY <1>1, <1>3
    <2>2. PICK p : p = g.par[a]
      OBVIOUS
    <2>3. PICK q : q = g.par[b]
      OBVIOUS
    <2>4. /\ p \in InTree(d) /\ g.lev[p] = g.lev[a] + 1 /\ In(p)
          /\ SubAt(NodeAt(d, p), Slot(NodeAt(d, p), k)) = a
      BY <2>1, <2>2, StepUp
    <2>5. /\ q \in InTree(d) /\ g.lev[q] = g.lev[b] + 1 /\ In(q)
          /\ SubAt(NodeAt(d, q), Slot(NodeAt(d, q), k)) = b
      BY <2>1, <2>3, StepUp
    <2>6. g.lev[p] + (m - 1) = g.lev[None] /\ g.lev[q] + (m - 1) = g.lev[None]
      BY <2>4, <2>5, <1>1, <1>3
    <2>7. p = q
      BY <2>4, <2>5, <2>6, <1>5
    <2> QED
      BY <2>4, <2>5, <2>7
  <1> HIDE DEF D
  <1>6. \A m \in 0..N : m \in D
    BY <1>3, <1>4, <1>5, KeptByAll
  <1>7. N \in D /\ g.lev[u] + N = g.lev[None] /\ g.lev[v] + N = g.lev[None]
    BY <1>3, <1>6, <1>1
  <1> QED
    BY <1>7 DEF D

\* A key of a node lies between the bounds of no other node at its level or below.
LEMMA Only ==
  ASSUME NEW d, NEW x, NEW g, Tree(d, x, g), NEW u \in InTree(d), NEW k \in Key, Has(NodeAt(d, u), k),
         NEW v \in InTree(d), g.lev[v] <= g.lev[u], Between(k, g.lo[v], g.hi[v])
  PROVE  v = u
  <1>1. /\ \A a \in InTree(d) : g.lev[a] \in Nat /\ (a # None => a \in d.used)
        /\ None \in InTree(d)
    BY TreeFacts
  <1>2. \A a \in d.used : g.lev[a] < g.lev[None]
    BY ParentFacts
  <1>3. Between(k, g.lo[u], g.hi[u])
    BY KeyBetween
  <1>4. CASE g.lev[v] = g.lev[u]
    BY <1>3, <1>4, Disjoint
  <1>5. CASE g.lev[v] # g.lev[u]
    <2>1. PICK l \in Nat : l + 1 = g.lev[u] /\ g.lev[v] <= l /\ l <= g.lev[None]
      <3>1. g.lev[u] - 1 \in Nat /\ g.lev[v] <= g.lev[u] - 1 /\ g.lev[u] <= g.lev[None]
        BY <1>1, <1>2, <1>5
      <3> QED
        BY <3>1, <1>1
    <2>2. PICK a \in InTree(d) : g.lev[a] = l /\ Between(k, g.lo[a], g.hi[a])
      BY <2>1, Ancestor
    <2>3. a \in d.used
      BY <1>1, <1>2, <2>1, <2>2
    <2>4. PICK p : p = g.par[a]
      OBVIOUS
    <2>5. p \in InTree(d) /\ g.lev[p] = g.lev[a] + 1 /\ Between(k, g.lo[p], g.hi[p]) /\ ~ Has(NodeAt(d, p), k)
      BY <2>2, <2>3, <2>4, StepUp
    <2>6. p = u
      BY <2>1, <2>2, <2>5, <1>3, Disjoint
    <2> QED
      BY <2>5, <2>6
  <1> QED
    BY <1>4, <1>5

\* No key is in two nodes.
LEMMA Unique ==
  ASSUME NEW d, NEW x, NEW g, Tree(d, x, g), NEW u \in InTree(d), NEW v \in InTree(d), NEW k \in Key,
         Has(NodeAt(d, u), k), Has(NodeAt(d, v), k)
  PROVE  u = v
  <1>1. g.lev[u] \in Nat /\ g.lev[v] \in Nat
    BY TreeFacts
  <1>2. Between(k, g.lo[u], g.hi[u]) /\ Between(k, g.lo[v], g.hi[v])
    BY KeyBetween
  <1>3. CASE g.lev[u] <= g.lev[v]
    BY <1>2, <1>3, Only
  <1>4. CASE g.lev[v] <= g.lev[u]
    BY <1>2, <1>4, Only
  <1> QED
    BY <1>1, <1>3, <1>4

\* A comparison leads down towards the node that has the key.
LEMMA Towards ==
  ASSUME NEW d, NEW x, NEW g, Tree(d, x, g), NEW u \in InTree(d), NEW v \in InTree(d), NEW k \in Key,
         Has(NodeAt(d, u), k), Between(k, g.lo[v], g.hi[v]), u # v
  PROVE  /\ g.lev[u] < g.lev[v] /\ ~ Has(NodeAt(d, v), k)
         /\ \E c \in d.used : /\ SubAt(NodeAt(d, v), Slot(NodeAt(d, v), k)) = c
                              /\ g.lev[c] + 1 = g.lev[v] /\ Between(k, g.lo[c], g.hi[c])
  <1>1. /\ \A a \in InTree(d) : g.lev[a] \in Nat /\ (a # None => a \in d.used)
        /\ None \in InTree(d)
    BY TreeFacts
  <1>2. \A a \in d.used : g.lev[a] < g.lev[None]
    BY ParentFacts
  <1>3. g.lev[u] < g.lev[v]
    BY Only, <1>1
  <1>4. ~ Has(NodeAt(d, v), k)
    BY Unique
  <1>5. PICK l \in Nat : l + 1 = g.lev[v] /\ g.lev[u] <= l /\ l <= g.lev[None]
    <2>1. g.lev[v] - 1 \in Nat /\ g.lev[u] <= g.lev[v] - 1 /\ g.lev[v] <= g.lev[None]
      BY <1>1, <1>2, <1>3
    <2> QED
      BY <2>1, <1>1
  <1>6. Between(k, g.lo[u], g.hi[u])
    BY KeyBetween
  <1>7. PICK a \in InTree(d) : g.lev[a] = l /\ Between(k, g.lo[a], g.hi[a])
    BY <1>5, <1>6, Ancestor
  <1>8. a \in d.used
    BY <1>1, <1>2, <1>5, <1>7
  <1>9. PICK p : p = g.par[a]
    OBVIOUS
  <1>10. /\ p \in InTree(d) /\ g.lev[p] = g.lev[a] + 1 /\ Between(k, g.lo[p], g.hi[p])
         /\ SubAt(NodeAt(d, p), Slot(NodeAt(d, p), k)) = a
    BY <1>7, <1>8, <1>9, StepUp
  <1>11. p = v
    BY <1>5, <1>7, <1>10, Disjoint
  <1> QED
    BY <1>3, <1>4, <1>5, <1>7, <1>8, <1>10, <1>11

(*****************************************************************************)
(* Walks down the tree.                                                      *)
(*****************************************************************************)
\* One level of the walks of a lookup and of a deletion.
Sought(d, k, w, b) == IF w \in d.used /\ Readable(d, w) THEN SearchNode(d.node[w], k, b) ELSE None

\* A lookup finds the key or nothing.
LEMMA SoughtFacts ==
  ASSUME NEW d \in Volume, NEW k \in Key, NEW b \in [Sub -> Key \cup {None}], NEW w \in Sub
  PROVE  Sought(d, k, w, b) \in Key \cup {None}
<1> SUFFICES ASSUME w \in d.used, Readable(d, w) PROVE SearchNode(d.node[w], k, b) \in Key \cup {None}
  BY DEF Sought
<1>1. d.node[w] \in Node
  BY VolumeFacts
<1>2. Slot(d.node[w], k) \in 1..(Len(d.node[w].keys) + 1)
  BY <1>1, SlotFacts
<1>3. SubAt(d.node[w], Slot(d.node[w], k)) \in Sub
  BY <1>1, <1>2, NodeFacts
<1> QED BY <1>3 DEF SearchNode

\* The lookup below a node, level by level.
LEMMA SearchLevelsFacts ==
  ASSUME NEW d \in Volume, NEW k \in Key
  PROVE  \E L \in [0..SearchLevels -> [Sub -> Key \cup {None}]] :
           /\ \A w \in Sub : L[0][w] = None
           /\ \A h \in 1..SearchLevels : \A w \in Sub : L[h][w] = Sought(d, k, w, L[h - 1])
           /\ \A v \in Sub : SearchBlocks(d, k)[v] = L[SearchLevels][v]
<1> DEFINE D == [Sub -> Key \cup {None}]
           f == [b \in D |-> [w \in Sub |-> Sought(d, k, w, b)]]
           a == [w \in Sub |-> None]
           F(l) == [h \in 0..SearchLevels |-> [w \in Sub |-> IF h > 0 /\ w \in d.used /\ Readable(d, w) THEN SearchNode(d.node[w], k, l[h - 1]) ELSE None]]
<1>1. SearchLevels \in Nat
  BY DEF SearchLevels
<1>2. a \in D
  OBVIOUS
<1>3. f \in [D -> D]
  <2>1. ASSUME NEW b \in D PROVE [w \in Sub |-> Sought(d, k, w, b)] \in D
    <3>1. \A w \in Sub : Sought(d, k, w, b) \in Key \cup {None}
      BY SoughtFacts
    <3> QED BY <3>1
  <2> QED BY <2>1
<1>4. PICK W \in [0..SearchLevels -> D] : W[0] = a /\ \A h \in 1..SearchLevels : W[h] = f[W[h - 1]]
  <2> HIDE DEF D, f, a
  <2>1. \E W : Follows(W, SearchLevels, D, f, a)
    BY <1>1, <1>2, <1>3, Iterates, Zenon
  <2> QED BY <2>1 DEF Follows
<1>5. \A h \in 1..SearchLevels : h - 1 \in 0..SearchLevels /\ h # 0 /\ h > 0
  BY <1>1
<1>6. \A h \in 1..SearchLevels : W[h] = [w \in Sub |-> Sought(d, k, w, W[h - 1])]
  BY <1>4, <1>5
<1>7. W = F(W)
  <2>1. ASSUME NEW h \in 0..SearchLevels
        PROVE  W[h] = [w \in Sub |-> IF h > 0 /\ w \in d.used /\ Readable(d, w) THEN SearchNode(d.node[w], k, W[h - 1]) ELSE None]
    <3>1. CASE h = 0
      BY <1>4, <3>1
    <3>2. CASE h # 0
      <4>1. h \in 1..SearchLevels /\ h > 0
        BY <1>1, <3>2
      <4> QED BY <1>6, <3>2, <4>1 DEF Sought
    <3> QED BY <3>1, <3>2
  <2> QED BY <1>4, <2>1
<1>8. PICK L : L = CHOOSE l : l = F(l)
  OBVIOUS
<1>9. L = F(L)
  <2> HIDE DEF F
  <2> QED BY <1>7, <1>8
<1>10. \A v \in Sub : SearchBlocks(d, k)[v] = L[SearchLevels][v]
  BY <1>8 DEF SearchBlocks
<1>11. L[0] = a
  BY <1>1, <1>9
<1>12. ASSUME NEW h \in 1..SearchLevels PROVE L[h] = [w \in Sub |-> Sought(d, k, w, L[h - 1])]
  <2>1. h \in 0..SearchLevels /\ h # 0 /\ h > 0
    BY <1>1
  <2>2. L[h] = [w \in Sub |-> IF h > 0 /\ w \in d.used /\ Readable(d, w) THEN SearchNode(d.node[w], k, L[h - 1]) ELSE None]
    BY <1>9, <2>1
  <2> QED BY <2>1, <2>2 DEF Sought
<1>13. \A h \in 0..SearchLevels : L[h] \in D
  <2> DEFINE G == {h \in 0..SearchLevels : L[h] \in D}
  <2>1. 0 \in G
    BY <1>1, <1>2, <1>11
  <2>2. ASSUME NEW h \in 1..SearchLevels, h - 1 \in G PROVE h \in G
    <3>1. L[h - 1] \in D
      BY <2>2
    <3>2. L[h] = f[L[h - 1]]
      BY <1>12, <3>1
    <3>3. h \in 0..SearchLevels
      BY <1>1
    <3> QED BY <1>3, <3>1, <3>2, <3>3
  <2> HIDE DEF G
  <2>3. \A h \in 0..SearchLevels : h \in G
    BY <1>1, <2>1, <2>2, KeptByAll
  <2> QED BY <2>3 DEF G
<1>14. L \in [0..SearchLevels -> D]
  <2>1. L = [h \in 0..SearchLevels |-> L[h]]
    BY <1>9
  <2> QED BY <1>13, <2>1
<1> HIDE DEF F, f
<1>15. \A w \in Sub : L[0][w] = None
  BY <1>11
<1>16. \A h \in 1..SearchLevels : \A w \in Sub : L[h][w] = Sought(d, k, w, L[h - 1])
  BY <1>12
<1> HIDE DEF a
<1> QED BY <1>10, <1>14, <1>15, <1>16

Reached(d, w, b) == {w} \cup IF Readable(d, w) THEN UNION {b[x] : x \in Subs(d.node[w])} ELSE {}

\* What hangs below a node is made of pointers.
LEMMA ReachedFacts ==
  ASSUME NEW d \in Volume, NEW b \in [Sub -> SUBSET Sub], NEW w \in Sub
  PROVE  Reached(d, w, b) \in SUBSET Sub
<1> SUFFICES ASSUME Readable(d, w) PROVE \A x \in Subs(d.node[w]) : b[x] \in SUBSET Sub
  BY DEF Reached
<1>1. d.node[w] \in Node
  BY VolumeFacts DEF Readable
<1>2. Subs(d.node[w]) \subseteq Sub
  BY <1>1, NodeFacts DEF Subs
<1> QED BY <1>2

\* What hangs below a node, level by level.
LEMMA UnderFacts ==
  ASSUME NEW d \in Volume
  PROVE  \E L \in [0..RemoveLevels -> [Sub -> SUBSET Sub]] :
           /\ \A w \in Sub : L[0][w] = {w}
           /\ \A h \in 1..RemoveLevels : \A w \in Sub : L[h][w] = Reached(d, w, L[h - 1])
           /\ \A v \in Sub : Under(d, v) = L[RemoveLevels][v]
<1> DEFINE D == [Sub -> SUBSET Sub]
           f == [b \in D |-> [w \in Sub |-> Reached(d, w, b)]]
           a == [w \in Sub |-> {w}]
           F(l) == [h \in 0..RemoveLevels |-> [w \in Sub |-> {w} \cup IF h > 0 /\ Readable(d, w) THEN UNION {l[h - 1][x] : x \in Subs(d.node[w])} ELSE {}]]
<1>1. RemoveLevels \in Nat
  BY DEF RemoveLevels
<1>2. a \in D
  OBVIOUS
<1>3. f \in [D -> D]
  <2>1. ASSUME NEW b \in D PROVE [w \in Sub |-> Reached(d, w, b)] \in D
    <3>1. \A w \in Sub : Reached(d, w, b) \in SUBSET Sub
      BY ReachedFacts
    <3> QED BY <3>1
  <2> QED BY <2>1
<1>4. PICK W \in [0..RemoveLevels -> D] : W[0] = a /\ \A h \in 1..RemoveLevels : W[h] = f[W[h - 1]]
  <2> HIDE DEF D, f, a
  <2>1. \E W : Follows(W, RemoveLevels, D, f, a)
    BY <1>1, <1>2, <1>3, Iterates, Zenon
  <2> QED BY <2>1 DEF Follows
<1>5. \A h \in 1..RemoveLevels : h - 1 \in 0..RemoveLevels /\ h # 0 /\ h > 0
  BY <1>1
<1>6. \A h \in 1..RemoveLevels : W[h] = [w \in Sub |-> Reached(d, w, W[h - 1])]
  BY <1>4, <1>5
<1>7. W = F(W)
  <2>1. ASSUME NEW h \in 0..RemoveLevels
        PROVE  W[h] = [w \in Sub |-> {w} \cup IF h > 0 /\ Readable(d, w) THEN UNION {W[h - 1][x] : x \in Subs(d.node[w])} ELSE {}]
    <3>1. CASE h = 0
      BY <1>4, <3>1
    <3>2. CASE h # 0
      <4>1. h \in 1..RemoveLevels /\ h > 0
        BY <1>1, <3>2
      <4> QED BY <1>6, <3>2, <4>1 DEF Reached
    <3> QED BY <3>1, <3>2
  <2> QED BY <1>4, <2>1
<1>8. PICK L : L = CHOOSE l : l = F(l)
  OBVIOUS
<1>9. L = F(L)
  <2> HIDE DEF F
  <2> QED BY <1>7, <1>8
<1>10. \A v \in Sub : Under(d, v) = L[RemoveLevels][v]
  BY <1>8 DEF Under
<1>11. L[0] = a
  BY <1>1, <1>9
<1>12. ASSUME NEW h \in 1..RemoveLevels PROVE L[h] = [w \in Sub |-> Reached(d, w, L[h - 1])]
  <2>1. h \in 0..RemoveLevels /\ h # 0 /\ h > 0
    BY <1>1
  <2>2. L[h] = [w \in Sub |-> {w} \cup IF h > 0 /\ Readable(d, w) THEN UNION {L[h - 1][x] : x \in Subs(d.node[w])} ELSE {}]
    BY <1>9, <2>1
  <2> QED BY <2>1, <2>2 DEF Reached
<1>13. \A h \in 0..RemoveLevels : L[h] \in D
  <2> DEFINE G == {h \in 0..RemoveLevels : L[h] \in D}
  <2>1. 0 \in G
    BY <1>1, <1>2, <1>11
  <2>2. ASSUME NEW h \in 1..RemoveLevels, h - 1 \in G PROVE h \in G
    <3>1. L[h - 1] \in D
      BY <2>2
    <3>2. L[h] = f[L[h - 1]]
      BY <1>12, <3>1
    <3>3. h \in 0..RemoveLevels
      BY <1>1
    <3> QED BY <1>3, <3>1, <3>2, <3>3
  <2> HIDE DEF G
  <2>3. \A h \in 0..RemoveLevels : h \in G
    BY <1>1, <2>1, <2>2, KeptByAll
  <2> QED BY <2>3 DEF G
<1>14. L \in [0..RemoveLevels -> D]
  <2>1. L = [h \in 0..RemoveLevels |-> L[h]]
    BY <1>9
  <2> QED BY <1>13, <2>1
<1> HIDE DEF F, f
<1>15. \A w \in Sub : L[0][w] = {w}
  BY <1>11
<1>16. \A h \in 1..RemoveLevels : \A w \in Sub : L[h][w] = Reached(d, w, L[h - 1])
  BY <1>12
<1> HIDE DEF a
<1> QED BY <1>10, <1>14, <1>15, <1>16

First(d, w, b) ==
  IF ~ Readable(d, w) THEN None
  ELSE IF d.node[w].keys # << >> THEN d.node[w].keys[1].key ELSE b[d.node[w].end]

\* The first key below a node is a key, if there is one.
LEMMA FirstFacts ==
  ASSUME NEW d \in Volume, NEW b \in [Sub -> Key \cup {None}], NEW w \in Sub
  PROVE  First(d, w, b) \in Key \cup {None}
<1> SUFFICES ASSUME Readable(d, w) PROVE First(d, w, b) \in Key \cup {None}
  BY DEF First
<1>1. d.node[w] \in Node
  BY VolumeFacts DEF Readable
<1>2. d.node[w].end \in Sub /\ (d.node[w].keys # << >> => d.node[w].keys[1].key \in Key)
  <2>1. d.node[w].keys # << >> => 1 \in 1..Len(d.node[w].keys)
    BY <1>1, NodeFacts
  <2> QED BY <1>1, <2>1, NodeFacts
<1> QED BY <1>2 DEF First

\* The first key below a node, level by level.
LEMMA KeyBelowFacts ==
  ASSUME NEW d \in Volume
  PROVE  \E L \in [0..RemoveLevels -> [Sub -> Key \cup {None}]] :
           /\ \A w \in Sub : L[0][w] = None
           /\ \A h \in 1..RemoveLevels : \A w \in Sub : L[h][w] = First(d, w, L[h - 1])
           /\ \A v \in Sub : KeyBelow(d, v) = L[RemoveLevels][v]
<1> DEFINE D == [Sub -> Key \cup {None}]
           f == [b \in D |-> [w \in Sub |-> First(d, w, b)]]
           a == [w \in Sub |-> None]
           F(l) == [h \in 0..RemoveLevels |-> [w \in Sub |-> IF h = 0 \/ ~Readable(d, w) THEN None ELSE IF d.node[w].keys # << >> THEN d.node[w].keys[1].key ELSE l[h - 1][d.node[w].end]]]
<1>1. RemoveLevels \in Nat
  BY DEF RemoveLevels
<1>2. a \in D
  OBVIOUS
<1>3. f \in [D -> D]
  <2>1. ASSUME NEW b \in D PROVE [w \in Sub |-> First(d, w, b)] \in D
    <3>1. \A w \in Sub : First(d, w, b) \in Key \cup {None}
      BY FirstFacts
    <3> QED BY <3>1
  <2> QED BY <2>1
<1>4. PICK W \in [0..RemoveLevels -> D] : W[0] = a /\ \A h \in 1..RemoveLevels : W[h] = f[W[h - 1]]
  <2> HIDE DEF D, f, a
  <2>1. \E W : Follows(W, RemoveLevels, D, f, a)
    BY <1>1, <1>2, <1>3, Iterates, Zenon
  <2> QED BY <2>1 DEF Follows
<1>5. \A h \in 1..RemoveLevels : h - 1 \in 0..RemoveLevels /\ h # 0 /\ h > 0
  BY <1>1
<1>6. \A h \in 1..RemoveLevels : W[h] = [w \in Sub |-> First(d, w, W[h - 1])]
  BY <1>4, <1>5
<1>7. W = F(W)
  <2>1. ASSUME NEW h \in 0..RemoveLevels
        PROVE  W[h] = [w \in Sub |-> IF h = 0 \/ ~Readable(d, w) THEN None ELSE IF d.node[w].keys # << >> THEN d.node[w].keys[1].key ELSE W[h - 1][d.node[w].end]]
    <3>1. CASE h = 0
      BY <1>4, <3>1
    <3>2. CASE h # 0
      <4>1. h \in 1..RemoveLevels /\ h > 0
        BY <1>1, <3>2
      <4> QED BY <1>6, <3>2, <4>1 DEF First
    <3> QED BY <3>1, <3>2
  <2> QED BY <1>4, <2>1
<1>8. PICK L : L = CHOOSE l : l = F(l)
  OBVIOUS
<1>9. L = F(L)
  <2> HIDE DEF F
  <2> QED BY <1>7, <1>8
<1>10. \A v \in Sub : KeyBelow(d, v) = L[RemoveLevels][v]
  BY <1>8 DEF KeyBelow
<1>11. L[0] = a
  BY <1>1, <1>9
<1>12. ASSUME NEW h \in 1..RemoveLevels PROVE L[h] = [w \in Sub |-> First(d, w, L[h - 1])]
  <2>1. h \in 0..RemoveLevels /\ h # 0 /\ h > 0
    BY <1>1
  <2>2. L[h] = [w \in Sub |-> IF h = 0 \/ ~Readable(d, w) THEN None ELSE IF d.node[w].keys # << >> THEN d.node[w].keys[1].key ELSE L[h - 1][d.node[w].end]]
    BY <1>9, <2>1
  <2> QED BY <2>1, <2>2 DEF First
<1>13. \A h \in 0..RemoveLevels : L[h] \in D
  <2> DEFINE G == {h \in 0..RemoveLevels : L[h] \in D}
  <2>1. 0 \in G
    BY <1>1, <1>2, <1>11
  <2>2. ASSUME NEW h \in 1..RemoveLevels, h - 1 \in G PROVE h \in G
    <3>1. L[h - 1] \in D
      BY <2>2
    <3>2. L[h] = f[L[h - 1]]
      BY <1>12, <3>1
    <3>3. h \in 0..RemoveLevels
      BY <1>1
    <3> QED BY <1>3, <3>1, <3>2, <3>3
  <2> HIDE DEF G
  <2>3. \A h \in 0..RemoveLevels : h \in G
    BY <1>1, <2>1, <2>2, KeptByAll
  <2> QED BY <2>3 DEF G
<1>14. L \in [0..RemoveLevels -> D]
  <2>1. L = [h \in 0..RemoveLevels |-> L[h]]
    BY <1>9
  <2> QED BY <1>13, <2>1
<1> HIDE DEF F, f
<1>15. \A w \in Sub : L[0][w] = None
  BY <1>11
<1>16. \A h \in 1..RemoveLevels : \A w \in Sub : L[h][w] = First(d, w, L[h - 1])
  BY <1>12
<1> HIDE DEF a
<1> QED BY <1>10, <1>14, <1>15, <1>16

\* The slot of a key that a node has is where the key is.
LEMMA HasSlot ==
  ASSUME NEW n \in Node, NEW a, NEW b, Sorted(n, a, b), NEW k \in Key, Has(n, k)
  PROVE  /\ Slot(n, k) \in 1..Len(n.keys) /\ n.keys[Slot(n, k)].key = k
         /\ \A i \in 1..Len(n.keys) : n.keys[i].key = k => i = Slot(n, k)
<1>1. /\ Len(n.keys) \in Nat /\ DOMAIN n.keys = 1..Len(n.keys) /\ k \in Nat
      /\ \A j \in 1..Len(n.keys) : n.keys[j].key \in Nat
  BY NodeFacts, ConstFacts
<1>2. PICK i \in 1..Len(n.keys) : n.keys[i].key = k
  BY <1>1 DEF Has
<1>3. /\ Slot(n, k) \in 1..(Len(n.keys) + 1)
      /\ \A j \in 1..Len(n.keys) : j < Slot(n, k) => n.keys[j].key < k
      /\ Slot(n, k) <= Len(n.keys) => k <= n.keys[Slot(n, k)].key
  BY SlotFacts
<1>4. \A j, l \in 1..Len(n.keys) : j < l => n.keys[j].key < n.keys[l].key
  BY DEF Sorted
<1>5. ASSUME NEW j \in 1..Len(n.keys), n.keys[j].key = k PROVE j = Slot(n, k)
  <2>1. ~ (j < Slot(n, k))
    BY <1>1, <1>3, <1>5
  <2>2. ~ (Slot(n, k) < j)
    BY <1>1, <1>3, <1>4, <1>5
  <2> QED BY <2>1, <2>2, <1>1, <1>3
<1>6. i = Slot(n, k)
  BY <1>2, <1>5
<1> QED BY <1>2, <1>5, <1>6

\* A block with a key, or with a child, can be read.
LEMMA ReadableFacts ==
  ASSUME NEW d \in Volume, NEW v \in Block,
         d.node[v].keys # << >> \/ \E i \in Slots(d.node[v]) : SubAt(d.node[v], i) # -1
  PROVE  Readable(d, v)
<1> SUFFICES ASSUME d.node[v] = Blank PROVE FALSE
  BY DEF Readable
<1>1. Blank.keys = << >> /\ Blank.end = -1 /\ Len(Blank.keys) = 0
  BY BlankFacts
<1>2. \A i \in Slots(Blank) : SubAt(Blank, i) = -1
  BY <1>1 DEF Slots, SubAt
<1> QED BY <1>1, <1>2

\* A lookup sees the keys of the tree.
LEMMA TreeVisible ==
  ASSUME NEW d, NEW g, Tree(d, -1, g), g.lev[None] <= InsertLevels
  PROVE  Visible(d) = KeysIn(d)
<1>1. /\ d \in Volume /\ d.used \subseteq Block /\ None \in InTree(d) /\ Block \subseteq Sub
      /\ \A a \in InTree(d) : /\ g.lev[a] \in Nat /\ (a # None => a \in d.used) /\ NodeAt(d, a) \in Node
                              /\ Len(NodeAt(d, a).keys) \in Nat
  BY TreeFacts, ConstFacts
<1>2. \A a \in d.used : a \in InTree(d) /\ g.lev[a] < g.lev[None] /\ NodeAt(d, a) = d.node[a]
  BY <1>1, ParentFacts, TreeFacts DEF NodeAt
<1>3. g.lo[None] = -1 /\ g.hi[None] = -1 /\ Key \subseteq Nat /\ NodeAt(d, None) = d.root
  BY ConstFacts DEF Tree, NodeAt
<1> SUFFICES ASSUME NEW k \in Key PROVE Search(d, k) = k <=> \E u \in InTree(d) : Has(NodeAt(d, u), k)
  BY DEF Visible, KeysIn
<1>4. k \in Nat /\ k # None /\ Between(k, g.lo[None], g.hi[None])
  BY <1>3, ConstFacts DEF Between
<1>5. PICK L \in [0..SearchLevels -> [Sub -> Key \cup {None}]] :
        /\ \A w \in Sub : L[0][w] = None
        /\ \A h \in 1..SearchLevels : \A w \in Sub : L[h][w] = Sought(d, k, w, L[h - 1])
        /\ \A v \in Sub : SearchBlocks(d, k)[v] = L[SearchLevels][v]
  BY <1>1, SearchLevelsFacts
<1>6. SearchLevels \in Nat /\ SearchLevels \in 0..SearchLevels /\ SearchLevels > InsertLevels
      /\ g.lev[None] < SearchLevels + 1
  <2>1. g.lev[None] \in Nat /\ g.lev[None] <= 13
    BY <1>1 DEF InsertLevels
  <2> QED BY <2>1 DEF SearchLevels, InsertLevels
<1>7. ASSUME NEW u \in InTree(d), Has(NodeAt(d, u), k) PROVE Search(d, k) = k
  <2> DEFINE D == {h \in 0..SearchLevels :
                     \A v \in d.used : g.lev[v] < h /\ Between(k, g.lo[v], g.hi[v]) => L[h][v] = k}
  <2>1. 0 \in D
    BY <1>1, <1>2, <1>6
  <2>2. ASSUME NEW v \in InTree(d), Between(k, g.lo[v], g.hi[v]), NEW h \in 0..SearchLevels, h \in D, g.lev[v] <= h
        PROVE  SearchNode(NodeAt(d, v), k, L[h]) = k
    <3>1. PICK n \in Node : n = NodeAt(d, v)
      BY <1>1
    <3>2. PICK i : i = Slot(n, k)
      OBVIOUS
    <3>3. CASE u = v
      <4>1. Sorted(n, g.lo[v], g.hi[v]) /\ Has(n, k)
        BY <1>7, <3>1, <3>3, KeyBetween
      <4>2. i \in 1..Len(n.keys) /\ n.keys[i].key = k
        BY <3>2, <4>1, HasSlot
      <4>3. i <= Len(n.keys)
        BY <4>2, <1>1, <3>1
      <4> QED BY <3>1, <3>2, <4>2, <4>3 DEF SearchNode
    <3>4. CASE u # v
      <4>1. /\ ~ Has(n, k)
            /\ \E c \in d.used : SubAt(n, i) = c /\ g.lev[c] + 1 = g.lev[v] /\ Between(k, g.lo[c], g.hi[c])
        BY <1>7, <2>2, <3>1, <3>2, <3>4, Towards
      <4>2. PICK c \in d.used : SubAt(n, i) = c /\ g.lev[c] + 1 = g.lev[v] /\ Between(k, g.lo[c], g.hi[c])
        BY <4>1
      <4>3. g.lev[c] < h
        BY <4>2, <2>2, <1>1, <1>2
      <4>4. L[h][c] = k
        BY <4>2, <4>3, <2>2
      <4>5. ~ (i <= Len(n.keys) /\ n.keys[i].key = k)
        <5>1. DOMAIN n.keys = 1..Len(n.keys) /\ i \in 1..(Len(n.keys) + 1)
          BY <3>1, <3>2, NodeFacts, SlotFacts
        <5> QED BY <5>1, <4>1, <1>1, <3>1 DEF Has
      <4> QED BY <3>1, <3>2, <4>2, <4>4, <4>5 DEF SearchNode
    <3> QED BY <3>3, <3>4
  <2>3. ASSUME NEW h \in 1..SearchLevels, h - 1 \in D PROVE h \in D
    <3>1. h \in 0..SearchLevels /\ h - 1 \in 0..SearchLevels
      BY <1>6
    <3>2. ASSUME NEW v \in d.used, g.lev[v] < h, Between(k, g.lo[v], g.hi[v]) PROVE L[h][v] = k
      <4>1. v \in InTree(d) /\ g.lev[v] <= h - 1
        BY <1>1, <1>2, <3>1, <3>2
      <4>2. SearchNode(NodeAt(d, v), k, L[h - 1]) = k
        BY <2>2, <2>3, <3>1, <3>2, <4>1
      <4>3. Readable(d, v)
        <5>1. PICK n \in Node : n = d.node[v]
          BY <1>1, <1>2
        <5>2. CASE u = v
          <6>1. n.keys # << >>
            BY <1>2, <1>7, <5>1, <5>2 DEF Has
          <6> QED BY <5>1, <6>1, <1>1, ReadableFacts
        <5>3. CASE u # v
          <6>1. \E c \in d.used : SubAt(n, Slot(n, k)) = c
            BY <1>2, <1>7, <3>2, <4>1, <5>1, <5>3, Towards
          <6>2. Slot(n, k) \in Slots(n) /\ SubAt(n, Slot(n, k)) # -1
            BY <6>1, <5>1, <1>1, SlotFacts, ConstFacts DEF Slots
          <6> QED BY <5>1, <6>2, <1>1, ReadableFacts
        <5> QED BY <5>2, <5>3
      <4> QED BY <1>1, <1>2, <1>5, <4>2, <4>3 DEF Sought
    <3> QED BY <3>1, <3>2
  <2>4. SearchLevels \in D
    <3> HIDE DEF D
    <3>1. \A h \in 0..SearchLevels : h \in D
      BY <1>6, <2>1, <2>3, KeptByAll
    <3> QED BY <3>1, <1>6
  <2>5. SearchNode(d.root, k, L[SearchLevels]) = k
    <3>1. g.lev[None] <= SearchLevels
      BY <1>1, <1>6
    <3> HIDE DEF D
    <3> QED BY <1>1, <1>3, <1>4, <1>6, <2>2, <2>4, <3>1
  <2>6. SubAt(d.root, Slot(d.root, k)) \in Sub
    <3>1. d.root \in Node
      BY <1>1, <1>3
    <3> QED BY <3>1, SlotFacts, NodeFacts
  <2>7. SearchBlocks(d, k)[SubAt(d.root, Slot(d.root, k))] = L[SearchLevels][SubAt(d.root, Slot(d.root, k))]
    BY <1>5, <2>6
  <2> QED BY <2>5, <2>7 DEF Search, SearchNode
<1>8. ASSUME Search(d, k) = k PROVE \E u \in InTree(d) : Has(NodeAt(d, u), k)
  <2> DEFINE D == {h \in 0..SearchLevels : \A v \in Sub : L[h][v] = k => \E u \in InTree(d) : Has(NodeAt(d, u), k)}
  <2>1. 0 \in D
    BY <1>4, <1>5, <1>6
  <2>2. ASSUME NEW v \in InTree(d), NEW h \in 0..SearchLevels, h \in D, SearchNode(NodeAt(d, v), k, L[h]) = k
        PROVE  \E u \in InTree(d) : Has(NodeAt(d, u), k)
    <3>1. PICK n \in Node : n = NodeAt(d, v)
      BY <1>1
    <3>2. PICK i : i = Slot(n, k)
      OBVIOUS
    <3>3. /\ DOMAIN n.keys = 1..Len(n.keys) /\ i \in 1..(Len(n.keys) + 1) /\ SubAt(n, i) \in Sub
          /\ Len(n.keys) \in Nat
      BY <3>1, <3>2, NodeFacts, SlotFacts
    <3>4. CASE i <= Len(n.keys) /\ n.keys[i].key = k
      BY <3>1, <3>3, <3>4 DEF Has
    <3>5. CASE ~ (i <= Len(n.keys) /\ n.keys[i].key = k)
      <4>1. L[h][SubAt(n, i)] = k
        BY <2>2, <3>1, <3>2, <3>5 DEF SearchNode
      <4> QED BY <4>1, <2>2, <3>3
    <3> QED BY <3>4, <3>5
  <2>3. ASSUME NEW h \in 1..SearchLevels, h - 1 \in D PROVE h \in D
    <3>1. h \in 0..SearchLevels /\ h - 1 \in 0..SearchLevels
      BY <1>6
    <3>2. ASSUME NEW v \in Sub, L[h][v] = k PROVE \E u \in InTree(d) : Has(NodeAt(d, u), k)
      <4>1. Sought(d, k, v, L[h - 1]) = k
        BY <1>5, <3>2
      <4>2. v \in d.used /\ SearchNode(d.node[v], k, L[h - 1]) = k
        BY <4>1, <1>4 DEF Sought
      <4> QED BY <1>2, <2>2, <2>3, <3>1, <4>2
    <3> QED BY <3>1, <3>2
  <2> HIDE DEF D
  <2>4. SearchLevels \in D
    <3>1. \A h \in 0..SearchLevels : h \in D
      BY <1>6, <2>1, <2>3, KeptByAll
    <3> QED BY <3>1, <1>6
  <2>5. SubAt(d.root, Slot(d.root, k)) \in Sub
    <3>1. d.root \in Node
      BY <1>1, <1>3
    <3> QED BY <3>1, SlotFacts, NodeFacts
  <2>6. SearchBlocks(d, k)[SubAt(d.root, Slot(d.root, k))] = L[SearchLevels][SubAt(d.root, Slot(d.root, k))]
    BY <1>5, <2>5
  <2>7. SearchNode(d.root, k, L[SearchLevels]) = k
    BY <1>8, <2>6 DEF Search, SearchNode
  <2> QED BY <1>1, <1>3, <1>6, <2>2, <2>4, <2>7
<1> QED BY <1>7, <1>8

(*****************************************************************************)
(* What a tree shows.                                                        *)
(*****************************************************************************)
\* Whatever hangs below a block has its keys between the block's bounds.
LEMMA TreeUnder ==
  ASSUME NEW d, NEW x, NEW g, Tree(d, x, g), NEW v \in Sub, NEW w \in Under(d, v), w \in Block
  PROVE  /\ v \in d.used => /\ w \in d.used
                            /\ \A k \in Key : Between(k, g.lo[w], g.hi[w]) => Between(k, g.lo[v], g.hi[v])
         /\ v \in Block
<1>1. /\ d \in Volume /\ d.used \subseteq Block /\ Block \subseteq Sub
      /\ \A a \in d.used : a \in InTree(d) /\ NodeAt(d, a) = d.node[a] /\ d.node[a] \in Node
  BY TreeFacts, ConstFacts, VolumeFacts DEF NodeAt
<1>2. PICK L \in [0..RemoveLevels -> [Sub -> SUBSET Sub]] :
        /\ \A a \in Sub : L[0][a] = {a}
        /\ \A h \in 1..RemoveLevels : \A a \in Sub : L[h][a] = Reached(d, a, L[h - 1])
        /\ \A a \in Sub : Under(d, a) = L[RemoveLevels][a]
  BY <1>1, UnderFacts
<1>3. RemoveLevels \in Nat /\ RemoveLevels \in 0..RemoveLevels
  BY DEF RemoveLevels
<1> DEFINE In(a, b) == \A k \in Key : Between(k, g.lo[a], g.hi[a]) => Between(k, g.lo[b], g.hi[b])
           D == {h \in 0..RemoveLevels :
                   /\ \A a \in d.used : \A b \in L[h][a] : b \in Block => b \in d.used /\ In(b, a)
                   /\ \A a \in Sub \ Block : L[h][a] = {a}}
<1>4. 0 \in D
  BY <1>1, <1>2, <1>3
<1>5. ASSUME NEW h \in 1..RemoveLevels, h - 1 \in D PROVE h \in D
  <2>1. h \in 0..RemoveLevels /\ h - 1 \in 0..RemoveLevels
    BY <1>3
  <2>2. ASSUME NEW a \in Sub \ Block PROVE L[h][a] = {a}
    <3>1. L[h][a] = Reached(d, a, L[h - 1]) /\ ~ Readable(d, a)
      BY <1>2, <2>2 DEF Readable
    <3> QED BY <3>1 DEF Reached
  <2>3. ASSUME NEW a \in d.used, NEW b \in L[h][a], b \in Block PROVE b \in d.used /\ In(b, a)
    <3>1. L[h][a] = Reached(d, a, L[h - 1])
      BY <1>1, <1>2
    <3>2. CASE b = a
      BY <2>3, <3>2
    <3>3. CASE b # a
      <4>1. PICK c \in Subs(d.node[a]) : b \in L[h - 1][c]
        BY <2>3, <3>1, <3>3 DEF Reached
      <4>2. PICK i \in Slots(d.node[a]) : c = SubAt(d.node[a], i)
        BY <4>1 DEF Subs, Slots
      <4>3. c \in Sub
        BY <1>1, <4>2, NodeFacts DEF Slots
      <4>4. c \in Block
        <5> SUFFICES ASSUME c \notin Block PROVE FALSE
          OBVIOUS
        <5>1. L[h - 1][c] = {c}
          BY <1>5, <4>3
        <5> QED BY <5>1, <4>1, <2>3
      <4>5. c \in d.used /\ g.par[c] = a
        BY <1>1, <4>2, <4>4, PointerFacts
      <4>6. In(c, a)
        BY <4>5, StepUp
      <4>7. b \in d.used /\ In(b, c)
        BY <1>5, <2>3, <4>1, <4>5
      <4> QED BY <4>6, <4>7
    <3> QED BY <3>2, <3>3
  <2> HIDE DEF In
  <2> QED BY <2>1, <2>2, <2>3
<1>6. RemoveLevels \in D
  <2> HIDE DEF D
  <2>1. \A h \in 0..RemoveLevels : h \in D
    BY <1>3, <1>4, <1>5, KeptByAll
  <2> QED BY <2>1, <1>3
<1>7. w \in L[RemoveLevels][v]
  BY <1>2
<1> QED BY <1>6, <1>7

\* The nodes are in collation order, and so is what hangs below them.
LEMMA TreeOrdered ==
  ASSUME NEW d, NEW x, NEW g, Tree(d, x, g), NEW u \in InTree(d)
  PROVE  Ordered(d, NodeAt(d, u))
<1>1. PICK n \in Node : n = NodeAt(d, u)
  BY TreeFacts
<1>2. g.lo[u] \in Int /\ g.hi[u] \in Int /\ Sorted(n, g.lo[u], g.hi[u]) /\ Len(n.keys) \in Nat
  BY <1>1, KeyBetween, NodeFacts
<1>3. \A i \in 2..Len(n.keys) : n.keys[i - 1].key < n.keys[i].key
  BY <1>2 DEF Sorted
<1>4. ASSUME NEW i \in Slots(n), NEW k \in Below(d, SubAt(n, i)) PROVE ~ Has(n, k) /\ Slot(n, k) = i
  <2>1. PICK c \in Sub : c = SubAt(n, i)
    BY NodeFacts DEF Slots
  <2>2. PICK w \in Block : w \in Under(d, c) /\ Has(d.node[w], k)
    BY <1>4, <2>1 DEF Below
  <2>3. k \in Key
    BY <1>4 DEF Below
  <2>4. c \in Block
    BY <2>1, <2>2, TreeUnder
  <2>5. c \in d.used /\ g.lo[c] = LoAt(n, g.lo[u], i) /\ g.hi[c] = HiAt(n, g.hi[u], i)
    BY <1>1, <2>1, <2>4, PointerFacts
  <2>6. w \in d.used /\ (Between(k, g.lo[w], g.hi[w]) => Between(k, g.lo[c], g.hi[c]))
    BY <2>2, <2>3, <2>5, TreeUnder
  <2>7. Between(k, g.lo[w], g.hi[w])
    <3>1. w \in InTree(d) /\ NodeAt(d, w) = d.node[w]
      BY <2>6, TreeFacts DEF NodeAt
    <3> QED BY <2>2, <3>1, KeyBetween
  <2>8. Between(k, LoAt(n, g.lo[u], i), HiAt(n, g.hi[u], i))
    BY <2>5, <2>6, <2>7
  <2> QED BY <1>2, <2>3, <2>8, BetweenSlot
<1> QED BY <1>1, <1>3, <1>4 DEF Ordered, Slots

\* A block is in use if one pointer of the tree leads to it.
LEMMA TreePointers ==
  ASSUME NEW d, NEW x, NEW g, Tree(d, x, g)
  PROVE  /\ d.used = {v \in Block : Pointers(d, v) # {}}
         /\ \A v \in d.used : Cardinality(Pointers(d, v)) = 1 /\ v < d.owned
         /\ d.owned + d.free = Clusters
<1>1. d.used \subseteq Block /\ d.used \subseteq 0..(d.owned - 1) /\ d.owned + d.free = Clusters
      /\ InTree(d) = d.used \cup {None} /\ d.owned \in Nat
  BY TreeFacts, VolumeFacts DEF Tree, InTree
<1>2. \A v, q : q \in Pointers(d, v) <=>
        \E u \in InTree(d) : \E i \in Slots(NodeAt(d, u)) : SubAt(NodeAt(d, u), i) = v /\ q = <<u, i>>
  BY <1>1 DEF Pointers, SlotOf, Slots
<1>3. ASSUME NEW v \in d.used PROVE \E q : Pointers(d, v) = {q}
  <2>1. PICK p : p = g.par[v]
    OBVIOUS
  <2>2. p \in InTree(d) /\ \E i \in Slots(NodeAt(d, p)) : SubAt(NodeAt(d, p), i) = v
    BY <2>1, ParentFacts
  <2>3. PICK i \in Slots(NodeAt(d, p)) : SubAt(NodeAt(d, p), i) = v
    BY <2>2
  <2>4. <<p, i>> \in Pointers(d, v)
    BY <1>2, <2>2, <2>3
  <2>5. ASSUME NEW q \in Pointers(d, v) PROVE q = <<p, i>>
    <3>1. PICK u \in InTree(d) : \E j \in Slots(NodeAt(d, u)) : SubAt(NodeAt(d, u), j) = v /\ q = <<u, j>>
      BY <1>2, <2>5
    <3>1a. PICK j \in Slots(NodeAt(d, u)) : SubAt(NodeAt(d, u), j) = v /\ q = <<u, j>>
      BY <3>1
    <3>2. v \in Block
      BY <1>1
    <3>3. u = p
      BY <2>1, <3>1a, <3>2, PointerFacts
    <3>4. j = i
      BY <2>2, <2>3, <3>1a, <3>2, <3>3, PointerFacts
    <3> QED BY <3>1a, <3>3, <3>4
  <2> QED BY <2>4, <2>5
<1>4. ASSUME NEW v \in Block, Pointers(d, v) # {} PROVE v \in d.used
  <2>1. PICK u \in InTree(d) : \E i \in Slots(NodeAt(d, u)) : SubAt(NodeAt(d, u), i) = v
    BY <1>2, <1>4
  <2> QED BY <2>1, PointerFacts
<1>5. ASSUME NEW v \in d.used PROVE Cardinality(Pointers(d, v)) = 1
  <2>1. PICK q : Pointers(d, v) = {q}
    BY <1>3
  <2> QED BY <2>1, FS_Singleton
<1>6. d.used = {v \in Block : Pointers(d, v) # {}}
  BY <1>1, <1>3, <1>4
<1>7. \A v \in d.used : v < d.owned
  BY <1>1
<1> QED BY <1>1, <1>5, <1>6, <1>7

\* The blocks that are not in use have no keys.
LEMMA TreeScan ==
  ASSUME NEW d, NEW x, NEW g, Tree(d, x, g)
  PROVE  KeysIn(d) = {k \in Key : Has(d.root, k) \/ \E v \in Block : Readable(d, v) /\ Has(d.node[v], k)}
<1>1. /\ d \in Volume /\ d.used \subseteq Block /\ InTree(d) = d.used \cup {None} /\ None \notin Block
      /\ \A v \in Block : NodeAt(d, v) = d.node[v] /\ d.node[v] \in Node
  BY TreeFacts, VolumeFacts, ConstFacts DEF InTree, NodeAt
<1>2. NodeAt(d, None) = d.root
  BY DEF NodeAt
<1>3. \A v \in Block : \A k : Has(d.node[v], k) => d.node[v].keys # << >>
  BY DEF Has
<1>4. \A v \in Block : \A k : Has(d.node[v], k) => v \in d.used /\ Readable(d, v)
  <2> SUFFICES ASSUME NEW v \in Block, d.node[v].keys # << >> PROVE v \in d.used /\ Readable(d, v)
    BY <1>3
  <2>1. v \in d.used
    BY DEF Tree, Idle
  <2>2. Readable(d, v)
    BY <1>1, ReadableFacts
  <2> QED BY <2>1, <2>2
<1> QED BY <1>1, <1>2, <1>4 DEF KeysIn

\* A tree with a root that has something in it has a key.
LEMMA TreeHasKeys ==
  ASSUME NEW d, NEW g, Tree(d, -1, g), Rooted(d), \A v \in d.used : ~ Cut(d.node[v])
  PROVE  KeysIn(d) # {}
<1>1. /\ d \in Volume /\ d.used \subseteq Block /\ None \in InTree(d)
      /\ \A a \in InTree(d) : /\ g.lev[a] \in Nat /\ (a # None => a \in d.used) /\ NodeAt(d, a) \in Node
                              /\ Len(NodeAt(d, a).keys) \in Nat /\ a # -1
      /\ \A a \in d.used : a \in InTree(d) /\ a # None /\ NodeAt(d, a) = d.node[a]
  BY TreeFacts, ConstFacts DEF InTree, NodeAt
<1>2. ASSUME NEW u \in InTree(d), NodeAt(d, u).keys # << >> PROVE KeysIn(d) # {}
  <2>1. PICK n \in Node : n = NodeAt(d, u)
    BY <1>1
  <2>2. 1 \in 1..Len(n.keys) /\ DOMAIN n.keys = 1..Len(n.keys) /\ n.keys[1].key \in Key
    <3>1. n.keys \in Seq(Item) /\ n.keys # << >>
      BY <1>2, <2>1, NodeFacts
    <3>2. 1 \in 1..Len(n.keys)
      BY <3>1
    <3> QED BY <3>2, NodeFacts
  <2> QED BY <2>1, <2>2 DEF KeysIn, Has
<1> SUFFICES ASSUME \A u \in InTree(d) : NodeAt(d, u).keys = << >> PROVE FALSE
  BY <1>2
<1>3. ASSUME NEW u \in InTree(d), g.lev[u] > 0, u = None => d.root.end # None
      PROVE  \E c \in d.used : g.lev[c] + 1 = g.lev[u]
  <2>1. PICK n \in Node : n = NodeAt(d, u)
    BY <1>1
  <2>2. n.keys = << >> /\ Len(n.keys) = 0 /\ SubAt(n, 1) = n.end /\ 1 \in Slots(n)
    BY <2>1 DEF SubAt, Slots
  <2>3. Child(d, g, u, 1) \/ Stump(d, u, 1)
    BY <1>1, <1>3, <2>1, <2>2 DEF Tree, Fits
  <2>4. ~ Stump(d, u, 1)
    <3>1. u = None => n.end # None
      BY <1>3, <2>1 DEF NodeAt
    <3>2. u # None => n.end # -1
      BY <1>1, <2>1 DEF Cut
    <3> QED BY <2>1, <2>2, <3>1, <3>2 DEF Stump
  <2> QED BY <2>3, <2>4 DEF Child
<1>4. g.lev[None] > 0 /\ d.root.end # None
  BY <1>1 DEF Rooted, Tree, NodeAt
<1> DEFINE T == {g.lev[a] : a \in d.used}
<1>5. T \in SUBSET Nat /\ T # {}
  BY <1>1, <1>3, <1>4
<1>6. PICK m \in T : \A t \in T : m <= t
  BY <1>5, LeastNumber
<1>7. PICK a \in d.used : g.lev[a] = m
  BY <1>6
<1>8. CASE m = 0
  <2>1. NodeAt(d, a).keys # << >>
    BY <1>1, <1>7, <1>8 DEF Tree, Fits
  <2> QED BY <2>1, <1>1
<1>9. CASE m # 0
  <2>1. PICK c \in d.used : g.lev[c] + 1 = m
    BY <1>1, <1>3, <1>7, <1>9
  <2>2. g.lev[c] \in T /\ g.lev[c] \in Nat /\ m \in Nat
    BY <2>1, <1>1, <1>5, <1>6
  <2>3. m <= g.lev[c]
    BY <2>2, <1>6
  <2> QED BY <2>1, <2>2, <2>3
<1> QED BY <1>8, <1>9

(*****************************************************************************)
(* Nodes that gain and lose a key.                                           *)
(*****************************************************************************)
\* The keys of m are those of n and k at i; those of n without the one at i; and
\* the l after the first c.
AddedAt(n, m, i, k) ==
  /\ Len(m.keys) = Len(n.keys) + 1
  /\ \A j \in 1..(Len(n.keys) + 1) :
       m.keys[j].key = IF j < i THEN n.keys[j].key ELSE IF j = i THEN k ELSE n.keys[j - 1].key
CutAt(n, m, i) ==
  /\ Len(m.keys) = Len(n.keys) - 1
  /\ \A j \in 1..(Len(n.keys) - 1) : m.keys[j].key = IF j < i THEN n.keys[j].key ELSE n.keys[j + 1].key
RunOf(n, m, c, l) ==
  c + l <= Len(n.keys) /\ Len(m.keys) = l /\ \A j \in 1..l : m.keys[j].key = n.keys[c + j].key

\* A node that has got a key between two neighbours.
LEMMA SortedAdd ==
  ASSUME NEW n \in Node, NEW m \in Node, NEW a \in Int, NEW b \in Int, Sorted(n, a, b), NEW i \in Slots(n),
         NEW k \in Key, Between(k, LoAt(n, a, i), HiAt(n, b, i)), AddedAt(n, m, i, k)
  PROVE  /\ Sorted(m, a, b) /\ \A q : Has(m, q) <=> Has(n, q) \/ q = k
         /\ \A j \in Slots(m) : /\ LoAt(m, a, j) = IF j <= i THEN LoAt(n, a, j)
                                                   ELSE IF j = i + 1 THEN k ELSE LoAt(n, a, j - 1)
                                /\ HiAt(m, b, j) = IF j < i THEN HiAt(n, b, j)
                                                   ELSE IF j = i THEN k ELSE HiAt(n, b, j - 1)
<1>1. /\ Len(n.keys) \in Nat /\ DOMAIN n.keys = 1..Len(n.keys) /\ DOMAIN m.keys = 1..(Len(n.keys) + 1)
      /\ \A j \in 1..Len(n.keys) : n.keys[j].key \in Nat
      /\ k \in Nat /\ i \in 1..(Len(n.keys) + 1)
  BY NodeFacts, ConstFacts DEF Slots, AddedAt
<1>0. \A j \in 1..(Len(n.keys) + 1) : /\ j < i => m.keys[j].key = n.keys[j].key
                                      /\ j = i => m.keys[j].key = k
                                      /\ j > i => m.keys[j].key = n.keys[j - 1].key
  <2> SUFFICES ASSUME NEW j \in 1..(Len(n.keys) + 1)
               PROVE  /\ j < i => m.keys[j].key = n.keys[j].key
                      /\ j = i => m.keys[j].key = k
                      /\ j > i => m.keys[j].key = n.keys[j - 1].key
    OBVIOUS
  <2>1. m.keys[j].key = IF j < i THEN n.keys[j].key ELSE IF j = i THEN k ELSE n.keys[j - 1].key
    BY DEF AddedAt
  <2>2. j > i => ~ (j < i) /\ j # i
    BY <1>1
  <2>3. j = i => ~ (j < i)
    BY <1>1
  <2> QED BY <2>1, <2>2, <2>3
<1>2. Between(k, a, b) /\ Slot(n, k) = i /\ ~ Has(n, k)
  BY BetweenSlot
<1>3. /\ \A j \in 1..Len(n.keys) : j < i => n.keys[j].key < k
      /\ \A j \in 1..Len(n.keys) : j >= i => k < n.keys[j].key
  <2>1. ASSUME NEW j \in 1..Len(n.keys), j < i PROVE n.keys[j].key < k
    BY <1>2, <2>1, SlotFacts
  <2>2. ASSUME NEW j \in 1..Len(n.keys), j >= i PROVE k < n.keys[j].key
    <3>1. i \in 1..Len(n.keys) /\ k <= n.keys[i].key /\ n.keys[i].key # k
      BY <1>1, <1>2, <2>2, SlotFacts DEF Has
    <3>2. j = i \/ n.keys[i].key < n.keys[j].key
      BY <3>1, <2>2, <1>1 DEF Sorted
    <3> QED BY <3>1, <3>2, <1>1
  <2> QED BY <2>1, <2>2
<1>4. \A j \in 1..Len(n.keys) : Between(n.keys[j].key, a, b)
  BY DEF Sorted
<1>5. \A j, l \in 1..Len(n.keys) : j < l => n.keys[j].key < n.keys[l].key
  BY DEF Sorted
<1>6. \A j \in 1..Len(m.keys) : Between(m.keys[j].key, a, b)
  <2> SUFFICES ASSUME NEW j \in 1..(Len(n.keys) + 1) PROVE Between(m.keys[j].key, a, b)
    BY DEF AddedAt
  <2>1. CASE j < i
    BY <2>1, <1>0, <1>1, <1>4
  <2>2. CASE j = i
    BY <2>2, <1>0, <1>2
  <2>3. CASE j > i
    <3>1. j - 1 \in 1..Len(n.keys)
      BY <2>3, <1>1
    <3> QED BY <3>1, <2>3, <1>0, <1>4
  <2> QED BY <2>1, <2>2, <2>3, <1>1
<1>7. \A j, l \in 1..Len(m.keys) : j < l => m.keys[j].key < m.keys[l].key
  <2> SUFFICES ASSUME NEW j \in 1..(Len(n.keys) + 1), NEW l \in 1..(Len(n.keys) + 1), j < l
               PROVE  m.keys[j].key < m.keys[l].key
    BY DEF AddedAt
  <2>1. CASE l < i
    <3>1. l \in 1..Len(n.keys) /\ j \in 1..Len(n.keys) /\ j < i
      BY <2>1, <1>1
    <3>2. m.keys[j].key = n.keys[j].key /\ m.keys[l].key = n.keys[l].key
      BY <2>1, <3>1, <1>0
    <3> QED BY <3>1, <3>2, <1>5
  <2>2. CASE l = i
    <3>1. j \in 1..Len(n.keys) /\ j < i
      BY <2>2, <1>1
    <3>2. m.keys[j].key = n.keys[j].key /\ m.keys[l].key = k
      BY <2>2, <3>1, <1>0
    <3> QED BY <3>1, <3>2, <1>3
  <2>3. CASE l > i /\ j < i
    <3>1. l - 1 \in 1..Len(n.keys) /\ j \in 1..Len(n.keys) /\ j < l - 1
      BY <2>3, <1>1
    <3> QED BY <3>1, <2>3, <1>0, <1>5
  <2>4. CASE l > i /\ j = i
    <3>1. l - 1 \in 1..Len(n.keys) /\ l - 1 >= i
      BY <2>4, <1>1
    <3> QED BY <3>1, <2>4, <1>0, <1>3
  <2>5. CASE l > i /\ j > i
    <3>1. l - 1 \in 1..Len(n.keys) /\ j - 1 \in 1..Len(n.keys) /\ j - 1 < l - 1
      BY <2>5, <1>1
    <3> QED BY <3>1, <2>5, <1>0, <1>5
  <2> QED BY <2>1, <2>2, <2>3, <2>4, <2>5, <1>1
<1>8. ASSUME NEW q PROVE Has(m, q) <=> Has(n, q) \/ q = k
  <2>1. ASSUME NEW j \in 1..(Len(n.keys) + 1), m.keys[j].key = q PROVE Has(n, q) \/ q = k
    <3>1. CASE j < i
      <4>1. j \in 1..Len(n.keys) /\ n.keys[j].key = q
        BY <2>1, <3>1, <1>0, <1>1
      <4> QED BY <4>1, <1>1 DEF Has
    <3>2. CASE j = i
      BY <2>1, <3>2, <1>0
    <3>3. CASE j > i
      <4>1. j - 1 \in 1..Len(n.keys) /\ n.keys[j - 1].key = q
        BY <2>1, <3>3, <1>0, <1>1
      <4> QED BY <4>1, <1>1 DEF Has
    <3> QED BY <3>1, <3>2, <3>3, <1>1
  <2>2. ASSUME NEW j \in 1..Len(n.keys), n.keys[j].key = q PROVE Has(m, q)
    <3>1. CASE j < i
      <4>1. j \in 1..(Len(n.keys) + 1) /\ m.keys[j].key = q
        BY <2>2, <3>1, <1>0, <1>1
      <4> QED BY <4>1, <1>1 DEF Has
    <3>2. CASE j >= i
      <4>1. j + 1 \in 1..(Len(n.keys) + 1) /\ m.keys[j + 1].key = n.keys[(j + 1) - 1].key /\ (j + 1) - 1 = j
        BY <3>2, <1>0, <1>1
      <4> QED BY <4>1, <2>2, <1>1 DEF Has
    <3> QED BY <3>1, <3>2, <1>1
  <2>3. Has(m, k)
    BY <1>0, <1>1 DEF Has
  <2> QED BY <2>1, <2>2, <2>3, <1>1 DEF Has
<1>9. ASSUME NEW j \in Slots(m)
      PROVE  /\ LoAt(m, a, j) = IF j <= i THEN LoAt(n, a, j)
                                ELSE IF j = i + 1 THEN k ELSE LoAt(n, a, j - 1)
             /\ HiAt(m, b, j) = IF j < i THEN HiAt(n, b, j)
                                ELSE IF j = i THEN k ELSE HiAt(n, b, j - 1)
  <2>1. j \in 1..(Len(n.keys) + 2) /\ (j # 1 => j - 1 \in 1..(Len(n.keys) + 1))
    BY <1>1 DEF Slots, AddedAt
  <2>2. LoAt(m, a, j) = IF j <= i THEN LoAt(n, a, j) ELSE IF j = i + 1 THEN k ELSE LoAt(n, a, j - 1)
    <3>1. CASE j = 1
      BY <3>1, <1>1 DEF LoAt
    <3>2. CASE j # 1 /\ j <= i
      <4>1. j - 1 \in 1..(Len(n.keys) + 1) /\ j - 1 < i
        BY <2>1, <3>2, <1>1
      <4> QED BY <4>1, <3>2, <1>0 DEF LoAt
    <3>3. CASE j = i + 1
      <4>1. i \in Nat /\ 1 <= i
        BY <1>1
      <4>2. j # 1 /\ ~ (j <= i) /\ j - 1 = i
        BY <4>1, <3>3
      <4>3. m.keys[i].key = k
        BY <1>0, <1>1
      <4> QED BY <4>2, <4>3, <3>3 DEF LoAt
    <3>4. CASE j > i + 1
      <4>1. j - 1 \in 1..(Len(n.keys) + 1) /\ j - 1 > i /\ j # 1 /\ j - 1 # 1 /\ ~ (j <= i) /\ j # i + 1
        BY <2>1, <3>4, <1>1
      <4> QED BY <4>1, <1>0 DEF LoAt
    <3> QED BY <3>1, <3>2, <3>3, <3>4, <2>1, <1>1
  <2>3. HiAt(m, b, j) = IF j < i THEN HiAt(n, b, j) ELSE IF j = i THEN k ELSE HiAt(n, b, j - 1)
    <3>1. CASE j < i
      <4>1. j \in 1..(Len(n.keys) + 1) /\ j <= Len(n.keys) /\ j <= Len(m.keys)
        BY <2>1, <3>1, <1>1
      <4> QED BY <4>1, <3>1, <1>0 DEF HiAt
    <3>2. CASE j = i
      <4>1. j <= Len(m.keys) /\ ~ (j < i)
        BY <3>2, <1>1
      <4> QED BY <4>1, <3>2, <1>0, <1>1 DEF HiAt
    <3>3. CASE j > i /\ j <= Len(m.keys)
      <4>1. j \in 1..(Len(n.keys) + 1) /\ j - 1 <= Len(n.keys) /\ ~ (j < i) /\ j # i
        BY <2>1, <3>3, <1>1
      <4> QED BY <4>1, <3>3, <1>0 DEF HiAt
    <3>4. CASE j > i /\ ~ (j <= Len(m.keys))
      <4>1. ~ (j - 1 <= Len(n.keys)) /\ ~ (j < i) /\ j # i
        BY <2>1, <3>4, <1>1
      <4> QED BY <4>1, <3>4 DEF HiAt
    <3> QED BY <3>1, <3>2, <3>3, <3>4, <2>1, <1>1
  <2> QED BY <2>2, <2>3
<1> QED BY <1>6, <1>7, <1>8, <1>9 DEF Sorted

\* A node that has lost a key.
LEMMA SortedCut ==
  ASSUME NEW n \in Node, NEW m \in Node, NEW a \in Int, NEW b \in Int, Sorted(n, a, b), NEW i \in 1..Len(n.keys),
         CutAt(n, m, i)
  PROVE  /\ Sorted(m, a, b) /\ \A q : Has(m, q) <=> Has(n, q) /\ q # n.keys[i].key
         /\ \A j \in Slots(m) : /\ LoAt(m, a, j) = IF j <= i THEN LoAt(n, a, j) ELSE LoAt(n, a, j + 1)
                                /\ HiAt(m, b, j) = IF j < i THEN HiAt(n, b, j) ELSE HiAt(n, b, j + 1)
<1>1. /\ Len(n.keys) \in Nat /\ DOMAIN n.keys = 1..Len(n.keys) /\ DOMAIN m.keys = 1..(Len(n.keys) - 1)
      /\ \A j \in 1..Len(n.keys) : n.keys[j].key \in Nat
  BY NodeFacts, ConstFacts DEF CutAt
<1>0. \A j \in 1..(Len(n.keys) - 1) : /\ j < i => m.keys[j].key = n.keys[j].key
                                      /\ ~ (j < i) => m.keys[j].key = n.keys[j + 1].key
  BY DEF CutAt
<1>2. \A j \in 1..Len(n.keys) : Between(n.keys[j].key, a, b)
  BY DEF Sorted
<1>3. \A j, l \in 1..Len(n.keys) : j < l => n.keys[j].key < n.keys[l].key
  BY DEF Sorted
<1>4. \A j \in 1..Len(m.keys) : Between(m.keys[j].key, a, b)
  <2> SUFFICES ASSUME NEW j \in 1..(Len(n.keys) - 1) PROVE Between(m.keys[j].key, a, b)
    BY DEF CutAt
  <2>1. j \in 1..Len(n.keys) /\ j + 1 \in 1..Len(n.keys)
    BY <1>1
  <2> QED BY <2>1, <1>0, <1>2
<1>5. \A j, l \in 1..Len(m.keys) : j < l => m.keys[j].key < m.keys[l].key
  <2> SUFFICES ASSUME NEW j \in 1..(Len(n.keys) - 1), NEW l \in 1..(Len(n.keys) - 1), j < l
               PROVE  m.keys[j].key < m.keys[l].key
    BY DEF CutAt
  <2>1. j \in 1..Len(n.keys) /\ j + 1 \in 1..Len(n.keys) /\ l \in 1..Len(n.keys) /\ l + 1 \in 1..Len(n.keys)
        /\ j < l + 1 /\ j + 1 < l + 1
    BY <1>1
  <2>2. n.keys[j].key < n.keys[l].key /\ n.keys[j].key < n.keys[l + 1].key /\ n.keys[j + 1].key < n.keys[l + 1].key
    BY <2>1, <1>3
  <2>3. \/ m.keys[j].key = n.keys[j].key /\ m.keys[l].key = n.keys[l].key
        \/ m.keys[j].key = n.keys[j].key /\ m.keys[l].key = n.keys[l + 1].key
        \/ m.keys[j].key = n.keys[j + 1].key /\ m.keys[l].key = n.keys[l + 1].key
    <3>1. CASE j < i
      BY <3>1, <1>0
    <3>2. CASE ~ (j < i)
      <4>1. ~ (l < i)
        BY <3>2, <2>1, <1>1
      <4> QED BY <3>2, <4>1, <1>0
    <3> QED BY <3>1, <3>2
  <2> QED BY <2>2, <2>3
<1>6. ASSUME NEW q PROVE Has(m, q) <=> Has(n, q) /\ q # n.keys[i].key
  <2>1. ASSUME NEW j \in 1..(Len(n.keys) - 1), m.keys[j].key = q PROVE Has(n, q) /\ q # n.keys[i].key
    <3>1. j \in 1..Len(n.keys) /\ j + 1 \in 1..Len(n.keys)
      BY <1>1
    <3>2. CASE j < i
      <4>1. n.keys[j].key = q /\ n.keys[j].key < n.keys[i].key
        BY <2>1, <3>1, <3>2, <1>0, <1>3
      <4>2. q # n.keys[i].key
        BY <4>1, <3>1, <1>1
      <4> QED BY <4>1, <4>2, <3>1, <1>1 DEF Has
    <3>3. CASE ~ (j < i)
      <4>1. n.keys[j + 1].key = q /\ n.keys[i].key < n.keys[j + 1].key
        BY <2>1, <3>1, <3>3, <1>0, <1>1, <1>3
      <4>2. q # n.keys[i].key
        BY <4>1, <3>1, <1>1
      <4> QED BY <4>1, <4>2, <3>1, <1>1 DEF Has
    <3> QED BY <3>2, <3>3
  <2>2. ASSUME NEW j \in 1..Len(n.keys), n.keys[j].key = q, q # n.keys[i].key PROVE Has(m, q)
    <3>1. j # i
      BY <2>2
    <3>2. CASE j < i
      <4>1. j \in 1..(Len(n.keys) - 1)
        BY <3>2, <1>1
      <4> QED BY <4>1, <2>2, <3>2, <1>0, <1>1 DEF Has
    <3>3. CASE j > i
      <4>1. j - 1 \in 1..(Len(n.keys) - 1) /\ ~ (j - 1 < i) /\ (j - 1) + 1 = j
        BY <3>3, <1>1
      <4> QED BY <4>1, <2>2, <1>0, <1>1 DEF Has
    <3> QED BY <3>1, <3>2, <3>3, <1>1
  <2> QED BY <2>1, <2>2, <1>1 DEF Has
<1>7. ASSUME NEW j \in Slots(m)
      PROVE  /\ LoAt(m, a, j) = IF j <= i THEN LoAt(n, a, j) ELSE LoAt(n, a, j + 1)
             /\ HiAt(m, b, j) = IF j < i THEN HiAt(n, b, j) ELSE HiAt(n, b, j + 1)
  <2>1. j \in 1..Len(n.keys) /\ (j # 1 => j - 1 \in 1..(Len(n.keys) - 1))
    BY <1>1 DEF Slots, CutAt
  <2>2. LoAt(m, a, j) = IF j <= i THEN LoAt(n, a, j) ELSE LoAt(n, a, j + 1)
    <3>1. CASE j = 1
      BY <3>1, <1>1 DEF LoAt
    <3>2. CASE j # 1 /\ j <= i
      <4>1. j - 1 \in 1..(Len(n.keys) - 1) /\ j - 1 < i
        BY <2>1, <3>2, <1>1
      <4> QED BY <4>1, <3>2, <1>0 DEF LoAt
    <3>3. CASE ~ (j <= i)
      <4>1. j - 1 \in 1..(Len(n.keys) - 1) /\ ~ (j - 1 < i) /\ j # 1 /\ j + 1 # 1 /\ (j - 1) + 1 = j /\ (j + 1) - 1 = j
        BY <2>1, <3>3, <1>1
      <4> QED BY <4>1, <3>3, <1>0 DEF LoAt
    <3> QED BY <3>1, <3>2, <3>3, <2>1, <1>1
  <2>3. HiAt(m, b, j) = IF j < i THEN HiAt(n, b, j) ELSE HiAt(n, b, j + 1)
    <3>1. CASE j < i
      <4>1. j \in 1..(Len(n.keys) - 1) /\ j <= Len(n.keys) /\ j <= Len(m.keys)
        BY <2>1, <3>1, <1>1
      <4> QED BY <4>1, <3>1, <1>0 DEF HiAt
    <3>2. CASE ~ (j < i) /\ j <= Len(m.keys)
      <4>1. j \in 1..(Len(n.keys) - 1) /\ j + 1 <= Len(n.keys)
        BY <2>1, <3>2, <1>1
      <4> QED BY <4>1, <3>2, <1>0 DEF HiAt
    <3>3. CASE ~ (j < i) /\ ~ (j <= Len(m.keys))
      <4>1. ~ (j + 1 <= Len(n.keys))
        BY <2>1, <3>3, <1>1
      <4> QED BY <4>1, <3>3 DEF HiAt
    <3> QED BY <3>1, <3>2, <3>3
  <2> QED BY <2>2, <2>3
<1> QED BY <1>4, <1>5, <1>6, <1>7 DEF Sorted

\* A run of a node's keys lies between its neighbours.
LEMMA SortedPart ==
  ASSUME NEW n \in Node, NEW m \in Node, NEW a \in Int, NEW b \in Int, Sorted(n, a, b),
         NEW c \in Nat, NEW l \in Nat, RunOf(n, m, c, l)
  PROVE  /\ Sorted(m, LoAt(n, a, c + 1), HiAt(n, b, c + l + 1))
         /\ \A q : Has(m, q) <=> \E j \in (c + 1)..(c + l) : n.keys[j].key = q
         /\ \A j \in Slots(m) : /\ c + j \in Slots(n)
                                /\ LoAt(m, LoAt(n, a, c + 1), j) = LoAt(n, a, c + j)
                                /\ HiAt(m, HiAt(n, b, c + l + 1), j) = HiAt(n, b, c + j)
<1>1. /\ Len(n.keys) \in Nat /\ DOMAIN m.keys = 1..l /\ Len(m.keys) = l /\ c + l <= Len(n.keys)
      /\ \A j \in 1..l : m.keys[j].key = n.keys[c + j].key
      /\ \A j \in 1..Len(n.keys) : n.keys[j].key \in Nat
  BY NodeFacts, ConstFacts DEF RunOf
<1>2. \A j \in 1..Len(n.keys) : a < n.keys[j].key /\ (b = -1 \/ n.keys[j].key < b)
  BY DEF Sorted, Between
<1>3. \A j, k \in 1..Len(n.keys) : j < k => n.keys[j].key < n.keys[k].key
  BY DEF Sorted
<1>4. \A j \in 1..l : c + j \in 1..Len(n.keys)
  BY <1>1
<1>5. ASSUME NEW j \in 1..l PROVE Between(m.keys[j].key, LoAt(n, a, c + 1), HiAt(n, b, c + l + 1))
  <2>1. c + j \in 1..Len(n.keys) /\ m.keys[j].key = n.keys[c + j].key
    BY <1>1, <1>4
  <2>2. LoAt(n, a, c + 1) < n.keys[c + j].key
    <3>1. CASE c = 0
      BY <3>1, <2>1, <1>2 DEF LoAt
    <3>2. CASE c # 0
      <4>1. c \in 1..Len(n.keys) /\ c < c + j /\ (c + 1) - 1 = c /\ c + 1 # 1
        BY <3>2, <1>1
      <4> QED BY <4>1, <2>1, <1>3 DEF LoAt
    <3> QED BY <3>1, <3>2
  <2>3. HiAt(n, b, c + l + 1) = -1 \/ n.keys[c + j].key < HiAt(n, b, c + l + 1)
    <3>1. CASE c + l + 1 <= Len(n.keys)
      <4>1. c + l + 1 \in 1..Len(n.keys) /\ c + j < c + l + 1
        BY <3>1, <1>1
      <4> QED BY <4>1, <3>1, <2>1, <1>3 DEF HiAt
    <3>2. CASE ~ (c + l + 1 <= Len(n.keys))
      BY <3>2, <2>1, <1>2 DEF HiAt
    <3> QED BY <3>1, <3>2
  <2> QED BY <2>1, <2>2, <2>3 DEF Between
<1>6. ASSUME NEW j \in 1..l, NEW k \in 1..l, j < k PROVE m.keys[j].key < m.keys[k].key
  <2>1. c + j \in 1..Len(n.keys) /\ c + k \in 1..Len(n.keys) /\ c + j < c + k
    BY <1>4, <1>6
  <2> QED BY <2>1, <1>1, <1>3
<1>7. ASSUME NEW q PROVE Has(m, q) <=> \E j \in (c + 1)..(c + l) : n.keys[j].key = q
  <2>1. ASSUME NEW j \in 1..l, m.keys[j].key = q PROVE \E k \in (c + 1)..(c + l) : n.keys[k].key = q
    <3>1. c + j \in (c + 1)..(c + l)
      BY <2>1
    <3>2. m.keys[j].key = n.keys[c + j].key
      BY <1>1
    <3> QED BY <2>1, <3>1, <3>2
  <2>2. ASSUME NEW k \in (c + 1)..(c + l), n.keys[k].key = q PROVE \E j \in 1..l : m.keys[j].key = q
    <3>1. k - c \in 1..l /\ c + (k - c) = k
      BY <2>2
    <3>2. m.keys[k - c].key = q
      BY <3>1, <2>2, <1>1
    <3> QED BY <3>1, <3>2
  <2> QED BY <2>1, <2>2, <1>1 DEF Has
<1>8. ASSUME NEW j \in Slots(m)
      PROVE  /\ c + j \in Slots(n)
             /\ LoAt(m, LoAt(n, a, c + 1), j) = LoAt(n, a, c + j)
             /\ HiAt(m, HiAt(n, b, c + l + 1), j) = HiAt(n, b, c + j)
  <2>1. j \in 1..(l + 1) /\ c + j \in Slots(n)
    BY <1>1 DEF Slots
  <2>2. LoAt(m, LoAt(n, a, c + 1), j) = LoAt(n, a, c + j)
    <3>1. CASE j = 1
      BY <3>1 DEF LoAt
    <3>2. CASE j # 1
      <4>1. j - 1 \in 1..l /\ c + (j - 1) = (c + j) - 1 /\ c + j # 1
        BY <2>1, <3>2
      <4>2. m.keys[j - 1].key = n.keys[(c + j) - 1].key
        BY <4>1, <1>1
      <4> QED BY <4>1, <4>2, <3>2 DEF LoAt
    <3> QED BY <3>1, <3>2
  <2>3. HiAt(m, HiAt(n, b, c + l + 1), j) = HiAt(n, b, c + j)
    <3>1. CASE j = l + 1
      <4>1. c + j = c + l + 1 /\ ~ (j <= l)
        BY <3>1
      <4> QED BY <4>1, <1>1 DEF HiAt
    <3>2. CASE j # l + 1
      <4>1. j \in 1..l /\ c + j <= Len(n.keys) /\ j <= Len(m.keys)
        BY <2>1, <3>2, <1>1
      <4> QED BY <4>1, <1>1 DEF HiAt
    <3> QED BY <3>1, <3>2
  <2> QED BY <2>1, <2>2, <2>3
<1> QED BY <1>1, <1>5, <1>6, <1>7, <1>8 DEF Sorted

(*****************************************************************************)
(* Writing one node of a tree.                                               *)
(*****************************************************************************)
\* A block is written: the other nodes stay.
LEMMA PutNodes ==
  ASSUME NEW d \in Volume, NEW v \in Block, NEW m \in Node, NEW e, e = Put(d, v, m)
  PROVE  /\ e \in Volume /\ e.root = d.root /\ e.large = d.large /\ e.used = d.used
         /\ e.owned = d.owned /\ e.free = d.free /\ InTree(e) = InTree(d)
         /\ NodeAt(e, v) = m /\ \A u \in Place : u # v => NodeAt(e, u) = NodeAt(d, u)
<1>1. /\ e \in Volume /\ e.root = d.root /\ e.large = d.large /\ e.used = d.used
      /\ e.owned = d.owned /\ e.free = d.free
      /\ e.node[v] = m /\ \A u \in Block \ {v} : e.node[u] = d.node[u]
  BY PutFacts
<1>2. v # None
  BY ConstFacts
<1> QED BY <1>1, <1>2 DEF InTree, NodeAt, Place

\* A leaf is written.
LEMMA NewLeaf ==
  ASSUME NEW d, NEW x, NEW g, Tree(d, x, g), NEW v \in d.used, g.lev[v] = 0, x \in {-1, v},
         NEW m \in Node, Bare(m), Sorted(m, g.lo[v], g.hi[v]), NEW y \in {-1, v},
         y = v => m = Leaf(<< >>), y = -1 => m.keys # << >>,
         NEW e, e = Put(d, v, m)
  PROVE  /\ Tree(e, y, g)
         /\ \A k \in Key : k \in KeysIn(e) <=> Has(m, k) \/ \E u \in InTree(d) \ {v} : Has(NodeAt(d, u), k)
<1>1. /\ d \in Volume /\ g \in Labels /\ d.used \subseteq Block /\ InTree(d) \subseteq Place
      /\ None \in InTree(d) /\ v \in InTree(d) /\ v \in Block /\ v # None /\ v # -1 /\ -1 \notin Place
  BY TreeFacts, ConstFacts DEF Place
<1>2. /\ e \in Volume /\ e.root = d.root /\ e.large = d.large /\ e.used = d.used
      /\ e.owned = d.owned /\ e.free = d.free /\ InTree(e) = InTree(d)
      /\ NodeAt(e, v) = m /\ \A u \in Place : u # v => NodeAt(e, u) = NodeAt(d, u)
  BY <1>1, PutNodes
<1>3. \A w \in Block \ e.used : Idle(e, w)
  <2>1. \A w \in Block \ d.used : w # v /\ e.node[w] = d.node[w]
    <3>1. \A w \in Block \ d.used : w # v /\ w # None /\ w \in Place
      BY <1>1, ConstFacts DEF Place
    <3> QED BY <3>1, <1>2 DEF NodeAt
  <2> QED BY <2>1, <1>2 DEF Tree, Idle
<1>4. ASSUME NEW w \in e.used PROVE Hangs(e, g, w)
  <2>1. w \in d.used
    BY <1>2
  <2>2. g.par[w] \in InTree(d) /\ g.lev[g.par[w]] = g.lev[w] + 1 /\ g.lev[w] \in Nat
    BY <2>1, ParentFacts, TreeFacts DEF Place
  <2>3. g.par[w] # v /\ g.par[w] \in Place
    BY <2>2, <1>1
  <2>4. Hangs(d, g, w)
    BY <2>1 DEF Tree
  <2> QED BY <2>2, <2>3, <2>4, <1>2 DEF Hangs
<1>5. ASSUME NEW u \in InTree(e) PROVE Fits(e, y, g, u)
  <2>1. CASE u = v
    BY <2>1, <1>1, <1>2 DEF Fits
  <2>2. CASE u # v
    <3>1. u \in Place /\ u \in InTree(d) /\ u # y /\ u # x
      BY <2>2, <1>1, <1>2
    <3>2. NodeAt(e, u) = NodeAt(d, u) /\ Fits(d, x, g, u)
      BY <2>2, <3>1, <1>2 DEF Tree
    <3>3. \A i : Child(d, g, u, i) => Child(e, g, u, i)
      BY <3>2, <1>2 DEF Child
    <3>4. \A i : Stump(d, u, i) => Stump(e, u, i)
      BY <3>2 DEF Stump
    <3> QED BY <3>1, <3>2, <3>3, <3>4 DEF Fits
  <2> QED BY <2>1, <2>2
<1>6. g.lev[None] > 0 /\ g.lo[None] = -1 /\ g.hi[None] = -1 /\ e.large
      /\ e.used \subseteq 0..(e.owned - 1) /\ e.owned + e.free = Clusters
  BY <1>2 DEF Tree
<1>7. ASSUME NEW k \in Key
      PROVE  k \in KeysIn(e) <=> Has(m, k) \/ \E u \in InTree(d) \ {v} : Has(NodeAt(d, u), k)
  BY <1>1, <1>2 DEF KeysIn
<1> QED BY <1>1, <1>2, <1>3, <1>4, <1>5, <1>6, <1>7 DEF Tree

\* A leaf of the tree, or the block that has lost its last key, has no pointers.
LEMMA LeafBare ==
  ASSUME NEW d, NEW x, NEW g, Tree(d, x, g), NEW v \in d.used, g.lev[v] = 0, NEW n, n = d.node[v]
  PROVE  n \in Node /\ Bare(n) /\ n.end = None /\ n = NodeAt(d, v)
<1>1. v \in InTree(d) /\ v # None /\ NodeAt(d, v) \in Node /\ NodeAt(d, v) = n
  BY TreeFacts DEF NodeAt
<1>2. Fits(d, x, g, v)
  BY <1>1 DEF Tree
<1>3. Bare(n)
  <2>1. CASE v = x
    <3>1. n = Leaf(<< >>)
      BY <1>1, <1>2, <2>1 DEF Fits
    <3> QED BY <3>1, EmptyLeafFacts DEF Bare, Slots, SubAt
  <2>2. CASE v # x
    BY <1>1, <1>2, <2>2 DEF Fits
  <2> QED BY <2>1, <2>2
<1>4. n.end = None
  <2>1. Len(n.keys) \in Nat /\ Len(n.keys) + 1 \in Slots(n) /\ ~ (Len(n.keys) + 1 <= Len(n.keys))
    BY <1>1, NodeFacts DEF Slots
  <2>2. SubAt(n, Len(n.keys) + 1) = n.end
    BY <2>1 DEF SubAt
  <2> QED BY <2>1, <2>2, <1>3 DEF Bare
<1> QED BY <1>1, <1>3, <1>4

\* A key goes into a leaf.
LEMMA AddLeaf ==
  ASSUME NEW d, NEW x, NEW g, Tree(d, x, g), NEW v \in d.used, g.lev[v] = 0, x \in {-1, v}, NEW k \in Key,
         Between(k, g.lo[v], g.hi[v]), ~ Has(d.node[v], k),
         NEW m, m = [keys |-> WithKey(d, v, k), end |-> d.node[v].end], NEW e, e = Put(d, v, m)
  PROVE  Tree(e, -1, g) /\ KeysIn(e) = KeysIn(d) \cup {k} /\ m \in Node /\ Len(m.keys) = Len(d.node[v].keys) + 1
<1>1. PICK n \in Node : n = d.node[v] /\ Bare(n) /\ n.end = None /\ n = NodeAt(d, v)
  BY LeafBare
<1>2. v \in InTree(d) /\ Sorted(n, g.lo[v], g.hi[v]) /\ g.lo[v] \in Int /\ g.hi[v] \in Int
  BY <1>1, TreeFacts, KeyBetween
<1>3. PICK i : i = Slot(n, k)
  OBVIOUS
<1>4. i \in Slots(n) /\ Between(k, LoAt(n, g.lo[v], i), HiAt(n, g.hi[v], i))
  BY <1>1, <1>2, <1>3, SlotBetween
<1>5. PICK p \in Item : p = Plain(k) /\ p.key = k /\ p.sub = None
  BY PlainFacts
<1>6. m = [keys |-> InsertAt(n.keys, i, p), end |-> n.end]
  BY <1>1, <1>3, <1>5 DEF WithKey
<1>7. /\ m \in Node /\ Len(m.keys) = Len(n.keys) + 1 /\ m.end = n.end
      /\ \A j \in 1..(Len(n.keys) + 1) :
           m.keys[j] = IF j < i THEN n.keys[j] ELSE IF j = i THEN p ELSE n.keys[j - 1]
      /\ \A j \in 1..(Len(n.keys) + 2) :
           SubAt(m, j) = IF j < i THEN SubAt(n, j) ELSE IF j = i THEN p.sub ELSE SubAt(n, j - 1)
  BY <1>4, <1>6, AddFacts DEF Slots
<1>8. AddedAt(n, m, i, k)
  <2>1. Len(n.keys) \in Nat
    BY NodeFacts
  <2> QED BY <2>1, <1>5, <1>7 DEF AddedAt
<1>9. Sorted(m, g.lo[v], g.hi[v]) /\ \A q : Has(m, q) <=> Has(n, q) \/ q = k
  BY <1>2, <1>4, <1>7, <1>8, SortedAdd
<1>10. Bare(m)
  <2>1. Len(n.keys) \in Nat
    BY NodeFacts
  <2> SUFFICES ASSUME NEW j \in Slots(m) PROVE SubAt(m, j) = None
    BY DEF Bare
  <2>2. j \in 1..(Len(n.keys) + 2) /\ i \in 1..(Len(n.keys) + 1)
    BY <2>1, <1>4, <1>7 DEF Slots
  <2>3. CASE j < i
    <3>1. j \in Slots(n)
      BY <2>1, <2>2, <2>3 DEF Slots
    <3> QED BY <3>1, <2>2, <2>3, <1>1, <1>7 DEF Bare
  <2>4. CASE j = i
    BY <2>2, <2>4, <1>5, <1>7
  <2>5. CASE j > i
    <3>1. j - 1 \in Slots(n) /\ ~ (j < i) /\ j # i
      BY <2>1, <2>2, <2>5 DEF Slots
    <3>2. SubAt(m, j) = SubAt(n, j - 1)
      BY <3>1, <2>2, <1>7
    <3> QED BY <3>1, <3>2, <1>1 DEF Bare
  <2> QED BY <2>2, <2>3, <2>4, <2>5
<1>11. m.keys # << >>
  <2>1. Len(m.keys) # 0
    BY <1>7, NodeFacts
  <2> QED BY <2>1
<1>12. -1 # v
  BY TreeFacts, ConstFacts
<1>13. /\ Tree(e, -1, g)
       /\ \A q \in Key : q \in KeysIn(e) <=> Has(m, q) \/ \E u \in InTree(d) \ {v} : Has(NodeAt(d, u), q)
  BY <1>7, <1>9, <1>10, <1>11, <1>12, NewLeaf
<1>14. KeysIn(e) = KeysIn(d) \cup {k}
  <2>1. \A q \in Key : q \in KeysIn(d) <=> Has(n, q) \/ \E u \in InTree(d) \ {v} : Has(NodeAt(d, u), q)
    BY <1>1, <1>2 DEF KeysIn
  <2>2. KeysIn(e) \subseteq Key /\ KeysIn(d) \subseteq Key
    BY DEF KeysIn
  <2> QED BY <2>1, <2>2, <1>9, <1>13
<1> QED BY <1>1, <1>7, <1>13, <1>14

\* A leaf without a key of its own.
CutTo(d, g, v, k, m, e) ==
  /\ m \in Node /\ Len(m.keys) = Len(d.node[v].keys) - 1 /\ KeysIn(e) = KeysIn(d) \ {k}
  /\ m.keys = << >> => Tree(e, v, g)
  /\ m.keys # << >> => Tree(e, -1, g)

\* A key leaves a leaf.
LEMMA CutLeaf ==
  ASSUME NEW d, NEW g, Tree(d, -1, g), NEW v \in d.used, g.lev[v] = 0, NEW s, s = d.node[v],
         NEW i \in 1..Len(s.keys), NEW k \in Key, k = s.keys[i].key,
         NEW m, m = Without(s, i), NEW e, e = Put(d, v, m)
  PROVE  CutTo(d, g, v, k, m, e)
<1>1. PICK n \in Node : n = s /\ n = d.node[v] /\ Bare(n) /\ n.end = None /\ n = NodeAt(d, v)
  BY LeafBare
<1>2. v \in InTree(d) /\ Sorted(n, g.lo[v], g.hi[v]) /\ g.lo[v] \in Int /\ g.hi[v] \in Int
  BY <1>1, TreeFacts, KeyBetween
<1>3. /\ m \in Node /\ Len(m.keys) = Len(n.keys) - 1 /\ m.end = n.end
      /\ \A j \in 1..(Len(n.keys) - 1) : m.keys[j] = IF j < i THEN n.keys[j] ELSE n.keys[j + 1]
      /\ \A j \in 1..Len(n.keys) : SubAt(m, j) = IF j < i THEN SubAt(n, j) ELSE SubAt(n, j + 1)
  <2>1. n \in Node /\ i \in 1..Len(n.keys) /\ m = Without(n, i)
    BY <1>1
  <2> QED BY <2>1, WithoutFacts
<1>4. Sorted(m, g.lo[v], g.hi[v]) /\ \A q : Has(m, q) <=> Has(n, q) /\ q # k
  <2>1. CutAt(n, m, i)
    BY <1>3 DEF CutAt
  <2> QED BY <2>1, <1>1, <1>2, <1>3, SortedCut
<1>5. Len(n.keys) \in Nat /\ i \in 1..Len(n.keys) /\ DOMAIN n.keys = 1..Len(n.keys)
  BY <1>1, NodeFacts
<1>6. Bare(m)
  <2> SUFFICES ASSUME NEW j \in Slots(m) PROVE SubAt(m, j) = None
    BY DEF Bare
  <2>1. j \in 1..Len(n.keys) /\ j \in Slots(n) /\ j + 1 \in Slots(n)
    BY <1>3, <1>5 DEF Slots
  <2> QED BY <2>1, <1>1, <1>3 DEF Bare
<1>7. m.keys = << >> => m = Leaf(<< >>)
  <2>1. m = [keys |-> m.keys, end |-> m.end]
    BY <1>3, NodeFacts
  <2> QED BY <2>1, <1>1, <1>3 DEF Leaf
<1>8. PICK y : y = IF m.keys = << >> THEN v ELSE -1
  OBVIOUS
<1>9. y \in {-1, v} /\ v # -1 /\ (y = v => m = Leaf(<< >>)) /\ (y = -1 => m.keys # << >>)
  <2>1. v # -1
    BY TreeFacts, ConstFacts
  <2> QED BY <2>1, <1>7, <1>8
<1>10. /\ Tree(e, y, g)
       /\ \A q \in Key : q \in KeysIn(e) <=> Has(m, q) \/ \E u \in InTree(d) \ {v} : Has(NodeAt(d, u), q)
  BY <1>3, <1>4, <1>6, <1>9, NewLeaf
<1>11. \A u \in InTree(d) \ {v} : ~ Has(NodeAt(d, u), k)
  <2>1. Has(n, k)
    BY <1>1, <1>5 DEF Has
  <2> QED BY <2>1, <1>1, <1>2, Unique
<1>12. KeysIn(e) = KeysIn(d) \ {k}
  <2>1. \A q \in Key : q \in KeysIn(d) <=> Has(n, q) \/ \E u \in InTree(d) \ {v} : Has(NodeAt(d, u), q)
    BY <1>1, <1>2 DEF KeysIn
  <2>2. KeysIn(e) \subseteq Key /\ KeysIn(d) \subseteq Key
    BY DEF KeysIn
  <2> QED BY <2>1, <2>2, <1>4, <1>10, <1>11
<1>13. (m.keys = << >> => Tree(e, v, g)) /\ (m.keys # << >> => Tree(e, -1, g))
  BY <1>8, <1>10
<1> QED BY <1>1, <1>3, <1>12, <1>13 DEF CutTo

(*****************************************************************************)
(* Splitting.                                                                *)
(*****************************************************************************)
\* More than two keys leave some on both sides of the median.
LEMMA MedianFacts ==
  ASSUME NEW c \in Nat, c >= 3, NEW half, half = c \div 2
  PROVE  half \in Nat /\ half >= 1 /\ half + 2 <= c
  BY SMT

\* m is the run of s from a to b, and v after it.
Piece(s, a, b, v, m) ==
  /\ m \in Node /\ Len(m.keys) = b + 1 - a /\ m.end = v
  /\ \A j \in 1..(b + 1 - a) : m.keys[j] = s[a + j - 1]
  /\ \A j \in 1..(b + 2 - a) : SubAt(m, j) = IF j = b + 2 - a THEN v ELSE s[a + j - 1].sub

\* A node made of a run of items.
LEMMA PieceFacts ==
  ASSUME NEW s \in Seq(Item), NEW a \in 1..(Len(s) + 1), NEW b \in 0..Len(s), a <= b + 1, NEW v \in Sub
  PROVE  Piece(s, a, b, v, [keys |-> SubSeq(s, a, b), end |-> v])
<1>1. PICK t : t = SubSeq(s, a, b)
  OBVIOUS
<1>2. t \in Seq(Item) /\ Len(t) = b + 1 - a /\ \A j \in 1..(b + 1 - a) : t[j] = s[a + j - 1]
  BY <1>1, PartFacts
<1>3. PICK m : m = [keys |-> SubSeq(s, a, b), end |-> v]
  OBVIOUS
<1>4. m = [keys |-> t, end |-> v] /\ m.keys = t /\ m.end = v
  BY <1>1, <1>3
<1>5. m \in Node
  BY <1>2, <1>4 DEF Node
<1>6. ASSUME NEW j \in 1..(b + 2 - a)
      PROVE  SubAt(m, j) = IF j = b + 2 - a THEN v ELSE s[a + j - 1].sub
  <2>1. CASE j = b + 2 - a
    <3>1. ~ (j <= b + 1 - a)
      BY <2>1
    <3> QED BY <1>2, <1>4, <2>1, <3>1 DEF SubAt
  <2>2. CASE j # b + 2 - a
    <3>1. j \in 1..(b + 1 - a) /\ j <= b + 1 - a
      BY <2>2
    <3> QED BY <1>2, <1>4, <2>2, <3>1 DEF SubAt
  <2> QED BY <2>1, <2>2
<1>7. Piece(s, a, b, v, m)
  BY <1>2, <1>4, <1>5, <1>6 DEF Piece
<1> QED BY <1>3, <1>7

\* n's items are those of l, k and those of r.
Halves(n, l, k, r, half) ==
  /\ half \in Nat /\ half >= 1 /\ half + 2 <= Len(n.keys) /\ k \in Key /\ k = n.keys[half + 1].key
  /\ l \in Node /\ Len(l.keys) = half /\ l.keys # << >>
  /\ r \in Node /\ Len(r.keys) = Len(n.keys) - half - 1 /\ r.keys # << >>
  /\ RunOf(n, l, 0, half) /\ RunOf(n, r, half + 1, Len(n.keys) - half - 1)
  /\ \A j \in Slots(l) : j \in 1..Len(n.keys) /\ SubAt(l, j) = SubAt(n, j)
  /\ \A j \in Slots(r) : half + 1 + j \in Slots(n) /\ SubAt(r, j) = SubAt(n, half + 1 + j)

\* The two halves of a node.
LEMMA HalvesFacts ==
  ASSUME NEW n \in Node, NEW half \in Nat, half >= 1, half + 2 <= Len(n.keys),
         NEW l, l = [keys |-> SubSeq(n.keys, 1, half), end |-> n.keys[half + 1].sub],
         NEW r, r = [keys |-> SubSeq(n.keys, half + 2, Len(n.keys)), end |-> n.end],
         NEW k, k = n.keys[half + 1].key
  PROVE  Halves(n, l, k, r, half)
<1>1. PICK s \in Seq(Item) : s = n.keys /\ Len(s) \in Nat
  BY NodeFacts
<1>2. half \in Nat /\ half >= 1 /\ half + 2 <= Len(s)
  BY <1>1
<1>3. half + 1 \in 1..Len(s) /\ half \in 0..Len(s) /\ 1 \in 1..(Len(s) + 1) /\ half + 2 \in 1..(Len(s) + 1)
      /\ Len(s) \in 0..Len(s) /\ 1 <= half + 1 /\ half + 2 <= Len(s) + 1
  BY <1>1, <1>2
<1>4. k \in Key /\ n.keys[half + 1].sub \in Sub /\ n.end \in Sub
  BY <1>1, <1>3, NodeFacts
<1>5. /\ l \in Node /\ Len(l.keys) = half + 1 - 1 /\ l.end = n.keys[half + 1].sub
      /\ \A j \in 1..(half + 1 - 1) : l.keys[j] = s[1 + j - 1]
      /\ \A j \in 1..(half + 2 - 1) : SubAt(l, j) = IF j = half + 2 - 1 THEN n.keys[half + 1].sub ELSE s[1 + j - 1].sub
  <2>1. PICK v \in Sub : v = n.keys[half + 1].sub
    BY <1>4
  <2>2. PICK a \in 1..(Len(s) + 1) : a = 1
    BY <1>3
  <2>3. l = [keys |-> SubSeq(s, a, half), end |-> v]
    BY <1>1, <2>1, <2>2
  <2>4. a <= half + 1
    BY <2>2, <1>3
  <2>5. PICK b \in 0..Len(s) : b = half
    BY <1>3
  <2>6. l = [keys |-> SubSeq(s, a, b), end |-> v] /\ a <= b + 1
    BY <2>3, <2>4, <2>5
  <2>8. Piece(s, a, b, v, l)
    <3>1. Piece(s, a, b, v, [keys |-> SubSeq(s, a, b), end |-> v])
      BY <2>6, PieceFacts
    <3> QED BY <3>1, <2>6
  <2>7. /\ l \in Node /\ Len(l.keys) = b + 1 - a /\ l.end = v
        /\ \A j \in 1..(b + 1 - a) : l.keys[j] = s[a + j - 1]
        /\ \A j \in 1..(b + 2 - a) : SubAt(l, j) = IF j = b + 2 - a THEN v ELSE s[a + j - 1].sub
    BY <2>8 DEF Piece
  <2> QED BY <2>1, <2>2, <2>5, <2>7
<1>6. /\ r \in Node /\ Len(r.keys) = Len(s) + 1 - (half + 2) /\ r.end = n.end
      /\ \A j \in 1..(Len(s) + 1 - (half + 2)) : r.keys[j] = s[(half + 2) + j - 1]
      /\ \A j \in 1..(Len(s) + 2 - (half + 2)) :
           SubAt(r, j) = IF j = Len(s) + 2 - (half + 2) THEN n.end ELSE s[(half + 2) + j - 1].sub
  <2>1. PICK v \in Sub : v = n.end
    BY <1>4
  <2>2. PICK a \in 1..(Len(s) + 1) : a = half + 2
    BY <1>3
  <2>3. r = [keys |-> SubSeq(s, a, Len(s)), end |-> v]
    BY <1>1, <2>1, <2>2
  <2>4. a <= Len(s) + 1
    BY <2>2, <1>3
  <2>5. PICK b \in 0..Len(s) : b = Len(s)
    BY <1>3
  <2>6. r = [keys |-> SubSeq(s, a, b), end |-> v] /\ a <= b + 1
    BY <2>3, <2>4, <2>5
  <2>8. Piece(s, a, b, v, r)
    <3>1. Piece(s, a, b, v, [keys |-> SubSeq(s, a, b), end |-> v])
      BY <2>6, PieceFacts
    <3> QED BY <3>1, <2>6
  <2>7. /\ r \in Node /\ Len(r.keys) = b + 1 - a /\ r.end = v
        /\ \A j \in 1..(b + 1 - a) : r.keys[j] = s[a + j - 1]
        /\ \A j \in 1..(b + 2 - a) : SubAt(r, j) = IF j = b + 2 - a THEN v ELSE s[a + j - 1].sub
    BY <2>8 DEF Piece
  <2> QED BY <2>1, <2>2, <2>5, <2>7
<1>7. Len(l.keys) = half /\ Len(r.keys) = Len(s) - half - 1 /\ Len(l.keys) # 0 /\ Len(r.keys) # 0
  BY <1>1, <1>2, <1>5, <1>6
<1>8. l.keys # << >> /\ r.keys # << >>
  BY <1>7
<1>9. RunOf(n, l, 0, half)
  <2>1. ASSUME NEW j \in 1..half PROVE l.keys[j].key = n.keys[0 + j].key
    <3>1. j \in 1..(half + 1 - 1) /\ 1 + j - 1 = j /\ 0 + j = j
      BY <1>2
    <3> QED BY <3>1, <1>1, <1>5
  <2>2. 0 + half <= Len(n.keys) /\ Len(l.keys) = half
    BY <1>1, <1>2, <1>7
  <2> QED BY <2>1, <2>2 DEF RunOf
<1>10. RunOf(n, r, half + 1, Len(n.keys) - half - 1)
  <2>1. ASSUME NEW j \in 1..(Len(n.keys) - half - 1) PROVE r.keys[j].key = n.keys[half + 1 + j].key
    <3>1. j \in 1..(Len(s) + 1 - (half + 2)) /\ (half + 2) + j - 1 = half + 1 + j
      BY <1>1, <1>2
    <3> QED BY <3>1, <1>1, <1>6
  <2>2. (half + 1) + (Len(n.keys) - half - 1) <= Len(n.keys) /\ Len(r.keys) = Len(n.keys) - half - 1
    <3>1. PICK c \in Nat : c = Len(n.keys)
      BY NodeFacts
    <3>2. Len(r.keys) = c - half - 1
      BY <3>1, <1>1, <1>7
    <3>3. (half + 1) + (c - half - 1) <= c
      OBVIOUS
    <3> QED BY <3>1, <3>2, <3>3
  <2> QED BY <2>1, <2>2 DEF RunOf
<1>11. ASSUME NEW j \in Slots(l) PROVE j \in 1..Len(n.keys) /\ SubAt(l, j) = SubAt(n, j)
  <2>1. j \in 1..(half + 2 - 1) /\ j \in 1..Len(n.keys) /\ 1 + j - 1 = j /\ half + 2 - 1 = half + 1
    BY <1>1, <1>2, <1>7 DEF Slots
  <2>2. SubAt(n, j) = n.keys[j].sub
    BY <2>1, <1>1 DEF SubAt
  <2> QED BY <2>1, <2>2, <1>1, <1>5
<1>12. ASSUME NEW j \in Slots(r) PROVE half + 1 + j \in Slots(n) /\ SubAt(r, j) = SubAt(n, half + 1 + j)
  <2>0. PICK c \in Nat : c = Len(s) /\ Len(n.keys) = c /\ Len(r.keys) = c - half - 1 /\ half \in Nat /\ half + 2 <= c
    BY <1>1, <1>2, <1>7
  <2>1. j \in 1..(Len(s) + 2 - (half + 2)) /\ half + 1 + j \in Slots(n) /\ (half + 2) + j - 1 = half + 1 + j
    BY <2>0 DEF Slots
  <2>2. CASE j = Len(s) + 2 - (half + 2)
    <3>1. ~ (half + 1 + j <= Len(n.keys))
      BY <2>2, <2>0
    <3> QED BY <3>1, <2>1, <2>2, <1>6 DEF SubAt
  <2>3. CASE j # Len(s) + 2 - (half + 2)
    <3>1. half + 1 + j <= Len(n.keys)
      BY <2>0, <2>1, <2>3
    <3> QED BY <3>1, <2>1, <2>3, <1>1, <1>6 DEF SubAt
  <2> QED BY <2>2, <2>3
<1>13. half + 1 \in 1..Len(n.keys) /\ Len(r.keys) = Len(n.keys) - half - 1
  BY <1>1, <1>3, <1>7
<1> QED BY <1>4, <1>5, <1>6, <1>7, <1>8, <1>9, <1>10, <1>11, <1>12, <1>13 DEF Halves

\* A labelling that fits every node makes a tree.
LEMMA TreeBuilt ==
  ASSUME NEW d \in Volume, NEW x, NEW g \in Labels, g.lev[None] > 0, g.lo[None] = -1, g.hi[None] = -1,
         d.large, d.used \subseteq 0..(d.owned - 1), d.owned + d.free = Clusters,
         \A v \in Block \ d.used : Idle(d, v),
         \A u \in InTree(d) : g.lev[u] <= g.lev[None] /\ Fits(d, x, g, u),
         \A v \in d.used : \E u \in InTree(d) : \E i \in Slots(NodeAt(d, u)) : SubAt(NodeAt(d, u), i) = v
  PROVE  Tree(d, x, g)
<1>1. /\ d.used \subseteq Block /\ \A u \in Place : NodeAt(d, u) \in Node /\ Len(NodeAt(d, u).keys) \in Nat
      /\ InTree(d) \subseteq Place /\ None \notin Block /\ -1 \notin Block /\ None \in Place
  <2>1. d.used \subseteq Block /\ d.root \in Node /\ (\A v \in Block : d.node[v] \in Node) /\ None \notin Block
        /\ -1 \notin Block
    BY VolumeFacts, ConstFacts
  <2>2. \A u \in Place : NodeAt(d, u) \in Node
    BY <2>1 DEF NodeAt, Place
  <2> QED BY <2>1, <2>2, NodeFacts DEF InTree, Place
<1>2. \A u \in Place : g.lev[u] \in Nat
  BY DEF Labels
<1>3. ASSUME NEW v \in d.used PROVE Hangs(d, g, v)
  <2>1. PICK u \in InTree(d) : \E i \in Slots(NodeAt(d, u)) : SubAt(NodeAt(d, u), i) = v
    OBVIOUS
  <2>2. PICK i \in Slots(NodeAt(d, u)) : SubAt(NodeAt(d, u), i) = v
    BY <2>1
  <2>3. v # None /\ v # -1 /\ u \in Place /\ v \in Place
    BY <1>1 DEF Place
  <2>4. Fits(d, x, g, u) /\ g.lev[u] <= g.lev[None]
    OBVIOUS
  <2>5. u # x
    <3> SUFFICES ASSUME u = x PROVE FALSE
      OBVIOUS
    <3>1. NodeAt(d, u) = Leaf(<< >>)
      BY <2>4 DEF Fits
    <3>2. SubAt(NodeAt(d, u), i) = None
      BY <2>2, <3>1, EmptyLeafFacts DEF SubAt, Slots
    <3> QED BY <3>2, <2>2, <2>3
  <2>6. g.lev[u] # 0
    BY <2>2, <2>3, <2>4, <2>5 DEF Fits, Bare
  <2>7. g.lev[u] > 0
    BY <2>3, <2>6, <1>2
  <2>8. Child(d, g, u, i)
    <3>1. Child(d, g, u, i) \/ Stump(d, u, i)
      BY <2>2, <2>4, <2>5, <2>7 DEF Fits
    <3>2. ~ Stump(d, u, i)
      BY <2>2, <2>3 DEF Stump
    <3> QED BY <3>1, <3>2
  <2>9. g.lev[v] + 1 = g.lev[u] /\ g.par[v] = u
    BY <2>2, <2>8 DEF Child
  <2>10. g.lev[v] < g.lev[None]
    BY <2>3, <2>4, <2>9, <1>1, <1>2
  <2>11. i \in SlotOf(NodeAt(d, u), v)
    BY <2>2 DEF SlotOf, Slots
  <2> QED BY <2>9, <2>10, <2>11 DEF Hangs
<1> QED BY <1>3 DEF Tree

\* The keys of two halves and their bounds.
LEMMA HalfBounds ==
  ASSUME NEW n \in Node, NEW a \in Int, NEW b \in Int, Sorted(n, a, b),
         NEW l, NEW k, NEW r, NEW half, Halves(n, l, k, r, half)
  PROVE  /\ Sorted(l, a, k) /\ Sorted(r, k, b) /\ Between(k, a, b) /\ Has(n, k)
         /\ \A j \in Slots(l) : LoAt(l, a, j) = LoAt(n, a, j) /\ HiAt(l, k, j) = HiAt(n, b, j)
         /\ \A j \in Slots(r) : /\ LoAt(r, k, j) = LoAt(n, a, half + 1 + j)
                                /\ HiAt(r, b, j) = HiAt(n, b, half + 1 + j)
         /\ \A q : Has(n, q) <=> Has(l, q) \/ Has(r, q) \/ q = k
<1>1. PICK c \in Nat : c = Len(n.keys) /\ DOMAIN n.keys = 1..c
  BY NodeFacts
<1>2. /\ half \in Nat /\ half >= 1 /\ half + 2 <= c /\ k = n.keys[half + 1].key
      /\ l \in Node /\ r \in Node /\ RunOf(n, l, 0, half) /\ RunOf(n, r, half + 1, c - half - 1)
  BY <1>1 DEF Halves
<1>3. PICK e \in Nat : e = c - half - 1
  BY <1>2
<1>4. /\ LoAt(n, a, 0 + 1) = a /\ HiAt(n, b, 0 + half + 1) = k /\ LoAt(n, a, half + 1 + 1) = k
      /\ HiAt(n, b, half + 1 + e + 1) = b
  <2>1. 0 + 1 = 1 /\ 0 + half + 1 = half + 1 /\ half + 1 <= c /\ half + 1 + 1 # 1 /\ half + 1 + 1 - 1 = half + 1
        /\ ~ (half + 1 + e + 1 <= c)
    BY <1>2, <1>3
  <2> QED BY <2>1, <1>1, <1>2 DEF LoAt, HiAt
<1>5. /\ Sorted(l, a, k) /\ \A q : Has(l, q) <=> \E j \in (0 + 1)..(0 + half) : n.keys[j].key = q
      /\ \A j \in Slots(l) : LoAt(l, a, j) = LoAt(n, a, 0 + j) /\ HiAt(l, k, j) = HiAt(n, b, 0 + j)
  BY <1>2, <1>4, SortedPart
<1>6. half + 1 \in Nat /\ RunOf(n, r, half + 1, e)
  BY <1>2, <1>3
<1>7. /\ Sorted(r, k, b) /\ \A q : Has(r, q) <=> \E j \in (half + 1 + 1)..(half + 1 + e) : n.keys[j].key = q
      /\ \A j \in Slots(r) : /\ LoAt(r, k, j) = LoAt(n, a, half + 1 + j)
                             /\ HiAt(r, b, j) = HiAt(n, b, half + 1 + j)
  <2>1. PICK f \in Nat : f = half + 1
    BY <1>6
  <2>2. RunOf(n, r, f, e) /\ LoAt(n, a, f + 1) = k /\ HiAt(n, b, f + e + 1) = b
    BY <2>1, <1>4, <1>6
  <2>3. /\ Sorted(r, k, b) /\ \A q : Has(r, q) <=> \E j \in (f + 1)..(f + e) : n.keys[j].key = q
        /\ \A j \in Slots(r) : LoAt(r, k, j) = LoAt(n, a, f + j) /\ HiAt(r, b, j) = HiAt(n, b, f + j)
    BY <2>2, <1>2, SortedPart
  <2> QED BY <2>1, <2>3
<1>8. half + 1 \in 1..c
  BY <1>2
<1>9. Between(k, a, b) /\ Has(n, k)
  BY <1>1, <1>2, <1>8 DEF Sorted, Has
<1>10. \A j \in Slots(l) : LoAt(l, a, j) = LoAt(n, a, j) /\ HiAt(l, k, j) = HiAt(n, b, j)
  <2>1. \A j \in Slots(l) : 0 + j = j
    BY <1>2, NodeFacts DEF Slots
  <2> QED BY <2>1, <1>5
<1>11. ASSUME NEW q PROVE Has(n, q) <=> Has(l, q) \/ Has(r, q) \/ q = k
  <2>1. Has(n, q) <=> \E j \in 1..c : n.keys[j].key = q
    BY <1>1 DEF Has
  <2>2. \A j : j \in 1..c <=> j \in (0 + 1)..(0 + half) \/ j = half + 1 \/ j \in (half + 1 + 1)..(half + 1 + e)
    BY <1>2, <1>3
  <2> QED BY <2>1, <2>2, <1>2, <1>5, <1>7
<1> QED BY <1>5, <1>7, <1>9, <1>10, <1>11

\* n gets the key k at i, the children v and w around it.
Promoted(n, m, i, k, v, w) ==
  /\ m \in Node /\ AddedAt(n, m, i, k)
  /\ \A j \in Slots(m) : /\ j < i => SubAt(m, j) = SubAt(n, j)
                         /\ j = i => SubAt(m, j) = v
                         /\ j = i + 1 => SubAt(m, j) = w
                         /\ j > i + 1 => SubAt(m, j) = SubAt(n, j - 1)
\* v's items go to v and to the new block w; p becomes m.
SplitInto(d, e, v, w, p, l, r, m) ==
  /\ e \in Volume /\ e.large = d.large /\ w \in Block \ d.used /\ e.used = d.used \cup {w}
  /\ e.used \subseteq 0..(e.owned - 1) /\ e.owned + e.free = d.owned + d.free
  /\ NodeAt(e, v) = l /\ NodeAt(e, w) = r /\ NodeAt(e, p) = m
  /\ \A u \in Place \ {v, w, p} : NodeAt(e, u) = NodeAt(d, u)

\* The labels then.
SplitLabels(d, g, v, w, k, r) ==
  [lev |-> [u \in Place |-> IF u = w THEN g.lev[v] ELSE g.lev[u]],
   par |-> [u \in Place |-> IF u = w THEN g.par[v]
                            ELSE IF u \in d.used /\ u \in Subs(r) THEN w ELSE g.par[u]],
   lo |-> [u \in Place |-> IF u = w THEN k ELSE g.lo[u]],
   hi |-> [u \in Place |-> IF u = w THEN g.hi[v] ELSE IF u = v THEN k ELSE g.hi[u]]]

\* Whose levels and bounds they change, and how.
LEMMA SplitLabelsFacts ==
  ASSUME NEW d, NEW g \in Labels, NEW v \in Place, NEW w \in Place, NEW k \in Int, NEW r,
         NEW h, h = SplitLabels(d, g, v, w, k, r)
  PROVE  /\ h \in Labels
         /\ h.lev[w] = g.lev[v] /\ h.par[w] = g.par[v] /\ h.lo[w] = k /\ h.hi[w] = g.hi[v]
         /\ \A u \in Place \ {w} : /\ h.lev[u] = g.lev[u] /\ h.lo[u] = g.lo[u]
                                   /\ u = v => h.hi[u] = k
                                   /\ u # v => h.hi[u] = g.hi[u]
                                   /\ u \in d.used /\ u \in Subs(r) => h.par[u] = w
                                   /\ ~ (u \in d.used /\ u \in Subs(r)) => h.par[u] = g.par[u]
<1>1. g.lev \in [Place -> Nat] /\ g.par \in [Place -> Place] /\ g.lo \in [Place -> Int] /\ g.hi \in [Place -> Int]
  BY DEF Labels
<1>2. PICK a : a = [u \in Place |-> IF u = w THEN g.lev[v] ELSE g.lev[u]]
  OBVIOUS
<1>3. PICK b : b = [u \in Place |-> IF u = w THEN g.par[v]
                                    ELSE IF u \in d.used /\ u \in Subs(r) THEN w ELSE g.par[u]]
  OBVIOUS
<1>4. PICK c : c = [u \in Place |-> IF u = w THEN k ELSE g.lo[u]]
  OBVIOUS
<1>5. PICK f : f = [u \in Place |-> IF u = w THEN g.hi[v] ELSE IF u = v THEN k ELSE g.hi[u]]
  OBVIOUS
<1>6. h = [lev |-> a, par |-> b, lo |-> c, hi |-> f]
  BY <1>2, <1>3, <1>4, <1>5 DEF SplitLabels
<1>7. h.lev = a /\ h.par = b /\ h.lo = c /\ h.hi = f
  BY <1>6
<1>8. a \in [Place -> Nat] /\ a[w] = g.lev[v] /\ \A u \in Place \ {w} : a[u] = g.lev[u]
  BY <1>1, <1>2
<1>9. /\ b \in [Place -> Place] /\ b[w] = g.par[v]
      /\ \A u \in Place \ {w} : /\ u \in d.used /\ u \in Subs(r) => b[u] = w
                                /\ ~ (u \in d.used /\ u \in Subs(r)) => b[u] = g.par[u]
  BY <1>1, <1>3
<1>10. c \in [Place -> Int] /\ c[w] = k /\ \A u \in Place \ {w} : c[u] = g.lo[u]
  BY <1>1, <1>4
<1>11. /\ f \in [Place -> Int] /\ f[w] = g.hi[v]
       /\ \A u \in Place \ {w} : (u = v => f[u] = k) /\ (u # v => f[u] = g.hi[u])
  BY <1>1, <1>5
<1>12. h \in Labels
  BY <1>6, <1>8, <1>9, <1>10, <1>11 DEF Labels
<1> QED BY <1>7, <1>8, <1>9, <1>10, <1>11, <1>12

\* e is a tree of the same keys, with the nodes of d where they were.
StillTree(d, g, e) ==
  KeysIn(e) = KeysIn(d) /\ \E h : Tree(e, -1, h) /\ \A u \in InTree(d) : h.lev[u] = g.lev[u]

\* A split leaves a tree of the same keys.
LEMMA SplitTree ==
  ASSUME NEW d, NEW g, Tree(d, -1, g), NEW v \in d.used, NEW n, n = NodeAt(d, v),
         NEW l, NEW k, NEW r, NEW half, Halves(n, l, k, r, half),
         NEW p, p = g.par[v], NEW i \in Slots(NodeAt(d, p)), SubAt(NodeAt(d, p), i) = v,
         NEW w, NEW m, Promoted(NodeAt(d, p), m, i, k, v, w), NEW e, SplitInto(d, e, v, w, p, l, r, m)
  PROVE  StillTree(d, g, e)
<1>1. /\ d \in Volume /\ g \in Labels /\ d.used \subseteq Block /\ InTree(d) \subseteq Place
      /\ None \in InTree(d) /\ v \in InTree(d) /\ v \in Block /\ v # None /\ v # -1 /\ -1 \notin Place
      /\ (\A u \in Place : g.lev[u] \in Nat /\ g.lo[u] \in Int /\ g.hi[u] \in Int)
      /\ (\A u \in InTree(d) : u # None => u \in d.used) /\ n \in Node
      /\ (\A u \in Place : NodeAt(d, u) \in Node)
  BY TreeFacts, ConstFacts DEF Place
<1>2. /\ e \in Volume /\ e.large = d.large /\ w \in Block \ d.used /\ e.used = d.used \cup {w}
      /\ e.used \subseteq 0..(e.owned - 1) /\ e.owned + e.free = d.owned + d.free
      /\ NodeAt(e, v) = l /\ NodeAt(e, w) = r /\ NodeAt(e, p) = m
      /\ \A u \in Place \ {v, w, p} : NodeAt(e, u) = NodeAt(d, u)
  BY DEF SplitInto
<1>3. /\ half \in Nat /\ half >= 1 /\ half + 2 <= Len(n.keys) /\ k \in Key /\ k = n.keys[half + 1].key
      /\ l \in Node /\ Len(l.keys) = half /\ l.keys # << >>
      /\ r \in Node /\ Len(r.keys) = Len(n.keys) - half - 1 /\ r.keys # << >>
      /\ \A j \in Slots(l) : j \in 1..Len(n.keys) /\ SubAt(l, j) = SubAt(n, j)
      /\ \A j \in Slots(r) : half + 1 + j \in Slots(n) /\ SubAt(r, j) = SubAt(n, half + 1 + j)
  BY DEF Halves
<1>4. /\ p \in InTree(d) /\ p # v /\ p # w /\ v # w /\ g.lev[p] = g.lev[v] + 1 /\ g.lev[v] < g.lev[None]
      /\ w # None /\ w \in Place /\ v \in Place /\ p \in Place /\ p # -1 /\ g.lev[p] > 0
  <2>1. p \in InTree(d) /\ p # v /\ g.lev[p] = g.lev[v] + 1 /\ g.lev[v] < g.lev[None]
    BY ParentFacts
  <2>2. w # None /\ w \notin InTree(d) /\ w \in Place
    BY <1>2, ConstFacts DEF InTree, Place
  <2> QED BY <2>1, <2>2, <1>1
<1>5. PICK N \in Node : N = NodeAt(d, p)
  BY <1>1, <1>4
<1>6. PICK a \in Int : a = g.lo[v]
  BY <1>1, <1>4
<1>7. PICK b \in Int : b = g.hi[v]
  BY <1>1, <1>4
<1>8. Sorted(n, a, b)
  BY <1>1, <1>6, <1>7, KeyBetween
<1>9. /\ Sorted(l, a, k) /\ Sorted(r, k, b) /\ Between(k, a, b) /\ Has(n, k)
      /\ \A j \in Slots(l) : LoAt(l, a, j) = LoAt(n, a, j) /\ HiAt(l, k, j) = HiAt(n, b, j)
      /\ \A j \in Slots(r) : /\ LoAt(r, k, j) = LoAt(n, a, half + 1 + j)
                             /\ HiAt(r, b, j) = HiAt(n, b, half + 1 + j)
      /\ \A q : Has(n, q) <=> Has(l, q) \/ Has(r, q) \/ q = k
  BY <1>1, <1>8, HalfBounds
<1>10. Child(d, g, p, i) /\ a = LoAt(N, g.lo[p], i) /\ b = HiAt(N, g.hi[p], i)
       /\ \A j \in Slots(N) : SubAt(N, j) = v => j = i
  BY <1>1, <1>4, <1>5, <1>6, <1>7, PointerFacts
<1>11. Sorted(N, g.lo[p], g.hi[p]) /\ i \in Slots(N) /\ Promoted(N, m, i, k, v, w)
  BY <1>4, <1>5, KeyBetween
<1>12. m \in Node /\ AddedAt(N, m, i, k)
  BY <1>11 DEF Promoted
<1>13. /\ Sorted(m, g.lo[p], g.hi[p]) /\ \A q : Has(m, q) <=> Has(N, q) \/ q = k
       /\ \A j \in Slots(m) : /\ LoAt(m, g.lo[p], j) = IF j <= i THEN LoAt(N, g.lo[p], j)
                                                 ELSE IF j = i + 1 THEN k ELSE LoAt(N, g.lo[p], j - 1)
                              /\ HiAt(m, g.hi[p], j) = IF j < i THEN HiAt(N, g.hi[p], j)
                                                 ELSE IF j = i THEN k ELSE HiAt(N, g.hi[p], j - 1)
  <2>1. PICK A \in Int : A = g.lo[p]
    BY <1>1, <1>4
  <2>2. PICK B \in Int : B = g.hi[p]
    BY <1>1, <1>4
  <2>3. Sorted(N, A, B) /\ Between(k, LoAt(N, A, i), HiAt(N, B, i))
    BY <2>1, <2>2, <1>9, <1>10, <1>11
  <2>4. /\ Sorted(m, A, B) /\ \A q : Has(m, q) <=> Has(N, q) \/ q = k
        /\ \A j \in Slots(m) : /\ LoAt(m, A, j) = IF j <= i THEN LoAt(N, A, j)
                                                  ELSE IF j = i + 1 THEN k ELSE LoAt(N, A, j - 1)
                               /\ HiAt(m, B, j) = IF j < i THEN HiAt(N, B, j)
                                                  ELSE IF j = i THEN k ELSE HiAt(N, B, j - 1)
    BY <2>3, <1>3, <1>11, <1>12, SortedAdd
  <2> QED BY <2>1, <2>2, <2>4
<1>14. PICK h : h = SplitLabels(d, g, v, w, k, r)
  OBVIOUS
<1>15. /\ h \in Labels
       /\ h.lev[w] = g.lev[v] /\ h.par[w] = p /\ h.lo[w] = k /\ h.hi[w] = b
       /\ \A u \in Place \ {w} : /\ h.lev[u] = g.lev[u] /\ h.lo[u] = g.lo[u]
                                 /\ u = v => h.hi[u] = k
                                 /\ u # v => h.hi[u] = g.hi[u]
                                 /\ u \in d.used /\ u \in Subs(r) => h.par[u] = w
                                 /\ ~ (u \in d.used /\ u \in Subs(r)) => h.par[u] = g.par[u]
  <2>1. k \in Int
    BY <1>3, ConstFacts
  <2>2. /\ h \in Labels
        /\ h.lev[w] = g.lev[v] /\ h.par[w] = g.par[v] /\ h.lo[w] = k /\ h.hi[w] = g.hi[v]
        /\ \A u \in Place \ {w} : /\ h.lev[u] = g.lev[u] /\ h.lo[u] = g.lo[u]
                                  /\ u = v => h.hi[u] = k
                                  /\ u # v => h.hi[u] = g.hi[u]
                                  /\ u \in d.used /\ u \in Subs(r) => h.par[u] = w
                                  /\ ~ (u \in d.used /\ u \in Subs(r)) => h.par[u] = g.par[u]
    <3>1. g \in Labels /\ v \in Place /\ w \in Place /\ k \in Int /\ h = SplitLabels(d, g, v, w, k, r)
      BY <2>1, <1>1, <1>4, <1>14
    <3> QED BY <3>1, SplitLabelsFacts
  <2> QED BY <2>2, <1>7
\* The children of the halves are n's, each in one of them.
<1>16. PICK c \in Nat : c = Len(n.keys) /\ half + 2 <= c /\ Len(l.keys) = half /\ Len(r.keys) = c - half - 1
  BY <1>1, <1>3, NodeFacts
<1>17. \A u \in d.used : u \in Subs(r) <=> \E j \in Slots(r) : SubAt(r, j) = u
  <2>1. \A u \in d.used : u # None
    BY <1>1, ConstFacts
  <2> QED BY <2>1 DEF Subs, Slots
<1>18. \A u \in d.used : u \in Subs(r) => g.par[u] = v
  <2> SUFFICES ASSUME NEW u \in d.used, NEW j \in Slots(r), SubAt(r, j) = u PROVE g.par[u] = v
    BY <1>17
  <2>1. half + 1 + j \in Slots(n) /\ SubAt(n, half + 1 + j) = u
    BY <1>3
  <2> QED BY <2>1, <1>1, PointerFacts
\* A slot of n in the tree.
<1>19. ASSUME NEW j \in Slots(n), g.lev[v] > 0
       PROVE  /\ j <= c => Child(d, g, v, j)
              /\ Child(d, g, v, j) \/ (j = c + 1 /\ SubAt(n, j) = -1)
              /\ Child(d, g, v, j) => LET u == SubAt(n, j)
                                      IN  /\ u \in d.used /\ u # v /\ u # w /\ g.par[u] = v /\ u \in Place
                                          /\ g.lev[u] + 1 = g.lev[v]
                                          /\ g.lo[u] = LoAt(n, a, j) /\ g.hi[u] = HiAt(n, b, j)
                                          /\ \A t \in Slots(n) : SubAt(n, t) = u => t = j
  <2>1. Fits(d, -1, g, v)
    BY <1>1 DEF Tree
  <2>2. Child(d, g, v, j) \/ Stump(d, v, j)
    BY <2>1, <1>1, <1>19 DEF Fits
  <2>3. Stump(d, v, j) => j = c + 1 /\ SubAt(n, j) = -1
    BY <1>1, <1>16 DEF Stump
  <2>4. j <= c => j # c + 1
    BY <1>16 DEF Slots
  <2>5. ASSUME Child(d, g, v, j), NEW u, u = SubAt(n, j)
        PROVE  /\ u \in d.used /\ u # v /\ u # w /\ g.par[u] = v /\ u \in Place
               /\ g.lev[u] + 1 = g.lev[v]
               /\ g.lo[u] = LoAt(n, a, j) /\ g.hi[u] = HiAt(n, b, j)
               /\ \A t \in Slots(n) : SubAt(n, t) = u => t = j
    <3>1. u \in d.used /\ g.par[u] = v /\ g.lev[u] + 1 = g.lev[v]
          /\ g.lo[u] = LoAt(n, a, j) /\ g.hi[u] = HiAt(n, b, j)
      BY <2>5, <1>6, <1>7 DEF Child
    <3>2. u # w /\ u \in Place /\ u \in Block
      BY <3>1, <1>1, <1>2 DEF Place
    <3>3. u # v
      BY <3>1, <3>2, <1>1
    <3>4. \A t \in Slots(n) : SubAt(n, t) = u => t = j
      BY <3>2, <2>5, <1>1, PointerFacts
    <3> QED BY <3>1, <3>2, <3>3, <3>4
  <2> QED BY <2>2, <2>3, <2>4, <2>5
<1>20. Fits(e, -1, h, v)
  <2>1. h.lev[v] = g.lev[v] /\ h.lo[v] = a /\ h.hi[v] = k
    BY <1>4, <1>6, <1>15
  <2>2. g.lev[v] = 0 => Bare(l)
    <3> SUFFICES ASSUME g.lev[v] = 0, NEW j \in Slots(l) PROVE SubAt(l, j) = None
      BY DEF Bare
    <3>1. Fits(d, -1, g, v)
      BY <1>1 DEF Tree
    <3>2. Bare(n)
      BY <3>1, <1>1 DEF Fits
    <3>3. j \in Slots(n) /\ SubAt(l, j) = SubAt(n, j)
      BY <1>3, <1>16 DEF Slots
    <3> QED BY <3>2, <3>3 DEF Bare
  <2>3. ASSUME g.lev[v] > 0, NEW j \in Slots(l) PROVE Child(e, h, v, j)
    <3>1. j \in 1..Len(n.keys) /\ SubAt(l, j) = SubAt(n, j)
      BY <1>3
    <3>2. j \in Slots(n) /\ j <= c /\ j <= half + 1
      BY <3>1, <1>16 DEF Slots
    <3>3. PICK u : u = SubAt(n, j)
      OBVIOUS
    <3>4. /\ u \in d.used /\ u # v /\ u # w /\ g.par[u] = v /\ u \in Place
          /\ g.lev[u] + 1 = g.lev[v] /\ g.lo[u] = LoAt(n, a, j) /\ g.hi[u] = HiAt(n, b, j)
          /\ \A t \in Slots(n) : SubAt(n, t) = u => t = j
      BY <3>2, <3>3, <2>3, <1>19
    <3>5. u \notin Subs(r)
      <4> SUFFICES ASSUME NEW t \in Slots(r), SubAt(r, t) = u PROVE FALSE
        BY <3>4, <1>17
      <4>1. half + 1 + t \in Slots(n) /\ SubAt(n, half + 1 + t) = u /\ t \in Nat /\ t >= 1
        BY <1>3, <1>16 DEF Slots
      <4>2. half + 1 + t = j
        BY <4>1, <3>4
      <4>3. j \in Nat
        BY <3>1
      <4> QED BY <4>1, <4>2, <4>3, <3>2, <1>3
    <3>6. LoAt(l, a, j) = LoAt(n, a, j) /\ HiAt(l, k, j) = HiAt(n, b, j)
      BY <1>9
    <3> QED BY <3>1, <3>3, <3>4, <3>5, <3>6, <2>1, <1>2, <1>15 DEF Child
  <2> QED BY <2>1, <2>2, <2>3, <1>1, <1>2, <1>3, <1>9 DEF Fits
<1>21. Fits(e, -1, h, w)
  <2>1. h.lev[w] = g.lev[v] /\ h.lo[w] = k /\ h.hi[w] = b /\ w # -1 /\ w # None
    BY <1>1, <1>4, <1>15
  <2>2. g.lev[v] = 0 => Bare(r)
    <3> SUFFICES ASSUME g.lev[v] = 0, NEW j \in Slots(r) PROVE SubAt(r, j) = None
      BY DEF Bare
    <3>1. Fits(d, -1, g, v)
      BY <1>1 DEF Tree
    <3>2. Bare(n)
      BY <3>1, <1>1 DEF Fits
    <3>3. half + 1 + j \in Slots(n) /\ SubAt(r, j) = SubAt(n, half + 1 + j)
      BY <1>3
    <3> QED BY <3>2, <3>3 DEF Bare
  <2>3. ASSUME g.lev[v] > 0, NEW j \in Slots(r) PROVE Child(e, h, w, j) \/ Stump(e, w, j)
    <3>1. half + 1 + j \in Slots(n) /\ SubAt(r, j) = SubAt(n, half + 1 + j)
      BY <1>3
    <3>2. PICK t \in Slots(n) : t = half + 1 + j
      BY <3>1
    <3>3. CASE Child(d, g, v, t)
      <4>3. PICK u : u = SubAt(n, t)
        OBVIOUS
      <4>4. /\ u \in d.used /\ u # v /\ u # w /\ g.par[u] = v /\ u \in Place
            /\ g.lev[u] + 1 = g.lev[v] /\ g.lo[u] = LoAt(n, a, t) /\ g.hi[u] = HiAt(n, b, t)
        BY <4>3, <3>3, <2>3, <1>19
      <4>5. u \in Subs(r)
        BY <3>1, <3>2, <4>3, <4>4, <1>17
      <4>6. LoAt(r, k, j) = LoAt(n, a, t) /\ HiAt(r, b, j) = HiAt(n, b, t)
        BY <3>2, <1>9
      <4>7. SubAt(r, j) = u
        BY <3>1, <3>2, <4>3
      <4> QED BY <4>4, <4>5, <4>6, <4>7, <2>1, <1>2, <1>15 DEF Child
    <3>4. CASE t = c + 1 /\ SubAt(n, t) = -1
      <4>1. j \in Nat /\ half \in Nat
        BY <1>3, <1>16 DEF Slots
      <4>2. j = Len(r.keys) + 1
        BY <4>1, <3>2, <3>4, <1>16
      <4> QED BY <4>2, <3>1, <3>2, <3>4, <2>1, <1>2 DEF Stump
    <3> QED BY <3>3, <3>4, <2>3, <1>19
  <2> QED BY <2>1, <2>2, <2>3, <1>1, <1>2, <1>3, <1>9 DEF Fits
\* The slots of m.
<1>22. /\ Len(N.keys) \in Nat /\ Len(m.keys) = Len(N.keys) + 1 /\ i \in 1..(Len(N.keys) + 1)
       /\ \A j \in Slots(m) : j \in 1..(Len(N.keys) + 2)
       /\ \A j \in Slots(m) : /\ j < i => SubAt(m, j) = SubAt(N, j)
                              /\ j = i => SubAt(m, j) = v
                              /\ j = i + 1 => SubAt(m, j) = w
                              /\ j > i + 1 => SubAt(m, j) = SubAt(N, j - 1)
  <2>1. Len(N.keys) \in Nat /\ Len(m.keys) = Len(N.keys) + 1
    BY <1>12, NodeFacts DEF AddedAt
  <2> QED BY <2>1, <1>11 DEF Slots, Promoted
<1>23. PICK A \in Int : A = g.lo[p]
  BY <1>1, <1>4
<1>24. PICK B \in Int : B = g.hi[p]
  BY <1>1, <1>4
<1>25. h.lev[p] = g.lev[p] /\ h.lo[p] = A /\ h.hi[p] = B
  BY <1>4, <1>15, <1>23, <1>24
\* A child of another node than v keeps its labels, v's apart.
<1>26. ASSUME NEW u \in InTree(d), NEW j \in Slots(NodeAt(d, u)), Child(d, g, u, j),
              NEW t, t = SubAt(NodeAt(d, u), j), t # v, u # v
       PROVE  /\ t \in d.used /\ t \in e.used /\ t \in Place /\ t # w /\ h.lev[t] + 1 = g.lev[u] /\ h.par[t] = u
              /\ h.lo[t] = LoAt(NodeAt(d, u), g.lo[u], j) /\ h.hi[t] = HiAt(NodeAt(d, u), g.hi[u], j)
  <2>1. t \in d.used /\ g.par[t] = u /\ g.lev[t] + 1 = g.lev[u]
        /\ g.lo[t] = LoAt(NodeAt(d, u), g.lo[u], j) /\ g.hi[t] = HiAt(NodeAt(d, u), g.hi[u], j)
    BY <1>26 DEF Child
  <2>2. t \in Place /\ t # w /\ t \in e.used
    BY <2>1, <1>1, <1>2 DEF Place
  <2>3. t \notin Subs(r)
    BY <2>1, <1>18, <1>26
  <2> QED BY <2>1, <2>2, <2>3, <1>15, <1>26
<1>27. Fits(e, -1, h, p)
  <2>1. ASSUME NEW j \in Slots(m) PROVE Child(e, h, p, j) \/ Stump(e, p, j)
    <3>1. CASE j = i
      <4>1. LoAt(m, A, j) = a /\ HiAt(m, B, j) = k
        BY <3>1, <1>10, <1>13, <1>22, <1>23, <1>24
      <4>2. SubAt(m, j) = v /\ v \in e.used
        BY <3>1, <1>2, <1>22
      <4>3. v \notin Subs(r)
        BY <1>18, <1>4
      <4>4. h.lo[v] = a /\ h.hi[v] = k /\ h.lev[v] + 1 = h.lev[p] /\ h.par[v] = p
        BY <4>3, <1>4, <1>6, <1>15, <1>25
      <4> QED BY <4>1, <4>2, <4>4, <1>2, <1>25 DEF Child
    <3>2. CASE j = i + 1
      <4>0. ~ (j <= i) /\ ~ (j < i) /\ j # i /\ j - 1 = i
        BY <3>2, <1>22
      <4>1. LoAt(m, A, j) = k /\ HiAt(m, B, j) = b
        BY <3>2, <4>0, <1>10, <1>13, <1>23, <1>24
      <4>2. SubAt(m, j) = w /\ w \in e.used
        BY <3>2, <1>2, <1>22
      <4>4. h.lo[w] = k /\ h.hi[w] = b /\ h.lev[w] + 1 = h.lev[p] /\ h.par[w] = p
        BY <1>4, <1>15, <1>25
      <4> QED BY <4>1, <4>2, <4>4, <1>2, <1>25 DEF Child
    <3>3. ASSUME j # i, j # i + 1,
                 NEW o \in Slots(N), SubAt(m, j) = SubAt(N, o), o # i,
                 LoAt(m, A, j) = LoAt(N, A, o), HiAt(m, B, j) = HiAt(N, B, o),
                 o = Len(N.keys) + 1 => j = Len(m.keys) + 1
          PROVE  Child(e, h, p, j) \/ Stump(e, p, j)
      <4>1. Child(d, g, p, o) \/ Stump(d, p, o)
        <5>1. Fits(d, -1, g, p)
          BY <1>4 DEF Tree
        <5> QED BY <5>1, <1>4, <1>5 DEF Fits
      <4>2. CASE Child(d, g, p, o)
        <5>1. PICK t : t = SubAt(N, o)
          OBVIOUS
        <5>2. t # v
          BY <5>1, <3>3, <1>10
        <5>3. /\ t \in e.used /\ h.lev[t] + 1 = g.lev[p] /\ h.par[t] = p
              /\ h.lo[t] = LoAt(N, g.lo[p], o) /\ h.hi[t] = HiAt(N, g.hi[p], o)
          BY <5>1, <5>2, <4>2, <1>4, <1>5, <1>26
        <5> QED BY <5>1, <5>3, <3>3, <1>2, <1>23, <1>24, <1>25 DEF Child
      <4>3. CASE Stump(d, p, o)
        BY <4>3, <3>3, <1>2, <1>5 DEF Stump
      <4> QED BY <4>1, <4>2, <4>3
    <3>4. CASE j < i
      <4>1. j \in Slots(N) /\ j # i /\ j # i + 1 /\ j # Len(N.keys) + 1 /\ j <= i
        BY <3>4, <1>22 DEF Slots
      <4>2. SubAt(m, j) = SubAt(N, j) /\ LoAt(m, A, j) = LoAt(N, A, j) /\ HiAt(m, B, j) = HiAt(N, B, j)
        BY <3>4, <4>1, <1>13, <1>22, <1>23, <1>24
      <4> QED BY <4>1, <4>2, <3>3
    <3>5. CASE j > i + 1
      <4>1. PICK o : o = j - 1
        OBVIOUS
      <4>2. /\ o \in Slots(N) /\ j # i /\ j # i + 1 /\ o # i /\ ~ (j <= i) /\ ~ (j < i)
            /\ (o = Len(N.keys) + 1 => j = Len(m.keys) + 1)
        <5>1. PICK z \in Nat : z = Len(N.keys) /\ Len(m.keys) = z + 1 /\ i \in 1..(z + 1)
          BY <1>22
        <5>2. j \in 1..(z + 2)
          BY <5>1, <1>22
        <5>3. o \in 1..(z + 1) /\ j # i /\ j # i + 1 /\ o # i /\ ~ (j <= i) /\ ~ (j < i)
              /\ (o = z + 1 => j = z + 1 + 1)
          BY <5>1, <5>2, <3>5, <4>1
        <5> QED BY <5>1, <5>3 DEF Slots
      <4>3. SubAt(m, j) = SubAt(N, o) /\ LoAt(m, A, j) = LoAt(N, A, o) /\ HiAt(m, B, j) = HiAt(N, B, o)
        BY <3>5, <4>1, <4>2, <1>13, <1>22, <1>23, <1>24
      <4> QED BY <4>2, <4>3, <3>3
    <3> QED BY <3>1, <3>2, <3>4, <3>5, <1>22
  <2> QED BY <2>1, <1>2, <1>4, <1>13, <1>23, <1>24, <1>25 DEF Fits
<1>28. ASSUME NEW u \in InTree(d), u # v, u # p
       PROVE  Fits(e, -1, h, u) /\ NodeAt(e, u) = NodeAt(d, u)
  <2>1. u \in Place /\ u # w /\ u # -1
    BY <1>1, <1>2, <1>4 DEF InTree
  <2>2. NodeAt(e, u) = NodeAt(d, u) /\ Fits(d, -1, g, u)
    BY <2>1, <1>2, <1>28 DEF Tree
  <2>3. h.lev[u] = g.lev[u] /\ h.lo[u] = g.lo[u] /\ h.hi[u] = g.hi[u]
    BY <2>1, <1>15, <1>28
  <2>4. ASSUME NEW j \in Slots(NodeAt(d, u)), Child(d, g, u, j) PROVE Child(e, h, u, j)
    <3>1. PICK t : t = SubAt(NodeAt(d, u), j)
      OBVIOUS
    <3>2. t # v
      BY <3>1, <2>4, <1>28 DEF Child
    <3>3. /\ t \in e.used /\ h.lev[t] + 1 = g.lev[u] /\ h.par[t] = u
          /\ h.lo[t] = LoAt(NodeAt(d, u), g.lo[u], j) /\ h.hi[t] = HiAt(NodeAt(d, u), g.hi[u], j)
      BY <3>1, <3>2, <2>4, <1>26, <1>28
    <3> QED BY <3>1, <3>3, <2>2, <2>3 DEF Child
  <2>5. \A j : Stump(d, u, j) => Stump(e, u, j)
    BY <2>2 DEF Stump
  <2> QED BY <2>1, <2>2, <2>3, <2>4, <2>5 DEF Fits
<1>29. InTree(e) = InTree(d) \cup {w}
  BY <1>2 DEF InTree
<1>30. \A u \in InTree(e) : h.lev[u] <= h.lev[None] /\ Fits(e, -1, h, u)
  <2>1. \A u \in InTree(d) : g.lev[u] <= g.lev[None]
    <3> SUFFICES ASSUME NEW u \in InTree(d) PROVE g.lev[u] <= g.lev[None]
      OBVIOUS
    <3>1. CASE u = None
      BY <3>1, <1>1
    <3>2. CASE u # None
      <4>1. u \in d.used
        BY <3>2, <1>1
      <4>2. g.lev[u] < g.lev[None]
        BY <4>1, ParentFacts
      <4> QED BY <4>2, <1>1
    <3> QED BY <3>1, <3>2
  <2>2. h.lev[None] = g.lev[None] /\ \A u \in InTree(d) : h.lev[u] = g.lev[u]
    <3>1. w \notin InTree(d)
      BY <1>2, <1>4 DEF InTree
    <3> QED BY <3>1, <1>1, <1>15
  <2>3. h.lev[w] <= h.lev[None]
    BY <2>2, <1>1, <1>4, <1>15
  <2>4. \A u \in InTree(e) : Fits(e, -1, h, u)
    BY <1>20, <1>21, <1>27, <1>28, <1>29
  <2> QED BY <2>1, <2>2, <2>3, <2>4, <1>29
<1>31. ASSUME NEW x \in e.used
       PROVE  \E u \in InTree(e) : \E j \in Slots(NodeAt(e, u)) : SubAt(NodeAt(e, u), j) = x
  <2>1. i \in Slots(m) /\ i + 1 \in Slots(m) /\ SubAt(m, i) = v /\ SubAt(m, i + 1) = w
    <3>1. i \in Slots(m) /\ i + 1 \in Slots(m)
      BY <1>22 DEF Slots
    <3> QED BY <3>1, <1>22
  <2>2. p \in InTree(e) /\ v \in InTree(e) /\ w \in InTree(e)
    BY <1>1, <1>4, <1>29
  <2>3. CASE x = v
    BY <2>1, <2>2, <2>3, <1>2
  <2>4. CASE x = w
    BY <2>1, <2>2, <2>4, <1>2
  <2>5. CASE x # v /\ x # w
    <3>1. x \in d.used
      BY <2>5, <1>2
    <3>2. PICK q : q = g.par[x]
      OBVIOUS
    <3>3. q \in InTree(d) /\ \E j \in Slots(NodeAt(d, q)) : SubAt(NodeAt(d, q), j) = x
      BY <3>1, <3>2, ParentFacts
    <3>4. PICK j \in Slots(NodeAt(d, q)) : SubAt(NodeAt(d, q), j) = x
      BY <3>3
    <3>5. CASE q = v
      <4>1. j \in 1..(c + 1) /\ SubAt(n, j) = x /\ half \in Nat
        BY <3>4, <3>5, <1>3, <1>16 DEF Slots
      <4>2. CASE j <= half + 1
        <5>1. j \in Slots(l)
          BY <4>1, <4>2, <1>16 DEF Slots
        <5>2. SubAt(l, j) = x
          BY <5>1, <4>1, <1>3
        <5> QED BY <5>1, <5>2, <2>2, <1>2
      <4>3. CASE j > half + 1
        <5>1. PICK o : o = j - half - 1
          OBVIOUS
        <5>2. o \in Slots(r) /\ half + 1 + o = j
          BY <5>1, <4>1, <4>3, <1>16 DEF Slots
        <5>3. SubAt(r, o) = x
          BY <5>2, <4>1, <1>3
        <5> QED BY <5>2, <5>3, <2>2, <1>2
      <4> QED BY <4>1, <4>2, <4>3
    <3>6. CASE q = p
      <4>1. j \in 1..(Len(N.keys) + 1) /\ SubAt(N, j) = x /\ j # i
        BY <3>4, <3>6, <2>5, <1>5, <1>10 DEF Slots
      <4>2. CASE j < i
        <5>1. j \in Slots(m)
          BY <4>1, <1>22 DEF Slots
        <5>2. SubAt(m, j) = x
          BY <5>1, <4>1, <4>2, <1>22
        <5> QED BY <5>1, <5>2, <2>2, <1>2
      <4>3. CASE j > i
        <5>1. PICK o : o = j + 1
          OBVIOUS
        <5>2. o \in Slots(m) /\ o > i + 1 /\ o - 1 = j
          BY <5>1, <4>1, <4>3, <1>22 DEF Slots
        <5>3. SubAt(m, o) = x
          BY <5>2, <4>1, <1>22
        <5> QED BY <5>2, <5>3, <2>2, <1>2
      <4> QED BY <4>1, <4>2, <4>3, <1>22
    <3>7. CASE q # v /\ q # p
      <4>1. NodeAt(e, q) = NodeAt(d, q) /\ q \in InTree(e)
        BY <3>3, <3>7, <1>28, <1>29
      <4> QED BY <4>1, <3>4
    <3> QED BY <3>5, <3>6, <3>7
  <2> QED BY <2>3, <2>4, <2>5
<1>32. \A u \in Block \ e.used : Idle(e, u)
  <2> SUFFICES ASSUME NEW u \in Block \ e.used PROVE Idle(e, u)
    OBVIOUS
  <2>1. u \in Block \ d.used /\ u # w /\ u # v /\ u \notin InTree(d) /\ u # None /\ u \in Place
    BY <1>2, ConstFacts DEF InTree, Place
  <2>2. u # p
    BY <2>1, <1>4
  <2>3. NodeAt(e, u) = NodeAt(d, u)
    BY <2>1, <2>2, <1>2
  <2>4. e.node[u] = d.node[u]
    BY <2>1, <2>3 DEF NodeAt
  <2> QED BY <2>1, <2>4 DEF Tree, Idle
<1>33. h.lev[None] > 0 /\ h.lo[None] = -1 /\ h.hi[None] = -1 /\ \A u \in InTree(d) : h.lev[u] = g.lev[u]
  <2>1. g.lev[None] > 0 /\ g.lo[None] = -1 /\ g.hi[None] = -1
    BY DEF Tree
  <2>2. w \notin InTree(d)
    BY <1>2, <1>4 DEF InTree
  <2> QED BY <2>1, <2>2, <1>1, <1>15
<1>34. e.large /\ e.owned + e.free = Clusters
  BY <1>2 DEF Tree
<1>35. Tree(e, -1, h)
  BY <1>2, <1>15, <1>30, <1>31, <1>32, <1>33, <1>34, TreeBuilt
<1>36. KeysIn(e) = KeysIn(d)
  <2>1. \A q : Has(n, q) <=> Has(l, q) \/ Has(r, q) \/ q = k
    BY <1>9
  <2>2. \A q : Has(m, q) <=> Has(N, q) \/ q = k
    BY <1>13
  <2>3. \A q \in Key : q \in KeysIn(e) <=> \/ Has(l, q) \/ Has(r, q) \/ Has(m, q)
                                           \/ \E u \in InTree(d) \ {v, p} : Has(NodeAt(d, u), q)
    BY <1>1, <1>2, <1>4, <1>28, <1>29 DEF KeysIn
  <2>4. \A q \in Key : q \in KeysIn(d) <=> \/ Has(n, q) \/ Has(N, q)
                                           \/ \E u \in InTree(d) \ {v, p} : Has(NodeAt(d, u), q)
    BY <1>1, <1>4, <1>5 DEF KeysIn
  <2>5. KeysIn(e) \subseteq Key /\ KeysIn(d) \subseteq Key
    BY DEF KeysIn
  <2> QED BY <2>1, <2>2, <2>3, <2>4, <2>5
<1> QED BY <1>33, <1>35, <1>36 DEF StillTree

\* A node is written: the record or a block.
LEMMA NodeWithNodes ==
  ASSUME NEW d \in Volume, NEW u \in Place, NEW n \in Node, NEW e, e = NodeWith(d, u, n)
  PROVE  /\ e \in Volume /\ e.large = d.large /\ e.used = d.used /\ e.owned = d.owned /\ e.free = d.free
         /\ InTree(e) = InTree(d) /\ (u # None => e.root = d.root)
         /\ NodeAt(e, u) = n /\ \A t \in Place : t # u => NodeAt(e, t) = NodeAt(d, t)
<1>1. CASE u = None
  <2>1. /\ e \in Volume /\ e.root = n /\ e.large = d.large /\ e.node = d.node /\ e.used = d.used
        /\ e.owned = d.owned /\ e.free = d.free
    BY <1>1, RootWithFacts DEF NodeWith
  <2> QED BY <1>1, <2>1 DEF InTree, NodeAt
<1>2. CASE u # None
  <2>1. u \in Block /\ e = Put(d, u, n)
    BY <1>2 DEF Place, NodeWith
  <2>2. /\ e \in Volume /\ e.root = d.root /\ e.large = d.large /\ e.used = d.used
        /\ e.owned = d.owned /\ e.free = d.free /\ InTree(e) = InTree(d)
        /\ NodeAt(e, u) = n /\ \A t \in Place : t # u => NodeAt(e, t) = NodeAt(d, t)
    BY <2>1, PutNodes
  <2> QED BY <2>2
<1> QED BY <1>1, <1>2

\* A node too wide for a block has more than two keys.
LEMMA WideFacts ==
  ASSUME NEW m \in Node, m.keys # << >>, ~ (Width(m.keys) <= BlockRoom)
  PROVE  Len(m.keys) >= 3
<1>1. PICK s \in Seq(Item) : s = m.keys
  BY NodeFacts
<1>2. Len(s) \in Nat /\ Len(s) # 0
  BY <1>1
<1>3. Len(s) # 1
  <2> SUFFICES ASSUME Len(s) = 1 PROVE FALSE
    OBVIOUS
  <2>1. s[1] \in Item
    OBVIOUS
  <2>2. PICK q : q = <<s[1]>>
    OBVIOUS
  <2>3. q \in Seq(Item) /\ Len(q) = 1 /\ q[1] = s[1]
    BY <2>1, <2>2
  <2>4. s = q
    BY <2>3, SeqEqual
  <2> QED BY <2>1, <2>2, <2>4, <1>1, RoomAssumption
<1>4. Len(s) # 2
  <2> SUFFICES ASSUME Len(s) = 2 PROVE FALSE
    OBVIOUS
  <2>0. 1 \in 1..Len(s) /\ 2 \in 1..Len(s)
    OBVIOUS
  <2>1. s[1] \in Item /\ s[2] \in Item
    BY <2>0, ElementOfSeq
  <2>2. PICK q : q = <<s[1], s[2]>>
    OBVIOUS
  <2>3. q \in Seq(Item) /\ Len(q) = 2 /\ q[1] = s[1] /\ q[2] = s[2]
    BY <2>1, <2>2
  <2>4. s = q
    BY <2>3, SeqEqual
  <2>5. PICK x \in Item : x = s[1]
    BY <2>1
  <2>6. PICK y \in Item : y = s[2]
    BY <2>1
  <2>7. q = <<x, y>>
    BY <2>2, <2>5, <2>6
  <2>8. Width(<<x, y>>) <= BlockRoom
    BY RoomAssumption
  <2>9. Width(q) <= BlockRoom
    BY <2>7, <2>8
  <2> QED BY <2>4, <2>9, <1>1
<1> QED
  <2>1. PICK c \in Nat : c = Len(s)
    BY <1>2
  <2>2. c >= 3
    BY <2>1, <1>2, <1>3, <1>4
  <2> QED BY <2>1, <2>2, <1>1

\* A separator that has come up.
LEMMA PromotedFacts ==
  ASSUME NEW n \in Node, NEW i \in Slots(n), NEW x \in Item, NEW v \in Sub,
         NEW m, m = Promote(n, i, x, v)
  PROVE  Promoted(n, m, i, x.key, x.sub, v)
<1>1. PICK c \in Nat : c = Len(n.keys)
  BY NodeFacts
<1>2. i \in 1..(c + 1)
  BY <1>1 DEF Slots
<1>3. /\ m \in Node /\ Len(m.keys) = c + 1
      /\ \A j \in 1..(c + 1) :
           m.keys[j].key = IF j < i THEN n.keys[j].key ELSE IF j = i THEN x.key ELSE n.keys[j - 1].key
      /\ \A j \in 1..(c + 2) :
           SubAt(m, j) = IF j < i THEN SubAt(n, j) ELSE IF j = i THEN x.sub
                         ELSE IF j = i + 1 THEN v ELSE SubAt(n, j - 1)
  BY <1>1, <1>2, PromoteFacts
<1>4. AddedAt(n, m, i, x.key)
  BY <1>1, <1>3 DEF AddedAt
<1>5. ASSUME NEW j \in Slots(m)
      PROVE  /\ j < i => SubAt(m, j) = SubAt(n, j)
             /\ j = i => SubAt(m, j) = x.sub
             /\ j = i + 1 => SubAt(m, j) = v
             /\ j > i + 1 => SubAt(m, j) = SubAt(n, j - 1)
  <2>1. j \in 1..(c + 2)
    BY <1>3 DEF Slots
  <2>2. j > i + 1 => ~ (j < i) /\ j # i /\ j # i + 1
    BY <2>1, <1>2
  <2>3. j = i + 1 => ~ (j < i) /\ j # i
    BY <2>1, <1>2
  <2>4. j = i => ~ (j < i)
    BY <2>1, <1>2
  <2> QED BY <2>1, <2>2, <2>3, <2>4, <1>3
<1> QED BY <1>3, <1>4, <1>5 DEF Promoted

\* r has split block v, which m was to be written to.
SplitOver(f, v, m, r) ==
  \E half, k, l, rr :
    /\ Halves(m, l, k, rr, half)
    /\ ~ NoBlock(f) /\ r.right = NewBlock(f) /\ r.sep = [key |-> k, sub |-> v]
    /\ r.dir = Put(Put(AllocBlock(f), v, l), NewBlock(f), rr)

\* The split of a node too wide.
LEMMA OverflowFacts ==
  ASSUME NEW f \in Volume, NEW v \in Block, NEW m \in Node, Len(m.keys) >= 3,
         NEW r, r = Overflow(f, v, m), r.how = "split"
  PROVE  SplitOver(f, v, m, r)
<1>1. PICK s \in Seq(Item) : s = m.keys
  BY NodeFacts
<1>2. PICK re \in Sub : re = m.end
  BY NodeFacts
<1>3. PICK half : half = Len(s) \div 2
  OBVIOUS
<1>4. half \in Nat /\ half >= 1 /\ half + 2 <= Len(s)
  <2>1. PICK c \in Nat : c = Len(s) /\ c >= 3
    BY <1>1
  <2>2. half = c \div 2
    BY <1>3, <2>1
  <2>3. half \in Nat /\ half >= 1 /\ half + 2 <= c
    BY <2>1, <2>2, MedianFacts
  <2> QED BY <2>1, <2>3
<1>5. half + 1 \in 1..Len(m.keys)
  <2>1. PICK c \in Nat : c = Len(s)
    BY <1>1
  <2> QED BY <2>1, <1>1, <1>4
<1>6. PICK le \in Sub : le = m.keys[half + 1].sub
  BY <1>5, NodeFacts
<1>7. PICK k \in Key : k = m.keys[half + 1].key
  BY <1>5, NodeFacts
<1>8. r = SplitNode(f, v, s, le, re)
  BY <1>1, <1>2, <1>3, <1>6 DEF Overflow
<1>9. /\ ~ NoBlock(f) /\ r.right = NewBlock(f) /\ r.sep = [key |-> s[half + 1].key, sub |-> v]
      /\ r.dir = Put(Put(AllocBlock(f), v, [keys |-> SubSeq(s, 1, half), end |-> le]),
                     NewBlock(f), [keys |-> SubSeq(s, half + 2, Len(s)), end |-> re])
  <2>1. SplitAs(f, v, s, le, re, half, r)
    BY <1>3, <1>8, SplitFacts
  <2> QED BY <2>1 DEF SplitAs
<1>10. PICK l : l = [keys |-> SubSeq(m.keys, 1, half), end |-> m.keys[half + 1].sub]
  OBVIOUS
<1>11. PICK rr : rr = [keys |-> SubSeq(m.keys, half + 2, Len(m.keys)), end |-> m.end]
  OBVIOUS
<1>12. half \in Nat /\ half >= 1 /\ half + 2 <= Len(m.keys)
  BY <1>1, <1>4
<1>13. Halves(m, l, k, rr, half)
  BY <1>7, <1>10, <1>11, <1>12, HalvesFacts
<1>14. l = [keys |-> SubSeq(s, 1, half), end |-> le] /\ rr = [keys |-> SubSeq(s, half + 2, Len(s)), end |-> re]
  BY <1>1, <1>2, <1>6, <1>10, <1>11
<1>15. r.sep = [key |-> k, sub |-> v] /\ r.dir = Put(Put(AllocBlock(f), v, l), NewBlock(f), rr)
  BY <1>1, <1>7, <1>9, <1>14
<1> QED BY <1>9, <1>13, <1>15 DEF SplitOver

\* The state after a step at v: no other node has changed, and with v as in e it is the
\* tree that t was.
Stepped(t, g, v, r, e) ==
  /\ r.dir \in Volume /\ t.used \subseteq r.dir.used
  /\ \A u \in InTree(t) : u # v => NodeAt(r.dir, u) = NodeAt(t, u)
  /\ StillTree(t, g, e)

\* The split of a node too wide, written into the tree in its place: the tree with its
\* separator in the parent.
LEMMA SplitStep ==
  ASSUME NEW f \in Volume, NEW v \in Block, NEW m \in Node, Len(m.keys) >= 3,
         NEW t, t = Put(f, v, m), NEW g, Tree(t, -1, g), v \in t.used,
         NEW r, r = Overflow(f, v, m), r.how = "split",
         NEW p, p = g.par[v], NEW i \in Slots(NodeAt(t, p)), SubAt(NodeAt(t, p), i) = v,
         NEW M, M = Promote(NodeAt(t, p), i, r.sep, r.right), NEW e, e = NodeWith(r.dir, p, M)
  PROVE  Stepped(t, g, v, r, e)
<1>0. SplitOver(f, v, m, r)
  BY OverflowFacts
<1>1. PICK half, k, l, rr :
        /\ Halves(m, l, k, rr, half)
        /\ ~ NoBlock(f) /\ r.right = NewBlock(f) /\ r.sep = [key |-> k, sub |-> v]
        /\ r.dir = Put(Put(AllocBlock(f), v, l), NewBlock(f), rr)
  BY <1>0 DEF SplitOver
<1>5. k \in Key
  BY <1>1 DEF Halves
<1>8. Halves(m, l, k, rr, half)
  BY <1>1
<1>9. l \in Node /\ rr \in Node
  BY <1>8 DEF Halves
<1>10. PICK w : w = NewBlock(f)
  OBVIOUS
<1>11. PICK a : a = AllocBlock(f)
  OBVIOUS
<1>12. /\ ~ NoBlock(f) /\ r.right = w /\ r.sep = [key |-> k, sub |-> v]
       /\ r.dir = Put(Put(a, v, l), w, rr)
  BY <1>1, <1>10, <1>11
<1>13. /\ t \in Volume /\ t.root = f.root /\ t.large = f.large /\ t.used = f.used
       /\ t.owned = f.owned /\ t.free = f.free /\ InTree(t) = InTree(f)
       /\ NodeAt(t, v) = m /\ \A u \in Place : u # v => NodeAt(t, u) = NodeAt(f, u)
  BY PutNodes
<1>14. t.used \subseteq 0..(t.owned - 1)
  BY DEF Tree
<1>15. /\ a \in Volume /\ w \in Block /\ a.root = f.root /\ a.large = f.large /\ a.node = f.node
       /\ a.used = f.used \cup {w} /\ a.owned + a.free = f.owned + f.free
       /\ w \notin f.used /\ a.used \subseteq 0..(a.owned - 1)
  BY <1>10, <1>11, <1>12, <1>13, <1>14, AllocFacts
<1>16. w # v /\ v # None /\ w # None /\ v \in Place /\ w \in Place
  BY <1>13, <1>15, ConstFacts DEF Place
<1>17. PICK b : b = Put(a, v, l)
  OBVIOUS
<1>18. /\ b \in Volume /\ b.root = a.root /\ b.large = a.large /\ b.used = a.used
       /\ b.owned = a.owned /\ b.free = a.free /\ InTree(b) = InTree(a)
       /\ NodeAt(b, v) = l /\ \A u \in Place : u # v => NodeAt(b, u) = NodeAt(a, u)
  <2>1. a \in Volume /\ l \in Node
    BY <1>9, <1>15
  <2> QED BY <2>1, <1>17, PutNodes
<1>19. PICK c : c = r.dir
  OBVIOUS
<1>20. /\ c \in Volume /\ c.root = b.root /\ c.large = b.large /\ c.used = b.used
       /\ c.owned = b.owned /\ c.free = b.free /\ InTree(c) = InTree(b)
       /\ NodeAt(c, w) = rr /\ \A u \in Place : u # w => NodeAt(c, u) = NodeAt(b, u)
  <2>1. c = Put(b, w, rr)
    BY <1>12, <1>17, <1>19
  <2>2. b \in Volume /\ rr \in Node /\ w \in Block
    BY <1>9, <1>15, <1>18
  <2> QED BY <2>1, <2>2, PutNodes
<1>21. \A u \in Place : NodeAt(a, u) = NodeAt(f, u)
  BY <1>15 DEF NodeAt
<1>22. /\ p \in InTree(t) /\ p # v /\ InTree(t) \subseteq Place /\ p \in Place /\ p # w
       /\ NodeAt(t, p) \in Node
  <2>1. p \in InTree(t) /\ p # v
    BY ParentFacts
  <2>2. InTree(t) \subseteq Place /\ \A u \in Place : NodeAt(t, u) \in Node
    BY TreeFacts
  <2>3. w \notin InTree(t)
    BY <1>13, <1>15, <1>16 DEF InTree
  <2> QED BY <2>1, <2>2, <2>3
<1>23. PICK sep \in Item : sep = r.sep /\ sep.key = k /\ sep.sub = v
  <2>1. PICK z : z = [key |-> k, sub |-> v]
    OBVIOUS
  <2>2. z.key = k /\ z.sub = v /\ v \in Sub
    BY <2>1, ConstFacts
  <2>3. z \in Item
    BY <2>1, <2>2, <1>5 DEF Item
  <2> QED BY <2>1, <2>2, <2>3, <1>12
<1>24. Promoted(NodeAt(t, p), M, i, k, v, w)
  <2>1. PICK n \in Node : n = NodeAt(t, p)
    BY <1>22
  <2>2. i \in Slots(n) /\ w \in Sub /\ M = Promote(n, i, sep, w)
    BY <2>1, <1>12, <1>15, <1>23, ConstFacts
  <2>3. Promoted(n, M, i, sep.key, sep.sub, w)
    BY <2>2, PromotedFacts
  <2> QED BY <2>1, <2>3, <1>23
<1>25. M \in Node
  BY <1>24 DEF Promoted
<1>26. /\ e \in Volume /\ e.large = c.large /\ e.used = c.used /\ e.owned = c.owned /\ e.free = c.free
       /\ NodeAt(e, p) = M /\ \A u \in Place : u # p => NodeAt(e, u) = NodeAt(c, u)
  <2>1. e = NodeWith(c, p, M)
    BY <1>19
  <2> QED BY <2>1, <1>20, <1>22, <1>25, NodeWithNodes
<1>27. SplitInto(t, e, v, w, p, l, rr, M)
  <2>1. e.large = t.large /\ w \in Block \ t.used /\ e.used = t.used \cup {w}
    BY <1>13, <1>15, <1>18, <1>20, <1>26
  <2>2. e.used \subseteq 0..(e.owned - 1) /\ e.owned + e.free = t.owned + t.free
    BY <1>13, <1>15, <1>18, <1>20, <1>26
  <2>3. NodeAt(e, v) = l
    BY <1>16, <1>18, <1>20, <1>22, <1>26
  <2>4. NodeAt(e, w) = rr
    BY <1>16, <1>20, <1>22, <1>26
  <2>5. \A u \in Place \ {v, w, p} : NodeAt(e, u) = NodeAt(t, u)
    BY <1>13, <1>18, <1>20, <1>21, <1>26
  <2> QED BY <2>1, <2>2, <2>3, <2>4, <2>5, <1>26 DEF SplitInto
<1>28. StillTree(t, g, e)
  <2>1. m = NodeAt(t, v)
    BY <1>13
  <2>2. v \in t.used
    OBVIOUS
  <2> QED BY <2>1, <2>2, <1>8, <1>24, <1>27, SplitTree
<1>29. \A u \in InTree(t) : u # v => NodeAt(c, u) = NodeAt(t, u)
  <2>1. \A u \in InTree(t) : u # w /\ u \in Place
    BY <1>13, <1>15, <1>16, <1>22 DEF InTree
  <2> QED BY <2>1, <1>13, <1>18, <1>20, <1>21
<1>30. t.used \subseteq c.used
  BY <1>13, <1>15, <1>18, <1>20
<1> QED BY <1>19, <1>20, <1>28, <1>29, <1>30 DEF Stepped

=============================================================================
