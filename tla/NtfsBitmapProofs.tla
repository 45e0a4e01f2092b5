-------------------------- MODULE NtfsBitmapProofs --------------------------
(***************************************************************************)
(* What the search for free clusters computes, for every bitmap, every     *)
(* cursor and every request; and, for every volume, however often a write  *)
(* of $Bitmap fails, the allocator's types, the agreement of the disk, the *)
(* mirror and the count of free clusters, and the refinement of            *)
(* ClusterSpace.                                                           *)
(***************************************************************************)
EXTENDS NtfsBitmap, FiniteSetTheorems, WellFoundedInduction, TLAPS

(***************************************************************************)
(* The search.  The scan is a function defined by recursion on its turns;  *)
(* what it knows after each of them, ScanInv, is proved by taking the      *)
(* least turn after which it does not hold.                                *)
(***************************************************************************)

\* Every set of numbers has a least one: the form of induction used below.
LEMMA LeastNumber ==
  ASSUME NEW T \in SUBSET Nat, T # {}
  PROVE  \E x \in T : \A y \in T : x <= y
<1> DEFINE R == OpToRel(<, Nat)
<1>1. IsWellFoundedOn(R, Nat)
  BY NatLessThanWellFounded
<1>2. \E x \in T : \A y \in T : ~ (<<y, x>> \in R)
  <2> HIDE DEF R
  <2> QED BY <1>1, WFMin
<1>3. \A x, y \in Nat : y < x => <<y, x>> \in R
  BY DEF OpToRel
<1> HIDE DEF R
<1>4. PICK x \in T : \A y \in T : ~ (<<y, x>> \in R)
  BY <1>2
<1>5. \A y \in T : x <= y
  <2>1. SUFFICES ASSUME NEW y \in T, ~ x <= y PROVE FALSE
    OBVIOUS
  <2>2. x \in Nat /\ y \in Nat
    OBVIOUS
  <2>3. y < x
    BY <2>1, <2>2
  <2> QED BY <1>3, <1>4, <2>2, <2>3
<1> QED BY <1>4, <1>5

\* The recursion of Walk has a solution, so Walk is one.
LEMMA WalkDefined ==
  ASSUME NEW buf, NEW from, NEW to, NEW need, to - from \in Nat
  PROVE  LET w == Walk(buf, from, to, need)
         IN  w = [i \in 0..(to - from) |->
                   IF i = 0 THEN [bit |-> from, start |-> 0, len |-> 0, bestStart |-> 0, bestLen |-> 0]
                   ELSE Turn(buf, w[i - 1], to, need)]
<1> DEFINE A == [bit |-> from, start |-> 0, len |-> 0, bestStart |-> 0, bestLen |-> 0]
<1> DEFINE F(k, w) == [i \in 0..k |-> IF i = 0 THEN A ELSE Turn(buf, w[i - 1], to, need)]
<1> DEFINE n == to - from
<1>1. \A k \in Nat : \E w : w = F(k, w)
  <2> DEFINE Bad == {k \in Nat : ~ \E w : w = F(k, w)}
  <2>1. SUFFICES ASSUME Bad # {} PROVE FALSE
    OBVIOUS
  <2>2. PICK k \in Bad : \A m \in Bad : k <= m
    BY <2>1, LeastNumber
  <2>3. k # 0
    <3> DEFINE w == [i \in 0..0 |-> A]
    <3>1. w = F(0, w)
      OBVIOUS
    <3> QED BY <3>1, <2>2
  <2>4. k \in Nat /\ k - 1 \in Nat /\ k - 1 \notin Bad
    <3>1. k \in Nat
      BY <2>2
    <3>2. k - 1 \in Nat /\ ~ k <= k - 1
      BY <3>1, <2>3
    <3> HIDE DEF Bad
    <3> QED BY <2>2, <3>1, <3>2
  <2>5. PICK v : v = F(k - 1, v)
    BY <2>4
  <2> DEFINE w == [i \in 0..k |-> IF i < k THEN v[i] ELSE Turn(buf, v[k - 1], to, need)]
  <2>6. \A i \in 0..(k - 1) : v[i] = IF i = 0 THEN A ELSE Turn(buf, v[i - 1], to, need)
    BY <2>5
  <2>7. \A i \in 0..k : w[i] = IF i = 0 THEN A ELSE Turn(buf, w[i - 1], to, need)
    <3>1. \A i \in 0..k : i < k => w[i] = v[i] /\ i \in 0..(k - 1)
      BY <2>4
    <3>2. w[k] = Turn(buf, v[k - 1], to, need)
      BY <2>4
    <3>3. k - 1 \in 0..k /\ k - 1 < k
      BY <2>3, <2>4
    <3> HIDE DEF w, A
    <3> SUFFICES ASSUME NEW i \in 0..k
                 PROVE  w[i] = IF i = 0 THEN A ELSE Turn(buf, w[i - 1], to, need)
      OBVIOUS
    <3>4. CASE i = k
      BY <3>1, <3>2, <3>3, <2>3, <3>4
    <3>5. CASE i < k
      <4>1. i = 0 \/ (i - 1 \in 0..k /\ i - 1 < k)
        BY <3>5, <2>4
      <4> QED BY <3>1, <2>6, <3>5, <4>1
    <3> QED BY <3>4, <3>5, <2>4
  <2>8. w = F(k, w)
    <3>1. w = [i \in 0..k |-> w[i]]
      OBVIOUS
    <3> HIDE DEF w, A
    <3> QED BY <3>1, <2>7
  <2> QED BY <2>2, <2>8
<1>2. PICK u : u = F(n, u)
  BY <1>1
<1>3. Walk(buf, from, to, need) = CHOOSE w : w = F(n, w)
  BY DEF Walk
<1> HIDE DEF F, n
<1>4. (CHOOSE w : w = F(n, w)) = F(n, CHOOSE w : w = F(n, w))
  BY <1>2
<1>5. Walk(buf, from, to, need) = F(n, Walk(buf, from, to, need))
  BY <1>3, <1>4
<1> QED BY <1>5 DEF F, n

\* A bounded set of numbers has a greatest one, so SkipOnes chooses one.
LEMMA GreatestNumber ==
  ASSUME NEW a \in Nat, NEW b \in Nat, NEW T \in SUBSET (a..b), T # {}
  PROVE  \E x \in T : \A y \in T : y <= x
<1> DEFINE D == {m \in Nat : b - m \in T}
<1>1. D # {}
  <2>1. PICK y \in T : TRUE
    OBVIOUS
  <2>2. y \in Nat /\ b - y \in Nat /\ b - (b - y) = y
    OBVIOUS
  <2> QED BY <2>1, <2>2
<1>2. PICK d \in D : \A m \in D : d <= m
  BY <1>1, LeastNumber
<1>3. ASSUME NEW y \in T PROVE y <= b - d
  <2>1. y \in Nat /\ b - y \in Nat /\ b - (b - y) = y
    OBVIOUS
  <2>2. b - y \in D
    BY <2>1
  <2>3. d \in Nat /\ d <= b - y
    BY <1>2, <2>2
  <2> QED BY <2>1, <2>3
<1> QED BY <1>2, <1>3

\* What the scan passes over is used.
LEMMA SkipOnesPasses ==
  ASSUME NEW buf, NEW bit \in Nat, NEW to \in Nat, bit <= to, NEW k \in Nat \ {0}
  PROVE  /\ SkipOnes(buf, bit, to, k) \in bit..to
         /\ bit..(SkipOnes(buf, bit, to, k) - 1) \subseteq buf
<1> DEFINE Ahead(n) == n = bit \/ (n <= to /\ (n - bit) % k = 0 /\ bit..(n - 1) \subseteq buf)
<1> DEFINE Passed == {n \in bit..to : Ahead(n)}
<1>1. bit \in Passed
  OBVIOUS
<1>2. \E n \in Passed : \A m \in Passed : m <= n
  BY <1>1, GreatestNumber
<1>3. \E n \in bit..to : Ahead(n) /\ \A m \in bit..to : Ahead(m) => m <= n
  BY <1>2
<1>4. SkipOnes(buf, bit, to, k) = CHOOSE n \in bit..to : Ahead(n) /\ \A m \in bit..to : Ahead(m) => m <= n
  BY DEF SkipOnes
<1> HIDE DEF Ahead
<1>5. SkipOnes(buf, bit, to, k) \in bit..to /\ Ahead(SkipOnes(buf, bit, to, k))
  BY <1>3, <1>4
<1> QED BY <1>5 DEF Ahead

\* Words first, then bytes; and never while a free run is open.
LEMMA SkipPasses ==
  ASSUME NEW buf, NEW s, NEW to \in Nat, s.bit \in Nat, s.bit <= to
  PROVE  /\ Skip(buf, s, to) \in s.bit..to
         /\ s.bit..(Skip(buf, s, to) - 1) \subseteq buf
         /\ s.len # 0 => Skip(buf, s, to) = s.bit
<1>1. CASE s.len = 0 /\ s.bit % ByteBits = 0
  <2> DEFINE w == WordBytes * ByteBits
  <2>1. w \in Nat \ {0} /\ ByteBits \in Nat \ {0}
    BY SizeAssumption
  <2> DEFINE b == SkipOnes(buf, s.bit, to, w)
  <2> HIDE DEF w
  <2>2. b \in s.bit..to /\ s.bit..(b - 1) \subseteq buf
    BY <2>1, SkipOnesPasses
  <2>3. Skip(buf, s, to) = SkipOnes(buf, b, to, ByteBits)
    BY <1>1 DEF Skip, w
  <2> HIDE DEF b
  <2>4. b \in Nat /\ b <= to
    BY <2>2
  <2>5. SkipOnes(buf, b, to, ByteBits) \in b..to /\ b..(SkipOnes(buf, b, to, ByteBits) - 1) \subseteq buf
    BY <2>1, <2>4, SkipOnesPasses
  <2> QED BY <1>1, <2>2, <2>3, <2>4, <2>5
<1>2. CASE ~(s.len = 0 /\ s.bit % ByteBits = 0)
  BY <1>2 DEF Skip
<1> QED BY <1>1, <1>2

ScanRec == [bit : Nat, start : Nat, len : Nat, bestStart : Nat, bestLen : Nat]

\* Where the open run begins, or the next one.
Opens(s) == IF s.len > 0 THEN s.start ELSE s.bit

\* What the scan knows after any number of turns.
ScanInv(buf, from, to, need, s) ==
  /\ s \in ScanRec
  /\ from <= s.bit /\ s.bit <= to /\ s.len <= need /\ s.bestLen < need
  /\ from <= Opens(s) /\ Opens(s) + s.len = s.bit
  /\ \A c \in Opens(s)..(s.bit - 1) : c \notin buf
  /\ from < Opens(s) => Opens(s) - 1 \in buf
  /\ s.bestLen > 0 => from <= s.bestStart /\ s.bestStart + s.bestLen <= s.bit
  /\ \A c \in s.bestStart..(s.bestStart + s.bestLen - 1) : c \notin buf
  /\ \A p, k \in Nat :
       /\ from <= p /\ p + k <= s.bit
       /\ \A c \in p..(p + k - 1) : c \notin buf
       => k <= s.bestLen \/ Opens(s) <= p

\* The loop ends: enough is found, or only ones are left.
Stopped(buf, to, need, s) == s.len >= need \/ Skip(buf, s, to) >= to

\* A turn keeps what the scan knows, and moves on unless it is over.
LEMMA TurnKeeps ==
  ASSUME NEW buf, NEW from \in Nat, NEW to \in Nat, NEW need \in Nat \ {0},
         NEW s, ScanInv(buf, from, to, need, s)
  PROVE  LET t == Turn(buf, s, to, need)
         IN  /\ ScanInv(buf, from, to, need, t)
             /\ Stopped(buf, to, need, s) => t = s
             /\ ~Stopped(buf, to, need, s) => t.bit > s.bit
<1> DEFINE b == Skip(buf, s, to)
<1> DEFINE t == Turn(buf, s, to, need)
<1>0. s \in ScanRec /\ s.bit \in Nat /\ s.start \in Nat /\ s.len \in Nat /\ s.bestStart \in Nat /\ s.bestLen \in Nat
      /\ s.bit <= to /\ Opens(s) \in Nat
  BY DEF ScanInv, ScanRec, Opens
<1>1. /\ b \in s.bit..to
      /\ s.bit..(b - 1) \subseteq buf
      /\ s.len # 0 => b = s.bit
  BY <1>0, SkipPasses
<1>2. CASE Stopped(buf, to, need, s)
  BY <1>2 DEF Stopped, Turn
<1>3. CASE ~Stopped(buf, to, need, s) /\ b \in buf
  <2>1. t = [CloseRun(s) EXCEPT !.bit = b + 1]
    BY <1>3 DEF Stopped, Turn
  <2>2. s.len < need /\ b < to /\ b \in Nat
    BY <1>0, <1>1, <1>3 DEF Stopped
  <2> HIDE DEF b, t
  <2>3. /\ t = [bit |-> b + 1, start |-> s.start, len |-> 0,
                bestStart |-> IF s.len > s.bestLen THEN s.start ELSE s.bestStart,
                bestLen |-> IF s.len > s.bestLen THEN s.len ELSE s.bestLen]
    BY <1>0, <2>1 DEF CloseRun, Longest, ScanRec
  <2>4. t \in ScanRec /\ t.bit = b + 1 /\ t.len = 0 /\ Opens(t) = b + 1
    BY <1>0, <2>2, <2>3 DEF ScanRec, Opens
  <2>5. ASSUME NEW p \in Nat, NEW k \in Nat, from <= p, p + k <= t.bit,
               \A c \in p..(p + k - 1) : c \notin buf
        PROVE  k <= t.bestLen \/ Opens(t) <= p
    <3>1. CASE k = 0
      BY <3>1, <2>3, <1>0
    <3>2. CASE k > 0 /\ p + k <= s.bit
      <4>1. k <= s.bestLen \/ Opens(s) <= p
        BY <2>5, <3>2, <1>0 DEF ScanInv
      <4>2. Opens(s) + s.len = s.bit
        BY DEF ScanInv
      <4>3. k <= s.bestLen \/ k <= s.len
        BY <4>1, <4>2, <3>2, <1>0
      <4> QED BY <4>3, <2>3, <1>0
    <3>3. CASE k > 0 /\ p + k > s.bit
      <4>1. p + k - 1 \in s.bit..b
        BY <3>3, <2>4, <2>5, <1>0, <2>2
      <4>2. p + k - 1 \in buf
        BY <4>1, <1>1, <1>3, <1>0, <2>2
      <4> QED BY <4>2, <2>5, <3>3
    <3> QED BY <3>1, <3>2, <3>3, <1>0
  <2>6. /\ from <= t.bit /\ t.bit <= to /\ t.len <= need /\ t.bestLen < need
        /\ from <= Opens(t) /\ Opens(t) + t.len = t.bit
        /\ \A c \in Opens(t)..(t.bit - 1) : c \notin buf
    BY <1>0, <1>1, <2>2, <2>3, <2>4 DEF ScanInv
  <2>7. Opens(t) - 1 \in buf
    BY <2>4, <1>3, <2>2
  <2>8. /\ t.bestLen > 0 => from <= t.bestStart /\ t.bestStart + t.bestLen <= t.bit
        /\ \A c \in t.bestStart..(t.bestStart + t.bestLen - 1) : c \notin buf
    <3>1. CASE s.len > s.bestLen
      <4>1. t.bestStart = s.start /\ t.bestLen = s.len /\ Opens(s) = s.start
        BY <3>1, <2>3, <1>0 DEF Opens
      <4>2. /\ from <= s.start /\ s.start + s.len = s.bit
            /\ \A c \in s.start..(s.bit - 1) : c \notin buf
        BY <4>1 DEF ScanInv
      <4> QED BY <4>1, <4>2, <2>4, <1>0, <1>1
    <3>2. CASE ~(s.len > s.bestLen)
      <4>1. t.bestStart = s.bestStart /\ t.bestLen = s.bestLen
        BY <3>2, <2>3, <1>0
      <4>2. /\ s.bestLen > 0 => from <= s.bestStart /\ s.bestStart + s.bestLen <= s.bit
            /\ \A c \in s.bestStart..(s.bestStart + s.bestLen - 1) : c \notin buf
        BY DEF ScanInv
      <4> QED BY <4>1, <4>2, <2>4, <1>0, <1>1
    <3> QED BY <3>1, <3>2
  <2>9. ScanInv(buf, from, to, need, t)
    BY <2>4, <2>5, <2>6, <2>7, <2>8 DEF ScanInv
  <2> QED BY <2>9, <2>4, <1>1, <1>0, <1>3 DEF t
<1>4. CASE ~Stopped(buf, to, need, s) /\ b \notin buf
  <2>1. t = [s EXCEPT !.bit = b + 1, !.len = s.len + 1, !.start = IF s.len = 0 THEN b ELSE s.start]
    BY <1>4 DEF Stopped, Turn
  <2>2. s.len < need /\ b < to /\ b \in Nat
    BY <1>0, <1>1, <1>4 DEF Stopped
  <2> HIDE DEF b, t
  <2>3. t = [bit |-> b + 1, start |-> IF s.len = 0 THEN b ELSE s.start, len |-> s.len + 1,
             bestStart |-> s.bestStart, bestLen |-> s.bestLen]
    BY <1>0, <2>1 DEF ScanRec
  <2>4. t \in ScanRec /\ t.bit = b + 1 /\ t.len = s.len + 1 /\ t.bestStart = s.bestStart /\ t.bestLen = s.bestLen
    BY <1>0, <2>2, <2>3 DEF ScanRec
  <2>5. Opens(t) = IF s.len = 0 THEN b ELSE Opens(s)
    BY <1>0, <2>2, <2>3 DEF Opens
  <2>6. from <= Opens(t) /\ Opens(t) + t.len = t.bit
    <3>1. from <= s.bit /\ from <= Opens(s) /\ Opens(s) + s.len = s.bit
      BY DEF ScanInv
    <3> QED BY <3>1, <1>0, <1>1, <2>2, <2>4, <2>5
  <2>7. \A c \in Opens(t)..(t.bit - 1) : c \notin buf
    <3>1. CASE s.len = 0
      <4>1. \A c \in b..b : c = b
        BY <2>2
      <4> QED BY <3>1, <2>4, <2>5, <1>4, <4>1, <2>2
    <3>2. CASE s.len # 0
      <4>1. b = s.bit /\ \A c \in Opens(s)..(b - 1) : c \notin buf
        BY <3>2, <1>1 DEF ScanInv
      <4>2. \A c \in Opens(s)..b : c = b \/ c \in Opens(s)..(b - 1)
        BY <2>2, <1>0
      <4> QED BY <3>2, <4>1, <4>2, <2>4, <2>5, <1>4, <2>2
    <3> QED BY <3>1, <3>2
  <2>8. from < Opens(t) => Opens(t) - 1 \in buf
    <3>1. CASE s.len = 0
      <4>1. Opens(s) = s.bit /\ Opens(t) = b
        BY <3>1, <2>5, <1>0 DEF Opens
      <4>2. from < s.bit => s.bit - 1 \in buf
        BY <4>1 DEF ScanInv
      <4>3. s.bit < b => b - 1 \in buf
        BY <1>1, <1>0, <2>2
      <4> QED BY <4>1, <4>2, <4>3, <1>1, <1>0, <2>2
    <3>2. CASE s.len # 0
      BY <3>2, <2>5 DEF ScanInv
    <3> QED BY <3>1, <3>2
  <2>9. ASSUME NEW p \in Nat, NEW k \in Nat, from <= p, p + k <= t.bit,
               \A c \in p..(p + k - 1) : c \notin buf
        PROVE  k <= t.bestLen \/ Opens(t) <= p
    <3>1. CASE k = 0
      BY <3>1, <2>4, <1>0
    <3>2. CASE k > 0 /\ p < Opens(t) /\ p + k > Opens(t)
      <4>1. Opens(t) \in Nat /\ from < Opens(t)
        BY <3>2, <2>9, <2>5, <1>0, <2>2
      <4>2. Opens(t) - 1 \in p..(p + k - 1)
        BY <4>1, <3>2
      <4> QED BY <4>1, <4>2, <2>8, <2>9
    <3>3. CASE k > 0 /\ p < Opens(t) /\ p + k <= Opens(t)
      <4>1. CASE p + k <= s.bit
        <5>1. k <= s.bestLen \/ Opens(s) <= p
          BY <2>9, <4>1 DEF ScanInv
        <5>2. Opens(s) <= p => s.len = 0
          BY <3>3, <2>5, <1>0
        <5>3. Opens(s) <= p => FALSE
          BY <5>2, <4>1, <3>3, <1>0 DEF Opens
        <5> QED BY <5>1, <5>3, <2>4
      <4>2. CASE p + k > s.bit
        <5>1. s.len = 0 /\ Opens(t) = b
          BY <4>2, <3>3, <2>5, <1>0 DEF ScanInv
        <5>2. p + k - 1 \in s.bit..(b - 1)
          BY <5>1, <4>2, <3>3, <1>0, <2>2
        <5> QED BY <5>2, <1>1, <2>9, <3>3
      <4> QED BY <4>1, <4>2, <1>0
    <3>4. Opens(t) \in Nat
      BY <2>5, <1>0, <2>2
    <3> QED BY <3>1, <3>2, <3>3, <3>4
  <2>10. /\ from <= t.bit /\ t.bit <= to /\ t.len <= need /\ t.bestLen < need
         /\ t.bestLen > 0 => from <= t.bestStart /\ t.bestStart + t.bestLen <= t.bit
         /\ \A c \in t.bestStart..(t.bestStart + t.bestLen - 1) : c \notin buf
    BY <1>0, <1>1, <2>2, <2>4 DEF ScanInv
  <2>11. ScanInv(buf, from, to, need, t)
    BY <2>4, <2>6, <2>7, <2>8, <2>9, <2>10 DEF ScanInv
  <2> QED BY <2>11, <2>4, <1>1, <1>0, <1>4 DEF t
<1> QED BY <1>2, <1>3, <1>4

\* As many turns as there are bits end the scan.
LEMMA WalkKeeps ==
  ASSUME NEW buf, NEW from \in Nat, NEW to \in Nat, from <= to, NEW need \in Nat \ {0}
  PROVE  LET s == Walk(buf, from, to, need)[to - from]
         IN  /\ ScanInv(buf, from, to, need, s)
             /\ s.bit = to \/ Stopped(buf, to, need, s)
<1> DEFINE n == to - from
<1> DEFINE w == Walk(buf, from, to, need)
<1> DEFINE A == [bit |-> from, start |-> 0, len |-> 0, bestStart |-> 0, bestLen |-> 0]
<1> DEFINE Holds(i) == /\ ScanInv(buf, from, to, need, w[i])
                       /\ from + i <= w[i].bit \/ Stopped(buf, to, need, w[i])
<1>1. n \in Nat
  OBVIOUS
<1>2. w = [i \in 0..n |-> IF i = 0 THEN A ELSE Turn(buf, w[i - 1], to, need)]
  BY <1>1, WalkDefined
<1> HIDE DEF w
<1>3. w[0] = A /\ \A i \in 1..n : w[i] = Turn(buf, w[i - 1], to, need)
  <2>1. \A i \in 0..n : w[i] = IF i = 0 THEN A ELSE Turn(buf, w[i - 1], to, need)
    <3> HIDE DEF A
    <3> QED BY <1>2
  <2> HIDE DEF A
  <2> QED BY <2>1, <1>1
<1>4. Holds(0)
  <2>1. /\ w[0].bit = from /\ w[0].len = 0 /\ w[0].bestLen = 0 /\ w[0].bestStart = 0
        /\ w[0] \in ScanRec /\ Opens(w[0]) = from
    BY <1>3 DEF ScanRec, Opens
  <2>2. \A p, k \in Nat : from <= p => k <= 0 \/ from <= p
    OBVIOUS
  <2> QED BY <2>1 DEF ScanInv
<1>5. \A i \in 1..n : Holds(i - 1) => Holds(i)
  <2> SUFFICES ASSUME NEW i \in 1..n, Holds(i - 1) PROVE Holds(i)
    OBVIOUS
  <2> DEFINE s == w[i - 1]
  <2> DEFINE t == Turn(buf, s, to, need)
  <2>1. w[i] = t
    BY <1>3
  <2>2. ScanInv(buf, from, to, need, s) /\ (from + (i - 1) <= s.bit \/ Stopped(buf, to, need, s))
    OBVIOUS
  <2> HIDE DEF s
  <2>3. /\ ScanInv(buf, from, to, need, t)
        /\ Stopped(buf, to, need, s) => t = s
        /\ ~Stopped(buf, to, need, s) => t.bit > s.bit
    BY <2>2, TurnKeeps
  <2>4. s.bit \in Nat /\ t.bit \in Nat
    BY <2>2, <2>3 DEF ScanInv, ScanRec
  <2> HIDE DEF t
  <2>5. from + i <= t.bit \/ Stopped(buf, to, need, t)
    BY <2>2, <2>3, <2>4
  <2> QED BY <2>1, <2>3, <2>5
<1>6. \A i \in 0..n : Holds(i)
  <2> DEFINE Bad == {i \in Nat : i <= n /\ ~Holds(i)}
  <2> HIDE DEF Holds
  <2>1. SUFFICES ASSUME Bad # {} PROVE FALSE
    BY <1>1
  <2>2. PICK k \in Bad : \A m \in Bad : k <= m
    BY <2>1, LeastNumber
  <2>3. k \in 1..n
    BY <2>2, <1>4, <1>1
  <2>4. k - 1 \in Nat /\ k - 1 <= n /\ ~ k <= k - 1
    BY <2>3, <1>1
  <2>5. Holds(k - 1)
    BY <2>2, <2>4
  <2> QED BY <1>5, <2>2, <2>3, <2>5
<1>7. Holds(n)
  BY <1>6, <1>1
<1>8. w[n].bit \in Nat /\ w[n].bit <= to
  BY <1>7 DEF ScanInv, ScanRec
<1> QED BY <1>7, <1>8, <1>1 DEF w

\* k clusters from p on are free.
Clear(buf, p, k) == \A c \in p..(p + k - 1) : c \notin buf

\* Fits in terms of numbers.
LEMMA FitsClear ==
  ASSUME NEW buf, NEW from \in Nat, NEW to \in Nat, NEW k \in Nat
  PROVE  Fits(buf, from, to, k) <=> \E p \in Nat : from <= p /\ p + k <= to /\ Clear(buf, p, k)
<1>1. \A p : Run(p, k) \cap buf = {} <=> Clear(buf, p, k)
  BY DEF Run, Clear
<1>2. \A p : p \in from..(to - k) <=> p \in Nat /\ from <= p /\ p + k <= to
  OBVIOUS
<1> QED BY <1>1, <1>2 DEF Fits

\* What a scan finds, wherever it starts and ends: a run of free clusters in
\* the range, no longer than asked; if it is shorter there is none longer, and
\* if not there is none before it.
LEMMA ScanFinds ==
  ASSUME NEW buf, NEW from \in Nat, NEW to \in Nat, from <= to, NEW need \in Nat \ {0}
  PROVE  LET r == Scan(buf, from, to, need)
         IN  /\ r.start \in Nat /\ r.len \in 0..need
             /\ r.len > 0 => from <= r.start /\ r.start + r.len <= to
             /\ Clear(buf, r.start, r.len)
             /\ r.len < need => ~Fits(buf, from, to, r.len + 1)
             /\ r.len = need => ~Fits(buf, from, r.start + need - 1, need)
<1> DEFINE s == Walk(buf, from, to, need)[to - from]
<1> DEFINE r == Scan(buf, from, to, need)
<1>1. ScanInv(buf, from, to, need, s) /\ (s.bit = to \/ Stopped(buf, to, need, s))
  BY WalkKeeps
<1>2. r = [start |-> Longest(s).bestStart, len |-> Longest(s).bestLen]
  BY DEF Scan
<1> HIDE DEF s, r
<1>3. /\ s \in ScanRec /\ s.bit \in Nat /\ s.start \in Nat /\ s.len \in Nat /\ s.bestStart \in Nat
      /\ s.bestLen \in Nat /\ s.bit <= to /\ from <= s.bit /\ s.len <= need /\ s.bestLen < need
      /\ Opens(s) + s.len = s.bit /\ from <= Opens(s)
      /\ Opens(s) = IF s.len > 0 THEN s.start ELSE s.bit
  BY <1>1 DEF ScanInv, ScanRec, Opens
<1>4. /\ r.start = IF s.len > s.bestLen THEN s.start ELSE s.bestStart
      /\ r.len = IF s.len > s.bestLen THEN s.len ELSE s.bestLen
  BY <1>2, <1>3 DEF Longest, ScanRec
<1>5. /\ r.start \in Nat /\ r.len \in 0..need
      /\ r.len > 0 => from <= r.start /\ r.start + r.len <= to
  BY <1>1, <1>3, <1>4 DEF ScanInv
<1>6. Clear(buf, r.start, r.len)
  <2>1. CASE s.len > s.bestLen
    <3>1. r.start = Opens(s) /\ r.len = s.len /\ r.start + r.len = s.bit
      BY <2>1, <1>3, <1>4
    <3>2. \A c \in Opens(s)..(s.bit - 1) : c \notin buf
      BY <1>1 DEF ScanInv
    <3>3. r.start..(r.start + r.len - 1) = Opens(s)..(s.bit - 1)
      BY <3>1, <1>3, <1>5
    <3> QED BY <3>2, <3>3 DEF Clear
  <2>2. CASE ~(s.len > s.bestLen)
    BY <2>2, <1>1, <1>4 DEF ScanInv, Clear
  <2> QED BY <2>1, <2>2
<1>7. ASSUME NEW p \in Nat, NEW k \in Nat, from <= p, p + k <= s.bit, Clear(buf, p, k)
      PROVE  k <= s.bestLen \/ Opens(s) <= p
  BY <1>1, <1>7 DEF ScanInv, Clear
<1>8. ASSUME r.len < need PROVE ~Fits(buf, from, to, r.len + 1)
  <2>1. s.len < need
    BY <1>8, <1>3, <1>4, <1>5
  <2>2. s.bit = to \/ Skip(buf, s, to) >= to
    BY <1>1, <2>1, <1>3 DEF Stopped
  <2>3. /\ Skip(buf, s, to) \in s.bit..to
        /\ s.bit..(Skip(buf, s, to) - 1) \subseteq buf
    BY <1>3, SkipPasses
  <2>4. \A c \in s.bit..(to - 1) : c \in buf
    <3>1. CASE s.bit = to
      BY <3>1, <1>3
    <3>2. CASE Skip(buf, s, to) >= to
      <4>1. Skip(buf, s, to) = to
        BY <3>2, <2>3, <1>3
      <4> QED BY <4>1, <2>3
    <3> QED BY <2>2, <3>1, <3>2
  <2>5. SUFFICES ASSUME NEW p \in Nat, from <= p, p + (r.len + 1) <= to, Clear(buf, p, r.len + 1)
                 PROVE  FALSE
    <3>1. r.len + 1 \in Nat
      BY <1>5
    <3> QED BY <3>1, FitsClear
  <2>6. CASE p + (r.len + 1) <= s.bit
    <3>1. r.len + 1 <= s.bestLen \/ Opens(s) <= p
      BY <1>7, <1>5, <2>5, <2>6
    <3> QED BY <3>1, <2>6, <1>3, <1>4, <1>5
  <2>7. CASE ~(p + (r.len + 1) <= s.bit)
    <3>1. p + r.len \in s.bit..(to - 1)
      BY <2>7, <2>5, <1>3, <1>5
    <3>2. p + r.len \in p..(p + (r.len + 1) - 1)
      BY <1>5
    <3> QED BY <3>1, <3>2, <2>4, <2>5 DEF Clear
  <2> QED BY <2>6, <2>7
<1>9. ASSUME r.len = need PROVE ~Fits(buf, from, r.start + need - 1, need)
  <2>1. s.len = need /\ r.start = Opens(s) /\ r.start + need = s.bit
    BY <1>9, <1>3, <1>4
  <2>2. r.start + need - 1 \in Nat
    BY <1>5
  <2>3. SUFFICES ASSUME NEW p \in Nat, from <= p, p + need <= r.start + need - 1, Clear(buf, p, need)
                 PROVE  FALSE
    BY <2>2, FitsClear
  <2>4. need <= s.bestLen \/ Opens(s) <= p
    BY <1>7, <2>1, <2>3, <1>5
  <2> QED BY <2>1, <2>3, <2>4, <1>3, <1>5
<1> QED BY <1>5, <1>6, <1>8, <1>9 DEF r

\* Where a run fits a shorter one does.
LEMMA FitsShorter ==
  ASSUME NEW buf, NEW from \in Nat, NEW to \in Nat, NEW k \in Nat, NEW m \in Nat, k <= m,
         Fits(buf, from, to, m)
  PROVE  Fits(buf, from, to, k)
<1>1. PICK p \in Nat : from <= p /\ p + m <= to /\ Clear(buf, p, m)
  BY FitsClear
<1>2. p + k <= to /\ Clear(buf, p, k)
  BY <1>1 DEF Clear
<1> QED BY <1>1, <1>2, FitsClear

\* Clusters are the numbers below Total.
LEMMA TotalIsNat == Total \in Nat /\ Cluster \subseteq Nat /\ \A c \in Nat : c \in Cluster <=> c < Total
<1>1. Bytes \in Nat /\ ByteBits \in Nat
  BY SizeAssumption
<1>2. Total \in Nat
  BY <1>1 DEF Total
<1> QED BY <1>2 DEF Cluster

\* What the search from the cursor finds.
LEMMA SearchFinds ==
  ASSUME NEW buf, NEW need \in Nat \ {0}, hint \in 0..Total
  PROVE  LET r == Search(buf, need)
         IN  /\ r.start \in Nat /\ r.len \in 0..need
             /\ r.len > 0 => r.start + r.len <= Total
             /\ Clear(buf, r.start, r.len)
             /\ r.len < need => /\ ~Fits(buf, hint, Total, r.len + 1)
                                /\ ~Fits(buf, 0, hint, r.len + 1)
             /\ r.len = need => ~Fits(buf, IF r.start < hint THEN 0 ELSE hint,
                                      r.start + need - 1, need)
<1> DEFINE from == IF hint >= Total THEN 0 ELSE hint
<1> DEFINE high == Scan(buf, from, Total, need)
<1> DEFINE low  == Scan(buf, 0, from, need)
<1> DEFINE r    == Search(buf, need)
<1>1. Total \in Nat /\ from \in Nat /\ from <= Total /\ hint \in Nat /\ hint <= Total
  BY TotalIsNat
<1>2. r = IF high.len < need /\ low.len > high.len THEN low ELSE high
  BY DEF Search
<1>3. /\ high.start \in Nat /\ high.len \in 0..need
      /\ high.len > 0 => from <= high.start /\ high.start + high.len <= Total
      /\ Clear(buf, high.start, high.len)
      /\ high.len < need => ~Fits(buf, from, Total, high.len + 1)
      /\ high.len = need => ~Fits(buf, from, high.start + need - 1, need)
  <2> HIDE DEF from
  <2> QED BY <1>1, ScanFinds
<1>4. /\ low.start \in Nat /\ low.len \in 0..need
      /\ low.len > 0 => low.start + low.len <= from
      /\ Clear(buf, low.start, low.len)
      /\ low.len < need => ~Fits(buf, 0, from, low.len + 1)
      /\ low.len = need => ~Fits(buf, 0, low.start + need - 1, need)
  <2> HIDE DEF from
  <2> QED BY <1>1, ScanFinds
<1> HIDE DEF high, low, r
<1>5. CASE hint = Total
  <2>1. from = 0
    BY <1>5
  <2>2. low.len = 0
    BY <1>4, <2>1
  <2>3. r = high
    BY <1>2, <1>3, <2>2
  <2>4. ~Fits(buf, hint, Total, r.len + 1)
    <3>1. r.len + 1 \in Nat
      BY <1>3, <2>3
    <3>2. \A p \in Nat : ~(hint <= p /\ p + (r.len + 1) <= Total)
      BY <3>1, <1>1, <1>5, <1>3, <2>3
    <3> QED BY <3>1, <3>2, <1>1, FitsClear
  <2>5. r.len = need => r.start < hint
    BY <1>3, <2>3, <1>5
  <2> QED BY <1>3, <1>5, <2>1, <2>3, <2>4, <2>5 DEF r
<1>6. CASE hint < Total
  <2>1. from = hint
    BY <1>6, <1>1
  <2> HIDE DEF from
  <2>2. CASE high.len < need /\ low.len > high.len
    <3>1. r = low
      BY <1>2, <2>2
    <3>2. high.len + 1 \in Nat /\ low.len + 1 \in Nat /\ high.len + 1 <= low.len + 1
      BY <1>3, <1>4, <2>2
    <3>3. ~Fits(buf, hint, Total, low.len + 1)
      BY <3>2, <1>1, <1>3, <2>1, <2>2, FitsShorter
    <3>4. low.len > 0 /\ low.start < hint
      BY <1>3, <1>4, <1>1, <2>1, <2>2
    <3> QED BY <1>1, <1>4, <2>1, <3>1, <3>3, <3>4 DEF r
  <2>3. CASE ~(high.len < need /\ low.len > high.len)
    <3>1. r = high
      BY <1>2, <2>3
    <3>2. ASSUME high.len < need PROVE ~Fits(buf, 0, hint, high.len + 1)
      <4>1. high.len + 1 \in Nat /\ low.len + 1 \in Nat /\ low.len + 1 <= high.len + 1 /\ low.len < need
        BY <1>3, <1>4, <2>3, <3>2
      <4> QED BY <4>1, <1>1, <1>4, <2>1, FitsShorter
    <3>3. high.len = need => ~(high.start < hint)
      BY <1>3, <1>1, <2>1
    <3> QED BY <1>3, <2>1, <3>1, <3>2, <3>3 DEF r
  <2> QED BY <2>2, <2>3
<1> QED BY <1>1, <1>5, <1>6

(***************************************************************************)
(* The allocator                                                           *)
(***************************************************************************)

\* The byte of a cluster grows with the cluster.
LEMMA ByteOrder ==
  ASSUME NEW a \in Nat, NEW b \in Nat, a <= b
  PROVE  a \div ByteBits \in Nat /\ b \div ByteBits \in Nat /\ a \div ByteBits <= b \div ByteBits
<1> DEFINE B == ByteBits
           p == a \div B
           q == b \div B
<1>1. B \in Nat /\ B > 0
  BY SizeAssumption
<1> HIDE DEF B
<1>2. p \in Nat /\ B * p <= a /\ q \in Nat /\ b < B * q + B
  BY <1>1, SMTT(30)
<1> HIDE DEF p, q
<1>3. p <= q
  <2>1. SUFFICES ASSUME p >= q + 1 PROVE FALSE
    BY <1>2
  <2>2. B * p >= B * (q + 1)
    BY <2>1, <1>1, <1>2, SMTT(30)
  <2>3. B * (q + 1) = B * q + B /\ B * q \in Nat /\ B * p \in Nat
    BY <1>1, <1>2, SMTT(30)
  <2>4. B * p <= a /\ b < B * q + B
    BY <1>2
  <2> QED BY <2>2, <2>3, <2>4, <1>1, <1>2
<1> QED BY <1>2, <1>3 DEF p, q, B

\* A write of the bytes of a run stays on the bitmap, and if it does not fail
\* the disk has all of the new bits.
LEMMA WriteStores ==
  ASSUME TypeOK, NEW new \in SUBSET Cluster, NEW first \in Cluster, NEW last \in Cluster,
         WriteSlice(new, first, last)
  PROVE  /\ disk' \in SUBSET Cluster /\ faults' \in 0..MaxFaults /\ faults <= faults'
         /\ /\ faults' = faults
            /\ \A c \in Cluster : c < first \/ last < c => (c \in new <=> c \in disk)
            => disk' = new
<1>1. disk \subseteq Cluster /\ faults \in 0..MaxFaults /\ MaxFaults \in Nat
  BY SizeAssumption DEF TypeOK
<1>2. \A a, b : Overlay(new, a, b) \subseteq Cluster
  BY <1>1 DEF Overlay
<1>3. CASE disk' = Overlay(new, first \div ByteBits, last \div ByteBits + 1) /\ UNCHANGED faults
  <2>1. ASSUME NEW c \in Cluster, first <= c, c <= last
        PROVE  first \div ByteBits <= c \div ByteBits /\ c \div ByteBits < last \div ByteBits + 1
    <3>1. first \in Nat /\ last \in Nat /\ c \in Nat
      BY TotalIsNat
    <3>2. /\ first \div ByteBits \in Nat /\ c \div ByteBits \in Nat /\ last \div ByteBits \in Nat
          /\ first \div ByteBits <= c \div ByteBits /\ c \div ByteBits <= last \div ByteBits
      BY <3>1, <2>1, ByteOrder
    <3> QED BY <3>2
  <2>2. \A c \in Cluster : c < first \/ last < c \/ (first <= c /\ c <= last)
    BY TotalIsNat
  <2>3. ASSUME \A c \in Cluster : c < first \/ last < c => (c \in new <=> c \in disk)
        PROVE  disk' = new
    BY <1>1, <1>3, <2>1, <2>2, <2>3 DEF Overlay
  <2> QED BY <1>1, <1>2, <1>3, <2>3
<1>4. CASE /\ faults < MaxFaults /\ faults' = faults + 1
           /\ \E failed \in (first \div ByteBits)..(last \div ByteBits) :
                disk' = Overlay(new, first \div ByteBits, failed)
  BY <1>1, <1>2, <1>4
<1> QED BY <1>3, <1>4 DEF WriteSlice

\* Sizes of runs and of the volume.
LEMMA RunSize ==
  ASSUME NEW p \in Nat, NEW k \in Nat
  PROVE  IsFiniteSet(Run(p, k)) /\ Cardinality(Run(p, k)) = k
<1>1. p \in Int /\ p + k - 1 \in Int
  OBVIOUS
<1> QED BY <1>1, FS_Interval DEF Run

LEMMA ClusterSize == IsFiniteSet(Cluster) /\ Cardinality(Cluster) = Total
<1>1. 0 \in Int /\ Total - 1 \in Int
  BY TotalIsNat
<1> QED BY <1>1, TotalIsNat, FS_Interval DEF Cluster

\* How the number of free clusters changes.
LEMMA FreeCount ==
  ASSUME NEW buf \in SUBSET Cluster, NEW run \in SUBSET Cluster
  PROVE  /\ Cardinality(Cluster \ buf) \in Nat /\ Cardinality(Cluster \ buf) <= Total
         /\ Cardinality(Cluster \ buf) = Total - Cardinality(buf)
         /\ run \cap buf = {} =>
              Cardinality(Cluster \ (buf \cup run)) = Cardinality(Cluster \ buf) - Cardinality(run)
         /\ Cardinality(Cluster \ (buf \ run)) <= Cardinality(Cluster \ buf) + Cardinality(run)
         /\ run \subseteq buf =>
              Cardinality(Cluster \ (buf \ run)) = Cardinality(Cluster \ buf) + Cardinality(run)
<1>1. IsFiniteSet(Cluster) /\ Cardinality(Cluster) = Total /\ Total \in Nat
  BY ClusterSize, TotalIsNat
<1>2. /\ IsFiniteSet(Cluster \ buf) /\ Cardinality(Cluster \ buf) = Total - Cardinality(Cluster \cap buf)
      /\ Cluster \cap buf = buf
  BY <1>1, FS_Difference
<1>3. /\ IsFiniteSet(buf) /\ IsFiniteSet(run) /\ IsFiniteSet(Cluster \ buf)
      /\ Cardinality(buf) \in Nat /\ Cardinality(run) \in Nat /\ Cardinality(Cluster \ buf) \in Nat
      /\ Cardinality(buf) <= Total
  BY <1>1, FS_Subset, FS_CardinalityType
<1>4. ASSUME run \cap buf = {}
      PROVE  Cardinality(Cluster \ (buf \cup run)) = Cardinality(Cluster \ buf) - Cardinality(run)
  <2>1. Cluster \ (buf \cup run) = (Cluster \ buf) \ run /\ (Cluster \ buf) \cap run = run
    BY <1>4
  <2> QED BY <2>1, <1>3, FS_Difference
<1>5. Cluster \ (buf \ run) = (Cluster \ buf) \cup run
  OBVIOUS
<1>6. Cardinality((Cluster \ buf) \cup run)
        = Cardinality(Cluster \ buf) + Cardinality(run) - Cardinality((Cluster \ buf) \cap run)
  BY <1>3, FS_Union
<1>7. Cardinality((Cluster \ buf) \cap run) \in Nat
  BY <1>3, FS_Intersection, FS_CardinalityType
<1>8. run \subseteq buf => Cardinality((Cluster \ buf) \cap run) = 0
  <2>1. run \subseteq buf => (Cluster \ buf) \cap run = {}
    OBVIOUS
  <2> QED BY <2>1, FS_EmptySet
<1>9. Cardinality(Cluster \ buf) = Total - Cardinality(buf)
  BY <1>2
<1>10. Cardinality(Cluster \ buf) <= Total
  BY <1>9, <1>3, <1>1
<1>11. Cardinality(Cluster \ (buf \ run)) <= Cardinality(Cluster \ buf) + Cardinality(run)
  BY <1>5, <1>6, <1>7, <1>3
<1>12. run \subseteq buf =>
         Cardinality(Cluster \ (buf \ run)) = Cardinality(Cluster \ buf) + Cardinality(run)
  <2> SUFFICES ASSUME run \subseteq buf
               PROVE  Cardinality(Cluster \ (buf \ run)) = Cardinality(Cluster \ buf) + Cardinality(run)
    OBVIOUS
  <2>1. Cardinality((Cluster \ buf) \cap run) = 0
    BY <1>8
  <2> QED BY <1>5, <1>6, <2>1, <1>3
<1> QED BY <1>3, <1>4, <1>9, <1>10, <1>11, <1>12

-----------------------------------------------------------------------------

\* The invariant: FreeSpaceAgrees is inductive with the types, and a volume
\* that is not mounted has no mirror.
IInv == TypeOK /\ FreeSpaceAgrees /\ (~mounted => mirror = NoMirror)

LEMMA BufferType ==
  ASSUME TypeOK
  PROVE  Buffer \in SUBSET Cluster
BY DEF TypeOK, Buffer

\* What a call leaves of the bits: the mirror has all of them, and the disk too
\* if the write does not fail.
LEMMA CallStores ==
  ASSUME IInv, mounted, NEW new \in SUBSET Cluster, NEW first \in Cluster, NEW last \in Cluster,
         \A c \in Cluster : c < first \/ last < c => (c \in new <=> c \in Buffer),
         Keep(new), WriteSlice(new, first, last)
  PROVE  /\ disk' \in SUBSET Cluster /\ faults' \in 0..MaxFaults
         /\ mirror' = NoMirror \/ mirror' \in SUBSET Cluster
         /\ mirror' = NoMirror <=> mirror = NoMirror
         /\ mirror' # NoMirror => mirror' = new /\ Buffer' = new
         /\ faults' = 0 => faults = 0 /\ disk' = new /\ Buffer' = new
<1>1. /\ disk' \in SUBSET Cluster /\ faults' \in 0..MaxFaults /\ faults <= faults'
      /\ /\ faults' = faults
         /\ \A c \in Cluster : c < first \/ last < c => (c \in new <=> c \in disk)
         => disk' = new
  BY WriteStores DEF IInv
<1>2. new # NoMirror
  BY MirrorAssumption
<1>3. mirror' = IF mirror = NoMirror THEN NoMirror ELSE new
  BY DEF Keep
<1>4. faults \in Nat /\ (faults' = 0 => faults = 0)
  BY <1>1, SizeAssumption DEF IInv, TypeOK
<1>5. faults = 0 => Buffer = disk
  BY DEF IInv, FreeSpaceAgrees, Buffer
<1>6. faults' = 0 => disk' = new
  BY <1>1, <1>4, <1>5
<1>7. Buffer' = IF mirror' = NoMirror THEN disk' ELSE mirror'
  BY DEF Buffer
<1> QED BY <1>1, <1>2, <1>3, <1>4, <1>6, <1>7

\* What is granted: clusters that nothing the driver goes by has as used.
LEMMA Granted ==
  ASSUME IInv, NEW need \in 1..MaxNeed, Allocate(need)
  PROVE  \E start \in Cluster, k \in Nat \ {0} :
           LET run == Run(start, k)
           IN  /\ start + k - 1 \in Cluster /\ start + k <= Total
               /\ run \subseteq Cluster /\ run \cap Buffer = {}
               /\ Keep(Buffer \cup run)
               /\ WriteSlice(Buffer \cup run, start, start + k - 1)
               /\ free' = IF free > k THEN free - k ELSE 0
               /\ hint' = start + k
               /\ Hold(run, 1)
               /\ mounted /\ mounted' = mounted
<1> DEFINE r == Search(Buffer, need)
<1>1. need \in Nat \ {0} /\ hint \in 0..Total
  BY SizeAssumption DEF IInv, TypeOK
<1>2. /\ r.start \in Nat /\ r.len \in 0..need
      /\ r.len > 0 => r.start + r.len <= Total
      /\ Clear(Buffer, r.start, r.len)
  BY <1>1, SearchFinds
<1>3. /\ r.len > 0 /\ mounted /\ mounted' = mounted
      /\ Keep(Buffer \cup Run(r.start, r.len))
      /\ WriteSlice(Buffer \cup Run(r.start, r.len), r.start, r.start + r.len - 1)
      /\ free' = IF free > r.len THEN free - r.len ELSE 0
      /\ hint' = r.start + r.len
      /\ Hold(Run(r.start, r.len), 1)
  BY DEF Allocate
<1> HIDE DEF r
<1>4. r.len \in Nat \ {0} /\ r.start + r.len <= Total
  BY <1>1, <1>2, <1>3
<1>5. r.start \in Cluster /\ r.start + r.len - 1 \in Cluster
  BY <1>2, <1>4, TotalIsNat
<1>6. Run(r.start, r.len) \subseteq Cluster
  BY <1>2, <1>4, TotalIsNat DEF Run, Cluster
<1>7. Run(r.start, r.len) \cap Buffer = {}
  BY <1>2 DEF Clear, Run
<1> QED BY <1>3, <1>4, <1>5, <1>6, <1>7

\* What is released: clusters that files hold.
LEMMA Released ==
  ASSUME IInv, NEW start \in Cluster, NEW count \in 1..Total, Free(start, count)
  PROVE  LET run == Run(start, count)
         IN  /\ count \in Nat \ {0} /\ start + count - 1 \in Cluster /\ start + count <= Total
             /\ run \subseteq Cluster /\ run \subseteq Held
             /\ Cardinality(run) = count
<1>1. count \in Nat \ {0} /\ start \in Nat
  BY TotalIsNat
<1>2. Run(start, count) \subseteq Held
  BY DEF Free
<1>3. Held \subseteq Cluster
  BY DEF Held
<1>4. start + count - 1 \in Run(start, count)
  BY <1>1 DEF Run
<1>5. start + count - 1 \in Cluster
  BY <1>2, <1>3, <1>4
<1>6. start + count <= Total
  BY <1>1, <1>5, TotalIsNat
<1> QED BY <1>1, <1>2, <1>3, <1>5, <1>6, RunSize

\* No other cluster is in the run.
LEMMA OutsideRun ==
  ASSUME NEW start \in Nat, NEW k \in Nat, NEW c \in Nat, c < start \/ start + k - 1 < c
  PROVE  c \notin Run(start, k)
BY DEF Run

\* One lemma for each action.
LEMMA AllocateInv ==
  ASSUME IInv, NEW need \in 1..MaxNeed, Allocate(need)
  PROVE  IInv'
<1>1. PICK start \in Cluster, k \in Nat \ {0} :
           LET run == Run(start, k)
           IN  /\ start + k - 1 \in Cluster /\ start + k <= Total
               /\ run \subseteq Cluster /\ run \cap Buffer = {}
               /\ Keep(Buffer \cup run)
               /\ WriteSlice(Buffer \cup run, start, start + k - 1)
               /\ free' = IF free > k THEN free - k ELSE 0
               /\ hint' = start + k
               /\ Hold(run, 1)
               /\ mounted /\ mounted' = mounted
  BY Granted
<1> DEFINE run == Run(start, k)
           new == Buffer \cup run
<1>2. Buffer \in SUBSET Cluster /\ new \in SUBSET Cluster /\ start \in Nat /\ k \in Nat
  BY <1>1, BufferType, TotalIsNat DEF IInv
<1>3. \A c \in Cluster : c < start \/ start + k - 1 < c => (c \in new <=> c \in Buffer)
  BY <1>2, OutsideRun, TotalIsNat
<1>4. run \subseteq Cluster /\ run \cap Buffer = {} /\ Cardinality(run) = k
  BY <1>1, <1>2, RunSize
<1>5. /\ disk' \in SUBSET Cluster /\ faults' \in 0..MaxFaults
      /\ mirror' = NoMirror \/ mirror' \in SUBSET Cluster
      /\ mirror' = NoMirror <=> mirror = NoMirror
      /\ mirror' # NoMirror => mirror' = new /\ Buffer' = new
      /\ faults' = 0 => faults = 0 /\ disk' = new /\ Buffer' = new
  <2> HIDE DEF new
  <2> QED BY <1>1, <1>2, <1>3, CallStores DEF new
<1>6. /\ free \in Nat /\ hint \in Nat /\ owned \in [Cluster -> Nat]
      /\ free' = IF free > k THEN free - k ELSE 0
      /\ hint' = start + k /\ start + k <= Total
      /\ owned' = [c \in Cluster |-> IF c \in run THEN owned[c] + 1 ELSE owned[c]]
      /\ mounted /\ mounted' = mounted
  BY <1>1, TotalIsNat DEF IInv, TypeOK, Hold
<1>7. /\ Cardinality(Cluster \ Buffer) \in Nat
      /\ Cardinality(Cluster \ new) = Cardinality(Cluster \ Buffer) - k
      /\ Cardinality(Cluster \ new) \in Nat
  <2> HIDE DEF run
  <2>1. Cardinality(Cluster \ new) \in Nat
    <3> HIDE DEF new
    <3> QED BY <1>2, <1>4, FreeCount
  <2>2. /\ Cardinality(Cluster \ Buffer) \in Nat
        /\ Cardinality(Cluster \ (Buffer \cup run)) = Cardinality(Cluster \ Buffer) - Cardinality(run)
    BY <1>2, <1>4, FreeCount
  <2> QED BY <2>1, <2>2, <1>4
<1> HIDE DEF run, new
<1>8. TypeOK'
  <2>1. free' \in Nat /\ hint' \in 0..Total
    BY <1>2, <1>6, TotalIsNat
  <2>2. owned' \in [Cluster -> Nat]
    BY <1>6
  <2> QED BY <1>5, <1>6, <2>1, <2>2 DEF TypeOK, IInv
<1>9. Held' = Held \cup run
  <2>1. \A c \in Cluster : owned'[c] > 0 <=> c \in run \/ owned[c] > 0
    BY <1>6
  <2> QED BY <2>1, <1>4 DEF Held
<1>10. ASSUME faults' = 0 PROVE disk' = Held'
  <2>1. Buffer = Held
    BY <1>5, <1>10 DEF IInv, FreeSpaceAgrees, Buffer
  <2> QED BY <2>1, <1>5, <1>9, <1>10 DEF new
<1>11. ASSUME mirror' # NoMirror, faults' = 0
       PROVE  mirror' = disk' /\ free' = Cardinality(Cluster \ disk')
  <2>1. mirror # NoMirror /\ faults = 0 /\ mirror' = new /\ disk' = new
    BY <1>5, <1>11
  <2>2. Buffer = disk /\ free = Cardinality(Cluster \ Buffer)
    BY <2>1 DEF IInv, FreeSpaceAgrees, Buffer
  <2> QED BY <2>1, <2>2, <1>6, <1>7, <1>2
<1>12. ASSUME mirror' # NoMirror \/ faults' = 0
       PROVE  free' >= Cardinality(Cluster \ Buffer')
  <2>1. (mirror # NoMirror \/ faults = 0) /\ Buffer' = new
    BY <1>5, <1>12
  <2>2. free >= Cardinality(Cluster \ Buffer)
    BY <2>1, <1>6 DEF IInv, FreeSpaceAgrees
  <2> QED BY <2>1, <2>2, <1>6, <1>7, <1>2
<1> QED BY <1>6, <1>8, <1>10, <1>11, <1>12 DEF IInv, FreeSpaceAgrees

LEMMA FreeInv ==
  ASSUME IInv, \A c \in Cluster : owned[c] <= 1,
         NEW start \in Cluster, NEW count \in 1..Total, Free(start, count)
  PROVE  IInv'
<1> DEFINE run == Run(start, count)
           new == Buffer \ run
<1>1. /\ count \in Nat \ {0} /\ start + count - 1 \in Cluster /\ start + count <= Total
      /\ run \subseteq Cluster /\ run \subseteq Held
      /\ Cardinality(run) = count
  BY Released
<1>2. Buffer \in SUBSET Cluster /\ new \in SUBSET Cluster /\ start \in Nat /\ count \in Nat
  BY <1>1, BufferType, TotalIsNat DEF IInv
<1>3. \A c \in Cluster : c < start \/ start + count - 1 < c => (c \in new <=> c \in Buffer)
  BY <1>2, OutsideRun, TotalIsNat
<1>4. Keep(new) /\ WriteSlice(new, start, start + count - 1) /\ mounted
  BY DEF Free
<1>5. /\ disk' \in SUBSET Cluster /\ faults' \in 0..MaxFaults
      /\ mirror' = NoMirror \/ mirror' \in SUBSET Cluster
      /\ mirror' = NoMirror <=> mirror = NoMirror
      /\ mirror' # NoMirror => mirror' = new /\ Buffer' = new
      /\ faults' = 0 => faults = 0 /\ disk' = new /\ Buffer' = new
  <2> HIDE DEF new
  <2> QED BY <1>1, <1>2, <1>3, <1>4, CallStores
<1>6. /\ free \in Nat /\ hint \in 0..Total /\ owned \in [Cluster -> Nat]
      /\ free' = free + count
      /\ hint' = IF start < hint /\ count >= Retreat THEN start ELSE hint
      /\ owned' = [c \in Cluster |-> IF c \in run THEN owned[c] + (-1) ELSE owned[c]]
      /\ mounted /\ mounted' = mounted
  BY DEF IInv, TypeOK, Hold, Free
<1>7. /\ Cardinality(Cluster \ Buffer) \in Nat
      /\ Cardinality(Cluster \ new) <= Cardinality(Cluster \ Buffer) + count
      /\ run \subseteq Buffer => Cardinality(Cluster \ new) = Cardinality(Cluster \ Buffer) + count
      /\ Cardinality(Cluster \ new) \in Nat
  <2> HIDE DEF run
  <2>1. Cardinality(Cluster \ new) \in Nat
    <3> HIDE DEF new
    <3> QED BY <1>1, <1>2, FreeCount
  <2>2. /\ Cardinality(Cluster \ Buffer) \in Nat
        /\ Cardinality(Cluster \ (Buffer \ run)) <= Cardinality(Cluster \ Buffer) + Cardinality(run)
        /\ run \subseteq Buffer =>
             Cardinality(Cluster \ (Buffer \ run)) = Cardinality(Cluster \ Buffer) + Cardinality(run)
    BY <1>1, <1>2, FreeCount
  <2> QED BY <2>1, <2>2, <1>1
<1> HIDE DEF run, new
<1>8. \A c \in run : c \in Cluster /\ owned[c] = 1
  BY <1>1, <1>6 DEF Held
<1>9. TypeOK'
  <2>1. free' \in Nat /\ hint' \in 0..Total
    BY <1>1, <1>2, <1>6, TotalIsNat
  <2>2. owned' \in [Cluster -> Nat]
    <3>1. \A c \in Cluster : (IF c \in run THEN owned[c] + (-1) ELSE owned[c]) \in Nat
      BY <1>6, <1>8
    <3> QED BY <1>6, <3>1
  <2> QED BY <1>5, <1>6, <2>1, <2>2 DEF TypeOK, IInv
<1>10. Held' = Held \ run
  <2>1. \A c \in Cluster : owned'[c] > 0 <=> c \notin run /\ owned[c] > 0
    BY <1>6, <1>8
  <2> QED BY <2>1 DEF Held
<1>11. ASSUME faults' = 0 PROVE disk' = Held' /\ run \subseteq Buffer
  <2>1. Buffer = Held
    BY <1>5, <1>11 DEF IInv, FreeSpaceAgrees, Buffer
  <2> QED BY <2>1, <1>1, <1>5, <1>10, <1>11 DEF new
<1>12. ASSUME mirror' # NoMirror, faults' = 0
       PROVE  mirror' = disk' /\ free' = Cardinality(Cluster \ disk')
  <2>1. mirror # NoMirror /\ faults = 0 /\ mirror' = new /\ disk' = new
    BY <1>5, <1>12
  <2>2. Buffer = disk /\ free = Cardinality(Cluster \ Buffer)
    BY <2>1 DEF IInv, FreeSpaceAgrees, Buffer
  <2> QED BY <2>1, <2>2, <1>6, <1>7, <1>11, <1>12
<1>13. ASSUME mirror' # NoMirror \/ faults' = 0
       PROVE  free' >= Cardinality(Cluster \ Buffer')
  <2>1. (mirror # NoMirror \/ faults = 0) /\ Buffer' = new
    BY <1>5, <1>13
  <2>2. free >= Cardinality(Cluster \ Buffer)
    BY <2>1, <1>6 DEF IInv, FreeSpaceAgrees
  <2> QED BY <2>1, <2>2, <1>6, <1>7, <1>2
<1> QED BY <1>6, <1>9, <1>11, <1>12, <1>13 DEF IInv, FreeSpaceAgrees

LEMMA MountInv ==
  ASSUME IInv, Mount
  PROVE  IInv'
<1>1. disk \in SUBSET Cluster /\ disk # NoMirror
  BY MirrorAssumption DEF IInv, TypeOK
<1>2. /\ Cardinality(Cluster \ disk) = Total - Cardinality(disk)
      /\ Cardinality(Cluster \ disk) \in Nat /\ Cardinality(Cluster \ disk) <= Total
  BY <1>1, FreeCount
<1>3. /\ mounted' = TRUE /\ hint' = 0 /\ disk' = disk /\ owned' = owned /\ faults' = faults
      /\ \/ mirror' = disk /\ free' = Total - Cardinality(disk)
         \/ mirror' = NoMirror /\ free' = Total
  BY DEF Mount
<1>4. Held' = Held /\ Buffer' = disk
  BY <1>1, <1>3 DEF Held, Buffer
<1>5. TypeOK'
  <2>1. free' \in Nat /\ hint' \in 0..Total
    BY <1>2, <1>3, TotalIsNat
  <2> QED BY <1>3, <2>1 DEF IInv, TypeOK
<1>6. free' >= Cardinality(Cluster \ disk)
  BY <1>2, <1>3, TotalIsNat
<1>7. faults = 0 => disk = Held
  BY DEF IInv, FreeSpaceAgrees
<1>8. mirror' # NoMirror => mirror' = disk /\ free' = Cardinality(Cluster \ disk)
  BY <1>2, <1>3
<1> QED BY <1>3, <1>4, <1>5, <1>6, <1>7, <1>8 DEF IInv, FreeSpaceAgrees

LEMMA InitInv == Init => IInv
<1> SUFFICES ASSUME Init PROVE IInv
  OBVIOUS
<1>1. /\ disk \in SUBSET Cluster /\ owned = [c \in Cluster |-> IF c \in disk THEN 1 ELSE 0]
      /\ mounted = FALSE /\ mirror = NoMirror /\ free = 0 /\ hint = 0 /\ faults = 0
  BY DEF Init
<1>2. Held = disk
  <2>1. \A c \in Cluster : owned[c] > 0 <=> c \in disk
    BY <1>1
  <2> QED BY <1>1, <2>1 DEF Held
<1>3. owned \in [Cluster -> Nat]
  BY <1>1
<1>4. free \in Nat /\ hint \in 0..Total /\ faults \in 0..MaxFaults
  BY <1>1, TotalIsNat, SizeAssumption
<1> QED BY <1>1, <1>2, <1>3, <1>4 DEF IInv, TypeOK, FreeSpaceAgrees

LEMMA NextInv == IInv /\ [Next]_vars => IInv'
<1> SUFFICES ASSUME IInv, [Next]_vars PROVE IInv'
  OBVIOUS
<1>1. ASSUME UNCHANGED vars PROVE IInv'
  BY <1>1 DEF vars, IInv, TypeOK, FreeSpaceAgrees, Held, Buffer
<1>2. ASSUME Call PROVE IInv'
  <2>1. \A c \in Cluster : owned[c] <= 1
    BY <1>2 DEF Call
  <2>2. CASE \E need \in 1..MaxNeed : Allocate(need)
    BY <2>2, AllocateInv
  <2>3. CASE \E need \in 1..MaxNeed : AllocateFull(need)
    BY <2>3, <1>1 DEF AllocateFull
  <2>4. CASE \E start \in Cluster, count \in 1..Total : Free(start, count)
    BY <2>1, <2>4, FreeInv
  <2> QED BY <1>2, <2>2, <2>3, <2>4 DEF Call
<1>3. ASSUME Mount PROVE IInv'
  BY <1>3, MountInv
<1>4. ASSUME Unmount PROVE IInv'
  <2>1. /\ mounted' = FALSE /\ mirror' = NoMirror /\ free' = 0 /\ hint' = 0
        /\ disk' = disk /\ owned' = owned /\ faults' = faults
    BY <1>4 DEF Unmount
  <2>2. Held' = Held
    BY <2>1 DEF Held
  <2>3. free' \in Nat /\ hint' \in 0..Total
    BY <2>1, TotalIsNat
  <2> QED BY <2>1, <2>2, <2>3 DEF IInv, TypeOK, FreeSpaceAgrees
<1> QED BY <1>1, <1>2, <1>3, <1>4 DEF Next

LEMMA Invariance == Spec => []IInv
<1>1. Init => IInv
  BY InitInv
<1>2. IInv /\ [Next]_vars => IInv'
  BY NextInv
<1> QED BY <1>1, <1>2, PTL DEF Spec

\* Types; the cursor stays on the volume or just past its end, and the count
\* of free clusters never wraps.
THEOREM TypeCorrect == Spec => []TypeOK
<1>1. IInv => TypeOK
  BY DEF IInv
<1> QED BY <1>1, Invariance, PTL

\* Mirror, disk and FreeClusters agree as long as no write fails, and the
\* count is never below what the driver goes by (ntfs_bitmap.c:202 ignores the
\* status of the write).
THEOREM FreeSpace == Spec => []FreeSpaceAgrees
<1>1. IInv => FreeSpaceAgrees
  BY DEF IInv
<1> QED BY <1>1, Invariance, PTL

\* The search is best for every bitmap and cursor: the words and bytes of ones
\* that NtfsScanBitmapRange skips, the run that is open at the end of the
\* range and the wrap to the beginning lose no run.
THEOREM SearchCorrect == Spec => []SearchIsBest
<1>1. TypeOK => SearchIsBest
  <2> SUFFICES ASSUME TypeOK, NEW need \in 1..MaxNeed
               PROVE  LET r == Search(Buffer, need)
                      IN  /\ r.len \in 0..need /\ Run(r.start, r.len) \cap Buffer = {}
                          /\ r.len < need => /\ ~Fits(Buffer, hint, Total, r.len + 1)
                                             /\ ~Fits(Buffer, 0, hint, r.len + 1)
                          /\ r.len = need => ~Fits(Buffer, IF r.start < hint THEN 0 ELSE hint,
                                                   r.start + need - 1, need)
    BY DEF SearchIsBest
  <2> DEFINE r == Search(Buffer, need)
  <2>1. need \in Nat \ {0} /\ hint \in 0..Total
    BY SizeAssumption DEF TypeOK
  <2>2. /\ r.start \in Nat /\ r.len \in 0..need
        /\ Clear(Buffer, r.start, r.len)
        /\ r.len < need => /\ ~Fits(Buffer, hint, Total, r.len + 1)
                           /\ ~Fits(Buffer, 0, hint, r.len + 1)
        /\ r.len = need => ~Fits(Buffer, IF r.start < hint THEN 0 ELSE hint,
                                 r.start + need - 1, need)
    BY <2>1, SearchFinds
  <2> HIDE DEF r
  <2>3. Run(r.start, r.len) \cap Buffer = {}
    BY <2>2 DEF Clear, Run
  <2> QED BY <2>2, <2>3 DEF r
<1> QED BY <1>1, TypeCorrect, PTL

-----------------------------------------------------------------------------

\* A grant of the allocator is a grant of ClusterSpace, and a cluster that is
\* granted is remembered, by the mirror or on the disk.
LEMMA AllocateGrants ==
  ASSUME IInv, Remembers, NEW need \in 1..MaxNeed, Allocate(need)
  PROVE  /\ Space!Grant
         /\ faults' = 0 \/ mirror # NoMirror => Remembers'
<1>1. PICK start \in Cluster, k \in Nat \ {0} :
           LET run == Run(start, k)
           IN  /\ start + k - 1 \in Cluster /\ start + k <= Total
               /\ run \subseteq Cluster /\ run \cap Buffer = {}
               /\ Keep(Buffer \cup run)
               /\ WriteSlice(Buffer \cup run, start, start + k - 1)
               /\ free' = IF free > k THEN free - k ELSE 0
               /\ hint' = start + k
               /\ Hold(run, 1)
               /\ mounted /\ mounted' = mounted
  BY Granted
<1> DEFINE run == Run(start, k)
           new == Buffer \cup run
<1>2. Buffer \in SUBSET Cluster /\ new \in SUBSET Cluster /\ start \in Nat /\ k \in Nat
  BY <1>1, BufferType, TotalIsNat DEF IInv
<1>3. \A c \in Cluster : c < start \/ start + k - 1 < c => (c \in new <=> c \in Buffer)
  BY <1>2, OutsideRun, TotalIsNat
<1>4. /\ mirror' = NoMirror <=> mirror = NoMirror
      /\ mirror' # NoMirror => Buffer' = new
      /\ faults' = 0 => Buffer' = new
  <2> HIDE DEF new
  <2> QED BY <1>1, <1>2, <1>3, CallStores DEF new
<1>5. run \subseteq Cluster /\ run \cap Buffer = {} /\ start \in run
  BY <1>1, <1>2 DEF Run
<1>6. /\ owned \in [Cluster -> Nat] /\ \A c \in Cluster : owned[c] <= 1
      /\ Held \subseteq Buffer
  BY DEF IInv, TypeOK, Remembers
<1>7. owned' = [c \in Cluster |-> IF c \in run THEN owned[c] + 1 ELSE owned[c]]
  BY <1>1 DEF Hold
<1>8. \A a, b \in run : \A c \in Cluster : a <= c /\ c <= b => c \in run
  BY <1>2, TotalIsNat DEF Run
<1> HIDE DEF run, new
<1>9. \A c \in run : c \in Cluster /\ owned[c] = 0
  BY <1>5, <1>6 DEF Held
<1>10. owned' \in [Cluster -> 0..1]
  <2>1. \A c \in Cluster : (IF c \in run THEN owned[c] + 1 ELSE owned[c]) \in 0..1
    BY <1>6, <1>9
  <2> QED BY <2>1, <1>7
<1>11. {c \in Cluster : owned'[c] # owned[c]} = run
  <2>1. \A c \in Cluster : owned'[c] # owned[c] <=> c \in run
    BY <1>6, <1>7
  <2> QED BY <2>1, <1>5
<1>12. Space!Moved = run
  BY <1>11 DEF Space!Moved
<1>13. Space!IsRun(run)
  BY <1>5, <1>8 DEF Space!IsRun
<1>14. Space!Grant
  BY <1>9, <1>10, <1>12, <1>13 DEF Space!Grant
<1>15. ASSUME faults' = 0 \/ mirror # NoMirror PROVE Remembers'
  <2>1. Buffer' = new
    BY <1>4, <1>15
  <2>2. \A c \in Cluster : owned'[c] > 0 => c \in run \/ owned[c] > 0
    BY <1>6, <1>7
  <2>3. Held' \subseteq Held \cup run
    BY <2>2 DEF Held
  <2>4. \A c \in Cluster : owned'[c] <= 1
    BY <1>10
  <2> QED BY <2>1, <2>3, <2>4, <1>6 DEF Remembers, new
<1> QED BY <1>14, <1>15

\* A release of the allocator is a release of ClusterSpace.
LEMMA FreeReleases ==
  ASSUME IInv, Remembers, NEW start \in Cluster, NEW count \in 1..Total, Free(start, count)
  PROVE  /\ Space!Release
         /\ faults' = 0 \/ mirror # NoMirror => Remembers'
<1> DEFINE run == Run(start, count)
           new == Buffer \ run
<1>1. /\ count \in Nat \ {0} /\ start + count - 1 \in Cluster
      /\ run \subseteq Cluster /\ run \subseteq Held
  BY Released
<1>2. Buffer \in SUBSET Cluster /\ new \in SUBSET Cluster /\ start \in Nat /\ count \in Nat
  BY <1>1, BufferType, TotalIsNat DEF IInv
<1>3. \A c \in Cluster : c < start \/ start + count - 1 < c => (c \in new <=> c \in Buffer)
  BY <1>2, OutsideRun, TotalIsNat
<1>4. Keep(new) /\ WriteSlice(new, start, start + count - 1) /\ mounted
  BY DEF Free
<1>5. /\ mirror' = NoMirror <=> mirror = NoMirror
      /\ mirror' # NoMirror => Buffer' = new
      /\ faults' = 0 => Buffer' = new
  <2> HIDE DEF new
  <2> QED BY <1>1, <1>2, <1>3, <1>4, CallStores
<1>6. /\ owned \in [Cluster -> Nat] /\ \A c \in Cluster : owned[c] <= 1
      /\ Held \subseteq Buffer
  BY DEF IInv, TypeOK, Remembers
<1>7. owned' = [c \in Cluster |-> IF c \in run THEN owned[c] + (-1) ELSE owned[c]]
  BY DEF Hold, Free
<1>8. start \in run /\ \A a, b \in run : \A c \in Cluster : a <= c /\ c <= b => c \in run
  BY <1>1, <1>2, TotalIsNat DEF Run
<1> HIDE DEF run, new
<1>9. \A c \in run : c \in Cluster /\ owned[c] = 1
  BY <1>1, <1>6 DEF Held
<1>10. owned' \in [Cluster -> 0..1]
  <2>1. \A c \in Cluster : (IF c \in run THEN owned[c] + (-1) ELSE owned[c]) \in 0..1
    BY <1>6, <1>9
  <2> QED BY <2>1, <1>7
<1>11. \A c \in Cluster : owned'[c] # owned[c] <=> c \in run
  BY <1>6, <1>7
<1>12. Space!Moved = run
  BY <1>11, <1>1 DEF Space!Moved
<1>13. Space!IsRun(run)
  BY <1>8 DEF Space!IsRun
<1>14. Space!Release
  BY <1>9, <1>10, <1>12, <1>13 DEF Space!Release
<1>15. ASSUME faults' = 0 \/ mirror # NoMirror PROVE Remembers'
  <2>1. Buffer' = new
    BY <1>5, <1>15
  <2>2. \A c \in Cluster : owned'[c] > 0 => c \notin run /\ owned[c] > 0
    BY <1>6, <1>7, <1>9
  <2>3. Held' \subseteq Held \ run
    BY <2>2 DEF Held
  <2>4. \A c \in Cluster : owned'[c] <= 1
    BY <1>10
  <2> QED BY <2>1, <2>3, <2>4, <1>6 DEF Remembers, new
<1> QED BY <1>14, <1>15

\* The allocator implements ClusterSpace until it has forgotten a cluster, and
\* forgets none while no write fails or as long as it has its mirror.
THEOREM Implements == Spec => ImplementsSpace
<1> DEFINE Stays == Remembers /\ (faults' = 0 \/ (mirror # NoMirror /\ mounted')) => Remembers'
<1>1. Init => Space!Init
  <2> SUFFICES ASSUME Init PROVE owned \in [Cluster -> 0..1]
    BY DEF Space!Init
  <2> QED BY DEF Init
<1>2. IInv /\ [Next]_vars => [Remembers => Space!Next]_owned /\ [Stays]_vars
  <2> SUFFICES ASSUME IInv, Remembers, [Next]_vars
               PROVE  (Space!Next \/ owned' = owned) /\ (UNCHANGED vars \/ Stays)
    OBVIOUS
  <2>1. CASE UNCHANGED vars
    BY <2>1 DEF vars
  <2>2. ASSUME NEW need \in 1..MaxNeed, Allocate(need)
        PROVE  Space!Next /\ Stays
    BY <2>2, AllocateGrants DEF Space!Next
  <2>3. ASSUME NEW start \in Cluster, NEW count \in 1..Total, Free(start, count)
        PROVE  Space!Next /\ Stays
    BY <2>3, FreeReleases DEF Space!Next
  <2>4. CASE \E need \in 1..MaxNeed : AllocateFull(need)
    BY <2>4 DEF AllocateFull, vars
  <2>5. CASE Mount \/ Unmount
    <3>1. owned' = owned /\ disk' = disk /\ faults' = faults /\ Held' = Held
      BY <2>5 DEF Mount, Unmount, Held
    <3>2. ASSUME faults' = 0 \/ (mirror # NoMirror /\ mounted') PROVE Remembers'
      <4>1. faults' = 0
        BY <2>5, <3>2 DEF IInv, Mount, Unmount
      <4>2. disk = Held /\ Buffer' = disk
        BY <2>5, <3>1, <4>1 DEF IInv, FreeSpaceAgrees, Mount, Unmount, Buffer
      <4> QED BY <3>1, <4>2 DEF Remembers
    <3> QED BY <3>1, <3>2
  <2> QED BY <2>1, <2>2, <2>3, <2>4, <2>5 DEF Next, Call
<1> QED BY <1>1, <1>2, Invariance, PTL DEF Spec, ImplementsSpace

=============================================================================
