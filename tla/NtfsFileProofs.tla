--------------------------- MODULE NtfsFileProofs ---------------------------
(***************************************************************************)
(* Theorems about NtfsFile, for any number of handles, clusters and units, *)
(* writes of any length, and any number of failed writes and losses of     *)
(* power.                                                                  *)
(***************************************************************************)
EXTENDS NtfsFile, TLAPS

(***************************************************************************)
(* The constants, and arithmetic on clusters                               *)
(***************************************************************************)
LEMMA Constants ==
  /\ PerCluster \in Nat \ {0} /\ Chunk \in Nat \ {0} /\ Quantum \in Nat \ {0}
  /\ MaxWrite \in Nat \ {0} /\ Room \in Nat /\ MaxUnits \in Nat
  /\ Zero \in Value /\ Data \in Value /\ Value \subseteq Units /\ Junk \in Units
BY BoundAssumption DEF Value, Units

\* The clusters for n units hold n units, and are no more than any clusters
\* that do.
LEMMA ClustersHold ==
  ASSUME NEW n \in Nat
  PROVE  /\ Clusters(n) \in Nat
         /\ n <= Clusters(n) * PerCluster
         /\ \A m \in Nat : n <= m * PerCluster => Clusters(n) <= m
<1> DEFINE P == PerCluster
           q == Clusters(n)
<1>1. P \in Nat /\ P > 0
  BY Constants
<1>2. q \in Nat /\ P * q <= n + P - 1 /\ n + P - 1 < P * q + P
  BY <1>1, SMTT(30) DEF Clusters
<1> HIDE DEF P, q
<1>3. n <= P * q
  BY <1>1, <1>2, SMTT(30)
<1>4. ASSUME NEW m \in Nat, n <= m * P PROVE q <= m
  <2>1. SUFFICES ASSUME q >= m + 1 PROVE FALSE
    BY <1>2
  <2>2. P * q >= P * (m + 1)
    BY <2>1, <1>1, <1>2, SMTT(30)
  <2>3. P * (m + 1) = m * P + P /\ m * P \in Nat /\ P * q \in Nat
    BY <1>1, <1>2, SMTT(30)
  <2> QED BY <2>2, <2>3, <1>4, <1>1, <1>2
<1>5. P * q = q * P
  BY <1>1, <1>2, SMTT(30)
<1> QED BY <1>2, <1>3, <1>4, <1>5 DEF P, q

\* So many clusters more hold so many units more.
LEMMA MoreClusters ==
  ASSUME NEW a \in Nat, NEW b \in Nat
  PROVE  /\ a * PerCluster \in Nat
         /\ (a + b) * PerCluster = a * PerCluster + b * PerCluster
         /\ a <= b => a * PerCluster <= b * PerCluster
BY Constants, SMTT(30)

LEMMA SpliceType ==
  ASSUME NEW s \in Seq(Units), NEW p \in Nat, NEW n \in Nat, NEW v \in Units
  PROVE  /\ Splice(s, p, n, v) \in Seq(Units)
         /\ Len(Splice(s, p, n, v)) = Larger(Len(s), p + n)
<1> DEFINE m == Larger(Len(s), p + n)
           f == Splice(s, p, n, v)
<1>1. m \in Nat
  BY DEF Larger
<1>2. f \in [1..m -> Units]
  BY <1>1, Constants DEF Splice
<1> HIDE DEF m, f
<1>3. f \in Seq(Units) /\ Len(f) = m
  BY <1>1, <1>2
<1> QED BY <1>3 DEF m, f

LEMMA FreeRunType ==
  ASSUME NEW k \in Nat, NEW run \in FreeRun(k)
  PROVE  /\ run \in Seq(Cluster) /\ Len(run) = k
         /\ {run[i] : i \in 1..k} \subseteq Cluster
<1>1. run \in [1..k -> Cluster]
  BY DEF FreeRun
<1> QED BY <1>1

LEMMA SpoiltType ==
  ASSUME NEW S, data \in [Cluster -> [1..PerCluster -> Units]]
  PROVE  Spoilt(S) \in [Cluster -> [1..PerCluster -> Units]]
BY Constants DEF Spoilt

LEMMA WrittenType ==
  ASSUME NEW r, NEW p, NEW k, NEW v \in Units,
         data \in [Cluster -> [1..PerCluster -> Units]]
  PROVE  Written(r, p, k, v) \in [Cluster -> [1..PerCluster -> Units]]
BY DEF Written

\* The image at rest is a sound record.
LEMMA NoImageSound == Sound(NoImage)
<1>1. << >> \in Seq(Units) /\ << >> \in Seq(Cluster) /\ Len(<< >>) = 0
  OBVIOUS
<1> QED BY <1>1 DEF Sound, NoImage, NewFile, FileRec

(***************************************************************************)
(* The invariant.                                                          *)
(***************************************************************************)
FrameRec == [val : Value, len : Nat, goal : Nat, gap : Nat, done : Nat]
CallRec == [h : Handle, kind : {"write", "resize", "close"}, at : 0..MaxUnits, len : Nat]

Writing == pc \in {"enter", "put", "head", "data", "record"}
Cutting == pc \in {"cut", "shrink", "trim"}

\* The running call, and the handle that it came through.
CallInv ==
  /\ ~Writing => stack = << >>
  /\ Writing \/ Cutting => call \in CallRec /\ H \in HandleRec

\* Where the write of stack[i] begins.
Base(i) == IF i = Len(stack) THEN H.pos ELSE stack[i].goal

\* Every write on the stack ends within the bounds, and each but the first
\* fills some of what is left of the gap of the one below it.
StackInv ==
  Writing =>
    /\ stack \in Seq(FrameRec) /\ stack # << >>
    /\ call.kind \in {"write", "resize"}
    /\ \A i \in 1..Len(stack) : Base(i) + stack[i].len <= MaxUnits
    /\ \A i \in 1..(Len(stack) - 1) :
         /\ Base(i + 1) + stack[i].gap = stack[i].goal
         /\ 0 < stack[i + 1].len /\ stack[i + 1].len <= stack[i].gap
    /\ call.kind = "resize" => stack[1].len = 0 /\ Base(1) = call.len
    /\ pc \in {"head", "data", "record"} => Top.len > 0
    /\ pc = "record" => Top.done <= Top.len

\* The image of the record that is to be written, by where the call is.
ImgInv ==
  /\ pc \in {"head", "data", "record", "shrink"} => img.inUse = rec.inUse
  /\ pc \in {"head", "data", "record"} => rec.size < Target
  /\ pc \in {"head", "record"} => img.size = Target
  /\ pc = "head" => ~img.resident
  /\ pc = "data" => ~img.resident /\ Target <= Allocated(img)
  /\ pc = "cut" => call.kind = "resize"
  /\ pc = "trim" => call.kind = "close" /\ ~rec.resident /\ Clusters(rec.size) < Len(rec.map)
  /\ pc = "shrink" => /\ call.kind \in {"resize", "close"}
                      /\ call.kind = "resize" => img.size = call.len

\* A handle that nobody has overtaken has the file's size, at rest and in its
\* own call, where a write of zeros begins there.
KnowInv ==
  /\ \A h \in Handle : IsOpen(h) /\ handles[h].knows = "size" =>
       handles[h].size = rec.size /\ rec.inUse
  /\ Writing \/ Cutting => (H.knows = "size" => H.size = rec.size /\ rec.inUse)
  /\ Writing /\ H.knows = "size" =>
       /\ Len(stack) <= 2
       /\ Len(stack) = 2 => H.pos = H.size
       /\ call.kind = "resize" /\ Len(stack) = 1 =>
            IF pc = "enter" THEN H.size < H.pos ELSE pc = "put" /\ H.pos = H.size

LocalInv ==
  /\ handles \in [Handle -> HandleRec \cup {None}]
  /\ pc \in {"idle", "enter", "put", "head", "data", "record", "cut", "shrink", "trim", "ok", "failed"}
  /\ Sound(img)
  /\ CallInv /\ StackInv /\ ImgInv /\ KnowInv

DiskInv ==
  /\ bits \subseteq Cluster
  /\ data \in [Cluster -> [1..PerCluster -> Units]]
  /\ Sound(rec)
  /\ kept \in BOOLEAN
  /\ trouble \subseteq {"orphan", "beyond", "behind", "uninit", "short", "dangle"}

IInv == DiskInv /\ LocalInv

LEMMA InvImpliesType == IInv => TypeOK
BY DEF IInv, DiskInv, LocalInv, TypeOK

(***************************************************************************)
(* How a call ends, or one of its writes                                   *)
(***************************************************************************)

\* The handle of the running call.
LEMMA CallerIs ==
  ASSUME LocalInv, Writing \/ Cutting
  PROVE  /\ call \in CallRec /\ call.h \in Handle /\ call.at \in 0..MaxUnits /\ call.len \in Nat
         /\ H \in HandleRec /\ H = handles[call.h]
         /\ H.size \in Nat /\ H.pos \in 0..MaxUnits
         /\ H.knows = "size" => H.size = rec.size /\ rec.inUse
BY DEF LocalInv, CallInv, CallRec, KnowInv, H, HandleRec

LEMMA BecomeWorks ==
  ASSUME LocalInv, Writing \/ Cutting,
         NEW new \in HandleRec \cup {None}, NEW resized \in BOOLEAN, Become(new, resized),
         rec'.inUse = rec.inUse, rec'.size = rec.size \/ resized,
         new # None /\ new.knows = "size" => new.size = rec'.size /\ rec'.inUse
  PROVE  /\ handles' \in [Handle -> HandleRec \cup {None}]
         /\ handles'[call.h] = new
         /\ \A h \in Handle : handles'[h] # None /\ handles'[h].knows = "size" =>
              handles'[h].size = rec'.size /\ rec'.inUse
<1>1. call.h \in Handle
  BY CallerIs
<1>2. handles \in [Handle -> HandleRec \cup {None}]
  BY DEF LocalInv
<1>3. handles'[call.h] = new
  BY <1>1 DEF Become
<1>4. ASSUME NEW h \in Handle, h # call.h
      PROVE  /\ handles'[h] \in HandleRec \cup {None}
             /\ handles'[h] # None /\ handles'[h].knows = "size" =>
                  handles'[h].size = rec'.size /\ rec'.inUse
  <2>1. handles'[h] = IF resized /\ IsOpen(h) /\ handles[h].knows = "size"
                      THEN [handles[h] EXCEPT !.knows = "file"] ELSE handles[h]
    BY <1>4 DEF Become
  <2>2. CASE resized /\ IsOpen(h) /\ handles[h].knows = "size"
    <3>1. handles[h] \in HandleRec
      BY <2>2, <1>2 DEF IsOpen
    <3>2. handles'[h] = [handles[h] EXCEPT !.knows = "file"]
      BY <2>1, <2>2
    <3>3. handles'[h] \in HandleRec /\ handles'[h].knows = "file"
      BY <3>1, <3>2 DEF HandleRec
    <3> QED BY <3>3
  <2>3. CASE ~(resized /\ IsOpen(h) /\ handles[h].knows = "size")
    <3>1. handles'[h] = handles[h]
      BY <2>1, <2>3
    <3>2. IsOpen(h) /\ handles[h].knows = "size" => handles[h].size = rec.size /\ rec.inUse
      BY DEF LocalInv, KnowInv
    <3> QED BY <3>1, <3>2, <2>3, <1>2 DEF IsOpen
  <2> QED BY <2>2, <2>3
<1>5. handles'[call.h] # None /\ handles'[call.h].knows = "size" =>
        handles'[call.h].size = rec'.size /\ rec'.inUse
  BY <1>3
<1>6. \A h \in Handle : handles'[h] \in HandleRec \cup {None}
  BY <1>3, <1>4
<1>7. handles' = [h \in Handle |-> handles'[h]]
  BY DEF Become
<1>8. handles' \in [Handle -> HandleRec \cup {None}]
  BY <1>6, <1>7
<1> QED BY <1>3, <1>4, <1>5, <1>8

\* A call that is over leaves nothing to be written.
LEMMA ReturnWorks ==
  ASSUME pc' \in {"ok", "failed", "idle"}, stack' = << >>, Sound(img'),
         handles' \in [Handle -> HandleRec \cup {None}],
         \A h \in Handle : handles'[h] # None /\ handles'[h].knows = "size" =>
           handles'[h].size = rec'.size /\ rec'.inUse
  PROVE  LocalInv'
<1>1. Sound(img)'
  BY DEF Sound
<1>2. ~Writing' /\ ~Cutting'
  BY DEF Writing, Cutting
<1>3. CallInv' /\ StackInv'
  BY <1>2 DEF CallInv, StackInv
<1>4. ImgInv'
  BY DEF ImgInv
<1>5. KnowInv'
  BY <1>2 DEF KnowInv, IsOpen
<1> QED BY <1>1, <1>3, <1>4, <1>5 DEF LocalInv

\* A refused call gives its handle back with another position only.
LEMMA FailIs ==
  ASSUME LocalInv, Writing \/ Cutting, NEW new \in HandleRec, NEW resized, Fail(new, resized)
  PROVE  \E left \in HandleRec :
           /\ Become(left, resized) /\ Return("failed")
           /\ left.knows = new.knows /\ left.size = new.size /\ left.grew = new.grew
<1> DEFINE back == IF call.kind = "resize" THEN call.at
                   ELSE IF Len(stack) > 1 THEN stack[1].goal ELSE new.pos
           left == [new EXCEPT !.pos = back]
<1>1. back \in 0..MaxUnits
  <2>1. ASSUME Len(stack) > 1 PROVE stack[1].goal \in 0..MaxUnits
    <3>1. Writing
      BY <2>1 DEF LocalInv, CallInv
    <3>2. /\ stack \in Seq(FrameRec) /\ Len(stack) \in Nat
          /\ \A i \in 1..Len(stack) : Base(i) + stack[i].len <= MaxUnits
      BY <3>1 DEF LocalInv, StackInv
    <3>3. stack[1] \in FrameRec /\ 1 \in 1..Len(stack) /\ 1 # Len(stack)
      BY <2>1, <3>2
    <3>4. stack[1].goal \in Nat /\ stack[1].len \in Nat /\ Base(1) = stack[1].goal
      BY <3>3 DEF FrameRec, Base
    <3> QED BY <3>2, <3>3, <3>4, Constants
  <2>2. call.at \in 0..MaxUnits
    BY CallerIs
  <2>3. new.pos \in 0..MaxUnits
    BY DEF HandleRec
  <2> QED BY <2>1, <2>2, <2>3
<1> HIDE DEF back
<1>2. left \in HandleRec /\ left.knows = new.knows /\ left.size = new.size /\ left.grew = new.grew
  BY <1>1 DEF HandleRec
<1>3. Become(left, resized) /\ Return("failed")
  BY DEF Fail, back
<1> HIDE DEF left
<1> QED BY <1>2, <1>3

LEMMA FailWorks ==
  ASSUME LocalInv, Writing \/ Cutting,
         NEW new \in HandleRec, NEW resized \in BOOLEAN, Fail(new, resized),
         rec'.inUse = rec.inUse, rec'.size = rec.size \/ resized,
         new.knows = "size" => new.size = rec'.size /\ rec'.inUse
  PROVE  LocalInv'
<1>1. PICK left \in HandleRec :
        /\ Become(left, resized) /\ Return("failed")
        /\ left.knows = new.knows /\ left.size = new.size
  BY FailIs
<1>2. /\ handles' \in [Handle -> HandleRec \cup {None}]
      /\ \A h \in Handle : handles'[h] # None /\ handles'[h].knows = "size" =>
           handles'[h].size = rec'.size /\ rec'.inUse
  BY <1>1, BecomeWorks
<1> QED BY <1>1, <1>2, ReturnWorks, NoImageSound DEF Return

\* A write that has done its work leaves the one below it to go on.
LEMMA FinishWorks ==
  ASSUME LocalInv, Writing,
         NEW new \in HandleRec, NEW resized \in BOOLEAN, Finish(new, resized),
         rec'.inUse = rec.inUse, rec'.size = rec.size \/ resized,
         new.knows = H.knows, new.pos = H.pos + Top.len,
         new.knows = "size" => new.size = rec'.size,
         Len(stack) > 1 /\ H.knows = "size" => new.size = new.pos,
         Len(stack) = 1 /\ call.kind = "resize" /\ H.knows = "size" => rec'.size = H.pos
  PROVE  LocalInv'
<1>a. stack \in Seq(FrameRec) /\ stack # << >>
  BY DEF LocalInv, StackInv
<1>b. PICK n \in Nat : n = Len(stack) /\ n >= 1
  BY <1>a
<1>1. /\ call \in CallRec /\ call.h \in Handle /\ call.at \in 0..MaxUnits /\ call.len \in Nat
      /\ H \in HandleRec /\ H.pos \in Nat
      /\ H.knows = "size" => H.size = rec.size /\ rec.inUse
  BY CallerIs DEF HandleRec
<1>2. /\ stack \in Seq(FrameRec) /\ stack # << >> /\ n \in Nat /\ n >= 1
      /\ \A i \in 1..n : Base(i) + stack[i].len <= MaxUnits
      /\ \A i \in 1..(n - 1) :
           /\ Base(i + 1) + stack[i].gap = stack[i].goal
           /\ 0 < stack[i + 1].len /\ stack[i + 1].len <= stack[i].gap
      /\ call.kind = "resize" => stack[1].len = 0 /\ Base(1) = call.len
      /\ call.kind \in {"write", "resize"}
  BY <1>a, <1>b DEF LocalInv, StackInv
<1>3. \A i \in 1..n : /\ stack[i] \in FrameRec
                      /\ stack[i].len \in Nat /\ stack[i].goal \in Nat /\ stack[i].gap \in Nat
  <2>1. SUFFICES ASSUME NEW i \in 1..n
                 PROVE  /\ stack[i] \in FrameRec
                        /\ stack[i].len \in Nat /\ stack[i].goal \in Nat /\ stack[i].gap \in Nat
    OBVIOUS
  <2>2. stack[i] \in FrameRec
    BY <1>a, <1>b
  <2> QED BY <2>2 DEF FrameRec
<1>4. CASE n = 1
  <2> DEFINE end == IF call.kind = "resize" THEN Resized(new) ELSE new
  <2>1. Become(end, resized) /\ Return("ok")
    BY <1>b, <1>4, Zenon DEF Finish
  <2>2. end \in HandleRec
    <3>1. Smaller(call.at, call.len) \in 0..MaxUnits
      BY <1>1, Constants DEF Smaller
    <3>2. Resized(new) \in HandleRec
      BY <3>1, <1>1 DEF Resized, HandleRec
    <3> QED BY <3>2
  <2>3. end.knows = "size" => end.size = rec'.size /\ rec'.inUse
    <3>1. CASE call.kind = "resize"
      <4>1. Resized(new).knows = new.knows /\ Resized(new).size = call.len
        BY DEF Resized, HandleRec
      <4>2. H.pos = call.len
        BY <3>1, <1>2, <1>b, <1>4 DEF Base
      <4> QED BY <3>1, <4>1, <4>2, <1>1, <1>b, <1>4
    <3>2. CASE call.kind # "resize"
      BY <3>2, <1>1
    <3> QED BY <3>1, <3>2
  <2> HIDE DEF end
  <2>4. /\ handles' \in [Handle -> HandleRec \cup {None}]
        /\ \A h \in Handle : handles'[h] # None /\ handles'[h].knows = "size" =>
             handles'[h].size = rec'.size /\ rec'.inUse
    BY <2>1, <2>2, <2>3, BecomeWorks
  <2> QED BY <2>1, <2>4, ReturnWorks, NoImageSound DEF Return
<1>5. CASE n > 1
  <2> DEFINE up   == stack[n - 1]
             left == up.gap - Top.len
             less == [up EXCEPT !.gap = left]
             rest == SubSeq(stack, 1, n - 2) \o <<less>>
             on   == IF left = 0 THEN [new EXCEPT !.pos = up.goal] ELSE new
             fill == Frame(Zero, Smaller(Chunk, left))
             go   == IF left = 0 THEN rest ELSE Append(rest, fill)
  <2>0. Len(stack) # 1 /\ Len(stack) - 1 = n - 1 /\ Len(stack) - 2 = n - 2
    BY <1>b, <1>5
  <2>1. /\ Become(on, resized) /\ stack' = go
        /\ pc' = (IF left = 0 THEN "put" ELSE "enter")
        /\ img' = NoImage /\ call' = call
    BY <2>0, Zenon DEF Finish
  <2>2. /\ n - 1 \in 1..n /\ n \in 1..n /\ n - 1 \in 1..(n - 1) /\ Top = stack[n] /\ (n - 1) + 1 = n
    BY <1>b, <1>5 DEF Top
  <2>3. /\ Base(n) = H.pos /\ \A i \in 1..(n - 1) : Base(i) = stack[i].goal
    BY <1>b DEF Base
  <2>4. /\ up \in FrameRec /\ up.goal \in Nat /\ up.gap \in Nat /\ Top.len \in Nat
        /\ H.pos + up.gap = up.goal /\ 0 < Top.len /\ Top.len <= up.gap
        /\ up.goal + up.len <= MaxUnits /\ up.len \in Nat
    BY <1>2, <1>3, <2>2, <2>3
  <2>5. left \in Nat /\ up.goal \in 0..MaxUnits
    BY <2>4, Constants
  <2>6. /\ less \in FrameRec /\ less.gap = left /\ less.goal = up.goal /\ less.len = up.len
    BY <2>4, <2>5 DEF FrameRec
  <2>7. /\ fill \in FrameRec /\ fill.len \in Nat /\ (left > 0 => 0 < fill.len /\ fill.len <= left)
    BY <2>5, Constants DEF Frame, FrameRec, Smaller
  <2>8. /\ on \in HandleRec /\ on.knows = new.knows /\ on.size = new.size
        /\ on.pos = IF left = 0 THEN up.goal ELSE H.pos + Top.len
    BY <2>5 DEF HandleRec
  <2> HIDE DEF less, fill, on, left
  <2>9. /\ rest \in Seq(FrameRec) /\ Len(rest) = n - 1 /\ rest[n - 1] = less
        /\ \A i \in 1..(n - 2) : rest[i] = stack[i]
    <3> DEFINE low == SubSeq(stack, 1, n - 2)
    <3>1. low \in Seq(FrameRec) /\ Len(low) = n - 2 /\ \A i \in 1..(n - 2) : low[i] = stack[i]
      BY <1>a, <1>b, <1>5
    <3> HIDE DEF low
    <3>2. /\ low \o <<less>> \in Seq(FrameRec) /\ Len(low \o <<less>>) = n - 1
          /\ (low \o <<less>>)[n - 1] = less
          /\ \A i \in 1..(n - 2) : (low \o <<less>>)[i] = low[i]
      BY <3>1, <2>6, <1>2, <1>5
    <3> QED BY <3>1, <3>2 DEF low
  <2> HIDE DEF rest
  <2>10. /\ go \in Seq(FrameRec) /\ Len(go) = (IF left = 0 THEN n - 1 ELSE n)
         /\ \A i \in 1..(n - 1) : go[i] = rest[i]
         /\ left # 0 => go[n] = fill
    BY <2>9, <2>7, <1>2, <1>5
  <2> HIDE DEF go
  <2>11. /\ handles' \in [Handle -> HandleRec \cup {None}] /\ handles'[call.h] = on
         /\ \A h \in Handle : handles'[h] # None /\ handles'[h].knows = "size" =>
              handles'[h].size = rec'.size /\ rec'.inUse
    BY <2>1, <2>8, <1>1, BecomeWorks
  <2>12. H' = on
    BY <2>1, <2>11 DEF H
  <2>13. \A i \in 1..(n - 1) : /\ go[i].goal = stack[i].goal /\ go[i].len = stack[i].len
                               /\ (i # n - 1 => go[i].gap = stack[i].gap)
    <3>1. SUFFICES ASSUME NEW i \in 1..(n - 1)
                   PROVE  /\ go[i].goal = stack[i].goal /\ go[i].len = stack[i].len
                          /\ (i # n - 1 => go[i].gap = stack[i].gap)
      OBVIOUS
    <3>2. CASE i = n - 1
      BY <3>2, <2>6, <2>9, <2>10
    <3>3. CASE i # n - 1
      <4>1. i \in 1..(n - 2)
        BY <3>3, <1>b
      <4> QED BY <4>1, <3>1, <2>9, <2>10
    <3> QED BY <3>2, <3>3
  <2>14. go[n - 1].gap = left
    BY <2>6, <2>9, <2>10, <2>2
  <2>15. \A i \in 1..(n - 1) : Base(i)' = stack[i].goal
    <3>1. SUFFICES ASSUME NEW i \in 1..(n - 1) PROVE Base(i)' = stack[i].goal
      OBVIOUS
    <3>2. Base(i)' = IF i = Len(go) THEN on.pos ELSE go[i].goal
      BY <2>1, <2>12 DEF Base
    <3> QED BY <3>2, <2>8, <2>10, <2>13, <1>2
  <2>16. left # 0 => Base(n)' = H.pos + Top.len
    <3>1. Base(n)' = IF n = Len(go) THEN on.pos ELSE go[n].goal
      BY <2>1, <2>12 DEF Base
    <3> QED BY <3>1, <2>8, <2>10
  <2>17. StackInv'
    <3>1. \A i \in 1..Len(go) : Base(i)' + go[i].len <= MaxUnits
      <4>1. ASSUME NEW i \in 1..(n - 1) PROVE Base(i)' + go[i].len <= MaxUnits
        BY <2>3, <2>13, <2>15, <1>2
      <4>2. ASSUME left # 0 PROVE H.pos + Top.len + fill.len <= MaxUnits
        <5>1. left = up.gap - Top.len
          BY DEF left
        <5>2. H.pos + Top.len + left = up.goal /\ H.pos + Top.len \in Nat
          BY <5>1, <2>4, <1>1
        <5>3. up.goal <= MaxUnits /\ up.goal \in Nat /\ MaxUnits \in Nat
          BY <2>4, <2>5, Constants
        <5>4. fill.len <= left /\ fill.len \in Nat /\ left \in Nat
          BY <4>2, <2>5, <2>7
        <5> QED BY <5>2, <5>3, <5>4
      <4>3. left # 0 => Base(n)' + go[n].len <= MaxUnits
        BY <4>2, <2>16, <2>10
      <4> QED BY <4>1, <4>3, <2>10, <1>2
    <3>2. \A i \in 1..(Len(go) - 1) :
            /\ Base(i + 1)' + go[i].gap = go[i].goal
            /\ 0 < go[i + 1].len /\ go[i + 1].len <= go[i].gap
      <4>1. ASSUME NEW i \in 1..(n - 2)
            PROVE  /\ Base(i + 1)' + go[i].gap = go[i].goal
                   /\ 0 < go[i + 1].len /\ go[i + 1].len <= go[i].gap
        <5>1. i \in 1..(n - 1) /\ i + 1 \in 1..(n - 1) /\ i # n - 1
          BY <1>2
        <5>2. /\ Base(i + 1) + stack[i].gap = stack[i].goal
              /\ 0 < stack[i + 1].len /\ stack[i + 1].len <= stack[i].gap
          BY <5>1, <1>2
        <5>3. Base(i + 1)' = Base(i + 1) /\ go[i + 1].len = stack[i + 1].len
          BY <5>1, <2>3, <2>13, <2>15
        <5> QED BY <5>1, <5>2, <5>3, <2>13
      <4>2. ASSUME left # 0
            PROVE  /\ Base(n)' + go[n - 1].gap = go[n - 1].goal
                   /\ 0 < go[n].len /\ go[n].len <= go[n - 1].gap
        <5>1. left = up.gap - Top.len /\ go[n - 1].goal = up.goal
          BY <2>2, <2>13 DEF left
        <5>2. H.pos + Top.len + left = up.goal
          BY <5>1, <2>4, <1>1
        <5> QED BY <5>1, <5>2, <4>2, <2>5, <2>7, <2>10, <2>14, <2>16
      <4> QED BY <4>1, <4>2, <2>2, <2>10, <1>2
    <3>3. call.kind = "resize" => go[1].len = 0 /\ Base(1)' = call.len
      <4>1. 1 \in 1..(n - 1)
        BY <1>2, <1>5
      <4> QED BY <4>1, <2>3, <2>13, <2>15, <1>2
    <3>4. go # << >> /\ pc' \notin {"head", "data", "record"}
      BY <2>1, <2>10, <1>2, <1>5
    <3> QED BY <2>1, <2>10, <3>1, <3>2, <3>3, <3>4, <1>2 DEF StackInv
  <2>18. CallInv'
    BY <2>1, <2>8, <2>12, <1>1 DEF CallInv, Writing
  <2>19. ImgInv' /\ Sound(img)'
    BY <2>1, NoImageSound DEF ImgInv, Sound
  <2>20. KnowInv'
    <3>1. \A h \in Handle : IsOpen(h)' /\ handles'[h].knows = "size" =>
            handles'[h].size = rec'.size /\ rec'.inUse
      BY <2>11 DEF IsOpen
    <3>2. H'.knows = "size" => H'.size = rec'.size /\ rec'.inUse
      BY <2>8, <2>12, <1>1
    <3>3. ASSUME H'.knows = "size"
          PROVE  /\ Len(go) <= 2
                 /\ Len(go) = 2 => H'.pos = H'.size
                 /\ Len(go) = 1 => pc' = "put" /\ H'.pos = H'.size
      <4>1. H.knows = "size" /\ n = 2
        BY <3>3, <2>8, <2>12, <1>b, <1>5 DEF LocalInv, KnowInv
      <4>2. on.size = H.pos + Top.len
        BY <4>1, <2>8, <1>b, <1>5
      <4>3. left = 0 => up.goal = H.pos + Top.len
        BY <2>4, <1>1 DEF left
      <4> QED BY <4>1, <4>2, <4>3, <2>1, <2>8, <2>10, <2>12
    <3> QED BY <2>1, <3>1, <3>2, <3>3 DEF KnowInv
  <2>21. pc' \in {"put", "enter"}
    BY <2>1
  <2> QED BY <2>11, <2>17, <2>18, <2>19, <2>20, <2>21 DEF LocalInv
<1> QED BY <1>b, <1>4, <1>5

(***************************************************************************)
(* A write, between its beginning and its end                              *)
(***************************************************************************)

\* The write on top of the stack.
LEMMA TopIs ==
  ASSUME LocalInv, Writing
  PROVE  /\ stack \in Seq(FrameRec) /\ Len(stack) \in Nat /\ Len(stack) >= 1
         /\ Top \in FrameRec /\ Top.len \in Nat /\ Top.done \in Nat /\ Top.val \in Units
         /\ Target \in Nat /\ Target = H.pos + Top.len /\ Target <= MaxUnits
         /\ H.pos \in Nat /\ H.size \in Nat
         /\ call.kind = "resize" /\ Len(stack) = 1 => Top.len = 0 /\ H.pos = call.len
         /\ H.knows = "size" /\ Len(stack) > 1 => H.pos = H.size
<1>1. /\ stack \in Seq(FrameRec) /\ stack # << >>
      /\ \A i \in 1..Len(stack) : Base(i) + stack[i].len <= MaxUnits
      /\ call.kind = "resize" => stack[1].len = 0 /\ Base(1) = call.len
  BY DEF LocalInv, StackInv
<1>2. Len(stack) \in Nat /\ Len(stack) >= 1 /\ Len(stack) \in 1..Len(stack)
  BY <1>1
<1>3. Top \in FrameRec
  BY <1>1, <1>2 DEF Top
<1>4. Top.len \in Nat /\ Top.done \in Nat /\ Top.val \in Units
  BY <1>3 DEF FrameRec, Units
<1>5. H.pos \in Nat /\ H.size \in Nat
  BY CallerIs
<1>6. Target \in Nat /\ Target = H.pos + Top.len
  BY <1>4, <1>5 DEF Target
<1>7. H.pos + Top.len <= MaxUnits
  BY <1>1, <1>2 DEF Top, Base
<1>8. call.kind = "resize" /\ Len(stack) = 1 => Top.len = 0 /\ H.pos = call.len
  BY <1>1 DEF Top, Base
<1>9. H.knows = "size" /\ Len(stack) > 1 => H.pos = H.size
  <2>1. H.knows = "size" => Len(stack) <= 2 /\ (Len(stack) = 2 => H.pos = H.size)
    BY Zenon DEF LocalInv, KnowInv
  <2>2. Len(stack) \in Nat
    BY <1>2
  <2>3. ASSUME NEW n \in Nat, n > 1, n <= 2 PROVE n = 2
    BY <2>3
  <2> QED BY <2>1, <2>2, <2>3, Zenon
<1> QED BY <1>1, <1>2, <1>3, <1>4, <1>5, <1>6, <1>7, <1>8, <1>9

\* Some of the write on top is done: nothing else on the stack changes.
LEMMA SomeDone ==
  ASSUME LocalInv, Writing, NEW k \in 0..Top.len, stack' = [stack EXCEPT ![Len(stack)].done = k]
  PROVE  /\ stack' \in Seq(FrameRec) /\ Len(stack') = Len(stack)
         /\ \A i \in 1..Len(stack) :
              stack'[i].len = stack[i].len /\ stack'[i].goal = stack[i].goal /\ stack'[i].gap = stack[i].gap
         /\ Top'.done = k
<1> DEFINE n == Len(stack)
           new == [stack[n] EXCEPT !.done = k]
<1>1. stack \in Seq(FrameRec) /\ n \in Nat /\ n \in 1..n /\ stack[n] \in FrameRec /\ k \in Nat
  BY TopIs
<1>2. /\ new \in FrameRec /\ new.len = stack[n].len /\ new.goal = stack[n].goal
      /\ new.gap = stack[n].gap /\ new.done = k
  BY <1>1 DEF FrameRec
<1>3. stack' = [stack EXCEPT ![n] = new]
  OBVIOUS
<1> HIDE DEF new
<1>4. stack' \in Seq(FrameRec) /\ Len(stack') = n
  BY <1>1, <1>2, <1>3
<1>5. \A i \in 1..n : stack'[i] = IF i = n THEN new ELSE stack[i]
  BY <1>1, <1>3
<1>6. Top' = new
  BY <1>1, <1>4, <1>5 DEF Top
<1>7. ASSUME NEW i \in 1..n
      PROVE  stack'[i].len = stack[i].len /\ stack'[i].goal = stack[i].goal /\ stack'[i].gap = stack[i].gap
  BY <1>2, <1>5
<1> QED BY <1>2, <1>4, <1>6, <1>7

\* A step of a write from one place to the next keeps the invariant.
LEMMA OnwardWorks ==
  ASSUME LocalInv, Writing, Top.len > 0,
         pc' \in {"head", "data", "record"}, call' = call, rec' = rec,
         handles' = handles \/ Become(Growing(H), FALSE),
         \/ pc' # "record" /\ stack' = stack
         \/ pc' = "record" /\ \E k \in 0..Top.len : stack' = [stack EXCEPT ![Len(stack)].done = k],
         Sound(img'), img'.inUse = rec.inUse, rec.size < Target,
         pc' \in {"head", "record"} => img'.size = Target,
         pc' \in {"head", "data"} => ~img'.resident,
         pc' = "data" => Target <= Allocated(img')
  PROVE  LocalInv'
<1> DEFINE n == Len(stack)
<1>1. /\ stack \in Seq(FrameRec) /\ n \in Nat /\ n >= 1 /\ n \in 1..n
      /\ Target \in Nat /\ Target = H.pos + Top.len /\ Top.len \in Nat
  BY TopIs
<1>2. /\ stack' \in Seq(FrameRec) /\ Len(stack') = n
      /\ \A i \in 1..n :
           stack'[i].len = stack[i].len /\ stack'[i].goal = stack[i].goal /\ stack'[i].gap = stack[i].gap
      /\ pc' = "record" => Top'.done \in 0..Top.len
  <2>1. CASE pc' # "record" /\ stack' = stack
    BY <2>1, <1>1
  <2>2. CASE pc' = "record" /\ \E k \in 0..Top.len : stack' = [stack EXCEPT ![n].done = k]
    BY <2>2, SomeDone
  <2> QED BY <2>1, <2>2
<1>3. /\ handles' \in [Handle -> HandleRec \cup {None}]
      /\ \A h \in Handle : IsOpen(h)' /\ handles'[h].knows = "size" =>
           handles'[h].size = rec'.size /\ rec'.inUse
      /\ H' \in HandleRec /\ H'.pos = H.pos /\ H'.size = H.size /\ H'.knows = H.knows
  <2>1. CASE handles' = handles
    BY <2>1, CallerIs DEF LocalInv, KnowInv, IsOpen, H
  <2>2. CASE Become(Growing(H), FALSE)
    <3>1. H \in HandleRec /\ (H.knows = "size" => H.size = rec.size /\ rec.inUse)
      BY CallerIs
    <3>2. /\ Growing(H) \in HandleRec /\ Growing(H).pos = H.pos /\ Growing(H).size = H.size
          /\ Growing(H).knows = H.knows
      BY <3>1 DEF Growing, HandleRec
    <3>3. /\ handles' \in [Handle -> HandleRec \cup {None}] /\ handles'[call.h] = Growing(H)
          /\ \A h \in Handle : handles'[h] # None /\ handles'[h].knows = "size" =>
               handles'[h].size = rec'.size /\ rec'.inUse
      BY <2>2, <3>1, <3>2, BecomeWorks
    <3>4. H' = Growing(H)
      BY <3>3 DEF H
    <3> QED BY <3>2, <3>3, <3>4 DEF IsOpen
  <2> QED BY <2>1, <2>2
<1>4. Top'.len = Top.len /\ Target' = Target
  <2>1. Top'.len = Top.len
    BY <1>1, <1>2 DEF Top
  <2> QED BY <2>1, <1>3 DEF Target
<1>5. \A i \in 1..n : Base(i)' = Base(i)
  <2>1. SUFFICES ASSUME NEW i \in 1..n PROVE Base(i)' = Base(i)
    OBVIOUS
  <2>2. Base(i)' = IF i = Len(stack') THEN H'.pos ELSE stack'[i].goal
    BY DEF Base
  <2> QED BY <2>2, <1>2, <1>3 DEF Base
<1>6. Writing' /\ ~Cutting'
  BY DEF Writing, Cutting
<1>7. CallInv'
  BY <1>3, <1>6, CallerIs DEF CallInv
<1>8. StackInv'
  <2>1. /\ call.kind \in {"write", "resize"}
        /\ \A i \in 1..n : Base(i) + stack[i].len <= MaxUnits
        /\ \A i \in 1..(n - 1) :
             /\ Base(i + 1) + stack[i].gap = stack[i].goal
             /\ 0 < stack[i + 1].len /\ stack[i + 1].len <= stack[i].gap
        /\ call.kind = "resize" => stack[1].len = 0 /\ Base(1) = call.len
    BY DEF LocalInv, StackInv
  <2>2. \A i \in 1..Len(stack') : Base(i)' + stack'[i].len <= MaxUnits
    BY <2>1, <1>2, <1>5
  <2>3. \A i \in 1..(Len(stack') - 1) :
          /\ Base(i + 1)' + stack'[i].gap = stack'[i].goal
          /\ 0 < stack'[i + 1].len /\ stack'[i + 1].len <= stack'[i].gap
    <3>1. SUFFICES ASSUME NEW i \in 1..(n - 1)
                   PROVE  /\ Base(i + 1)' + stack'[i].gap = stack'[i].goal
                          /\ 0 < stack'[i + 1].len /\ stack'[i + 1].len <= stack'[i].gap
      BY <1>2
    <3>2. i \in 1..n /\ i + 1 \in 1..n
      BY <1>1
    <3>3. /\ Base(i + 1) + stack[i].gap = stack[i].goal
          /\ 0 < stack[i + 1].len /\ stack[i + 1].len <= stack[i].gap
      BY <2>1
    <3>4. Base(i + 1)' = Base(i + 1)
      BY <3>2, <1>5
    <3> QED BY <3>2, <3>3, <3>4, <1>2
  <2>4. call.kind = "resize" => stack'[1].len = 0 /\ Base(1)' = call.len
    BY <2>1, <1>1, <1>2, <1>5
  <2>5. stack' # << >> /\ Top'.len > 0 /\ (pc' = "record" => Top'.done <= Top'.len)
    BY <1>1, <1>2, <1>4
  <2> QED BY <2>1, <2>2, <2>3, <2>4, <2>5, <1>2 DEF StackInv
<1>9. ImgInv'
  <2>1. Allocated(img)' = Allocated(img')
    BY DEF Allocated
  <2> QED BY <2>1, <1>4 DEF ImgInv
<1>10. KnowInv'
  <2>1. H.knows = "size" => Len(stack) <= 2
    BY DEF LocalInv, KnowInv
  <2>2. ~(call.kind = "resize" /\ n = 1)
    BY TopIs
  <2> QED BY <2>1, <2>2, <1>2, <1>3, CallerIs, TopIs DEF KnowInv
<1>11. Sound(img)'
  BY DEF Sound
<1> QED BY <1>3, <1>7, <1>8, <1>9, <1>10, <1>11 DEF LocalInv

(***************************************************************************)
(* The record                                                              *)
(***************************************************************************)
LEMMA RecordIs ==
  ASSUME NEW r, Sound(r)
  PROVE  /\ r \in FileRec /\ r.inUse \in BOOLEAN /\ r.resident \in BOOLEAN
         /\ r.value \in Seq(Units) /\ Len(r.value) \in Nat
         /\ r.map \in Seq(Cluster) /\ Len(r.map) \in Nat
         /\ r.size \in Nat /\ r.init \in Nat /\ r.init <= r.size
         /\ Allocated(r) = Len(r.map) * PerCluster /\ Allocated(r) \in Nat
         /\ r.resident => r.size = Len(r.value)
         /\ ~r.resident => r.size <= Allocated(r)
         /\ ClustersOf(r) \subseteq Cluster
         /\ Slack(r) \in BOOLEAN
<1>1. /\ r \in FileRec /\ r.inUse \in BOOLEAN /\ r.resident \in BOOLEAN
      /\ r.value \in Seq(Units) /\ r.map \in Seq(Cluster) /\ r.size \in Nat /\ r.init \in Nat
      /\ r.init <= r.size
      /\ r.resident => r.size = Len(r.value)
      /\ ~r.resident => r.size <= Allocated(r)
  BY DEF Sound, FileRec
<1>2. Len(r.value) \in Nat /\ Len(r.map) \in Nat
  BY <1>1
<1>3. Allocated(r) = Len(r.map) * PerCluster /\ Allocated(r) \in Nat
  BY <1>2, MoreClusters DEF Allocated
<1>4. ClustersOf(r) \subseteq Cluster
  BY <1>1 DEF ClustersOf
<1>5. Slack(r) \in BOOLEAN
  BY <1>1, Zenon DEF Slack
<1> QED BY <1>1, <1>2, <1>3, <1>4, <1>5

\* The record with another value in it.
LEMMA ResidentSound ==
  ASSUME NEW r, Sound(r), r.resident, NEW v \in Seq(Units),
         NEW new, new = [r EXCEPT !.value = v, !.size = Len(v), !.init = Len(v)]
  PROVE  Sound(new) /\ new.inUse = r.inUse /\ new.size = Len(v)
<1>1. r \in FileRec /\ Len(v) \in Nat
  BY RecordIs
<1>2. /\ new \in FileRec /\ new.resident = r.resident /\ new.value = v
      /\ new.size = Len(v) /\ new.init = Len(v) /\ new.inUse = r.inUse
  BY <1>1 DEF FileRec
<1> QED BY <1>1, <1>2 DEF Sound

\* The record with other clusters and sizes.
LEMMA MappedSound ==
  ASSUME NEW r, Sound(r), NEW m \in Seq(Cluster), NEW s \in Nat, NEW i \in Nat,
         i <= s, s <= Len(m) * PerCluster,
         NEW new \in FileRec, ~new.resident, new.map = m, new.size = s, new.init = i
  PROVE  Sound(new) /\ Allocated(new) = Len(m) * PerCluster
BY DEF Sound, Allocated

\* The handle after its own data.
LEMMA MovedIs ==
  ASSUME LocalInv, Writing, NEW k \in 0..Top.len
  PROVE  /\ Moved(k) \in HandleRec /\ Moved(k).pos = H.pos + k
         /\ Moved(k).size = H.size /\ Moved(k).knows = H.knows
         /\ GrownTo(Moved(k)) \in HandleRec /\ GrownTo(Moved(k)).pos = H.pos + k
         /\ GrownTo(Moved(k)).size = Larger(H.size, Target) /\ GrownTo(Moved(k)).knows = H.knows
<1>1. /\ H \in HandleRec /\ H.pos \in Nat /\ H.size \in Nat /\ Target \in Nat
      /\ Target = H.pos + Top.len /\ Target <= MaxUnits /\ Top.len \in Nat
  BY TopIs, CallerIs
<1>2. H.pos + k \in 0..MaxUnits /\ Larger(H.size, Target) \in Nat
  BY <1>1, Constants DEF Larger
<1>3. /\ Moved(k) \in HandleRec /\ Moved(k).pos = H.pos + k
      /\ Moved(k).size = H.size /\ Moved(k).knows = H.knows
  BY <1>1, <1>2 DEF Moved, HandleRec
<1> HIDE DEF Moved
<1>4. /\ GrownTo(Moved(k)) \in HandleRec /\ GrownTo(Moved(k)).pos = H.pos + k
      /\ GrownTo(Moved(k)).size = Larger(H.size, Target) /\ GrownTo(Moved(k)).knows = H.knows
  BY <1>2, <1>3 DEF GrownTo, HandleRec
<1> QED BY <1>3, <1>4

(***************************************************************************)
(* Each step keeps the invariant                                           *)
(***************************************************************************)
LEMMA FillGapStep == ASSUME IInv, FillGap PROVE IInv'
<1> DEFINE gap  == H.pos - H.size
           up   == [Top EXCEPT !.goal = H.pos, !.gap = gap]
           fill == Frame(Zero, Smaller(Chunk, gap))
           on   == [H EXCEPT !.pos = H.size]
<1>1. /\ pc = "enter" /\ pc' = pc /\ H.pos > H.size /\ call' = call /\ img' = img /\ rec' = rec
      /\ UNCHANGED <<bits, data, kept, trouble>>
      /\ Become(on, FALSE)
      /\ stack' = [stack EXCEPT ![Len(stack)] = up] \o <<fill>>
  BY DEF FillGap, Top, disk
<1>2. Writing /\ LocalInv
  BY <1>1 DEF IInv, Writing
<1>a. stack \in Seq(FrameRec) /\ Len(stack) \in Nat /\ Len(stack) >= 1
  BY <1>2, TopIs
<1>b. PICK n \in Nat : n = Len(stack) /\ n >= 1
  BY <1>a
<1>3. /\ Top \in FrameRec /\ Top.len \in Nat /\ Top = stack[n]
      /\ H.pos \in Nat /\ H.size \in Nat /\ H.pos + Top.len <= MaxUnits /\ H.pos <= MaxUnits
      /\ H \in HandleRec /\ (H.knows = "size" => H.size = rec.size /\ rec.inUse)
      /\ call.h \in Handle
  BY <1>2, <1>b, TopIs, CallerIs, Constants DEF Top
<1>4. gap \in Nat /\ gap > 0 /\ H.size + gap = H.pos
  BY <1>1, <1>3
<1>5. up \in FrameRec /\ up.goal = H.pos /\ up.gap = gap /\ up.len = Top.len
  BY <1>3, <1>4 DEF FrameRec
<1>6. fill \in FrameRec /\ fill.len \in Nat /\ 0 < fill.len /\ fill.len <= gap
  BY <1>4, Constants DEF Frame, FrameRec, Smaller
<1>7. on \in HandleRec /\ on.pos = H.size /\ on.size = H.size /\ on.knows = H.knows
  <2>1. H.size \in 0..MaxUnits
    BY <1>1, <1>3, Constants
  <2> QED BY <2>1, <1>3 DEF HandleRec
<1> HIDE DEF gap, up, fill, on
<1>8. /\ stack' \in Seq(FrameRec) /\ Len(stack') = n + 1 /\ stack'[n + 1] = fill /\ stack'[n] = up
      /\ \A i \in 1..(n - 1) : stack'[i] = stack[i]
  <2> DEFINE low == [stack EXCEPT ![n] = up]
  <2>1. low \in Seq(FrameRec) /\ Len(low) = n /\ low[n] = up /\ \A i \in 1..(n - 1) : low[i] = stack[i]
    BY <1>a, <1>b, <1>5
  <2>2. stack' = low \o <<fill>>
    BY <1>1, <1>b
  <2> HIDE DEF low
  <2>3. /\ low \o <<fill>> \in Seq(FrameRec) /\ Len(low \o <<fill>>) = n + 1
        /\ (low \o <<fill>>)[n + 1] = fill
        /\ \A i \in 1..n : (low \o <<fill>>)[i] = low[i]
    BY <2>1, <1>6
  <2> QED BY <2>1, <2>2, <2>3, <1>b
<1>9. /\ handles' \in [Handle -> HandleRec \cup {None}] /\ handles'[call.h] = on
      /\ \A h \in Handle : handles'[h] # None /\ handles'[h].knows = "size" =>
           handles'[h].size = rec'.size /\ rec'.inUse
  BY <1>1, <1>2, <1>3, <1>7, BecomeWorks
<1>10. H' = on
  BY <1>1, <1>9 DEF H
<1>11. Writing' /\ ~Cutting'
  BY <1>1 DEF Writing, Cutting
<1>12. CallInv'
  BY <1>1, <1>2, <1>7, <1>10, <1>11, CallerIs DEF CallInv
<1>13. /\ Base(n + 1)' = H.size /\ Base(n)' = H.pos /\ Base(n) = H.pos
       /\ \A i \in 1..(n - 1) : Base(i)' = stack[i].goal /\ Base(i) = stack[i].goal
  <2>1. Base(n + 1)' = H.size
    BY <1>7, <1>8, <1>10 DEF Base
  <2>2. Base(n)' = up.goal
    <3>1. Base(n)' = IF n = Len(stack') THEN H'.pos ELSE stack'[n].goal
      BY DEF Base
    <3> QED BY <3>1, <1>8
  <2>3. ASSUME NEW i \in 1..(n - 1) PROVE Base(i)' = stack[i].goal /\ Base(i) = stack[i].goal
    <3>1. Base(i)' = IF i = Len(stack') THEN H'.pos ELSE stack'[i].goal
      BY DEF Base
    <3> QED BY <3>1, <1>8, <1>b DEF Base
  <2>4. Base(n) = H.pos
    BY <1>b DEF Base
  <2> QED BY <2>1, <2>2, <2>3, <2>4, <1>5
<1>14. StackInv'
  <2>1. /\ call.kind \in {"write", "resize"}
        /\ \A i \in 1..n : Base(i) + stack[i].len <= MaxUnits
        /\ \A i \in 1..(n - 1) :
             /\ Base(i + 1) + stack[i].gap = stack[i].goal
             /\ 0 < stack[i + 1].len /\ stack[i + 1].len <= stack[i].gap
        /\ call.kind = "resize" => stack[1].len = 0 /\ Base(1) = call.len
    BY <1>2, <1>b DEF LocalInv, StackInv
  <2>2. \A i \in 1..n : Base(i)' = Base(i) /\ stack'[i].len = stack[i].len
    BY <1>3, <1>5, <1>8, <1>13
  <2>3. \A i \in 1..(n + 1) : Base(i)' + stack'[i].len <= MaxUnits
    <3>1. \A i \in 1..n : Base(i)' + stack'[i].len <= MaxUnits
      BY <2>1, <2>2
    <3>2. H.size + fill.len <= MaxUnits
      BY <1>3, <1>4, <1>6, Constants
    <3> QED BY <3>1, <3>2, <1>8, <1>13
  <2>4. \A i \in 1..n : /\ Base(i + 1)' + stack'[i].gap = stack'[i].goal
                        /\ 0 < stack'[i + 1].len /\ stack'[i + 1].len <= stack'[i].gap
    <3>1. ASSUME NEW i \in 1..(n - 1)
          PROVE  /\ Base(i + 1)' + stack'[i].gap = stack'[i].goal
                 /\ 0 < stack'[i + 1].len /\ stack'[i + 1].len <= stack'[i].gap
      <4>1. i + 1 \in 1..n /\ stack'[i] = stack[i]
        BY <1>8
      <4>2. Base(i + 1)' = Base(i + 1) /\ stack'[i + 1].len = stack[i + 1].len
        BY <4>1, <2>2
      <4> QED BY <4>1, <4>2, <2>1
    <3>2. /\ Base(n + 1)' + stack'[n].gap = stack'[n].goal
          /\ 0 < stack'[n + 1].len /\ stack'[n + 1].len <= stack'[n].gap
      BY <1>4, <1>5, <1>6, <1>8, <1>13
    <3> QED BY <3>1, <3>2
  <2>5. call.kind = "resize" => stack'[1].len = 0 /\ Base(1)' = call.len
    BY <2>1, <2>2, <1>b
  <2>6. stack' # << >> /\ Len(stack') - 1 = n
    BY <1>8
  <2> QED BY <1>1, <1>8, <2>1, <2>3, <2>4, <2>5, <2>6 DEF StackInv
<1>15. ImgInv' /\ Sound(img)'
  BY <1>1, <1>2 DEF ImgInv, LocalInv, Sound
<1>16. KnowInv'
  <2>1. H'.knows = "size" => n = 1
    BY <1>1, <1>2, <1>3, <1>7, <1>10, <1>b, TopIs
  <2>2. H'.knows = "size" => Len(stack') = 2 /\ H'.pos = H'.size
    BY <2>1, <1>7, <1>8, <1>10
  <2> QED BY <2>2, <1>1, <1>3, <1>7, <1>9, <1>10 DEF KnowInv, IsOpen
<1>17. LocalInv'
  BY <1>1, <1>9, <1>12, <1>14, <1>15, <1>16 DEF LocalInv
<1>18. DiskInv'
  BY <1>1 DEF IInv, DiskInv, Sound
<1> QED BY <1>17, <1>18 DEF IInv

LEMMA WriteNothingStep == ASSUME IInv, WriteNothing PROVE IInv'
<1>1. /\ Ready /\ Top.len = 0 /\ Finish(H, FALSE) /\ UNCHANGED <<bits, data, rec, kept, trouble>>
  BY DEF WriteNothing, disk
<1>2. Writing /\ LocalInv
  BY <1>1 DEF IInv, Ready, Writing
<1>3. /\ H \in HandleRec /\ (H.knows = "size" => H.size = rec.size)
      /\ H.pos \in Nat /\ H.size \in Nat /\ Top.len \in Nat
  BY <1>2, CallerIs, TopIs
<1>4. H.pos = H.pos + Top.len
  BY <1>1, <1>3
<1>5. Len(stack) > 1 /\ H.knows = "size" => H.size = H.pos
  BY <1>2, <1>3, TopIs
<1>6. Len(stack) = 1 /\ call.kind = "resize" /\ H.knows = "size" => rec.size = H.pos
  <2>1. SUFFICES ASSUME Len(stack) = 1, call.kind = "resize", H.knows = "size"
                 PROVE  rec.size = H.pos
    OBVIOUS
  <2>2. IF pc = "enter" THEN H.size < H.pos ELSE pc = "put" /\ H.pos = H.size
    BY <1>2, <2>1 DEF LocalInv, KnowInv
  <2> QED BY <1>1, <1>3, <2>1, <2>2 DEF Ready
<1>7. LocalInv'
  BY <1>1, <1>2, <1>3, <1>4, <1>5, <1>6, FinishWorks
<1>8. DiskInv'
  BY <1>1 DEF IInv, DiskInv, Sound
<1> QED BY <1>7, <1>8 DEF IInv

\* Where a write of at least one unit begins, and that it is in the bounds.
LEMMA ReadyIs ==
  ASSUME IInv, Ready, Top.len > 0
  PROVE  /\ Writing /\ LocalInv /\ DiskInv /\ Sound(rec)
         /\ ~(Len(stack) = 1 /\ call.kind = "resize")
         /\ H.pos < Target
<1>1. Writing /\ LocalInv /\ DiskInv
  BY DEF IInv, Ready, Writing
<1> QED BY <1>1, TopIs DEF DiskInv

LEMMA WriteResidentStep == ASSUME IInv, WriteResident PROVE IInv'
<1> DEFINE value == Splice(rec.value, H.pos, Top.len, Top.val)
           grows == Len(value) > Len(rec.value)
           to    == IF grows THEN GrownTo(Moved(Top.len)) ELSE Moved(Top.len)
<1>1. /\ Ready /\ Top.len > 0 /\ rec.resident /\ UNCHANGED <<bits, data, kept, trouble>>
      /\ \/ /\ rec' = [rec EXCEPT !.value = value, !.size = Len(value), !.init = Len(value)]
            /\ Finish(to, grows)
         \/ Fail(H, FALSE) /\ rec' = rec
  BY DEF WriteResident
<1>2. Writing /\ LocalInv /\ DiskInv /\ Sound(rec) /\ ~(Len(stack) = 1 /\ call.kind = "resize")
  BY <1>1, ReadyIs
<1>3. /\ H \in HandleRec /\ (H.knows = "size" => H.size = rec.size /\ rec.inUse)
      /\ H.pos \in Nat /\ H.size \in Nat /\ Top.len \in Nat /\ Top.val \in Units
      /\ Target = H.pos + Top.len /\ Target \in Nat
      /\ (H.knows = "size" /\ Len(stack) > 1 => H.pos = H.size)
  BY <1>2, CallerIs, TopIs
<1>4. /\ rec.value \in Seq(Units) /\ Len(rec.value) \in Nat /\ rec.size = Len(rec.value)
  BY <1>1, <1>2, RecordIs
<1>5. /\ value \in Seq(Units) /\ Len(value) = Larger(Len(rec.value), Target)
  BY <1>3, <1>4, SpliceType
<1> HIDE DEF value
<1>6. CASE /\ rec' = [rec EXCEPT !.value = value, !.size = Len(value), !.init = Len(value)]
           /\ Finish(to, grows)
  <2>1. Sound(rec') /\ rec'.inUse = rec.inUse /\ rec'.size = Len(value)
    BY <1>1, <1>2, <1>5, <1>6, ResidentSound
  <2>2. rec'.size = rec.size \/ grows
    BY <2>1, <1>3, <1>4, <1>5 DEF Larger
  <2>3. /\ to \in HandleRec /\ to.knows = H.knows /\ to.pos = H.pos + Top.len
        /\ to.size = IF grows THEN Larger(H.size, Target) ELSE H.size
    BY <1>2, <1>3, MovedIs
  <2>4. grows \in BOOLEAN
    OBVIOUS
  <2> HIDE DEF to
  <2>5. to.knows = "size" => to.size = rec'.size
    BY <2>1, <2>3, <1>3, <1>4, <1>5 DEF Larger
  <2>6. Len(stack) > 1 /\ H.knows = "size" => to.size = to.pos
    BY <2>3, <1>1, <1>3, <1>4, <1>5 DEF Larger
  <2> HIDE DEF grows
  <2>7. LocalInv'
    BY <2>1, <2>2, <2>3, <2>4, <2>5, <2>6, <1>2, <1>6, FinishWorks
  <2>8. DiskInv'
    BY <2>1, <1>1, <1>2 DEF DiskInv, Sound
  <2> QED BY <2>7, <2>8 DEF IInv
<1>7. CASE Fail(H, FALSE) /\ rec' = rec
  <2>1. LocalInv'
    BY <1>2, <1>3, <1>7, FailWorks
  <2>2. DiskInv'
    BY <1>1, <1>2, <1>7 DEF DiskInv, Sound
  <2> QED BY <2>1, <2>2 DEF IInv
<1> QED BY <1>1, <1>6, <1>7

\* A call that fails leaves the record as it was.
LEMMA FailsAlone ==
  ASSUME IInv, Writing \/ Cutting, Fail(H, FALSE), UNCHANGED <<rec, kept, trouble>>,
         bits' \subseteq Cluster, data' \in [Cluster -> [1..PerCluster -> Units]]
  PROVE  IInv'
<1>1. LocalInv /\ DiskInv
  BY DEF IInv
<1>2. H \in HandleRec /\ (H.knows = "size" => H.size = rec.size /\ rec.inUse)
  BY <1>1, CallerIs
<1>3. LocalInv'
  BY <1>1, <1>2, FailWorks
<1>4. DiskInv'
  BY <1>1 DEF DiskInv, Sound
<1> QED BY <1>3, <1>4 DEF IInv

LEMMA RefusedStep == ASSUME IInv, ConvertRefused \/ GrowRefused \/ CutRefused PROVE IInv'
<1>1. Fail(H, FALSE) /\ UNCHANGED <<bits, data, rec, kept, trouble>> /\ (Ready \/ pc = "cut")
  BY DEF ConvertRefused, GrowRefused, CutRefused, disk
<1>2. Writing \/ Cutting
  BY <1>1 DEF Ready, Writing, Cutting
<1>3. bits' \subseteq Cluster /\ data' \in [Cluster -> [1..PerCluster -> Units]]
  BY <1>1 DEF IInv, DiskInv
<1> QED BY <1>1, <1>2, <1>3, FailsAlone

LEMMA ConvertAllocateStep == ASSUME IInv, ConvertAllocate PROVE IInv'
<1> DEFINE k == Larger(Clusters(Target), Quantum)
<1>1. /\ Ready /\ Top.len > 0 /\ rec.resident /\ ~InRecord
      /\ \E run \in FreeRun(k) :
           /\ bits' = bits \cup {run[i] : i \in 1..k}
           /\ img' = [rec EXCEPT !.resident = FALSE, !.value = << >>, !.size = Target,
                                 !.init = Target, !.map = run]
      /\ pc' = "head"
      /\ UNCHANGED <<data, rec, handles, call, stack, kept, trouble>>
  BY DEF ConvertAllocate
<1>2. Writing /\ LocalInv /\ DiskInv /\ Sound(rec)
  BY <1>1, ReadyIs
<1>3. Target \in Nat
  BY <1>2, TopIs
<1>4. /\ Clusters(Target) \in Nat /\ Target <= Clusters(Target) * PerCluster /\ Quantum \in Nat
  BY <1>3, ClustersHold, Constants
<1>5. k \in Nat /\ Clusters(Target) <= k
  BY <1>4 DEF Larger
<1> HIDE DEF k
<1>6. Target <= k * PerCluster
  <2>1. Clusters(Target) * PerCluster <= k * PerCluster
    BY <1>4, <1>5, MoreClusters
  <2>2. Clusters(Target) * PerCluster \in Nat /\ k * PerCluster \in Nat
    BY <1>4, <1>5, MoreClusters
  <2> QED BY <2>1, <2>2, <1>3, <1>4
<1>7. PICK run \in FreeRun(k) :
           /\ bits' = bits \cup {run[i] : i \in 1..k}
           /\ img' = [rec EXCEPT !.resident = FALSE, !.value = << >>, !.size = Target,
                                 !.init = Target, !.map = run]
  BY <1>1
<1>8. run \in Seq(Cluster) /\ Len(run) = k /\ {run[i] : i \in 1..k} \subseteq Cluster
  BY <1>5, FreeRunType
<1>9. /\ img' \in FileRec /\ ~img'.resident /\ img'.map = run /\ img'.size = Target
      /\ img'.init = Target /\ img'.inUse = rec.inUse
  <2>1. rec \in FileRec /\ << >> \in Seq(Units)
    BY <1>2, RecordIs
  <2> QED BY <2>1, <1>3, <1>7, <1>8 DEF FileRec
<1>10. Sound(img')
  BY <1>3, <1>6, <1>8, <1>9, <1>2, MappedSound
<1>11. rec.size < Target
  <2>1. rec.size = Len(rec.value) /\ Len(rec.value) \in Nat /\ Room \in Nat
    BY <1>1, <1>2, RecordIs, Constants
  <2> QED BY <2>1, <1>1, <1>3 DEF InRecord, Larger
<1>12. LocalInv'
  BY <1>1, <1>2, <1>9, <1>10, <1>11, OnwardWorks
<1>13. bits' \subseteq Cluster
  BY <1>2, <1>7, <1>8 DEF DiskInv
<1>14. DiskInv'
  BY <1>1, <1>2, <1>13 DEF DiskInv, Sound
<1> QED BY <1>12, <1>14 DEF IInv

LEMMA ConvertFillStep == ASSUME IInv, ConvertFill PROVE IInv'
<1> DEFINE unit(i) == IF i <= Len(Composed) THEN Composed[i] ELSE Zero
           new     == ClustersOf(img)
           filled  == [c \in Cluster |->
                 IF c \notin new THEN data[c]
                 ELSE LET k == CHOOSE k \in DOMAIN img.map : img.map[k] = c
                      IN  [j \in 1..PerCluster |-> unit((k - 1) * PerCluster + j)]]
<1>1. /\ pc = "head" /\ UNCHANGED <<rec, kept, trouble>>
      /\ \/ /\ data' = filled
            /\ stack' = [stack EXCEPT ![Len(stack)].done = Top.len]
            /\ pc' = "record"
            /\ UNCHANGED <<bits, handles, call, img>>
         \/ bits' = bits \ new /\ Fail(H, FALSE) /\ UNCHANGED data
  BY DEF ConvertFill
<1>2. Writing /\ LocalInv /\ DiskInv /\ Sound(rec) /\ Sound(img)
  BY <1>1 DEF IInv, Writing, DiskInv, LocalInv
<1>3. filled \in [Cluster -> [1..PerCluster -> Units]]
  <2>1. Composed \in Seq(Units)
    <3>1. rec.value \in Seq(Units) /\ H.pos \in Nat /\ Top.len \in Nat /\ Top.val \in Units
      BY <1>2, RecordIs, TopIs
    <3>2. Smaller(Len(rec.value), H.pos) \in 0..Len(rec.value)
      BY <3>1 DEF Smaller
    <3>3. SubSeq(rec.value, 1, Smaller(Len(rec.value), H.pos)) \in Seq(Units)
      BY <3>1, <3>2
    <3> QED BY <3>1, <3>3, SpliceType DEF Composed
  <2> HIDE DEF new
  <2>2. ASSUME NEW k \in Nat, k >= 1, NEW j \in 1..PerCluster
        PROVE  unit((k - 1) * PerCluster + j) \in Units
    <3> DEFINE i == (k - 1) * PerCluster + j
    <3>1. k - 1 \in Nat /\ j \in Nat /\ j >= 1
      BY <2>2, Constants
    <3>2. (k - 1) * PerCluster \in Nat
      BY <3>1, MoreClusters
    <3>3. i \in Nat /\ i >= 1
      BY <3>1, <3>2
    <3> HIDE DEF i
    <3>4. unit(i) \in Units
      <4>1. CASE i <= Len(Composed)
        BY <4>1, <3>3, <2>1
      <4>2. CASE ~(i <= Len(Composed))
        BY <4>2, Constants
      <4> QED BY <4>1, <4>2
    <3> QED BY <3>4 DEF i
  <2> HIDE DEF unit
  <2>3. ASSUME NEW c \in Cluster, c \in new
        PROVE  (CHOOSE k \in DOMAIN img.map : img.map[k] = c) \in Nat \ {0}
    <3>1. img.map \in Seq(Cluster)
      BY <1>2, RecordIs
    <3>2. \E k \in DOMAIN img.map : img.map[k] = c
      BY <2>3 DEF new, ClustersOf
    <3>3. (CHOOSE k \in DOMAIN img.map : img.map[k] = c) \in DOMAIN img.map
      BY <3>2, Zenon
    <3>4. DOMAIN img.map \subseteq Nat \ {0}
      BY <3>1
    <3> QED BY <3>3, <3>4
  <2>4. ASSUME NEW c \in Cluster
        PROVE  filled[c] \in [1..PerCluster -> Units]
    <3>1. CASE c \notin new
      BY <3>1, <1>2 DEF DiskInv
    <3>2. CASE c \in new
      <4> DEFINE k == CHOOSE k \in DOMAIN img.map : img.map[k] = c
      <4>1. k \in Nat /\ k >= 1
        BY <2>3, <3>2
      <4>2. filled[c] = [j \in 1..PerCluster |-> unit((k - 1) * PerCluster + j)]
        BY <3>2
      <4> HIDE DEF k, filled
      <4>3. \A j \in 1..PerCluster : unit((k - 1) * PerCluster + j) \in Units
        BY <4>1, <2>2
      <4> QED BY <4>2, <4>3
    <3> QED BY <3>1, <3>2
  <2>5. filled = [c \in Cluster |-> filled[c]]
    OBVIOUS
  <2> HIDE DEF filled
  <2> QED BY <2>4, <2>5
<1> HIDE DEF filled
<1>4. CASE /\ data' = filled
           /\ stack' = [stack EXCEPT ![Len(stack)].done = Top.len]
           /\ pc' = "record"
           /\ UNCHANGED <<bits, handles, call, img>>
  <2>1. Top.len > 0 /\ img.inUse = rec.inUse /\ rec.size < Target /\ img.size = Target
    BY <1>1, <1>2 DEF LocalInv, StackInv, ImgInv
  <2>2. Top.len \in 0..Top.len
    BY <1>2, TopIs
  <2>3. LocalInv'
    BY <1>1, <1>2, <1>4, <2>1, <2>2, OnwardWorks
  <2>4. DiskInv'
    BY <1>1, <1>2, <1>3, <1>4 DEF DiskInv, Sound
  <2> QED BY <2>3, <2>4 DEF IInv
<1>5. CASE bits' = bits \ new /\ Fail(H, FALSE) /\ UNCHANGED data
  <2>1. bits' \subseteq Cluster /\ data' \in [Cluster -> [1..PerCluster -> Units]]
    BY <1>2, <1>5 DEF DiskInv
  <2> QED BY <1>1, <1>2, <1>5, <2>1, FailsAlone
<1> QED BY <1>1, <1>4, <1>5

LEMMA GrowAllocateStep == ASSUME IInv, GrowAllocate PROVE IInv'
<1> DEFINE need == Clusters(Target - Allocated(rec))
           k    == Larger(need, Quantum)
<1>1. /\ Ready /\ Top.len > 0 /\ ~rec.resident /\ ~InClusters
      /\ \E new \in FreeRun(k) :
           /\ bits' = bits \cup {new[i] : i \in 1..k}
           /\ img' = [rec EXCEPT !.map = @ \o new]
      /\ pc' = "data"
      /\ Become(Growing(H), FALSE)
      /\ UNCHANGED <<data, rec, call, stack, kept, trouble>>
  BY DEF GrowAllocate
<1>2. Writing /\ LocalInv /\ DiskInv /\ Sound(rec)
  BY <1>1, ReadyIs
<1>3. /\ Target \in Nat /\ rec \in FileRec /\ rec.map \in Seq(Cluster) /\ Len(rec.map) \in Nat
      /\ Allocated(rec) \in Nat /\ Allocated(rec) = Len(rec.map) * PerCluster
      /\ rec.size \in Nat /\ rec.size <= Allocated(rec) /\ rec.init \in Nat /\ rec.init <= rec.size
  BY <1>1, <1>2, TopIs, RecordIs
<1>4. Allocated(rec) < Target /\ Target - Allocated(rec) \in Nat
  BY <1>1, <1>3 DEF InClusters
<1>5. need \in Nat /\ Target - Allocated(rec) <= need * PerCluster /\ Quantum \in Nat
  BY <1>4, ClustersHold, Constants
<1>6. k \in Nat /\ need <= k
  BY <1>5 DEF Larger
<1> HIDE DEF k, need
<1>7. Target <= (Len(rec.map) + k) * PerCluster /\ (Len(rec.map) + k) * PerCluster \in Nat
  <2>1. need * PerCluster <= k * PerCluster /\ need * PerCluster \in Nat /\ k * PerCluster \in Nat
    BY <1>5, <1>6, MoreClusters
  <2>2. (Len(rec.map) + k) * PerCluster = Allocated(rec) + k * PerCluster
    <3>1. (Len(rec.map) + k) * PerCluster = Len(rec.map) * PerCluster + k * PerCluster
      BY <1>3, <1>6, MoreClusters, Zenon
    <3> QED BY <3>1, <1>3
  <2> QED BY <2>1, <2>2, <1>3, <1>4, <1>5
<1>8. PICK new \in FreeRun(k) :
           /\ bits' = bits \cup {new[i] : i \in 1..k}
           /\ img' = [rec EXCEPT !.map = @ \o new]
  BY <1>1
<1>9. new \in Seq(Cluster) /\ Len(new) = k /\ {new[i] : i \in 1..k} \subseteq Cluster
  BY <1>6, FreeRunType
<1>10. rec.map \o new \in Seq(Cluster) /\ Len(rec.map \o new) = Len(rec.map) + k
  BY <1>3, <1>9
<1>11. /\ img' \in FileRec /\ ~img'.resident /\ img'.map = rec.map \o new /\ img'.size = rec.size
       /\ img'.init = rec.init /\ img'.inUse = rec.inUse
  BY <1>1, <1>3, <1>8, <1>10 DEF FileRec
<1>12. rec.size <= (Len(rec.map) + k) * PerCluster
  BY <1>3, <1>4, <1>7
<1>13. Sound(img') /\ Allocated(img') = (Len(rec.map) + k) * PerCluster
  BY <1>2, <1>3, <1>10, <1>11, <1>12, MappedSound
<1>14. rec.size < Target
  BY <1>3, <1>4
<1>15. LocalInv'
  BY <1>1, <1>2, <1>7, <1>11, <1>13, <1>14, OnwardWorks
<1>16. bits' \subseteq Cluster
  BY <1>2, <1>8, <1>9 DEF DiskInv
<1>17. DiskInv'
  BY <1>1, <1>2, <1>16, SpoiltType DEF DiskInv, Sound
<1> QED BY <1>15, <1>17 DEF IInv

LEMMA WriteDataStep == ASSUME IInv, WriteData PROVE IInv'
<1> DEFINE r == IF pc = "data" THEN img ELSE rec
<1>1. /\ pc = "data" \/ (Ready /\ Top.len > 0 /\ ~rec.resident /\ InClusters)
      /\ \E k \in 0..Top.len :
           /\ data' = Written(r, H.pos, k, Top.val)
           /\ IF Target > rec.size
              THEN /\ img' = [r EXCEPT !.size = Target, !.init = Target]
                   /\ stack' = [stack EXCEPT ![Len(stack)].done = k]
                   /\ pc' = "record"
                   /\ Hit(IF k = Top.len THEN {} ELSE {"short"})
                   /\ UNCHANGED <<handles, call>>
              ELSE /\ UNCHANGED trouble
                   /\ IF k = Top.len THEN Finish(Moved(k), FALSE) ELSE Fail(Moved(k), FALSE)
      /\ UNCHANGED <<bits, rec, kept>>
  BY DEF WriteData
<1>2. Writing /\ LocalInv /\ DiskInv /\ Sound(rec) /\ Sound(img)
  BY <1>1 DEF IInv, Ready, Writing, DiskInv, LocalInv
<1>3. /\ H \in HandleRec /\ (H.knows = "size" => H.size = rec.size /\ rec.inUse)
      /\ H.pos \in Nat /\ H.size \in Nat /\ Top.len \in Nat /\ Top.val \in Units
      /\ Target = H.pos + Top.len /\ Target \in Nat
      /\ (H.knows = "size" /\ Len(stack) > 1 => H.pos = H.size)
      /\ (call.kind = "resize" /\ Len(stack) = 1 => Top.len = 0)
  BY <1>2, CallerIs, TopIs
<1>4. /\ Top.len > 0 /\ Sound(r) /\ ~r.resident /\ Target <= Allocated(r) /\ r.inUse = rec.inUse
  <2>1. CASE pc = "data"
    BY <2>1, <1>2 DEF LocalInv, StackInv, ImgInv
  <2>2. CASE pc # "data"
    BY <2>2, <1>1, <1>2 DEF InClusters
  <2> QED BY <2>1, <2>2
<1> HIDE DEF r
<1>5. PICK k \in 0..Top.len :
           /\ data' = Written(r, H.pos, k, Top.val)
           /\ IF Target > rec.size
              THEN /\ img' = [r EXCEPT !.size = Target, !.init = Target]
                   /\ stack' = [stack EXCEPT ![Len(stack)].done = k]
                   /\ pc' = "record"
                   /\ Hit(IF k = Top.len THEN {} ELSE {"short"})
                   /\ UNCHANGED <<handles, call>>
              ELSE /\ UNCHANGED trouble
                   /\ IF k = Top.len THEN Finish(Moved(k), FALSE) ELSE Fail(Moved(k), FALSE)
  BY <1>1
<1>6. data' \in [Cluster -> [1..PerCluster -> Units]]
  BY <1>2, <1>3, <1>5, WrittenType DEF DiskInv
<1>7. CASE Target > rec.size
  <2>1. r \in FileRec /\ r.map \in Seq(Cluster) /\ Allocated(r) = Len(r.map) * PerCluster
    BY <1>4, RecordIs
  <2>2. img' = [r EXCEPT !.size = Target, !.init = Target]
    BY <1>5, <1>7
  <2>3. /\ img' \in FileRec /\ ~img'.resident /\ img'.map = r.map /\ img'.size = Target
        /\ img'.init = Target /\ img'.inUse = rec.inUse
    BY <2>1, <2>2, <1>3, <1>4 DEF FileRec
  <2>4. Sound(img')
    BY <2>1, <2>3, <1>3, <1>4, MappedSound
  <2>5. rec.size < Target
    BY <1>2, <1>3, <1>7, RecordIs
  <2>6. LocalInv'
    BY <1>1, <1>2, <1>4, <1>5, <1>7, <2>3, <2>4, <2>5, OnwardWorks
  <2>7. trouble' \subseteq trouble \cup {"short"}
    BY <1>5, <1>7 DEF Hit
  <2>8. DiskInv'
    BY <1>1, <1>2, <1>6, <2>7 DEF DiskInv, Sound
  <2> QED BY <2>6, <2>8 DEF IInv
<1>8. CASE ~(Target > rec.size)
  <2>1. trouble' = trouble /\ IF k = Top.len THEN Finish(Moved(k), FALSE) ELSE Fail(Moved(k), FALSE)
    BY <1>5, <1>8
  <2>2. /\ Moved(k) \in HandleRec /\ Moved(k).pos = H.pos + k
        /\ Moved(k).size = H.size /\ Moved(k).knows = H.knows
    BY <1>2, MovedIs
  <2>3. ~(Len(stack) > 1 /\ H.knows = "size")
    <3>1. rec.size \in Nat
      BY <1>2, RecordIs
    <3> QED BY <3>1, <1>3, <1>4, <1>8
  <2>4. LocalInv'
    <3>1. CASE k = Top.len
      <4> DEFINE new == Moved(k)
      <4>1. Finish(new, FALSE) /\ rec' = rec
        BY <2>1, <3>1, <1>1
      <4>2. new \in HandleRec /\ new.knows = H.knows /\ new.pos = H.pos + Top.len
        BY <2>2, <3>1
      <4>3. new.knows = "size" => new.size = rec'.size
        BY <2>2, <1>1, <1>3
      <4>4. ~(Len(stack) = 1 /\ call.kind = "resize")
        BY <1>3, <1>4
      <4> HIDE DEF new
      <4> QED BY <4>1, <4>2, <4>3, <4>4, <2>3, <1>2, FinishWorks
    <3>2. CASE k # Top.len
      BY <2>1, <2>2, <3>2, <1>1, <1>2, <1>3, FailWorks
    <3> QED BY <3>1, <3>2
  <2>5. DiskInv'
    BY <1>1, <1>2, <1>6, <2>1 DEF DiskInv, Sound
  <2> QED BY <2>4, <2>5 DEF IInv
<1> QED BY <1>7, <1>8

LEMMA WriteRecordStep == ASSUME IInv, WriteRecord PROVE IInv'
<1> DEFINE new == GrownTo(Moved(Top.done))
<1>1. /\ pc = "record" /\ UNCHANGED <<bits, trouble>>
      /\ \/ /\ rec' = img
            /\ kept' = IF rec.resident THEN Slack(img) ELSE kept
            /\ IF Top.done = Top.len THEN Finish(new, TRUE) ELSE Fail(new, TRUE)
            /\ UNCHANGED data
         \/ /\ Fail(H, FALSE) /\ UNCHANGED <<rec, kept>>
            /\ data' = Spoilt(ClustersOf(img) \ ClustersOf(rec))
  BY DEF WriteRecord
<1>2. Writing /\ LocalInv /\ DiskInv /\ Sound(rec) /\ Sound(img)
  BY <1>1 DEF IInv, Writing, DiskInv, LocalInv
<1>3. /\ H \in HandleRec /\ (H.knows = "size" => H.size = rec.size /\ rec.inUse)
      /\ H.pos \in Nat /\ H.size \in Nat /\ Top.len \in Nat /\ Top.done \in Nat
      /\ Target = H.pos + Top.len /\ Target \in Nat
      /\ (call.kind = "resize" /\ Len(stack) = 1 => Top.len = 0)
  BY <1>2, CallerIs, TopIs
<1>4. /\ Top.len > 0 /\ Top.done <= Top.len /\ img.inUse = rec.inUse
      /\ rec.size < Target /\ img.size = Target
  BY <1>1, <1>2 DEF LocalInv, StackInv, ImgInv
<1>5. CASE /\ rec' = img
           /\ kept' = IF rec.resident THEN Slack(img) ELSE kept
           /\ IF Top.done = Top.len THEN Finish(new, TRUE) ELSE Fail(new, TRUE)
           /\ UNCHANGED data
  <2>1. Top.done \in 0..Top.len
    BY <1>3, <1>4
  <2>2. /\ new \in HandleRec /\ new.pos = H.pos + Top.done
        /\ new.size = Larger(H.size, Target) /\ new.knows = H.knows
    BY <2>1, <1>2, MovedIs
  <2> HIDE DEF new
  <2>3. new.knows = "size" => new.size = Target /\ rec.inUse
    BY <2>2, <1>3, <1>4 DEF Larger
  <2>4. LocalInv'
    <3>1. CASE Top.done = Top.len
      <4>1. Finish(new, TRUE) /\ rec'.inUse = rec.inUse
        BY <3>1, <1>4, <1>5
      <4>2. new.pos = H.pos + Top.len
        BY <2>2, <3>1
      <4>3. new.knows = "size" => new.size = rec'.size /\ new.size = new.pos
        BY <4>2, <2>3, <1>3, <1>4, <1>5
      <4>4. ~(Len(stack) = 1 /\ call.kind = "resize")
        BY <1>3, <1>4
      <4> QED BY <4>1, <4>2, <4>3, <4>4, <2>2, <1>2, FinishWorks
    <3>2. CASE Top.done # Top.len
      BY <2>2, <2>3, <3>2, <1>2, <1>4, <1>5, FailWorks
    <3> QED BY <3>1, <3>2
  <2>6. kept' \in BOOLEAN
    BY <1>2, <1>5, RecordIs DEF DiskInv
  <2>7. DiskInv'
    BY <1>1, <1>2, <1>5, <2>6 DEF DiskInv, Sound
  <2> QED BY <2>4, <2>7 DEF IInv
<1>6. CASE /\ Fail(H, FALSE) /\ UNCHANGED <<rec, kept>>
           /\ data' = Spoilt(ClustersOf(img) \ ClustersOf(rec))
  <2>1. bits' \subseteq Cluster /\ data' \in [Cluster -> [1..PerCluster -> Units]]
    BY <1>1, <1>2, <1>6, SpoiltType DEF DiskInv
  <2> QED BY <1>1, <1>2, <1>6, <2>1, FailsAlone
<1> QED BY <1>1, <1>5, <1>6

LEMMA ResizedIs ==
  ASSUME LocalInv, Writing \/ Cutting
  PROVE  Resized(H) \in HandleRec /\ Resized(H).size = call.len /\ Resized(H).knows = H.knows
<1>1. H \in HandleRec /\ call.len \in Nat /\ Smaller(call.at, call.len) \in 0..MaxUnits
  BY CallerIs, Constants DEF Smaller
<1> QED BY <1>1 DEF Resized, HandleRec

\* A call that is over, with the handle new.
LEMMA ReturnsWith ==
  ASSUME LocalInv, Writing \/ Cutting,
         NEW new \in HandleRec \cup {None}, NEW resized \in BOOLEAN, Become(new, resized),
         NEW how \in {"ok", "failed"}, Return(how),
         rec'.inUse = rec.inUse, rec'.size = rec.size \/ resized,
         new # None /\ new.knows = "size" => new.size = rec'.size /\ rec'.inUse
  PROVE  LocalInv'
<1>1. /\ handles' \in [Handle -> HandleRec \cup {None}]
      /\ \A h \in Handle : handles'[h] # None /\ handles'[h].knows = "size" =>
           handles'[h].size = rec'.size /\ rec'.inUse
  BY BecomeWorks
<1> QED BY <1>1, ReturnWorks, NoImageSound DEF Return

LEMMA CutNothingStep == ASSUME IInv, CutNothing PROVE IInv'
<1>1. /\ pc = "cut" /\ call.len = rec.size /\ Become(Resized(H), FALSE) /\ Return("ok")
      /\ UNCHANGED <<bits, data, rec, kept, trouble>>
  BY DEF CutNothing, disk
<1>2. LocalInv /\ DiskInv /\ Cutting
  BY <1>1 DEF IInv, Cutting
<1>3. /\ Resized(H) \in HandleRec /\ Resized(H).size = call.len /\ Resized(H).knows = H.knows
      /\ H.knows = "size" => H.size = rec.size /\ rec.inUse
  BY <1>2, ResizedIs, CallerIs
<1>4. LocalInv'
  BY <1>1, <1>2, <1>3, ReturnsWith
<1>5. DiskInv'
  BY <1>1, <1>2 DEF DiskInv, Sound
<1> QED BY <1>4, <1>5 DEF IInv

LEMMA CutResidentStep == ASSUME IInv, CutResident PROVE IInv'
<1> DEFINE v == SubSeq(rec.value, 1, call.len)
<1>1. /\ pc = "cut" /\ call.len < rec.size /\ rec.resident /\ UNCHANGED <<bits, data, kept, trouble>>
      /\ \/ /\ rec' = [rec EXCEPT !.value = v, !.size = call.len, !.init = call.len]
            /\ Become(Resized(H), TRUE) /\ Return("ok")
         \/ Fail(H, FALSE) /\ UNCHANGED rec
  BY DEF CutResident
<1>2. LocalInv /\ DiskInv /\ Cutting /\ Sound(rec)
  BY <1>1 DEF IInv, Cutting, DiskInv
<1>3. CASE /\ rec' = [rec EXCEPT !.value = v, !.size = call.len, !.init = call.len]
           /\ Become(Resized(H), TRUE) /\ Return("ok")
  <2>1. rec.value \in Seq(Units) /\ rec.size = Len(rec.value) /\ call.len \in Nat
    BY <1>1, <1>2, RecordIs, CallerIs
  <2>2. v \in Seq(Units) /\ Len(v) = call.len
    BY <2>1, <1>1
  <2> HIDE DEF v
  <2>3. Sound(rec') /\ rec'.inUse = rec.inUse /\ rec'.size = call.len
    BY <2>2, <1>1, <1>2, <1>3, ResidentSound
  <2>4. /\ Resized(H) \in HandleRec /\ Resized(H).size = call.len /\ Resized(H).knows = H.knows
        /\ H.knows = "size" => H.size = rec.size /\ rec.inUse
    BY <1>2, ResizedIs, CallerIs
  <2>5. LocalInv'
    BY <1>2, <1>3, <2>3, <2>4, ReturnsWith
  <2>6. DiskInv'
    BY <1>1, <1>2, <2>3 DEF DiskInv, Sound
  <2> QED BY <2>5, <2>6 DEF IInv
<1>4. CASE Fail(H, FALSE) /\ UNCHANGED rec
  <2>1. bits' \subseteq Cluster /\ data' \in [Cluster -> [1..PerCluster -> Units]]
    BY <1>1, <1>2 DEF DiskInv
  <2> QED BY <1>1, <1>2, <1>4, <2>1, FailsAlone
<1> QED BY <1>1, <1>3, <1>4

LEMMA FreeTailIs ==
  ASSUME DiskInv, NEW keep \in Nat, FreeTail(keep)
  PROVE  bits' \subseteq Cluster /\ data' \in [Cluster -> [1..PerCluster -> Units]]
BY SpoiltType DEF FreeTail, DiskInv

\* The clusters that a cut keeps, and that they hold what is left of the file.
LEMMA CutKeeps ==
  ASSUME NEW r, Sound(r), ~r.resident, NEW s \in Nat, s <= r.size
  PROVE  /\ SubSeq(r.map, 1, Clusters(s)) \in Seq(Cluster)
         /\ s <= Len(SubSeq(r.map, 1, Clusters(s))) * PerCluster
<1> DEFINE m == SubSeq(r.map, 1, Clusters(s))
<1>1. /\ r.map \in Seq(Cluster) /\ Len(r.map) \in Nat /\ r.size \in Nat
      /\ r.size <= Len(r.map) * PerCluster /\ Len(r.map) * PerCluster \in Nat
  BY RecordIs
<1>2. s <= Len(r.map) * PerCluster
  BY <1>1
<1>3. Clusters(s) \in Nat /\ s <= Clusters(s) * PerCluster /\ Clusters(s) <= Len(r.map)
  BY <1>1, <1>2, ClustersHold
<1>4. m \in Seq(Cluster) /\ Len(m) = Clusters(s)
  BY <1>1, <1>3
<1> HIDE DEF m
<1>5. s <= Len(m) * PerCluster
  BY <1>3, <1>4
<1> QED BY <1>4, <1>5 DEF m

LEMMA CutSound ==
  ASSUME NEW r, Sound(r), ~r.resident, NEW s \in Nat, NEW i \in Nat, i <= s, s <= r.size,
         NEW new \in FileRec, ~new.resident, new.map = SubSeq(r.map, 1, Clusters(s)),
         new.size = s, new.init = i
  PROVE  Sound(new)
BY CutKeeps, MappedSound

\* The cut has been made on disk, but for the record.
LEMMA ToShrink ==
  ASSUME LocalInv, pc \in {"cut", "trim"}, pc' = "shrink", UNCHANGED <<rec, handles, call, stack>>,
         Sound(img'), img'.inUse = rec.inUse, call.kind = "resize" => img'.size = call.len
  PROVE  LocalInv'
<1>1. Cutting /\ Cutting' /\ ~Writing /\ ~Writing'
  BY DEF Cutting, Writing
<1>2. H' = H
  BY DEF H
<1>3. CallInv' /\ StackInv'
  BY <1>1, <1>2 DEF LocalInv, CallInv, StackInv
<1>4. ImgInv'
  BY DEF LocalInv, ImgInv
<1>5. KnowInv'
  BY <1>1, <1>2 DEF LocalInv, KnowInv, IsOpen
<1>6. handles' \in [Handle -> HandleRec \cup {None}] /\ Sound(img)'
  BY DEF LocalInv, Sound
<1> QED BY <1>3, <1>4, <1>5, <1>6 DEF LocalInv

LEMMA CutFreeStep == ASSUME IInv, CutFree PROVE IInv'
<1>1. /\ pc = "cut" /\ call.len < rec.size /\ ~rec.resident
      /\ FreeTail(Clusters(call.len)) /\ pc' = "shrink"
      /\ img' = [rec EXCEPT !.map = SubSeq(@, 1, Clusters(call.len)), !.size = call.len,
                            !.init = Smaller(@, call.len)]
      /\ UNCHANGED <<rec, handles, call, stack, kept, trouble>>
  BY DEF CutFree
<1>2. LocalInv /\ DiskInv /\ Cutting /\ Sound(rec)
  BY <1>1 DEF IInv, Cutting, DiskInv
<1>3. /\ call.len \in Nat /\ rec.size \in Nat /\ call.len <= rec.size
      /\ Smaller(rec.init, call.len) \in Nat /\ Smaller(rec.init, call.len) <= call.len
  BY <1>1, <1>2, CallerIs, RecordIs DEF Smaller
<1>4. img' = [rec EXCEPT !.map = SubSeq(@, 1, Clusters(call.len)), !.size = call.len,
                         !.init = Smaller(rec.init, call.len)]
  BY <1>1
<1>5. Sound(img') /\ img'.inUse = rec.inUse /\ img'.size = call.len
  <2>1. SubSeq(rec.map, 1, Clusters(call.len)) \in Seq(Cluster) /\ rec \in FileRec
    BY <1>1, <1>2, <1>3, CutKeeps, RecordIs
  <2>2. /\ img' \in FileRec /\ ~img'.resident /\ img'.map = SubSeq(rec.map, 1, Clusters(call.len))
        /\ img'.size = call.len /\ img'.init = Smaller(rec.init, call.len) /\ img'.inUse = rec.inUse
    BY <2>1, <1>1, <1>3, <1>4 DEF FileRec
  <2> QED BY <2>2, <1>1, <1>2, <1>3, CutSound
<1>6. LocalInv'
  BY <1>1, <1>2, <1>5, ToShrink
<1>7. bits' \subseteq Cluster /\ data' \in [Cluster -> [1..PerCluster -> Units]]
  BY <1>1, <1>2, <1>3, ClustersHold, FreeTailIs
<1>8. DiskInv'
  BY <1>1, <1>2, <1>7 DEF DiskInv, Sound
<1> QED BY <1>6, <1>8 DEF IInv

LEMMA TrimFreeStep == ASSUME IInv, TrimFree PROVE IInv'
<1>1. /\ pc = "trim" /\ FreeTail(Clusters(rec.size)) /\ pc' = "shrink"
      /\ img' = [rec EXCEPT !.map = SubSeq(@, 1, Clusters(rec.size))]
      /\ UNCHANGED <<rec, handles, call, stack, kept, trouble>>
  BY DEF TrimFree
<1>2. LocalInv /\ DiskInv /\ Sound(rec) /\ call.kind = "close" /\ ~rec.resident
  BY <1>1 DEF IInv, DiskInv, LocalInv, ImgInv
<1>3. rec.size \in Nat /\ rec.init \in Nat /\ rec.init <= rec.size /\ rec.size <= rec.size
  BY <1>2, RecordIs
<1>4. Sound(img') /\ img'.inUse = rec.inUse
  <2>1. SubSeq(rec.map, 1, Clusters(rec.size)) \in Seq(Cluster) /\ rec \in FileRec
    BY <1>1, <1>2, <1>3, CutKeeps, RecordIs
  <2>2. /\ img' \in FileRec /\ ~img'.resident /\ img'.map = SubSeq(rec.map, 1, Clusters(rec.size))
        /\ img'.size = rec.size /\ img'.init = rec.init /\ img'.inUse = rec.inUse
    BY <2>1, <1>1, <1>2, <1>3 DEF FileRec
  <2> QED BY <2>2, <1>2, <1>3, CutSound
<1>5. LocalInv'
  BY <1>1, <1>2, <1>4, ToShrink
<1>6. bits' \subseteq Cluster /\ data' \in [Cluster -> [1..PerCluster -> Units]]
  BY <1>1, <1>2, <1>3, ClustersHold, FreeTailIs
<1>7. DiskInv'
  BY <1>1, <1>2, <1>6 DEF DiskInv, Sound
<1> QED BY <1>5, <1>7 DEF IInv

LEMMA ShrinkRecordStep == ASSUME IInv, ShrinkRecord PROVE IInv'
<1> DEFINE After(new) == IF call.kind = "close" THEN None ELSE new
<1>1. /\ pc = "shrink" /\ UNCHANGED <<bits, data>>
      /\ \/ /\ rec' = img /\ kept' = FALSE
            /\ Become(After(Resized(H)), img.size # rec.size) /\ Return("ok")
            /\ UNCHANGED trouble
         \/ /\ Become(After(H), FALSE) /\ Return("failed")
            /\ Hit(IF Dangling THEN {"dangle"} ELSE {})
            /\ UNCHANGED <<rec, kept>>
  BY DEF ShrinkRecord
<1>2. /\ LocalInv /\ DiskInv /\ Cutting /\ Sound(img) /\ img.inUse = rec.inUse
      /\ call.kind \in {"resize", "close"} /\ (call.kind = "resize" => img.size = call.len)
  BY <1>1 DEF IInv, Cutting, DiskInv, LocalInv, ImgInv
<1>3. /\ Resized(H) \in HandleRec /\ Resized(H).size = call.len /\ Resized(H).knows = H.knows
      /\ H \in HandleRec /\ (H.knows = "size" => H.size = rec.size /\ rec.inUse)
  BY <1>2, ResizedIs, CallerIs
<1>4. CASE /\ rec' = img /\ kept' = FALSE
           /\ Become(After(Resized(H)), img.size # rec.size) /\ Return("ok")
           /\ UNCHANGED trouble
  <2> DEFINE resized == img.size # rec.size
  <2>1. resized \in BOOLEAN /\ (rec'.size = rec.size \/ resized) /\ rec'.inUse = rec.inUse
    BY <1>2, <1>4
  <2>2. LocalInv'
    <3>1. CASE call.kind = "close"
      <4>1. Become(None, resized) /\ Return("ok")
        BY <1>4, <3>1
      <4> HIDE DEF resized
      <4> QED BY <4>1, <2>1, <1>2, ReturnsWith
    <3>2. CASE call.kind = "resize"
      <4>1. Become(Resized(H), resized) /\ Return("ok")
        BY <1>4, <3>2
      <4>2. Resized(H).knows = "size" => Resized(H).size = rec'.size /\ rec'.inUse
        BY <1>2, <1>3, <1>4, <3>2
      <4> HIDE DEF resized
      <4> QED BY <4>1, <4>2, <2>1, <1>2, <1>3, ReturnsWith
    <3> QED BY <3>1, <3>2, <1>2
  <2>3. DiskInv'
    BY <1>1, <1>2, <1>4 DEF DiskInv, Sound
  <2> QED BY <2>2, <2>3 DEF IInv
<1>5. CASE /\ Become(After(H), FALSE) /\ Return("failed")
           /\ Hit(IF Dangling THEN {"dangle"} ELSE {})
           /\ UNCHANGED <<rec, kept>>
  <2>1. LocalInv'
    <3>1. CASE call.kind = "close"
      <4>1. Become(None, FALSE) /\ Return("failed")
        BY <1>5, <3>1
      <4> QED BY <4>1, <1>2, <1>5, ReturnsWith
    <3>2. CASE call.kind = "resize"
      <4>1. Become(H, FALSE) /\ Return("failed")
        BY <1>5, <3>2
      <4> QED BY <4>1, <1>2, <1>3, <1>5, ReturnsWith
    <3> QED BY <3>1, <3>2, <1>2
  <2>2. trouble' \subseteq trouble \cup {"dangle"}
    BY <1>5 DEF Hit
  <2>3. DiskInv'
    BY <2>2, <1>1, <1>2, <1>5 DEF DiskInv, Sound
  <2> QED BY <2>1, <2>3 DEF IInv
<1> QED BY <1>1, <1>4, <1>5

\* Between two calls there is no write.
LEMMA IdleIs ==
  ASSUME IInv, pc \notin {"enter", "put", "head", "data", "record"}
  PROVE  /\ stack = << >> /\ Sound(img) /\ Sound(rec) /\ DiskInv /\ LocalInv
         /\ handles \in [Handle -> HandleRec \cup {None}]
         /\ \A h \in Handle : IsOpen(h) =>
              /\ handles[h] \in HandleRec
              /\ handles[h].knows = "size" => handles[h].size = rec.size /\ rec.inUse
BY DEF IInv, DiskInv, LocalInv, CallInv, KnowInv, Writing, IsOpen

LEMMA AnswerStep == ASSUME IInv, Answer PROVE IInv'
<1>1. /\ pc \in {"ok", "failed"} /\ pc' = "idle"
      /\ handles' = [h \in Handle |-> IF IsOpen(h) THEN [handles[h] EXCEPT !.pos = 0] ELSE None]
      /\ UNCHANGED <<bits, data, rec, stack, img, kept, trouble>>
  BY DEF Answer, disk
<1>2. ASSUME NEW h \in Handle
      PROVE  /\ handles'[h] \in HandleRec \cup {None}
             /\ handles'[h] # None /\ handles'[h].knows = "size" =>
                  handles'[h].size = rec.size /\ rec.inUse
  <2>1. CASE IsOpen(h)
    <3>1. handles[h] \in HandleRec /\ (handles[h].knows = "size" => handles[h].size = rec.size /\ rec.inUse)
      BY <1>1, <2>1, IdleIs
    <3>2. handles'[h] = [handles[h] EXCEPT !.pos = 0] /\ 0 \in 0..MaxUnits
      BY <1>1, <2>1, Constants
    <3>3. /\ handles'[h] \in HandleRec /\ handles'[h].knows = handles[h].knows
          /\ handles'[h].size = handles[h].size
      BY <3>1, <3>2 DEF HandleRec
    <3> QED BY <3>1, <3>3
  <2>2. CASE ~IsOpen(h)
    BY <1>1, <2>2
  <2> QED BY <2>1, <2>2
<1>3. handles' = [h \in Handle |-> handles'[h]]
  BY <1>1
<1>4. handles' \in [Handle -> HandleRec \cup {None}]
  BY <1>2, <1>3
<1>5. stack' = << >> /\ Sound(img')
  BY <1>1, IdleIs
<1>6. LocalInv'
  BY <1>1, <1>2, <1>4, <1>5, ReturnWorks
<1>7. DiskInv'
  BY <1>1 DEF IInv, DiskInv, Sound
<1> QED BY <1>6, <1>7 DEF IInv

\* What a call begins with.
LEMMA StandingIs == ASSUME NEW h PROVE Standing(h) \subseteq {"orphan", "beyond", "behind", "uninit"}
BY DEF Standing

LEMMA BeginWorks ==
  ASSUME IInv, NEW h \in Handle, NEW kind \in {"write", "resize", "close"}, NEW at \in 0..MaxUnits,
         NEW len \in Nat, NEW where \in {"enter", "cut", "trim"}, Begin(h, kind, at, len, where),
         NEW p \in 0..MaxUnits, handles' = SetPosition(h, p) \/ handles' = handles
  PROVE  /\ DiskInv' /\ Sound(img)' /\ rec' = rec
         /\ handles' \in [Handle -> HandleRec \cup {None}]
         /\ \A g \in Handle : IsOpen(g)' /\ handles'[g].knows = "size" =>
              handles'[g].size = rec'.size /\ rec'.inUse
         /\ call' \in CallRec /\ call'.kind = kind /\ call'.len = len
         /\ H' \in HandleRec /\ H'.size = handles[h].size
         /\ H'.knows = "size" => H'.size = rec'.size /\ rec'.inUse
         /\ handles' = SetPosition(h, p) => H'.pos = p
         /\ stack = << >>
<1>1. /\ pc = "idle" /\ IsOpen(h) /\ pc' = where /\ img' = NoImage
      /\ call' = [h |-> h, kind |-> kind, at |-> at, len |-> len]
      /\ trouble' = trouble \cup Standing(h)
      /\ UNCHANGED <<bits, data, rec, kept>>
  BY DEF Begin, MayCall, AtRest, disk
<1>2. /\ stack = << >> /\ DiskInv
      /\ handles \in [Handle -> HandleRec \cup {None}]
      /\ \A g \in Handle : IsOpen(g) =>
           /\ handles[g] \in HandleRec
           /\ handles[g].knows = "size" => handles[g].size = rec.size /\ rec.inUse
  BY <1>1, IdleIs
<1>3. DiskInv'
  BY <1>1, <1>2, StandingIs DEF DiskInv, Sound
<1>4. Sound(img)'
  BY <1>1, NoImageSound DEF Sound
<1>5. call' \in CallRec /\ call'.kind = kind /\ call'.len = len /\ call'.h = h
  BY <1>1 DEF CallRec
<1>6. handles[h] \in HandleRec
  BY <1>1, <1>2
<1>7. /\ handles'[h] \in HandleRec /\ handles'[h].size = handles[h].size
      /\ handles'[h].knows = handles[h].knows
      /\ (handles' = SetPosition(h, p) => handles'[h].pos = p)
      /\ \A g \in Handle : g # h => handles'[g] = handles[g]
      /\ handles' \in [Handle -> HandleRec \cup {None}]
  <2>1. CASE handles' = SetPosition(h, p)
    <3> DEFINE new == [handles[h] EXCEPT !.pos = p]
    <3>1. /\ new \in HandleRec /\ new.size = handles[h].size /\ new.knows = handles[h].knows
          /\ new.pos = p
      BY <1>6 DEF HandleRec
    <3>2. handles' = [handles EXCEPT ![h] = new]
      BY <2>1 DEF SetPosition
    <3> HIDE DEF new
    <3> QED BY <3>1, <3>2, <1>2
  <2>2. CASE handles' = handles /\ handles' # SetPosition(h, p)
    BY <2>2, <1>2, <1>6
  <2> QED BY <2>1, <2>2
<1>8. H' = handles'[h]
  BY <1>5 DEF H
<1>9. handles[h].knows = "size" => handles[h].size = rec.size /\ rec.inUse
  BY <1>1, <1>2
<1>10. ASSUME NEW g \in Handle, IsOpen(g)', handles'[g].knows = "size"
       PROVE  handles'[g].size = rec'.size /\ rec'.inUse
  <2>1. CASE g = h
    BY <2>1, <1>1, <1>7, <1>9, <1>10
  <2>2. CASE g # h
    <3>1. handles'[g] = handles[g] /\ IsOpen(g)
      BY <2>2, <1>7, <1>10 DEF IsOpen
    <3> QED BY <3>1, <1>1, <1>2, <1>10
  <2> QED BY <2>1, <2>2
<1>11. H'.knows = "size" => H'.size = rec'.size /\ rec'.inUse
  BY <1>1, <1>7, <1>8, <1>9
<1> QED BY <1>1, <1>2, <1>3, <1>4, <1>5, <1>7, <1>8, <1>10, <1>11

\* A write, or an extension by a write of nothing, begins with itself on the
\* stack.
LEMMA EnterWorks ==
  ASSUME NEW p \in 0..MaxUnits, NEW n \in Nat, NEW val \in Value, p + n <= MaxUnits,
         pc' = "enter", stack' = <<Frame(val, n)>>,
         DiskInv', Sound(img)',
         handles' \in [Handle -> HandleRec \cup {None}],
         \A g \in Handle : IsOpen(g)' /\ handles'[g].knows = "size" =>
           handles'[g].size = rec'.size /\ rec'.inUse,
         call' \in CallRec,
         call'.kind = "write" \/ (call'.kind = "resize" /\ n = 0 /\ call'.len = p /\ H'.size < p),
         H' \in HandleRec, H'.pos = p,
         H'.knows = "size" => H'.size = rec'.size /\ rec'.inUse
  PROVE  IInv'
<1> DEFINE f == Frame(val, n)
<1>1. f \in FrameRec /\ f.len = n
  BY DEF Frame, FrameRec
<1> HIDE DEF f
<1>2. stack' \in Seq(FrameRec) /\ Len(stack') = 1 /\ stack'[1] = f
  BY <1>1 DEF f
<1>3. Base(1)' = p
  BY <1>2 DEF Base
<1>4. Writing' /\ ~Cutting'
  BY DEF Writing, Cutting
<1>5. CallInv'
  BY <1>4 DEF CallInv
<1>6. StackInv'
  <2>1. \A i \in 1..Len(stack') : Base(i)' + stack'[i].len <= MaxUnits
    <3>1. \A i \in 1..Len(stack') : i = 1
      BY <1>2
    <3> QED BY <3>1, <1>1, <1>2, <1>3
  <2>2. \A i \in 1..(Len(stack') - 1) : FALSE
    BY <1>2
  <2>3. call'.kind = "resize" => stack'[1].len = 0 /\ Base(1)' = call'.len
    BY <1>1, <1>2, <1>3
  <2>4. stack' # << >> /\ call'.kind \in {"write", "resize"}
    BY <1>2
  <2> QED BY <1>2, <2>1, <2>2, <2>3, <2>4 DEF StackInv
<1>7. ImgInv'
  BY DEF ImgInv
<1>8. KnowInv'
  BY <1>2 DEF KnowInv
<1>9. LocalInv'
  BY <1>5, <1>6, <1>7, <1>8 DEF LocalInv
<1> QED BY <1>9 DEF IInv

LEMMA WriteStep ==
  ASSUME IInv, NEW h \in Handle, NEW p \in 0..MaxUnits, NEW n \in 1..MaxWrite, Write(h, p, n)
  PROVE  IInv'
<1>1. /\ Begin(h, "write", p, n, "enter") /\ p + n <= MaxUnits
      /\ stack' = <<Frame(Data, n)>> /\ handles' = SetPosition(h, p)
  BY DEF Write
<1>2. n \in Nat /\ Data \in Value /\ pc' = "enter"
  BY <1>1, Constants DEF Begin
<1>3. /\ DiskInv' /\ Sound(img)'
      /\ handles' \in [Handle -> HandleRec \cup {None}]
      /\ \A g \in Handle : IsOpen(g)' /\ handles'[g].knows = "size" =>
           handles'[g].size = rec'.size /\ rec'.inUse
      /\ call' \in CallRec /\ call'.kind = "write"
      /\ H' \in HandleRec /\ H'.pos = p
      /\ H'.knows = "size" => H'.size = rec'.size /\ rec'.inUse
  BY <1>1, <1>2, BeginWorks
<1> QED BY <1>1, <1>2, <1>3, EnterWorks

LEMMA ExtendStep ==
  ASSUME IInv, NEW h \in Handle, NEW p \in 0..MaxUnits, NEW n \in 0..MaxUnits, Extend(h, p, n)
  PROVE  IInv'
<1>1. /\ Begin(h, "resize", p, n, "enter") /\ n > handles[h].size
      /\ stack' = <<Frame(Zero, 0)>> /\ handles' = SetPosition(h, n)
  BY DEF Extend
<1>2. n \in Nat /\ 0 \in Nat /\ Zero \in Value /\ pc' = "enter" /\ n + 0 <= MaxUnits
  BY <1>1, Constants DEF Begin
<1>3. /\ DiskInv' /\ Sound(img)'
      /\ handles' \in [Handle -> HandleRec \cup {None}]
      /\ \A g \in Handle : IsOpen(g)' /\ handles'[g].knows = "size" =>
           handles'[g].size = rec'.size /\ rec'.inUse
      /\ call' \in CallRec /\ call'.kind = "resize" /\ call'.len = n
      /\ H' \in HandleRec /\ H'.pos = n /\ H'.size = handles[h].size
      /\ H'.knows = "size" => H'.size = rec'.size /\ rec'.inUse
  BY <1>1, <1>2, BeginWorks
<1>4. H'.size < n
  BY <1>1, <1>2, <1>3 DEF HandleRec
<1> QED BY <1>1, <1>2, <1>3, <1>4, EnterWorks

LEMMA TruncateStep ==
  ASSUME IInv, NEW h \in Handle, NEW p \in 0..MaxUnits, NEW n \in 0..MaxUnits, Truncate(h, p, n)
  PROVE  IInv'
<1>1. /\ Begin(h, "resize", p, n, "cut") /\ handles' = SetPosition(h, p) /\ stack' = stack
  BY DEF Truncate
<1>2. n \in Nat /\ pc' = "cut"
  BY <1>1, Constants DEF Begin
<1>3. /\ DiskInv' /\ Sound(img)'
      /\ handles' \in [Handle -> HandleRec \cup {None}]
      /\ \A g \in Handle : IsOpen(g)' /\ handles'[g].knows = "size" =>
           handles'[g].size = rec'.size /\ rec'.inUse
      /\ call' \in CallRec /\ call'.kind = "resize"
      /\ H' \in HandleRec
      /\ H'.knows = "size" => H'.size = rec'.size /\ rec'.inUse
      /\ stack = << >>
  BY <1>1, <1>2, BeginWorks
<1>4. CallInv' /\ StackInv' /\ ImgInv' /\ KnowInv'
  BY <1>1, <1>2, <1>3 DEF CallInv, StackInv, ImgInv, KnowInv, Writing, Cutting
<1> QED BY <1>2, <1>3, <1>4 DEF IInv, LocalInv

LEMMA CloseTrimStep == ASSUME IInv, NEW h \in Handle, CloseTrim(h) PROVE IInv'
<1>1. /\ Begin(h, "close", 0, 0, "trim") /\ handles' = handles /\ stack' = stack
      /\ ~rec.resident /\ Clusters(rec.size) < Len(rec.map)
  BY DEF CloseTrim, Trims
<1>2. 0 \in 0..MaxUnits /\ 0 \in Nat /\ pc' = "trim"
  BY <1>1, Constants DEF Begin
<1>3. /\ DiskInv' /\ Sound(img)' /\ rec' = rec
      /\ handles' \in [Handle -> HandleRec \cup {None}]
      /\ \A g \in Handle : IsOpen(g)' /\ handles'[g].knows = "size" =>
           handles'[g].size = rec'.size /\ rec'.inUse
      /\ call' \in CallRec /\ call'.kind = "close"
      /\ H' \in HandleRec
      /\ H'.knows = "size" => H'.size = rec'.size /\ rec'.inUse
      /\ stack = << >>
  BY <1>1, <1>2, BeginWorks
<1>4. Clusters(rec'.size) = Clusters(rec.size)
  BY <1>3
<1>5. ImgInv'
  BY <1>1, <1>2, <1>3, <1>4 DEF ImgInv, Clusters
<1>6. CallInv' /\ StackInv' /\ KnowInv'
  BY <1>1, <1>2, <1>3 DEF CallInv, StackInv, KnowInv, Writing, Cutting
<1> QED BY <1>2, <1>3, <1>5, <1>6 DEF IInv, LocalInv

\* A call of one step, and the loss of power, leave nothing to be written.
LEMMA RestWorks ==
  ASSUME pc' = "idle", stack' = << >>, Sound(img'), DiskInv',
         handles' = [h \in Handle |-> handles'[h]],
         \A h \in Handle : /\ handles'[h] \in HandleRec \cup {None}
                           /\ handles'[h] # None /\ handles'[h].knows = "size" =>
                                handles'[h].size = rec'.size /\ rec'.inUse
  PROVE  IInv'
<1>1. handles' \in [Handle -> HandleRec \cup {None}]
  OBVIOUS
<1>2. LocalInv'
  BY <1>1, ReturnWorks
<1> QED BY <1>2 DEF IInv

LEMMA OpenedIs ==
  ASSUME NEW s \in Nat
  PROVE  [size |-> s, pos |-> 0, grew |-> FALSE, knows |-> "size"] \in HandleRec
BY Constants DEF HandleRec

LEMMA OpenStep == ASSUME IInv, NEW h \in Handle, Open(h) PROVE IInv'
<1>1. /\ pc = "idle" /\ rec.inUse /\ handles' = [handles EXCEPT ![h] = Opened]
      /\ UNCHANGED <<bits, data, rec, pc, stack, img, kept, trouble>>
  BY DEF Open, MayCall, AtRest, disk, local
<1>2. /\ stack = << >> /\ Sound(img) /\ Sound(rec) /\ DiskInv
      /\ handles \in [Handle -> HandleRec \cup {None}]
      /\ \A g \in Handle : IsOpen(g) =>
           /\ handles[g] \in HandleRec
           /\ handles[g].knows = "size" => handles[g].size = rec.size /\ rec.inUse
  BY <1>1, IdleIs
<1>3. Opened \in HandleRec /\ Opened.size = rec.size
  BY <1>2, RecordIs, OpenedIs DEF Opened
<1>4. \A g \in Handle : handles'[g] = IF g = h THEN Opened ELSE handles[g]
  BY <1>1, <1>2
<1>5. ASSUME NEW g \in Handle
      PROVE  /\ handles'[g] \in HandleRec \cup {None}
             /\ handles'[g] # None /\ handles'[g].knows = "size" =>
                  handles'[g].size = rec'.size /\ rec'.inUse
  <2>1. CASE g = h
    BY <2>1, <1>1, <1>3, <1>4
  <2>2. CASE g # h
    BY <2>2, <1>1, <1>2, <1>4 DEF IsOpen
  <2> QED BY <2>1, <2>2
<1>6. handles' = [g \in Handle |-> handles'[g]]
  BY <1>1, <1>2
<1>7. DiskInv'
  BY <1>1, <1>2 DEF DiskInv, Sound
<1> QED BY <1>1, <1>2, <1>5, <1>6, <1>7, RestWorks

LEMMA CreateStep == ASSUME IInv, NEW h \in Handle, Create(h) PROVE IInv'
<1> DEFINE new == [Opened EXCEPT !.size = 0]
<1>1. /\ pc = "idle" /\ ~rec.inUse /\ rec' = NewFile /\ handles' = [handles EXCEPT ![h] = new]
      /\ UNCHANGED <<bits, data, pc, stack, img, kept, trouble>>
  BY DEF Create, MayCall, AtRest, local
<1>2. /\ stack = << >> /\ Sound(img) /\ DiskInv
      /\ handles \in [Handle -> HandleRec \cup {None}]
      /\ \A g \in Handle : IsOpen(g) =>
           /\ handles[g] \in HandleRec
           /\ handles[g].knows = "size" => handles[g].size = rec.size /\ rec.inUse
  BY <1>1, IdleIs
<1>3. Opened \in HandleRec
  <2>1. rec.size \in Nat
    BY <1>1, IdleIs, RecordIs
  <2> QED BY <2>1, OpenedIs DEF Opened
<1>4. new \in HandleRec /\ new.size = 0
  BY <1>3 DEF HandleRec
<1> HIDE DEF new
<1>5. \A g \in Handle : handles'[g] = IF g = h THEN new ELSE handles[g]
  BY <1>1, <1>2
<1>6. Sound(rec') /\ rec'.size = 0 /\ rec'.inUse
  BY <1>1, NoImageSound DEF NoImage, NewFile
<1>7. ASSUME NEW g \in Handle
      PROVE  /\ handles'[g] \in HandleRec \cup {None}
             /\ handles'[g] # None /\ handles'[g].knows = "size" =>
                  handles'[g].size = rec'.size /\ rec'.inUse
  <2>1. CASE g = h
    BY <2>1, <1>4, <1>5, <1>6
  <2>2. CASE g # h
    BY <2>2, <1>1, <1>2, <1>5 DEF IsOpen
  <2> QED BY <2>1, <2>2
<1>8. handles' = [g \in Handle |-> handles'[g]]
  BY <1>1, <1>2
<1>9. DiskInv'
  BY <1>1, <1>2, <1>6 DEF DiskInv, Sound
<1> QED BY <1>1, <1>2, <1>7, <1>8, <1>9, RestWorks

LEMMA CloseStep == ASSUME IInv, NEW h \in Handle, Close(h) \/ DeleteRefused(h) PROVE IInv'
<1>1. /\ pc = "idle" /\ handles' = [handles EXCEPT ![h] = None]
      /\ UNCHANGED <<bits, data, rec, pc, stack, img, trouble>>
      /\ kept' = kept \/ kept' = (kept \/ Slack(rec))
  BY DEF Close, DeleteRefused, MayCall, AtRest, disk, local
<1>2. /\ stack = << >> /\ Sound(img) /\ Sound(rec) /\ DiskInv
      /\ handles \in [Handle -> HandleRec \cup {None}]
      /\ \A g \in Handle : IsOpen(g) =>
           /\ handles[g] \in HandleRec
           /\ handles[g].knows = "size" => handles[g].size = rec.size /\ rec.inUse
  BY <1>1, IdleIs
<1>3. \A g \in Handle : handles'[g] = IF g = h THEN None ELSE handles[g]
  BY <1>1, <1>2
<1>4. \A g \in Handle : /\ handles'[g] \in HandleRec \cup {None}
                        /\ handles'[g] # None /\ handles'[g].knows = "size" =>
                             handles'[g].size = rec'.size /\ rec'.inUse
  BY <1>1, <1>2, <1>3 DEF IsOpen
<1>5. handles' = [g \in Handle |-> handles'[g]]
  BY <1>1, <1>2
<1>6. kept' \in BOOLEAN
  <2>1. kept \in BOOLEAN
    BY <1>2 DEF DiskInv
  <2> QED BY <1>1, <2>1, Zenon
<1>7. DiskInv'
  BY <1>1, <1>2, <1>6 DEF DiskInv, Sound
<1> QED BY <1>1, <1>2, <1>4, <1>5, <1>7, RestWorks

LEMMA DeleteStep == ASSUME IInv, NEW h \in Handle, Delete(h) PROVE IInv'
<1>1. /\ pc = "idle" /\ bits' = bits \ ClustersOf(rec) /\ data' = Spoilt(ClustersOf(rec))
      /\ rec' = [rec EXCEPT !.inUse = FALSE] /\ handles' = Others(h) /\ kept' = FALSE
      /\ trouble' \subseteq trouble \cup {"orphan"}
      /\ UNCHANGED <<pc, stack, img>>
  BY DEF Delete, MayCall, AtRest, Hit, local
<1>2. /\ stack = << >> /\ Sound(img) /\ Sound(rec) /\ DiskInv
      /\ handles \in [Handle -> HandleRec \cup {None}]
      /\ \A g \in Handle : IsOpen(g) =>
           /\ handles[g] \in HandleRec
           /\ handles[g].knows = "size" => handles[g].size = rec.size /\ rec.inUse
  BY <1>1, IdleIs
<1>3. Sound(rec')
  <2>1. /\ rec' \in FileRec /\ rec'.resident = rec.resident /\ rec'.value = rec.value
        /\ rec'.map = rec.map /\ rec'.size = rec.size /\ rec'.init = rec.init
    BY <1>1, <1>2, RecordIs DEF FileRec
  <2> QED BY <2>1, <1>2 DEF Sound, Allocated
<1>4. ASSUME NEW g \in Handle
      PROVE  /\ handles'[g] \in HandleRec \cup {None}
             /\ handles'[g] # None /\ handles'[g].knows = "size" =>
                  handles'[g].size = rec'.size /\ rec'.inUse
  <2>1. handles'[g] = IF g = h THEN None
                      ELSE IF IsOpen(g) THEN [handles[g] EXCEPT !.knows = "nothing"] ELSE None
    BY <1>1 DEF Others
  <2>2. CASE g # h /\ IsOpen(g)
    <3>1. handles'[g] = [handles[g] EXCEPT !.knows = "nothing"] /\ handles[g] \in HandleRec
      BY <2>1, <2>2, <1>2
    <3>2. handles'[g] \in HandleRec /\ handles'[g].knows = "nothing"
      BY <3>1 DEF HandleRec
    <3> QED BY <3>2
  <2>3. CASE ~(g # h /\ IsOpen(g))
    BY <2>1, <2>3
  <2> QED BY <2>2, <2>3
<1>5. handles' = [g \in Handle |-> handles'[g]]
  BY <1>1 DEF Others
<1>6. bits' \subseteq Cluster /\ data' \in [Cluster -> [1..PerCluster -> Units]]
  BY <1>1, <1>2, SpoiltType DEF DiskInv
<1>7. DiskInv'
  BY <1>1, <1>2, <1>3, <1>6 DEF DiskInv, Sound
<1> QED BY <1>1, <1>2, <1>4, <1>5, <1>7, RestWorks

LEMMA CrashStep == ASSUME IInv, Crash PROVE IInv'
<1>1. /\ handles' = [h \in Handle |-> None] /\ data' = Spoilt(Cluster \ ClustersOf(rec))
      /\ kept' = (kept \/ Slack(rec)) /\ trouble' \subseteq trouble \cup {"dangle"}
      /\ pc' = "idle" /\ stack' = << >> /\ img' = NoImage /\ bits' = bits /\ rec' = rec
  BY DEF Crash, Hit
<1>2. DiskInv /\ Sound(rec)
  BY DEF IInv, DiskInv
<1>3. data' \in [Cluster -> [1..PerCluster -> Units]]
  BY <1>1, <1>2, SpoiltType DEF DiskInv
<1>4. kept' \in BOOLEAN
  <2>1. kept \in BOOLEAN /\ Slack(rec) \in BOOLEAN
    BY <1>2, RecordIs DEF DiskInv
  <2> QED BY <1>1, <2>1, Zenon
<1>5. DiskInv'
  BY <1>1, <1>2, <1>3, <1>4 DEF DiskInv, Sound
<1>6. handles' = [h \in Handle |-> handles'[h]] /\ \A h \in Handle : handles'[h] = None
  BY <1>1
<1> QED BY <1>1, <1>5, <1>6, NoImageSound, RestWorks

(***************************************************************************)
(* The theorems                                                            *)
(***************************************************************************)
LEMMA InitInv == Init => IInv
<1>1. SUFFICES ASSUME Init PROVE IInv
  OBVIOUS
<1>2. Sound(rec)
  BY <1>1, FilesAssumption DEF Init
<1>3. Sound(img)
  BY <1>1, NoImageSound DEF Init
<1>4. handles = [h \in Handle |-> None] /\ pc = "idle" /\ stack = << >> /\ trouble = {}
  BY <1>1 DEF Init
<1>5. bits \subseteq Cluster /\ kept \in BOOLEAN
  BY <1>1, <1>2, RecordIs DEF Init
<1>6. data \in [Cluster -> [1..PerCluster -> Units]]
  BY <1>1, Constants DEF Init
<1>7. DiskInv
  BY <1>2, <1>4, <1>5, <1>6 DEF DiskInv
<1>8. CallInv /\ StackInv /\ ImgInv
  BY <1>4 DEF CallInv, StackInv, ImgInv, Writing, Cutting
<1>9. KnowInv
  BY <1>4 DEF KnowInv, IsOpen, Writing, Cutting
<1>10. handles \in [Handle -> HandleRec \cup {None}]
  BY <1>4
<1> QED BY <1>3, <1>4, <1>7, <1>8, <1>9, <1>10 DEF IInv, LocalInv

LEMMA StepInv == ASSUME IInv, Step PROVE IInv'
<1>1. CASE Answer
  BY <1>1, AnswerStep
<1>2. CASE FillGap
  BY <1>2, FillGapStep
<1>3. CASE WriteNothing
  BY <1>3, WriteNothingStep
<1>4. CASE WriteResident
  BY <1>4, WriteResidentStep
<1>5. CASE ConvertAllocate
  BY <1>5, ConvertAllocateStep
<1>6. CASE ConvertRefused \/ GrowRefused \/ CutRefused
  BY <1>6, RefusedStep
<1>7. CASE ConvertFill
  BY <1>7, ConvertFillStep
<1>8. CASE GrowAllocate
  BY <1>8, GrowAllocateStep
<1>9. CASE WriteData
  BY <1>9, WriteDataStep
<1>10. CASE WriteRecord
  BY <1>10, WriteRecordStep
<1>11. CASE CutNothing
  BY <1>11, CutNothingStep
<1>12. CASE CutResident
  BY <1>12, CutResidentStep
<1>13. CASE CutFree
  BY <1>13, CutFreeStep
<1>14. CASE ShrinkRecord
  BY <1>14, ShrinkRecordStep
<1>15. CASE TrimFree
  BY <1>15, TrimFreeStep
<1> QED BY <1>1, <1>2, <1>3, <1>4, <1>5, <1>6, <1>7, <1>8, <1>9, <1>10, <1>11, <1>12,
           <1>13, <1>14, <1>15 DEF Step

LEMMA CallsInv == ASSUME IInv, NEW h \in Handle, Call(h) PROVE IInv'
<1>1. CASE Open(h)
  BY <1>1, OpenStep
<1>2. CASE Create(h)
  BY <1>2, CreateStep
<1>3. CASE Close(h) \/ DeleteRefused(h)
  BY <1>3, CloseStep
<1>4. CASE CloseTrim(h)
  BY <1>4, CloseTrimStep
<1>5. CASE Delete(h)
  BY <1>5, DeleteStep
<1>6. ASSUME NEW p \in 0..MaxUnits, NEW n \in 0..MaxUnits, Extend(h, p, n) PROVE IInv'
  BY <1>6, ExtendStep
<1>7. ASSUME NEW p \in 0..MaxUnits, NEW n \in 0..MaxUnits, Truncate(h, p, n) PROVE IInv'
  BY <1>7, TruncateStep
<1>8. ASSUME NEW p \in 0..MaxUnits, NEW n \in 1..MaxWrite, Write(h, p, n) PROVE IInv'
  BY <1>8, WriteStep
<1> QED BY <1>1, <1>2, <1>3, <1>4, <1>5, <1>6, <1>7, <1>8 DEF Call

LEMMA StutterInv == ASSUME IInv, UNCHANGED vars PROVE IInv'
<1>1. UNCHANGED <<bits, data, rec, handles, pc, call, stack, img, kept, trouble>>
  BY DEF vars, disk, local
<1>2. DiskInv'
  BY <1>1 DEF IInv, DiskInv, Sound
<1>3. H' = H /\ Writing' = Writing /\ Cutting' = Cutting /\ Top' = Top /\ Target' = Target
  BY <1>1 DEF H, Writing, Cutting, Top, Target
<1>4. \A i : Base(i)' = Base(i)
  BY <1>1, <1>3 DEF Base
<1>5. CallInv' /\ KnowInv'
  BY <1>1, <1>3 DEF IInv, LocalInv, CallInv, KnowInv, IsOpen
<1>6. StackInv'
  BY <1>1, <1>3, <1>4 DEF IInv, LocalInv, StackInv
<1>7. ImgInv'
  BY <1>1, <1>3 DEF IInv, LocalInv, ImgInv, Allocated, Clusters
<1>8. LocalInv'
  BY <1>1, <1>5, <1>6, <1>7 DEF IInv, LocalInv, Sound
<1> QED BY <1>2, <1>8 DEF IInv

LEMMA NextInv == ASSUME IInv, [Next]_vars PROVE IInv'
<1>1. CASE Step
  BY <1>1, StepInv
<1>2. CASE Crash
  BY <1>2, CrashStep
<1>3. CASE Over \/ UNCHANGED vars
  BY <1>3, StutterInv DEF Over
<1>4. ASSUME NEW h \in Handle, Call(h) PROVE IInv'
  BY <1>4, CallsInv
<1> QED BY <1>1, <1>2, <1>3, <1>4 DEF Next

LEMMA Inductive == Spec => []IInv
<1>1. Init => IInv
  BY InitInv
<1>2. IInv /\ [Next]_vars => IInv'
  BY NextInv
<1> QED BY <1>1, <1>2, PTL DEF Spec

\* The types, and with them that the image of a record is never longer than
\* the clusters it maps, whichever write it comes from.
THEOREM TypeCorrect == Spec => []TypeOK
BY Inductive, InvImpliesType, PTL

LEMMA InvImpliesReads == IInv => ReadsContent
<1>1. SUFFICES ASSUME IInv, NEW h \in Handle, IsOpen(h), handles[h].knows = "size"
               PROVE  /\ AtRest /\ rec.init = rec.size /\ "dangle" \notin trouble => Read(h) = Content
                      /\ call.h = h => Len(stack) <= 2
  BY DEF ReadsContent
<1>2. handles[h].size = rec.size /\ rec.inUse /\ Sound(rec)
  BY <1>1 DEF IInv, DiskInv, LocalInv, KnowInv
<1>3. ASSUME AtRest, rec.init = rec.size PROVE Read(h) = Content
  <2>1. ReadEnd(h) = rec.size
    BY <1>2, RecordIs DEF ReadEnd, Smaller
  <2>2. Content = Stored(rec)
    BY <1>2, <1>3 DEF Content, AtRest
  <2>3. Stored(rec) = [i \in 1..rec.size |-> At(rec, i)]
    BY <1>2, <1>3, RecordIs DEF Stored
  <2> QED BY <2>1, <2>2, <2>3 DEF Read
<1>4. ASSUME call.h = h PROVE Len(stack) <= 2
  <2>1. CASE Writing
    BY <2>1, <1>1, <1>4 DEF IInv, LocalInv, KnowInv, H
  <2>2. CASE ~Writing
    BY <2>2, <1>1 DEF IInv, LocalInv, CallInv
  <2> QED BY <2>1, <2>2
<1> QED BY <1>3, <1>4

\* A handle that nobody else has overtaken keeps the file's size through all
\* of its own calls, those that fail half way included, so that it reads the
\* whole content, and a write never fills a gap inside the filling of a gap.
THEOREM HandleReads == Spec => []ReadsContent
BY Inductive, InvImpliesReads, PTL

=============================================================================
