------------------------- MODULE NtfsFileSafetyProofs -----------------------
(***************************************************************************)
(* What the calls of NtfsFile keep: preallocated clusters are given back   *)
(* when the handle that took them is closed, the content of the file       *)
(* changes as FileContent says, and a call that is met by no trouble does  *)
(* what it was asked.                                                      *)
(***************************************************************************)
EXTENDS NtfsFileProofs

\* Some handle will give back the slack of the file when it is closed.
Grown == \E h \in Handle : IsOpen(h) /\ handles[h].grew

Answered == "dangle" \notin trouble /\ ~kept /\ Slack(rec) => Grown

\* The record that is about to be written has no slack that the record on disk
\* does not have, unless the caller has grown the file; a cut leaves none, and
\* when the record of a close is not written, there are clusters to miss.
SlackInv ==
  /\ Answered
  /\ pc = "head" => rec.resident
  /\ pc = "data" => H.grew
  /\ pc = "record" /\ ~rec.resident /\ Slack(img) => Slack(rec) \/ H.grew
  /\ pc = "shrink" => ~Slack(img) /\ (call.kind = "close" => Dangling)

(***************************************************************************)
(* What a step does to the handles                                         *)
(***************************************************************************)

\* The handle of the running call is open.
LEMMA CallerIsOpen ==
  ASSUME LocalInv, Writing \/ Cutting
  PROVE  IsOpen(call.h) /\ (H.grew => Grown)
BY CallerIs, NoneAssumption DEF IsOpen, Grown

\* A call that keeps its handle keeps those that have grown the file.
LEMMA GrownStays ==
  ASSUME LocalInv, Writing \/ Cutting, NEW new \in HandleRec, NEW resized,
         Become(new, resized), H.grew => new.grew
  PROVE  Grown => Grown'
<1>1. SUFFICES ASSUME Grown PROVE Grown'
  OBVIOUS
<1>2. PICK h \in Handle : IsOpen(h) /\ handles[h].grew
  BY <1>1 DEF Grown
<1>3. handles[h] \in HandleRec /\ H = handles[call.h]
  BY <1>2, CallerIs DEF IsOpen, LocalInv
<1>4. CASE h = call.h
  <2>1. handles'[h] = new
    BY <1>4 DEF Become
  <2>2. new.grew
    BY <1>2, <1>3, <1>4
  <2> QED BY <2>1, <2>2, NoneAssumption DEF Grown, IsOpen
<1>5. CASE h # call.h
  <2>1. handles'[h] = IF resized /\ IsOpen(h) /\ handles[h].knows = "size"
                      THEN [handles[h] EXCEPT !.knows = "file"] ELSE handles[h]
    BY <1>5 DEF Become
  <2>2. handles'[h] \in HandleRec /\ handles'[h].grew
    <3>1. CASE resized /\ IsOpen(h) /\ handles[h].knows = "size"
      <4>1. handles'[h] = [handles[h] EXCEPT !.knows = "file"]
        BY <2>1, <3>1
      <4> QED BY <4>1, <1>2, <1>3 DEF HandleRec
    <3>2. CASE ~(resized /\ IsOpen(h) /\ handles[h].knows = "size")
      BY <2>1, <3>2, <1>2, <1>3
    <3> QED BY <3>1, <3>2
  <2> QED BY <2>2, NoneAssumption DEF Grown, IsOpen
<1> QED BY <1>4, <1>5

LEMMA FailStays ==
  ASSUME LocalInv, Writing \/ Cutting, NEW new \in HandleRec, NEW resized,
         Fail(new, resized), new.grew = H.grew
  PROVE  pc' = "failed" /\ (Grown => Grown')
<1>1. PICK left \in HandleRec : Become(left, resized) /\ Return("failed") /\ left.grew = new.grew
  BY FailIs
<1>2. Grown => Grown'
  BY <1>1, GrownStays
<1> QED BY <1>1, <1>2 DEF Return

LEMMA FinishStays ==
  ASSUME LocalInv, Writing, NEW new \in HandleRec, NEW resized,
         Finish(new, resized), new.grew = H.grew
  PROVE  pc' \in {"ok", "put", "enter"} /\ (Grown => Grown')
<1>1. stack \in Seq(FrameRec) /\ Len(stack) \in Nat /\ Len(stack) >= 1
  BY TopIs
<1>2. CASE Len(stack) = 1
  <2> DEFINE end == IF call.kind = "resize" THEN Resized(new) ELSE new
  <2>1. Become(end, resized) /\ Return("ok")
    BY <1>2, Zenon DEF Finish
  <2>2. end \in HandleRec /\ end.grew = new.grew
    <3>1. call.len \in Nat /\ Smaller(call.at, call.len) \in 0..MaxUnits
      BY CallerIs, Constants DEF Smaller
    <3>2. Resized(new) \in HandleRec /\ Resized(new).grew = new.grew
      BY <3>1 DEF Resized, HandleRec
    <3> QED BY <3>2
  <2> HIDE DEF end
  <2> QED BY <2>1, <2>2, GrownStays DEF Return
<1>3. CASE Len(stack) # 1
  <2> DEFINE up   == stack[Len(stack) - 1]
             left == up.gap - Top.len
             on   == IF left = 0 THEN [new EXCEPT !.pos = up.goal] ELSE new
  <2>1. Become(on, resized) /\ pc' = (IF left = 0 THEN "put" ELSE "enter")
    BY <1>3, Zenon DEF Finish
  <2>2. up.goal \in 0..MaxUnits
    <3> DEFINE m == Len(stack) - 1
    <3>1. m \in 1..Len(stack) /\ m # Len(stack)
      <4>1. PICK n \in Nat : n = Len(stack)
        BY <1>1
      <4>2. n - 1 \in 1..n /\ n - 1 # n
        BY <1>1, <1>3, <4>1
      <4> QED BY <4>1, <4>2
    <3>2. Base(m) + stack[m].len <= MaxUnits /\ stack[m] \in FrameRec
      BY <1>1, <3>1 DEF LocalInv, StackInv
    <3>3. Base(m) = stack[m].goal /\ stack[m].goal \in Nat /\ stack[m].len \in Nat
      BY <3>1, <3>2 DEF Base, FrameRec
    <3> QED BY <3>1, <3>2, <3>3, Constants
  <2> HIDE DEF up, left
  <2>3. on \in HandleRec /\ on.grew = new.grew
    BY <2>2 DEF HandleRec
  <2> HIDE DEF on
  <2> QED BY <2>1, <2>3, GrownStays
<1> QED BY <1>2, <1>3

\* Data, and slack, that a call leaves as they were.
LEMMA Leaves ==
  ASSUME SlackInv, trouble \subseteq trouble', kept' = kept, rec' = rec, Grown => Grown',
         pc' \notin {"data", "record", "shrink"}, pc' = "head" => rec.resident
  PROVE  SlackInv'
<1>1. Slack(rec)' = Slack(rec)
  BY DEF Slack, Clusters
<1>2. Answered'
  BY <1>1 DEF SlackInv, Answered
<1> QED BY <1>2 DEF SlackInv

\* A record without slack.
LEMMA LeavesNone ==
  ASSUME ~Slack(rec'), pc' \notin {"head", "data", "record", "shrink"}
  PROVE  SlackInv'
<1>1. ~Slack(rec)'
  BY DEF Slack, Clusters
<1>2. Answered'
  BY <1>1 DEF Answered
<1> QED BY <1>2 DEF SlackInv

\* A longer file has no more slack.
LEMMA LessSlack ==
  ASSUME NEW r, NEW q, Sound(r), Sound(q), q.map = r.map, q.inUse = r.inUse, ~r.resident,
         r.size <= q.size, Slack(q)
  PROVE  Slack(r)
<1>1. r.size \in Nat /\ q.size \in Nat
  BY RecordIs
<1>2. Clusters(q.size) \in Nat /\ q.size <= Clusters(q.size) * PerCluster
  BY <1>1, ClustersHold
<1>3. Clusters(q.size) * PerCluster \in Nat
  BY <1>2, MoreClusters
<1>4. r.size <= Clusters(q.size) * PerCluster
  BY <1>1, <1>2, <1>3
<1>5. Clusters(r.size) \in Nat /\ Clusters(r.size) <= Clusters(q.size)
  BY <1>1, <1>2, <1>4, ClustersHold
<1>6. Len(r.map) \in Nat
  BY RecordIs
<1> QED BY <1>2, <1>5, <1>6 DEF Slack

LEMMA MovedGrew ==
  ASSUME LocalInv, Writing, NEW k \in 0..Top.len
  PROVE  /\ Moved(k) \in HandleRec /\ Moved(k).grew = H.grew
         /\ GrownTo(Moved(k)) \in HandleRec /\ GrownTo(Moved(k)).grew = H.grew
<1>1. H \in HandleRec /\ Moved(k) \in HandleRec /\ GrownTo(Moved(k)) \in HandleRec
  BY CallerIs, MovedIs
<1>2. Moved(k).grew = H.grew
  BY <1>1 DEF Moved, HandleRec
<1>3. GrownTo(Moved(k)).grew = Moved(k).grew
  BY <1>1 DEF GrownTo, HandleRec
<1> QED BY <1>1, <1>2, <1>3

(***************************************************************************)
(* Each step                                                               *)
(***************************************************************************)
LEMMA SlackLeft ==
  ASSUME IInv, SlackInv, IInv',
         \/ WriteNothing \/ ConvertRefused \/ GrowRefused \/ CutRefused \/ CutNothing
         \/ FillGap \/ ConvertAllocate \/ Answer
  PROVE  SlackInv'
<1>1. UNCHANGED <<rec, kept, trouble>>
  BY DEF WriteNothing, ConvertRefused, GrowRefused, CutRefused, CutNothing, FillGap,
         ConvertAllocate, Answer, disk
<1>2. LocalInv
  BY DEF IInv
<1>3. CASE WriteNothing
  <2>1. Writing /\ Finish(H, FALSE)
    BY <1>3 DEF WriteNothing, Ready, Writing
  <2>2. H \in HandleRec
    BY <1>2, <2>1, CallerIs
  <2> QED BY <2>1, <2>2, <1>1, <1>2, FinishStays, Leaves
<1>4. CASE ConvertRefused \/ GrowRefused \/ CutRefused
  <2>1. (Writing \/ Cutting) /\ Fail(H, FALSE)
    BY <1>4 DEF ConvertRefused, GrowRefused, CutRefused, Ready, Writing, Cutting
  <2>2. H \in HandleRec
    BY <1>2, <2>1, CallerIs
  <2> QED BY <2>1, <2>2, <1>1, <1>2, FailStays, Leaves
<1>5. CASE CutNothing
  <2>1. Cutting /\ Become(Resized(H), FALSE) /\ pc' = "ok"
    BY <1>5 DEF CutNothing, Cutting, Return
  <2>2. Resized(H) \in HandleRec /\ Resized(H).grew = H.grew
    BY <1>2, <2>1, ResizedIs, CallerIs DEF Resized, HandleRec
  <2>3. Grown => Grown'
    BY <1>2, <2>1, <2>2, GrownStays
  <2> QED BY <2>1, <2>3, <1>1, Leaves
<1>6. CASE FillGap
  <2> DEFINE new == [H EXCEPT !.pos = H.size]
  <2>1. Writing /\ pc' = "enter" /\ Become(new, FALSE) /\ H.pos > H.size
    BY <1>6 DEF FillGap, Writing
  <2>2. H \in HandleRec /\ H.size \in 0..MaxUnits
    BY <1>2, <2>1, CallerIs, Constants
  <2>3. new \in HandleRec /\ new.grew = H.grew
    BY <2>2 DEF HandleRec
  <2> HIDE DEF new
  <2>4. Grown => Grown'
    BY <1>2, <2>1, <2>3, GrownStays
  <2> QED BY <2>1, <2>4, <1>1, Leaves
<1>7. CASE ConvertAllocate
  <2>1. pc' = "head" /\ handles' = handles /\ rec.resident
    BY <1>7 DEF ConvertAllocate
  <2>2. Grown => Grown'
    BY <2>1 DEF Grown, IsOpen
  <2> QED BY <2>1, <2>2, <1>1, Leaves
<1>8. CASE Answer
  <2>1. /\ pc' = "idle"
        /\ handles' = [h \in Handle |-> IF IsOpen(h) THEN [handles[h] EXCEPT !.pos = 0] ELSE None]
    BY <1>8 DEF Answer
  <2>2. ASSUME NEW h \in Handle, IsOpen(h), handles[h].grew PROVE Grown'
    <3>1. handles[h] \in HandleRec /\ handles'[h] = [handles[h] EXCEPT !.pos = 0]
      BY <2>1, <2>2, <1>2 DEF LocalInv, IsOpen
    <3>2. handles'[h] \in HandleRec /\ handles'[h].grew
      BY <3>1, <2>2, Constants DEF HandleRec
    <3> QED BY <3>2, NoneAssumption DEF Grown, IsOpen
  <2>3. Grown => Grown'
    BY <2>2 DEF Grown
  <2> QED BY <2>1, <2>3, <1>1, Leaves
<1> QED BY <1>3, <1>4, <1>5, <1>6, <1>7, <1>8

LEMMA SlackResident ==
  ASSUME IInv, SlackInv, IInv', WriteResident \/ CutResident
  PROVE  SlackInv'
<1>1. LocalInv /\ rec.resident /\ UNCHANGED <<kept, trouble>> /\ (Writing \/ Cutting)
  BY DEF IInv, WriteResident, CutResident, Ready, Writing, Cutting
<1>2. H \in HandleRec /\ Sound(rec)
  BY <1>1, CallerIs DEF IInv, DiskInv
<1>3. CASE rec' = rec /\ Fail(H, FALSE)
  BY <1>1, <1>2, <1>3, FailStays, Leaves
<1>4. CASE ~(rec' = rec /\ Fail(H, FALSE))
  <2>1. CASE WriteResident
    <3> DEFINE value == Splice(rec.value, H.pos, Top.len, Top.val)
               grows == Len(value) > Len(rec.value)
               to    == IF grows THEN GrownTo(Moved(Top.len)) ELSE Moved(Top.len)
    <3>1. /\ Writing /\ Finish(to, grows)
          /\ rec' = [rec EXCEPT !.value = value, !.size = Len(value), !.init = Len(value)]
      BY <2>1, <1>4 DEF WriteResident, Ready, Writing
    <3>2. Top.len \in 0..Top.len
      BY <1>1, <3>1, TopIs
    <3>3. Moved(Top.len) \in HandleRec /\ Moved(Top.len).grew = H.grew
          /\ GrownTo(Moved(Top.len)) \in HandleRec /\ GrownTo(Moved(Top.len)).grew = H.grew
      BY <1>1, <1>2, <3>1, <3>2, MovedGrew
    <3>4. to \in HandleRec /\ to.grew = H.grew
      BY <3>3
    <3> HIDE DEF to, grows, value
    <3>5. rec'.resident
      BY <3>1, <1>1, <1>2 DEF Sound, FileRec
    <3> QED BY <3>1, <3>4, <3>5, <1>1, FinishStays, LeavesNone DEF Slack
  <2>2. CASE CutResident
    <3>1. pc' = "ok" /\ rec' = [rec EXCEPT !.value = SubSeq(@, 1, call.len), !.size = call.len, !.init = call.len]
      BY <2>2, <1>4 DEF CutResident, Return
    <3>2. rec'.resident
      BY <3>1, <1>1, <1>2 DEF Sound, FileRec
    <3> QED BY <3>1, <3>2, LeavesNone DEF Slack
  <2> QED BY <2>1, <2>2
<1> QED BY <1>3, <1>4

LEMMA SlackFill ==
  ASSUME IInv, SlackInv, IInv', ConvertFill
  PROVE  SlackInv'
<1>1. LocalInv /\ Writing /\ pc = "head" /\ UNCHANGED <<rec, kept, trouble>>
  BY DEF IInv, ConvertFill, Writing
<1>2. H \in HandleRec
  BY <1>1, CallerIs
<1>3. CASE Fail(H, FALSE)
  BY <1>1, <1>2, <1>3, FailStays, Leaves
<1>4. CASE pc' = "record" /\ UNCHANGED <<handles, call, img>>
  <2>1. rec.resident
    BY <1>1 DEF SlackInv
  <2>2. Answered'
    BY <1>1, <1>4 DEF SlackInv, Answered, Slack, Clusters, Grown, IsOpen
  <2> QED BY <2>1, <2>2, <1>1, <1>4 DEF SlackInv
<1> QED BY <1>3, <1>4 DEF ConvertFill

LEMMA SlackGrow ==
  ASSUME IInv, SlackInv, IInv', GrowAllocate
  PROVE  SlackInv'
<1>1. /\ LocalInv /\ Writing /\ pc' = "data" /\ Become(Growing(H), FALSE) /\ call' = call
      /\ UNCHANGED <<rec, kept, trouble>>
  BY DEF IInv, GrowAllocate, Ready, Writing
<1>2. H \in HandleRec /\ call.h \in Handle
  BY <1>1, CallerIs
<1>3. Growing(H) \in HandleRec /\ Growing(H).grew
  BY <1>2 DEF Growing, HandleRec
<1>4. Grown => Grown'
  BY <1>1, <1>3, GrownStays
<1>5. H' = Growing(H)
  BY <1>1, <1>2 DEF H, Become
<1>6. Answered'
  BY <1>1, <1>4 DEF SlackInv, Answered, Slack, Clusters
<1> QED BY <1>1, <1>3, <1>5, <1>6 DEF SlackInv

LEMMA SlackData ==
  ASSUME IInv, SlackInv, IInv', WriteData
  PROVE  SlackInv'
<1> DEFINE r == IF pc = "data" THEN img ELSE rec
<1>1. /\ pc = "data" \/ (Ready /\ Top.len > 0 /\ ~rec.resident /\ InClusters)
      /\ \E k \in 0..Top.len :
            IF Target > rec.size
              THEN /\ img' = [r EXCEPT !.size = Target, !.init = Target]
                   /\ pc' = "record"
                   /\ trouble \subseteq trouble'
                   /\ UNCHANGED <<handles, call>>
              ELSE /\ UNCHANGED trouble
                   /\ IF k = Top.len THEN Finish(Moved(k), FALSE) ELSE Fail(Moved(k), FALSE)
      /\ UNCHANGED <<rec, kept>>
  BY DEF WriteData, Hit
<1>2. Writing /\ LocalInv /\ Sound(rec) /\ Sound(img) /\ Sound(img')
  BY <1>1 DEF IInv, Ready, Writing, DiskInv, LocalInv, Sound
<1>3. PICK k \in 0..Top.len :
            IF Target > rec.size
              THEN /\ img' = [r EXCEPT !.size = Target, !.init = Target]
                   /\ pc' = "record"
                   /\ trouble \subseteq trouble'
                   /\ UNCHANGED <<handles, call>>
              ELSE /\ UNCHANGED trouble
                   /\ IF k = Top.len THEN Finish(Moved(k), FALSE) ELSE Fail(Moved(k), FALSE)
  BY <1>1
<1>4. CASE Target > rec.size
  <2>1. /\ img' = [r EXCEPT !.size = Target, !.init = Target] /\ pc' = "record"
        /\ trouble \subseteq trouble' /\ UNCHANGED <<handles, call>>
    BY <1>3, <1>4
  <2>2. H' = H /\ Slack(rec)' = Slack(rec) /\ (Grown' <=> Grown)
    BY <1>1, <2>1 DEF H, Slack, Clusters, Grown, IsOpen
  <2>3. Answered'
    BY <2>1, <2>2, <1>1 DEF SlackInv, Answered
  <2>4. ASSUME ~rec.resident, Slack(img') PROVE Slack(rec) \/ H.grew
    <3>1. CASE pc = "data"
      BY <3>1 DEF SlackInv
    <3>2. CASE pc # "data"
      <4>1. img' = [rec EXCEPT !.size = Target, !.init = Target]
        BY <2>1, <3>2
      <4>2. Target \in Nat /\ rec \in FileRec /\ rec.size \in Nat
        BY <1>2, TopIs, RecordIs
      <4>3. img'.map = rec.map /\ img'.inUse = rec.inUse /\ img'.size = Target /\ rec.size <= Target
        BY <4>1, <4>2, <1>4 DEF FileRec
      <4> QED BY <4>3, <1>2, <2>4, LessSlack
    <3> QED BY <3>1, <3>2
  <2>5. Slack(img)' = Slack(img')
    BY DEF Slack, Clusters
  <2> QED BY <2>1, <2>2, <2>3, <2>4, <2>5, <1>1 DEF SlackInv
<1>5. CASE ~(Target > rec.size)
  <2>1. trouble' = trouble /\ (Finish(Moved(k), FALSE) \/ Fail(Moved(k), FALSE))
    BY <1>3, <1>5
  <2>2. Moved(k) \in HandleRec /\ Moved(k).grew = H.grew
    BY <1>2, MovedGrew
  <2>3. pc' \in {"ok", "put", "enter", "failed"} /\ (Grown => Grown')
    <3>1. CASE Finish(Moved(k), FALSE)
      BY <3>1, <2>2, <1>2, FinishStays
    <3>2. CASE Fail(Moved(k), FALSE)
      BY <3>2, <2>2, <1>2, FailStays
    <3> QED BY <2>1, <3>1, <3>2
  <2> QED BY <2>1, <2>3, <1>1, Leaves
<1> QED BY <1>4, <1>5

LEMMA SlackRecord ==
  ASSUME IInv, SlackInv, IInv', WriteRecord
  PROVE  SlackInv'
<1> DEFINE new == GrownTo(Moved(Top.done))
<1>1. /\ pc = "record" /\ trouble' = trouble
      /\ \/ /\ rec' = img
            /\ kept' = IF rec.resident THEN Slack(img) ELSE kept
            /\ Finish(new, TRUE) \/ Fail(new, TRUE)
         \/ Fail(H, FALSE) /\ UNCHANGED <<rec, kept>>
  BY DEF WriteRecord
<1>2. LocalInv /\ Writing /\ H \in HandleRec
  BY <1>1, CallerIs DEF IInv, Writing
<1>3. CASE /\ rec' = img
           /\ kept' = IF rec.resident THEN Slack(img) ELSE kept
           /\ Finish(new, TRUE) \/ Fail(new, TRUE)
  <2>1. Top.done \in 0..Top.len
    BY <1>1, <1>2, TopIs DEF LocalInv, StackInv
  <2>2. new \in HandleRec /\ new.grew = H.grew
    BY <2>1, <1>2, MovedGrew
  <2> HIDE DEF new
  <2>3. pc' \in {"ok", "put", "enter", "failed"} /\ (Grown => Grown')
    <3>1. CASE Finish(new, TRUE)
      BY <3>1, <2>2, <1>2, FinishStays
    <3>2. CASE Fail(new, TRUE)
      BY <3>2, <2>2, <1>2, FailStays
    <3> QED BY <3>1, <3>2, <1>3
  <2>4. Slack(rec)' = Slack(img)
    BY <1>3 DEF Slack, Clusters
  <2>5. Answered'
    <3>1. CASE rec.resident
      BY <3>1, <2>4, <1>3 DEF Answered
    <3>2. CASE ~rec.resident
      <4>1. Slack(img) => Slack(rec) \/ H.grew
        BY <3>2, <1>1 DEF SlackInv
      <4>2. H.grew => Grown
        BY <1>2, CallerIsOpen
      <4> QED BY <4>1, <4>2, <2>3, <2>4, <3>2, <1>1, <1>3 DEF SlackInv, Answered
    <3> QED BY <3>1, <3>2
  <2> QED BY <2>3, <2>5 DEF SlackInv
<1>4. CASE Fail(H, FALSE) /\ UNCHANGED <<rec, kept>>
  BY <1>1, <1>2, <1>4, FailStays, Leaves
<1> QED BY <1>1, <1>3, <1>4

\* The clusters of the image of a cut are those that its size takes.
LEMMA CutIsTight ==
  ASSUME Sound(rec), ~rec.resident, NEW s \in Nat, s <= rec.size
  PROVE  Len(SubSeq(rec.map, 1, Clusters(s))) = Clusters(s) /\ Clusters(s) \in 0..Len(rec.map)
<1>1. /\ rec.map \in Seq(Cluster) /\ Len(rec.map) \in Nat /\ rec.size \in Nat
      /\ rec.size <= Len(rec.map) * PerCluster /\ Len(rec.map) * PerCluster \in Nat
  BY RecordIs
<1>2. s <= Len(rec.map) * PerCluster
  BY <1>1
<1>3. Clusters(s) \in Nat /\ Clusters(s) <= Len(rec.map)
  BY <1>1, <1>2, ClustersHold
<1> QED BY <1>1, <1>3

LEMMA SlackCut ==
  ASSUME IInv, SlackInv, IInv', CutFree \/ TrimFree
  PROVE  SlackInv'
<1> DEFINE s == IF pc = "cut" THEN call.len ELSE rec.size
<1>1. /\ pc \in {"cut", "trim"} /\ pc' = "shrink" /\ FreeTail(Clusters(s))
      /\ UNCHANGED <<rec, handles, call, kept, trouble>>
      /\ pc = "cut" => call.len < rec.size /\ ~rec.resident
      /\ \/ img' = [rec EXCEPT !.map = SubSeq(@, 1, Clusters(s)), !.size = s,
                               !.init = Smaller(@, call.len)]
         \/ img' = [rec EXCEPT !.map = SubSeq(@, 1, Clusters(s))] /\ s = rec.size
  BY DEF CutFree, TrimFree
<1>2. LocalInv /\ Cutting /\ Sound(rec)
  BY <1>1 DEF IInv, DiskInv, Cutting
<1>3. /\ rec \in FileRec /\ rec.size \in Nat /\ rec.map \in Seq(Cluster) /\ Len(rec.map) \in Nat
      /\ call.len \in Nat
  BY <1>2, RecordIs, CallerIs
<1>4. pc = "trim" => call.kind = "close" /\ ~rec.resident /\ Clusters(rec.size) < Len(rec.map)
  BY <1>2 DEF LocalInv, ImgInv
<1>5. ~rec.resident /\ s \in Nat /\ s <= rec.size
  BY <1>1, <1>3, <1>4
<1>6. pc = "cut" => call.kind = "resize"
  BY <1>2 DEF LocalInv, ImgInv
<1> DEFINE c == Clusters(s)
           m == SubSeq(rec.map, 1, c)
<1>7. Len(m) = c /\ c \in 0..Len(rec.map)
  BY <1>2, <1>5, CutIsTight
<1>8. img'.size = s /\ img'.map = m
  BY <1>1, <1>3 DEF FileRec
<1>9. ~Slack(img')
  <2>1. Clusters(img'.size) = c
    BY <1>8
  <2> HIDE DEF c, m, s
  <2>2. Len(img'.map) = c /\ c \in Nat
    BY <1>3, <1>7, <1>8
  <2> QED BY <2>1, <2>2 DEF Slack
<1>10. ~Slack(img)'
  BY <1>9 DEF Slack, Clusters
<1>11. Answered'
  BY <1>1 DEF SlackInv, Answered, Slack, Clusters, Grown, IsOpen
<1>12. ASSUME call.kind = "close" PROVE Dangling'
  <2>1. pc = "trim" /\ s = rec.size /\ c < Len(rec.map)
    BY <1>1, <1>4, <1>6, <1>12
  <2> HIDE DEF c, s
  <2>2. Len(rec.map) \in (c + 1)..Len(rec.map) /\ Len(rec.map) \in DOMAIN rec.map
    BY <2>1, <1>3, <1>7
  <2>3. rec.map[Len(rec.map)] \notin bits'
    BY <2>2, <1>1 DEF FreeTail, c
  <2>4. rec.map[Len(rec.map)] \in ClustersOf(rec)
    BY <2>2 DEF ClustersOf
  <2>5. ClustersOf(rec)' = ClustersOf(rec)
    BY <1>1 DEF ClustersOf
  <2> QED BY <2>3, <2>4, <2>5 DEF Dangling
<1> QED BY <1>1, <1>10, <1>11, <1>12 DEF SlackInv

LEMMA SlackShrink ==
  ASSUME IInv, SlackInv, IInv', ShrinkRecord
  PROVE  SlackInv'
<1>1. LocalInv /\ Cutting /\ pc = "shrink" /\ pc' \in {"ok", "failed"}
  BY DEF IInv, ShrinkRecord, Cutting, Return
<1>2. call.kind \in {"resize", "close"} /\ H \in HandleRec
  BY <1>1, CallerIs DEF LocalInv, ImgInv
<1>3. CASE rec' = img
  BY <1>1, <1>3, LeavesNone DEF SlackInv
<1>4. CASE rec' # img
  <2>1. /\ Become(IF call.kind = "close" THEN None ELSE H, FALSE)
        /\ trouble' = trouble \cup (IF Dangling THEN {"dangle"} ELSE {})
        /\ UNCHANGED <<rec, kept>>
    BY <1>4 DEF ShrinkRecord, Hit
  <2>2. CASE call.kind = "close"
    <3>1. "dangle" \in trouble'
      BY <2>1, <2>2, <1>1 DEF SlackInv
    <3> QED BY <3>1, <1>1 DEF SlackInv, Answered
  <2>3. CASE call.kind = "resize"
    <3>1. Become(H, FALSE)
      BY <2>1, <2>3
    <3>2. Grown => Grown'
      BY <3>1, <1>1, <1>2, GrownStays
    <3> QED BY <2>1, <3>2, <1>1, Leaves
  <2> QED BY <2>2, <2>3, <1>2
<1> QED BY <1>3, <1>4

\* The handles that a call begins with are those before it.
LEMMA SlackBegin ==
  ASSUME IInv, SlackInv, IInv', NEW h \in Handle, NEW kind, NEW at, NEW len,
         NEW where \in {"enter", "cut", "trim"}, Begin(h, kind, at, len, where),
         NEW p \in 0..MaxUnits, handles' = SetPosition(h, p) \/ handles' = handles
  PROVE  SlackInv'
<1>1. /\ pc = "idle" /\ IsOpen(h) /\ pc' = where
      /\ trouble \subseteq trouble' /\ UNCHANGED <<rec, kept>>
  BY DEF Begin, MayCall, AtRest, disk
<1>2. handles \in [Handle -> HandleRec \cup {None}]
  BY DEF IInv, LocalInv
<1>3. ASSUME NEW g \in Handle, IsOpen(g), handles[g].grew PROVE Grown'
  <2>1. CASE handles' = handles
    BY <2>1, <1>3 DEF Grown, IsOpen
  <2>2. CASE handles' = SetPosition(h, p)
    <3> DEFINE new == [handles[h] EXCEPT !.pos = p]
    <3>1. handles[h] \in HandleRec
      BY <1>1, <1>2 DEF IsOpen
    <3>2. new \in HandleRec /\ new.grew = handles[h].grew
      BY <3>1 DEF HandleRec
    <3>3. handles' = [handles EXCEPT ![h] = new]
      BY <2>2 DEF SetPosition
    <3> HIDE DEF new
    <3>4. CASE g = h
      <4>1. handles'[g] = new /\ new.grew
        BY <3>2, <3>3, <3>4, <1>2, <1>3
      <4> QED BY <4>1, <3>2, NoneAssumption DEF Grown, IsOpen
    <3>5. CASE g # h
      <4>1. handles'[g] = handles[g]
        BY <3>3, <3>5, <1>2
      <4> QED BY <4>1, <1>3 DEF Grown, IsOpen
    <3> QED BY <3>4, <3>5
  <2> QED BY <2>1, <2>2
<1>4. Grown => Grown'
  BY <1>3 DEF Grown
<1> QED BY <1>1, <1>4, Leaves

LEMMA SlackCalls ==
  ASSUME IInv, SlackInv, IInv', NEW h \in Handle, Call(h)
  PROVE  SlackInv'
<1>0. handles \in [Handle -> HandleRec \cup {None}] /\ Sound(rec)
  BY DEF IInv, LocalInv, DiskInv
<1>1. CASE Open(h)
  <2>1. pc' = "idle" /\ ~IsOpen(h) /\ handles' = [handles EXCEPT ![h] = Opened] /\ UNCHANGED <<rec, kept, trouble>>
    BY <1>1 DEF Open, MayCall, AtRest, disk
  <2>2. ASSUME NEW g \in Handle, IsOpen(g), handles[g].grew PROVE Grown'
    <3>1. handles'[g] = handles[g]
      BY <2>1, <2>2, <1>0
    <3> QED BY <3>1, <2>2 DEF Grown, IsOpen
  <2>3. Grown => Grown'
    BY <2>2 DEF Grown
  <2> QED BY <2>1, <2>3, Leaves
<1>2. CASE Create(h)
  <2>1. pc' = "idle" /\ rec'.resident
    BY <1>2 DEF Create, MayCall, AtRest, NewFile
  <2> QED BY <2>1, LeavesNone DEF Slack
<1>3. CASE Close(h)
  <2>1. pc' = "idle" /\ ~Trims(h) /\ handles' = [handles EXCEPT ![h] = None] /\ UNCHANGED <<rec, kept, trouble>>
    BY <1>3 DEF Close, MayCall, AtRest, disk
  <2>2. CASE Slack(rec)
    <3>1. ~handles[h].grew
      BY <2>1, <2>2 DEF Trims, Slack
    <3>2. ASSUME NEW g \in Handle, IsOpen(g), handles[g].grew PROVE Grown'
      <4>1. handles'[g] = handles[g]
        BY <2>1, <3>1, <3>2, <1>0
      <4> QED BY <4>1, <3>2 DEF Grown, IsOpen
    <3>3. Grown => Grown'
      BY <3>2 DEF Grown
    <3> QED BY <2>1, <3>3, Leaves
  <2>3. CASE ~Slack(rec)
    <3>1. ~Slack(rec')
      BY <2>1, <2>3
    <3> QED BY <2>1, <3>1, LeavesNone
  <2> QED BY <2>2, <2>3
<1>4. CASE CloseTrim(h)
  <2>1. Begin(h, "close", 0, 0, "trim") /\ handles' = handles /\ 0 \in 0..MaxUnits
    BY <1>4, Constants DEF CloseTrim
  <2> QED BY <2>1, SlackBegin
<1>5. CASE Delete(h)
  <2>1. pc' = "idle" /\ rec' = [rec EXCEPT !.inUse = FALSE]
    BY <1>5 DEF Delete, MayCall, AtRest
  <2>2. ~rec'.inUse
    BY <2>1, <1>0 DEF Sound, FileRec
  <2> QED BY <2>1, <2>2, LeavesNone DEF Slack
<1>6. CASE DeleteRefused(h)
  <2>1. pc' = "idle" /\ kept' = (kept \/ Slack(rec)) /\ rec' = rec
    BY <1>6 DEF DeleteRefused, MayCall, AtRest, disk
  <2>2. Slack(rec)' = Slack(rec)
    BY <2>1 DEF Slack, Clusters
  <2>3. Answered'
    BY <2>1, <2>2 DEF Answered
  <2> QED BY <2>1, <2>3 DEF SlackInv
<1>7. ASSUME NEW p \in 0..MaxUnits, NEW n \in 0..MaxUnits, Extend(h, p, n) PROVE SlackInv'
  <2>1. Begin(h, "resize", p, n, "enter") /\ handles' = SetPosition(h, n)
    BY <1>7 DEF Extend
  <2> QED BY <2>1, SlackBegin
<1>8. ASSUME NEW p \in 0..MaxUnits, NEW n \in 0..MaxUnits, Truncate(h, p, n) PROVE SlackInv'
  <2>1. Begin(h, "resize", p, n, "cut") /\ handles' = SetPosition(h, p)
    BY <1>8 DEF Truncate
  <2> QED BY <2>1, SlackBegin
<1>9. ASSUME NEW p \in 0..MaxUnits, NEW n \in 1..MaxWrite, Write(h, p, n) PROVE SlackInv'
  <2>1. Begin(h, "write", p, n, "enter") /\ handles' = SetPosition(h, p)
    BY <1>9 DEF Write
  <2> QED BY <2>1, SlackBegin
<1> QED BY <1>1, <1>2, <1>3, <1>4, <1>5, <1>6, <1>7, <1>8, <1>9 DEF Call

LEMMA SlackStutters == ASSUME SlackInv, UNCHANGED vars PROVE SlackInv'
<1>1. UNCHANGED <<bits, rec, handles, pc, call, img, kept, trouble>>
  BY DEF vars, disk, local
<1>2. H' = H /\ Slack(img)' = Slack(img) /\ Slack(rec)' = Slack(rec)
  BY <1>1 DEF H, Slack, Clusters
<1>3. (Dangling' <=> Dangling) /\ (Grown' <=> Grown)
  BY <1>1 DEF Dangling, ClustersOf, Grown, IsOpen
<1> QED BY <1>1, <1>2, <1>3 DEF SlackInv, Answered

LEMMA SlackNext == ASSUME IInv, SlackInv, IInv', [Next]_vars PROVE SlackInv'
<1>1. CASE \/ WriteNothing \/ ConvertRefused \/ GrowRefused \/ CutRefused \/ CutNothing
           \/ FillGap \/ ConvertAllocate \/ Answer
  BY <1>1, SlackLeft
<1>2. CASE WriteResident \/ CutResident
  BY <1>2, SlackResident
<1>3. CASE ConvertFill
  BY <1>3, SlackFill
<1>4. CASE GrowAllocate
  BY <1>4, SlackGrow
<1>5. CASE WriteData
  BY <1>5, SlackData
<1>6. CASE WriteRecord
  BY <1>6, SlackRecord
<1>7. CASE CutFree \/ TrimFree
  BY <1>7, SlackCut
<1>8. CASE ShrinkRecord
  BY <1>8, SlackShrink
<1>9. CASE Step
  BY <1>1, <1>2, <1>3, <1>4, <1>5, <1>6, <1>7, <1>8, <1>9 DEF Step
<1>10. CASE Crash
  <2>1. pc' = "idle" /\ kept' = (kept \/ Slack(rec)) /\ rec' = rec
    BY <1>10 DEF Crash
  <2>2. Slack(rec)' = Slack(rec)
    BY <2>1 DEF Slack, Clusters
  <2>3. Answered'
    BY <2>1, <2>2 DEF Answered
  <2> QED BY <2>1, <2>3 DEF SlackInv
<1>11. CASE Over \/ UNCHANGED vars
  BY <1>11, SlackStutters DEF Over
<1>12. ASSUME NEW h \in Handle, Call(h) PROVE SlackInv'
  BY <1>12, SlackCalls
<1> QED BY <1>9, <1>10, <1>11, <1>12 DEF Next

LEMMA SlackInit == Init => SlackInv
BY DEF Init, SlackInv, Answered

LEMMA SlackImplies == IInv /\ SlackInv => SlackReturned
BY DEF SlackInv, Answered, SlackReturned, Grown

\* Preallocated clusters never outlive the handles that took them: between
\* calls there is slack only while a handle is open whose close will trim it,
\* whichever calls have failed, but for what a conversion, a refused delete or
\* a loss of power leaves, and a cut that did not get to the record.
THEOREM SlackGivenBack == Spec => []SlackReturned
<1>1. IInv /\ SlackInv /\ [Next]_vars => IInv' /\ SlackInv'
  BY NextInv, SlackNext
<1>2. Init => IInv /\ SlackInv
  BY InitInv, SlackInit
<1> QED BY <1>1, <1>2, SlackImplies, PTL DEF Spec

(***************************************************************************)
(* The content of the file.  What follows is about calls that meet nothing *)
(* worse than a handle with a size smaller than the file's.                *)
(***************************************************************************)

\* No file is found that maps a cluster twice.
MappedOnce == \A r \in Files : \A i, j \in DOMAIN r.map : r.map[i] = r.map[j] => i = j

OneToOne(m) == \A i, j \in DOMAIN m : m[i] = m[j] => i = j
Begins(m, n) == Len(m) <= Len(n) /\ \A i \in DOMAIN m : n[i] = m[i]

\* At and Stored, of the clusters d.
AtIn(d, r, i) == IF r.resident THEN r.value[i] ELSE d[Place(r, i)[1]][Place(r, i)[2]]
StoredIn(d, r) == [i \in 1..r.size |-> IF i <= r.init THEN AtIn(d, r, i) ELSE Zero]

\* A handle knows of a file that is there.
InUseInv == \A h \in Handle : IsOpen(h) /\ handles[h].knows # "nothing" => rec.inUse

\* The file's clusters, and those that the running call is adding to them, are
\* marked, each mapped once; but for a cut, whose clusters are free before the
\* record is written.
MapInv ==
  /\ OneToOne(rec.map)
  /\ rec.inUse /\ ~rec.resident /\ pc # "shrink" => ClustersOf(rec) \subseteq bits
  /\ pc \in {"head", "data", "record"} => OneToOne(img.map)
  /\ pc \in {"head", "data", "record", "shrink"} => ClustersOf(img) \subseteq bits

\* A call works on a file that is there, all of it written, and begins to write
\* no further than at its end.
PlaceInv ==
  /\ Writing \/ Cutting => rec.inUse /\ rec.init = rec.size
  /\ Writing => H.size <= rec.size
  /\ pc \in {"put", "head", "data", "record"} => H.pos <= rec.size

\* The record that is about to be written says what the disk already holds: the
\* old content up to the data, then the data; or the content cut short.
ImageInv ==
  /\ pc = "head" => rec.resident /\ img.init = img.size
  /\ pc = "data" => ~rec.resident /\ Begins(rec.map, img.map)
  /\ pc = "record" =>
       /\ img.init = img.size /\ ~img.resident /\ Top.done = Top.len
       /\ \A i \in 1..H.pos : AtIn(data, img, i) = AtIn(data, rec, i)
       /\ \A i \in (H.pos + 1)..Target : AtIn(data, img, i) = Top.val
  /\ pc = "shrink" =>
       /\ ~rec.resident /\ ~img.resident /\ Begins(img.map, rec.map)
       /\ img.size <= rec.size /\ img.init = img.size

Body == InUseInv /\ MapInv /\ PlaceInv /\ ImageInv
Follows == trouble \subseteq {"behind"}
ContentInv == Follows => Body

\* Each step of the file is one that FileContent has, or none.
Refines == File!Next \/ Content' = Content

(***************************************************************************)
(* Units, and where they lie                                               *)
(***************************************************************************)
LEMMA DivMod ==
  ASSUME NEW n \in Nat
  PROVE  /\ n \div PerCluster \in Nat /\ n % PerCluster \in Nat /\ n % PerCluster < PerCluster
         /\ n = PerCluster * (n \div PerCluster) + (n % PerCluster)
<1>1. PICK p \in Nat \ {0} : p = PerCluster
  BY Constants
<1>2. n % p \in 0..(p - 1) /\ n = p * (n \div p) + (n % p)
  BY SMTT(30)
<1>3. n \div p \in Nat
  BY SMTT(30)
<1> QED BY <1>1, <1>2, <1>3

\* Unit i lies in this cluster of the run list, and there at this place.
Index(i) == ((i - 1) \div PerCluster) + 1
Offset(i) == ((i - 1) % PerCluster) + 1

\* The place of a unit is in one of the file's clusters.
LEMMA PlaceIs ==
  ASSUME NEW r, r.map \in Seq(Cluster), NEW i \in 1..Allocated(r)
  PROVE  /\ Index(i) \in 1..Len(r.map) /\ Offset(i) \in 1..PerCluster
         /\ i = (Index(i) - 1) * PerCluster + Offset(i)
         /\ r.map[Index(i)] \in ClustersOf(r) /\ r.map[Index(i)] \in Cluster
         /\ Place(r, i)[1] = r.map[Index(i)] /\ Place(r, i)[2] = Offset(i)
         /\ Place(r, i) = <<r.map[Index(i)], Offset(i)>>
<1> DEFINE n == i - 1
           q == n \div PerCluster
           m == n % PerCluster
<1>1. Len(r.map) \in Nat /\ DOMAIN r.map = 1..Len(r.map)
  OBVIOUS
<1>2. Allocated(r) \in Nat /\ Allocated(r) = Len(r.map) * PerCluster
  BY <1>1, MoreClusters DEF Allocated
<1>3. n \in Nat /\ n < Len(r.map) * PerCluster /\ i = n + 1
  BY <1>2
<1> HIDE DEF n
<1>4. q \in Nat /\ m \in Nat /\ m < PerCluster /\ n = PerCluster * q + m
  BY <1>3, DivMod
<1>5. Index(i) = q + 1 /\ Offset(i) = m + 1
  BY DEF Index, Offset, n
<1> HIDE DEF q, m
<1>6. PICK p \in Nat \ {0} : p = PerCluster
  BY Constants
<1>7. q * p = p * q /\ p * q \in Nat /\ q + 1 - 1 = q
  BY <1>4
<1>8. q < Len(r.map)
  <2>1. SUFFICES ASSUME Len(r.map) <= q PROVE FALSE
    BY <1>1, <1>4
  <2>2. Len(r.map) * PerCluster <= q * PerCluster
    BY <2>1, <1>1, <1>4, MoreClusters
  <2> QED BY <2>2, <1>7, <1>3, <1>4, <1>6, <1>2
<1>9. Index(i) \in 1..Len(r.map) /\ Offset(i) \in 1..PerCluster
  BY <1>1, <1>4, <1>5, <1>6, <1>8
<1>10. r.map[Index(i)] \in Cluster /\ r.map[Index(i)] \in ClustersOf(r)
  BY <1>1, <1>9 DEF ClustersOf
<1>11. Place(r, i) = <<r.map[Index(i)], Offset(i)>>
  BY DEF Place, Index, Offset
<1>12. i = (Index(i) - 1) * PerCluster + Offset(i)
  BY <1>3, <1>4, <1>5, <1>6, <1>7
<1> QED BY <1>9, <1>10, <1>11, <1>12

\* Two units never lie in the same place.
LEMMA PlaceOnce ==
  ASSUME NEW r, r.map \in Seq(Cluster), OneToOne(r.map),
         NEW i \in 1..Allocated(r), NEW j \in 1..Allocated(r), Place(r, i) = Place(r, j)
  PROVE  i = j
<1>1. r.map[Index(i)] = r.map[Index(j)] /\ Offset(i) = Offset(j)
  BY PlaceIs
<1>2. Index(i) \in DOMAIN r.map /\ Index(j) \in DOMAIN r.map
  BY PlaceIs
<1>3. Index(i) = Index(j)
  BY <1>1, <1>2 DEF OneToOne
<1>4. /\ i = (Index(i) - 1) * PerCluster + Offset(i)
      /\ j = (Index(j) - 1) * PerCluster + Offset(j)
  BY PlaceIs
<1> QED BY <1>1, <1>3, <1>4

\* Run lists that begin alike put units in the same places.
LEMMA PlaceAlike ==
  ASSUME NEW r, NEW q, r.map \in Seq(Cluster), q.map \in Seq(Cluster), Begins(r.map, q.map),
         NEW i \in 1..Allocated(r)
  PROVE  Place(q, i) = Place(r, i) /\ i \in 1..Allocated(q)
<1>1. Index(i) \in DOMAIN r.map
  BY PlaceIs
<1>2. q.map[Index(i)] = r.map[Index(i)]
  BY <1>1 DEF Begins
<1>3. Place(q, i) = Place(r, i)
  BY <1>2 DEF Place, Index
<1>4. Len(r.map) \in Nat /\ Len(q.map) \in Nat /\ Len(r.map) <= Len(q.map)
  BY DEF Begins
<1>5. Allocated(r) \in Nat /\ Allocated(q) \in Nat /\ Allocated(r) <= Allocated(q)
  BY <1>4, MoreClusters DEF Allocated
<1> QED BY <1>3, <1>5

\* What the units of a file are.
LEMMA StoredIs ==
  ASSUME NEW r, Sound(r), NEW d \in [Cluster -> [1..PerCluster -> Units]]
  PROVE  /\ StoredIn(d, r) \in Seq(Units) /\ Len(StoredIn(d, r)) = r.size
         /\ \A i \in 1..r.size :
              StoredIn(d, r)[i] = IF i <= r.init THEN AtIn(d, r, i) ELSE Zero
<1>1. /\ r.size \in Nat /\ r.init \in Nat /\ r.map \in Seq(Cluster) /\ r.value \in Seq(Units)
      /\ r.resident \in BOOLEAN /\ (r.resident => r.size = Len(r.value))
      /\ (~r.resident => r.size <= Allocated(r)) /\ Allocated(r) \in Nat
  BY RecordIs
<1>2. ASSUME NEW i \in 1..r.size PROVE AtIn(d, r, i) \in Units
  <2>1. CASE r.resident
    BY <1>1, <2>1 DEF AtIn
  <2>2. CASE ~r.resident
    <3>1. i \in 1..Allocated(r)
      BY <1>1, <2>2
    <3>2. Place(r, i)[1] \in Cluster /\ Place(r, i)[2] \in 1..PerCluster
      BY <1>1, <3>1, PlaceIs
    <3>3. d[Place(r, i)[1]][Place(r, i)[2]] \in Units
      BY <3>2
    <3> QED BY <2>2, <3>3 DEF AtIn
  <2> QED BY <2>1, <2>2
<1> DEFINE f == StoredIn(d, r)
<1>3. f \in [1..r.size -> Units] /\ \A i \in 1..r.size : f[i] = IF i <= r.init THEN AtIn(d, r, i) ELSE Zero
  BY <1>2, Constants DEF StoredIn, Value
<1> HIDE DEF f
<1>4. f \in Seq(Units) /\ Len(f) = r.size
  BY <1>1, <1>3
<1> QED BY <1>3, <1>4 DEF f

\* The content does not depend on clusters that the file does not map.
LEMMA AtSame ==
  ASSUME NEW r, Sound(r), NEW d, NEW e, NEW i \in 1..Allocated(r),
         \A c \in ClustersOf(r) : d[c] = e[c]
  PROVE  d[Place(r, i)[1]][Place(r, i)[2]] = e[Place(r, i)[1]][Place(r, i)[2]]
<1>1. r.map \in Seq(Cluster)
  BY RecordIs
<1>2. Place(r, i)[1] \in ClustersOf(r)
  BY <1>1, PlaceIs
<1> QED BY <1>2

\* The same of all of it.
LEMMA StoredSame ==
  ASSUME NEW r, Sound(r), NEW d, NEW e, r.resident \/ \A c \in ClustersOf(r) : d[c] = e[c]
  PROVE  StoredIn(d, r) = StoredIn(e, r)
<1>1. /\ r.size \in Nat /\ r.resident \in BOOLEAN
      /\ (~r.resident => r.size <= Allocated(r)) /\ Allocated(r) \in Nat
  BY RecordIs
<1>2. ASSUME NEW i \in 1..r.size PROVE AtIn(d, r, i) = AtIn(e, r, i)
  <2>1. CASE r.resident
    BY <2>1 DEF AtIn
  <2>2. CASE ~r.resident
    <3>1. i \in 1..Allocated(r)
      BY <1>1, <2>2
    <3> QED BY <2>2, <3>1, AtSame DEF AtIn
  <2> QED BY <2>1, <2>2
<1> QED BY <1>2 DEF StoredIn

\* What a write leaves where.
LEMMA WrittenIs ==
  ASSUME NEW r, r.map \in Seq(Cluster), OneToOne(r.map),
         NEW p \in Nat, NEW k \in Nat, p + k <= Allocated(r), NEW v, NEW i \in 1..Allocated(r)
  PROVE  LET d == Written(r, p, k, v)
         IN  d[Place(r, i)[1]][Place(r, i)[2]] =
               IF i \in (p + 1)..(p + k) THEN v ELSE data[Place(r, i)[1]][Place(r, i)[2]]
<1>1. PICK c \in Cluster, j \in 1..PerCluster :
        Place(r, i) = <<c, j>> /\ Place(r, i)[1] = c /\ Place(r, i)[2] = j
  BY PlaceIs
<1>2. Written(r, p, k, v)[c][j] =
        IF \E n \in (p + 1)..(p + k) : Place(r, n) = <<c, j>> THEN v ELSE data[c][j]
  BY DEF Written
<1>3. Len(r.map) \in Nat
  OBVIOUS
<1>4. Allocated(r) \in Nat
  BY <1>3, MoreClusters DEF Allocated
<1>5. (p + 1)..(p + k) \subseteq 1..Allocated(r)
  BY <1>4
<1>6. (\E n \in (p + 1)..(p + k) : Place(r, n) = <<c, j>>) <=> i \in (p + 1)..(p + k)
  <2>1. ASSUME NEW n \in (p + 1)..(p + k), Place(r, n) = <<c, j>> PROVE i = n
    <3>1. n \in 1..Allocated(r) /\ Place(r, i) = Place(r, n)
      BY <2>1, <1>1, <1>5, Zenon
    <3> QED BY <3>1, PlaceOnce
  <2> QED BY <2>1, <1>1
<1> QED BY <1>1, <1>2, <1>6

\* Clusters that have been free hold anything; the others what they held.
LEMMA SpoiltIs ==
  ASSUME NEW S, NEW c \in Cluster, c \notin S
  PROVE  Spoilt(S)[c] = data[c]
BY DEF Spoilt

(***************************************************************************)
(* Steps of the content                                                    *)
(***************************************************************************)

\* The content, before and after a step.
LEMMA ContentIs ==
  /\ ~rec.inUse => Content = None
  /\ rec.inUse /\ ~(pc = "shrink" /\ Dangling) => Content = StoredIn(data, rec)
  /\ rec.inUse /\ pc = "shrink" /\ Dangling => Content = StoredIn(data, img)
BY DEF Content, Stored, At, StoredIn, AtIn

LEMMA ContentNext ==
  /\ ~rec'.inUse => Content' = None
  /\ rec'.inUse /\ ~(pc' = "shrink" /\ Dangling') => Content' = StoredIn(data', rec')
  /\ rec'.inUse /\ pc' = "shrink" /\ Dangling' => Content' = StoredIn(data', img')
BY DEF Content, Stored, At, StoredIn, AtIn

\* The units of a file are its content, when all of it has been written.
LEMMA WholeIs ==
  ASSUME NEW r, Sound(r), r.init = r.size, NEW d \in [Cluster -> [1..PerCluster -> Units]]
  PROVE  /\ StoredIn(d, r) \in Seq(Units) /\ Len(StoredIn(d, r)) = r.size
         /\ \A i \in 1..r.size : StoredIn(d, r)[i] = AtIn(d, r, i)
<1>1. r.size \in Nat
  BY RecordIs
<1> QED BY <1>1, StoredIs

\* Data at a place inside the file or at its end is a put.
LEMMA PutIs ==
  ASSUME NEW s \in Seq(Units), NEW t \in Seq(Units), Content = s, Content' = t,
         NEW p \in 0..Len(s), NEW n \in 0..MaxUnits, NEW v \in Value,
         Len(t) = Larger(Len(s), p + n),
         \A i \in 1..Len(t) : t[i] = IF i \in (p + 1)..(p + n) THEN v ELSE s[i]
  PROVE  Refines
<1>1. Len(s) \in Nat /\ Len(t) \in Nat /\ MaxUnits \in Nat /\ p \in Nat /\ n \in Nat
  BY Constants
<1>2. s = [i \in 1..Len(s) |-> s[i]] /\ t = [i \in 1..Len(t) |-> t[i]]
  OBVIOUS
<1>3. CASE n = 0
  <2>1. Len(t) = Len(s)
    BY <1>1, <1>3 DEF Larger
  <2>2. \A i \in 1..Len(s) : t[i] = s[i]
    BY <1>1, <1>3, <2>1
  <2>3. t = s
    BY <1>2, <2>1, <2>2
  <2> QED BY <2>3 DEF Refines
<1>4. CASE n > 0
  <2>1. Len(t) = IF p + n > Len(s) THEN p + n ELSE Len(s)
    BY <1>1 DEF Larger
  <2>2. t = File!Splice(s, p, n, v)
    BY <1>2, <2>1 DEF File!Splice
  <2>3. Content # None
    BY NoneAssumption
  <2>4. n \in 1..MaxUnits
    BY <1>1, <1>4
  <2>5. File!Put
    BY <2>2, <2>3, <2>4 DEF File!Put
  <2> QED BY <2>5 DEF Refines, File!Next
<1> QED BY <1>1, <1>3, <1>4

\* The beginning of the file is a cut.
LEMMA CutIs ==
  ASSUME NEW s \in Seq(Units), NEW t \in Seq(Units), Content = s, Content' = t,
         Len(t) <= Len(s), \A i \in 1..Len(t) : t[i] = s[i]
  PROVE  Refines
<1>1. Len(s) \in Nat /\ Len(t) \in Nat /\ Len(t) \in 0..Len(s)
  OBVIOUS
<1>2. t = SubSeq(s, 1, Len(t))
  <2>1. t = [i \in 1..Len(t) |-> t[i]]
    OBVIOUS
  <2>2. /\ SubSeq(s, 1, Len(t)) \in Seq(Units) /\ Len(SubSeq(s, 1, Len(t))) = Len(t)
        /\ \A i \in 1..Len(t) : SubSeq(s, 1, Len(t))[i] = s[i]
    BY <1>1
  <2> DEFINE u == SubSeq(s, 1, Len(t))
  <2> HIDE DEF u
  <2>3. u \in Seq(Units) /\ Len(u) = Len(t) /\ \A i \in 1..Len(t) : u[i] = t[i]
    BY <2>2 DEF u
  <2>4. u = [i \in 1..Len(t) |-> u[i]]
    BY <2>3
  <2>5. t = u
    BY <2>1, <2>3, <2>4
  <2> QED BY <2>5 DEF u
<1>3. Content # None
  BY NoneAssumption
<1>4. File!Cut
  BY <1>1, <1>2, <1>3 DEF File!Cut
<1> QED BY <1>4 DEF Refines, File!Next

\* A step that leaves the record and its clusters leaves the content.
LEMMA SameContent ==
  ASSUME Sound(rec), rec' = rec, pc' # "shrink", rec.inUse => pc # "shrink" \/ ~Dangling,
         rec.resident \/ ~rec.inUse \/ \A c \in ClustersOf(rec) : data'[c] = data[c]
  PROVE  Refines
<1>1. rec.inUse \in BOOLEAN
  BY RecordIs
<1>2. CASE rec.inUse
  <2>1. Content = StoredIn(data, rec) /\ Content' = StoredIn(data', rec)
    BY <1>2, ContentIs, ContentNext
  <2>2. StoredIn(data, rec) = StoredIn(data', rec)
    BY <1>2, StoredSame
  <2> QED BY <2>1, <2>2 DEF Refines
<1>3. CASE ~rec.inUse
  BY <1>3, ContentIs, ContentNext DEF Refines
<1> QED BY <1>1, <1>2, <1>3

(***************************************************************************)
(* What a step leaves for the next one                                     *)
(***************************************************************************)

\* The handle of the running call is one that knows of the file.
LEMMA BecomeKnows ==
  ASSUME LocalInv, Writing \/ Cutting, InUseInv,
         NEW new \in HandleRec \cup {None}, NEW resized, Become(new, resized),
         new # None => new.knows = H.knows, rec'.inUse = rec.inUse
  PROVE  InUseInv'
<1>1. call.h \in Handle /\ H \in HandleRec /\ H = handles[call.h] /\ H # None
  BY CallerIs, NoneAssumption
<1>2. SUFFICES ASSUME NEW h \in Handle, handles'[h] # None, handles'[h].knows # "nothing"
               PROVE  rec.inUse
  BY DEF InUseInv, IsOpen
<1>3. CASE h = call.h
  <2>1. handles'[h] = new
    BY <1>1, <1>3 DEF Become
  <2> QED BY <2>1, <1>1, <1>2, <1>3 DEF InUseInv, IsOpen
<1>4. CASE h # call.h
  <2>1. handles'[h] = IF resized /\ IsOpen(h) /\ handles[h].knows = "size"
                      THEN [handles[h] EXCEPT !.knows = "file"] ELSE handles[h]
    BY <1>4 DEF Become
  <2>2. CASE resized /\ IsOpen(h) /\ handles[h].knows = "size"
    BY <2>2 DEF InUseInv
  <2>3. CASE ~(resized /\ IsOpen(h) /\ handles[h].knows = "size")
    BY <2>1, <2>3, <1>2 DEF InUseInv, IsOpen
  <2> QED BY <2>2, <2>3
<1> QED BY <1>3, <1>4

\* A call that is over has nothing left to say.
LEMMA RestBody ==
  ASSUME InUseInv', pc' \in {"ok", "failed", "idle"}, OneToOne(rec'.map),
         rec'.inUse /\ ~rec'.resident => ClustersOf(rec') \subseteq bits'
  PROVE  Body'
<1>1. ~Writing' /\ ~Cutting'
  BY DEF Writing, Cutting
<1>2. MapInv'
  BY DEF MapInv, OneToOne, ClustersOf
<1>3. PlaceInv'
  BY <1>1 DEF PlaceInv
<1>4. ImageInv'
  BY DEF ImageInv
<1> QED BY <1>2, <1>3, <1>4 DEF Body

\* A write that is about to begin, or to go on.
LEMMA EnterBody ==
  ASSUME InUseInv', pc' \in {"put", "enter"}, OneToOne(rec'.map),
         rec'.inUse, rec'.init = rec'.size, H'.size <= rec'.size,
         pc' = "put" => H'.pos <= rec'.size,
         ~rec'.resident => ClustersOf(rec') \subseteq bits'
  PROVE  Body'
<1>1. ~Cutting'
  BY DEF Cutting
<1>2. MapInv'
  BY DEF MapInv, OneToOne, ClustersOf
<1>3. PlaceInv'
  BY <1>1 DEF PlaceInv
<1>4. ImageInv'
  BY DEF ImageInv
<1> QED BY <1>2, <1>3, <1>4 DEF Body

\* A refused write or cut.
LEMMA FailBody ==
  ASSUME LocalInv, Writing \/ Cutting, Body, NEW new \in HandleRec, NEW resized, Fail(new, resized),
         new.knows = H.knows, rec'.inUse = rec.inUse, OneToOne(rec'.map),
         rec'.inUse /\ ~rec'.resident => ClustersOf(rec') \subseteq bits'
  PROVE  Body' /\ pc' = "failed"
<1>1. PICK left \in HandleRec :
        Become(left, resized) /\ Return("failed") /\ left.knows = new.knows
  BY FailIs
<1>2. InUseInv'
  BY <1>1, BecomeKnows DEF Body
<1>3. pc' = "failed"
  BY <1>1 DEF Return
<1> QED BY <1>2, <1>3, RestBody

\* A call that returns with the handle new.
LEMMA ReturnBody ==
  ASSUME LocalInv, Writing \/ Cutting, Body, NEW new \in HandleRec \cup {None}, NEW resized,
         Become(new, resized), NEW how \in {"ok", "failed"}, Return(how),
         new # None => new.knows = H.knows, rec'.inUse = rec.inUse, OneToOne(rec'.map),
         rec'.inUse /\ ~rec'.resident => ClustersOf(rec') \subseteq bits'
  PROVE  Body' /\ pc' = how
<1>2. InUseInv'
  BY BecomeKnows DEF Body
<1>3. pc' = how
  BY DEF Return
<1> QED BY <1>2, <1>3, RestBody

\* A write that has done its work: the next one begins where this one ends.
LEMMA FinishIs ==
  ASSUME LocalInv, Writing, NEW new \in HandleRec, NEW resized, Finish(new, resized),
         new.pos = H.pos + Top.len
  PROVE  /\ pc' \in {"ok", "put", "enter"}
         /\ \E end \in HandleRec : Become(end, resized) /\ end.knows = new.knows
         /\ pc' # "ok" => H'.size = new.size /\ (pc' = "put" => H'.pos = new.pos)
<1>1. PICK n \in Nat : n = Len(stack) /\ n >= 1
  BY TopIs
<1>2. stack \in Seq(FrameRec) /\ Top \in FrameRec /\ Top.len \in Nat /\ H.pos \in Nat
  BY TopIs
<1>3. CASE n = 1
  <2> DEFINE end == IF call.kind = "resize" THEN Resized(new) ELSE new
  <2>1. Become(end, resized) /\ Return("ok")
    BY <1>1, <1>3 DEF Finish
  <2>2. end \in HandleRec /\ end.knows = new.knows
    <3>1. call.len \in Nat /\ call.at \in 0..MaxUnits
      BY CallerIs
    <3>2. Smaller(call.at, call.len) \in 0..MaxUnits
      BY <3>1, Constants DEF Smaller
    <3> QED BY <3>1, <3>2 DEF Resized, HandleRec
  <2> HIDE DEF end
  <2>3. pc' = "ok"
    BY <2>1 DEF Return
  <2> QED BY <2>1, <2>2, <2>3
<1>4. CASE n > 1
  <2> DEFINE up   == stack[n - 1]
             left == up.gap - Top.len
             end  == IF left = 0 THEN [new EXCEPT !.pos = up.goal] ELSE new
  <2>1. Become(end, resized) /\ pc' = IF left = 0 THEN "put" ELSE "enter"
    BY <1>1, <1>4 DEF Finish
  <2>c. call' = call
    BY <1>1, <1>4 DEF Finish
  <2>2. n - 1 \in 1..(n - 1) /\ n - 1 \in 1..n /\ (n - 1) + 1 = n /\ up \in FrameRec
    BY <1>1, <1>2, <1>4
  <2>3. up.gap \in Nat /\ up.goal \in Nat /\ up.len \in Nat
    BY <2>2 DEF FrameRec
  <2>4. H.pos + up.gap = up.goal /\ up.goal + up.len <= MaxUnits
    <3>1. /\ \A i \in 1..n : Base(i) + stack[i].len <= MaxUnits
          /\ \A i \in 1..(n - 1) : Base(i + 1) + stack[i].gap = stack[i].goal
      BY <1>1 DEF LocalInv, StackInv
    <3>2. Base(n) = H.pos /\ Base(n - 1) = up.goal
      BY <1>1, <1>4 DEF Base
    <3> QED BY <3>1, <3>2, <2>2
  <2>5. left = 0 => up.goal = new.pos
    BY <2>3, <2>4, <1>2
  <2>6. end \in HandleRec /\ end.knows = new.knows /\ end.size = new.size /\ (left = 0 => end.pos = new.pos)
    BY <2>5 DEF HandleRec
  <2>7. H' = end
    <3>1. call.h \in Handle
      BY CallerIs
    <3> QED BY <2>1, <2>c, <3>1 DEF Become, H
  <2> HIDE DEF end
  <2> QED BY <2>1, <2>6, <2>7
<1> QED BY <1>1, <1>3, <1>4

LEMMA FinishBody ==
  ASSUME LocalInv, Writing, Body, NEW new \in HandleRec, NEW resized, Finish(new, resized),
         new.pos = H.pos + Top.len, new.knows = H.knows, new.size <= rec'.size, new.pos <= rec'.size,
         rec.inUse, rec'.inUse = rec.inUse, OneToOne(rec'.map), rec'.init = rec'.size,
         ~rec'.resident => ClustersOf(rec') \subseteq bits'
  PROVE  Body' /\ pc' # "shrink"
<1>1. /\ pc' \in {"ok", "put", "enter"}
      /\ pc' # "ok" => H'.size = new.size /\ (pc' = "put" => H'.pos = new.pos)
  BY FinishIs
<1>2. PICK end \in HandleRec : Become(end, resized) /\ end.knows = new.knows
  BY FinishIs
<1>3. InUseInv'
  BY <1>2, BecomeKnows DEF Body
<1>4. CASE pc' = "ok"
  BY <1>3, <1>4, RestBody
<1>5. CASE pc' # "ok"
  <2>1. pc' \in {"put", "enter"} /\ H'.size <= rec'.size /\ (pc' = "put" => H'.pos <= rec'.size)
    BY <1>1, <1>5
  <2> QED BY <1>3, <2>1, EnterBody
<1> QED BY <1>4, <1>5

(***************************************************************************)
(* The steps of a write                                                    *)
(***************************************************************************)

\* Where a write is that is about to put its data.
LEMMA ReadyPlace ==
  ASSUME IInv, Body, Ready
  PROVE  /\ Writing /\ LocalInv /\ DiskInv /\ Sound(rec) /\ pc # "shrink"
         /\ rec.inUse /\ rec.init = rec.size /\ H.size <= rec.size /\ H.pos <= rec.size
         /\ OneToOne(rec.map) /\ (~rec.resident => ClustersOf(rec) \subseteq bits)
         /\ H \in HandleRec /\ H.pos \in Nat /\ H.size \in Nat /\ rec.size \in Nat
<1>1. Writing /\ pc # "shrink" /\ LocalInv /\ DiskInv /\ Sound(rec)
  BY DEF IInv, DiskInv, Ready, Writing
<1>2. rec.inUse /\ rec.init = rec.size /\ H.size <= rec.size
  BY <1>1 DEF Body, PlaceInv
<1>3. OneToOne(rec.map) /\ (~rec.resident => ClustersOf(rec) \subseteq bits)
  BY <1>1, <1>2 DEF Body, MapInv
<1>4. H \in HandleRec /\ H.pos \in Nat /\ H.size \in Nat /\ rec.size \in Nat
  BY <1>1, CallerIs, TopIs, RecordIs
<1>5. H.pos <= rec.size
  <2>1. CASE pc = "put"
    BY <2>1 DEF Body, PlaceInv
  <2>2. CASE H.pos <= H.size
    BY <2>2, <1>2, <1>4
  <2> QED BY <2>1, <2>2 DEF Ready
<1> QED BY <1>1, <1>2, <1>3, <1>4, <1>5

LEMMA FillGapBody == ASSUME IInv, Body, FillGap PROVE Body' /\ Refines
<1> DEFINE new == [H EXCEPT !.pos = H.size]
<1>1. /\ pc = "enter" /\ H.pos > H.size /\ Become(new, FALSE)
      /\ UNCHANGED <<bits, data, rec, pc, call>>
  BY DEF FillGap, disk
<1>2. Writing /\ LocalInv /\ DiskInv /\ Sound(rec)
  BY <1>1 DEF IInv, DiskInv, Writing
<1>3. /\ H \in HandleRec /\ H.pos \in 0..MaxUnits /\ H.size \in Nat /\ call.h \in Handle
  BY <1>2, CallerIs
<1>4. H.size \in 0..MaxUnits
  BY <1>1, <1>3, Constants
<1>5. new \in HandleRec /\ new.knows = H.knows /\ new.size = H.size
  BY <1>3, <1>4 DEF HandleRec
<1>6. H' = new
  BY <1>1, <1>3 DEF Become, H
<1> HIDE DEF new
<1>7. InUseInv'
  BY <1>1, <1>2, <1>5, BecomeKnows DEF Body
<1>8. rec.inUse /\ rec.init = rec.size /\ H.size <= rec.size
  BY <1>2 DEF Body, PlaceInv
<1>9. OneToOne(rec.map) /\ (~rec.resident => ClustersOf(rec) \subseteq bits)
  BY <1>1, <1>8 DEF Body, MapInv
<1>10. Body'
  BY <1>1, <1>5, <1>6, <1>7, <1>8, <1>9, EnterBody
<1>11. Refines
  BY <1>1, <1>2, SameContent
<1> QED BY <1>10, <1>11

LEMMA WriteNothingBody == ASSUME IInv, Body, WriteNothing PROVE Body' /\ Refines
<1>1. Ready /\ Top.len = 0 /\ Finish(H, FALSE) /\ UNCHANGED <<bits, data, rec>>
  BY DEF WriteNothing, disk
<1>2. /\ Writing /\ LocalInv /\ Sound(rec) /\ pc # "shrink"
      /\ rec.inUse /\ rec.init = rec.size /\ H.size <= rec.size /\ H.pos <= rec.size
      /\ OneToOne(rec.map) /\ (~rec.resident => ClustersOf(rec) \subseteq bits)
      /\ H \in HandleRec /\ H.pos \in Nat
  BY <1>1, ReadyPlace
<1>3. H.pos = H.pos + Top.len
  BY <1>1, <1>2
<1>4. Body' /\ pc' # "shrink"
  BY <1>1, <1>2, <1>3, FinishBody
<1>5. Refines
  BY <1>1, <1>2, <1>4, SameContent
<1> QED BY <1>4, <1>5

\* A refusal that leaves record and clusters as they are.
LEMMA RefusedBody ==
  ASSUME IInv, Body, ConvertRefused \/ GrowRefused \/ CutRefused
  PROVE  Body' /\ Refines
<1>1. Fail(H, FALSE) /\ UNCHANGED <<bits, data, rec>> /\ (Ready \/ pc = "cut")
  BY DEF ConvertRefused, GrowRefused, CutRefused, disk
<1>2. (Writing \/ Cutting) /\ pc # "shrink" /\ LocalInv /\ Sound(rec)
  BY <1>1 DEF IInv, DiskInv, Ready, Writing, Cutting
<1>3. H \in HandleRec
  BY <1>2, CallerIs
<1>4. OneToOne(rec.map) /\ (rec.inUse /\ ~rec.resident => ClustersOf(rec) \subseteq bits)
  BY <1>2 DEF Body, MapInv
<1>5. Body' /\ pc' = "failed"
  BY <1>1, <1>2, <1>3, <1>4, FailBody
<1>6. Refines
  BY <1>1, <1>2, <1>5, SameContent
<1> QED BY <1>5, <1>6

\* Data at a place inside the value or at its end.
LEMMA SpliceIn ==
  ASSUME NEW s \in Seq(Units), NEW p \in Nat, NEW n \in Nat, NEW v \in Units, p <= Len(s)
  PROVE  \A i \in 1..Len(Splice(s, p, n, v)) :
           Splice(s, p, n, v)[i] = IF i \in (p + 1)..(p + n) THEN v ELSE s[i]
<1>a. Len(Splice(s, p, n, v)) = Larger(Len(s), p + n)
  BY SpliceType
<1>1. Len(s) \in Nat
  OBVIOUS
<1>2. SUFFICES ASSUME NEW i \in 1..Larger(Len(s), p + n)
               PROVE  Splice(s, p, n, v)[i] = IF i \in (p + 1)..(p + n) THEN v ELSE s[i]
  BY <1>a
<1>3. Splice(s, p, n, v)[i] = IF i \in (p + 1)..(p + n) THEN v
                              ELSE IF i <= Len(s) THEN s[i] ELSE Zero
  BY DEF Splice
<1>4. i <= Len(s) \/ i \in (p + 1)..(p + n)
  BY <1>1, <1>2 DEF Larger
<1> QED BY <1>3, <1>4

LEMMA WriteResidentBody == ASSUME IInv, Body, WriteResident PROVE Body' /\ Refines
<1> DEFINE value == Splice(rec.value, H.pos, Top.len, Top.val)
           grows == Len(value) > Len(rec.value)
           to    == IF grows THEN GrownTo(Moved(Top.len)) ELSE Moved(Top.len)
<1>1. /\ Ready /\ Top.len > 0 /\ rec.resident /\ UNCHANGED <<bits, data>>
      /\ \/ /\ rec' = [rec EXCEPT !.value = value, !.size = Len(value), !.init = Len(value)]
            /\ Finish(to, grows)
         \/ Fail(H, FALSE) /\ rec' = rec
  BY DEF WriteResident
<1>2. /\ Writing /\ LocalInv /\ DiskInv /\ Sound(rec) /\ pc # "shrink"
      /\ rec.inUse /\ rec.init = rec.size /\ H.size <= rec.size /\ H.pos <= rec.size
      /\ OneToOne(rec.map)
      /\ H \in HandleRec /\ H.pos \in Nat /\ H.size \in Nat
  BY <1>1, ReadyPlace
<1>3. /\ Top.len \in Nat /\ Top.val \in Units /\ Top.val \in Value
      /\ Target = H.pos + Top.len /\ Target \in Nat /\ Target <= MaxUnits
  BY <1>2, TopIs DEF FrameRec
<1>4. /\ rec.value \in Seq(Units) /\ Len(rec.value) \in Nat /\ rec.size = Len(rec.value)
  BY <1>1, <1>2, RecordIs
<1>5. /\ value \in Seq(Units) /\ Len(value) = Larger(Len(rec.value), Target)
  BY <1>2, <1>3, <1>4, SpliceType
<1>6. \A i \in 1..Len(value) :
        value[i] = IF i \in (H.pos + 1)..(H.pos + Top.len) THEN Top.val ELSE rec.value[i]
  <2>1. /\ rec.value \in Seq(Units) /\ H.pos \in Nat /\ Top.len \in Nat /\ Top.val \in Units
        /\ H.pos <= Len(rec.value)
    BY <1>2, <1>3, <1>4
  <2> QED BY <2>1, SpliceIn
<1> HIDE DEF value
<1>7. CASE /\ rec' = [rec EXCEPT !.value = value, !.size = Len(value), !.init = Len(value)]
           /\ Finish(to, grows)
  <2>1. Sound(rec') /\ rec'.inUse = rec.inUse /\ rec'.size = Len(value)
    BY <1>1, <1>2, <1>5, <1>7, ResidentSound
  <2>2. rec'.map = rec.map /\ rec'.init = rec'.size /\ rec'.resident /\ rec'.value = value
    <3>1. rec \in FileRec
      BY <1>2, RecordIs
    <3> QED BY <3>1, <1>1, <1>7 DEF FileRec
  <2>3. /\ to \in HandleRec /\ to.knows = H.knows /\ to.pos = H.pos + Top.len
        /\ to.size = IF grows THEN Larger(H.size, Target) ELSE H.size
    BY <1>2, <1>3, MovedIs
  <2>4. to.size <= rec'.size /\ to.pos <= rec'.size
    BY <2>1, <2>3, <1>2, <1>3, <1>4, <1>5 DEF Larger
  <2> HIDE DEF to, grows
  <2>5. Body' /\ pc' # "shrink"
    BY <2>1, <2>2, <2>3, <2>4, <1>2, <1>7, FinishBody
  <2>6. /\ Content = StoredIn(data, rec) /\ StoredIn(data, rec) \in Seq(Units)
        /\ Len(StoredIn(data, rec)) = Len(rec.value)
        /\ \A i \in 1..Len(rec.value) : StoredIn(data, rec)[i] = rec.value[i]
    BY <1>1, <1>2, <1>4, ContentIs, WholeIs DEF AtIn, DiskInv
  <2>7. /\ Content' = StoredIn(data', rec') /\ StoredIn(data', rec') \in Seq(Units)
        /\ Len(StoredIn(data', rec')) = Len(value)
        /\ \A i \in 1..Len(value) : StoredIn(data', rec')[i] = value[i]
    <3>1. data' \in [Cluster -> [1..PerCluster -> Units]]
      BY <1>1, <1>2 DEF DiskInv
    <3>2. Content' = StoredIn(data', rec')
      BY <2>1, <2>5, <1>2, ContentNext
    <3> QED BY <3>1, <3>2, <2>1, <2>2, WholeIs DEF AtIn
  <2>8. PICK s \in Seq(Units) : s = StoredIn(data, rec) /\ Content = s
    BY <2>6
  <2>9. PICK t \in Seq(Units) : t = StoredIn(data', rec') /\ Content' = t
    BY <2>7
  <2>10. Len(s) = Len(rec.value) /\ Len(t) = Len(value) /\ H.pos \in 0..Len(s) /\ Top.len \in 0..MaxUnits
    BY <2>6, <2>7, <2>8, <2>9, <1>2, <1>3, <1>4, Constants
  <2>11. \A i \in 1..Len(t) : t[i] = IF i \in (H.pos + 1)..(H.pos + Top.len) THEN Top.val ELSE s[i]
    <3>1. SUFFICES ASSUME NEW i \in 1..Len(t)
                   PROVE  t[i] = IF i \in (H.pos + 1)..(H.pos + Top.len) THEN Top.val ELSE s[i]
      OBVIOUS
    <3>2. t[i] = IF i \in (H.pos + 1)..(H.pos + Top.len) THEN Top.val ELSE rec.value[i]
      BY <2>7, <2>9, <2>10, <1>6
    <3>3. i \in 1..Len(rec.value) \/ i \in (H.pos + 1)..(H.pos + Top.len)
      BY <2>10, <1>2, <1>3, <1>4, <1>5 DEF Larger
    <3>4. i \in 1..Len(rec.value) => s[i] = rec.value[i]
      BY <2>6, <2>8
    <3> QED BY <3>2, <3>3, <3>4
  <2>12. Len(t) = Larger(Len(s), H.pos + Top.len)
    BY <2>10, <1>3, <1>5
  <2>13. Refines
    <3>1. PICK p, n, v : p = H.pos /\ n = Top.len /\ v = Top.val
      OBVIOUS
    <3>2. /\ p \in 0..Len(s) /\ n \in 0..MaxUnits /\ v \in Value
          /\ Len(t) = Larger(Len(s), p + n)
          /\ \A i \in 1..Len(t) : t[i] = IF i \in (p + 1)..(p + n) THEN v ELSE s[i]
      BY <3>1, <2>10, <2>11, <2>12, <1>3
    <3> QED BY <3>2, <2>8, <2>9, PutIs
  <2> QED BY <2>5, <2>13
<1>8. CASE Fail(H, FALSE) /\ rec' = rec
  <2>1. Body' /\ pc' = "failed"
    BY <1>1, <1>2, <1>8, FailBody
  <2>2. Refines
    BY <2>1, <1>1, <1>2, <1>8, SameContent
  <2> QED BY <2>1, <2>2
<1> QED BY <1>1, <1>7, <1>8

\* A new run is one of free clusters, none of them twice.
LEMMA FreeRunOnce ==
  ASSUME NEW k \in Nat, NEW run \in FreeRun(k)
  PROVE  /\ run \in Seq(Cluster) /\ Len(run) = k /\ OneToOne(run)
         /\ \A i \in 1..k : run[i] \notin bits
<1>1. run \in [1..k -> Cluster \ bits] /\ \A i, j \in 1..k : run[i] = run[j] => i = j
  BY DEF FreeRun
<1>2. run \in Seq(Cluster) /\ Len(run) = k /\ DOMAIN run = 1..k
  BY <1>1, FreeRunType
<1> QED BY <1>1, <1>2 DEF OneToOne

LEMMA ConvertAllocateBody == ASSUME IInv, Body, ConvertAllocate PROVE Body' /\ Refines
<1> DEFINE k == Larger(Clusters(Target), Quantum)
<1>1. /\ Ready /\ Top.len > 0 /\ rec.resident
      /\ \E run \in FreeRun(k) :
           /\ bits' = bits \cup {run[i] : i \in 1..k}
           /\ img' = [rec EXCEPT !.resident = FALSE, !.value = << >>, !.size = Target,
                                 !.init = Target, !.map = run]
      /\ pc' = "head"
      /\ UNCHANGED <<data, rec, handles, call, stack>>
  BY DEF ConvertAllocate
<1>2. /\ Writing /\ LocalInv /\ Sound(rec) /\ pc # "shrink" /\ H.pos <= rec.size
      /\ rec.inUse /\ rec.init = rec.size /\ H.size <= rec.size /\ OneToOne(rec.map)
  BY <1>1, ReadyPlace
<1>3. k \in Nat
  <2>1. Clusters(Target) \in Nat /\ Quantum \in Nat
    BY <1>2, TopIs, ClustersHold, Constants
  <2> QED BY <2>1 DEF Larger
<1> HIDE DEF k
<1>4. PICK run \in FreeRun(k) :
           /\ bits' = bits \cup {run[i] : i \in 1..k}
           /\ img' = [rec EXCEPT !.resident = FALSE, !.value = << >>, !.size = Target,
                                 !.init = Target, !.map = run]
  BY <1>1
<1>5. run \in Seq(Cluster) /\ Len(run) = k /\ OneToOne(run)
  BY <1>3, FreeRunOnce
<1>6. img'.map = run /\ img'.init = img'.size
  <2>1. rec \in FileRec
    BY <1>2, RecordIs
  <2> QED BY <2>1, <1>4 DEF FileRec
<1>7. H' = H /\ Writing' /\ ~Cutting'
  BY <1>1 DEF H, Writing, Cutting
<1>8. InUseInv'
  BY <1>1 DEF Body, InUseInv, IsOpen
<1>9. MapInv'
  <2>1. ClustersOf(img)' \subseteq bits'
    BY <1>4, <1>5, <1>6 DEF ClustersOf
  <2>2. OneToOne(img.map)' /\ OneToOne(rec.map)'
    BY <1>1, <1>2, <1>5, <1>6 DEF OneToOne
  <2> QED BY <2>1, <2>2, <1>1 DEF MapInv
<1>10. PlaceInv'
  BY <1>1, <1>2, <1>7 DEF PlaceInv
<1>11. ImageInv'
  BY <1>1, <1>6 DEF ImageInv
<1>12. Refines
  BY <1>1, <1>2, SameContent
<1> QED BY <1>8, <1>9, <1>10, <1>11, <1>12 DEF Body

\* What the write on top is, when some of it is done.
LEMMA TopDone ==
  ASSUME LocalInv, Writing, NEW k \in 0..Top.len, stack' = [stack EXCEPT ![Len(stack)].done = k]
  PROVE  Top'.done = k /\ Top'.len = Top.len /\ Top'.val = Top.val
<1> DEFINE n == Len(stack)
           new == [stack[n] EXCEPT !.done = k]
<1>1. stack \in Seq(FrameRec) /\ n \in Nat /\ n \in 1..n /\ stack[n] \in FrameRec
  BY TopIs
<1>2. new.len = stack[n].len /\ new.val = stack[n].val /\ new.done = k
  BY <1>1 DEF FrameRec
<1>3. stack' = [stack EXCEPT ![n] = new]
  OBVIOUS
<1> HIDE DEF new
<1>4. Len(stack') = n /\ stack'[n] = new
  BY <1>1, <1>3
<1>5. Top' = new
  BY <1>4 DEF Top
<1> QED BY <1>2, <1>5 DEF Top

\* The data is on the disk, the record is next.
LEMMA RecordBody ==
  ASSUME IInv, Body, Writing, pc' = "record", rec.inUse, rec.init = rec.size, H.size <= rec.size,
         H.pos <= rec.size, UNCHANGED <<rec, handles, call>>,
         stack' = [stack EXCEPT ![Len(stack)].done = Top.len],
         OneToOne(rec.map), ~rec.resident => ClustersOf(rec) \subseteq bits',
         OneToOne(img'.map), ClustersOf(img') \subseteq bits',
         img'.init = img'.size, ~img'.resident,
         \A i \in 1..H.pos : AtIn(data', img', i) = AtIn(data', rec, i),
         \A i \in (H.pos + 1)..Target : AtIn(data', img', i) = Top.val
  PROVE  Body'
<1>1. LocalInv /\ Top.len \in 0..Top.len
  <2>1. LocalInv
    BY DEF IInv
  <2>2. Top.len \in Nat
    BY <2>1, TopIs
  <2> QED BY <2>1, <2>2
<1>2. Top'.done = Top.len /\ Top'.len = Top.len /\ Top'.val = Top.val
  BY <1>1, TopDone
<1>3. H' = H /\ ~Cutting'
  BY DEF H, Cutting
<1>4. Target' = Target
  BY <1>2, <1>3 DEF Target
<1>5. InUseInv'
  BY DEF Body, InUseInv, IsOpen
<1>6. MapInv'
  BY DEF MapInv, OneToOne, ClustersOf
<1>7. PlaceInv'
  BY <1>3 DEF PlaceInv
<1>8. ImageInv'
  <2>1. /\ \A i \in 1..H'.pos : AtIn(data', img', i) = AtIn(data', rec', i)
        /\ \A i \in (H'.pos + 1)..Target' : AtIn(data', img', i) = Top'.val
    BY <1>2, <1>3, <1>4
  <2> QED BY <2>1, <1>2 DEF ImageInv, AtIn, Place
<1> QED BY <1>5, <1>6, <1>7, <1>8 DEF Body

\* What the head of the clusters of a converted file is.
LEMMA ComposedIs ==
  ASSUME rec.value \in Seq(Units), H.pos \in Nat, H.pos <= Len(rec.value),
         Top.len \in Nat, Top.val \in Units
  PROVE  /\ Len(Composed) = H.pos + Top.len
         /\ \A i \in 1..H.pos : Composed[i] = rec.value[i]
         /\ \A i \in (H.pos + 1)..(H.pos + Top.len) : Composed[i] = Top.val
<1>1. Len(rec.value) \in Nat /\ Smaller(Len(rec.value), H.pos) = H.pos
  BY DEF Smaller
<1>2. PICK p, n, v : p = H.pos /\ n = Top.len /\ v = Top.val
  OBVIOUS
<1>3. PICK s : s = SubSeq(rec.value, 1, p)
  OBVIOUS
<1>4. s \in Seq(Units) /\ Len(s) = p /\ \A i \in 1..p : s[i] = rec.value[i]
  <2>1. /\ SubSeq(rec.value, 1, p) \in Seq(Units) /\ Len(SubSeq(rec.value, 1, p)) = p
        /\ \A i \in 1..p : SubSeq(rec.value, 1, p)[i] = rec.value[i]
    BY <1>1, <1>2
  <2> QED BY <2>1, <1>3
<1>5. Composed = Splice(s, p, n, v)
  BY <1>1, <1>2, <1>3 DEF Composed
<1>6. Splice(s, p, n, v) \in Seq(Units) /\ Len(Splice(s, p, n, v)) = Larger(Len(s), p + n)
  BY <1>2, <1>4, SpliceType
<1>7. Larger(Len(s), p + n) = p + n
  BY <1>2, <1>4 DEF Larger
<1>8. \A i \in 1..(p + n) : Splice(s, p, n, v)[i] = IF i \in (p + 1)..(p + n) THEN v
                              ELSE IF i <= Len(s) THEN s[i] ELSE Zero
  BY <1>7 DEF Splice
<1>9. \A i \in 1..p : Splice(s, p, n, v)[i] = s[i]
  BY <1>2, <1>4, <1>8
<1>10. \A i \in (p + 1)..(p + n) : Splice(s, p, n, v)[i] = v
  BY <1>2, <1>4, <1>8
<1> QED BY <1>2, <1>4, <1>5, <1>6, <1>7, <1>9, <1>10

LEMMA ConvertFillBody == ASSUME IInv, Body, ConvertFill PROVE Body' /\ Refines
<1> DEFINE unit(i) == IF i <= Len(Composed) THEN Composed[i] ELSE Zero
           new     == ClustersOf(img)
           at(c)   == CHOOSE k \in DOMAIN img.map : img.map[k] = c
           part(q) == [j \in 1..PerCluster |-> unit((q - 1) * PerCluster + j)]
           filled  == [c \in Cluster |-> IF c \notin new THEN data[c] ELSE part(at(c))]
<1>1. /\ pc = "head" /\ rec' = rec
      /\ \/ /\ data' = filled
            /\ stack' = [stack EXCEPT ![Len(stack)].done = Top.len]
            /\ pc' = "record"
            /\ UNCHANGED <<bits, handles, call, img>>
         \/ bits' = bits \ new /\ Fail(H, FALSE) /\ data' = data
  BY DEF ConvertFill
<1>2. /\ Writing /\ LocalInv /\ Sound(rec) /\ Sound(img)
  BY <1>1 DEF IInv, LocalInv, DiskInv, Writing
<1>3. /\ rec.inUse /\ rec.init = rec.size /\ H.size <= rec.size /\ H.pos <= rec.size
      /\ rec.resident /\ img.init = img.size
      /\ OneToOne(rec.map) /\ OneToOne(img.map) /\ ClustersOf(img) \subseteq bits
  BY <1>1, <1>2 DEF Body, PlaceInv, ImageInv, MapInv
<1>4. H \in HandleRec /\ H.pos \in Nat /\ Top.len \in Nat /\ Top.val \in Units /\ Target = H.pos + Top.len
  BY <1>2, CallerIs, TopIs
<1>5. ~img.resident /\ img.size = Target
  BY <1>1, <1>2 DEF LocalInv, ImgInv
<1>6. rec.value \in Seq(Units) /\ rec.size = Len(rec.value) /\ Len(rec.value) \in Nat
  BY <1>2, <1>3, RecordIs
<1>7. Refines
  <2>1. pc' # "shrink"
    BY <1>1, <1>2, <1>4, FailIs DEF Return
  <2> QED BY <2>1, <1>1, <1>2, <1>3, SameContent
<1>8. CASE /\ data' = filled
           /\ stack' = [stack EXCEPT ![Len(stack)].done = Top.len]
           /\ pc' = "record"
           /\ UNCHANGED <<bits, handles, call, img>>
  <2>1. ASSUME NEW i \in 1..Target PROVE AtIn(data', img, i) = Composed[i]
    <3>1. img.map \in Seq(Cluster) /\ i \in 1..Allocated(img)
      BY <1>2, <1>4, <1>5, RecordIs
    <3>2. PICK q, j : q = Index(i) /\ j = Offset(i)
      OBVIOUS
    <3>3. /\ q \in 1..Len(img.map) /\ j \in 1..PerCluster /\ i = (q - 1) * PerCluster + j
          /\ img.map[q] \in new /\ img.map[q] \in Cluster
          /\ Place(img, i)[1] = img.map[q] /\ Place(img, i)[2] = j
      BY <3>1, <3>2, PlaceIs
    <3>4. PICK c : c = img.map[q]
      OBVIOUS
    <3>5. at(c) = q
      <4>1. q \in DOMAIN img.map /\ \A k \in DOMAIN img.map : img.map[k] = c => k = q
        BY <3>1, <3>3, <3>4, <1>3 DEF OneToOne
      <4> QED BY <4>1, <3>4
    <3> HIDE DEF unit, at
    <3>6. filled[c] = part(at(c))
      BY <3>3, <3>4
    <3>7. part(q)[j] = unit(i)
      BY <3>3
    <3> HIDE DEF filled, part
    <3>8. data'[c][j] = unit(i)
      BY <3>5, <3>6, <3>7, <1>8
    <3>9. unit(i) = Composed[i]
      <4>1. Len(Composed) = Target
        BY <1>3, <1>4, <1>6, ComposedIs
      <4> QED BY <4>1, <1>4 DEF unit
    <3> QED BY <3>3, <3>4, <3>8, <3>9, <1>5 DEF AtIn
  <2>2. /\ \A i \in 1..H.pos : Composed[i] = rec.value[i]
        /\ \A i \in (H.pos + 1)..Target : Composed[i] = Top.val
    BY <1>3, <1>4, <1>6, ComposedIs
  <2> HIDE DEF filled
  <2>3. \A i \in 1..H.pos : AtIn(data', img', i) = AtIn(data', rec, i)
    <3>1. \A i \in 1..H.pos : i \in 1..Target
      BY <1>4
    <3> QED BY <3>1, <2>1, <2>2, <1>3, <1>8 DEF AtIn
  <2>4. \A i \in (H.pos + 1)..Target : AtIn(data', img', i) = Top.val
    <3>1. \A i \in (H.pos + 1)..Target : i \in 1..Target
      BY <1>4
    <3>2. \A i \in 1..Target : AtIn(data', img', i) = Composed[i]
      BY <2>1, <1>8
    <3> QED BY <3>1, <3>2, <2>2
  <2>5. Body'
    BY <2>3, <2>4, <1>1, <1>2, <1>3, <1>5, <1>8, RecordBody
  <2> QED BY <2>5, <1>7
<1>9. CASE bits' = bits \ new /\ Fail(H, FALSE) /\ data' = data
  <2>1. Body'
    BY <1>1, <1>2, <1>3, <1>4, <1>9, FailBody
  <2> QED BY <2>1, <1>7
<1> HIDE DEF filled
<1> QED BY <1>1, <1>8, <1>9

LEMMA GrowAllocateBody == ASSUME IInv, Body, GrowAllocate PROVE Body' /\ Refines
<1> DEFINE need == Clusters(Target - Allocated(rec))
           k    == Larger(need, Quantum)
<1>1. /\ Ready /\ Top.len > 0 /\ ~rec.resident /\ ~InClusters
      /\ \E new \in FreeRun(k) :
           /\ bits' = bits \cup {new[i] : i \in 1..k}
           /\ img' = [rec EXCEPT !.map = @ \o new]
      /\ pc' = "data"
      /\ Become(Growing(H), FALSE)
      /\ UNCHANGED <<data, rec, call>>
  BY DEF GrowAllocate
<1>2. /\ Writing /\ LocalInv /\ Sound(rec) /\ pc # "shrink" /\ H.pos <= rec.size
      /\ rec.inUse /\ rec.init = rec.size /\ H.size <= rec.size /\ OneToOne(rec.map)
      /\ H \in HandleRec /\ ClustersOf(rec) \subseteq bits
  BY <1>1, ReadyPlace
<1>3. k \in Nat
  <2>1. Target \in Nat /\ Allocated(rec) \in Nat /\ Target > Allocated(rec)
    BY <1>1, <1>2, TopIs, RecordIs DEF InClusters
  <2>2. Target - Allocated(rec) \in Nat
    BY <2>1
  <2>3. need \in Nat /\ Quantum \in Nat
    BY <2>2, ClustersHold, Constants
  <2> QED BY <2>3 DEF Larger
<1> HIDE DEF need, k
<1>4. PICK new \in FreeRun(k) :
           /\ bits' = bits \cup {new[i] : i \in 1..k}
           /\ img' = [rec EXCEPT !.map = @ \o new]
  BY <1>1
<1>5. new \in Seq(Cluster) /\ Len(new) = k /\ OneToOne(new) /\ \A i \in 1..k : new[i] \notin bits
  BY <1>3, FreeRunOnce
<1>6. PICK m : m = rec.map
  OBVIOUS
<1>7. m \in Seq(Cluster) /\ Len(m) \in Nat /\ \A i \in 1..Len(m) : m[i] \in bits
  BY <1>2, <1>6, RecordIs DEF ClustersOf
<1>8. img'.map = m \o new
  <2>1. rec \in FileRec
    BY <1>2, RecordIs
  <2> QED BY <2>1, <1>4, <1>6 DEF FileRec
<1>9. /\ m \o new \in Seq(Cluster) /\ Len(m \o new) = Len(m) + k
      /\ \A i \in 1..(Len(m) + k) :
           (m \o new)[i] = IF i <= Len(m) THEN m[i] ELSE new[i - Len(m)]
  BY <1>3, <1>5, <1>7
<1>10. PICK w : w = m \o new
  OBVIOUS
<1>11. /\ w \in Seq(Cluster) /\ Len(w) = Len(m) + k /\ DOMAIN w = 1..(Len(m) + k)
       /\ \A i \in DOMAIN w : w[i] = IF i <= Len(m) THEN m[i] ELSE new[i - Len(m)]
       /\ DOMAIN m = 1..Len(m) /\ DOMAIN new = 1..k
  BY <1>3, <1>5, <1>7, <1>9, <1>10
<1>12. Begins(m, w)
  BY <1>3, <1>7, <1>11 DEF Begins
<1>13. \A i \in DOMAIN w : w[i] \in bits' /\ (w[i] \in bits <=> i <= Len(m))
  <2>1. SUFFICES ASSUME NEW i \in DOMAIN w PROVE w[i] \in bits' /\ (w[i] \in bits <=> i <= Len(m))
    OBVIOUS
  <2>2. CASE i <= Len(m)
    BY <2>2, <1>4, <1>7, <1>11
  <2>3. CASE ~(i <= Len(m))
    <3>1. i - Len(m) \in 1..k /\ w[i] = new[i - Len(m)]
      BY <2>3, <1>3, <1>7, <1>11
    <3> QED BY <3>1, <2>3, <1>4, <1>5
  <2> QED BY <2>2, <2>3
<1>14. OneToOne(w)
  <2>1. SUFFICES ASSUME NEW i \in DOMAIN w, NEW j \in DOMAIN w, w[i] = w[j] PROVE i = j
    BY DEF OneToOne
  <2>2. i <= Len(m) <=> j <= Len(m)
    BY <2>1, <1>13
  <2>3. CASE i <= Len(m)
    <3>1. m[i] = m[j] /\ i \in DOMAIN m /\ j \in DOMAIN m
      BY <2>1, <2>2, <2>3, <1>7, <1>11
    <3> QED BY <3>1, <1>2, <1>6 DEF OneToOne
  <2>4. CASE ~(i <= Len(m))
    <3>1. /\ new[i - Len(m)] = new[j - Len(m)]
          /\ i - Len(m) \in DOMAIN new /\ j - Len(m) \in DOMAIN new
      BY <2>1, <2>2, <2>4, <1>3, <1>7, <1>11
    <3>2. i - Len(m) = j - Len(m)
      BY <3>1, <1>5 DEF OneToOne
    <3> QED BY <3>2, <1>3, <1>7, <1>11
  <2> QED BY <2>3, <2>4
<1>15. Growing(H) \in HandleRec /\ Growing(H).pos = H.pos /\ Growing(H).size = H.size
       /\ Growing(H).knows = H.knows
  BY <1>2 DEF Growing, HandleRec
<1>16. H' = Growing(H)
  BY <1>1, <1>2, CallerIs DEF Become, H
<1>17. InUseInv'
  BY <1>1, <1>2, <1>15, BecomeKnows DEF Body
<1>18. MapInv'
  <2>1. ClustersOf(img)' \subseteq bits' /\ OneToOne(img.map)'
    BY <1>8, <1>10, <1>13, <1>14 DEF ClustersOf, OneToOne
  <2>2. ClustersOf(rec)' \subseteq bits' /\ OneToOne(rec.map)'
    BY <1>1, <1>2, <1>4 DEF ClustersOf, OneToOne
  <2> QED BY <2>1, <2>2 DEF MapInv
<1>19. PlaceInv'
  <2>1. ~Cutting'
    BY <1>1 DEF Cutting
  <2> QED BY <2>1, <1>1, <1>2, <1>15, <1>16 DEF PlaceInv
<1>20. ImageInv'
  BY <1>1, <1>6, <1>8, <1>10, <1>12 DEF ImageInv, Begins
<1>21. Refines
  BY <1>1, <1>2, SameContent
<1> QED BY <1>17, <1>18, <1>19, <1>20, <1>21 DEF Body

\* A unit of the file, when data has been written over its clusters.
LEMMA DataAt ==
  ASSUME Sound(rec), ~rec.resident, NEW r, r.map \in Seq(Cluster), OneToOne(r.map),
         Begins(rec.map, r.map), NEW p \in Nat, NEW k \in Nat, p + k <= Allocated(r),
         NEW v, data' = Written(r, p, k, v), NEW i \in 1..rec.size
  PROVE  AtIn(data', rec, i) = IF i \in (p + 1)..(p + k) THEN v ELSE AtIn(data, rec, i)
<1>1. rec.map \in Seq(Cluster) /\ i \in 1..Allocated(rec)
  BY RecordIs
<1>2. Place(r, i) = Place(rec, i) /\ i \in 1..Allocated(r)
  BY <1>1, PlaceAlike
<1>3. data'[Place(r, i)[1]][Place(r, i)[2]] =
        IF i \in (p + 1)..(p + k) THEN v ELSE data[Place(r, i)[1]][Place(r, i)[2]]
  BY <1>2, WrittenIs
<1> QED BY <1>2, <1>3 DEF AtIn

\* Data over clusters of the file, and perhaps over new ones behind them.
LEMMA DataPut ==
  ASSUME Sound(rec), ~rec.resident, rec.inUse, rec.init = rec.size, rec' = rec,
         pc # "shrink", pc' # "shrink", data \in [Cluster -> [1..PerCluster -> Units]],
         NEW r, r.map \in Seq(Cluster), OneToOne(r.map), Begins(rec.map, r.map),
         NEW p \in 0..rec.size, NEW k \in Nat, p + k <= Allocated(r), p + k <= MaxUnits,
         NEW v \in Value, data' = Written(r, p, k, v)
  PROVE  Refines
<1>1. rec.map \in Seq(Cluster) /\ rec.size \in Nat /\ Allocated(rec) \in Nat /\ rec.size <= Allocated(rec)
  BY RecordIs
<1>2. PICK size : size = rec.size
  OBVIOUS
<1>3. p \in Nat /\ p <= size /\ size \in Nat /\ MaxUnits \in Nat
  BY <1>1, <1>2, Constants
<1>4. PICK m : m = Smaller(k, size - p)
  OBVIOUS
<1>5. m \in 0..MaxUnits /\ p + m <= size /\ m <= k /\ (m < k => p + m = size)
  BY <1>3, <1>4 DEF Smaller
<1>6. data' \in [Cluster -> [1..PerCluster -> Units]]
  BY WrittenType, Constants
<1>7. PICK s : s = StoredIn(data, rec)
  OBVIOUS
<1>8. PICK t : t = StoredIn(data', rec)
  OBVIOUS
<1>9. /\ s \in Seq(Units) /\ Len(s) = size /\ \A i \in 1..size : s[i] = AtIn(data, rec, i)
  BY <1>2, <1>7, WholeIs
<1>10. /\ t \in Seq(Units) /\ Len(t) = size /\ \A i \in 1..size : t[i] = AtIn(data', rec, i)
  BY <1>2, <1>6, <1>8, WholeIs
<1>11. Content = s /\ Content' = t
  BY <1>7, <1>8, ContentIs, ContentNext
<1>12. ASSUME NEW i \in 1..size PROVE t[i] = IF i \in (p + 1)..(p + m) THEN v ELSE s[i]
  <2>1. t[i] = IF i \in (p + 1)..(p + k) THEN v ELSE s[i]
    BY <1>2, <1>3, <1>9, <1>10, DataAt
  <2>2. i \in (p + 1)..(p + k) <=> i \in (p + 1)..(p + m)
    BY <1>3, <1>5
  <2> QED BY <2>1, <2>2
<1>13. Len(t) = Larger(Len(s), p + m) /\ p \in 0..Len(s)
  BY <1>3, <1>5, <1>9, <1>10 DEF Larger
<1>14. \A i \in 1..Len(t) : t[i] = IF i \in (p + 1)..(p + m) THEN v ELSE s[i]
  BY <1>10, <1>12
<1> QED BY <1>5, <1>9, <1>10, <1>11, <1>13, <1>14, PutIs

\* Where a write of data goes: to the clusters that the file has, or has been
\* given, all of which are marked.
LEMMA DataPlace ==
  ASSUME IInv, Body, pc = "data" \/ (Ready /\ Top.len > 0 /\ ~rec.resident /\ InClusters),
         NEW r, r = IF pc = "data" THEN img ELSE rec
  PROVE  /\ rec.inUse /\ rec.init = rec.size /\ H.size <= rec.size /\ H.pos <= rec.size
         /\ ~rec.resident /\ OneToOne(rec.map) /\ ClustersOf(rec) \subseteq bits
         /\ ~r.resident /\ OneToOne(r.map) /\ ClustersOf(r) \subseteq bits
         /\ Begins(rec.map, r.map) /\ Target <= Allocated(r) /\ Sound(r)
         /\ (pc = "data" => rec.size < Target)
<1>1. Writing /\ LocalInv /\ Sound(rec) /\ Sound(img)
  BY DEF IInv, LocalInv, DiskInv, Writing, Ready
<1>2. CASE pc = "data"
  <2>1. /\ rec.inUse /\ rec.init = rec.size /\ H.size <= rec.size /\ H.pos <= rec.size
        /\ ~rec.resident /\ Begins(rec.map, img.map)
    BY <1>2, <1>1 DEF Body, PlaceInv, ImageInv
  <2>2. /\ OneToOne(rec.map) /\ ClustersOf(rec) \subseteq bits
        /\ OneToOne(img.map) /\ ClustersOf(img) \subseteq bits
    BY <1>2, <2>1 DEF Body, MapInv
  <2>3. ~img.resident /\ Target <= Allocated(img) /\ rec.size < Target
    BY <1>2, <1>1 DEF LocalInv, ImgInv
  <2> QED BY <1>2, <2>1, <2>2, <2>3, <1>1
<1>3. CASE pc # "data"
  <2>1. Ready /\ ~rec.resident /\ Target <= Allocated(rec)
    BY <1>3 DEF InClusters
  <2>2. Len(rec.map) \in Nat
    BY <1>1, RecordIs
  <2>3. Begins(rec.map, rec.map)
    BY <2>2 DEF Begins
  <2> QED BY <1>3, <2>1, <2>3, ReadyPlace
<1> QED BY <1>2, <1>3

LEMMA WriteDataBody == ASSUME IInv, Body, WriteData, Follows' PROVE Body' /\ Refines
<1> DEFINE r == IF pc = "data" THEN img ELSE rec
<1>1. /\ pc = "data" \/ (Ready /\ Top.len > 0 /\ ~rec.resident /\ InClusters)
      /\ bits' = bits /\ rec' = rec
      /\ \E k \in 0..Top.len :
           /\ data' = Written(r, H.pos, k, Top.val)
           /\ IF Target > rec.size
              THEN /\ img' = [r EXCEPT !.size = Target, !.init = Target]
                   /\ stack' = [stack EXCEPT ![Len(stack)].done = k]
                   /\ pc' = "record"
                   /\ Hit(IF k = Top.len THEN {} ELSE {"short"})
                   /\ UNCHANGED <<handles, call>>
              ELSE IF k = Top.len THEN Finish(Moved(k), FALSE) ELSE Fail(Moved(k), FALSE)
  BY DEF WriteData
<1>2. Writing /\ LocalInv /\ DiskInv /\ Sound(rec) /\ Sound(img) /\ pc # "shrink"
  BY <1>1 DEF IInv, LocalInv, DiskInv, Writing, Ready
<1>3. /\ H \in HandleRec /\ H.pos \in Nat /\ H.size \in Nat /\ Top.len \in Nat /\ Top.val \in Value
      /\ Target = H.pos + Top.len /\ Target \in Nat /\ Target <= MaxUnits /\ Top.val \in Units
  BY <1>2, CallerIs, TopIs DEF FrameRec
<1>4. /\ rec.inUse /\ rec.init = rec.size /\ H.size <= rec.size /\ H.pos <= rec.size
      /\ ~rec.resident /\ OneToOne(rec.map) /\ ClustersOf(rec) \subseteq bits
      /\ ~r.resident /\ OneToOne(r.map) /\ ClustersOf(r) \subseteq bits
      /\ Begins(rec.map, r.map) /\ Target <= Allocated(r) /\ Sound(r)
      /\ (pc = "data" => rec.size < Target)
  BY <1>1, DataPlace
<1>5. r.map \in Seq(Cluster) /\ rec.size \in Nat /\ Allocated(r) \in Nat /\ r \in FileRec
  BY <1>2, <1>4, RecordIs
<1>6. PICK k \in 0..Top.len :
           /\ data' = Written(r, H.pos, k, Top.val)
           /\ IF Target > rec.size
              THEN /\ img' = [r EXCEPT !.size = Target, !.init = Target]
                   /\ stack' = [stack EXCEPT ![Len(stack)].done = k]
                   /\ pc' = "record"
                   /\ Hit(IF k = Top.len THEN {} ELSE {"short"})
                   /\ UNCHANGED <<handles, call>>
              ELSE IF k = Top.len THEN Finish(Moved(k), FALSE) ELSE Fail(Moved(k), FALSE)
  BY <1>1
<1> HIDE DEF r
<1>7. PICK p, v : p = H.pos /\ v = Top.val
  OBVIOUS
<1>8. /\ k \in Nat /\ p \in 0..rec.size /\ v \in Value /\ p + k <= Allocated(r) /\ p + k <= MaxUnits
      /\ data' = Written(r, p, k, v)
  <2>1. p + k <= Target /\ MaxUnits \in Nat
    BY <1>3, <1>7, Constants
  <2> QED BY <2>1, <1>3, <1>4, <1>5, <1>6, <1>7
<1>9. pc' # "shrink" => Refines
  <2>1. data \in [Cluster -> [1..PerCluster -> Units]]
    BY <1>2 DEF DiskInv
  <2> QED BY <2>1, <1>1, <1>2, <1>4, <1>5, <1>8, DataPut
<1>10. CASE Target > rec.size
  <2>1. /\ img' = [r EXCEPT !.size = Target, !.init = Target] /\ pc' = "record"
        /\ stack' = [stack EXCEPT ![Len(stack)].done = k] /\ UNCHANGED <<handles, call>>
        /\ Hit(IF k = Top.len THEN {} ELSE {"short"})
    BY <1>6, <1>10
  <2>2. k = Top.len
    BY <2>1 DEF Hit, Follows
  <2>3. img'.map = r.map /\ img'.init = img'.size /\ ~img'.resident
    BY <2>1, <1>3, <1>4, <1>5 DEF FileRec
  <2>4. \A i : Place(img', i) = Place(r, i)
    BY <2>3 DEF Place
  <2>5. ClustersOf(img') \subseteq bits' /\ OneToOne(img'.map)
    BY <2>3, <1>1, <1>4 DEF ClustersOf, OneToOne
  <2>6. ASSUME NEW i \in 1..H.pos PROVE AtIn(data', img', i) = AtIn(data', rec, i)
    <3>1. rec.map \in Seq(Cluster) /\ i \in 1..Allocated(rec)
      BY <1>2, <1>3, <1>4, RecordIs
    <3>2. Place(r, i) = Place(rec, i)
      BY <3>1, <1>4, <1>5, PlaceAlike
    <3> QED BY <3>2, <2>3, <2>4, <1>4 DEF AtIn
  <2>7. ASSUME NEW i \in (H.pos + 1)..Target PROVE AtIn(data', img', i) = Top.val
    <3>1. i \in 1..Allocated(r) /\ p \in Nat /\ i \in (p + 1)..(p + k)
      BY <2>2, <1>3, <1>4, <1>5, <1>7
    <3>2. data'[Place(r, i)[1]][Place(r, i)[2]] = v
      BY <3>1, <1>4, <1>5, <1>8, WrittenIs
    <3> QED BY <3>2, <2>3, <2>4, <1>7 DEF AtIn
  <2>8. Body'
    BY <2>1, <2>2, <2>3, <2>5, <2>6, <2>7, <1>1, <1>2, <1>4, RecordBody
  <2> QED BY <2>1, <2>8, <1>9
<1>11. CASE ~(Target > rec.size)
  <2>1. IF k = Top.len THEN Finish(Moved(k), FALSE) ELSE Fail(Moved(k), FALSE)
    BY <1>6, <1>11
  <2>2. /\ Moved(k) \in HandleRec /\ Moved(k).pos = H.pos + k
        /\ Moved(k).size = H.size /\ Moved(k).knows = H.knows
    BY <1>2, MovedIs
  <2>3. CASE k = Top.len
    <3>1. Moved(k).pos = H.pos + Top.len /\ Moved(k).pos <= rec.size
      BY <2>2, <2>3, <1>3, <1>5, <1>11
    <3>2. Body' /\ pc' # "shrink"
      BY <2>1, <2>2, <2>3, <3>1, <1>1, <1>2, <1>4, FinishBody
    <3> QED BY <3>2, <1>9
  <2>4. CASE k # Top.len
    <3>1. Body' /\ pc' = "failed"
      BY <2>1, <2>2, <2>4, <1>1, <1>2, <1>4, FailBody
    <3> QED BY <3>1, <1>9
  <2> QED BY <2>3, <2>4
<1> QED BY <1>10, <1>11

LEMMA WriteRecordBody == ASSUME IInv, Body, WriteRecord PROVE Body' /\ Refines
<1> DEFINE new == GrownTo(Moved(Top.done))
<1>1. /\ pc = "record" /\ bits' = bits
      /\ \/ /\ rec' = img
            /\ IF Top.done = Top.len THEN Finish(new, TRUE) ELSE Fail(new, TRUE)
            /\ data' = data
         \/ /\ Fail(H, FALSE) /\ rec' = rec
            /\ data' = Spoilt(ClustersOf(img) \ ClustersOf(rec))
  BY DEF WriteRecord
<1>2. Writing /\ LocalInv /\ DiskInv /\ Sound(rec) /\ Sound(img) /\ pc # "shrink"
  BY <1>1 DEF IInv, LocalInv, DiskInv, Writing
<1>3. /\ H \in HandleRec /\ H.pos \in Nat /\ H.size \in Nat /\ Top.len \in Nat /\ Top.val \in Value
      /\ Target = H.pos + Top.len /\ Target \in Nat /\ Target <= MaxUnits
  BY <1>2, CallerIs, TopIs DEF FrameRec
<1>4. /\ rec.inUse /\ rec.init = rec.size /\ H.size <= rec.size /\ H.pos <= rec.size
      /\ img.init = img.size /\ ~img.resident /\ Top.done = Top.len
      /\ \A i \in 1..H.pos : AtIn(data, img, i) = AtIn(data, rec, i)
      /\ \A i \in (H.pos + 1)..Target : AtIn(data, img, i) = Top.val
  BY <1>1, <1>2 DEF Body, PlaceInv, ImageInv
<1>5. /\ OneToOne(rec.map) /\ (~rec.resident => ClustersOf(rec) \subseteq bits)
      /\ OneToOne(img.map) /\ ClustersOf(img) \subseteq bits
  BY <1>1, <1>2, <1>4 DEF Body, MapInv
<1>6. rec.size < Target /\ img.size = Target /\ img.inUse = rec.inUse /\ rec.size \in Nat
  BY <1>1, <1>2, RecordIs DEF LocalInv, ImgInv
<1>7. CASE /\ rec' = img
           /\ IF Top.done = Top.len THEN Finish(new, TRUE) ELSE Fail(new, TRUE)
           /\ data' = data
  <2>1. Finish(new, TRUE)
    BY <1>4, <1>7
  <2>2. /\ new \in HandleRec /\ new.pos = H.pos + Top.len /\ new.knows = H.knows
        /\ new.size = Larger(H.size, Target)
    BY <1>2, <1>3, <1>4, MovedIs
  <2>3. new.size <= img.size /\ new.pos <= img.size
    BY <2>2, <1>3, <1>4, <1>6 DEF Larger
  <2> HIDE DEF new
  <2>4. Body' /\ pc' # "shrink"
    BY <2>1, <2>2, <2>3, <1>1, <1>2, <1>4, <1>5, <1>6, <1>7, FinishBody
  <2>5. PICK s : s = StoredIn(data, rec)
    OBVIOUS
  <2>6. PICK t : t = StoredIn(data, img)
    OBVIOUS
  <2>7. /\ s \in Seq(Units) /\ Len(s) = rec.size /\ \A i \in 1..rec.size : s[i] = AtIn(data, rec, i)
        /\ t \in Seq(Units) /\ Len(t) = Target /\ \A i \in 1..Target : t[i] = AtIn(data, img, i)
    BY <2>5, <2>6, <1>2, <1>4, <1>6, WholeIs DEF DiskInv
  <2>8. Content = s /\ Content' = t
    BY <2>4, <2>5, <2>6, <1>2, <1>4, <1>6, <1>7, ContentIs, ContentNext
  <2>9. PICK p, n, v, size : p = H.pos /\ n = Top.len /\ v = Top.val /\ size = rec.size
    OBVIOUS
  <2>10. /\ p \in 0..Len(s) /\ n \in 0..MaxUnits /\ v \in Value /\ Len(t) = p + n /\ Len(s) = size
         /\ size \in Nat /\ p \in Nat /\ n \in Nat /\ size < p + n /\ p <= size
    BY <2>7, <2>9, <1>3, <1>4, <1>6, Constants
  <2>11. /\ \A i \in 1..p : t[i] = AtIn(data, img, i) /\ s[i] = AtIn(data, rec, i)
         /\ \A i \in (p + 1)..(p + n) : t[i] = AtIn(data, img, i)
    BY <2>7, <2>9, <2>10, <1>3
  <2>12. /\ \A i \in 1..p : t[i] = s[i]
         /\ \A i \in (p + 1)..(p + n) : t[i] = v
    BY <2>9, <2>11, <1>3, <1>4
  <2>13. Len(t) = Larger(Len(s), p + n)
    BY <2>10 DEF Larger
  <2>14. \A i \in 1..Len(t) : t[i] = IF i \in (p + 1)..(p + n) THEN v ELSE s[i]
    BY <2>10, <2>12
  <2>15. Refines
    BY <2>7, <2>8, <2>10, <2>13, <2>14, PutIs
  <2> QED BY <2>4, <2>15
<1>8. CASE /\ Fail(H, FALSE) /\ rec' = rec
           /\ data' = Spoilt(ClustersOf(img) \ ClustersOf(rec))
  <2>1. Body' /\ pc' = "failed"
    BY <1>1, <1>2, <1>3, <1>5, <1>8, FailBody
  <2>2. \A c \in ClustersOf(rec) : data'[c] = data[c]
    <3>1. ClustersOf(rec) \subseteq Cluster
      BY <1>2, RecordIs
    <3> QED BY <3>1, <1>8, SpoiltIs
  <2>3. Refines
    BY <2>1, <2>2, <1>2, <1>8, SameContent
  <2> QED BY <2>1, <2>3
<1> QED BY <1>1, <1>7, <1>8

(***************************************************************************)
(* The steps of a cut                                                      *)
(***************************************************************************)

\* The running cut, and the file that it is to cut.
LEMMA CuttingIs ==
  ASSUME IInv, Body, Cutting
  PROVE  /\ LocalInv /\ DiskInv /\ Sound(rec) /\ Sound(img) /\ H \in HandleRec
         /\ rec.inUse /\ rec.init = rec.size /\ OneToOne(rec.map) /\ rec.size \in Nat
         /\ pc # "shrink" /\ ~rec.resident => ClustersOf(rec) \subseteq bits
         /\ call \in CallRec /\ call.len \in Nat /\ call.h \in Handle
<1>1. LocalInv /\ DiskInv /\ Sound(rec) /\ Sound(img)
  BY DEF IInv, LocalInv, DiskInv
<1>2. H \in HandleRec /\ rec.size \in Nat /\ call \in CallRec /\ call.len \in Nat /\ call.h \in Handle
  BY <1>1, CallerIs, RecordIs
<1>3. rec.inUse /\ rec.init = rec.size
  BY DEF Body, PlaceInv
<1>4. OneToOne(rec.map) /\ (pc # "shrink" /\ ~rec.resident => ClustersOf(rec) \subseteq bits)
  BY <1>3 DEF Body, MapInv
<1> QED BY <1>1, <1>2, <1>3, <1>4

LEMMA CutNothingBody == ASSUME IInv, Body, CutNothing PROVE Body' /\ Refines
<1>1. /\ pc = "cut" /\ Become(Resized(H), FALSE) /\ Return("ok")
      /\ UNCHANGED <<bits, data, rec>>
  BY DEF CutNothing, disk
<1>2. Cutting
  BY <1>1 DEF Cutting
<1>3. Resized(H) \in HandleRec /\ Resized(H).knows = H.knows
  BY <1>2, CuttingIs, ResizedIs
<1>4. Body' /\ pc' = "ok"
  BY <1>1, <1>2, <1>3, CuttingIs, ReturnBody
<1>5. Refines
  BY <1>1, <1>2, <1>4, CuttingIs, SameContent
<1> QED BY <1>4, <1>5

LEMMA CutResidentBody == ASSUME IInv, Body, CutResident PROVE Body' /\ Refines
<1> DEFINE v == SubSeq(rec.value, 1, call.len)
<1>1. /\ pc = "cut" /\ call.len < rec.size /\ rec.resident /\ UNCHANGED <<bits, data>>
      /\ \/ /\ rec' = [rec EXCEPT !.value = v, !.size = call.len, !.init = call.len]
            /\ Become(Resized(H), TRUE) /\ Return("ok")
         \/ Fail(H, FALSE) /\ rec' = rec
  BY DEF CutResident
<1>2. Cutting
  BY <1>1 DEF Cutting
<1>3. /\ LocalInv /\ DiskInv /\ Sound(rec) /\ H \in HandleRec
      /\ rec.inUse /\ rec.init = rec.size /\ OneToOne(rec.map) /\ rec.size \in Nat /\ call.len \in Nat
  BY <1>2, CuttingIs
<1>4. rec.value \in Seq(Units) /\ rec.size = Len(rec.value)
  BY <1>1, <1>3, RecordIs
<1>5. v \in Seq(Units) /\ Len(v) = call.len /\ \A i \in 1..call.len : v[i] = rec.value[i]
  BY <1>1, <1>3, <1>4
<1> HIDE DEF v
<1>6. CASE /\ rec' = [rec EXCEPT !.value = v, !.size = call.len, !.init = call.len]
           /\ Become(Resized(H), TRUE) /\ Return("ok")
  <2>1. /\ rec'.inUse = rec.inUse /\ rec'.map = rec.map /\ rec'.resident /\ rec'.value = v
        /\ rec'.size = call.len /\ rec'.init = call.len
    <3>1. rec \in FileRec
      BY <1>3, RecordIs
    <3> QED BY <3>1, <1>1, <1>6 DEF FileRec
  <2>2. Sound(rec')
    BY <1>1, <1>3, <1>5, <1>6, ResidentSound
  <2>3. Resized(H) \in HandleRec /\ Resized(H).knows = H.knows
    BY <1>2, <1>3, ResizedIs
  <2>4. Body' /\ pc' = "ok"
    BY <2>1, <2>3, <1>2, <1>3, <1>6, ReturnBody
  <2>5. PICK s : s = StoredIn(data, rec)
    OBVIOUS
  <2>6. PICK t : t = StoredIn(data', rec')
    OBVIOUS
  <2>7. s \in Seq(Units) /\ Len(s) = rec.size /\ \A i \in 1..rec.size : s[i] = rec.value[i]
    BY <2>5, <1>1, <1>3, WholeIs DEF DiskInv, AtIn
  <2>8. t \in Seq(Units) /\ Len(t) = call.len /\ \A i \in 1..call.len : t[i] = v[i]
    <3>1. data' \in [Cluster -> [1..PerCluster -> Units]]
      BY <1>1, <1>3 DEF DiskInv
    <3> QED BY <3>1, <2>1, <2>2, <2>6, WholeIs DEF AtIn
  <2>9. Content = s /\ Content' = t
    BY <2>1, <2>4, <2>5, <2>6, <1>1, <1>3, ContentIs, ContentNext
  <2>10. Len(t) <= Len(s) /\ \A i \in 1..Len(t) : t[i] = s[i]
    BY <2>7, <2>8, <1>1, <1>3, <1>5
  <2>11. Refines
    BY <2>7, <2>8, <2>9, <2>10, CutIs
  <2> QED BY <2>4, <2>11
<1>7. CASE Fail(H, FALSE) /\ rec' = rec
  <2>1. Body' /\ pc' = "failed"
    BY <1>1, <1>2, <1>3, <1>7, FailBody
  <2>2. Refines
    BY <2>1, <1>1, <1>3, <1>7, SameContent
  <2> QED BY <2>1, <2>2
<1> QED BY <1>1, <1>6, <1>7

\* A longer file in clusters of which a shorter one has the first: the shorter
\* one is a cut of it.
LEMMA CutStored ==
  ASSUME Sound(rec), rec.init = rec.size, ~rec.resident,
         NEW q, Sound(q), q.init = q.size, ~q.resident, q.size <= rec.size, Begins(q.map, rec.map),
         NEW d \in [Cluster -> [1..PerCluster -> Units]],
         NEW e \in [Cluster -> [1..PerCluster -> Units]],
         \A c \in ClustersOf(q) : e[c] = d[c],
         Content = StoredIn(d, rec), Content' = StoredIn(e, q)
  PROVE  Refines
<1>1. PICK s : s = StoredIn(d, rec)
  OBVIOUS
<1>2. PICK t : t = StoredIn(e, q)
  OBVIOUS
<1>3. s \in Seq(Units) /\ Len(s) = rec.size /\ \A i \in 1..rec.size : s[i] = AtIn(d, rec, i)
  BY <1>1, WholeIs
<1>4. t \in Seq(Units) /\ Len(t) = q.size /\ \A i \in 1..q.size : t[i] = AtIn(e, q, i)
  BY <1>2, WholeIs
<1>5. /\ q.map \in Seq(Cluster) /\ q.size \in Nat /\ q.size <= Allocated(q) /\ Allocated(q) \in Nat
      /\ rec.map \in Seq(Cluster) /\ rec.size \in Nat
  BY RecordIs
<1>6. ASSUME NEW i \in 1..q.size PROVE t[i] = s[i]
  <2>1. i \in 1..Allocated(q) /\ i \in 1..rec.size
    BY <1>5
  <2>2. Place(rec, i) = Place(q, i)
    BY <2>1, <1>5, PlaceAlike
  <2>3. Place(q, i)[1] \in ClustersOf(q)
    BY <2>1, <1>5, PlaceIs
  <2>4. t[i] = e[Place(q, i)[1]][Place(q, i)[2]] /\ s[i] = d[Place(rec, i)[1]][Place(rec, i)[2]]
    BY <2>1, <1>3, <1>4 DEF AtIn
  <2> QED BY <2>2, <2>3, <2>4
<1>7. Len(t) <= Len(s) /\ \A i \in 1..Len(t) : t[i] = s[i]
  BY <1>3, <1>4, <1>6
<1> QED BY <1>1, <1>2, <1>3, <1>4, <1>7, CutIs

\* The tail is free, the rest is as it was.
LEMMA TailIs ==
  ASSUME DiskInv, rec.map \in Seq(Cluster), OneToOne(rec.map), ClustersOf(rec) \subseteq bits,
         NEW keep \in 0..Len(rec.map), FreeTail(keep), NEW m, m = SubSeq(rec.map, 1, keep)
  PROVE  /\ m \in Seq(Cluster) /\ Len(m) = keep /\ Begins(m, rec.map) /\ OneToOne(m)
         /\ \A i \in DOMAIN m : m[i] \in bits' /\ data'[m[i]] = data[m[i]]
         /\ keep < Len(rec.map) => ~(ClustersOf(rec) \subseteq bits')
         /\ keep = Len(rec.map) => ClustersOf(rec) \subseteq bits' /\ m = rec.map
         /\ data' \in [Cluster -> [1..PerCluster -> Units]]
<1> DEFINE n == Len(rec.map)
           tail == {rec.map[i] : i \in (keep + 1)..n}
<1>1. n \in Nat /\ keep \in Nat /\ keep <= n /\ DOMAIN rec.map = 1..n
  OBVIOUS
<1>2. bits' = bits \ tail /\ data' = Spoilt(tail)
  BY DEF FreeTail
<1>3. m \in Seq(Cluster) /\ Len(m) = keep /\ DOMAIN m = 1..keep /\ \A i \in 1..keep : m[i] = rec.map[i]
  BY <1>1
<1>4. Begins(m, rec.map) /\ OneToOne(m)
  <2>1. Begins(m, rec.map)
    BY <1>1, <1>3 DEF Begins
  <2>2. ASSUME NEW i \in DOMAIN m, NEW j \in DOMAIN m, m[i] = m[j] PROVE i = j
    <3>1. /\ i \in DOMAIN rec.map /\ j \in DOMAIN rec.map
          /\ m[i] = rec.map[i] /\ m[j] = rec.map[j]
      BY <1>1, <1>3
    <3> QED BY <2>2, <3>1 DEF OneToOne
  <2> QED BY <2>1, <2>2 DEF OneToOne
<1>5. ASSUME NEW i \in DOMAIN m PROVE m[i] \in bits' /\ data'[m[i]] = data[m[i]]
  <2>1. i \in 1..keep /\ i \in DOMAIN rec.map /\ m[i] = rec.map[i] /\ m[i] \in Cluster
    BY <1>1, <1>3
  <2>2. m[i] \in bits
    BY <2>1 DEF ClustersOf
  <2>3. m[i] \notin tail
    <3>1. SUFFICES ASSUME NEW j \in (keep + 1)..n, m[i] = rec.map[j] PROVE FALSE
      OBVIOUS
    <3>2. j \in DOMAIN rec.map /\ i # j
      BY <2>1, <3>1, <1>1
    <3> QED BY <2>1, <3>1, <3>2 DEF OneToOne
  <2>4. Spoilt(tail)[m[i]] = data[m[i]]
    BY <2>1, <2>3, SpoiltIs
  <2> HIDE DEF tail
  <2> QED BY <2>2, <2>3, <2>4, <1>2
<1>6. ASSUME keep < n PROVE ~(ClustersOf(rec) \subseteq bits')
  <2>1. n \in (keep + 1)..n /\ n \in DOMAIN rec.map
    BY <1>1, <1>6
  <2>2. rec.map[n] \in tail /\ rec.map[n] \in ClustersOf(rec)
    BY <2>1 DEF ClustersOf
  <2> HIDE DEF tail, n
  <2> QED BY <2>2, <1>2
<1>7. ASSUME keep = n PROVE ClustersOf(rec) \subseteq bits' /\ m = rec.map
  <2>1. tail = {}
    BY <1>1, <1>7
  <2>2. m = rec.map
    BY <1>1, <1>3, <1>7
  <2> HIDE DEF tail
  <2> QED BY <2>1, <2>2, <1>2
<1>8. data' \in [Cluster -> [1..PerCluster -> Units]]
  BY FreeTailIs
<1> QED BY <1>3, <1>4, <1>5, <1>6, <1>7, <1>8

\* The clusters behind a new size are free, the record is next.
LEMMA ShrinkBody ==
  ASSUME IInv, Body, pc \in {"cut", "trim"}, pc' = "shrink", UNCHANGED <<rec, handles, call>>,
         ~rec.resident, NEW s \in Nat, s <= rec.size, FreeTail(Clusters(s)),
         Sound(img'), img'.map = SubSeq(rec.map, 1, Clusters(s)), img'.size = s,
         img'.init = s, ~img'.resident
  PROVE  Body' /\ Refines
<1>1. Cutting
  BY DEF Cutting
<1>2. /\ LocalInv /\ DiskInv /\ Sound(rec)
      /\ rec.inUse /\ rec.init = rec.size /\ OneToOne(rec.map) /\ rec.size \in Nat
      /\ ClustersOf(rec) \subseteq bits /\ pc # "shrink"
  BY <1>1, CuttingIs
<1>3. rec.map \in Seq(Cluster) /\ Len(rec.map) \in Nat /\ rec.size <= Len(rec.map) * PerCluster
      /\ Len(rec.map) * PerCluster \in Nat
  BY <1>2, RecordIs
<1>4. Clusters(s) \in 0..Len(rec.map)
  <2>1. s <= Len(rec.map) * PerCluster
    BY <1>2, <1>3
  <2> QED BY <2>1, <1>3, ClustersHold
<1>5. PICK m, keep : m = SubSeq(rec.map, 1, Clusters(s)) /\ keep = Clusters(s)
  OBVIOUS
<1>6. /\ m \in Seq(Cluster) /\ Len(m) = keep /\ Begins(m, rec.map) /\ OneToOne(m)
      /\ \A i \in DOMAIN m : m[i] \in bits' /\ data'[m[i]] = data[m[i]]
      /\ keep < Len(rec.map) => ~(ClustersOf(rec) \subseteq bits')
      /\ keep = Len(rec.map) => ClustersOf(rec) \subseteq bits' /\ m = rec.map
      /\ data' \in [Cluster -> [1..PerCluster -> Units]]
  BY <1>2, <1>3, <1>4, <1>5, TailIs
<1>7. img'.map = m
  BY <1>5
<1>8. InUseInv'
  BY DEF Body, InUseInv, IsOpen
<1>9. MapInv'
  <2>1. ClustersOf(img)' \subseteq bits'
    BY <1>6, <1>7 DEF ClustersOf
  <2>2. OneToOne(rec.map)'
    BY <1>2 DEF OneToOne
  <2> QED BY <2>1, <2>2 DEF MapInv
<1>10. PlaceInv'
  <2>1. ~Writing'
    BY DEF Writing
  <2> QED BY <2>1, <1>2 DEF PlaceInv
<1>11. ImageInv'
  BY <1>6, <1>7 DEF ImageInv, Begins
<1>12. Body'
  BY <1>8, <1>9, <1>10, <1>11 DEF Body
<1>13. Content = StoredIn(data, rec)
  BY <1>2, ContentIs
<1>14. data \in [Cluster -> [1..PerCluster -> Units]]
  BY <1>2 DEF DiskInv
<1>15. CASE keep < Len(rec.map)
  <2>1. Dangling'
    BY <1>6, <1>15 DEF Dangling, ClustersOf
  <2>2. Content' = StoredIn(data', img')
    BY <2>1, <1>2, ContentNext
  <2>3. \A c \in ClustersOf(img') : data'[c] = data[c]
    BY <1>6, <1>7 DEF ClustersOf
  <2>4. PICK q, e : q = img' /\ e = data'
    OBVIOUS
  <2>5. /\ Sound(q) /\ q.init = q.size /\ ~q.resident /\ q.size <= rec.size /\ Begins(q.map, rec.map)
        /\ e \in [Cluster -> [1..PerCluster -> Units]] /\ Content' = StoredIn(e, q)
        /\ \A c \in ClustersOf(q) : e[c] = data[c]
    BY <2>2, <2>3, <2>4, <1>6, <1>7
  <2>6. Refines
    BY <2>5, <1>2, <1>13, <1>14, CutStored
  <2> QED BY <2>6, <1>12
<1>16. CASE keep = Len(rec.map)
  <2>1. ~Dangling'
    BY <1>6, <1>16 DEF Dangling, ClustersOf
  <2>2. Content' = StoredIn(data', rec)
    BY <2>1, <1>2, ContentNext
  <2>3. \A c \in ClustersOf(rec) : data[c] = data'[c]
    BY <1>6, <1>16 DEF ClustersOf
  <2>4. StoredIn(data, rec) = StoredIn(data', rec)
    BY <2>3, <1>2, StoredSame
  <2>5. Refines
    BY <2>2, <2>4, <1>13 DEF Refines
  <2> QED BY <2>5, <1>12
<1> QED BY <1>4, <1>5, <1>15, <1>16

LEMMA CutFreeBody == ASSUME IInv, IInv', Body, CutFree PROVE Body' /\ Refines
<1>1. /\ pc = "cut" /\ call.len < rec.size /\ ~rec.resident
      /\ FreeTail(Clusters(call.len)) /\ pc' = "shrink"
      /\ img' = [rec EXCEPT !.map = SubSeq(@, 1, Clusters(call.len)), !.size = call.len,
                            !.init = Smaller(@, call.len)]
      /\ UNCHANGED <<rec, handles, call>>
  BY DEF CutFree
<1>2. Cutting
  BY <1>1 DEF Cutting
<1>3. rec \in FileRec /\ rec.init = rec.size /\ rec.size \in Nat /\ call.len \in Nat
  BY <1>2, CuttingIs, RecordIs
<1>4. Smaller(rec.init, call.len) = call.len
  BY <1>1, <1>3 DEF Smaller
<1>5. /\ img'.map = SubSeq(rec.map, 1, Clusters(call.len)) /\ img'.size = call.len
      /\ img'.init = call.len /\ ~img'.resident
  BY <1>1, <1>3, <1>4 DEF FileRec
<1>6. Sound(img')
  BY DEF IInv, LocalInv, Sound
<1>7. PICK s : s = call.len
  OBVIOUS
<1>8. FreeTail(Clusters(s))
  BY <1>1, <1>7 DEF FreeTail
<1>9. s \in Nat /\ s <= rec.size
  BY <1>1, <1>3, <1>7
<1>10. img'.size = s /\ img'.init = s
  BY <1>5, <1>7
<1>11. img'.map = SubSeq(rec.map, 1, Clusters(s))
  BY <1>5, <1>7, Zenon
<1> QED BY <1>1, <1>5, <1>6, <1>8, <1>9, <1>10, <1>11, ShrinkBody

LEMMA TrimFreeBody == ASSUME IInv, IInv', Body, TrimFree PROVE Body' /\ Refines
<1>1. /\ pc = "trim" /\ FreeTail(Clusters(rec.size)) /\ pc' = "shrink"
      /\ img' = [rec EXCEPT !.map = SubSeq(@, 1, Clusters(rec.size))]
      /\ UNCHANGED <<rec, handles, call>>
  BY DEF TrimFree
<1>2. Cutting
  BY <1>1 DEF Cutting
<1>3. rec \in FileRec /\ rec.init = rec.size /\ rec.size \in Nat /\ ~rec.resident
  BY <1>1, <1>2, CuttingIs, RecordIs DEF LocalInv, ImgInv
<1>4. /\ img'.map = SubSeq(rec.map, 1, Clusters(rec.size)) /\ img'.size = rec.size
      /\ img'.init = rec.size /\ ~img'.resident
  BY <1>1, <1>3 DEF FileRec
<1>5. Sound(img')
  BY DEF IInv, LocalInv, Sound
<1>6. PICK s : s = rec.size
  OBVIOUS
<1>7. FreeTail(Clusters(s))
  BY <1>1, <1>6 DEF FreeTail
<1>8. s \in Nat /\ s <= rec.size
  BY <1>3, <1>6
<1>9. img'.size = s /\ img'.init = s
  BY <1>4, <1>6
<1>10. img'.map = SubSeq(rec.map, 1, Clusters(s))
  BY <1>4, <1>6, Zenon
<1> QED BY <1>1, <1>3, <1>4, <1>5, <1>7, <1>8, <1>9, <1>10, ShrinkBody

LEMMA ShrinkRecordBody == ASSUME IInv, Body, ShrinkRecord, Follows' PROVE Body' /\ Refines
<1> DEFINE After(new) == IF call.kind = "close" THEN None ELSE new
<1>1. /\ pc = "shrink" /\ UNCHANGED <<bits, data>>
      /\ \/ /\ rec' = img
            /\ Become(After(Resized(H)), img.size # rec.size) /\ Return("ok")
         \/ /\ Become(After(H), FALSE) /\ Return("failed")
            /\ Hit(IF Dangling THEN {"dangle"} ELSE {})
            /\ rec' = rec
  BY DEF ShrinkRecord
<1>2. Cutting
  BY <1>1 DEF Cutting
<1>3. /\ LocalInv /\ DiskInv /\ Sound(rec) /\ Sound(img) /\ H \in HandleRec
      /\ rec.inUse /\ rec.init = rec.size /\ OneToOne(rec.map)
  BY <1>2, CuttingIs
<1>4. /\ ~rec.resident /\ ~img.resident /\ Begins(img.map, rec.map)
      /\ img.size <= rec.size /\ img.init = img.size
  BY <1>1 DEF Body, ImageInv
<1>5. ClustersOf(img) \subseteq bits /\ img.inUse = rec.inUse
  BY <1>1, <1>3 DEF Body, MapInv, LocalInv, ImgInv
<1>6. OneToOne(img.map)
  <2>1. img.map \in Seq(Cluster) /\ rec.map \in Seq(Cluster) /\ Len(img.map) <= Len(rec.map)
    BY <1>3, <1>4, RecordIs DEF Begins
  <2> QED BY <2>1, <1>3, <1>4 DEF OneToOne, Begins
<1>7. data \in [Cluster -> [1..PerCluster -> Units]]
  BY <1>3 DEF DiskInv
<1>8. CASE /\ rec' = img
           /\ Become(After(Resized(H)), img.size # rec.size) /\ Return("ok")
  <2> DEFINE new == After(Resized(H))
  <2>1. new \in HandleRec \cup {None} /\ (new # None => new.knows = H.knows)
    BY <1>2, <1>3, ResizedIs
  <2> HIDE DEF new
  <2>2. PICK resized : resized = (img.size # rec.size)
    OBVIOUS
  <2>3. Become(new, resized)
    BY <2>2, <1>8 DEF new
  <2>4. Body' /\ pc' = "ok"
    <3>1. /\ Return("ok") /\ rec'.inUse = rec.inUse /\ OneToOne(rec'.map)
          /\ ClustersOf(rec') \subseteq bits'
      BY <1>1, <1>5, <1>6, <1>8
    <3> QED BY <3>1, <2>1, <2>3, <1>2, <1>3, ReturnBody
  <2>5. Content' = StoredIn(data, img)
    BY <2>4, <1>1, <1>3, <1>5, <1>8, ContentNext
  <2>6. CASE Dangling
    BY <2>4, <2>5, <2>6, <1>1, <1>3, ContentIs DEF Refines
  <2>7. CASE ~Dangling
    <3>1. Content = StoredIn(data, rec)
      BY <2>7, <1>3, ContentIs
    <3>2. PICK q : q = img
      OBVIOUS
    <3>3. /\ Sound(q) /\ q.init = q.size /\ ~q.resident /\ q.size <= rec.size
          /\ Begins(q.map, rec.map) /\ Content' = StoredIn(data, q)
      BY <3>2, <2>5, <1>3, <1>4
    <3>4. PICK d : d = data
      OBVIOUS
    <3>5. Refines
      BY <3>1, <3>3, <3>4, <1>3, <1>4, <1>7, CutStored
    <3> QED BY <3>5, <2>4
  <2> QED BY <2>4, <2>6, <2>7
<1>9. CASE /\ Become(After(H), FALSE) /\ Return("failed")
           /\ Hit(IF Dangling THEN {"dangle"} ELSE {})
           /\ rec' = rec
  <2>1. ~Dangling
    BY <1>9 DEF Hit, Follows
  <2> DEFINE new == After(H)
  <2>2. new \in HandleRec \cup {None} /\ (new # None => new.knows = H.knows)
    BY <1>3
  <2> HIDE DEF new
  <2>3. Become(new, FALSE)
    BY <1>9 DEF new
  <2>4. ClustersOf(rec) \subseteq bits
    BY <2>1 DEF Dangling
  <2>5. Body' /\ pc' = "failed"
    BY <2>2, <2>3, <2>4, <1>1, <1>2, <1>3, <1>9, ReturnBody
  <2>6. Refines
    BY <2>1, <2>5, <1>1, <1>3, <1>9, SameContent
  <2> QED BY <2>5, <2>6
<1> QED BY <1>1, <1>8, <1>9

(***************************************************************************)
(* The calls, their ends, and the loss of power                            *)
(***************************************************************************)

\* A call that begins changes nothing, and what it may not meet is trouble.
LEMMA BeginBody ==
  ASSUME IInv, Body, Follows', NEW h \in Handle, NEW kind \in {"write", "resize", "close"},
         NEW at \in 0..MaxUnits, NEW len \in Nat, NEW where \in {"enter", "cut", "trim"},
         Begin(h, kind, at, len, where),
         NEW p \in 0..MaxUnits, handles' = SetPosition(h, p) \/ handles' = handles
  PROVE  Body' /\ Refines
<1>1. /\ pc = "idle" /\ IsOpen(h) /\ pc' = where /\ trouble' = trouble \cup Standing(h)
      /\ UNCHANGED <<bits, data, rec>>
  BY DEF Begin, MayCall, AtRest, disk
<1>2. /\ Sound(rec) /\ handles \in [Handle -> HandleRec \cup {None}]
      /\ \A g \in Handle : IsOpen(g) => handles[g] \in HandleRec
  BY <1>1, IdleIs
<1>3. handles[h] \in HandleRec /\ handles[h].size \in Nat
  BY <1>1, <1>2 DEF HandleRec
<1>4. rec.size \in Nat /\ rec.init \in Nat /\ rec.init <= rec.size
  BY <1>2, RecordIs
<1>5. "orphan" \notin Standing(h) /\ "beyond" \notin Standing(h) /\ "uninit" \notin Standing(h)
  BY <1>1 DEF Follows
<1>6. handles[h].knows # "nothing"
  BY <1>5 DEF Standing
<1>7. ~(handles[h].size > rec.size) /\ ~(rec.init < rec.size)
  BY <1>5, <1>6 DEF Standing
<1>8. handles[h].size <= rec.size /\ rec.init = rec.size
  BY <1>3, <1>4, <1>7
<1>9. rec.inUse
  BY <1>1, <1>6 DEF Body, InUseInv
<1>10. OneToOne(rec.map) /\ (~rec.resident => ClustersOf(rec) \subseteq bits)
  BY <1>1, <1>9 DEF Body, MapInv
<1>11. H'.size = handles[h].size
  BY BeginWorks
<1>12. InUseInv'
  BY <1>1, <1>9 DEF InUseInv
<1>13. MapInv'
  BY <1>1, <1>10 DEF MapInv, OneToOne, ClustersOf
<1>14. PlaceInv'
  BY <1>1, <1>8, <1>9, <1>11 DEF PlaceInv
<1>15. ImageInv'
  BY <1>1 DEF ImageInv
<1>16. Refines
  BY <1>1, <1>2, SameContent
<1> QED BY <1>12, <1>13, <1>14, <1>15, <1>16 DEF Body

LEMMA AskBody ==
  ASSUME IInv, Body, Follows', NEW h \in Handle,
         \/ CloseTrim(h)
         \/ \E p \in 0..MaxUnits :
              \/ \E n \in 0..MaxUnits : Extend(h, p, n) \/ Truncate(h, p, n)
              \/ \E n \in 1..MaxWrite : Write(h, p, n)
  PROVE  Body' /\ Refines
<1>1. CASE CloseTrim(h)
  <2>1. Begin(h, "close", 0, 0, "trim") /\ handles' = handles
    BY <1>1 DEF CloseTrim
  <2>2. 0 \in 0..MaxUnits /\ 0 \in Nat
    BY Constants
  <2> QED BY <2>1, <2>2, BeginBody
<1>2. ASSUME NEW p \in 0..MaxUnits, NEW n \in 0..MaxUnits, Extend(h, p, n)
      PROVE  Body' /\ Refines
  <2>1. Begin(h, "resize", p, n, "enter") /\ handles' = SetPosition(h, n)
    BY <1>2 DEF Extend
  <2>2. n \in Nat
    BY Constants
  <2> QED BY <2>1, <2>2, BeginBody
<1>3. ASSUME NEW p \in 0..MaxUnits, NEW n \in 0..MaxUnits, Truncate(h, p, n)
      PROVE  Body' /\ Refines
  <2>1. Begin(h, "resize", p, n, "cut") /\ handles' = SetPosition(h, p)
    BY <1>3 DEF Truncate
  <2>2. n \in Nat
    BY Constants
  <2> QED BY <2>1, <2>2, BeginBody
<1>4. ASSUME NEW p \in 0..MaxUnits, NEW n \in 1..MaxWrite, Write(h, p, n)
      PROVE  Body' /\ Refines
  <2>1. Begin(h, "write", p, n, "enter") /\ handles' = SetPosition(h, p)
    BY <1>4 DEF Write
  <2>2. n \in Nat
    BY Constants
  <2> QED BY <2>1, <2>2, BeginBody
<1> QED BY <1>1, <1>2, <1>3, <1>4

\* Handles come and go, and the answer is given: the file is as it was.
LEMMA HandlesBody ==
  ASSUME IInv, Body, pc # "shrink", pc' \in {"ok", "failed", "idle"}, UNCHANGED <<bits, data, rec>>,
         InUseInv'
  PROVE  Body' /\ Refines
<1>1. Sound(rec)
  BY DEF IInv, DiskInv
<1>2. OneToOne(rec.map) /\ (rec.inUse /\ ~rec.resident => ClustersOf(rec) \subseteq bits)
  BY DEF Body, MapInv
<1>3. Body'
  BY <1>2, RestBody
<1>4. Refines
  BY <1>1, SameContent
<1> QED BY <1>3, <1>4

LEMMA OpenCloseBody ==
  ASSUME IInv, Body, NEW h \in Handle, Open(h) \/ Close(h) \/ DeleteRefused(h)
  PROVE  Body' /\ Refines
<1>1. /\ pc = "idle" /\ pc' = "idle" /\ UNCHANGED <<bits, data, rec>>
      /\ \/ rec.inUse /\ handles' = [handles EXCEPT ![h] = Opened]
         \/ handles' = [handles EXCEPT ![h] = None]
  BY DEF Open, Close, DeleteRefused, MayCall, AtRest, disk
<1>2. handles \in [Handle -> HandleRec \cup {None}]
  BY <1>1, IdleIs
<1>3. InUseInv'
  BY <1>1, <1>2 DEF Body, InUseInv, IsOpen
<1> QED BY <1>1, <1>3, HandlesBody

LEMMA AnswerBody == ASSUME IInv, Body, Answer PROVE Body' /\ Refines
<1>1. /\ pc \in {"ok", "failed"} /\ pc' = "idle" /\ UNCHANGED <<bits, data, rec>>
      /\ handles' = [h \in Handle |-> IF IsOpen(h) THEN [handles[h] EXCEPT !.pos = 0] ELSE None]
  BY DEF Answer, disk
<1>2. \A h \in Handle : IsOpen(h) => handles[h] \in HandleRec
  BY <1>1, IdleIs
<1>3. ASSUME NEW h \in Handle, handles'[h] # None, handles'[h].knows # "nothing" PROVE rec.inUse
  <2>1. IsOpen(h) /\ handles'[h] = [handles[h] EXCEPT !.pos = 0]
    BY <1>1, <1>3
  <2>2. handles'[h].knows = handles[h].knows
    BY <2>1, <1>2 DEF HandleRec
  <2> QED BY <2>1, <2>2, <1>3 DEF Body, InUseInv
<1>4. InUseInv'
  BY <1>1, <1>3 DEF InUseInv, IsOpen
<1> QED BY <1>1, <1>4, HandlesBody

LEMMA CreateBody == ASSUME IInv, Body, NEW h \in Handle, Create(h) PROVE Body' /\ Refines
<1>1. pc = "idle" /\ pc' = "idle" /\ ~rec.inUse /\ rec' = NewFile /\ UNCHANGED <<bits, data>>
  BY DEF Create, MayCall, AtRest, local
<1>2. /\ rec'.inUse /\ rec'.resident /\ rec'.size = 0 /\ rec'.init = 0 /\ rec'.map = << >>
  BY <1>1 DEF NewFile
<1>3. InUseInv'
  BY <1>2 DEF InUseInv
<1>4. OneToOne(rec'.map)
  BY <1>2 DEF OneToOne
<1>5. Body'
  BY <1>1, <1>2, <1>3, <1>4, RestBody
<1>6. Content = None
  BY <1>1, ContentIs
<1>7. Content' = << >>
  <2>1. Content' = StoredIn(data', rec')
    BY <1>1, <1>2, ContentNext
  <2>2. StoredIn(data', rec') = [i \in 1..0 |-> IF i <= rec'.init THEN AtIn(data', rec', i) ELSE Zero]
    BY <1>2 DEF StoredIn
  <2>3. 1..0 = {}
    OBVIOUS
  <2> QED BY <2>1, <2>2, <2>3
<1>8. Refines
  BY <1>6, <1>7 DEF Refines, File!Next, File!Create
<1> QED BY <1>5, <1>8

LEMMA DeleteBody == ASSUME IInv, Body, NEW h \in Handle, Delete(h) PROVE Body' /\ Refines
<1>1. /\ pc = "idle" /\ pc' = "idle" /\ rec.inUse /\ rec' = [rec EXCEPT !.inUse = FALSE]
      /\ handles' = Others(h)
  BY DEF Delete, MayCall, AtRest, local
<1>2. /\ Sound(rec) /\ DiskInv /\ \A g \in Handle : IsOpen(g) => handles[g] \in HandleRec
  BY <1>1, IdleIs
<1>3. ~rec'.inUse /\ rec'.map = rec.map
  <2>1. rec \in FileRec
    BY <1>2, RecordIs
  <2> QED BY <2>1, <1>1 DEF FileRec
<1>4. ASSUME NEW g \in Handle, handles'[g] # None PROVE handles'[g].knows = "nothing"
  <2>1. IsOpen(g) /\ handles'[g] = [handles[g] EXCEPT !.knows = "nothing"]
    BY <1>1, <1>4 DEF Others
  <2> QED BY <2>1, <1>2 DEF HandleRec
<1>5. InUseInv'
  BY <1>4 DEF InUseInv, IsOpen
<1>6. OneToOne(rec'.map)
  BY <1>3 DEF Body, MapInv
<1>7. Body'
  BY <1>1, <1>3, <1>5, <1>6, RestBody
<1>8. Content # None
  <2>1. Content = StoredIn(data, rec)
    BY <1>1, ContentIs
  <2>2. StoredIn(data, rec) \in Seq(Units)
    BY <1>2, StoredIs DEF DiskInv
  <2> QED BY <2>1, <2>2, NoneAssumption
<1>9. Content' = None
  BY <1>3, ContentNext
<1>10. Refines
  BY <1>8, <1>9 DEF Refines, File!Next, File!Remove
<1> QED BY <1>7, <1>10

LEMMA CrashBody == ASSUME IInv, Body, Crash, Follows' PROVE Body' /\ Refines
<1>1. /\ handles' = [h \in Handle |-> None] /\ data' = Spoilt(Cluster \ ClustersOf(rec))
      /\ Hit(IF rec.inUse /\ Dangling THEN {"dangle"} ELSE {})
      /\ pc' = "idle" /\ bits' = bits /\ rec' = rec
  BY DEF Crash
<1>2. Sound(rec)
  BY DEF IInv, DiskInv
<1>3. ~(rec.inUse /\ Dangling)
  BY <1>1 DEF Hit, Follows
<1>4. InUseInv'
  BY <1>1 DEF InUseInv, IsOpen
<1>5. OneToOne(rec.map) /\ (rec.inUse => ClustersOf(rec) \subseteq bits)
  BY <1>3 DEF Body, MapInv, Dangling
<1>6. Body'
  BY <1>1, <1>4, <1>5, RestBody
<1>7. \A c \in ClustersOf(rec) : data'[c] = data[c]
  <2>1. ClustersOf(rec) \subseteq Cluster
    BY <1>2, RecordIs
  <2> QED BY <2>1, <1>1, SpoiltIs
<1>8. Refines
  BY <1>1, <1>2, <1>3, <1>7, SameContent
<1> QED BY <1>6, <1>8

LEMMA StillBody == ASSUME IInv, Body, UNCHANGED vars PROVE Body' /\ Refines
<1>1. UNCHANGED <<bits, data, rec, handles, pc, call, stack, img>>
  BY DEF vars, disk, local
<1>2. H' = H /\ Top' = Top /\ Target' = Target /\ (Writing' <=> Writing) /\ (Cutting' <=> Cutting)
  BY <1>1 DEF H, Top, Target, Writing, Cutting
<1>3. InUseInv'
  BY <1>1 DEF Body, InUseInv, IsOpen
<1>4. MapInv'
  BY <1>1 DEF Body, MapInv, OneToOne, ClustersOf
<1>5. PlaceInv'
  BY <1>1, <1>2 DEF Body, PlaceInv
<1>6. ImageInv'
  BY <1>1, <1>2 DEF Body, ImageInv, AtIn, Place, Begins
<1>7. Refines
  <2>1. Dangling' = Dangling
    BY <1>1 DEF Dangling, ClustersOf
  <2> QED BY <2>1, <1>1 DEF Refines, Content, Stored, At, Place
<1> QED BY <1>3, <1>4, <1>5, <1>6, <1>7 DEF Body

\* What has gone wrong stays gone wrong.
LEMMA TroubleStays == ASSUME [Next]_vars PROVE trouble \subseteq trouble'
<1>1. CASE Step
  BY <1>1 DEF Step, Answer, FillGap, WriteNothing, WriteResident, ConvertAllocate, ConvertRefused,
     ConvertFill, GrowAllocate, GrowRefused, WriteData, WriteRecord, CutNothing, CutRefused,
     CutResident, CutFree, ShrinkRecord, TrimFree, Hit
<1>2. CASE Crash
  BY <1>2 DEF Crash, Hit
<1>3. CASE Over \/ UNCHANGED vars
  BY <1>3 DEF Over, vars
<1>4. ASSUME NEW h \in Handle, Call(h) PROVE trouble \subseteq trouble'
  BY <1>4 DEF Call, Open, Create, Close, CloseTrim, Delete, DeleteRefused, Extend, Truncate, Write,
     Begin, Hit
<1> QED BY <1>1, <1>2, <1>3, <1>4 DEF Next

LEMMA StepBody == ASSUME IInv, IInv', Body, Follows', Step PROVE Body' /\ Refines
<1>1. CASE Answer
  BY <1>1, AnswerBody
<1>2. CASE FillGap
  BY <1>2, FillGapBody
<1>3. CASE WriteNothing
  BY <1>3, WriteNothingBody
<1>4. CASE WriteResident
  BY <1>4, WriteResidentBody
<1>5. CASE ConvertAllocate
  BY <1>5, ConvertAllocateBody
<1>6. CASE ConvertRefused \/ GrowRefused \/ CutRefused
  BY <1>6, RefusedBody
<1>7. CASE ConvertFill
  BY <1>7, ConvertFillBody
<1>8. CASE GrowAllocate
  BY <1>8, GrowAllocateBody
<1>9. CASE WriteData
  BY <1>9, WriteDataBody
<1>10. CASE WriteRecord
  BY <1>10, WriteRecordBody
<1>11. CASE CutNothing
  BY <1>11, CutNothingBody
<1>12. CASE CutResident
  BY <1>12, CutResidentBody
<1>13. CASE CutFree
  BY <1>13, CutFreeBody
<1>14. CASE ShrinkRecord
  BY <1>14, ShrinkRecordBody
<1>15. CASE TrimFree
  BY <1>15, TrimFreeBody
<1> QED BY <1>1, <1>2, <1>3, <1>4, <1>5, <1>6, <1>7, <1>8, <1>9, <1>10, <1>11, <1>12,
           <1>13, <1>14, <1>15 DEF Step

LEMMA NextBody == ASSUME IInv, IInv', Body, Follows', [Next]_vars PROVE Body' /\ Refines
<1>1. CASE Step
  BY <1>1, StepBody
<1>2. CASE Crash
  BY <1>2, CrashBody
<1>3. CASE Over \/ UNCHANGED vars
  BY <1>3, StillBody DEF Over
<1>4. ASSUME NEW h \in Handle, Call(h) PROVE Body' /\ Refines
  <2>1. CASE Open(h) \/ Close(h) \/ DeleteRefused(h)
    BY <2>1, OpenCloseBody
  <2>2. CASE Create(h)
    BY <2>2, CreateBody
  <2>3. CASE Delete(h)
    BY <2>3, DeleteBody
  <2>4. CASE \/ CloseTrim(h)
             \/ \E p \in 0..MaxUnits :
                  \/ \E n \in 0..MaxUnits : Extend(h, p, n) \/ Truncate(h, p, n)
                  \/ \E n \in 1..MaxWrite : Write(h, p, n)
    BY <2>4, AskBody
  <2> QED BY <1>4, <2>1, <2>2, <2>3, <2>4 DEF Call
<1> QED BY <1>1, <1>2, <1>3, <1>4 DEF Next

LEMMA ContentInit == ASSUME MappedOnce, Init PROVE ContentInv
<1>1. /\ rec \in Files /\ bits = ClustersOf(rec) /\ pc = "idle" /\ handles = [h \in Handle |-> None]
  BY DEF Init
<1>2. InUseInv
  BY <1>1 DEF InUseInv, IsOpen
<1>3. MapInv
  BY <1>1 DEF MapInv, MappedOnce, OneToOne
<1>4. PlaceInv /\ ImageInv
  BY <1>1 DEF PlaceInv, ImageInv, Writing, Cutting
<1> QED BY <1>2, <1>3, <1>4 DEF ContentInv, Body

LEMMA ContentStep ==
  ASSUME IInv, IInv', ContentInv, [Next]_vars
  PROVE  ContentInv' /\ (Follows' => Refines)
<1>1. ASSUME Follows' PROVE Body' /\ Refines
  <2>1. Follows
    BY <1>1, TroubleStays DEF Follows
  <2> QED BY <1>1, <2>1, NextBody DEF ContentInv
<1> QED BY <1>1 DEF ContentInv

\* The file implements FileContent: until a call meets what ImplementsFile names,
\* each step of a write, of a cut, of a failure or a loss of power in the middle
\* of one changes the content by a put, by a cut, or not at all.
THEOREM FileImplemented == MappedOnce => (Spec => ImplementsFile)
<1> SUFFICES ASSUME MappedOnce PROVE Spec => ImplementsFile
  OBVIOUS
<1>1. Init => ContentInv
  BY ContentInit
<1>2. IInv /\ IInv' /\ ContentInv /\ [Next]_vars => ContentInv'
  BY ContentStep
<1>3. IInv /\ IInv' /\ ContentInv /\ [Next]_vars =>
        [trouble' \subseteq {"behind"} => File!Next \/ UNCHANGED Content]_vars
  BY ContentStep DEF Follows, Refines
<1>4. Spec => []ContentInv
  BY <1>1, <1>2, Inductive, PTL DEF Spec
<1> QED BY <1>3, <1>4, Inductive, PTL DEF Spec, ImplementsFile

(***************************************************************************)
(* What a call does, of what it was asked to do                            *)
(***************************************************************************)

\* Unit i of the content that the call found, and of zeros beyond.
Old(i) == IF i <= Len(before) THEN before[i] ELSE Zero

\* While nothing goes wrong, the handle has the file's size.  The file is what
\* the call found, with zeros as far as the gap has been filled, but for data
\* that is on the disk and not yet in the record.
WorkInv ==
  Writing =>
    /\ before \in Seq(Units) /\ Len(before) <= rec.size
    /\ rec.size <= Larger(Len(before), Base(1))
    /\ H.size = rec.size /\ Len(stack) <= 2
    /\ Len(stack) = 2 => H.pos = rec.size /\ Top.val = Zero
    /\ call.kind = "write" => /\ call.len > 0 /\ Base(1) = call.at
                              /\ stack[1].val = Data /\ stack[1].len = call.len
    /\ call.kind = "resize" =>
         /\ Len(before) <= call.len
         /\ Len(stack) = 1 => IF pc = "enter" THEN rec.size < H.pos ELSE H.pos = rec.size
    /\ \A i \in 1..rec.size :
         \/ AtIn(data, rec, i) = Old(i)
         \/ pc = "record" /\ i > H.pos /\ AtIn(data, rec, i) = Top.val

\* A cut keeps the beginning of what it found, in the image when the record no
\* longer says so.
CutInv ==
  Cutting /\ call.kind = "resize" =>
    /\ before \in Seq(Units) /\ Len(before) = rec.size /\ call.len <= rec.size
    /\ H.pos = call.at
    /\ pc = "cut" \/ ~Dangling => \A i \in 1..rec.size : AtIn(data, rec, i) = before[i]
    /\ pc = "shrink" => \A i \in 1..call.len : AtIn(data, img, i) = before[i]

AskBodyInv == WorkInv /\ CutInv /\ DoesAsAsked
AskInv == trouble = {} => AskBodyInv

\* The content that a call was asked for, unit by unit.
LEMMA AskedIs ==
  ASSUME before \in Seq(Units), call.at \in Nat, call.len \in Nat
  PROVE  /\ call.kind = "resize" =>
              /\ AskedFor = [i \in 1..call.len |-> Old(i)] /\ Len(AskedFor) = call.len
         /\ call.kind = "write" =>
              /\ AskedFor = [i \in 1..Larger(Len(before), call.at + call.len) |->
                               IF i \in (call.at + 1)..(call.at + call.len) THEN Data ELSE Old(i)]
              /\ Len(AskedFor) = Larger(Len(before), call.at + call.len)
         /\ \A i \in Nat \ {0} : Padded(before, i)[i] = Old(i)
         /\ \A i \in Nat \ {0} :
              Padded(AskedFor, i)[i] = IF i <= Len(AskedFor) THEN AskedFor[i] ELSE Zero
<1>1. Len(before) \in Nat
  OBVIOUS
<1>2. ASSUME call.kind = "resize"
      PROVE  AskedFor = [i \in 1..call.len |-> Old(i)] /\ Len(AskedFor) = call.len
  <2>1. AskedFor = [i \in 1..call.len |-> Old(i)]
    BY <1>2 DEF AskedFor, Padded, Old
  <2>2. Len([i \in 1..call.len |-> Old(i)]) = call.len
    OBVIOUS
  <2> QED BY <2>1, <2>2
<1>3. ASSUME call.kind = "write"
      PROVE  /\ AskedFor = [i \in 1..Larger(Len(before), call.at + call.len) |->
                              IF i \in (call.at + 1)..(call.at + call.len) THEN Data ELSE Old(i)]
             /\ Len(AskedFor) = Larger(Len(before), call.at + call.len)
  <2>1. call.kind # "resize"
    BY <1>3
  <2> DEFINE n == Larger(Len(before), call.at + call.len)
             f == [i \in 1..n |->
                     IF i \in (call.at + 1)..(call.at + call.len) THEN Data ELSE Old(i)]
  <2>2. AskedFor = f
    BY <2>1 DEF AskedFor, Splice, Old
  <2>3. n \in Nat
    BY <1>1 DEF Larger
  <2> HIDE DEF n
  <2>4. Len(f) = n
    BY <2>3
  <2> QED BY <2>2, <2>4 DEF n
<1>4. ASSUME NEW i \in Nat \ {0}
      PROVE  /\ Padded(before, i)[i] = Old(i)
             /\ Padded(AskedFor, i)[i] = IF i <= Len(AskedFor) THEN AskedFor[i] ELSE Zero
  <2>1. i \in 1..i
    BY <1>4
  <2>2. \A s : Padded(s, i)[i] = IF i <= Len(s) THEN s[i] ELSE Zero
    BY <2>1 DEF Padded
  <2> QED BY <2>2 DEF Old
<1> QED BY <1>2, <1>3, <1>4

LEMMA SameAsked ==
  ASSUME call' = call, before' = before
  PROVE  AskedFor' = AskedFor /\ \A i : Old(i)' = Old(i)
BY DEF AskedFor, Old, Padded, Splice, Larger

\* A call that has ended well.
LEMMA DoneOk ==
  ASSUME before \in Seq(Units), call.at \in Nat, call.len \in Nat, call' = call, before' = before,
         pc' = "ok", NEW t \in Seq(Units), Content' = t,
         call.kind = "resize" => /\ Len(t) = call.len /\ \A i \in 1..Len(t) : t[i] = Old(i)
                                 /\ H'.pos = Smaller(call.at, call.len),
         call.kind = "write" => /\ Len(t) = Larger(Len(before), call.at + call.len)
                                /\ \A i \in 1..Len(t) : t[i] =
                                     IF i \in (call.at + 1)..(call.at + call.len) THEN Data ELSE Old(i)
                                /\ H'.pos = call.at + call.len
  PROVE  AskBodyInv'
<1>1. ~Writing' /\ ~Cutting'
  BY DEF Writing, Cutting
<1>2. WorkInv' /\ CutInv'
  BY <1>1 DEF WorkInv, CutInv
<1>3. AskedFor' = AskedFor
  BY SameAsked
<1>4. t = [i \in 1..Len(t) |-> t[i]]
  OBVIOUS
<1>5. ASSUME call.kind = "resize" PROVE t = AskedFor
  <2>1. AskedFor = [i \in 1..call.len |-> Old(i)]
    BY <1>5, AskedIs
  <2> QED BY <2>1, <1>4, <1>5
<1>6. ASSUME call.kind = "write" PROVE t = AskedFor
  <2> DEFINE u(i) == IF i \in (call.at + 1)..(call.at + call.len) THEN Data ELSE Old(i)
  <2>1. AskedFor = [i \in 1..Larger(Len(before), call.at + call.len) |-> u(i)]
    BY <1>6, AskedIs
  <2>2. Len(t) = Larger(Len(before), call.at + call.len) /\ \A i \in 1..Len(t) : t[i] = u(i)
    BY <1>6
  <2> HIDE DEF u
  <2> QED BY <2>1, <2>2, <1>4
<1>7. DoesAsAsked'
  <2>1. ASSUME call.kind \in {"write", "resize"}
        PROVE  /\ Content' = AskedFor'
               /\ H'.pos = IF call.kind = "write" THEN call.at + call.len ELSE Smaller(call.at, call.len)
    BY <2>1, <1>3, <1>5, <1>6
  <2>2. pc' # "failed"
    OBVIOUS
  <2> QED BY <2>1, <2>2 DEF DoesAsAsked, Smaller
<1> QED BY <1>2, <1>7 DEF AskBodyInv

\* A call that has failed.
LEMMA DoneFailed ==
  ASSUME before \in Seq(Units), call.at \in Nat, call.len \in Nat, call' = call, before' = before,
         pc' = "failed", NEW t \in Seq(Units), Content' = t, Len(before) <= Len(t),
         call.kind = "resize" => /\ Len(t) <= Larger(Len(before), call.len)
                                 /\ \A i \in 1..Len(t) : t[i] = Old(i),
         call.kind = "write" => /\ Len(t) <= Larger(Len(before), call.at + call.len)
                                /\ \A i \in 1..Len(t) : t[i] = Old(i) \/
                                     (t[i] = Data /\ i \in (call.at + 1)..(call.at + call.len)),
         H'.pos \in call.at..(call.at + call.len)
  PROVE  AskBodyInv'
<1>1. ~Writing' /\ ~Cutting'
  BY DEF Writing, Cutting
<1>2. WorkInv' /\ CutInv'
  BY <1>1 DEF WorkInv, CutInv
<1>3. AskedFor' = AskedFor
  BY SameAsked
<1>4. Len(before) \in Nat /\ Len(t) \in Nat
  OBVIOUS
<1>5. ASSUME call.kind \in {"write", "resize"}
      PROVE  /\ Len(t) \in Len(before)..Larger(Len(before), Len(AskedFor))
             /\ \A i \in 1..Len(t) : t[i] \in {Padded(before, i)[i], Padded(AskedFor, i)[i]}
  <2>1. CASE call.kind = "resize"
    <3>1. Len(AskedFor) = call.len
      BY <2>1, AskedIs
    <3>2. Larger(Len(before), call.len) \in Nat
      BY <1>4 DEF Larger
    <3>3. Len(t) \in Len(before)..Larger(Len(before), Len(AskedFor))
      BY <2>1, <3>1, <3>2, <1>4
    <3>4. \A i \in 1..Len(t) : t[i] = Padded(before, i)[i]
      BY <2>1, <1>4, AskedIs
    <3> QED BY <3>3, <3>4
  <2>2. CASE call.kind = "write"
    <3>1. /\ Len(AskedFor) = Larger(Len(before), call.at + call.len)
          /\ AskedFor = [i \in 1..Larger(Len(before), call.at + call.len) |->
                           IF i \in (call.at + 1)..(call.at + call.len) THEN Data ELSE Old(i)]
      BY <2>2, AskedIs
    <3>2. PICK n : n = Larger(Len(before), call.at + call.len)
      OBVIOUS
    <3>3. n \in Nat /\ call.at + call.len <= n /\ Len(before) <= n /\ Larger(Len(before), n) = n
      BY <3>2, <1>4 DEF Larger
    <3>4. Len(t) \in Len(before)..Larger(Len(before), Len(AskedFor))
      BY <2>2, <3>1, <3>2, <3>3, <1>4
    <3>5. ASSUME NEW i \in 1..Len(t) PROVE t[i] \in {Padded(before, i)[i], Padded(AskedFor, i)[i]}
      <4>1. i \in Nat \ {0}
        BY <1>4
      <4>2. /\ Padded(before, i)[i] = Old(i)
            /\ Padded(AskedFor, i)[i] = IF i <= Len(AskedFor) THEN AskedFor[i] ELSE Zero
        BY <4>1, AskedIs
      <4>3. ASSUME i \in (call.at + 1)..(call.at + call.len) PROVE Padded(AskedFor, i)[i] = Data
        <5>1. i \in 1..n
          BY <4>1, <4>3, <3>3
        <5>2. AskedFor[i] = Data
          BY <5>1, <4>3, <3>1, <3>2
        <5> QED BY <5>1, <5>2, <4>2, <3>1, <3>2
      <4> QED BY <4>2, <4>3, <2>2
    <3> QED BY <3>4, <3>5
  <2> QED BY <1>5, <2>1, <2>2
<1>6. DoesAsAsked'
  <2>1. ASSUME call.kind \in {"write", "resize"}
        PROVE  /\ Len(Content') \in Len(before')..Larger(Len(before'), Len(AskedFor'))
               /\ \A i \in 1..Len(Content') :
                    Content'[i] \in {Padded(before', i)[i], Padded(AskedFor', i)[i]}
               /\ H'.pos \in call'.at..(call'.at + call'.len)
    BY <2>1, <1>3, <1>5
  <2>2. pc' # "ok"
    OBVIOUS
  <2> QED BY <2>1, <2>2 DEF DoesAsAsked, Padded, Larger
<1> QED BY <1>2, <1>6 DEF AskBodyInv

\* No call is asked anything at rest.
LEMMA RestAsked == ASSUME pc' = "idle" PROVE AskBodyInv'
BY DEF AskBodyInv, WorkInv, CutInv, DoesAsAsked, Writing, Cutting

\* The running write, and the content that it found.
LEMMA WorkIs ==
  ASSUME LocalInv, WorkInv, Writing
  PROVE  /\ before \in Seq(Units) /\ Len(before) \in Nat /\ Len(before) <= rec.size
         /\ rec.size <= Larger(Len(before), Base(1)) /\ H.size = rec.size
         /\ call.kind \in {"write", "resize"} /\ call.at \in Nat /\ call.len \in Nat
         /\ Len(stack) \in {1, 2}
         /\ Len(stack) = 1 => Base(1) = H.pos /\ Top = stack[1]
         /\ Len(stack) = 2 => /\ Base(1) = stack[1].goal /\ Top = stack[2] /\ Top.len > 0
                              /\ stack[1].gap \in Nat /\ H.pos + stack[1].gap = stack[1].goal
                              /\ Top.len <= stack[1].gap /\ H.pos = rec.size /\ Top.val = Zero
         /\ call.kind = "write" => /\ call.len > 0 /\ Base(1) = call.at
                                   /\ stack[1].val = Data /\ stack[1].len = call.len
         /\ call.kind = "resize" =>
              /\ stack[1].len = 0 /\ Base(1) = call.len /\ Len(before) <= call.len
              /\ Len(stack) = 1 => IF pc = "enter" THEN rec.size < H.pos ELSE H.pos = rec.size
<1>1. call.at \in Nat /\ call.len \in Nat
  BY CallerIs
<1>2. /\ stack \in Seq(FrameRec) /\ Len(stack) \in Nat /\ Len(stack) >= 1
  BY TopIs
<1>3. /\ \A i \in 1..(Len(stack) - 1) :
           /\ Base(i + 1) + stack[i].gap = stack[i].goal
           /\ 0 < stack[i + 1].len /\ stack[i + 1].len <= stack[i].gap
      /\ call.kind = "resize" => stack[1].len = 0 /\ Base(1) = call.len
      /\ call.kind \in {"write", "resize"}
  BY DEF LocalInv, StackInv
<1>4. Len(stack) \in {1, 2}
  <2>1. Len(stack) <= 2
    BY DEF WorkInv
  <2>2. PICK n \in Nat : n = Len(stack) /\ n >= 1
    BY <1>2
  <2>3. n = 1 \/ n = 2
    BY <2>1, <2>2
  <2> QED BY <2>2, <2>3
<1>5. /\ before \in Seq(Units) /\ Len(before) <= rec.size
      /\ rec.size <= Larger(Len(before), Base(1)) /\ H.size = rec.size
      /\ Len(stack) = 2 => H.pos = rec.size /\ Top.val = Zero
      /\ call.kind = "write" => /\ call.len > 0 /\ Base(1) = call.at
                                /\ stack[1].val = Data /\ stack[1].len = call.len
      /\ call.kind = "resize" =>
           /\ Len(before) <= call.len
           /\ Len(stack) = 1 => IF pc = "enter" THEN rec.size < H.pos ELSE H.pos = rec.size
  BY DEF WorkInv
<1>6. Len(stack) = 1 => Base(1) = H.pos /\ Top = stack[1]
  BY DEF Base, Top
<1>7. ASSUME Len(stack) = 2
      PROVE  /\ Base(1) = stack[1].goal /\ Top = stack[2] /\ Top.len > 0 /\ stack[1].gap \in Nat
             /\ H.pos + stack[1].gap = stack[1].goal /\ Top.len <= stack[1].gap
  <2>1. 1 \in 1..(Len(stack) - 1) /\ 1 + 1 = 2 /\ 1 \in 1..Len(stack) /\ 1 # Len(stack)
    BY <1>7
  <2>2. Base(2) + stack[1].gap = stack[1].goal /\ 0 < stack[2].len /\ stack[2].len <= stack[1].gap
    BY <1>3, <2>1
  <2>3. Base(1) = stack[1].goal /\ Base(2) = H.pos /\ Top = stack[2]
    BY <1>7, <2>1 DEF Base, Top
  <2>4. stack[1] \in FrameRec /\ stack[2] \in FrameRec
    BY <1>2, <1>7
  <2>5. stack[1].gap \in Nat /\ stack[2].len \in Nat
    BY <2>4 DEF FrameRec
  <2> QED BY <2>2, <2>3, <2>5
<1>8. Len(before) \in Nat
  BY <1>5
<1> QED BY <1>1, <1>3, <1>4, <1>5, <1>6, <1>7, <1>8

\* One more element.
LEMMA AppendIs ==
  ASSUME NEW S, NEW r \in Seq(S), NEW f \in S, NEW n \in Nat, Len(r) = n, NEW g, g = Append(r, f)
  PROVE  Len(g) = n + 1 /\ g[n + 1] = f /\ \A i \in 1..n : g[i] = r[i]
OBVIOUS

\* A write that has done its work ends the call, or leaves the one below it, of
\* which a chunk less is to be filled.
LEMMA FinishGoes ==
  ASSUME LocalInv, WorkInv, Writing, NEW new \in HandleRec, NEW resized, Finish(new, resized),
         new.pos = Target
  PROVE  /\ call' = call /\ before' = before
         /\ Len(stack) = 1 =>
              pc' = "ok" /\ H' = IF call.kind = "resize" THEN Resized(new) ELSE new
         /\ Len(stack) = 2 =>
              /\ pc' \in {"put", "enter"} /\ H'.size = new.size /\ H'.pos = Target
              /\ Len(stack') = IF pc' = "put" THEN 1 ELSE 2
              /\ stack'[1].val = stack[1].val /\ stack'[1].len = stack[1].len
              /\ Base(1)' = Base(1) /\ Target <= Base(1)
              /\ pc' = "enter" => Top'.val = Zero
<1>1. /\ Len(stack) \in {1, 2} /\ H.pos \in Nat /\ Top.len \in Nat /\ Target = H.pos + Top.len
      /\ stack \in Seq(FrameRec) /\ call.h \in Handle
  BY WorkIs, TopIs, CallerIs
<1>2. CASE Len(stack) = 1
  <2> DEFINE end == IF call.kind = "resize" THEN Resized(new) ELSE new
  <2>1. Become(end, resized) /\ Return("ok")
    BY <1>2 DEF Finish
  <2> HIDE DEF end
  <2>2. pc' = "ok" /\ call' = call /\ before' = before
    BY <2>1 DEF Return
  <2>3. H' = end
    BY <2>1, <2>2, <1>1 DEF Become, H
  <2> QED BY <2>2, <2>3, <1>2 DEF end
<1>3. CASE Len(stack) = 2
  <2> DEFINE up   == stack[1]
             left == up.gap - Top.len
             down == [up EXCEPT !.gap = left]
             next == Frame(Zero, Smaller(Chunk, left))
             end  == IF left = 0 THEN [new EXCEPT !.pos = up.goal] ELSE new
  <2>1. /\ Base(1) = up.goal /\ Top = stack[2] /\ up.gap \in Nat /\ H.pos + up.gap = up.goal
        /\ Top.len <= up.gap
    BY <1>3, WorkIs
  <2>2. /\ Become(end, resized) /\ call' = call /\ before' = before
        /\ stack' = IF left = 0 THEN SubSeq(stack, 1, 0) \o <<down>>
                    ELSE Append(SubSeq(stack, 1, 0) \o <<down>>, next)
        /\ pc' = IF left = 0 THEN "put" ELSE "enter"
    BY <1>3 DEF Finish
  <2>3. up \in FrameRec
    <3>1. 1 \in 1..Len(stack)
      BY <1>3
    <3> QED BY <3>1, <1>1
  <2>4. down \in FrameRec /\ next \in FrameRec
    <3>1. left \in Nat
      BY <1>1, <2>1
    <3> QED BY <3>1, <2>3, Constants DEF Frame, FrameRec, Smaller
  <2>5. /\ left = 0 => Len(stack') = 1 /\ stack'[1] = down
        /\ left # 0 => Len(stack') = 2 /\ stack'[1] = down /\ stack'[2] = next
    <3> HIDE DEF down, next, left
    <3>1. SubSeq(stack, 1, 0) \in Seq(FrameRec) /\ Len(SubSeq(stack, 1, 0)) = 0
      BY <1>1
    <3>2. PICK low : low = SubSeq(stack, 1, 0)
      OBVIOUS
    <3>3. PICK rest : rest = low \o <<down>>
      OBVIOUS
    <3>4. rest \in Seq(FrameRec) /\ Len(rest) = 1 /\ rest[1] = down
      BY <2>4, <3>1, <3>2, <3>3
    <3>5. Len(Append(rest, next)) = 2 /\ Append(rest, next)[1] = down /\ Append(rest, next)[2] = next
      <4>1. PICK f, g : f = next /\ g = Append(rest, next)
        OBVIOUS
      <4>2. PICK n \in Nat : n = Len(rest) /\ n = 1 /\ n + 1 = 2
        BY <3>4
      <4>3. g = Append(rest, f) /\ f \in FrameRec
        BY <2>4, <4>1
      <4>4. Len(g) = n + 1 /\ g[n + 1] = f /\ \A i \in 1..n : g[i] = rest[i]
        <5>1. rest \in Seq(FrameRec) /\ Len(rest) = n
          BY <3>4, <4>2
        <5> QED BY <5>1, <4>2, <4>3, AppendIs
      <4>5. 1 \in 1..n
        BY <4>2
      <4> QED BY <4>1, <4>2, <4>4, <4>5, <3>4
    <3> QED BY <2>2, <3>2, <3>3, <3>4, <3>5
  <2>6. down.val = up.val /\ down.len = up.len /\ down.goal = up.goal /\ next.val = Zero
    BY <2>3 DEF FrameRec, Frame
  <2>7. end.size = new.size /\ end.pos = Target
    BY <1>1, <2>1 DEF HandleRec
  <2>8. Target <= Base(1)
    BY <1>1, <2>1
  <2> HIDE DEF down, next, end
  <2>9. H' = end
    BY <2>2, <1>1 DEF Become, H
  <2>10. CASE left = 0
    <3>1. pc' = "put"
      BY <2>2, <2>10
    <3>2. Len(stack') = 1 /\ stack'[1] = down
      BY <2>5, <2>10
    <3>3. Base(1)' = H'.pos
      BY <3>2 DEF Base
    <3>4. Base(1)' = Base(1)
      BY <3>3, <2>1, <2>7, <2>9, <2>10, <1>1
    <3> QED BY <3>1, <3>2, <3>4, <2>2, <2>6, <2>7, <2>8, <2>9, <1>3
  <2>11. CASE left # 0
    <3>1. pc' = "enter"
      BY <2>2, <2>11
    <3>2. Len(stack') = 2 /\ stack'[1] = down /\ stack'[2] = next
      BY <2>5, <2>11
    <3>3. Base(1)' = stack'[1].goal /\ Top' = next
      BY <3>2 DEF Base, Top
    <3> QED BY <3>1, <3>2, <3>3, <2>1, <2>2, <2>6, <2>7, <2>8, <2>9, <1>3
  <2> QED BY <2>10, <2>11
<1> QED BY <1>1, <1>2, <1>3

\* The unit is there, whether the call found it or a gap has been filled.
LEMMA OldStays ==
  ASSUME call' = call, before' = before, pc' \in {"put", "enter"}, Len(stack') <= 2,
         before \in Seq(Units), Len(before) <= rec'.size,
         rec'.size <= Larger(Len(before), Base(1)'), H'.size = rec'.size,
         Len(stack') = 2 => H'.pos = rec'.size /\ Top'.val = Zero,
         call.kind = "write" => /\ call.len > 0 /\ Base(1)' = call.at
                                /\ stack'[1].val = Data /\ stack'[1].len = call.len,
         call.kind = "resize" =>
           /\ Len(before) <= call.len
           /\ Len(stack') = 1 => IF pc' = "enter" THEN rec'.size < H'.pos ELSE H'.pos = rec'.size,
         \A i \in 1..rec'.size : AtIn(data', rec', i) = Old(i)
  PROVE  AskBodyInv'
<1>1. \A i : Old(i)' = Old(i)
  BY SameAsked
<1>2. \A i \in 1..rec'.size : AtIn(data, rec, i)' = Old(i)'
  BY <1>1 DEF AtIn, Place
<1>3. WorkInv'
  BY <1>2 DEF WorkInv, Larger
<1>4. CutInv' /\ DoesAsAsked'
  BY DEF CutInv, Cutting, DoesAsAsked
<1> QED BY <1>3, <1>4 DEF AskBodyInv

\* A write that has put its data, in all of the file that it found.
LEMMA PutDone ==
  ASSUME LocalInv, WorkInv, Writing, H.pos <= rec.size, Sound(rec), Sound(rec'),
         NEW new \in HandleRec, NEW resized, Finish(new, resized),
         new.pos = Target, new.size = rec'.size, rec'.inUse, rec'.init = rec'.size,
         data' \in [Cluster -> [1..PerCluster -> Units]], rec'.size = Larger(rec.size, Target),
         \A i \in 1..rec'.size :
           AtIn(data', rec', i) = IF i \in (H.pos + 1)..Target THEN Top.val ELSE Old(i)
  PROVE  AskBodyInv'
<1>1. /\ before \in Seq(Units) /\ Len(before) \in Nat /\ Len(before) <= rec.size
      /\ rec.size <= Larger(Len(before), Base(1))
      /\ call.kind \in {"write", "resize"} /\ call.at \in Nat /\ call.len \in Nat
      /\ Len(stack) \in {1, 2}
  BY WorkIs
<1>2. /\ H.pos \in Nat /\ Top.len \in Nat /\ Target = H.pos + Top.len /\ rec.size \in Nat
      /\ rec'.size \in Nat
  BY TopIs, RecordIs
<1>3. call' = call /\ before' = before
  BY FinishGoes
<1>4. CASE Len(stack) = 1
  <2>1. pc' = "ok" /\ H' = IF call.kind = "resize" THEN Resized(new) ELSE new
    BY <1>4, FinishGoes
  <2>2. Base(1) = H.pos /\ Top = stack[1]
    BY <1>4, WorkIs
  <2>3. PICK t : t = StoredIn(data', rec')
    OBVIOUS
  <2>4. Content' = t
    BY <2>1, <2>3, ContentNext
  <2>5. t \in Seq(Units) /\ Len(t) = rec'.size /\ \A i \in 1..rec'.size : t[i] = AtIn(data', rec', i)
    BY <2>3, WholeIs
  <2>6. ASSUME call.kind = "resize"
        PROVE  /\ Len(t) = call.len /\ \A i \in 1..Len(t) : t[i] = Old(i)
               /\ H'.pos = Smaller(call.at, call.len)
    <3>1. /\ stack[1].len = 0 /\ Base(1) = call.len
          /\ IF pc = "enter" THEN rec.size < H.pos ELSE H.pos = rec.size
      BY <1>4, <2>6, WorkIs
    <3>2. Target = H.pos /\ H.pos = rec.size /\ rec.size = call.len
      BY <3>1, <2>2, <1>2
    <3>3. rec'.size = call.len
      BY <3>2, <1>1 DEF Larger
    <3>4. ASSUME NEW i \in 1..rec'.size PROVE i \notin (H.pos + 1)..Target
      BY <3>2, <1>2
    <3>5. H'.pos = Smaller(call.at, call.len)
      BY <2>1, <2>6 DEF Resized, HandleRec
    <3> QED BY <2>5, <3>3, <3>4, <3>5
  <2>7. ASSUME call.kind = "write"
        PROVE  /\ Len(t) = Larger(Len(before), call.at + call.len)
               /\ \A i \in 1..Len(t) : t[i] =
                    IF i \in (call.at + 1)..(call.at + call.len) THEN Data ELSE Old(i)
               /\ H'.pos = call.at + call.len
    <3>1. Base(1) = call.at /\ stack[1].val = Data /\ stack[1].len = call.len
      BY <2>7, WorkIs
    <3>2. H.pos = call.at /\ Top.val = Data /\ Target = call.at + call.len
      BY <3>1, <2>2, <1>2
    <3>3. rec'.size = Larger(Len(before), call.at + call.len)
      BY <3>2, <2>2, <1>1, <1>2 DEF Larger
    <3>4. H'.pos = call.at + call.len
      BY <2>1, <2>7, <3>2
    <3> QED BY <2>5, <3>2, <3>3, <3>4
  <2> QED BY <2>1, <2>4, <2>5, <2>6, <2>7, <1>1, <1>3, DoneOk
<1>5. CASE Len(stack) = 2
  <2>1. /\ pc' \in {"put", "enter"} /\ H'.size = new.size /\ H'.pos = Target
        /\ Len(stack') = IF pc' = "put" THEN 1 ELSE 2
        /\ stack'[1].val = stack[1].val /\ stack'[1].len = stack[1].len
        /\ Base(1)' = Base(1) /\ Target <= Base(1)
        /\ pc' = "enter" => Top'.val = Zero
    BY <1>5, FinishGoes
  <2>2. H.pos = rec.size /\ Top.val = Zero
    BY <1>5, WorkIs
  <2>3. /\ call.kind = "write" => /\ call.len > 0 /\ Base(1) = call.at
                                  /\ stack[1].val = Data /\ stack[1].len = call.len
        /\ call.kind = "resize" => Len(before) <= call.len
    BY WorkIs
  <2>4. rec'.size = Target
    BY <2>2, <1>2 DEF Larger
  <2>5. rec.size <= Target
    BY <2>2, <1>2
  <2>6. Len(before) <= rec'.size
    BY <2>4, <2>5, <1>1, <1>2
  <2>7. rec'.size <= Larger(Len(before), Base(1)')
    <3>1. Base(1) \in Nat
      BY <1>2, <1>5, WorkIs
    <3>2. PICK b, n, m : b = Base(1) /\ n = Len(before) /\ m = Target
      OBVIOUS
    <3>3. n \in Nat /\ b \in Nat /\ m \in Nat /\ m <= b
      BY <2>1, <3>1, <3>2, <1>1, <1>2
    <3>4. m <= Larger(n, b)
      BY <3>3 DEF Larger
    <3>5. Base(1)' = b /\ rec'.size = m
      BY <2>1, <2>4, <3>2
    <3> QED BY <3>2, <3>4, <3>5
  <2>8. ASSUME NEW i \in 1..rec'.size PROVE AtIn(data', rec', i) = Old(i)
    <3>1. CASE i \in (H.pos + 1)..Target
      <4>1. AtIn(data', rec', i) = Zero
        BY <3>1, <2>2
      <4>2. ~(i <= Len(before))
        BY <3>1, <2>2, <1>1, <1>2
      <4> QED BY <4>1, <4>2 DEF Old
    <3>2. CASE i \notin (H.pos + 1)..Target
      BY <3>2
    <3> QED BY <3>1, <3>2
  <2> QED BY <2>1, <2>3, <2>4, <2>6, <2>7, <2>8, <1>1, <1>3, OldStays
<1> QED BY <1>1, <1>4, <1>5

\* A write that is refused, or has written some of its data over the file's.
LEMMA FailDone ==
  ASSUME LocalInv, WorkInv, Writing, Sound(rec), rec' = rec, rec.inUse, rec.init = rec.size,
         NEW new \in HandleRec, NEW resized, Fail(new, resized), new.pos \in H.pos..Target,
         data' \in [Cluster -> [1..PerCluster -> Units]],
         \A i \in 1..rec.size : \/ AtIn(data', rec, i) = Old(i)
                                \/ i \in (H.pos + 1)..Target /\ AtIn(data', rec, i) = Top.val
  PROVE  AskBodyInv'
<1>1. /\ before \in Seq(Units) /\ Len(before) \in Nat /\ Len(before) <= rec.size
      /\ rec.size <= Larger(Len(before), Base(1))
      /\ call.kind \in {"write", "resize"} /\ call.at \in Nat /\ call.len \in Nat
      /\ Len(stack) \in {1, 2}
  BY WorkIs
<1>2. /\ H.pos \in Nat /\ Top.len \in Nat /\ Target = H.pos + Top.len /\ rec.size \in Nat
      /\ call.h \in Handle
  BY TopIs, RecordIs, CallerIs
<1>3. /\ Len(stack) = 1 => Base(1) = H.pos /\ Top = stack[1]
      /\ Len(stack) = 2 => Base(1) = stack[1].goal /\ H.pos = rec.size
      /\ call.kind = "write" => Base(1) = call.at /\ stack[1].val = Data /\ stack[1].len = call.len
      /\ call.kind = "resize" => stack[1].len = 0 /\ Base(1) = call.len /\ Len(before) <= call.len
  BY WorkIs
<1> DEFINE back == IF call.kind = "resize" THEN call.at
                   ELSE IF Len(stack) > 1 THEN stack[1].goal ELSE new.pos
           end  == [new EXCEPT !.pos = back]
<1>4. Become(end, resized) /\ Return("failed")
  BY DEF Fail
<1>5. end.pos = back
  BY DEF HandleRec
<1> HIDE DEF end
<1>6. pc' = "failed" /\ call' = call /\ before' = before /\ H' = end
  BY <1>2, <1>4 DEF Become, H, Return
<1>7. PICK t : t = StoredIn(data', rec)
  OBVIOUS
<1>8. Content' = t
  BY <1>6, <1>7, ContentNext
<1>9. t \in Seq(Units) /\ Len(t) = rec.size /\ \A i \in 1..rec.size : t[i] = AtIn(data', rec, i)
  BY <1>7, WholeIs
<1>10. ASSUME call.kind = "resize"
       PROVE  /\ Len(t) <= Larger(Len(before), call.len) /\ \A i \in 1..Len(t) : t[i] = Old(i)
              /\ H'.pos \in call.at..(call.at + call.len)
  <2>1. ASSUME NEW i \in 1..rec.size PROVE i \notin (H.pos + 1)..Target
    <3>1. CASE Len(stack) = 1
      BY <3>1, <1>2, <1>3, <1>10
    <3>2. CASE Len(stack) = 2
      BY <3>2, <1>2, <1>3
    <3> QED BY <3>1, <3>2, <1>1
  <2>2. H'.pos \in call.at..(call.at + call.len)
    BY <1>1, <1>5, <1>6, <1>10
  <2> QED BY <2>1, <2>2, <1>1, <1>3, <1>9, <1>10
<1>11. ASSUME call.kind = "write"
       PROVE  /\ Len(t) <= Larger(Len(before), call.at + call.len)
              /\ \A i \in 1..Len(t) : t[i] = Old(i) \/
                   (t[i] = Data /\ i \in (call.at + 1)..(call.at + call.len))
              /\ H'.pos \in call.at..(call.at + call.len)
  <2>1. Len(t) <= Larger(Len(before), call.at + call.len)
    BY <1>1, <1>2, <1>3, <1>9, <1>11 DEF Larger
  <2>2. CASE Len(stack) = 1
    <3>1. H.pos = call.at /\ Top.val = Data /\ Target = call.at + call.len
      BY <2>2, <1>2, <1>3, <1>11
    <3>2. H'.pos = new.pos
      BY <2>2, <1>5, <1>6, <1>11
    <3> QED BY <2>1, <3>1, <3>2, <1>9
  <2>3. CASE Len(stack) = 2
    <3>1. ASSUME NEW i \in 1..rec.size PROVE i \notin (H.pos + 1)..Target
      BY <2>3, <1>2, <1>3
    <3>2. H'.pos = call.at
      BY <2>3, <1>3, <1>5, <1>6, <1>11
    <3>3. H'.pos \in call.at..(call.at + call.len)
      BY <3>2, <1>1
    <3> QED BY <2>1, <3>1, <3>3, <1>9
  <2> QED BY <2>2, <2>3, <1>1
<1>12. Len(before) <= Len(t) /\ H'.pos \in call.at..(call.at + call.len)
  BY <1>1, <1>9, <1>10, <1>11
<1> QED BY <1>1, <1>6, <1>8, <1>9, <1>10, <1>11, <1>12, DoneFailed

(***************************************************************************)
(* The steps of a write, and what it was asked                             *)
(***************************************************************************)
LEMMA FillGapAsk == ASSUME IInv, Body, WorkInv, FillGap PROVE AskBodyInv'
<1> DEFINE gap  == H.pos - H.size
           up   == [Top EXCEPT !.goal = H.pos, !.gap = gap]
           fill == Frame(Zero, Smaller(Chunk, gap))
           on   == [H EXCEPT !.pos = H.size]
<1>1. /\ pc = "enter" /\ pc' = pc /\ H.pos > H.size /\ UNCHANGED <<rec, data, call, before>>
      /\ Become(on, FALSE)
      /\ stack' = [stack EXCEPT ![Len(stack)] = up] \o <<fill>>
  BY DEF FillGap, Top, disk
<1>2. Writing /\ LocalInv
  BY <1>1 DEF IInv, Writing
<1>3. /\ H.pos \in Nat /\ H.size \in Nat /\ Top \in FrameRec /\ stack \in Seq(FrameRec)
      /\ call.h \in Handle
  BY <1>2, TopIs, CallerIs
<1>4. /\ before \in Seq(Units) /\ Len(before) <= rec.size
      /\ rec.size <= Larger(Len(before), Base(1)) /\ H.size = rec.size
      /\ call.kind = "write" => /\ call.len > 0 /\ Base(1) = call.at
                                /\ stack[1].val = Data /\ stack[1].len = call.len
      /\ call.kind = "resize" => Len(before) <= call.len
  BY <1>2, WorkIs
<1>5. Len(stack) = 1 /\ Base(1) = H.pos /\ Top = stack[1]
  <2>1. Len(stack) # 2
    BY <1>1, <1>2, <1>3, WorkIs
  <2> QED BY <2>1, <1>2, WorkIs
<1>6. gap \in Nat
  BY <1>1, <1>3
<1>7. /\ up \in FrameRec /\ up.val = Top.val /\ up.len = Top.len /\ up.goal = H.pos
      /\ fill \in FrameRec /\ fill.val = Zero
  BY <1>3, <1>6, Constants DEF Frame, FrameRec, Smaller
<1>8. on.pos = H.size /\ on.size = H.size
  BY DEF HandleRec
<1> HIDE DEF gap, up, fill, on
<1>9. H' = on
  BY <1>1, <1>3 DEF Become, H
<1>10. Len(stack') = 2 /\ stack'[1] = up /\ stack'[2] = fill
  <2>1. PICK n \in Nat : n = Len(stack) /\ n >= 1
    BY <1>2, TopIs
  <2> DEFINE low == [stack EXCEPT ![n] = up]
  <2>2. low \in Seq(FrameRec) /\ Len(low) = n /\ low[n] = up
    BY <2>1, <1>3, <1>7
  <2>3. stack' = low \o <<fill>>
    BY <2>1, <1>1
  <2> HIDE DEF low
  <2>4. /\ Len(low \o <<fill>>) = n + 1 /\ (low \o <<fill>>)[n + 1] = fill
        /\ \A i \in 1..n : (low \o <<fill>>)[i] = low[i]
    BY <2>2, <1>7
  <2>5. Len(stack') = n + 1 /\ stack'[n + 1] = fill /\ stack'[n] = up
    BY <2>1, <2>2, <2>3, <2>4
  <2>6. PICK two : two = n + 1 /\ two = 2 /\ n = 1
    BY <2>1, <1>5
  <2> QED BY <2>5, <2>6
<1>11. Base(1)' = H.pos /\ Top' = fill
  <2>1. Base(1)' = stack'[1].goal
    BY <1>10 DEF Base
  <2> QED BY <2>1, <1>7, <1>10 DEF Top
<1>12. ASSUME NEW i \in 1..rec'.size PROVE AtIn(data', rec', i) = Old(i)
  BY <1>1, <1>2 DEF WorkInv
<1> QED BY <1>1, <1>4, <1>5, <1>7, <1>8, <1>9, <1>10, <1>11, <1>12, OldStays

LEMMA WriteNothingAsk == ASSUME IInv, Body, WorkInv, WriteNothing PROVE AskBodyInv'
<1>1. Ready /\ Top.len = 0 /\ Finish(H, FALSE) /\ UNCHANGED <<bits, data, rec>>
  BY DEF WriteNothing, disk
<1>2. /\ Writing /\ LocalInv /\ Sound(rec) /\ rec.inUse /\ rec.init = rec.size
      /\ H \in HandleRec /\ H.pos \in Nat /\ H.pos <= rec.size /\ rec.size \in Nat
      /\ data \in [Cluster -> [1..PerCluster -> Units]]
  BY <1>1, ReadyPlace DEF DiskInv
<1>3. Target = H.pos
  BY <1>1, <1>2 DEF Target
<1>4. rec.size = Larger(rec.size, Target)
  BY <1>2, <1>3 DEF Larger
<1>5. H.size = rec.size
  BY <1>2, WorkIs
<1>6. ASSUME NEW i \in 1..rec.size
      PROVE  AtIn(data, rec, i) = IF i \in (H.pos + 1)..Target THEN Top.val ELSE Old(i)
  <2>1. AtIn(data, rec, i) = Old(i)
    BY <1>1, <1>2 DEF WorkInv, Ready
  <2>2. i \notin (H.pos + 1)..Target
    BY <1>2, <1>3
  <2> QED BY <2>1, <2>2
<1> QED BY <1>1, <1>2, <1>3, <1>4, <1>5, <1>6, PutDone

\* A refusal that leaves the file as it is.
LEMMA RefusedAsk ==
  ASSUME IInv, Body, WorkInv, Ready, Fail(H, FALSE), UNCHANGED <<data, rec>>
  PROVE  AskBodyInv'
<1>1. /\ Writing /\ LocalInv /\ Sound(rec) /\ rec.inUse /\ rec.init = rec.size
      /\ H \in HandleRec /\ H.pos \in Nat
      /\ data \in [Cluster -> [1..PerCluster -> Units]]
  BY ReadyPlace DEF DiskInv
<1>2. H.pos \in H.pos..Target
  BY <1>1, TopIs
<1>3. \A i \in 1..rec.size : AtIn(data, rec, i) = Old(i)
  BY <1>1 DEF WorkInv, Ready
<1> QED BY <1>1, <1>2, <1>3, FailDone

LEMMA WriteResidentAsk == ASSUME IInv, Body, WorkInv, WriteResident PROVE AskBodyInv'
<1> DEFINE value == Splice(rec.value, H.pos, Top.len, Top.val)
           grows == Len(value) > Len(rec.value)
           to    == IF grows THEN GrownTo(Moved(Top.len)) ELSE Moved(Top.len)
<1>1. /\ Ready /\ rec.resident /\ data' = data
      /\ \/ /\ rec' = [rec EXCEPT !.value = value, !.size = Len(value), !.init = Len(value)]
            /\ Finish(to, grows)
         \/ Fail(H, FALSE) /\ rec' = rec
  BY DEF WriteResident
<1>2. /\ Writing /\ LocalInv /\ DiskInv /\ Sound(rec)
      /\ rec.inUse /\ H.pos <= rec.size /\ H \in HandleRec /\ H.pos \in Nat
  BY <1>1, ReadyPlace
<1>3. /\ Top.len \in Nat /\ Top.val \in Units /\ Target = H.pos + Top.len /\ Target \in Nat
  BY <1>2, TopIs
<1>4. /\ rec.value \in Seq(Units) /\ Len(rec.value) \in Nat /\ rec.size = Len(rec.value)
  BY <1>1, <1>2, RecordIs
<1>5. /\ value \in Seq(Units) /\ Len(value) = Larger(Len(rec.value), Target)
  BY <1>2, <1>3, <1>4, SpliceType
<1>6. \A i \in 1..Len(value) :
        value[i] = IF i \in (H.pos + 1)..(H.pos + Top.len) THEN Top.val ELSE rec.value[i]
  <2>1. /\ rec.value \in Seq(Units) /\ H.pos \in Nat /\ Top.len \in Nat /\ Top.val \in Units
        /\ H.pos <= Len(rec.value)
    BY <1>2, <1>3, <1>4
  <2> QED BY <2>1, SpliceIn
<1>7. H.size = rec.size /\ \A i \in 1..rec.size : AtIn(data, rec, i) = Old(i)
  BY <1>1, <1>2, WorkIs DEF WorkInv, Ready
<1> HIDE DEF value
<1>8. CASE /\ rec' = [rec EXCEPT !.value = value, !.size = Len(value), !.init = Len(value)]
           /\ Finish(to, grows)
  <2>1. Sound(rec') /\ rec'.inUse = rec.inUse /\ rec'.size = Len(value)
    BY <1>1, <1>2, <1>5, <1>8, ResidentSound
  <2>2. rec'.init = rec'.size /\ rec'.resident /\ rec'.value = value
    <3>1. rec \in FileRec
      BY <1>2, RecordIs
    <3> QED BY <3>1, <1>1, <1>8 DEF FileRec
  <2>3. /\ to \in HandleRec /\ to.pos = Target
        /\ to.size = IF grows THEN Larger(H.size, Target) ELSE H.size
    BY <1>2, <1>3, MovedIs
  <2>4. to.size = rec'.size /\ rec'.size = Larger(rec.size, Target)
    BY <2>1, <2>3, <1>3, <1>4, <1>5, <1>7 DEF Larger
  <2> HIDE DEF to, grows
  <2>5. ASSUME NEW i \in 1..rec'.size
        PROVE  AtIn(data', rec', i) = IF i \in (H.pos + 1)..Target THEN Top.val ELSE Old(i)
    <3>1. AtIn(data', rec', i) = IF i \in (H.pos + 1)..Target THEN Top.val ELSE rec.value[i]
      BY <2>1, <2>2, <1>3, <1>6 DEF AtIn
    <3>2. i \in 1..rec.size \/ i \in (H.pos + 1)..Target
      BY <2>1, <1>2, <1>3, <1>4, <1>5 DEF Larger
    <3>3. i \in 1..rec.size => rec.value[i] = Old(i)
      BY <1>1, <1>7 DEF AtIn
    <3> QED BY <3>1, <3>2, <3>3
  <2>6. data' \in [Cluster -> [1..PerCluster -> Units]]
    BY <1>1, <1>2 DEF DiskInv
  <2> QED BY <2>1, <2>2, <2>3, <2>4, <2>5, <2>6, <1>2, <1>8, PutDone
<1>9. CASE Fail(H, FALSE) /\ rec' = rec
  BY <1>1, <1>9, RefusedAsk
<1> QED BY <1>1, <1>8, <1>9

\* What a write on the stack is to do stays, however much of it is done.
LEMMA DoneKeeps ==
  ASSUME LocalInv, Writing,
         stack' = stack \/ \E k \in 0..Top.len : stack' = [stack EXCEPT ![Len(stack)].done = k]
  PROVE  /\ Len(stack') = Len(stack) /\ Top'.val = Top.val
         /\ stack'[1].val = stack[1].val /\ stack'[1].len = stack[1].len
         /\ stack'[1].goal = stack[1].goal
<1>1. PICK n \in Nat : n = Len(stack) /\ n >= 1
  BY TopIs
<1>2. stack \in Seq(FrameRec) /\ Top \in FrameRec /\ Top = stack[n] /\ 1 \in 1..n /\ n \in 1..n
  BY <1>1, TopIs DEF Top
<1>3. CASE stack' = stack
  BY <1>3 DEF Top
<1>4. ASSUME NEW k \in 0..Top.len, stack' = [stack EXCEPT ![Len(stack)].done = k]
      PROVE  /\ Len(stack') = Len(stack) /\ Top'.val = Top.val
             /\ stack'[1].val = stack[1].val /\ stack'[1].len = stack[1].len
             /\ stack'[1].goal = stack[1].goal
  <2>1. Len(stack') = Len(stack) /\ Top'.val = Top.val /\ Top'.len = Top.len
    BY <1>4, SomeDone, TopDone
  <2>2. stack'[1].len = stack[1].len /\ stack'[1].goal = stack[1].goal
    BY <1>1, <1>2, <1>4, SomeDone
  <2>3. CASE n = 1
    BY <2>1, <2>2, <2>3, <1>1 DEF Top
  <2>4. CASE n # 1
    <3>1. stack'[1] = stack[1]
      BY <2>4, <1>1, <1>2, <1>4
    <3> QED BY <2>1, <2>2, <3>1
  <2> QED BY <2>1, <2>2, <2>3, <2>4
<1> QED BY <1>3, <1>4

\* A write that goes on in the clusters that it has got.
LEMMA OnwardAsked ==
  ASSUME LocalInv, WorkInv, Writing, Top.len > 0, UNCHANGED <<rec, call, before>>,
         H'.size = H.size, H'.pos = H.pos, pc' \in {"head", "data", "record"},
         stack' = stack \/ \E k \in 0..Top.len : stack' = [stack EXCEPT ![Len(stack)].done = k],
         \A i \in 1..rec.size :
           \/ AtIn(data', rec, i) = Old(i)
           \/ pc' = "record" /\ i > H.pos /\ AtIn(data', rec, i) = Top.val
  PROVE  AskBodyInv'
<1>1. /\ before \in Seq(Units) /\ Len(before) <= rec.size
      /\ rec.size <= Larger(Len(before), Base(1)) /\ H.size = rec.size /\ Len(stack) \in {1, 2}
      /\ Len(stack) = 1 => Base(1) = H.pos /\ Top = stack[1]
      /\ Len(stack) = 2 => Base(1) = stack[1].goal /\ H.pos = rec.size /\ Top.val = Zero
      /\ call.kind = "write" => /\ call.len > 0 /\ Base(1) = call.at
                                /\ stack[1].val = Data /\ stack[1].len = call.len
      /\ call.kind = "resize" => stack[1].len = 0 /\ Len(before) <= call.len
  BY WorkIs
<1>2. /\ Len(stack') = Len(stack) /\ Top'.val = Top.val
      /\ stack'[1].val = stack[1].val /\ stack'[1].len = stack[1].len
      /\ stack'[1].goal = stack[1].goal
  BY DoneKeeps
<1>3. call.kind = "resize" => Len(stack) # 1
  BY <1>1
<1>4. Base(1)' = Base(1)
  <2>1. Base(1)' = IF 1 = Len(stack') THEN H'.pos ELSE stack'[1].goal
    BY DEF Base
  <2> QED BY <2>1, <1>1, <1>2
<1>5. \A i : Old(i)' = Old(i)
  BY SameAsked
<1>6. ASSUME NEW i \in 1..rec'.size
      PROVE  \/ AtIn(data, rec, i)' = Old(i)'
             \/ pc' = "record" /\ i > H'.pos /\ AtIn(data, rec, i)' = Top'.val
  <2>1. AtIn(data, rec, i)' = AtIn(data', rec, i)
    BY DEF AtIn, Place
  <2>2. i \in 1..rec.size
    OBVIOUS
  <2> QED BY <2>1, <2>2, <1>2, <1>5
<1>7. WorkInv'
  BY <1>1, <1>2, <1>3, <1>4, <1>6 DEF WorkInv, Larger
<1>8. CutInv' /\ DoesAsAsked'
  BY DEF CutInv, Cutting, DoesAsAsked
<1> QED BY <1>7, <1>8 DEF AskBodyInv

\* Units of a file are the same where its clusters are.
LEMMA AtInSame ==
  ASSUME NEW r, Sound(r), NEW d, NEW e, \A c \in ClustersOf(r) : e[c] = d[c], NEW i \in 1..r.size
  PROVE  AtIn(e, r, i) = AtIn(d, r, i)
<1>1. CASE r.resident
  BY <1>1 DEF AtIn
<1>2. CASE ~r.resident
  <2>1. i \in 1..Allocated(r)
    BY <1>2, RecordIs
  <2> QED BY <1>2, <2>1, AtSame DEF AtIn
<1> QED BY <1>1, <1>2

LEMMA ConvertAllocateAsk == ASSUME IInv, Body, WorkInv, ConvertAllocate PROVE AskBodyInv'
<1>1. /\ Ready /\ Top.len > 0 /\ pc' = "head"
      /\ UNCHANGED <<data, rec, handles, call, stack, before>>
  BY DEF ConvertAllocate
<1>2. Writing /\ LocalInv /\ H' = H
  BY <1>1, ReadyPlace DEF H
<1>3. \A i \in 1..rec.size : AtIn(data', rec, i) = Old(i)
  BY <1>1, <1>2 DEF WorkInv, Ready
<1> QED BY <1>1, <1>2, <1>3, OnwardAsked

LEMMA GrowAllocateAsk == ASSUME IInv, Body, WorkInv, GrowAllocate PROVE AskBodyInv'
<1>1. /\ Ready /\ Top.len > 0 /\ pc' = "data" /\ Become(Growing(H), FALSE)
      /\ UNCHANGED <<data, rec, call, stack, before>>
  BY DEF GrowAllocate
<1>2. Writing /\ LocalInv /\ H \in HandleRec
  BY <1>1, ReadyPlace
<1>3. Growing(H).pos = H.pos /\ Growing(H).size = H.size
  BY <1>2 DEF Growing, HandleRec
<1>4. H' = Growing(H)
  BY <1>1, <1>2, CallerIs DEF Become, H
<1>5. \A i \in 1..rec.size : AtIn(data', rec, i) = Old(i)
  BY <1>1, <1>2 DEF WorkInv, Ready
<1> QED BY <1>1, <1>2, <1>3, <1>4, <1>5, OnwardAsked

LEMMA ConvertFillAsk == ASSUME IInv, Body, WorkInv, ConvertFill PROVE AskBodyInv'
<1>1. /\ pc = "head" /\ rec' = rec
      /\ \/ /\ stack' = [stack EXCEPT ![Len(stack)].done = Top.len]
            /\ pc' = "record"
            /\ UNCHANGED <<handles, call, before>>
         \/ Fail(H, FALSE) /\ data' = data
  BY DEF ConvertFill
<1>2. Writing /\ LocalInv /\ DiskInv /\ Sound(rec)
  BY <1>1 DEF IInv, DiskInv, Writing
<1>3. rec.inUse /\ rec.init = rec.size /\ rec.resident
  BY <1>1, <1>2 DEF Body, PlaceInv, ImageInv
<1>4. /\ H \in HandleRec /\ H.pos \in H.pos..Target /\ Top.len \in 0..Top.len /\ Top.len > 0
  <2>1. Top.len > 0
    BY <1>1, <1>2 DEF LocalInv, StackInv
  <2> QED BY <2>1, <1>2, CallerIs, TopIs
<1>5. \A i \in 1..rec.size : AtIn(data', rec, i) = Old(i)
  BY <1>1, <1>2, <1>3 DEF WorkInv, AtIn
<1>6. CASE /\ stack' = [stack EXCEPT ![Len(stack)].done = Top.len]
           /\ pc' = "record"
           /\ UNCHANGED <<handles, call, before>>
  <2>1. H' = H
    BY <1>6 DEF H
  <2>2. \E k \in 0..Top.len : stack' = [stack EXCEPT ![Len(stack)].done = k]
    BY <1>4, <1>6
  <2> QED BY <2>1, <2>2, <1>1, <1>2, <1>4, <1>5, <1>6, OnwardAsked
<1>7. CASE Fail(H, FALSE) /\ data' = data
  BY <1>1, <1>2, <1>3, <1>4, <1>5, <1>7, FailDone DEF DiskInv
<1> QED BY <1>1, <1>6, <1>7

LEMMA WriteDataAsk == ASSUME IInv, Body, WorkInv, WriteData, trouble' = {} PROVE AskBodyInv'
<1> DEFINE r == IF pc = "data" THEN img ELSE rec
<1>1. /\ pc = "data" \/ (Ready /\ Top.len > 0 /\ ~rec.resident /\ InClusters)
      /\ rec' = rec
      /\ \E k \in 0..Top.len :
           /\ data' = Written(r, H.pos, k, Top.val)
           /\ IF Target > rec.size
              THEN /\ stack' = [stack EXCEPT ![Len(stack)].done = k]
                   /\ pc' = "record"
                   /\ Hit(IF k = Top.len THEN {} ELSE {"short"})
                   /\ UNCHANGED <<handles, call, before>>
              ELSE IF k = Top.len THEN Finish(Moved(k), FALSE) ELSE Fail(Moved(k), FALSE)
  BY DEF WriteData
<1>2. Writing /\ LocalInv /\ DiskInv /\ Sound(rec) /\ pc \in {"put", "enter", "data"}
  BY <1>1 DEF IInv, DiskInv, Writing, Ready
<1>3. /\ H.pos \in Nat /\ Top.len \in Nat /\ Top.val \in Units
      /\ Target = H.pos + Top.len /\ Target \in Nat /\ rec.size \in Nat
  BY <1>2, TopIs, RecordIs
<1>4. /\ rec.inUse /\ rec.init = rec.size /\ H.pos <= rec.size /\ ~rec.resident
      /\ OneToOne(r.map) /\ Begins(rec.map, r.map) /\ Target <= Allocated(r) /\ Sound(r)
  BY <1>1, DataPlace
<1>5. r.map \in Seq(Cluster) /\ Allocated(r) \in Nat
  BY <1>4, RecordIs
<1>6. Top.len > 0
  BY <1>1, <1>2 DEF LocalInv, StackInv
<1>7. H.size = rec.size
  BY <1>2, WorkIs
<1>8. PICK k \in 0..Top.len :
           /\ data' = Written(r, H.pos, k, Top.val)
           /\ IF Target > rec.size
              THEN /\ stack' = [stack EXCEPT ![Len(stack)].done = k]
                   /\ pc' = "record"
                   /\ Hit(IF k = Top.len THEN {} ELSE {"short"})
                   /\ UNCHANGED <<handles, call, before>>
              ELSE IF k = Top.len THEN Finish(Moved(k), FALSE) ELSE Fail(Moved(k), FALSE)
  BY <1>1
<1> HIDE DEF r
<1>9. ASSUME NEW i \in 1..rec.size
      PROVE  AtIn(data', rec, i) = IF i \in (H.pos + 1)..(H.pos + k) THEN Top.val ELSE Old(i)
  <2>1. PICK p, v : p = H.pos /\ v = Top.val
    OBVIOUS
  <2>2. p \in Nat /\ k \in Nat /\ p + k <= Allocated(r) /\ data' = Written(r, p, k, v)
    BY <2>1, <1>3, <1>4, <1>5, <1>8
  <2>3. AtIn(data', rec, i) = IF i \in (p + 1)..(p + k) THEN v ELSE AtIn(data, rec, i)
    BY <2>2, <1>2, <1>4, <1>5, DataAt
  <2>4. AtIn(data, rec, i) = Old(i)
    BY <1>2 DEF WorkInv
  <2> QED BY <2>1, <2>3, <2>4
<1>10. data' \in [Cluster -> [1..PerCluster -> Units]]
  BY <1>2, <1>3, <1>8, WrittenType DEF DiskInv
<1>11. CASE Target > rec.size
  <2>1. /\ stack' = [stack EXCEPT ![Len(stack)].done = k] /\ pc' = "record"
        /\ UNCHANGED <<handles, call, before>> /\ H' = H
    BY <1>8, <1>11 DEF H
  <2>2. ASSUME NEW i \in 1..rec.size
        PROVE  \/ AtIn(data', rec, i) = Old(i)
               \/ pc' = "record" /\ i > H.pos /\ AtIn(data', rec, i) = Top.val
    <3>1. i \in (H.pos + 1)..(H.pos + k) => i > H.pos
      BY <1>3
    <3> QED BY <2>1, <3>1, <1>9
  <2>3. \E j \in 0..Top.len : stack' = [stack EXCEPT ![Len(stack)].done = j]
    BY <2>1
  <2> QED BY <2>1, <2>2, <2>3, <1>1, <1>2, <1>6, OnwardAsked
<1>12. CASE ~(Target > rec.size)
  <2>1. IF k = Top.len THEN Finish(Moved(k), FALSE) ELSE Fail(Moved(k), FALSE)
    BY <1>8, <1>12
  <2>2. Moved(k) \in HandleRec /\ Moved(k).pos = H.pos + k /\ Moved(k).size = H.size
    BY <1>2, MovedIs
  <2>3. CASE k = Top.len
    <3>1. Finish(Moved(k), FALSE) /\ Moved(k).pos = Target
      BY <2>1, <2>2, <2>3, <1>3
    <3>2. rec'.size = Larger(rec.size, Target)
      BY <1>1, <1>3, <1>12 DEF Larger
    <3>3. ASSUME NEW i \in 1..rec'.size
          PROVE  AtIn(data', rec', i) = IF i \in (H.pos + 1)..Target THEN Top.val ELSE Old(i)
      BY <2>3, <1>1, <1>3, <1>9
    <3> QED BY <2>2, <3>1, <3>2, <3>3, <1>1, <1>2, <1>4, <1>7, <1>10, PutDone
  <2>4. CASE k # Top.len
    <3>a. Fail(Moved(k), FALSE)
      BY <2>1, <2>4
    <3>b. H.pos + k \in H.pos..Target
      BY <1>3
    <3>1. Fail(Moved(k), FALSE) /\ Moved(k).pos \in H.pos..Target
      BY <3>a, <3>b, <2>2
    <3>2. ASSUME NEW i \in 1..rec.size
          PROVE  \/ AtIn(data', rec, i) = Old(i)
                 \/ i \in (H.pos + 1)..Target /\ AtIn(data', rec, i) = Top.val
      <4>1. i \in (H.pos + 1)..(H.pos + k) => i \in (H.pos + 1)..Target
        BY <1>3
      <4> QED BY <4>1, <1>9
    <3> QED BY <2>2, <3>1, <3>2, <1>1, <1>2, <1>4, <1>10, FailDone
  <2> QED BY <2>3, <2>4
<1> QED BY <1>11, <1>12

LEMMA WriteRecordAsk == ASSUME IInv, Body, WorkInv, WriteRecord PROVE AskBodyInv'
<1> DEFINE new == GrownTo(Moved(Top.done))
<1>1. /\ pc = "record"
      /\ \/ /\ rec' = img
            /\ IF Top.done = Top.len THEN Finish(new, TRUE) ELSE Fail(new, TRUE)
            /\ data' = data
         \/ /\ Fail(H, FALSE) /\ rec' = rec
            /\ data' = Spoilt(ClustersOf(img) \ ClustersOf(rec))
  BY DEF WriteRecord
<1>2. /\ Writing /\ LocalInv /\ DiskInv /\ Sound(rec) /\ Sound(img)
      /\ data \in [Cluster -> [1..PerCluster -> Units]]
  BY <1>1 DEF IInv, LocalInv, DiskInv, Writing
<1>3. /\ H \in HandleRec /\ H.pos \in Nat /\ H.size \in Nat /\ Top.len \in Nat /\ Top.val \in Units
      /\ Target = H.pos + Top.len /\ Target \in Nat
  BY <1>2, CallerIs, TopIs
<1>4. /\ rec.inUse /\ rec.init = rec.size /\ H.pos <= rec.size
      /\ img.init = img.size /\ ~img.resident /\ Top.done = Top.len
      /\ \A i \in 1..H.pos : AtIn(data, img, i) = AtIn(data, rec, i)
      /\ \A i \in (H.pos + 1)..Target : AtIn(data, img, i) = Top.val
  BY <1>1, <1>2 DEF Body, PlaceInv, ImageInv
<1>5. rec.size < Target /\ img.size = Target /\ img.inUse = rec.inUse /\ rec.size \in Nat
  BY <1>1, <1>2, RecordIs DEF LocalInv, ImgInv
<1>6. H.size = rec.size
  BY <1>2, WorkIs
<1>7. \A i \in 1..rec.size : AtIn(data, rec, i) = Old(i) \/ (i > H.pos /\ AtIn(data, rec, i) = Top.val)
  BY <1>2 DEF WorkInv
<1>8. CASE /\ rec' = img
           /\ IF Top.done = Top.len THEN Finish(new, TRUE) ELSE Fail(new, TRUE)
           /\ data' = data
  <2>1. Finish(new, TRUE)
    BY <1>4, <1>8
  <2>2. /\ new \in HandleRec /\ new.pos = Target /\ new.size = Larger(H.size, Target)
    BY <1>2, <1>3, <1>4, MovedIs
  <2> HIDE DEF new
  <2>3. new.size = rec'.size /\ rec'.size = Larger(rec.size, Target)
    BY <2>2, <1>3, <1>5, <1>6, <1>8 DEF Larger
  <2>4. ASSUME NEW i \in 1..rec'.size
        PROVE  AtIn(data', rec', i) = IF i \in (H.pos + 1)..Target THEN Top.val ELSE Old(i)
    <3>1. AtIn(data', rec', i) = AtIn(data, img, i) /\ i \in 1..Target
      BY <1>5, <1>8
    <3>2. CASE i \in (H.pos + 1)..Target
      BY <3>1, <3>2, <1>4
    <3>3. CASE i \notin (H.pos + 1)..Target
      <4>1. i \in 1..H.pos /\ i \in 1..rec.size /\ ~(i > H.pos)
        BY <3>1, <3>3, <1>3, <1>4, <1>5
      <4> QED BY <3>1, <3>3, <4>1, <1>4, <1>7
    <3> QED BY <3>2, <3>3
  <2> QED BY <2>1, <2>2, <2>3, <2>4, <1>2, <1>4, <1>5, <1>8, PutDone
<1>9. CASE /\ Fail(H, FALSE) /\ rec' = rec
           /\ data' = Spoilt(ClustersOf(img) \ ClustersOf(rec))
  <2>1. \A c \in ClustersOf(rec) : data'[c] = data[c]
    <3>1. ClustersOf(rec) \subseteq Cluster
      BY <1>2, RecordIs
    <3> QED BY <3>1, <1>9, SpoiltIs
  <2>2. ASSUME NEW i \in 1..rec.size
        PROVE  \/ AtIn(data', rec, i) = Old(i)
               \/ i \in (H.pos + 1)..Target /\ AtIn(data', rec, i) = Top.val
    <3>1. AtIn(data', rec, i) = AtIn(data, rec, i)
      BY <2>1, <1>2, AtInSame
    <3>2. i > H.pos => i \in (H.pos + 1)..Target
      BY <1>3, <1>5
    <3> QED BY <3>1, <3>2, <1>7
  <2>3. data' \in [Cluster -> [1..PerCluster -> Units]]
    BY <1>2, <1>9, SpoiltType
  <2>4. H.pos \in H.pos..Target
    BY <1>3
  <2> QED BY <2>2, <2>3, <2>4, <1>2, <1>3, <1>4, <1>9, FailDone
<1> QED BY <1>1, <1>8, <1>9

(***************************************************************************)
(* The steps of a cut, and what it was asked                               *)
(***************************************************************************)

\* The running cut, and the content that it found.
LEMMA CutAskIs ==
  ASSUME IInv, Body, CutInv, Cutting, call.kind = "resize"
  PROVE  /\ LocalInv /\ Sound(rec) /\ data \in [Cluster -> [1..PerCluster -> Units]]
         /\ rec.inUse /\ rec.init = rec.size /\ rec.size \in Nat
         /\ before \in Seq(Units) /\ Len(before) = rec.size /\ Len(before) \in Nat
         /\ call.at \in Nat /\ call.len \in Nat /\ call.len <= rec.size /\ call.h \in Handle
         /\ H \in HandleRec /\ H.pos = call.at
         /\ pc = "cut" \/ ~Dangling => \A i \in 1..rec.size : AtIn(data, rec, i) = before[i]
         /\ pc = "shrink" => \A i \in 1..call.len : AtIn(data, img, i) = before[i]
<1>1. /\ LocalInv /\ DiskInv /\ Sound(rec) /\ H \in HandleRec /\ rec.inUse /\ rec.init = rec.size
      /\ rec.size \in Nat
  BY CuttingIs
<1>2. call.at \in Nat /\ call.len \in Nat /\ call.h \in Handle
  BY <1>1, CallerIs
<1>3. data \in [Cluster -> [1..PerCluster -> Units]]
  BY <1>1 DEF DiskInv
<1> QED BY <1>1, <1>2, <1>3 DEF CutInv

\* A close is not asked for any content.
LEMMA CloseAsked == ASSUME call'.kind = "close", ~Writing' PROVE AskBodyInv'
BY DEF AskBodyInv, WorkInv, CutInv, DoesAsAsked

\* A cut that has been done.
LEMMA CutDone ==
  ASSUME IInv, Body, CutInv, Cutting, call.kind = "resize",
         NEW resized, Become(Resized(H), resized), Return("ok"),
         Sound(rec'), rec'.inUse, rec'.init = rec'.size, rec'.size = call.len,
         data' \in [Cluster -> [1..PerCluster -> Units]],
         \A i \in 1..call.len : AtIn(data', rec', i) = before[i]
  PROVE  AskBodyInv'
<1>1. /\ before \in Seq(Units) /\ Len(before) = rec.size /\ rec.size \in Nat
      /\ call.at \in Nat /\ call.len \in Nat /\ call.len <= rec.size /\ call.h \in Handle
      /\ H \in HandleRec
  BY CutAskIs
<1>2. pc' = "ok" /\ call' = call /\ before' = before
  BY DEF Return
<1>3. Resized(H).pos = Smaller(call.at, call.len)
  BY <1>1 DEF Resized, HandleRec
<1>4. H' = Resized(H)
  BY <1>1, <1>2 DEF Become, H
<1>5. PICK t : t = StoredIn(data', rec')
  OBVIOUS
<1>6. Content' = t
  BY <1>2, <1>5, ContentNext
<1>7. t \in Seq(Units) /\ Len(t) = call.len /\ \A i \in 1..call.len : t[i] = AtIn(data', rec', i)
  BY <1>5, WholeIs
<1>8. \A i \in 1..Len(t) : t[i] = Old(i)
  BY <1>1, <1>7 DEF Old
<1>9. H'.pos = Smaller(call.at, call.len)
  BY <1>3, <1>4
<1> QED BY <1>1, <1>2, <1>6, <1>7, <1>8, <1>9, DoneOk

\* A cut that has failed and left the file as it was.
LEMMA CutStays ==
  ASSUME IInv, Body, CutInv, Cutting, call.kind = "resize", rec' = rec, data' = data,
         NEW new \in HandleRec, NEW resized, Become(new, resized), new.pos = call.at,
         Return("failed"), pc = "cut" \/ ~Dangling
  PROVE  AskBodyInv'
<1>1. /\ Sound(rec) /\ data \in [Cluster -> [1..PerCluster -> Units]]
      /\ rec.inUse /\ rec.init = rec.size /\ rec.size \in Nat
      /\ before \in Seq(Units) /\ Len(before) = rec.size
      /\ call.at \in Nat /\ call.len \in Nat /\ call.h \in Handle
      /\ \A i \in 1..rec.size : AtIn(data, rec, i) = before[i]
  BY CutAskIs
<1>2. pc' = "failed" /\ call' = call /\ before' = before
  BY DEF Return
<1>3. H' = new
  BY <1>1, <1>2 DEF Become, H
<1>4. PICK t : t = StoredIn(data, rec)
  OBVIOUS
<1>5. Content' = t
  BY <1>1, <1>2, <1>4, ContentNext
<1>6. t \in Seq(Units) /\ Len(t) = rec.size /\ \A i \in 1..rec.size : t[i] = AtIn(data, rec, i)
  BY <1>1, <1>4, WholeIs
<1>7. \A i \in 1..Len(t) : t[i] = Old(i)
  BY <1>1, <1>6 DEF Old
<1>8. H'.pos \in call.at..(call.at + call.len)
  BY <1>1, <1>3
<1>9. Len(t) <= Larger(Len(before), call.len)
  BY <1>1, <1>6 DEF Larger
<1>10. Len(before) <= Len(t)
  BY <1>1, <1>6
<1>11. call.kind # "write"
  OBVIOUS
<1> QED BY <1>1, <1>2, <1>5, <1>6, <1>7, <1>8, <1>9, <1>10, <1>11, DoneFailed

LEMMA CutNothingAsk == ASSUME IInv, Body, CutInv, CutNothing PROVE AskBodyInv'
<1>1. /\ pc = "cut" /\ call.len = rec.size /\ Become(Resized(H), FALSE) /\ Return("ok")
      /\ UNCHANGED <<data, rec>>
  BY DEF CutNothing, disk
<1>2. Cutting /\ call.kind = "resize"
  BY <1>1 DEF Cutting, IInv, LocalInv, ImgInv
<1>3. /\ Sound(rec) /\ data \in [Cluster -> [1..PerCluster -> Units]] /\ rec.inUse
      /\ rec.init = rec.size /\ \A i \in 1..rec.size : AtIn(data, rec, i) = before[i]
  BY <1>1, <1>2, CutAskIs
<1> QED BY <1>1, <1>2, <1>3, CutDone

\* The handle has the file's size, so that a cut is never refused.
LEMMA CutRefusedAsk == ASSUME IInv, Body, CutInv, CutRefused PROVE AskBodyInv'
<1>1. pc = "cut" /\ call.len > rec.size
  BY DEF CutRefused
<1>2. Cutting /\ call.kind = "resize"
  BY <1>1 DEF Cutting, IInv, LocalInv, ImgInv
<1>3. call.len <= rec.size /\ call.len \in Nat /\ rec.size \in Nat
  BY <1>2, CutAskIs
<1> QED BY <1>1, <1>3

LEMMA CutResidentAsk == ASSUME IInv, Body, CutInv, CutResident PROVE AskBodyInv'
<1> DEFINE v == SubSeq(rec.value, 1, call.len)
<1>1. /\ pc = "cut" /\ call.len < rec.size /\ rec.resident /\ data' = data
      /\ \/ /\ rec' = [rec EXCEPT !.value = v, !.size = call.len, !.init = call.len]
            /\ Become(Resized(H), TRUE) /\ Return("ok")
         \/ Fail(H, FALSE) /\ rec' = rec
  BY DEF CutResident
<1>2. Cutting /\ call.kind = "resize"
  BY <1>1 DEF Cutting, IInv, LocalInv, ImgInv
<1>3. /\ LocalInv /\ Sound(rec) /\ data \in [Cluster -> [1..PerCluster -> Units]] /\ rec.inUse
      /\ rec.size \in Nat /\ call.len \in Nat /\ H \in HandleRec /\ H.pos = call.at
      /\ \A i \in 1..rec.size : AtIn(data, rec, i) = before[i]
  BY <1>1, <1>2, CutAskIs
<1>4. rec.value \in Seq(Units) /\ rec.size = Len(rec.value)
  BY <1>1, <1>3, RecordIs
<1>5. v \in Seq(Units) /\ Len(v) = call.len /\ \A i \in 1..call.len : v[i] = rec.value[i]
  BY <1>1, <1>3, <1>4
<1> HIDE DEF v
<1>6. CASE /\ rec' = [rec EXCEPT !.value = v, !.size = call.len, !.init = call.len]
           /\ Become(Resized(H), TRUE) /\ Return("ok")
  <2>1. /\ rec'.inUse = rec.inUse /\ rec'.resident /\ rec'.value = v
        /\ rec'.size = call.len /\ rec'.init = call.len
    <3>1. rec \in FileRec
      BY <1>3, RecordIs
    <3> QED BY <3>1, <1>1, <1>6 DEF FileRec
  <2>2. Sound(rec')
    BY <1>1, <1>3, <1>5, <1>6, ResidentSound
  <2>3. ASSUME NEW i \in 1..call.len PROVE AtIn(data', rec', i) = before[i]
    <3>1. i \in 1..rec.size
      BY <1>1, <1>3
    <3>2. AtIn(data', rec', i) = v[i] /\ AtIn(data, rec, i) = rec.value[i]
      BY <2>1, <1>1 DEF AtIn
    <3> QED BY <3>1, <3>2, <1>3, <1>5
  <2> QED BY <2>1, <2>2, <2>3, <1>1, <1>2, <1>3, <1>6, CutDone
<1>7. CASE Fail(H, FALSE) /\ rec' = rec
  <2> DEFINE end == [H EXCEPT !.pos = call.at]
  <2>1. Become(end, FALSE) /\ Return("failed")
    BY <1>2, <1>7 DEF Fail
  <2>2. end \in HandleRec /\ end.pos = call.at
    BY <1>3 DEF HandleRec
  <2> HIDE DEF end
  <2> QED BY <2>1, <2>2, <1>1, <1>2, <1>7, CutStays
<1> QED BY <1>1, <1>6, <1>7

\* A shorter file has the units of the longer one whose first clusters it has.
LEMMA CutAt ==
  ASSUME NEW r, Sound(r), ~r.resident, NEW q, Sound(q), ~q.resident, q.size <= r.size,
         Begins(q.map, r.map), NEW d, NEW e, \A c \in ClustersOf(q) : e[c] = d[c],
         NEW i \in 1..q.size
  PROVE  AtIn(e, q, i) = AtIn(d, r, i)
<1>1. /\ q.map \in Seq(Cluster) /\ q.size \in Nat /\ q.size <= Allocated(q) /\ Allocated(q) \in Nat
      /\ r.map \in Seq(Cluster)
  BY RecordIs
<1>2. i \in 1..Allocated(q)
  BY <1>1
<1>3. Place(r, i) = Place(q, i)
  BY <1>1, <1>2, PlaceAlike
<1>4. Place(q, i)[1] \in ClustersOf(q)
  BY <1>1, <1>2, PlaceIs
<1> QED BY <1>3, <1>4 DEF AtIn

LEMMA CutFreeAsk == ASSUME IInv, IInv', Body, CutInv, CutFree PROVE AskBodyInv'
<1>1. /\ pc = "cut" /\ call.len < rec.size /\ ~rec.resident
      /\ FreeTail(Clusters(call.len)) /\ pc' = "shrink"
      /\ img' = [rec EXCEPT !.map = SubSeq(@, 1, Clusters(call.len)), !.size = call.len,
                            !.init = Smaller(@, call.len)]
      /\ UNCHANGED <<rec, handles, call, before>>
  BY DEF CutFree
<1>2. Cutting /\ call.kind = "resize"
  BY <1>1 DEF Cutting, IInv, LocalInv, ImgInv
<1>3. /\ Sound(rec) /\ rec.size \in Nat /\ before \in Seq(Units) /\ Len(before) = rec.size
      /\ call.len \in Nat /\ call.len <= rec.size /\ H.pos = call.at
      /\ \A i \in 1..rec.size : AtIn(data, rec, i) = before[i]
  BY <1>1, <1>2, CutAskIs
<1>4. DiskInv /\ OneToOne(rec.map) /\ ClustersOf(rec) \subseteq bits
  BY <1>1, <1>2, CuttingIs
<1>5. rec \in FileRec /\ rec.map \in Seq(Cluster) /\ Len(rec.map) \in Nat
      /\ rec.size <= Len(rec.map) * PerCluster /\ Len(rec.map) * PerCluster \in Nat
  BY <1>1, <1>3, RecordIs
<1>6. Clusters(call.len) \in 0..Len(rec.map)
  <2>1. PICK n, m : n = call.len /\ m = Len(rec.map)
    OBVIOUS
  <2>2. n \in Nat /\ m \in Nat /\ n <= m * PerCluster
    <3>1. PICK s : s = rec.size
      OBVIOUS
    <3>2. s \in Nat /\ n \in Nat /\ m \in Nat /\ n <= s /\ s <= m * PerCluster /\ m * PerCluster \in Nat
      BY <2>1, <3>1, <1>3, <1>5
    <3> QED BY <3>2
  <2>3. Clusters(n) \in 0..m
    BY <2>2, ClustersHold
  <2> QED BY <2>1, <2>3
<1>7. PICK m, keep : m = SubSeq(rec.map, 1, Clusters(call.len)) /\ keep = Clusters(call.len)
  OBVIOUS
<1>8. /\ m \in Seq(Cluster) /\ Begins(m, rec.map)
      /\ \A i \in DOMAIN m : m[i] \in bits' /\ data'[m[i]] = data[m[i]]
      /\ keep < Len(rec.map) => ~(ClustersOf(rec) \subseteq bits')
      /\ keep = Len(rec.map) => m = rec.map
  BY <1>1, <1>4, <1>5, <1>6, <1>7, TailIs
<1>9. img'.map = m /\ img'.size = call.len /\ ~img'.resident
  BY <1>1, <1>5, <1>7 DEF FileRec
<1>10. PICK q, e, n : q = img' /\ e = data' /\ n = call.len
  OBVIOUS
<1>11. \A c \in ClustersOf(q) : e[c] = data[c]
  BY <1>8, <1>9, <1>10 DEF ClustersOf
<1>12. ASSUME NEW i \in 1..n PROVE AtIn(e, q, i) = before[i]
  <2>1. Sound(q)
    BY <1>10 DEF IInv, LocalInv, Sound
  <2>2. ~q.resident /\ q.size <= rec.size /\ q.size = n /\ Begins(q.map, rec.map)
    BY <1>3, <1>8, <1>9, <1>10
  <2>3. AtIn(e, q, i) = AtIn(data, rec, i)
    BY <2>1, <2>2, <1>1, <1>3, <1>11, CutAt
  <2>4. i \in 1..rec.size
    BY <1>3, <1>10
  <2> QED BY <2>3, <2>4, <1>3
<1>13. ASSUME ~Dangling', NEW i \in 1..rec.size PROVE AtIn(e, rec, i) = before[i]
  <2>1. keep = Len(rec.map)
    <3>1. ~(keep < Len(rec.map))
      BY <1>1, <1>8, <1>13 DEF Dangling, ClustersOf
    <3> QED BY <3>1, <1>5, <1>6, <1>7
  <2>2. \A c \in ClustersOf(rec) : e[c] = data[c]
    BY <2>1, <1>8, <1>10 DEF ClustersOf
  <2>3. AtIn(e, rec, i) = AtIn(data, rec, i)
    BY <2>2, <1>3, AtInSame
  <2> QED BY <2>3, <1>3
<1>14. CutInv'
  <2>1. H' = H
    BY <1>1 DEF H
  <2>2. \A i \in 1..call.len : AtIn(data, img, i)' = before[i]
    BY <1>10, <1>12 DEF AtIn, Place
  <2>3. ~Dangling' => \A i \in 1..rec.size : AtIn(data, rec, i)' = before[i]
    BY <1>1, <1>10, <1>13 DEF AtIn, Place
  <2> QED BY <2>1, <2>2, <2>3, <1>1, <1>3 DEF CutInv
<1>15. WorkInv' /\ DoesAsAsked'
  BY <1>1 DEF WorkInv, Writing, DoesAsAsked
<1> QED BY <1>14, <1>15 DEF AskBodyInv

LEMMA TrimFreeAsk == ASSUME IInv, TrimFree PROVE AskBodyInv'
<1>1. pc = "trim" /\ pc' = "shrink" /\ call' = call
  BY DEF TrimFree
<1>2. call.kind = "close"
  BY <1>1 DEF IInv, LocalInv, ImgInv
<1> QED BY <1>1, <1>2, CloseAsked DEF Writing

LEMMA ShrinkRecordAsk == ASSUME IInv, Body, CutInv, ShrinkRecord, trouble' = {} PROVE AskBodyInv'
<1>1. /\ pc = "shrink" /\ data' = data
      /\ \/ /\ rec' = img /\ Return("ok")
            /\ call.kind # "close" => Become(Resized(H), img.size # rec.size)
         \/ /\ rec' = rec /\ Return("failed")
            /\ call.kind # "close" => Become(H, FALSE)
            /\ Hit(IF Dangling THEN {"dangle"} ELSE {})
  BY DEF ShrinkRecord
<1>2. Cutting /\ call.kind \in {"resize", "close"}
  BY <1>1 DEF Cutting, IInv, LocalInv, ImgInv
<1>3. CASE call.kind = "close"
  BY <1>1, <1>3, CloseAsked DEF Return, Writing
<1>4. CASE call.kind = "resize"
  <2>1. /\ data \in [Cluster -> [1..PerCluster -> Units]] /\ rec.inUse
        /\ H \in HandleRec /\ H.pos = call.at
        /\ \A i \in 1..call.len : AtIn(data, img, i) = before[i]
    BY <1>1, <1>2, <1>4, CutAskIs
  <2>2. CASE rec' = img /\ Return("ok") /\ Become(Resized(H), img.size # rec.size)
    <3>1. Sound(img) /\ img.inUse = rec.inUse /\ img.size = call.len /\ img.init = img.size
      BY <1>1, <1>2, <1>4, CuttingIs DEF IInv, LocalInv, ImgInv, Body, ImageInv
    <3>2. PICK resized : resized = (img.size # rec.size)
      OBVIOUS
    <3>3. Become(Resized(H), resized)
      BY <2>2, <3>2
    <3> QED BY <2>1, <2>2, <3>1, <3>3, <1>1, <1>2, <1>4, CutDone
  <2>3. CASE /\ rec' = rec /\ Return("failed") /\ Become(H, FALSE)
             /\ Hit(IF Dangling THEN {"dangle"} ELSE {})
    <3>1. ~Dangling
      BY <2>3 DEF Hit
    <3> QED BY <2>1, <2>3, <3>1, <1>1, <1>2, <1>4, CutStays
  <2> QED BY <2>2, <2>3, <1>1, <1>4
<1> QED BY <1>2, <1>3, <1>4

(***************************************************************************)
(* The calls, and what they are asked                                      *)
(***************************************************************************)

\* A call that meets no trouble has a handle with the file's size, and finds the
\* file all written.
LEMMA BeginAsk ==
  ASSUME IInv, Body, trouble' = {}, NEW h \in Handle, NEW kind \in {"write", "resize"},
         NEW at \in 0..MaxUnits, NEW len \in Nat, NEW where \in {"enter", "cut"},
         Begin(h, kind, at, len, where), NEW p \in 0..MaxUnits, handles' = SetPosition(h, p)
  PROVE  /\ pc' = where /\ call' = [h |-> h, kind |-> kind, at |-> at, len |-> len]
         /\ rec.size \in Nat /\ handles[h].size = rec.size /\ rec' = rec
         /\ H'.size = rec.size /\ H'.pos = p
         /\ before' \in Seq(Units) /\ Len(before') = rec.size
         /\ \A i \in 1..rec'.size : AtIn(data', rec', i) = before'[i]
<1>1. /\ pc = "idle" /\ IsOpen(h) /\ pc' = where /\ trouble' = trouble \cup Standing(h)
      /\ call' = [h |-> h, kind |-> kind, at |-> at, len |-> len]
      /\ before' = Content /\ UNCHANGED <<bits, data, rec>>
  BY DEF Begin, MayCall, AtRest, disk
<1>2. /\ Sound(rec) /\ \A g \in Handle : IsOpen(g) => handles[g] \in HandleRec
      /\ data \in [Cluster -> [1..PerCluster -> Units]]
  BY <1>1, IdleIs DEF DiskInv
<1>3. handles[h].size \in Nat
  BY <1>1, <1>2 DEF HandleRec
<1>4. rec.size \in Nat /\ rec.init \in Nat /\ rec.init <= rec.size
  BY <1>2, RecordIs
<1>5. Standing(h) = {}
  BY <1>1
<1>6. handles[h].knows # "nothing"
  BY <1>5 DEF Standing
<1>7. ~(handles[h].size > rec.size) /\ ~(handles[h].size < rec.size) /\ ~(rec.init < rec.size)
  BY <1>5, <1>6 DEF Standing
<1>8. handles[h].size = rec.size /\ rec.init = rec.size
  BY <1>3, <1>4, <1>7
<1>9. rec.inUse
  BY <1>1, <1>6 DEF Body, InUseInv
<1>10. H'.size = handles[h].size /\ H'.pos = p
  BY BeginWorks
<1>11. before' = StoredIn(data, rec)
  BY <1>1, <1>9, ContentIs
<1>12. PICK s : s = StoredIn(data, rec)
  OBVIOUS
<1>13. s \in Seq(Units) /\ Len(s) = rec.size /\ \A i \in 1..rec.size : s[i] = AtIn(data, rec, i)
  BY <1>2, <1>8, <1>12, WholeIs
<1> QED BY <1>1, <1>4, <1>8, <1>10, <1>11, <1>12, <1>13

\* A write, or a resize of the file to more than it has.
LEMMA EnterAsk ==
  ASSUME IInv, Body, trouble' = {}, NEW h \in Handle, NEW kind \in {"write", "resize"},
         NEW at \in 0..MaxUnits, NEW len \in Nat, Begin(h, kind, at, len, "enter"),
         NEW v \in Value, NEW n \in Nat, stack' = <<Frame(v, n)>>,
         NEW p \in 0..MaxUnits, handles' = SetPosition(h, p),
         kind = "write" => len > 0 /\ p = at /\ v = Data /\ n = len,
         kind = "resize" => handles[h].size < len /\ p = len
  PROVE  AskBodyInv'
<1>1. /\ pc' = "enter" /\ call' = [h |-> h, kind |-> kind, at |-> at, len |-> len]
      /\ rec.size \in Nat /\ handles[h].size = rec.size /\ rec' = rec
      /\ H'.size = rec.size /\ H'.pos = p
      /\ before' \in Seq(Units) /\ Len(before') = rec.size
      /\ \A i \in 1..rec'.size : AtIn(data', rec', i) = before'[i]
  BY BeginAsk
<1>2. call'.kind = kind /\ call'.at = at /\ call'.len = len /\ p \in Nat
  BY <1>1, Constants
<1>3. PICK f : f = Frame(v, n)
  OBVIOUS
<1>4. f.val = v /\ f.len = n
  BY <1>3 DEF Frame
<1>5. stack' = <<f>>
  BY <1>3
<1>6. Len(stack') = 1 /\ stack'[1] = f
  BY <1>5
<1>7. Base(1)' = p
  BY <1>1, <1>6 DEF Base
<1>8. rec'.size <= Larger(Len(before'), Base(1)')
  BY <1>1, <1>2, <1>7 DEF Larger
<1>9. ASSUME NEW i \in 1..rec'.size PROVE AtIn(data, rec, i)' = Old(i)'
  <2>1. AtIn(data, rec, i)' = before'[i]
    BY <1>1 DEF AtIn, Place
  <2>2. i <= Len(before')
    BY <1>1
  <2> QED BY <2>1, <2>2 DEF Old
<1>10. kind = "resize" => rec.size < len
  BY <1>1
<1>11. kind = "resize" => rec'.size < H'.pos /\ Len(before') <= call'.len
  BY <1>1, <1>2, <1>10
<1>12. WorkInv'
  <2>1. /\ Len(before') <= rec'.size /\ H'.size = rec'.size /\ Len(stack') <= 2
        /\ Len(stack') # 2
    BY <1>1, <1>6
  <2>2. call'.kind = "write" => /\ call'.len > 0 /\ Base(1)' = call'.at
                                /\ stack'[1].val = Data /\ stack'[1].len = call'.len
    BY <1>2, <1>4, <1>6, <1>7
  <2>3. call'.kind = "resize" => Len(before') <= call'.len /\ rec'.size < H'.pos
    BY <1>2, <1>11
  <2> QED BY <2>1, <2>2, <2>3, <1>1, <1>8, <1>9 DEF WorkInv
<1>13. CutInv' /\ DoesAsAsked'
  BY <1>1 DEF CutInv, Cutting, DoesAsAsked
<1> QED BY <1>12, <1>13 DEF AskBodyInv

LEMMA CallAsk ==
  ASSUME IInv, Body, trouble' = {}, NEW h \in Handle,
         \/ CloseTrim(h)
         \/ \E p \in 0..MaxUnits :
              \/ \E n \in 0..MaxUnits : Extend(h, p, n) \/ Truncate(h, p, n)
              \/ \E n \in 1..MaxWrite : Write(h, p, n)
  PROVE  AskBodyInv'
<1>1. CASE CloseTrim(h)
  <2>1. pc' = "trim" /\ call'.kind = "close"
    BY <1>1 DEF CloseTrim, Begin
  <2> QED BY <2>1, CloseAsked DEF Writing
<1>2. ASSUME NEW p \in 0..MaxUnits, NEW n \in 0..MaxUnits, Extend(h, p, n)
      PROVE  AskBodyInv'
  <2>1. /\ Begin(h, "resize", p, n, "enter") /\ handles' = SetPosition(h, n)
        /\ n > handles[h].size /\ stack' = <<Frame(Zero, 0)>>
    BY <1>2 DEF Extend
  <2>2. n \in Nat /\ 0 \in Nat /\ Zero \in Value
    BY Constants
  <2>3. handles[h].size \in Nat
    BY <2>1, <2>2, BeginAsk
  <2>4. handles[h].size < n
    BY <2>1, <2>2, <2>3
  <2> QED BY <2>1, <2>2, <2>4, EnterAsk
<1>3. ASSUME NEW p \in 0..MaxUnits, NEW n \in 0..MaxUnits, Truncate(h, p, n)
      PROVE  AskBodyInv'
  <2>1. /\ Begin(h, "resize", p, n, "cut") /\ handles' = SetPosition(h, p)
        /\ n < handles[h].size
    BY <1>3 DEF Truncate
  <2>2. n \in Nat
    BY Constants
  <2>3. /\ pc' = "cut" /\ call' = [h |-> h, kind |-> "resize", at |-> p, len |-> n]
        /\ rec.size \in Nat /\ handles[h].size = rec.size /\ rec' = rec /\ H'.pos = p
        /\ before' \in Seq(Units) /\ Len(before') = rec.size
        /\ \A i \in 1..rec'.size : AtIn(data', rec', i) = before'[i]
    BY <2>1, <2>2, BeginAsk
  <2>4. call'.at = p /\ call'.len = n /\ call'.len <= rec'.size
    BY <2>1, <2>2, <2>3
  <2>5. \A i \in 1..rec'.size : AtIn(data, rec, i)' = before'[i]
    BY <2>3 DEF AtIn, Place
  <2>6. CutInv'
    BY <2>3, <2>4, <2>5 DEF CutInv
  <2>7. WorkInv' /\ DoesAsAsked'
    BY <2>3 DEF WorkInv, Writing, DoesAsAsked
  <2> QED BY <2>6, <2>7 DEF AskBodyInv
<1>4. ASSUME NEW p \in 0..MaxUnits, NEW n \in 1..MaxWrite, Write(h, p, n)
      PROVE  AskBodyInv'
  <2>1. /\ Begin(h, "write", p, n, "enter") /\ handles' = SetPosition(h, p)
        /\ stack' = <<Frame(Data, n)>>
    BY <1>4 DEF Write
  <2>2. n \in Nat /\ n > 0 /\ Data \in Value
    BY Constants
  <2> QED BY <2>1, <2>2, EnterAsk
<1> QED BY <1>1, <1>2, <1>3, <1>4

LEMMA StillAsk == ASSUME AskBodyInv, UNCHANGED vars PROVE AskBodyInv'
<1>1. UNCHANGED <<bits, data, rec, handles, pc, call, stack, img, before, trouble>>
  BY DEF vars, disk, local
<1>2. H' = H /\ Top' = Top /\ (Writing' <=> Writing) /\ (Cutting' <=> Cutting)
      /\ \A i : Old(i)' = Old(i)
  BY <1>1 DEF H, Top, Writing, Cutting, Old
<1>3. WorkInv'
  <2>1. Base(1)' = Base(1)
    BY <1>1, <1>2 DEF Base
  <2>2. \A i : AtIn(data, rec, i)' = AtIn(data, rec, i)
    BY <1>1 DEF AtIn, Place
  <2> QED BY <2>1, <2>2, <1>1, <1>2 DEF AskBodyInv, WorkInv, Larger
<1>4. CutInv'
  <2>1. Dangling' = Dangling
    BY <1>1 DEF Dangling, ClustersOf
  <2>2. \A i : /\ AtIn(data, rec, i)' = AtIn(data, rec, i)
               /\ AtIn(data, img, i)' = AtIn(data, img, i)
    BY <1>1 DEF AtIn, Place
  <2> QED BY <2>1, <2>2, <1>1, <1>2 DEF AskBodyInv, CutInv
<1>5. DoesAsAsked'
  <2>1. Dangling' = Dangling
    BY <1>1 DEF Dangling, ClustersOf
  <2>2. Content' = Content
    BY <2>1, <1>1 DEF Content, Stored, At, Place
  <2>3. AskedFor' = AskedFor
    BY <1>1, SameAsked
  <2> QED BY <2>2, <2>3, <1>1, <1>2 DEF AskBodyInv, DoesAsAsked, Padded, Larger, Smaller
<1> QED BY <1>3, <1>4, <1>5 DEF AskBodyInv

LEMMA StepAsk ==
  ASSUME IInv, IInv', Body, AskBodyInv, trouble' = {}, Step PROVE AskBodyInv'
<1> USE DEF AskBodyInv
<1>1. CASE Answer
  BY <1>1, RestAsked DEF Answer
<1>2. CASE FillGap
  BY <1>2, FillGapAsk
<1>3. CASE WriteNothing
  BY <1>3, WriteNothingAsk
<1>4. CASE WriteResident
  BY <1>4, WriteResidentAsk
<1>5. CASE ConvertAllocate
  BY <1>5, ConvertAllocateAsk
<1>6. CASE ConvertRefused \/ GrowRefused
  BY <1>6, RefusedAsk DEF ConvertRefused, GrowRefused, disk
<1>7. CASE ConvertFill
  BY <1>7, ConvertFillAsk
<1>8. CASE GrowAllocate
  BY <1>8, GrowAllocateAsk
<1>9. CASE WriteData
  BY <1>9, WriteDataAsk
<1>10. CASE WriteRecord
  BY <1>10, WriteRecordAsk
<1>11. CASE CutNothing
  BY <1>11, CutNothingAsk
<1>12. CASE CutRefused
  BY <1>12, CutRefusedAsk
<1>13. CASE CutResident
  BY <1>13, CutResidentAsk
<1>14. CASE CutFree
  BY <1>14, CutFreeAsk
<1>15. CASE ShrinkRecord
  BY <1>15, ShrinkRecordAsk
<1>16. CASE TrimFree
  BY <1>16, TrimFreeAsk
<1> QED BY <1>1, <1>2, <1>3, <1>4, <1>5, <1>6, <1>7, <1>8, <1>9, <1>10, <1>11, <1>12,
           <1>13, <1>14, <1>15, <1>16 DEF Step

LEMMA AskStep ==
  ASSUME IInv, IInv', ContentInv, AskInv, [Next]_vars PROVE AskInv'
<1> SUFFICES ASSUME trouble' = {} PROVE AskBodyInv'
  BY DEF AskInv
<1>1. trouble = {}
  BY TroubleStays
<1>2. Body /\ AskBodyInv
  BY <1>1 DEF ContentInv, Follows, AskInv
<1>3. CASE Step
  BY <1>2, <1>3, StepAsk
<1>4. CASE Crash
  BY <1>4, RestAsked DEF Crash
<1>5. CASE Over \/ UNCHANGED vars
  BY <1>2, <1>5, StillAsk DEF Over
<1>6. ASSUME NEW h \in Handle, Call(h) PROVE AskBodyInv'
  <2>1. CASE Open(h) \/ Create(h) \/ Close(h) \/ Delete(h) \/ DeleteRefused(h)
    <3>1. pc' = "idle"
      BY <2>1 DEF Open, Create, Close, Delete, DeleteRefused, MayCall, AtRest
    <3> QED BY <3>1, RestAsked
  <2>2. CASE \/ CloseTrim(h)
             \/ \E p \in 0..MaxUnits :
                  \/ \E n \in 0..MaxUnits : Extend(h, p, n) \/ Truncate(h, p, n)
                  \/ \E n \in 1..MaxWrite : Write(h, p, n)
    BY <2>2, <1>2, CallAsk
  <2> QED BY <1>6, <2>1, <2>2 DEF Call
<1> QED BY <1>3, <1>4, <1>5, <1>6 DEF Next

LEMMA AskInit == Init => AskInv
BY DEF Init, AskInv, AskBodyInv, WorkInv, CutInv, DoesAsAsked, Writing, Cutting

\* A call that is met by no trouble does what it was asked, or fails having
\* changed nothing but units that it was to change: for any file that maps no
\* cluster twice, any number of handles and any position and length.
THEOREM CallsDoAsAsked == MappedOnce => (Spec => []DoesAsAsked)
<1> SUFFICES ASSUME MappedOnce PROVE Spec => []DoesAsAsked
  OBVIOUS
<1>1. Init => ContentInv /\ AskInv
  BY ContentInit, AskInit
<1>2. IInv /\ IInv' /\ ContentInv /\ AskInv /\ [Next]_vars => ContentInv' /\ AskInv'
  BY ContentStep, AskStep
<1>3. AskInv => DoesAsAsked
  BY DEF AskInv, AskBodyInv, DoesAsAsked
<1>4. Spec => [](ContentInv /\ AskInv)
  BY <1>1, <1>2, Inductive, PTL DEF Spec
<1> QED BY <1>3, <1>4, PTL
=============================================================================
