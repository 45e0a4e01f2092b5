------------------------------ MODULE NtfsFile ------------------------------
(***************************************************************************)
(* The content of one file, and the handles that callers have to it: read, *)
(* write in place and past the end, SetPosition, SetInfo of the size,      *)
(* Close and Delete.  A handle keeps a copy of the file's size from when   *)
(* it was opened and follows its own calls only.                           *)
(*                                                                         *)
(* Lengths are in units, PerCluster of them to a cluster; a unit has one   *)
(* value: Zero, Data, which callers write, or Junk, what is in a cluster   *)
(* that another file may have had.  A write of data may fail               *)
(* after any unit, a write of a record as a whole, and the power may go    *)
(* between any two.  Every handle is open for writing.                     *)
(***************************************************************************)
EXTENDS Naturals, Sequences, FiniteSets

CONSTANTS
  Cluster,
  PerCluster,   \* units in a cluster
  Chunk,        \* the zeros that fill a gap, 4096 bytes in the code
  Room,         \* the longest value that fits in the record
  Quantum,      \* NTFS_WRITE_PREALLOC_BYTES, in clusters
  Handle,
  Zero, Data, Junk, None,
  Files,        \* the records that another system may have left
  MaxUnits,     \* bound on positions and sizes that callers ask for
  MaxWrite,     \* bound on the length of a write
  MaxFaults     \* bound on the disk writes that fail and the losses of power

ASSUME BoundAssumption ==
  /\ IsFiniteSet(Cluster)
  /\ {PerCluster, Chunk, Quantum, MaxWrite} \subseteq Nat \ {0}
  /\ {Room, MaxUnits, MaxFaults} \subseteq Nat
  /\ Cardinality({Zero, Data, Junk, None}) = 4 /\ None \notin Handle

VARIABLES
  bits,      \* on disk: $Bitmap
  data,      \* on disk: the clusters
  rec,       \* on disk: the file's record
  handles,   \* the open handles
  pc, call,  \* the running call, and where it is
  stack,     \* NtfsEfiWrite and its calls of itself
  img,       \* its copy of the record
  before,    \* history: the content when it began
  kept,      \* history: slack that no open handle answers for
  trouble,   \* history: what has gone wrong so far
  faults

disk  == <<bits, data, rec>>
local == <<call, stack, img, before>>
vars  == <<disk, handles, pc, local, kept, trouble, faults>>

Value == {Zero, Data}

(***************************************************************************)
(* The record: size is DataSize, init InitializedSize, and value the       *)
(* resident $DATA.                                                         *)
(***************************************************************************)
NewFile == [inUse |-> TRUE, resident |-> TRUE,
             value |-> << >>, map |-> << >>, size |-> 0, init |-> 0]

Larger(a, b)  == IF a > b THEN a ELSE b
Smaller(a, b) == IF a < b THEN a ELSE b

\* Mutant: the division rounds down.
MutantClusters(units) == units \div PerCluster
Clusters(units) == (units + PerCluster - 1) \div PerCluster
ClustersOf(r) == {r.map[i] : i \in DOMAIN r.map}
Allocated(r) == Len(r.map) * PerCluster
Slack(r) == r.inUse /\ ~r.resident /\ Clusters(r.size) < Len(r.map)

Units == Value \cup {Junk}
FileRec == [inUse : BOOLEAN, resident : BOOLEAN, value : Seq(Units),
            map : Seq(Cluster), size : Nat, init : Nat]

\* A file is as long as its value, or no longer than its clusters.
Sound(r) ==
  /\ r \in FileRec /\ r.init <= r.size
  /\ IF r.resident THEN r.size = Len(r.value) ELSE r.size <= Allocated(r)

ASSUME FilesAssumption == \A r \in Files : Sound(r)

\* s with n times v at p, and zeros between its end and p.
Splice(s, p, n, v) ==
  [i \in 1..Larger(Len(s), p + n) |->
     IF i \in (p + 1)..(p + n) THEN v ELSE IF i <= Len(s) THEN s[i] ELSE Zero]

\* Where unit i of the file lies.
Place(r, i) == <<r.map[((i - 1) \div PerCluster) + 1], ((i - 1) % PerCluster) + 1>>

\* NtfsEfiReadAttr: unit i of the attribute, wherever its size says it ends.
At(r, i) == IF r.resident THEN r.value[i] ELSE data[Place(r, i)[1]][Place(r, i)[2]]

\* The file as NTFS defines it: beyond InitializedSize it is zero.
Stored(r) == [i \in 1..r.size |-> IF i <= r.init THEN At(r, i) ELSE Zero]

\* The file maps clusters that are free.
Dangling == ~(ClustersOf(rec) \subseteq bits)

\* A cut that frees clusters is done when they are free; the record follows.
Content ==
  IF ~rec.inUse THEN None ELSE Stored(IF pc = "shrink" /\ Dangling THEN img ELSE rec)

\* The clusters when the first k units at p of r have been written.
Written(r, p, k, v) ==
  [c \in Cluster |-> [j \in 1..PerCluster |->
     IF \E i \in (p + 1)..(p + k) : Place(r, i) = <<c, j>> THEN v ELSE data[c][j]]]

\* A free cluster may have been another file's since.
Spoilt(S) == [c \in Cluster |-> IF c \in S THEN [j \in 1..PerCluster |-> Junk] ELSE data[c]]

(***************************************************************************)
(* Handles and calls                                                       *)
(***************************************************************************)
HandleRec == [size : Nat, pos : 0..MaxUnits, grew : BOOLEAN,
              knows : {"size", "file", "nothing"}]

ASSUME NoneAssumption == None \notin HandleRec /\ None \notin Seq(Units)

Opened == [size |-> rec.size, pos |-> 0, grew |-> FALSE, knows |-> "size"]
IsOpen(h) == handles[h] # None
H == handles[call.h]

NoCall == [h |-> None, kind |-> None, at |-> 0, len |-> 0]
NoImage == NewFile
Frame(val, len) == [val |-> val, len |-> len, goal |-> 0, gap |-> 0, done |-> 0]
Top == stack[Len(stack)]

AtRest == pc = "idle"

\* The call that meets trouble is followed to its end, and is the last.
MayCall == AtRest /\ trouble = {}

\* How the handle stands to the file, when a call begins to change it.
Standing(h) ==
  IF handles[h].knows = "nothing" THEN {"orphan"}
  ELSE (IF handles[h].size > rec.size THEN {"beyond"} ELSE {})
       \cup (IF handles[h].size < rec.size THEN {"behind"} ELSE {})
       \cup (IF rec.init < rec.size THEN {"uninit"} ELSE {})

Begin(h, kind, at, len, where) ==
  /\ MayCall /\ IsOpen(h)
  /\ pc' = where
  /\ call' = [h |-> h, kind |-> kind, at |-> at, len |-> len]
  /\ before' = Content /\ img' = NoImage
  /\ trouble' = trouble \cup Standing(h)
  /\ UNCHANGED <<disk, kept, faults>>

\* The call has come to its end, "ok" or "failed".
Return(how) == pc' = how /\ stack' = << >> /\ img' = NoImage /\ UNCHANGED <<call, before>>

Hit(what) == trouble' = trouble \cup what
Fault == faults < MaxFaults /\ faults' = faults + 1
NoFault == UNCHANGED faults

\* The caller's handle becomes new; the other ones know nothing of a new size.
Become(new, resized) ==
  handles' = [h \in Handle |->
    IF h = call.h THEN new
    ELSE IF resized /\ IsOpen(h) /\ handles[h].knows = "size"
         THEN [handles[h] EXCEPT !.knows = "file"] ELSE handles[h]]

\* Mutant: the position is not put back.
MutantFail(new, resized) == Become(new, resized) /\ Return("failed")

\* The write on top of the stack is refused, and so are those that called it:
\* each puts back the position it was called with.
Fail(new, resized) ==
  /\ Become([new EXCEPT !.pos = IF call.kind = "resize" THEN call.at
                                ELSE IF Len(stack) > 1 THEN stack[1].goal ELSE @], resized)
  /\ Return("failed")

\* NtfsEfiSetInfo, when the resize is done.
Resized(new) == [new EXCEPT !.size = call.len, !.pos = Smaller(call.at, call.len)]

\* The write on top has done its work; under another one it was a chunk of
\* zeros, and the next chunk or that one's own data follows.
Finish(new, resized) ==
  IF Len(stack) = 1
  THEN /\ Become(IF call.kind = "resize" THEN Resized(new) ELSE new, resized)
       /\ Return("ok")
  ELSE LET up   == stack[Len(stack) - 1]
           left == up.gap - Top.len
           rest == SubSeq(stack, 1, Len(stack) - 2) \o <<[up EXCEPT !.gap = left]>>
       IN  /\ Become(IF left = 0 THEN [new EXCEPT !.pos = up.goal] ELSE new, resized)
           /\ stack' = IF left = 0 THEN rest ELSE Append(rest, Frame(Zero, Smaller(Chunk, left)))
           /\ pc' = IF left = 0 THEN "put" ELSE "enter"
           /\ img' = NoImage
           /\ UNCHANGED <<call, before>>

(***************************************************************************)
(* NtfsEfiOpen, NtfsEfiSetPosition, NtfsEfiRead                            *)
(***************************************************************************)
Open(h) ==
  /\ MayCall /\ ~IsOpen(h) /\ rec.inUse
  /\ handles' = [handles EXCEPT ![h] = Opened]
  /\ UNCHANGED <<disk, pc, local, kept, trouble, faults>>

\* The free record is taken for a new file: NtfsStore has the steps.
Create(h) ==
  /\ MayCall /\ ~IsOpen(h) /\ ~rec.inUse
  /\ rec' = NewFile
  /\ handles' = [handles EXCEPT ![h] = [Opened EXCEPT !.size = 0]]
  /\ UNCHANGED <<bits, data, pc, local, kept, trouble, faults>>

\* Between two calls the caller may set any position, so that the one a call
\* leaves is forgotten and the next call begins with this.
SetPosition(h, p) == [handles EXCEPT ![h].pos = p]

\* Where a read ends: at the size that the handle has, and at the end of the
\* value or of the clusters.
ReadEnd(h) ==
  Smaller(handles[h].size, IF rec.resident THEN Len(rec.value) ELSE Allocated(rec))

\* What a read of the whole file returns.  It changes nothing but the position.
Read(h) == [i \in 1..ReadEnd(h) |-> At(rec, i)]

(***************************************************************************)
(* NtfsEfiWrite                                                            *)
(***************************************************************************)
Write(h, p, n) ==
  /\ Begin(h, "write", p, n, "enter")
  /\ p + n <= MaxUnits
  /\ stack' = <<Frame(Data, n)>>
  /\ handles' = SetPosition(h, p)

\* The position is past the size that the handle has: the gap is filled from
\* there in chunks of zeros, each a call of the whole function.
FillGap ==
  /\ pc = "enter" /\ H.pos > H.size
  /\ LET gap == H.pos - H.size
     IN  stack' = [stack EXCEPT ![Len(stack)] = [@ EXCEPT !.goal = H.pos, !.gap = gap]]
                  \o <<Frame(Zero, Smaller(Chunk, gap))>>
  /\ Become([H EXCEPT !.pos = H.size], FALSE)
  /\ UNCHANGED <<disk, pc, call, img, before, kept, trouble, faults>>

\* The data of the write on top comes next, at target - Top.len.
Ready == pc = "put" \/ (pc = "enter" /\ H.pos <= H.size)
Target == H.pos + Top.len
Moved(n) == [H EXCEPT !.pos = @ + n]

\* Mutant: the handle does not learn of the size it has made.
MutantGrownTo(new) == new
GrownTo(new) == [new EXCEPT !.size = Larger(@, Target)]

WriteNothing ==
  /\ Ready /\ Top.len = 0
  /\ Finish(H, FALSE)
  /\ UNCHANGED <<disk, kept, trouble, faults>>

InRecord == Target <= Larger(Len(rec.value), Room)

\* The value is changed, and grown, in the record.
WriteResident ==
  /\ Ready /\ Top.len > 0 /\ rec.resident /\ InRecord
  /\ LET value == Splice(rec.value, H.pos, Top.len, Top.val)
         grows == Len(value) > Len(rec.value)
     IN  \/ /\ rec' = [rec EXCEPT !.value = value, !.size = Len(value), !.init = Len(value)]
            /\ Finish(IF grows THEN GrownTo(Moved(Top.len)) ELSE Moved(Top.len), grows)
            /\ NoFault
         \/ Fail(H, FALSE) /\ Fault /\ UNCHANGED rec
  /\ UNCHANGED <<bits, data, kept, trouble>>

\* k free clusters, in the order in which they are taken.
FreeRun(k) ==
  {run \in [1..k -> Cluster \ bits] : \A i, j \in 1..k : run[i] = run[j] => i = j}

\* NtfsConvertResidentDataToNonResident: one run, or nothing.
ConvertAllocate ==
  /\ Ready /\ Top.len > 0 /\ rec.resident /\ ~InRecord
  /\ LET k == Larger(Clusters(Target), Quantum)
     IN  \E run \in FreeRun(k) :
           /\ bits' = bits \cup {run[i] : i \in 1..k}
           /\ img' = [rec EXCEPT !.resident = FALSE, !.value = << >>, !.size = Target,
                                 !.init = Target, !.map = run]
  /\ pc' = "head"
  /\ UNCHANGED <<data, rec, handles, call, stack, before, kept, trouble, faults>>

\* No cluster, a run too short (given back), or no room for its mapping pair.
ConvertRefused ==
  /\ Ready /\ Top.len > 0 /\ rec.resident /\ ~InRecord
  /\ Fail(H, FALSE)
  /\ UNCHANGED <<disk, kept, trouble, faults>>

\* Mutant: the old value is not carried over.
MutantComposed == Splice(<< >>, H.pos, Top.len, Top.val)

\* What the clusters begin with: the old value, a gap, the data.
Composed == Splice(SubSeq(rec.value, 1, Smaller(Len(rec.value), H.pos)), H.pos, Top.len, Top.val)

\* All clusters are zeroed, then the head is laid over them.
ConvertFill ==
  /\ pc = "head"
  /\ LET unit(i) == IF i <= Len(Composed) THEN Composed[i] ELSE Zero
         new == ClustersOf(img)
     IN  \/ /\ data' = [c \in Cluster |->
                 IF c \notin new THEN data[c]
                 ELSE LET k == CHOOSE k \in DOMAIN img.map : img.map[k] = c
                      IN  [j \in 1..PerCluster |-> unit((k - 1) * PerCluster + j)]]
            /\ stack' = [stack EXCEPT ![Len(stack)].done = Top.len]
            /\ pc' = "record"
            /\ UNCHANGED <<bits, handles, call, img, before, faults>>
         \/ Fault /\ bits' = bits \ new /\ Fail(H, FALSE) /\ UNCHANGED data
  /\ UNCHANGED <<rec, kept, trouble>>

InClusters == Target <= Allocated(rec)

\* Mutant: DidGrow is not set.
MutantGrowing(new) == new
Growing(new) == [new EXCEPT !.grew = TRUE]

\* The loop that allocates runs: as many clusters as it takes, at least Quantum.
GrowAllocate ==
  /\ Ready /\ Top.len > 0 /\ ~rec.resident /\ ~InClusters
  /\ LET k == Larger(Clusters(Target - Allocated(rec)), Quantum)
     IN  \E new \in FreeRun(k) :
           /\ bits' = bits \cup {new[i] : i \in 1..k}
           /\ img' = [rec EXCEPT !.map = @ \o new]
  /\ pc' = "data"
  /\ Become(Growing(H), FALSE)
  /\ UNCHANGED <<data, rec, call, stack, before, kept, trouble, faults>>

\* The volume is full or the record has no room: what was allocated is freed.
GrowRefused ==
  /\ Ready /\ Top.len > 0 /\ ~rec.resident /\ ~InClusters
  /\ Fail(H, FALSE)
  /\ UNCHANGED <<disk, kept, trouble, faults>>

\* NtfsEfiWriteAttr, of k units.  When that is short the sizes move all the same.
WriteData ==
  /\ \/ pc = "data"
     \/ Ready /\ Top.len > 0 /\ ~rec.resident /\ InClusters
  /\ LET r == IF pc = "data" THEN img ELSE rec
     IN  \E k \in 0..Top.len :
           /\ IF k = Top.len THEN NoFault ELSE Fault
           /\ data' = Written(r, H.pos, k, Top.val)
           /\ IF Target > rec.size
              THEN /\ img' = [r EXCEPT !.size = Target, !.init = Target]
                   /\ stack' = [stack EXCEPT ![Len(stack)].done = k]
                   /\ pc' = "record"
                   /\ Hit(IF k = Top.len THEN {} ELSE {"short"})
                   /\ UNCHANGED <<handles, call, before>>
              ELSE /\ UNCHANGED trouble
                   /\ IF k = Top.len THEN Finish(Moved(k), FALSE) ELSE Fail(Moved(k), FALSE)
  /\ UNCHANGED <<bits, rec, kept>>

\* The sizes and the run list go to disk together.  When that fails, new
\* clusters stay marked.
WriteRecord ==
  /\ pc = "record"
  /\ \/ /\ rec' = img
        /\ kept' = IF rec.resident THEN Slack(img) ELSE kept
        /\ LET new == GrownTo(Moved(Top.done))
           IN  IF Top.done = Top.len THEN Finish(new, TRUE) ELSE Fail(new, TRUE)
        /\ NoFault
        /\ UNCHANGED data
     \/ /\ Fault /\ Fail(H, FALSE) /\ UNCHANGED <<rec, kept>>
        /\ data' = Spoilt(ClustersOf(img) \ ClustersOf(rec))
  /\ UNCHANGED <<bits, trouble>>

(***************************************************************************)
(* NtfsEfiSetInfo of the size: a larger one is a write of nothing there,   *)
(* a smaller one is NtfsEfiSetFileSize.                                    *)
(***************************************************************************)
Extend(h, p, n) ==
  /\ Begin(h, "resize", p, n, "enter")
  /\ n > handles[h].size
  /\ stack' = <<Frame(Zero, 0)>>
  /\ handles' = SetPosition(h, n)

Truncate(h, p, n) ==
  /\ Begin(h, "resize", p, n, "cut")
  /\ n < handles[h].size
  /\ handles' = SetPosition(h, p)
  /\ UNCHANGED stack

CutNothing ==
  /\ pc = "cut" /\ call.len = rec.size
  /\ Become(Resized(H), FALSE) /\ Return("ok")
  /\ UNCHANGED <<disk, kept, trouble, faults>>

CutRefused ==
  /\ pc = "cut" /\ call.len > rec.size
  /\ Fail(H, FALSE)
  /\ UNCHANGED <<disk, kept, trouble, faults>>

CutResident ==
  /\ pc = "cut" /\ call.len < rec.size /\ rec.resident
  /\ \/ /\ rec' = [rec EXCEPT !.value = SubSeq(@, 1, call.len), !.size = call.len, !.init = call.len]
        /\ Become(Resized(H), TRUE) /\ Return("ok") /\ NoFault
     \/ Fault /\ Fail(H, FALSE) /\ UNCHANGED rec
  /\ UNCHANGED <<bits, data, kept, trouble>>

\* NtfsShrinkNonResidentRuns: the tail is free before the record is written.
FreeTail(keep) ==
  LET tail == {rec.map[i] : i \in (keep + 1)..Len(rec.map)}
  IN  bits' = bits \ tail /\ data' = Spoilt(tail)

CutFree ==
  /\ pc = "cut" /\ call.len < rec.size /\ ~rec.resident
  /\ FreeTail(Clusters(call.len))
  /\ img' = [rec EXCEPT !.map = SubSeq(@, 1, Clusters(call.len)), !.size = call.len,
                        !.init = Smaller(@, call.len)]
  /\ pc' = "shrink"
  /\ UNCHANGED <<rec, handles, call, stack, before, kept, trouble, faults>>

ShrinkRecord ==
  /\ pc = "shrink"
  /\ LET After(new) == IF call.kind = "close" THEN None ELSE new
     IN  \/ /\ rec' = img /\ kept' = FALSE
            /\ Become(After(Resized(H)), img.size # rec.size) /\ Return("ok")
            /\ NoFault /\ UNCHANGED trouble
         \/ /\ Become(After(H), FALSE) /\ Return("failed")
            /\ Fault /\ Hit(IF Dangling THEN {"dangle"} ELSE {})
            /\ UNCHANGED <<rec, kept>>
  /\ UNCHANGED <<bits, data>>

(***************************************************************************)
(* NtfsEfiClose and NtfsEfiDelete                                          *)
(***************************************************************************)
Trims(h) == handles[h].grew /\ ~rec.resident /\ Clusters(rec.size) < Len(rec.map)

Close(h) ==
  /\ MayCall /\ IsOpen(h) /\ ~Trims(h)
  /\ handles' = [handles EXCEPT ![h] = None]
  /\ UNCHANGED <<disk, pc, local, kept, trouble, faults>>

\* NtfsEfiTrimAllocation.
CloseTrim(h) ==
  /\ Begin(h, "close", 0, 0, "trim")
  /\ Trims(h)
  /\ UNCHANGED <<handles, stack>>

TrimFree ==
  /\ pc = "trim"
  /\ FreeTail(Clusters(rec.size))
  /\ img' = [rec EXCEPT !.map = SubSeq(@, 1, Clusters(rec.size))]
  /\ pc' = "shrink"
  /\ UNCHANGED <<rec, handles, call, stack, before, kept, trouble, faults>>

Others(h) == [g \in Handle |-> IF g = h THEN None
                               ELSE IF IsOpen(g) THEN [handles[g] EXCEPT !.knows = "nothing"] ELSE None]

\* The file of that record number goes, whichever it is: NtfsStore has the steps.
Delete(h) ==
  /\ MayCall /\ IsOpen(h) /\ rec.inUse
  /\ bits' = bits \ ClustersOf(rec) /\ data' = Spoilt(ClustersOf(rec))
  /\ rec' = [rec EXCEPT !.inUse = FALSE]
  /\ handles' = Others(h) /\ kept' = FALSE
  /\ Hit(IF "orphan" \in Standing(h) THEN {"orphan"} ELSE {})
  /\ UNCHANGED <<pc, local, faults>>

\* Refused, the handle goes all the same, untrimmed.
DeleteRefused(h) ==
  /\ MayCall /\ IsOpen(h)
  /\ handles' = [handles EXCEPT ![h] = None]
  /\ kept' = (kept \/ Slack(rec))
  /\ UNCHANGED <<disk, pc, local, trouble, faults>>

\* Power loss: handles and the running call are gone.
Crash ==
  /\ \/ pc # "idle"
     \/ \E h \in Handle : IsOpen(h)
  /\ handles' = [h \in Handle |-> None]
  /\ data' = Spoilt(Cluster \ ClustersOf(rec))
  /\ kept' = (kept \/ Slack(rec))
  /\ Hit(IF rec.inUse /\ Dangling THEN {"dangle"} ELSE {})
  /\ Fault
  /\ pc' = "idle" /\ call' = NoCall /\ stack' = << >> /\ img' = NoImage /\ before' = None
  /\ UNCHANGED <<bits, rec>>

Init ==
  /\ rec \in Files
  /\ bits = ClustersOf(rec)
  /\ data = [c \in Cluster |-> [j \in 1..PerCluster |->
       IF ~rec.resident /\ \E i \in 1..rec.init : Place(rec, i) = <<c, j>> THEN Zero ELSE Junk]]
  /\ handles = [h \in Handle |-> None]
  /\ pc = "idle" /\ call = NoCall /\ stack = << >> /\ img = NoImage
  /\ before = None
  /\ kept = Slack(rec) /\ trouble = {} /\ faults = 0

Answer ==
  /\ pc \in {"ok", "failed"}
  /\ pc' = "idle" /\ call' = NoCall /\ before' = None
  /\ handles' = [h \in Handle |-> IF IsOpen(h) THEN [handles[h] EXCEPT !.pos = 0] ELSE None]
  /\ UNCHANGED <<disk, stack, img, kept, trouble, faults>>

Step ==
  \/ Answer \/ FillGap \/ WriteNothing \/ WriteResident
  \/ ConvertAllocate \/ ConvertRefused \/ ConvertFill
  \/ GrowAllocate \/ GrowRefused \/ WriteData \/ WriteRecord
  \/ CutNothing \/ CutRefused \/ CutResident \/ CutFree \/ ShrinkRecord \/ TrimFree

Call(h) ==
  \/ Open(h) \/ Create(h) \/ Close(h) \/ CloseTrim(h) \/ Delete(h) \/ DeleteRefused(h)
  \/ \E p \in 0..MaxUnits :
       \/ \E n \in 0..MaxUnits : Extend(h, p, n) \/ Truncate(h, p, n)
       \/ \E n \in 1..MaxWrite : Write(h, p, n)

\* No call is followed that comes after trouble.
Over == AtRest /\ trouble # {} /\ UNCHANGED vars

Next == Step \/ Crash \/ Over \/ \E h \in Handle : Call(h)

Spec == Init /\ [][Next]_vars

(***************************************************************************)
(* Properties                                                              *)
(***************************************************************************)
\* Types; a file is never longer than what it has, on disk or in the image of
\* a running call.
TypeOK ==
  /\ bits \subseteq Cluster
  /\ data \in [Cluster -> [1..PerCluster -> Units]]
  /\ Sound(rec) /\ Sound(img)
  /\ handles \in [Handle -> HandleRec \cup {None}]
  /\ pc \in {"idle", "enter", "put", "head", "data", "record", "cut", "shrink", "trim", "ok", "failed"}
  /\ kept \in BOOLEAN
  /\ trouble \subseteq {"orphan", "beyond", "behind", "uninit", "short", "dangle"}

\* What a caller does not see happen in another way: the calls change the
\* content by puts of their data or of zeros and by cuts, at any prefix of
\* their writes, failed ones and power losses included, so that neither what a
\* cluster held before nor a part of another write ever shows.  Not so when the
\* handle has a size larger than the file's, or a file of its record's past;
\* when InitializedSize was behind the size; after a short write of data or a
\* cut whose record was not written.
File == INSTANCE FileContent WITH content <- Content, Longest <- MaxUnits
ImplementsFile ==
  [][trouble' \subseteq {"behind"} => File!Next \/ UNCHANGED Content]_vars

Padded(s, n) == [i \in 1..n |-> IF i <= Len(s) THEN s[i] ELSE Zero]
AskedFor ==
  IF call.kind = "resize" THEN Padded(before, call.len)
  ELSE Splice(before, call.at, call.len, Data)

\* A call that succeeds has done what it was asked, from the content that it
\* found: a write is at its position, with zeros before it where the file was
\* shorter, and the handle is behind the data; a resize has kept the rest.  One
\* that fails has changed nothing but units it was to change, and left the
\* position of the handle inside what was written or where it was.
DoesAsAsked ==
  call.kind \in {"write", "resize"} /\ trouble = {} =>
    /\ pc = "ok" =>
         /\ Content = AskedFor
         /\ H.pos = IF call.kind = "write" THEN call.at + call.len ELSE Smaller(call.at, call.len)
    /\ pc = "failed" =>
         /\ Len(Content) \in Len(before)..Larger(Len(before), Len(AskedFor))
         /\ \A i \in 1..Len(Content) :
              Content[i] \in {Padded(before, i)[i], Padded(AskedFor, i)[i]}
         /\ H.pos \in call.at..(call.at + call.len)

\* A handle has the right size until somebody else changes it, whichever of its
\* own calls have failed, and half way: it reads the whole content and nothing
\* beyond (where InitializedSize is not behind).  So the filling of a gap never
\* finds another gap: the function calls itself once only.
ReadsContent ==
  \A h \in Handle : IsOpen(h) /\ handles[h].knows = "size" =>
    /\ AtRest /\ rec.init = rec.size /\ "dangle" \notin trouble => Read(h) = Content
    /\ call.h = h => Len(stack) <= 2

\* No cluster stays preallocated when the handles that did it are closed, but
\* for the conversion of a resident file (which does not set DidGrow,
\* ntfs_file.c:1311), a refused delete and a loss of power.
SlackReturned ==
  AtRest /\ ~kept /\ Slack(rec) /\ trouble \subseteq {"behind", "beyond", "uninit", "short"} =>
    \E h \in Handle : IsOpen(h) /\ handles[h].grew

=============================================================================
