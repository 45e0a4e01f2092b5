-------------------------- MODULE NtfsStoreProofs --------------------------
(***************************************************************************)
(* Theorems about NtfsStore, for every volume size, number of records,     *)
(* crashes and failed writes.                                              *)
(***************************************************************************)
EXTENDS NtfsStore, FiniteSetTheorems, TLAPS

(***************************************************************************)
(* Lemmas about cluster maps                                               *)
(***************************************************************************)

\* The map of a run has one entry for each cluster of the run.
LEMMA RunMapLemma ==
  ASSUME NEW start \in Nat, NEW k \in Nat, Run(start, k) \subseteq Cluster
  PROVE  /\ RunMap(start, k) \in MapType
         /\ Len(RunMap(start, k)) = k
         /\ ClustersOf(RunMap(start, k)) = Run(start, k)
         /\ NoRepeat(RunMap(start, k))
<1>1. \A i \in 1..k : start + i - 1 \in Run(start, k)
  BY DEF Run
<1>2. RunMap(start, k) \in MapType
  <2>1. RunMap(start, k) \in [1..k -> Cluster \cup {Hole}]
    BY <1>1 DEF RunMap
  <2> QED BY <2>1 DEF MapType
<1>3. Len(RunMap(start, k)) = k
  BY DEF RunMap
<1>4. \A i \in 1..k : RunMap(start, k)[i] = start + i - 1
  BY DEF RunMap
<1>5. Hole \notin Run(start, k)
  BY ClusterAssumption
<1>6. ClustersOf(RunMap(start, k)) = Run(start, k)
  <2>1. ASSUME NEW c \in Run(start, k)
        PROVE  \E i \in 1..k : RunMap(start, k)[i] = c
    <3>1. c - start + 1 \in 1..k /\ start + (c - start + 1) - 1 = c
      BY <2>1 DEF Run
    <3> QED BY <3>1, <1>4
  <2>2. ASSUME NEW c \in ClustersOf(RunMap(start, k)) PROVE c \in Run(start, k)
    BY <1>1, <1>3, <1>4 DEF ClustersOf
  <2>3. ASSUME NEW c \in Run(start, k) PROVE c \in ClustersOf(RunMap(start, k))
    BY <2>1, <1>3, <1>5 DEF ClustersOf
  <2> QED BY <2>2, <2>3
<1>7. NoRepeat(RunMap(start, k))
  BY <1>3, <1>4 DEF NoRepeat
<1> QED BY <1>2, <1>3, <1>6, <1>7

\* Appending a map to another adds its clusters, and repeats none if the two
\* have none in common.
LEMMA AppendLemma ==
  ASSUME NEW m \in MapType, NEW n \in MapType
  PROVE  /\ m \o n \in MapType
         /\ Len(m \o n) = Len(m) + Len(n)
         /\ ClustersOf(m \o n) = ClustersOf(m) \cup ClustersOf(n)
         /\ NoRepeat(m) /\ NoRepeat(n) /\ ClustersOf(m) \cap ClustersOf(n) = {}
               => NoRepeat(m \o n)
<1>1. m \o n \in MapType /\ Len(m \o n) = Len(m) + Len(n)
  BY DEF MapType
<1>2. \A i \in 1..Len(m) : (m \o n)[i] = m[i]
  BY DEF MapType
<1>3. \A i \in 1..Len(n) : (m \o n)[Len(m) + i] = n[i]
  BY DEF MapType
<1>4. Len(m) \in Nat /\ Len(n) \in Nat
  BY DEF MapType
<1>5. ASSUME NEW i \in 1..Len(m \o n)
      PROVE  i \in 1..Len(m) \/ (i - Len(m) \in 1..Len(n) /\ i = Len(m) + (i - Len(m)))
  BY <1>1, <1>4
<1>6. ClustersOf(m \o n) = ClustersOf(m) \cup ClustersOf(n)
  <2>1. ASSUME NEW c \in ClustersOf(m \o n) PROVE c \in ClustersOf(m) \cup ClustersOf(n)
    BY <1>2, <1>3, <1>5 DEF ClustersOf
  <2>2. ASSUME NEW c \in ClustersOf(m) PROVE c \in ClustersOf(m \o n)
    <3>1. PICK i \in 1..Len(m) : c = m[i] /\ c # Hole
      BY DEF ClustersOf
    <3>2. i \in 1..Len(m \o n) /\ (m \o n)[i] = c
      BY <3>1, <1>1, <1>2, <1>4
    <3> QED BY <3>1, <3>2 DEF ClustersOf
  <2>3. ASSUME NEW c \in ClustersOf(n) PROVE c \in ClustersOf(m \o n)
    <3>1. PICK i \in 1..Len(n) : c = n[i] /\ c # Hole
      BY DEF ClustersOf
    <3>2. Len(m) + i \in 1..Len(m \o n) /\ (m \o n)[Len(m) + i] = c
      BY <3>1, <1>1, <1>3, <1>4
    <3> QED BY <3>1, <3>2 DEF ClustersOf
  <2> QED BY <2>1, <2>2, <2>3
<1>7. ASSUME NoRepeat(m), NoRepeat(n), ClustersOf(m) \cap ClustersOf(n) = {}
      PROVE  NoRepeat(m \o n)
  <2> SUFFICES ASSUME NEW i \in 1..Len(m \o n), NEW j \in 1..Len(m \o n),
                      i # j, (m \o n)[i] = (m \o n)[j], (m \o n)[i] # Hole
               PROVE  FALSE
    BY DEF NoRepeat
  <2>1. CASE i \in 1..Len(m) /\ j \in 1..Len(m)
    BY <2>1, <1>2, <1>7 DEF NoRepeat
  <2>2. CASE i \notin 1..Len(m) /\ j \notin 1..Len(m)
    <3>1. i - Len(m) \in 1..Len(n) /\ j - Len(m) \in 1..Len(n) /\ i - Len(m) # j - Len(m)
      BY <2>2, <1>5, <1>4
    <3>2. (m \o n)[i] = n[i - Len(m)] /\ (m \o n)[j] = n[j - Len(m)]
      BY <3>1, <2>2, <1>3, <1>5
    <3> QED BY <3>1, <3>2, <1>7 DEF NoRepeat
  <2>3. CASE i \in 1..Len(m) /\ j \notin 1..Len(m)
    <3>1. (m \o n)[i] \in ClustersOf(m)
      BY <2>3, <1>2 DEF ClustersOf
    <3>2. (m \o n)[j] \in ClustersOf(n)
      <4>1. j - Len(m) \in 1..Len(n) /\ (m \o n)[j] = n[j - Len(m)]
        BY <2>3, <1>3, <1>5
      <4> QED BY <4>1 DEF ClustersOf
    <3> QED BY <3>1, <3>2, <1>7
  <2>4. CASE i \notin 1..Len(m) /\ j \in 1..Len(m)
    <3>1. (m \o n)[j] \in ClustersOf(m)
      BY <2>4, <1>2 DEF ClustersOf
    <3>2. (m \o n)[i] \in ClustersOf(n)
      <4>1. i - Len(m) \in 1..Len(n) /\ (m \o n)[i] = n[i - Len(m)]
        BY <2>4, <1>3, <1>5
      <4> QED BY <4>1 DEF ClustersOf
    <3> QED BY <3>1, <3>2, <1>7
  <2> QED BY <2>1, <2>2, <2>3, <2>4
<1> QED BY <1>1, <1>6, <1>7

\* Cutting a map in two splits its clusters, and shares none if it had no
\* repetition.
LEMMA CutLemma ==
  ASSUME NEW m \in MapType, NEW k \in 0..Len(m)
  PROVE  LET kept == SubSeq(m, 1, k)
             tail == SubSeq(m, k + 1, Len(m))
         IN  /\ kept \in MapType /\ Len(kept) = k
             /\ ClustersOf(m) = ClustersOf(kept) \cup ClustersOf(tail)
             /\ ClustersOf(tail) \subseteq Cluster
             /\ NoRepeat(m) => /\ NoRepeat(kept)
                               /\ ClustersOf(kept) \cap ClustersOf(tail) = {}
<1> DEFINE kept == SubSeq(m, 1, k)
           tail == SubSeq(m, k + 1, Len(m))
<1>1. Len(m) \in Nat /\ k \in Nat /\ k <= Len(m)
  BY DEF MapType
<1>2. \A i \in 1..Len(m) : m[i] \in Cluster \cup {Hole}
  BY DEF MapType
<1>3. kept \in MapType /\ Len(kept) = k /\ \A i \in 1..k : kept[i] = m[i]
  BY <1>1, <1>2 DEF MapType
<1>4. tail \in MapType /\ Len(tail) = Len(m) - k
        /\ \A i \in 1..(Len(m) - k) : tail[i] = m[k + i]
  BY <1>1, <1>2 DEF MapType
<1> HIDE DEF kept, tail
<1>5. ClustersOf(m) = ClustersOf(kept) \cup ClustersOf(tail)
  <2>1. ASSUME NEW c \in ClustersOf(m) PROVE c \in ClustersOf(kept) \cup ClustersOf(tail)
    <3>1. PICK i \in 1..Len(m) : c = m[i] /\ c # Hole
      BY DEF ClustersOf
    <3>2. CASE i <= k
      BY <3>1, <3>2, <1>1, <1>3 DEF ClustersOf
    <3>3. CASE i > k
      <4>1. i - k \in 1..(Len(m) - k) /\ tail[i - k] = c
        BY <3>1, <3>3, <1>1, <1>4
      <4> QED BY <4>1, <3>1, <1>4 DEF ClustersOf
    <3> QED BY <3>2, <3>3, <1>1
  <2>2. ASSUME NEW c \in ClustersOf(kept) PROVE c \in ClustersOf(m)
    BY <1>1, <1>3 DEF ClustersOf
  <2>3. ASSUME NEW c \in ClustersOf(tail) PROVE c \in ClustersOf(m)
    BY <1>1, <1>4 DEF ClustersOf
  <2> QED BY <2>1, <2>2, <2>3
<1>6. ClustersOf(tail) \subseteq Cluster
  BY <1>4 DEF ClustersOf, MapType
<1>7. ASSUME NoRepeat(m)
      PROVE  NoRepeat(kept) /\ ClustersOf(kept) \cap ClustersOf(tail) = {}
  <2>1. NoRepeat(kept)
    BY <1>7, <1>1, <1>3 DEF NoRepeat
  <2>2. ASSUME NEW c \in ClustersOf(kept), c \in ClustersOf(tail) PROVE FALSE
    <3>1. PICK i \in 1..k : c = m[i] /\ c # Hole
      BY <1>3 DEF ClustersOf
    <3>2. PICK j \in 1..(Len(m) - k) : c = m[k + j]
      BY <2>2, <1>4 DEF ClustersOf
    <3>3. i \in 1..Len(m) /\ k + j \in 1..Len(m) /\ i # k + j
      BY <1>1
    <3> QED BY <1>7, <3>1, <3>2, <3>3 DEF NoRepeat
  <2> QED BY <2>1, <2>2
<1> QED BY <1>3, <1>5, <1>6, <1>7 DEF kept, tail

(***************************************************************************)
(* The inductive invariant.  Types alone are not inductive: a step writes  *)
(* cur's record and name's entry, so the handler must have them in hand,   *)
(* and a cut of a cluster map must fall inside it.                         *)
(***************************************************************************)
Creating == {"cr_bit", "cr_rec", "cr_ins", "cr_undo", "cr_unbit"}
Writing  == {"wr_alloc", "wr_undo", "wr_rec"}
Freeing  == {"de_free", "de_bit", "sh_free"}

InHand ==
  /\ pc \notin {"idle", "cr_bit"} => cur \in Record
  /\ pc \in Creating \cup {"de_unlink"} => name \in Name
  /\ pc # "idle" => mounted

\* A file is never longer than what is allocated to it.
SizeFits ==
  /\ \A r \in Record : rec[r].size <= Len(rec[r].map)
  /\ pc \notin {"wr_alloc", "wr_undo"} => img.size <= Len(img.map)
  /\ pc = "wr_alloc" => img.size <= Len(img.map) + left

TypeInv == TypeOK /\ InHand /\ SizeFits

\* No call holds clusters when it has returned, and only a call that frees
\* has clusters freed.
LocalsInv ==
  /\ pc \notin {"de_free", "sh_free"} => todo = {}
  /\ pc \notin Freeing => freed = {}
  /\ pc \notin Writing => log = {}
  /\ mounted => bitmap = bitmapDisk
  \* the image is the record on disk but for the part the call changes
  /\ pc \in Writing \cup {"sh_free", "sync", "de_unlink", "de_free"} =>
       img.inUse = rec[cur].inUse /\ img.seq = rec[cur].seq
  /\ pc \in {"de_unlink", "de_free"} => img = rec[cur]

\* Why no entry dangles: entries name different records, each with its bit,
\* and none names a record that is being created or deleted.
EntryInv ==
  "entry" \notin damage =>
    /\ EntriesResolve
    /\ \A n \in Live : index[n].rec \in mftBitmap
    /\ \A n, m \in Live : index[n].rec = index[m].rec => n = m
    /\ pc \in {"cr_rec", "cr_ins", "cr_undo", "cr_unbit", "de_free", "de_bit"} =>
         \A n \in Live : index[n].rec # cur
    /\ pc = "de_unlink" => name \in Live /\ index[name].rec = cur
    /\ pc = "cr_ins" => rec[cur].inUse
    /\ pc \in {"cr_rec", "cr_ins", "cr_undo"} => cur \in mftBitmap

\* Why no record in use loses its bit: the bit goes last.
RecordInv ==
  "record" \notin damage =>
    /\ InUse \subseteq mftBitmap
    /\ pc \in {"cr_rec", "cr_unbit", "de_bit"} => ~rec[cur].inUse
    /\ pc \in {"cr_rec", "cr_ins", "cr_undo"} => cur \in mftBitmap

\* Why no cluster is shared or freed under a file: what a call allocates is
\* nobody's until its record is written, and what it frees is cur's alone.
ClusterInv ==
  damage \cap {"cluster", "entry"} = {} =>
    /\ Owned \ freed \subseteq bitmapDisk
    /\ NoSharing
    /\ log \subseteq bitmapDisk /\ log \cap Owned = {}
    /\ pc \in {"wr_alloc", "wr_rec"} =>
         /\ rec[cur].inUse
         /\ ClustersOf(img.map) = Mapped(cur) \cup log
         /\ NoRepeat(img.map)
    /\ pc \in {"de_unlink", "de_free", "sh_free"} => rec[cur].inUse
    /\ pc \in {"de_unlink", "de_free"} => cur \notin grew
    /\ pc = "de_free" => Mapped(cur) = todo \cup freed
    /\ pc = "sh_free" =>
         /\ Mapped(cur) = ClustersOf(img.map) \cup todo \cup freed
         /\ ClustersOf(img.map) \cap (todo \cup freed) = {}
         /\ NoRepeat(img.map)
    /\ pc = "de_bit" => freed = {}
    /\ pc \in {"cr_ins", "cr_undo"} => rec[cur].map = <<>>
    /\ \A r \in grew : rec[r].inUse \/ rec[r].map = <<>>

(***************************************************************************)
(* Types                                                                   *)
(***************************************************************************)

\* A record never used is a record, and it maps nothing.
LEMMA FreeRecordLemma ==
  /\ FreeRecord \in FileRecord
  /\ FreeRecord.map = <<>> /\ FreeRecord.size = 0 /\ ~FreeRecord.inUse
  /\ Len(FreeRecord.map) = 0
BY BoundAssumption DEF FreeRecord, FileRecord, MapType

\* Sequence numbers wrap inside 1..MaxSeq.
LEMMA NextSeqLemma == \A s \in 1..MaxSeq : NextSeq(s) \in 1..MaxSeq
BY BoundAssumption DEF NextSeq

\* The fields of a record, and of a record a handler has changed.
LEMMA FieldsLemma ==
  ASSUME NEW f \in FileRecord
  PROVE  /\ f.map \in MapType /\ Len(f.map) \in Nat /\ ClustersOf(f.map) \subseteq Cluster
         /\ f.size \in Nat /\ f.seq \in 1..MaxSeq
         /\ f.inUse \in BOOLEAN /\ f.resident \in BOOLEAN
<1>1. f.map \in MapType /\ f.size \in Nat /\ f.seq \in 1..MaxSeq
        /\ f.inUse \in BOOLEAN /\ f.resident \in BOOLEAN
  BY DEF FileRecord
<1>2. Len(f.map) \in Nat /\ ClustersOf(f.map) \subseteq Cluster
  BY <1>1 DEF MapType, ClustersOf
<1> QED BY <1>1, <1>2

\* A new file is an empty record in use, under the next sequence number.
LEMMA NewFileLemma ==
  ASSUME NEW s \in 1..MaxSeq
  PROVE  /\ NewFile(s) \in FileRecord
         /\ NewFile(s).map = <<>> /\ NewFile(s).size = 0
         /\ NewFile(s).inUse /\ NewFile(s).seq = NextSeq(s)
BY FreeRecordLemma, NextSeqLemma DEF NewFile, FileRecord

\* Releasing a record clears FRH_IN_USE and leaves its map alone.
LEMMA ReleasedLemma ==
  ASSUME NEW f \in FileRecord
  PROVE  /\ Released(f) \in FileRecord
         /\ Released(f).map = f.map /\ Released(f).size = f.size
         /\ ~Released(f).inUse
BY NextSeqLemma DEF Released, FileRecord

\* Resizing changes the map and the size and keeps the identity.
LEMMA ResizedLemma ==
  ASSUME NEW f \in FileRecord, NEW m \in MapType, NEW len \in Nat
  PROVE  /\ Resized(f, m, len) \in FileRecord
         /\ Resized(f, m, len).map = m /\ Resized(f, m, len).size = len
         /\ Resized(f, m, len).inUse = f.inUse /\ Resized(f, m, len).seq = f.seq
         /\ Resized(f, m, len).resident = f.resident
BY DEF Resized, FileRecord

\* Conversion to non-resident keeps map, size and identity.
LEMMA NonResidentLemma ==
  ASSUME NEW f \in FileRecord
  PROVE  /\ NonResident(f) \in FileRecord
         /\ NonResident(f).map = f.map /\ NonResident(f).size = f.size
         /\ NonResident(f).inUse = f.inUse /\ NonResident(f).seq = f.seq
BY DEF NonResident, FileRecord

\* Resizing to the same map: the image of a write that has just begun.
LEMMA SameMapLemma ==
  ASSUME NEW f \in FileRecord, NEW end \in Nat
  PROVE  LET image == Resized(f, f.map, end)
         IN  /\ image \in FileRecord
             /\ image.map = f.map /\ image.size = end
             /\ image.inUse = f.inUse /\ image.seq = f.seq
BY FieldsLemma, ResizedLemma

\* The image of a write after one more run has been allocated.
LEMMA ExtendedLemma ==
  ASSUME NEW f \in FileRecord, NEW start \in Nat, NEW k \in Nat,
         Run(start, k) \subseteq Cluster
  PROVE  LET image == Resized(f, f.map \o RunMap(start, k), f.size)
         IN  /\ image \in FileRecord
             /\ Len(image.map) = Len(f.map) + k /\ image.size = f.size
             /\ image.inUse = f.inUse /\ image.seq = f.seq
             /\ ClustersOf(image.map) = ClustersOf(f.map) \cup Run(start, k)
             /\ NoRepeat(f.map) /\ ClustersOf(f.map) \cap Run(start, k) = {}
                  => NoRepeat(image.map)
<1>1. f.map \in MapType /\ f.size \in Nat
  BY FieldsLemma
<1>2. /\ RunMap(start, k) \in MapType
      /\ Len(RunMap(start, k)) = k
      /\ ClustersOf(RunMap(start, k)) = Run(start, k)
      /\ NoRepeat(RunMap(start, k))
  BY RunMapLemma
<1> DEFINE m == f.map \o RunMap(start, k)
<1>3. /\ m \in MapType
      /\ Len(m) = Len(f.map) + k
      /\ ClustersOf(m) = ClustersOf(f.map) \cup Run(start, k)
      /\ NoRepeat(f.map) /\ ClustersOf(f.map) \cap Run(start, k) = {} => NoRepeat(m)
  BY <1>1, <1>2, AppendLemma
<1> HIDE DEF m
<1>4. /\ Resized(f, m, f.size) \in FileRecord
      /\ Resized(f, m, f.size).map = m /\ Resized(f, m, f.size).size = f.size
      /\ Resized(f, m, f.size).inUse = f.inUse /\ Resized(f, m, f.size).seq = f.seq
  BY <1>1, <1>3 DEF Resized, FileRecord
<1> QED BY <1>3, <1>4 DEF m

\* The image of a truncation to k clusters, and the clusters it frees.
LEMMA CutImageLemma ==
  ASSUME NEW f \in FileRecord, NEW k \in 0..Len(f.map)
  PROVE  LET image == Resized(f, SubSeq(f.map, 1, k), k)
             tail  == ClustersOf(SubSeq(f.map, k + 1, Len(f.map)))
         IN  /\ image \in FileRecord
             /\ Len(image.map) = k /\ image.size = k
             /\ image.inUse = f.inUse /\ image.seq = f.seq
             /\ tail \subseteq Cluster
             /\ ClustersOf(f.map) = ClustersOf(image.map) \cup tail
             /\ NoRepeat(f.map) => /\ NoRepeat(image.map)
                                   /\ ClustersOf(image.map) \cap tail = {}
<1>1. f.map \in MapType /\ k \in Nat
  BY FieldsLemma
<1> DEFINE m == SubSeq(f.map, 1, k)
           tail == ClustersOf(SubSeq(f.map, k + 1, Len(f.map)))
<1>2. /\ m \in MapType /\ Len(m) = k
      /\ ClustersOf(f.map) = ClustersOf(m) \cup tail
      /\ tail \subseteq Cluster
      /\ NoRepeat(f.map) => NoRepeat(m) /\ ClustersOf(m) \cap tail = {}
  BY <1>1, CutLemma
<1> HIDE DEF m, tail
<1>3. /\ Resized(f, m, k) \in FileRecord
      /\ Resized(f, m, k).map = m /\ Resized(f, m, k).size = k
      /\ Resized(f, m, k).inUse = f.inUse /\ Resized(f, m, k).seq = f.seq
  BY <1>1, <1>2, ResizedLemma
<1> QED BY <1>2, <1>3 DEF m, tail

\* What a write asks of the allocator is enough.
LEMMA NeedLemma ==
  ASSUME NEW end \in Nat, NEW have \in Nat, NEW need,
         need = IF end > have THEN Larger(end - have, Quantum) ELSE 0
  PROVE  need \in Nat /\ end <= have + need /\ (need = 0 => end <= have)
BY BoundAssumption DEF Larger

\* An entry names a record.
LEMMA EntryLemma ==
  ASSUME DiskType, NEW n \in Name, index[n] # None
  PROVE  index[n] \in Entry /\ index[n].rec \in Record /\ index[n].seq \in 1..MaxSeq
BY DEF DiskType, Entry

(***************************************************************************)
(* What the steps that compute an image do, in terms of the lemmas above   *)
(***************************************************************************)

\* A write starts from the record on disk and asks for enough clusters.
LEMMA WriteBeginLemma ==
  ASSUME DiskType, NEW n \in Name, NEW end \in 0..MaxSize, WriteBegin(n, end)
  PROVE  LET r == index[n].rec
         IN  /\ r \in Record /\ cur' = r /\ name' = n /\ index[n] # None
             /\ pc' = IF left' = 0 THEN "wr_rec" ELSE "wr_alloc"
             /\ left' \in Nat
             /\ img' \in FileRecord /\ img'.map = rec[r].map
             /\ img'.size <= Len(img'.map) + left'
             /\ img'.inUse = rec[r].inUse /\ img'.seq = rec[r].seq
<1> DEFINE r == index[n].rec
           f == rec[r]
           image == Resized(f, f.map, end)
<1>1. index[n] # None
  BY DEF WriteBegin
<1>2. r \in Record /\ f \in FileRecord
  BY <1>1, EntryLemma DEF DiskType
<1>3. /\ left' = IF end > Len(f.map) THEN Larger(end - Len(f.map), Quantum) ELSE 0
      /\ pc' = IF left' = 0 THEN "wr_rec" ELSE "wr_alloc"
      /\ img' = image /\ cur' = r /\ name' = n
  BY DEF WriteBegin, Start
<1> HIDE DEF f
<1>4. end \in Nat /\ Len(f.map) \in Nat
  BY <1>2, FieldsLemma, BoundAssumption
<1>5. /\ image \in FileRecord /\ image.map = f.map /\ image.size = end
      /\ image.inUse = f.inUse /\ image.seq = f.seq
  BY <1>2, <1>4, SameMapLemma
<1>6. left' \in Nat /\ end <= Len(f.map) + left'
  BY <1>3, <1>4, NeedLemma
<1> HIDE DEF image, r
<1> QED BY <1>1, <1>2, <1>3, <1>4, <1>5, <1>6 DEF f, r

\* A shrink splits the clusters of the record between the image and todo.
LEMMA ShrinkLemma ==
  ASSUME DiskType, NEW r \in Record, NEW n, NEW keep \in 0..Len(rec[r].map), Shrink(r, n, keep)
  PROVE  /\ pc' = "sh_free" /\ cur' = r /\ name' = n
         /\ img' \in FileRecord /\ img'.size = Len(img'.map)
         /\ img'.inUse = rec[r].inUse /\ img'.seq = rec[r].seq
         /\ todo' \subseteq Cluster
         /\ ClustersOf(rec[r].map) = ClustersOf(img'.map) \cup todo'
         /\ NoRepeat(rec[r].map) => /\ NoRepeat(img'.map)
                                    /\ ClustersOf(img'.map) \cap todo' = {}
<1> DEFINE f == rec[r]
           image == Resized(f, SubSeq(f.map, 1, keep), keep)
           tail == ClustersOf(SubSeq(f.map, keep + 1, Len(f.map)))
<1>1. f \in FileRecord /\ keep \in 0..Len(f.map)
  BY DEF DiskType
<1>2. pc' = "sh_free" /\ cur' = r /\ name' = n /\ img' = image /\ todo' = tail
  BY DEF Shrink, Start
<1> HIDE DEF f
<1>3. /\ image \in FileRecord /\ Len(image.map) = keep /\ image.size = keep
      /\ image.inUse = f.inUse /\ image.seq = f.seq
      /\ tail \subseteq Cluster
      /\ ClustersOf(f.map) = ClustersOf(image.map) \cup tail
      /\ NoRepeat(f.map) => /\ NoRepeat(image.map)
                            /\ ClustersOf(image.map) \cap tail = {}
  BY <1>1, CutImageLemma
<1> HIDE DEF image, tail
<1> QED BY <1>2, <1>3 DEF f

\* A truncation cuts inside the map of the record the entry names.
LEMMA TruncateLemma ==
  ASSUME TypeInv, NEW n \in Name, NEW keep \in 0..MaxSize, TruncateBegin(n, keep)
  PROVE  LET r == index[n].rec
         IN  /\ r \in Record /\ index[n] # None
             /\ pc' = "sh_free" /\ cur' = r /\ name' = n
             /\ img' \in FileRecord /\ img'.size = Len(img'.map)
             /\ img'.inUse = rec[r].inUse /\ img'.seq = rec[r].seq
             /\ todo' \subseteq Cluster
             /\ ClustersOf(rec[r].map) = ClustersOf(img'.map) \cup todo'
             /\ NoRepeat(rec[r].map) => /\ NoRepeat(img'.map)
                                        /\ ClustersOf(img'.map) \cap todo' = {}
<1> DEFINE r == index[n].rec
<1>1. index[n] # None /\ keep < rec[r].size /\ Shrink(r, n, keep)
  BY DEF TruncateBegin
<1>2. r \in Record /\ DiskType
  BY <1>1, EntryLemma DEF TypeInv, TypeOK
<1>3. rec[r] \in FileRecord /\ rec[r].size <= Len(rec[r].map)
  BY <1>2 DEF TypeInv, DiskType, SizeFits
<1>4. rec[r].size \in Nat /\ Len(rec[r].map) \in Nat
  BY <1>3, FieldsLemma
<1>5. keep \in 0..Len(rec[r].map)
  BY <1>1, <1>3, <1>4
<1> HIDE DEF r
<1> QED BY <1>1, <1>2, <1>5, ShrinkLemma DEF r

\* The trim of a closing handle cuts inside the map of its record.
LEMMA CloseTrimLemma ==
  ASSUME TypeInv, NEW r \in Record, CloseTrim(r)
  PROVE  /\ pc' = "sh_free" /\ cur' = r /\ name' = None
         /\ img' \in FileRecord /\ img'.size = Len(img'.map)
         /\ img'.inUse = rec[r].inUse /\ img'.seq = rec[r].seq
         /\ todo' \subseteq Cluster
         /\ ClustersOf(rec[r].map) = ClustersOf(img'.map) \cup todo'
         /\ NoRepeat(rec[r].map) => /\ NoRepeat(img'.map)
                                    /\ ClustersOf(img'.map) \cap todo' = {}
<1>1. Shrink(r, None, rec[r].size)
  BY DEF CloseTrim
<1>2. rec[r] \in FileRecord /\ rec[r].size <= Len(rec[r].map) /\ DiskType
  BY DEF TypeInv, TypeOK, DiskType, SizeFits
<1>3. rec[r].size \in 0..Len(rec[r].map)
  BY <1>2, FieldsLemma
<1> QED BY <1>1, <1>2, <1>3, ShrinkLemma

\* One allocation moves a free run into the image, the log and both bitmaps.
LEMMA WriteAllocLemma ==
  ASSUME img \in FileRecord, left \in Nat, WriteAlloc
  PROVE  \E run \in SUBSET Cluster :
           /\ run \cap bitmap = {}
           /\ bitmap' = bitmap \cup run /\ bitmapDisk' = bitmapDisk \cup run
           /\ log' = log \cup run
           /\ left' \in Nat /\ Len(img'.map) + left' = Len(img.map) + left
           /\ pc' \in {"wr_undo", "wr_alloc"}
           /\ img' \in FileRecord /\ img'.size = img.size
           /\ img'.inUse = img.inUse /\ img'.seq = img.seq
           /\ ClustersOf(img'.map) = ClustersOf(img.map) \cup run
           /\ NoRepeat(img.map) /\ ClustersOf(img.map) \cap run = {} => NoRepeat(img'.map)
<1>1. PICK start \in Cluster, k \in 1..left :
        /\ Run(start, k) \subseteq Cluster \ bitmap
        /\ bitmap' = bitmap \cup Run(start, k)
        /\ bitmapDisk' = bitmapDisk \cup Run(start, k)
        /\ log' = log \cup Run(start, k)
        /\ img' = Resized(img, img.map \o RunMap(start, k), img.size)
        /\ left' = left - k
        /\ pc' \in {"wr_undo", "wr_alloc"}
  BY DEF WriteAlloc
<1>2. start \in Nat /\ k \in Nat /\ k <= left /\ Run(start, k) \subseteq Cluster
  BY <1>1, ClusterAssumption
<1>3. Len(img.map) \in Nat /\ img.size \in Nat
  BY FieldsLemma
<1> DEFINE image == Resized(img, img.map \o RunMap(start, k), img.size)
<1>4. /\ image \in FileRecord
      /\ Len(image.map) = Len(img.map) + k /\ image.size = img.size
      /\ image.inUse = img.inUse /\ image.seq = img.seq
      /\ ClustersOf(image.map) = ClustersOf(img.map) \cup Run(start, k)
      /\ NoRepeat(img.map) /\ ClustersOf(img.map) \cap Run(start, k) = {}
           => NoRepeat(image.map)
  BY <1>2, ExtendedLemma
<1>5. img' = image
  BY <1>1
<1> HIDE DEF image
<1>6. left' \in Nat /\ Len(img'.map) + left' = Len(img.map) + left
  BY <1>1, <1>2, <1>3, <1>4, <1>5
<1> DEFINE run == Run(start, k)
<1>7. run \in SUBSET Cluster /\ run \cap bitmap = {}
  BY <1>1
<1> HIDE DEF run
<1> QED BY <1>1, <1>4, <1>5, <1>6, <1>7 DEF run

\* The initial states are well typed.
LEMMA TypeInit == Init => TypeInv
<1> SUFFICES ASSUME Init PROVE TypeInv
  OBVIOUS
<1> USE FreeRecordLemma, BoundAssumption
<1> DEFINE Typed == /\ bitmapDisk \subseteq Cluster /\ mftBitmap \subseteq Record
                    /\ rec \in [Record -> FileRecord]
                    /\ index \in [Name -> Entry \cup {None}]
                    /\ \A q \in Record : rec[q].size <= Len(rec[q].map)
<1>1. Typed
  <2>1. CASE /\ bitmapDisk = {} /\ mftBitmap = {}
             /\ rec = [q \in Record |-> FreeRecord]
             /\ index = [q \in Name |-> None]
    BY <2>1
  <2>2. ASSUME NEW r \in Record, NEW n \in Name, NEW m \in InitialMaps,
               bitmapDisk = ClustersOf(m), mftBitmap = {r},
               rec = [q \in Record |->
                        IF q = r THEN [inUse |-> TRUE, seq |-> 1, resident |-> FALSE,
                                       map |-> m, size |-> Len(m)]
                        ELSE FreeRecord],
               index = [q \in Name |->
                          IF q = n THEN [rec |-> r, seq |-> 1, size |-> Len(m)] ELSE None]
        PROVE  Typed
    <3>1. m \in MapType /\ Len(m) \in Nat /\ ClustersOf(m) \subseteq Cluster
      BY InitialMapsAssumption DEF MapType, ClustersOf
    <3> DEFINE f == [inUse |-> TRUE, seq |-> 1, resident |-> FALSE,
                     map |-> m, size |-> Len(m)]
               e == [rec |-> r, seq |-> 1, size |-> Len(m)]
    <3>2. f \in FileRecord /\ f.size = Len(f.map)
      BY <3>1 DEF FileRecord
    <3>3. e \in Entry
      BY <3>1 DEF Entry
    <3> HIDE DEF f, e
    <3>4. rec = [q \in Record |-> IF q = r THEN f ELSE FreeRecord]
      BY <2>2 DEF f
    <3>5. index = [q \in Name |-> IF q = n THEN e ELSE None]
      BY <2>2 DEF e
    <3>6. rec \in [Record -> FileRecord] /\ index \in [Name -> Entry \cup {None}]
      BY <3>2, <3>3, <3>4, <3>5
    <3>7. ASSUME NEW q \in Record PROVE rec[q].size <= Len(rec[q].map)
      BY <3>1, <3>2, <3>4 DEF f
    <3> QED BY <3>1, <3>6, <3>7, <2>2
  <2> QED BY <2>1, <2>2 DEF Init
<1>2. DiskType
  BY <1>1 DEF Init, DiskType
<1>3. MemoryType
  BY DEF Init, MemoryType
<1>4. HandlerType
  BY DEF Init, HandlerType, PCs
<1>5. HistoryType
  BY DEF Init, HistoryType, Damages
<1>6. InHand
  BY DEF Init, InHand, Creating
<1>7. SizeFits
  BY <1>1 DEF Init, SizeFits
<1> QED BY <1>2, <1>3, <1>4, <1>5, <1>6, <1>7 DEF TypeInv, TypeOK

\* Every step keeps the types.
LEMMA TypeStep == TypeInv /\ [Next]_vars => TypeInv'
<1> SUFFICES ASSUME TypeInv, [Next]_vars PROVE TypeInv'
  OBVIOUS
<1> USE FreeRecordLemma, NextSeqLemma, BoundAssumption, NoneAssumption
<1> USE DEF TypeInv, TypeOK, DiskType, MemoryType, HandlerType, HistoryType,
            InHand, SizeFits, PCs, Creating
<1>1. ASSUME NEW n \in Name, CreateBegin(n) PROVE TypeInv'
  <2> USE <1>1 DEF CreateBegin, Start, MarkDirty, NoFault, Fault
  <2>1. DiskType'
    OBVIOUS
  <2>2. MemoryType'
    OBVIOUS
  <2>3. HandlerType'
    OBVIOUS
  <2>4. HistoryType'
    OBVIOUS
  <2>5. InHand'
    OBVIOUS
  <2>6. SizeFits'
    OBVIOUS
  <2> QED BY <2>1, <2>2, <2>3, <2>4, <2>5, <2>6, Zenon
<1>2. ASSUME NEW n \in Name, DeleteBegin(n) PROVE TypeInv'
  <2> USE <1>2 DEF DeleteBegin, Start, MarkDirty, NoFault, Fault
  <2>r. index[n].rec \in Record /\ rec[index[n].rec] \in FileRecord
    BY EntryLemma
  <2>1. DiskType'
    OBVIOUS
  <2>2. MemoryType'
    OBVIOUS
  <2>3. HandlerType'
    BY <2>r
  <2>4. HistoryType'
    OBVIOUS
  <2>5. InHand'
    BY <2>r
  <2>6. SizeFits'
    BY <2>r
  <2> QED BY <2>1, <2>2, <2>3, <2>4, <2>5, <2>6, Zenon
<1>3. ASSUME NEW n \in Name, DeleteStale(n) PROVE TypeInv'
  <2> USE <1>3 DEF DeleteStale, MarkDirty, NoFault, Fault, Return, Quiet
  <2>1. DiskType'
    OBVIOUS
  <2>2. MemoryType'
    OBVIOUS
  <2>3. HandlerType'
    OBVIOUS
  <2>4. HistoryType'
    OBVIOUS
  <2>5. InHand'
    OBVIOUS
  <2>6. SizeFits'
    OBVIOUS
  <2> QED BY <2>1, <2>2, <2>3, <2>4, <2>5, <2>6, Zenon
<1>4. ASSUME NEW n \in Name, NEW k \in 0..MaxSize, WriteBegin(n, k) PROVE TypeInv'
  <2> USE <1>4 DEF WriteBegin, Start, MarkDirty, NoFault, Fault
  <2>r. /\ index[n].rec \in Record /\ cur' = index[n].rec /\ name' = n
        /\ pc' = IF left' = 0 THEN "wr_rec" ELSE "wr_alloc"
        /\ left' \in Nat
        /\ img' \in FileRecord /\ img'.map = rec[index[n].rec].map
        /\ img'.size <= Len(img'.map) + left'
    BY WriteBeginLemma
  <2>1. DiskType'
    OBVIOUS
  <2>2. MemoryType'
    OBVIOUS
  <2>3. HandlerType'
    BY <2>r
  <2>4. HistoryType'
    OBVIOUS
  <2>5. InHand'
    BY <2>r
  <2>6. SizeFits'
    BY <2>r, FieldsLemma
  <2> QED BY <2>1, <2>2, <2>3, <2>4, <2>5, <2>6, Zenon
<1>5. ASSUME NEW n \in Name, NEW k \in 0..MaxSize, TruncateBegin(n, k) PROVE TypeInv'
  <2> USE <1>5 DEF TruncateBegin, Start, MarkDirty, NoFault, Fault, Shrink
  <2>i. /\ index[n].rec \in Record /\ pc' = "sh_free"
        /\ cur' = index[n].rec /\ name' \in Name \cup {None}
        /\ img' \in FileRecord /\ img'.size = Len(img'.map)
        /\ todo' \subseteq Cluster
    BY TruncateLemma
  <2>1. DiskType'
    OBVIOUS
  <2>2. MemoryType'
    OBVIOUS
  <2>3. HandlerType'
    BY <2>i
  <2>4. HistoryType'
    OBVIOUS
  <2>5. InHand'
    BY <2>i
  <2>6. SizeFits'
    BY <2>i, FieldsLemma
  <2> QED BY <2>1, <2>2, <2>3, <2>4, <2>5, <2>6, Zenon
<1>6. ASSUME NEW r \in Record, CloseTrim(r) PROVE TypeInv'
  <2> USE <1>6 DEF CloseTrim, Start, MarkDirty, NoFault, Fault, Shrink
  <2>i. /\ r \in Record /\ pc' = "sh_free"
        /\ cur' = r /\ name' \in Name \cup {None}
        /\ img' \in FileRecord /\ img'.size = Len(img'.map)
        /\ todo' \subseteq Cluster
    BY CloseTrimLemma
  <2>1. DiskType'
    OBVIOUS
  <2>2. MemoryType'
    OBVIOUS
  <2>3. HandlerType'
    BY <2>i
  <2>4. HistoryType'
    OBVIOUS
  <2>5. InHand'
    BY <2>i
  <2>6. SizeFits'
    BY <2>i, FieldsLemma
  <2> QED BY <2>1, <2>2, <2>3, <2>4, <2>5, <2>6, Zenon
<1>7. ASSUME NEW r \in Record, CloseNoSlack(r) PROVE TypeInv'
  <2> USE <1>7 DEF CloseNoSlack, disk, Return, Quiet
  <2>1. DiskType'
    OBVIOUS
  <2>2. MemoryType'
    OBVIOUS
  <2>3. HandlerType'
    OBVIOUS
  <2>4. HistoryType'
    OBVIOUS
  <2>5. InHand'
    OBVIOUS
  <2>6. SizeFits'
    OBVIOUS
  <2> QED BY <2>1, <2>2, <2>3, <2>4, <2>5, <2>6, Zenon
<1>8. CASE CreateAllocRecord
  <2> USE <1>8 DEF CreateAllocRecord, disk, memory, locals, history
  <2>1. DiskType'
    OBVIOUS
  <2>2. MemoryType'
    OBVIOUS
  <2>3. HandlerType'
    OBVIOUS
  <2>4. HistoryType'
    OBVIOUS
  <2>5. InHand'
    OBVIOUS
  <2>6. SizeFits'
    OBVIOUS
  <2> QED BY <2>1, <2>2, <2>3, <2>4, <2>5, <2>6, Zenon
<1>9. CASE CreateNoRecord
  <2> USE <1>9 DEF CreateNoRecord, NoFault, Fault, disk, memory, locals, history, Return, Quiet
  <2>1. DiskType'
    OBVIOUS
  <2>2. MemoryType'
    OBVIOUS
  <2>3. HandlerType'
    OBVIOUS
  <2>4. HistoryType'
    OBVIOUS
  <2>5. InHand'
    OBVIOUS
  <2>6. SizeFits'
    OBVIOUS
  <2> QED BY <2>1, <2>2, <2>3, <2>4, <2>5, <2>6, Zenon
<1>10. CASE CreateWriteRecord
  <2> USE <1>10 DEF CreateWriteRecord, disk, memory, locals, history
  <2>n. NewFile(rec[cur].seq) \in FileRecord /\ NewFile(rec[cur].seq).size = 0
    BY FieldsLemma, NewFileLemma
  <2>1. DiskType'
    BY <2>n
  <2>2. MemoryType'
    OBVIOUS
  <2>3. HandlerType'
    OBVIOUS
  <2>4. HistoryType'
    OBVIOUS
  <2>5. InHand'
    OBVIOUS
  <2>6. SizeFits'
    BY <2>n, NewFileLemma, FieldsLemma
  <2> QED BY <2>1, <2>2, <2>3, <2>4, <2>5, <2>6, Zenon
<1>11. CASE CreateWriteRecordFails
  <2> USE <1>11 DEF CreateWriteRecordFails, disk, memory, locals, history, Fault
  <2>1. DiskType'
    OBVIOUS
  <2>2. MemoryType'
    OBVIOUS
  <2>3. HandlerType'
    OBVIOUS
  <2>4. HistoryType'
    OBVIOUS
  <2>5. InHand'
    OBVIOUS
  <2>6. SizeFits'
    OBVIOUS
  <2> QED BY <2>1, <2>2, <2>3, <2>4, <2>5, <2>6, Zenon
<1>12. CASE CreateInsert
  <2> USE <1>12 DEF CreateInsert, disk, memory, locals, history, Return, Quiet
  <2>e. [rec |-> cur, seq |-> rec[cur].seq, size |-> 0] \in Entry
    BY FieldsLemma DEF Entry
  <2>1. DiskType'
    BY <2>e
  <2>2. MemoryType'
    OBVIOUS
  <2>3. HandlerType'
    OBVIOUS
  <2>4. HistoryType'
    OBVIOUS
  <2>5. InHand'
    OBVIOUS
  <2>6. SizeFits'
    OBVIOUS
  <2> QED BY <2>1, <2>2, <2>3, <2>4, <2>5, <2>6, Zenon
<1>13. CASE CreateInsertRefused
  <2> USE <1>13 DEF CreateInsertRefused, disk, memory, locals, history
  <2>1. DiskType'
    OBVIOUS
  <2>2. MemoryType'
    OBVIOUS
  <2>3. HandlerType'
    OBVIOUS
  <2>4. HistoryType'
    OBVIOUS
  <2>5. InHand'
    OBVIOUS
  <2>6. SizeFits'
    OBVIOUS
  <2> QED BY <2>1, <2>2, <2>3, <2>4, <2>5, <2>6, Zenon
<1>14. CASE CreateCommitFails
  <2> USE <1>14 DEF CreateCommitFails, disk, memory, locals, history, Fault, Damages
  <2>e. [rec |-> cur, seq |-> rec[cur].seq, size |-> 0] \in Entry
    BY FieldsLemma DEF Entry
  <2>1. DiskType'
    BY <2>e
  <2>2. MemoryType'
    OBVIOUS
  <2>3. HandlerType'
    OBVIOUS
  <2>4. HistoryType'
    OBVIOUS
  <2>5. InHand'
    OBVIOUS
  <2>6. SizeFits'
    OBVIOUS
  <2> QED BY <2>1, <2>2, <2>3, <2>4, <2>5, <2>6, Zenon
<1>15. CASE CreateUndoRecord
  <2> USE <1>15 DEF CreateUndoRecord, disk, memory, locals, history, Fault, Damages
  <2>r. Released(rec[cur]) \in FileRecord /\ Released(rec[cur]).map = rec[cur].map
          /\ Released(rec[cur]).size = rec[cur].size
    BY ReleasedLemma
  <2>1. DiskType'
    BY <2>r
  <2>2. MemoryType'
    OBVIOUS
  <2>3. HandlerType'
    OBVIOUS
  <2>4. HistoryType'
    <3>1. freed' \subseteq Cluster
      OBVIOUS
    <3>2. status' \in {"none", "ok", "refused"} /\ crashes' \in 0..MaxCrashes
      OBVIOUS
    <3>3. damage' \subseteq Damages
      OBVIOUS
    <3>4. faults' \in 0..MaxFaults
      OBVIOUS
    <3> QED BY <3>1, <3>2, <3>3, <3>4
  <2>5. InHand'
    OBVIOUS
  <2>6. SizeFits'
    BY <2>r
  <2> QED BY <2>1, <2>2, <2>3, <2>4, <2>5, <2>6, Zenon
<1>16. CASE CreateUndoBit
  <2> USE <1>16 DEF CreateUndoBit, FreeBit, NoFault, Fault, disk, memory, locals, history, Return, Quiet
  <2>1. DiskType'
    OBVIOUS
  <2>2. MemoryType'
    OBVIOUS
  <2>3. HandlerType'
    OBVIOUS
  <2>4. HistoryType'
    OBVIOUS
  <2>5. InHand'
    OBVIOUS
  <2>6. SizeFits'
    OBVIOUS
  <2> QED BY <2>1, <2>2, <2>3, <2>4, <2>5, <2>6, Zenon
<1>17. CASE DeleteUnlink
  <2> USE <1>17 DEF DeleteUnlink, disk, memory, locals, history
  <2>1. DiskType'
    OBVIOUS
  <2>2. MemoryType'
    OBVIOUS
  <2>3. HandlerType'
    BY FieldsLemma
  <2>4. HistoryType'
    OBVIOUS
  <2>5. InHand'
    OBVIOUS
  <2>6. SizeFits'
    OBVIOUS
  <2> QED BY <2>1, <2>2, <2>3, <2>4, <2>5, <2>6, Zenon
<1>18. CASE DeleteUnlinkRefused
  <2> USE <1>18 DEF DeleteUnlinkRefused, disk, memory, locals, history, Return, Quiet
  <2>1. DiskType'
    OBVIOUS
  <2>2. MemoryType'
    OBVIOUS
  <2>3. HandlerType'
    OBVIOUS
  <2>4. HistoryType'
    OBVIOUS
  <2>5. InHand'
    OBVIOUS
  <2>6. SizeFits'
    OBVIOUS
  <2> QED BY <2>1, <2>2, <2>3, <2>4, <2>5, <2>6, Zenon
<1>19. CASE DeleteFree
  <2> USE <1>19 DEF DeleteFree, disk, memory, locals, history, FreeRunOf
  <2>1. DiskType'
    OBVIOUS
  <2>2. MemoryType'
    OBVIOUS
  <2>3. HandlerType'
    OBVIOUS
  <2>4. HistoryType'
    OBVIOUS
  <2>5. InHand'
    OBVIOUS
  <2>6. SizeFits'
    OBVIOUS
  <2> QED BY <2>1, <2>2, <2>3, <2>4, <2>5, <2>6, Zenon
<1>20. CASE DeleteClearRecord
  <2> USE <1>20 DEF DeleteClearRecord, disk, memory, locals, history, Fault, Damages
  <2>r. Released(img) \in FileRecord /\ Released(img).map = img.map
          /\ Released(img).size = img.size
    BY ReleasedLemma
  <2>1. DiskType'
    BY <2>r
  <2>2. MemoryType'
    OBVIOUS
  <2>3. HandlerType'
    OBVIOUS
  <2>4. HistoryType'
    <3>1. freed' \subseteq Cluster
      OBVIOUS
    <3>2. status' \in {"none", "ok", "refused"} /\ crashes' \in 0..MaxCrashes
      OBVIOUS
    <3>3. damage' \subseteq Damages
      OBVIOUS
    <3>4. faults' \in 0..MaxFaults
      OBVIOUS
    <3> QED BY <3>1, <3>2, <3>3, <3>4
  <2>5. InHand'
    OBVIOUS
  <2>6. SizeFits'
    BY <2>r
  <2> QED BY <2>1, <2>2, <2>3, <2>4, <2>5, <2>6, Zenon
<1>21. CASE DeleteClearBit
  <2> USE <1>21 DEF DeleteClearBit, FreeBit, NoFault, Fault, disk, memory, locals, history, Return, Quiet
  <2>1. DiskType'
    OBVIOUS
  <2>2. MemoryType'
    OBVIOUS
  <2>3. HandlerType'
    OBVIOUS
  <2>4. HistoryType'
    OBVIOUS
  <2>5. InHand'
    OBVIOUS
  <2>6. SizeFits'
    OBVIOUS
  <2> QED BY <2>1, <2>2, <2>3, <2>4, <2>5, <2>6, Zenon
<1>22. CASE WriteAlloc
  <2> USE <1>22 DEF WriteAlloc, disk, memory, locals, history
  <2>a. PICK run \in SUBSET Cluster :
           /\ bitmap' = bitmap \cup run /\ bitmapDisk' = bitmapDisk \cup run
           /\ log' = log \cup run
           /\ left' \in Nat /\ Len(img'.map) + left' = Len(img.map) + left
           /\ pc' \in {"wr_undo", "wr_alloc"}
           /\ img' \in FileRecord /\ img'.size = img.size
    <3> HIDE <1>22 DEF TypeInv
    <3>1. img \in FileRecord /\ left \in Nat
      BY DEF TypeInv
    <3> QED BY <1>22, <3>1, WriteAllocLemma
  <2>1. DiskType'
    BY <2>a
  <2>2. MemoryType'
    BY <2>a
  <2>3. HandlerType'
    BY <2>a
  <2>4. HistoryType'
    OBVIOUS
  <2>5. InHand'
    OBVIOUS
  <2>6. SizeFits'
    BY <2>a, FieldsLemma
  <2> QED BY <2>1, <2>2, <2>3, <2>4, <2>5, <2>6, Zenon
<1>23. CASE WriteGiveUp
  <2> USE <1>23 DEF WriteGiveUp, disk, memory, locals, history
  <2>1. DiskType'
    OBVIOUS
  <2>2. MemoryType'
    OBVIOUS
  <2>3. HandlerType'
    OBVIOUS
  <2>4. HistoryType'
    OBVIOUS
  <2>5. InHand'
    OBVIOUS
  <2>6. SizeFits'
    OBVIOUS
  <2> QED BY <2>1, <2>2, <2>3, <2>4, <2>5, <2>6, Zenon
<1>24. CASE WriteAllocated
  <2> USE <1>24 DEF WriteAllocated, disk, memory, locals, history
  <2>1. DiskType'
    OBVIOUS
  <2>2. MemoryType'
    OBVIOUS
  <2>3. HandlerType'
    OBVIOUS
  <2>4. HistoryType'
    OBVIOUS
  <2>5. InHand'
    OBVIOUS
  <2>6. SizeFits'
    OBVIOUS
  <2> QED BY <2>1, <2>2, <2>3, <2>4, <2>5, <2>6, Zenon
<1>25. CASE WriteUndo
  <2> USE <1>25 DEF WriteUndo, disk, memory, locals, history, FreeRunOf
  <2>1. DiskType'
    OBVIOUS
  <2>2. MemoryType'
    OBVIOUS
  <2>3. HandlerType'
    OBVIOUS
  <2>4. HistoryType'
    OBVIOUS
  <2>5. InHand'
    OBVIOUS
  <2>6. SizeFits'
    OBVIOUS
  <2> QED BY <2>1, <2>2, <2>3, <2>4, <2>5, <2>6, Zenon
<1>26. CASE WriteRefused
  <2> USE <1>26 DEF WriteRefused, disk, memory, locals, history, Return, Quiet
  <2>1. DiskType'
    OBVIOUS
  <2>2. MemoryType'
    OBVIOUS
  <2>3. HandlerType'
    OBVIOUS
  <2>4. HistoryType'
    OBVIOUS
  <2>5. InHand'
    OBVIOUS
  <2>6. SizeFits'
    OBVIOUS
  <2> QED BY <2>1, <2>2, <2>3, <2>4, <2>5, <2>6, Zenon
<1>27. CASE WriteRecord
  <2> USE <1>27 DEF WriteRecord, disk, memory, locals, history, Fault, Return, Quiet
  <2>r. NonResident(img) \in FileRecord /\ NonResident(img).map = img.map
          /\ NonResident(img).size = img.size
    BY NonResidentLemma
  <2>1. DiskType'
    BY <2>r
  <2>2. MemoryType'
    OBVIOUS
  <2>3. HandlerType'
    OBVIOUS
  <2>4. HistoryType'
    OBVIOUS
  <2>5. InHand'
    OBVIOUS
  <2>s. /\ img.size <= Len(img.map)
        /\ \A r \in Record : rec[r].size <= Len(rec[r].map)
    OBVIOUS
  <2>t. \A r \in Record : rec'[r] = rec[r] \/ rec'[r] = NonResident(img)
    OBVIOUS
  <2>u. \A r \in Record : rec'[r].size <= Len(rec'[r].map)
    BY <2>r, <2>s, <2>t
  <2>v. pc' \in {"sync", "idle"} /\ (img' = img \/ pc' = "idle")
    OBVIOUS
  <2>w. img'.size <= Len(img'.map)
    BY <2>s
  <2>6. SizeFits'
    BY <2>u, <2>v, <2>w
  <2> QED BY <2>1, <2>2, <2>3, <2>4, <2>5, <2>6, Zenon
<1>28. CASE ShrinkFree
  <2> USE <1>28 DEF ShrinkFree, disk, memory, locals, history, FreeRunOf
  <2>1. DiskType'
    OBVIOUS
  <2>2. MemoryType'
    OBVIOUS
  <2>3. HandlerType'
    OBVIOUS
  <2>4. HistoryType'
    OBVIOUS
  <2>5. InHand'
    OBVIOUS
  <2>6. SizeFits'
    OBVIOUS
  <2> QED BY <2>1, <2>2, <2>3, <2>4, <2>5, <2>6, Zenon
<1>29. CASE ShrinkRefused
  <2> USE <1>29 DEF ShrinkRefused, disk, memory, locals, history, Torn, Damages, Return, Quiet
  <2>1. DiskType'
    OBVIOUS
  <2>2. MemoryType'
    OBVIOUS
  <2>3. HandlerType'
    OBVIOUS
  <2>4. HistoryType'
    OBVIOUS
  <2>5. InHand'
    OBVIOUS
  <2>6. SizeFits'
    OBVIOUS
  <2> QED BY <2>1, <2>2, <2>3, <2>4, <2>5, <2>6, Zenon
<1>30. CASE ShrinkRecord
  <2> USE <1>30 DEF ShrinkRecord, disk, memory, locals, history, Fault, Torn, Damages, Return, Quiet
  <2>1. DiskType'
    OBVIOUS
  <2>2. MemoryType'
    OBVIOUS
  <2>3. HandlerType'
    OBVIOUS
  <2>4. HistoryType'
    <3>1. freed' \subseteq Cluster
      OBVIOUS
    <3>2. status' \in {"none", "ok", "refused"} /\ crashes' \in 0..MaxCrashes
      OBVIOUS
    <3>3. damage' \subseteq Damages
      OBVIOUS
    <3>4. faults' \in 0..MaxFaults
      OBVIOUS
    <3> QED BY <3>1, <3>2, <3>3, <3>4
  <2>5. InHand'
    OBVIOUS
  <2>6. SizeFits'
    <3>1. CASE rec' = [rec EXCEPT ![cur] = img] /\ pc' = "sync" /\ img' = img
      BY <3>1
    <3>2. CASE rec' = rec /\ img' = FreeRecord /\ pc' = "idle"
      BY <3>2
    <3> QED BY <3>1, <3>2
  <2> QED BY <2>1, <2>2, <2>3, <2>4, <2>5, <2>6, Zenon
<1>31. CASE Sync
  <2> USE <1>31 DEF Sync, disk, memory, locals, history, Fault, NoFault, Return, Quiet
  <2>e. ASSUME NEW n \in Live, index[n].rec = cur
        PROVE  [index[n] EXCEPT !.size = img.size] \in Entry
    BY <2>e, EntryLemma, FieldsLemma DEF Entry, Live
  <2>1. DiskType'
    BY <2>e
  <2>2. MemoryType'
    OBVIOUS
  <2>3. HandlerType'
    OBVIOUS
  <2>4. HistoryType'
    OBVIOUS
  <2>5. InHand'
    OBVIOUS
  <2>6. SizeFits'
    OBVIOUS
  <2> QED BY <2>1, <2>2, <2>3, <2>4, <2>5, <2>6, Zenon
<1>32. CASE Unmount
  <2> USE <1>32 DEF Unmount, NoFault, Fault, disk, memory, locals, history
  <2>1. DiskType'
    OBVIOUS
  <2>2. MemoryType'
    OBVIOUS
  <2>3. HandlerType'
    OBVIOUS
  <2>4. HistoryType'
    OBVIOUS
  <2>5. InHand'
    OBVIOUS
  <2>6. SizeFits'
    OBVIOUS
  <2> QED BY <2>1, <2>2, <2>3, <2>4, <2>5, <2>6, Zenon
<1>33. CASE Mount
  <2> USE <1>33 DEF Mount, disk, memory, locals, history
  <2>1. DiskType'
    OBVIOUS
  <2>2. MemoryType'
    OBVIOUS
  <2>3. HandlerType'
    OBVIOUS
  <2>4. HistoryType'
    OBVIOUS
  <2>5. InHand'
    OBVIOUS
  <2>6. SizeFits'
    OBVIOUS
  <2> QED BY <2>1, <2>2, <2>3, <2>4, <2>5, <2>6, Zenon
<1>34. CASE Crash
  <2> USE <1>34 DEF Crash, disk, memory, locals, history, Torn, Damages, Quiet
  <2>1. DiskType'
    OBVIOUS
  <2>2. MemoryType'
    OBVIOUS
  <2>3. HandlerType'
    OBVIOUS
  <2>4. HistoryType'
    OBVIOUS
  <2>5. InHand'
    OBVIOUS
  <2>6. SizeFits'
    OBVIOUS
  <2> QED BY <2>1, <2>2, <2>3, <2>4, <2>5, <2>6, Zenon
<1>35. CASE UNCHANGED vars
  <2> USE <1>35 DEF vars, disk, memory, locals, history
  <2>1. DiskType'
    OBVIOUS
  <2>2. MemoryType'
    OBVIOUS
  <2>3. HandlerType'
    OBVIOUS
  <2>4. HistoryType'
    OBVIOUS
  <2>5. InHand'
    OBVIOUS
  <2>6. SizeFits'
    OBVIOUS
  <2> QED BY <2>1, <2>2, <2>3, <2>4, <2>5, <2>6, Zenon
<1> QED
  BY <1>1, <1>2, <1>3, <1>4, <1>5, <1>6, <1>7, <1>8, <1>9, <1>10, <1>11, <1>12, <1>13, <1>14, <1>15, <1>16, <1>17, <1>18, <1>19, <1>20, <1>21, <1>22, <1>23, <1>24, <1>25, <1>26, <1>27, <1>28, <1>29, <1>30, <1>31, <1>32, <1>33, <1>34, <1>35
  DEF Next, Call, Handler

\* The variables keep their types on every volume.
THEOREM TypeCorrect == Spec => []TypeOK
<1>1. TypeInv => TypeOK
  BY DEF TypeInv
<1> QED BY <1>1, TypeInit, TypeStep, PTL DEF Spec

(***************************************************************************)
(* The properties of NtfsStore, for every volume size and every number of  *)
(* records and names.  First the three that hold whatever crashes and      *)
(* whatever disk write fails: their inductive invariant is SafeInv, its    *)
(* parts defined and explained above.  Then what holds until the first     *)
(* crash or failed write (CalmInv), and the refinement of ClusterSpace.    *)
(***************************************************************************)

(***************************************************************************)
(* The locals of the running call, the entries and the records             *)
(***************************************************************************)

\* A call leaves nothing in hand, and its image keeps the identity of the record.
LEMMA LocalsStep == TypeInv /\ LocalsInv /\ [Next]_vars => LocalsInv'
<1> SUFFICES ASSUME TypeInv /\ LocalsInv, [Next]_vars PROVE LocalsInv'
  OBVIOUS
<1> USE FreeRecordLemma
<1> USE DEF LocalsInv, Writing, Freeing, Creating
<1>1. ASSUME NEW n \in Name, CreateBegin(n) PROVE LocalsInv'
  BY <1>1 DEF CreateBegin, Start, MarkDirty, NoFault, Fault
<1>2. ASSUME NEW n \in Name, DeleteBegin(n) PROVE LocalsInv'
  BY <1>2 DEF DeleteBegin, Start, MarkDirty, NoFault, Fault
<1>3. ASSUME NEW n \in Name, DeleteStale(n) PROVE LocalsInv'
  BY <1>3 DEF DeleteStale, MarkDirty, NoFault, Fault, Return, Quiet
<1>4. ASSUME NEW n \in Name, NEW k \in 0..MaxSize, WriteBegin(n, k) PROVE LocalsInv'
  <2>1. /\ cur' = index[n].rec /\ pc' \in {"wr_rec", "wr_alloc"}
        /\ img'.inUse = rec[index[n].rec].inUse /\ img'.seq = rec[index[n].rec].seq
    BY <1>4, WriteBeginLemma DEF TypeInv, TypeOK
  <2> QED BY <1>4, <2>1 DEF WriteBegin, Start
<1>5. ASSUME NEW n \in Name, NEW k \in 0..MaxSize, TruncateBegin(n, k) PROVE LocalsInv'
  <2>1. /\ pc' = "sh_free" /\ cur' = index[n].rec
        /\ img'.inUse = rec[index[n].rec].inUse /\ img'.seq = rec[index[n].rec].seq
    BY <1>5, TruncateLemma
  <2> QED BY <1>5, <2>1 DEF TruncateBegin, Shrink, Start
<1>6. ASSUME NEW r \in Record, CloseTrim(r) PROVE LocalsInv'
  <2>1. /\ pc' = "sh_free" /\ cur' = r
        /\ img'.inUse = rec[r].inUse /\ img'.seq = rec[r].seq
    BY <1>6, CloseTrimLemma
  <2> QED BY <1>6, <2>1 DEF CloseTrim, Shrink, Start
<1>7. ASSUME NEW r \in Record, CloseNoSlack(r) PROVE LocalsInv'
  BY <1>7 DEF CloseNoSlack, disk, Return, Quiet
<1>8. CASE CreateAllocRecord
  BY <1>8 DEF CreateAllocRecord, disk, memory, locals, history
<1>9. CASE CreateNoRecord
  BY <1>9 DEF CreateNoRecord, NoFault, Fault, disk, memory, locals, history, Return, Quiet
<1>10. CASE CreateWriteRecord
  BY <1>10 DEF CreateWriteRecord, disk, memory, locals, history
<1>11. CASE CreateWriteRecordFails
  BY <1>11 DEF CreateWriteRecordFails, disk, memory, locals, history, Fault
<1>12. CASE CreateInsert
  BY <1>12 DEF CreateInsert, disk, memory, locals, history, Return, Quiet
<1>13. CASE CreateInsertRefused
  BY <1>13 DEF CreateInsertRefused, disk, memory, locals, history
<1>14. CASE CreateCommitFails
  BY <1>14 DEF CreateCommitFails, disk, memory, locals, history, Fault
<1>15. CASE CreateUndoRecord
  BY <1>15 DEF CreateUndoRecord, disk, memory, locals, history, Fault
<1>16. CASE CreateUndoBit
  BY <1>16 DEF CreateUndoBit, FreeBit, NoFault, Fault, disk, memory, locals, history, Return, Quiet
<1>17. CASE DeleteUnlink
  BY <1>17 DEF DeleteUnlink, disk, memory, locals, history
<1>18. CASE DeleteUnlinkRefused
  BY <1>18 DEF DeleteUnlinkRefused, disk, memory, locals, history, Return, Quiet
<1>19. CASE DeleteFree
  BY <1>19 DEF DeleteFree, disk, memory, locals, history, FreeRunOf
<1>20. CASE DeleteClearRecord
  BY <1>20 DEF DeleteClearRecord, disk, memory, locals, history, Fault
<1>21. CASE DeleteClearBit
  BY <1>21 DEF DeleteClearBit, FreeBit, NoFault, Fault, disk, memory, locals, history, Return, Quiet
<1>22. CASE WriteAlloc
  <2>1. /\ img'.inUse = img.inUse /\ img'.seq = img.seq
        /\ pc' \in {"wr_undo", "wr_alloc"}
    BY <1>22, WriteAllocLemma DEF TypeInv, TypeOK, HandlerType
  <2>2. /\ rec' = rec /\ cur' = cur /\ todo' = todo /\ freed' = freed
        /\ mounted' = mounted /\ pc = "wr_alloc"
    BY <1>22 DEF WriteAlloc, history
  <2>3. mounted' => bitmap' = bitmapDisk'
    BY <1>22, <2>2 DEF WriteAlloc
  <2> QED BY <2>1, <2>2, <2>3
<1>23. CASE WriteGiveUp
  BY <1>23 DEF WriteGiveUp, disk, memory, locals, history
<1>24. CASE WriteAllocated
  BY <1>24 DEF WriteAllocated, disk, memory, locals, history
<1>25. CASE WriteUndo
  BY <1>25 DEF WriteUndo, disk, memory, locals, history, FreeRunOf
<1>26. CASE WriteRefused
  BY <1>26 DEF WriteRefused, disk, memory, locals, history, Return, Quiet
<1>27. CASE WriteRecord
  <2>1. /\ NonResident(img).inUse = img.inUse /\ NonResident(img).seq = img.seq
        /\ rec \in [Record -> FileRecord] /\ cur \in Record
    BY <1>27, NonResidentLemma DEF WriteRecord, TypeInv, TypeOK, HandlerType, DiskType, InHand
  <2> QED BY <1>27, <2>1 DEF WriteRecord, disk, memory, locals, history, Fault, Return, Quiet
<1>28. CASE ShrinkFree
  BY <1>28 DEF ShrinkFree, disk, memory, locals, history, FreeRunOf
<1>29. CASE ShrinkRefused
  BY <1>29 DEF ShrinkRefused, disk, memory, locals, history, Torn, Return, Quiet
<1>30. CASE ShrinkRecord
  <2>1. rec \in [Record -> FileRecord] /\ cur \in Record
    BY <1>30 DEF ShrinkRecord, TypeInv, TypeOK, DiskType, InHand
  <2> QED BY <1>30, <2>1 DEF ShrinkRecord, disk, memory, locals, history, Fault, Torn, Return, Quiet
<1>31. CASE Sync
  BY <1>31 DEF Sync, disk, memory, locals, history, Fault, NoFault, Return, Quiet
<1>32. CASE Unmount
  BY <1>32 DEF Unmount, NoFault, Fault, disk, memory, locals, history
<1>33. CASE Mount
  BY <1>33 DEF Mount, disk, memory, locals, history
<1>34. CASE Crash
  BY <1>34 DEF Crash, disk, memory, locals, history, Torn, Quiet
<1>35. CASE UNCHANGED vars
  BY <1>35 DEF vars, disk, memory, locals, history
<1> QED
  BY <1>1, <1>2, <1>3, <1>4, <1>5, <1>6, <1>7, <1>8, <1>9, <1>10, <1>11, <1>12, <1>13, <1>14, <1>15, <1>16, <1>17, <1>18, <1>19, <1>20, <1>21, <1>22, <1>23, <1>24, <1>25, <1>26, <1>27, <1>28, <1>29, <1>30, <1>31, <1>32, <1>33, <1>34, <1>35
  DEF Next, Call, Handler

\* Every step keeps the entries resolved.
LEMMA EntryStep == TypeInv /\ LocalsInv /\ EntryInv /\ [Next]_vars => EntryInv'
<1> SUFFICES ASSUME TypeInv /\ LocalsInv /\ EntryInv, [Next]_vars PROVE EntryInv'
  OBVIOUS
<1> USE DEF EntryInv, EntriesResolve, Live
<1>1. ASSUME NEW n \in Name, CreateBegin(n) PROVE EntryInv'
  BY <1>1 DEF CreateBegin, Start, MarkDirty, NoFault, Fault
<1>2. ASSUME NEW n \in Name, DeleteBegin(n) PROVE EntryInv'
  BY <1>2 DEF DeleteBegin, Start, MarkDirty, NoFault, Fault
<1>3. ASSUME NEW n \in Name, DeleteStale(n) PROVE EntryInv'
  BY <1>3 DEF DeleteStale, MarkDirty, NoFault, Fault, Return, Quiet
<1>4. ASSUME NEW n \in Name, NEW k \in 0..MaxSize, WriteBegin(n, k) PROVE EntryInv'
  BY <1>4 DEF WriteBegin, Start, MarkDirty, NoFault, Fault
<1>5. ASSUME NEW n \in Name, NEW k \in 0..MaxSize, TruncateBegin(n, k) PROVE EntryInv'
  BY <1>5 DEF TruncateBegin, Start, MarkDirty, NoFault, Fault, Shrink
<1>6. ASSUME NEW r \in Record, CloseTrim(r) PROVE EntryInv'
  BY <1>6 DEF CloseTrim, Start, MarkDirty, NoFault, Fault, Shrink
<1>7. ASSUME NEW r \in Record, CloseNoSlack(r) PROVE EntryInv'
  BY <1>7 DEF CloseNoSlack, disk, Return, Quiet
<1>8. CASE CreateAllocRecord
  BY <1>8 DEF CreateAllocRecord, disk, memory, locals, history
<1>9. CASE CreateNoRecord
  BY <1>9 DEF CreateNoRecord, NoFault, Fault, disk, memory, locals, history, Return, Quiet
<1>10. CASE CreateWriteRecord
  <2>1. /\ rec \in [Record -> FileRecord] /\ cur \in Record /\ img \in FileRecord
        /\ \A n \in Name : index[n] # None => index[n].rec \in Record
    BY <1>10, EntryLemma DEF CreateWriteRecord, TypeInv, TypeOK, DiskType, HandlerType, InHand
  <2>2. /\ index' = index /\ mftBitmap' = mftBitmap /\ cur' = cur
        /\ pc = "cr_rec" /\ pc' = "cr_ins"
        /\ "entry" \in damage' <=> "entry" \in damage
    BY <1>10 DEF CreateWriteRecord, locals, history, Fault
  <2>3. \A r \in Record : r # cur => rec'[r] = rec[r]
    BY <1>10, <2>1 DEF CreateWriteRecord
  <2>4. rec'[cur].inUse
    BY <1>10, <2>1, NewFileLemma, FieldsLemma DEF CreateWriteRecord
  <2> QED BY <2>1, <2>2, <2>3, <2>4
<1>11. CASE CreateWriteRecordFails
  BY <1>11 DEF CreateWriteRecordFails, disk, memory, locals, history, Fault
<1>12. CASE CreateInsert
  BY <1>12 DEF CreateInsert, disk, memory, locals, history, Return, Quiet
<1>13. CASE CreateInsertRefused
  BY <1>13 DEF CreateInsertRefused, disk, memory, locals, history
<1>14. CASE CreateCommitFails
  BY <1>14 DEF CreateCommitFails, disk, memory, locals, history, Fault
<1>15. CASE CreateUndoRecord
  <2>1. /\ rec \in [Record -> FileRecord] /\ cur \in Record /\ img \in FileRecord
        /\ \A n \in Name : index[n] # None => index[n].rec \in Record
    BY <1>15, EntryLemma DEF CreateUndoRecord, TypeInv, TypeOK, DiskType, HandlerType, InHand
  <2>2. /\ index' = index /\ mftBitmap' = mftBitmap /\ cur' = cur
        /\ pc = "cr_undo" /\ pc' = "cr_unbit"
        /\ "entry" \in damage' <=> "entry" \in damage
    BY <1>15 DEF CreateUndoRecord, locals, history, Fault
  <2>3. \A r \in Record : r # cur => rec'[r] = rec[r]
    BY <1>15, <2>1 DEF CreateUndoRecord
  <2> QED BY <2>1, <2>2, <2>3
<1>16. CASE CreateUndoBit
  BY <1>16 DEF CreateUndoBit, FreeBit, NoFault, Fault, disk, memory, locals, history, Return, Quiet
<1>17. CASE DeleteUnlink
  <2>t. rec \in [Record -> FileRecord] /\ index \in [Name -> Entry \cup {None}] /\ cur \in Record
    BY <1>17 DEF DeleteUnlink, TypeInv, TypeOK, DiskType, InHand
  <2> QED BY <1>17, <2>t DEF DeleteUnlink, disk, memory, locals, history
<1>18. CASE DeleteUnlinkRefused
  BY <1>18 DEF DeleteUnlinkRefused, disk, memory, locals, history, Return, Quiet
<1>19. CASE DeleteFree
  BY <1>19 DEF DeleteFree, disk, memory, locals, history, FreeRunOf
<1>20. CASE DeleteClearRecord
  <2>1. /\ rec \in [Record -> FileRecord] /\ cur \in Record /\ img \in FileRecord
        /\ \A n \in Name : index[n] # None => index[n].rec \in Record
    BY <1>20, EntryLemma DEF DeleteClearRecord, TypeInv, TypeOK, DiskType, HandlerType, InHand
  <2>2. /\ index' = index /\ mftBitmap' = mftBitmap /\ cur' = cur
        /\ pc = "de_free" /\ pc' = "de_bit"
        /\ "entry" \in damage' <=> "entry" \in damage
    BY <1>20 DEF DeleteClearRecord, locals, history, Fault
  <2>3. \A r \in Record : r # cur => rec'[r] = rec[r]
    BY <1>20, <2>1 DEF DeleteClearRecord
  <2> QED BY <2>1, <2>2, <2>3
<1>21. CASE DeleteClearBit
  BY <1>21 DEF DeleteClearBit, FreeBit, NoFault, Fault, disk, memory, locals, history, Return, Quiet
<1>22. CASE WriteAlloc
  BY <1>22 DEF WriteAlloc, disk, memory, locals, history
<1>23. CASE WriteGiveUp
  BY <1>23 DEF WriteGiveUp, disk, memory, locals, history
<1>24. CASE WriteAllocated
  BY <1>24 DEF WriteAllocated, disk, memory, locals, history
<1>25. CASE WriteUndo
  BY <1>25 DEF WriteUndo, disk, memory, locals, history, FreeRunOf
<1>26. CASE WriteRefused
  BY <1>26 DEF WriteRefused, disk, memory, locals, history, Return, Quiet
<1>27. CASE WriteRecord
  <2>t. rec \in [Record -> FileRecord] /\ index \in [Name -> Entry \cup {None}] /\ cur \in Record
    BY <1>27 DEF WriteRecord, TypeInv, TypeOK, DiskType, InHand
  <2>1. /\ NonResident(img).inUse = rec[cur].inUse /\ NonResident(img).seq = rec[cur].seq
        /\ damage' = damage
    BY <1>27, NonResidentLemma DEF WriteRecord, TypeInv, TypeOK, HandlerType, LocalsInv, Writing
  <2>2. \A r \in Record : rec'[r].inUse = rec[r].inUse /\ rec'[r].seq = rec[r].seq
    BY <1>27, <2>t, <2>1 DEF WriteRecord
  <2>3. /\ index' = index /\ mftBitmap' = mftBitmap
        /\ pc' \in {"sync", "idle"} 
    BY <1>27 DEF WriteRecord, Return
  <2>4. \A n \in Name : index[n] # None => index[n].rec \in Record
    BY EntryLemma DEF TypeInv, TypeOK
  <2> QED BY <2>1, <2>2, <2>3, <2>4
<1>28. CASE ShrinkFree
  BY <1>28 DEF ShrinkFree, disk, memory, locals, history, FreeRunOf
<1>29. CASE ShrinkRefused
  BY <1>29 DEF ShrinkRefused, disk, memory, locals, history, Torn, Return, Quiet
<1>30. CASE ShrinkRecord
  <2>t. rec \in [Record -> FileRecord] /\ index \in [Name -> Entry \cup {None}] /\ cur \in Record
    BY <1>30 DEF ShrinkRecord, TypeInv, TypeOK, DiskType, InHand
  <2>1. img.inUse = rec[cur].inUse /\ img.seq = rec[cur].seq
    BY <1>30 DEF ShrinkRecord, LocalsInv
  <2>2. \A r \in Record : rec'[r].inUse = rec[r].inUse /\ rec'[r].seq = rec[r].seq
    BY <1>30, <2>t, <2>1 DEF ShrinkRecord
  <2>3. /\ index' = index /\ mftBitmap' = mftBitmap
        /\ pc' \in {"sync", "idle"}
        /\ damage' \in {damage, damage \cup {"cluster"}}
    BY <1>30 DEF ShrinkRecord, Return, Torn
  <2>4. \A n \in Name : index[n] # None => index[n].rec \in Record
    BY EntryLemma DEF TypeInv, TypeOK
  <2> QED BY <2>1, <2>2, <2>3, <2>4
<1>31. CASE Sync
  <2>t. rec \in [Record -> FileRecord] /\ index \in [Name -> Entry \cup {None}] /\ cur \in Record
    BY <1>31 DEF Sync, TypeInv, TypeOK, DiskType, InHand
  <2>1. ASSUME NEW n \in Name
        PROVE  /\ index'[n] = None <=> index[n] = None
               /\ index[n] # None => /\ index'[n].rec = index[n].rec
                                     /\ index'[n].seq = index[n].seq
    <3>1. ASSUME NEW m \in Live, index' = [index EXCEPT ![m].size = img.size]
          PROVE  /\ index'[n] = None <=> index[n] = None
                 /\ index[n] # None => /\ index'[n].rec = index[n].rec
                                       /\ index'[n].seq = index[n].seq
      <4>1. CASE n = m
        <5>1. index[m] \in Entry /\ [index[m] EXCEPT !.size = img.size] \in Entry
          BY EntryLemma, FieldsLemma DEF TypeInv, TypeOK, HandlerType, Entry
        <5>2. index'[m] = [index[m] EXCEPT !.size = img.size]
          BY <3>1, <2>t
        <5> QED BY <4>1, <5>1, <5>2, NoneAssumption DEF Entry
      <4>2. CASE n # m
        BY <4>2, <3>1, <2>t
      <4> QED BY <4>1, <4>2
    <3> QED BY <1>31, <3>1 DEF Sync
  <2>2. rec' = rec /\ mftBitmap' = mftBitmap /\ damage' = damage /\ pc' = "idle"
    BY <1>31 DEF Sync, Return
  <2> QED BY <2>1, <2>2
<1>32. CASE Unmount
  BY <1>32 DEF Unmount, NoFault, Fault, disk, memory, locals, history
<1>33. CASE Mount
  BY <1>33 DEF Mount, disk, memory, locals, history
<1>34. CASE Crash
  BY <1>34 DEF Crash, disk, memory, locals, history, Torn, Quiet
<1>35. CASE UNCHANGED vars
  BY <1>35 DEF vars, disk, memory, locals, history
<1> QED
  BY <1>1, <1>2, <1>3, <1>4, <1>5, <1>6, <1>7, <1>8, <1>9, <1>10, <1>11, <1>12, <1>13, <1>14, <1>15, <1>16, <1>17, <1>18, <1>19, <1>20, <1>21, <1>22, <1>23, <1>24, <1>25, <1>26, <1>27, <1>28, <1>29, <1>30, <1>31, <1>32, <1>33, <1>34, <1>35
  DEF Next, Call, Handler

\* Every step keeps the bits of the records in use.
LEMMA RecordStep == TypeInv /\ LocalsInv /\ RecordInv /\ [Next]_vars => RecordInv'
<1> SUFFICES ASSUME TypeInv /\ LocalsInv /\ RecordInv, [Next]_vars PROVE RecordInv'
  OBVIOUS
<1> USE DEF RecordInv, InUse
<1>1. ASSUME NEW n \in Name, CreateBegin(n) PROVE RecordInv'
  BY <1>1 DEF CreateBegin, Start, MarkDirty, NoFault, Fault
<1>2. ASSUME NEW n \in Name, DeleteBegin(n) PROVE RecordInv'
  BY <1>2 DEF DeleteBegin, Start, MarkDirty, NoFault, Fault
<1>3. ASSUME NEW n \in Name, DeleteStale(n) PROVE RecordInv'
  BY <1>3 DEF DeleteStale, MarkDirty, NoFault, Fault, Return, Quiet
<1>4. ASSUME NEW n \in Name, NEW k \in 0..MaxSize, WriteBegin(n, k) PROVE RecordInv'
  BY <1>4 DEF WriteBegin, Start, MarkDirty, NoFault, Fault
<1>5. ASSUME NEW n \in Name, NEW k \in 0..MaxSize, TruncateBegin(n, k) PROVE RecordInv'
  BY <1>5 DEF TruncateBegin, Start, MarkDirty, NoFault, Fault, Shrink
<1>6. ASSUME NEW r \in Record, CloseTrim(r) PROVE RecordInv'
  BY <1>6 DEF CloseTrim, Start, MarkDirty, NoFault, Fault, Shrink
<1>7. ASSUME NEW r \in Record, CloseNoSlack(r) PROVE RecordInv'
  BY <1>7 DEF CloseNoSlack, disk, Return, Quiet
<1>8. CASE CreateAllocRecord
  BY <1>8 DEF CreateAllocRecord, disk, memory, locals, history
<1>9. CASE CreateNoRecord
  BY <1>9 DEF CreateNoRecord, NoFault, Fault, disk, memory, locals, history, Return, Quiet
<1>10. CASE CreateWriteRecord
  BY <1>10 DEF CreateWriteRecord, disk, memory, locals, history
<1>11. CASE CreateWriteRecordFails
  BY <1>11 DEF CreateWriteRecordFails, disk, memory, locals, history, Fault
<1>12. CASE CreateInsert
  BY <1>12 DEF CreateInsert, disk, memory, locals, history, Return, Quiet
<1>13. CASE CreateInsertRefused
  BY <1>13 DEF CreateInsertRefused, disk, memory, locals, history
<1>14. CASE CreateCommitFails
  BY <1>14 DEF CreateCommitFails, disk, memory, locals, history, Fault
<1>15. CASE CreateUndoRecord
  <2>t. rec \in [Record -> FileRecord] /\ index \in [Name -> Entry \cup {None}] /\ cur \in Record
    BY <1>15 DEF CreateUndoRecord, TypeInv, TypeOK, DiskType, InHand
  <2>1. ~Released(rec[cur]).inUse
    BY ReleasedLemma, <2>t DEF TypeInv, TypeOK, HandlerType
  <2> QED BY <1>15, <2>t, <2>1 DEF CreateUndoRecord, disk, memory, locals, history, Fault
<1>16. CASE CreateUndoBit
  BY <1>16 DEF CreateUndoBit, FreeBit, NoFault, Fault, disk, memory, locals, history, Return, Quiet
<1>17. CASE DeleteUnlink
  BY <1>17 DEF DeleteUnlink, disk, memory, locals, history
<1>18. CASE DeleteUnlinkRefused
  BY <1>18 DEF DeleteUnlinkRefused, disk, memory, locals, history, Return, Quiet
<1>19. CASE DeleteFree
  BY <1>19 DEF DeleteFree, disk, memory, locals, history, FreeRunOf
<1>20. CASE DeleteClearRecord
  <2>t. rec \in [Record -> FileRecord] /\ index \in [Name -> Entry \cup {None}] /\ cur \in Record
    BY <1>20 DEF DeleteClearRecord, TypeInv, TypeOK, DiskType, InHand
  <2>1. ~Released(img).inUse
    BY ReleasedLemma, <2>t DEF TypeInv, TypeOK, HandlerType
  <2> QED BY <1>20, <2>t, <2>1 DEF DeleteClearRecord, disk, memory, locals, history, Fault
<1>21. CASE DeleteClearBit
  BY <1>21 DEF DeleteClearBit, FreeBit, NoFault, Fault, disk, memory, locals, history, Return, Quiet
<1>22. CASE WriteAlloc
  BY <1>22 DEF WriteAlloc, disk, memory, locals, history
<1>23. CASE WriteGiveUp
  BY <1>23 DEF WriteGiveUp, disk, memory, locals, history
<1>24. CASE WriteAllocated
  BY <1>24 DEF WriteAllocated, disk, memory, locals, history
<1>25. CASE WriteUndo
  BY <1>25 DEF WriteUndo, disk, memory, locals, history, FreeRunOf
<1>26. CASE WriteRefused
  BY <1>26 DEF WriteRefused, disk, memory, locals, history, Return, Quiet
<1>27. CASE WriteRecord
  <2>t. rec \in [Record -> FileRecord] /\ index \in [Name -> Entry \cup {None}] /\ cur \in Record
    BY <1>27 DEF WriteRecord, TypeInv, TypeOK, DiskType, InHand
  <2>1. /\ NonResident(img).inUse = rec[cur].inUse /\ NonResident(img).seq = rec[cur].seq
        /\ damage' = damage
    BY <1>27, NonResidentLemma DEF WriteRecord, TypeInv, TypeOK, HandlerType, LocalsInv, Writing
  <2>2. \A r \in Record : rec'[r].inUse = rec[r].inUse /\ rec'[r].seq = rec[r].seq
    BY <1>27, <2>t, <2>1 DEF WriteRecord
  <2>3. /\ index' = index /\ mftBitmap' = mftBitmap
        /\ pc' \in {"sync", "idle"} 
    BY <1>27 DEF WriteRecord, Return
  <2> QED BY <2>1, <2>2, <2>3
<1>28. CASE ShrinkFree
  BY <1>28 DEF ShrinkFree, disk, memory, locals, history, FreeRunOf
<1>29. CASE ShrinkRefused
  BY <1>29 DEF ShrinkRefused, disk, memory, locals, history, Torn, Return, Quiet
<1>30. CASE ShrinkRecord
  <2>t. rec \in [Record -> FileRecord] /\ index \in [Name -> Entry \cup {None}] /\ cur \in Record
    BY <1>30 DEF ShrinkRecord, TypeInv, TypeOK, DiskType, InHand
  <2>1. img.inUse = rec[cur].inUse /\ img.seq = rec[cur].seq
    BY <1>30 DEF ShrinkRecord, LocalsInv
  <2>2. \A r \in Record : rec'[r].inUse = rec[r].inUse /\ rec'[r].seq = rec[r].seq
    BY <1>30, <2>t, <2>1 DEF ShrinkRecord
  <2>3. /\ index' = index /\ mftBitmap' = mftBitmap
        /\ pc' \in {"sync", "idle"}
        /\ damage' \in {damage, damage \cup {"cluster"}}
    BY <1>30 DEF ShrinkRecord, Return, Torn
  <2> QED BY <2>1, <2>2, <2>3
<1>31. CASE Sync
  BY <1>31 DEF Sync, disk, memory, locals, history, Fault, NoFault, Return, Quiet
<1>32. CASE Unmount
  BY <1>32 DEF Unmount, NoFault, Fault, disk, memory, locals, history
<1>33. CASE Mount
  BY <1>33 DEF Mount, disk, memory, locals, history
<1>34. CASE Crash
  BY <1>34 DEF Crash, disk, memory, locals, history, Torn, Quiet
<1>35. CASE UNCHANGED vars
  BY <1>35 DEF vars, disk, memory, locals, history
<1> QED
  BY <1>1, <1>2, <1>3, <1>4, <1>5, <1>6, <1>7, <1>8, <1>9, <1>10, <1>11, <1>12, <1>13, <1>14, <1>15, <1>16, <1>17, <1>18, <1>19, <1>20, <1>21, <1>22, <1>23, <1>24, <1>25, <1>26, <1>27, <1>28, <1>29, <1>30, <1>31, <1>32, <1>33, <1>34, <1>35
  DEF Next, Call, Handler

(***************************************************************************)
(* The clusters                                                            *)
(***************************************************************************)

\* What a record maps.
MapsTo(f) == IF f.inUse THEN ClustersOf(f.map) ELSE {}

\* A step that writes no record changes no mapping.
LEMMA SameFilesLemma ==
  ASSUME rec' = rec
  PROVE  Owned' = Owned /\ (NoSharing' <=> NoSharing)
BY DEF Owned, NoSharing, Mapped

\* A record rewritten to map only clusters that no other file maps shares
\* none, and what it mapped before is no longer owned.
LEMMA RewriteLemma ==
  ASSUME rec \in [Record -> FileRecord], NEW c \in Record, NEW f \in FileRecord,
         rec' = [rec EXCEPT ![c] = f]
  PROVE  /\ rec'[c] = f
         /\ \A r \in Record : r # c => rec'[r] = rec[r]
         /\ Owned' \subseteq Owned \cup MapsTo(f)
         /\ NoSharing => Owned' \subseteq (Owned \ Mapped(c)) \cup MapsTo(f)
         /\ /\ NoSharing /\ MapsTo(f) \cap (Owned \ Mapped(c)) = {}
            /\ f.inUse => NoRepeat(f.map)
            => NoSharing'
<1>1. rec'[c] = f /\ \A r \in Record : r # c => rec'[r] = rec[r]
  OBVIOUS
<1>2. Mapped(c)' = MapsTo(f) /\ \A r \in Record : r # c => Mapped(r)' = Mapped(r)
  BY <1>1 DEF Mapped, MapsTo
<1>3. \A r \in Record : Mapped(r) \subseteq Owned
  BY DEF Owned
<1>4. ASSUME NEW x \in Owned' 
      PROVE  x \in MapsTo(f) \/ \E r \in Record : r # c /\ x \in Mapped(r)
  <2>1. PICK r \in Record : x \in Mapped(r)'
    BY DEF Owned
  <2> QED BY <2>1, <1>2
<1>5. Owned' \subseteq Owned \cup MapsTo(f)
  BY <1>3, <1>4
<1>6. ASSUME NoSharing PROVE Owned' \subseteq (Owned \ Mapped(c)) \cup MapsTo(f)
  BY <1>3, <1>4, <1>6 DEF NoSharing
<1>7. ASSUME NoSharing, MapsTo(f) \cap (Owned \ Mapped(c)) = {},
             f.inUse => NoRepeat(f.map)
      PROVE  NoSharing'
  <2>1. ASSUME NEW r \in Record, NEW s \in Record, r # s
        PROVE  Mapped(r)' \cap Mapped(s)' = {}
    <3>1. \A q \in Record : q # c => MapsTo(f) \cap Mapped(q) = {}
      BY <1>3, <1>7 DEF NoSharing
    <3> QED BY <2>1, <3>1, <1>2, <1>7 DEF NoSharing
  <2>2. ASSUME NEW r \in Record, rec'[r].inUse PROVE NoRepeat(rec'[r].map)
    BY <2>2, <1>1, <1>7 DEF NoSharing
  <2> QED BY <2>1, <2>2 DEF NoSharing
<1> QED BY <1>1, <1>5, <1>6, <1>7

\* Every step keeps the clusters of different files apart.
LEMMA ClusterStep == TypeInv /\ LocalsInv /\ EntryInv /\ ClusterInv /\ [Next]_vars => ClusterInv'
<1> SUFFICES ASSUME TypeInv /\ LocalsInv /\ EntryInv /\ ClusterInv, [Next]_vars PROVE ClusterInv'
  OBVIOUS
<1> USE DEF ClusterInv, LocalsInv, Writing, Freeing, Creating, Mapped
<1>1. ASSUME NEW n \in Name, CreateBegin(n) PROVE ClusterInv'
  <2>1. rec' = rec
    BY <1>1 DEF CreateBegin, Start, MarkDirty, NoFault, Fault
  <2>2. Owned' = Owned /\ (NoSharing' <=> NoSharing)
    BY <2>1, SameFilesLemma
  <2> QED BY <1>1, <2>1, <2>2 DEF CreateBegin, Start, MarkDirty, NoFault, Fault
<1>2. ASSUME NEW n \in Name, DeleteBegin(n) PROVE ClusterInv'
  <2>1. rec' = rec
    BY <1>2 DEF DeleteBegin
  <2>2. Owned' = Owned /\ (NoSharing' <=> NoSharing)
    BY <2>1, SameFilesLemma
  <2>3. /\ pc = "idle" /\ pc' = "de_unlink" /\ cur' = index[n].rec /\ rec[index[n].rec].inUse
        /\ log' = log /\ todo' = todo /\ freed' = freed /\ damage' = damage
        /\ grew' = grew \ {index[n].rec} /\ bitmapDisk' = bitmapDisk
    BY <1>2 DEF DeleteBegin, Start
  <2> QED BY <2>1, <2>2, <2>3
<1>3. ASSUME NEW n \in Name, DeleteStale(n) PROVE ClusterInv'
  <2>1. rec' = rec
    BY <1>3 DEF DeleteStale, MarkDirty, NoFault, Fault, Return, Quiet
  <2>2. Owned' = Owned /\ (NoSharing' <=> NoSharing)
    BY <2>1, SameFilesLemma
  <2> QED BY <1>3, <2>1, <2>2 DEF DeleteStale, MarkDirty, NoFault, Fault, Return, Quiet
<1>4. ASSUME NEW n \in Name, NEW k \in 0..MaxSize, WriteBegin(n, k) PROVE ClusterInv'
  <2>1. rec' = rec
    BY <1>4 DEF WriteBegin, Start, MarkDirty, NoFault, Fault, WriteBegin
  <2>2. Owned' = Owned /\ (NoSharing' <=> NoSharing)
    BY <2>1, SameFilesLemma
  <2>3. /\ cur' = index[n].rec /\ index[n] # None /\ cur' \in Record
        /\ pc' \in {"wr_rec", "wr_alloc"} /\ img'.map = rec[index[n].rec].map
    BY <1>4, WriteBeginLemma DEF TypeInv, TypeOK
  <2>4. /\ pc = "idle" /\ mounted' = mounted /\ log' = log /\ todo' = todo /\ freed' = freed
        /\ grew' = grew /\ damage' = damage /\ bitmapDisk' = bitmapDisk
    BY <1>4 DEF WriteBegin, Start
  <2>5. "entry" \notin damage => rec[index[n].rec].inUse
    BY <2>3 DEF EntryInv, EntriesResolve, Live
  <2>6. \A r \in Record : rec[r].inUse /\ NoSharing => NoRepeat(rec[r].map)
    BY DEF NoSharing
  <2> QED BY <2>1, <2>2, <2>3, <2>4, <2>5, <2>6
<1>5. ASSUME NEW n \in Name, NEW k \in 0..MaxSize, TruncateBegin(n, k) PROVE ClusterInv'
  <2>1. rec' = rec
    BY <1>5 DEF TruncateBegin, Shrink, Start
  <2>2. Owned' = Owned /\ (NoSharing' <=> NoSharing)
    BY <2>1, SameFilesLemma
  <2>3. /\ pc' = "sh_free" /\ cur' = index[n].rec /\ cur' \in Record
        /\ ClustersOf(rec[index[n].rec].map) = ClustersOf(img'.map) \cup todo'
        /\ NoRepeat(rec[index[n].rec].map) => /\ NoRepeat(img'.map)
                                      /\ ClustersOf(img'.map) \cap todo' = {}
    BY <1>5, TruncateLemma
  <2>4. /\ pc = "idle" /\ mounted' = mounted /\ log' = log /\ freed' = freed
        /\ grew' \subseteq grew /\ damage' = damage /\ bitmapDisk' = bitmapDisk
    BY <1>5 DEF TruncateBegin, Shrink, Start
  <2>5. damage \cap {"cluster", "entry"} = {} => rec[index[n].rec].inUse
    BY <1>5, <2>3 DEF TruncateBegin, EntryInv, EntriesResolve, Live
  <2>6. \A q \in Record : rec[q].inUse /\ NoSharing => NoRepeat(rec[q].map)
    BY DEF NoSharing
  <2>7. freed = {} /\ log = {}
    BY <2>4
  <2> QED BY <2>1, <2>2, <2>3, <2>4, <2>5, <2>6, <2>7
<1>6. ASSUME NEW r \in Record, CloseTrim(r) PROVE ClusterInv'
  <2>1. rec' = rec
    BY <1>6 DEF CloseTrim, Shrink, Start
  <2>2. Owned' = Owned /\ (NoSharing' <=> NoSharing)
    BY <2>1, SameFilesLemma
  <2>3. /\ pc' = "sh_free" /\ cur' = r /\ cur' \in Record
        /\ ClustersOf(rec[r].map) = ClustersOf(img'.map) \cup todo'
        /\ NoRepeat(rec[r].map) => /\ NoRepeat(img'.map)
                                      /\ ClustersOf(img'.map) \cap todo' = {}
    BY <1>6, CloseTrimLemma
  <2>4. /\ pc = "idle" /\ mounted' = mounted /\ log' = log /\ freed' = freed
        /\ grew' \subseteq grew /\ damage' = damage /\ bitmapDisk' = bitmapDisk
    BY <1>6 DEF CloseTrim, Shrink, Start
  <2>5. damage \cap {"cluster", "entry"} = {} => rec[r].inUse
    <3>1. r \in grew /\ rec[r].size < Len(rec[r].map) /\ rec[r] \in FileRecord
      BY <1>6 DEF CloseTrim, TypeInv, TypeOK, DiskType
    <3>2. rec[r].map # <<>>
      BY <3>1, FieldsLemma
    <3> QED BY <3>1, <3>2
  <2>6. \A q \in Record : rec[q].inUse /\ NoSharing => NoRepeat(rec[q].map)
    BY DEF NoSharing
  <2>7. freed = {} /\ log = {}
    BY <2>4
  <2> QED BY <2>1, <2>2, <2>3, <2>4, <2>5, <2>6, <2>7
<1>7. ASSUME NEW r \in Record, CloseNoSlack(r) PROVE ClusterInv'
  <2>1. rec' = rec
    BY <1>7 DEF CloseNoSlack, disk, Return, Quiet
  <2>2. Owned' = Owned /\ (NoSharing' <=> NoSharing)
    BY <2>1, SameFilesLemma
  <2> QED BY <1>7, <2>1, <2>2 DEF CloseNoSlack, disk, Return, Quiet
<1>8. CASE CreateAllocRecord
  <2>1. rec' = rec
    BY <1>8 DEF CreateAllocRecord, disk, memory, locals, history
  <2>2. Owned' = Owned /\ (NoSharing' <=> NoSharing)
    BY <2>1, SameFilesLemma
  <2> QED BY <1>8, <2>1, <2>2 DEF CreateAllocRecord, disk, memory, locals, history
<1>9. CASE CreateNoRecord
  <2>1. rec' = rec
    BY <1>9 DEF CreateNoRecord, NoFault, Fault, disk, memory, locals, history, Return, Quiet
  <2>2. Owned' = Owned /\ (NoSharing' <=> NoSharing)
    BY <2>1, SameFilesLemma
  <2> QED BY <1>9, <2>1, <2>2 DEF CreateNoRecord, NoFault, Fault, disk, memory, locals, history, Return, Quiet
<1>10. CASE CreateWriteRecord
  <2>1. /\ rec \in [Record -> FileRecord] /\ cur \in Record /\ img \in FileRecord
        /\ grew \subseteq Record
    BY <1>10 DEF CreateWriteRecord, TypeInv, TypeOK, DiskType, MemoryType, HandlerType, InHand
  <2> DEFINE f == NewFile(rec[cur].seq)
  <2>2. f \in FileRecord /\ f.map = <<>> /\ f.inUse
    BY <2>1, NewFileLemma, FieldsLemma
  <2> HIDE DEF f
  <2>3. rec' = [rec EXCEPT ![cur] = f]
    BY <1>10 DEF CreateWriteRecord, f
  <2>4. MapsTo(f) = {} /\ NoRepeat(f.map)
    BY <2>2 DEF MapsTo, ClustersOf, NoRepeat
  <2>5. /\ Owned' \subseteq Owned /\ (NoSharing => NoSharing')
        /\ \A r \in Record : r # cur => rec'[r] = rec[r]
        /\ rec'[cur] = f
    <3> HIDE DEF Mapped, ClusterInv, LocalsInv
    <3> QED BY <2>1, <2>2, <2>3, <2>4, RewriteLemma
  <2> QED BY <1>10, <2>1, <2>2, <2>5 DEF CreateWriteRecord, locals, history, memory
<1>11. CASE CreateWriteRecordFails
  <2>1. rec' = rec
    BY <1>11 DEF CreateWriteRecordFails, disk, memory, locals, history, Fault
  <2>2. Owned' = Owned /\ (NoSharing' <=> NoSharing)
    BY <2>1, SameFilesLemma
  <2> QED BY <1>11, <2>1, <2>2 DEF CreateWriteRecordFails, disk, memory, locals, history, Fault
<1>12. CASE CreateInsert
  <2>1. rec' = rec
    BY <1>12 DEF CreateInsert, disk, memory, locals, history, Return, Quiet
  <2>2. Owned' = Owned /\ (NoSharing' <=> NoSharing)
    BY <2>1, SameFilesLemma
  <2> QED BY <1>12, <2>1, <2>2 DEF CreateInsert, disk, memory, locals, history, Return, Quiet
<1>13. CASE CreateInsertRefused
  <2>1. rec' = rec
    BY <1>13 DEF CreateInsertRefused, disk, memory, locals, history
  <2>2. Owned' = Owned /\ (NoSharing' <=> NoSharing)
    BY <2>1, SameFilesLemma
  <2> QED BY <1>13, <2>1, <2>2 DEF CreateInsertRefused, disk, memory, locals, history
<1>14. CASE CreateCommitFails
  <2>1. rec' = rec
    BY <1>14 DEF CreateCommitFails, disk, memory, locals, history, Fault
  <2>2. Owned' = Owned /\ (NoSharing' <=> NoSharing)
    BY <2>1, SameFilesLemma
  <2> QED BY <1>14, <2>1, <2>2 DEF CreateCommitFails, disk, memory, locals, history, Fault
<1>15. CASE CreateUndoRecord
  <2>1. /\ rec \in [Record -> FileRecord] /\ cur \in Record /\ img \in FileRecord
        /\ grew \subseteq Record
    BY <1>15 DEF CreateUndoRecord, TypeInv, TypeOK, DiskType, MemoryType, HandlerType, InHand
  <2>2. CASE rec' = rec
    <3>1. Owned' = Owned /\ (NoSharing' <=> NoSharing)
      BY <2>2, SameFilesLemma
    <3> QED BY <1>15, <2>2, <3>1 DEF CreateUndoRecord, disk, memory, locals, history, Fault
  <2>3. CASE rec' = [rec EXCEPT ![cur] = Released(rec[cur])]
    <3> DEFINE f == Released(rec[cur])
    <3>1. f \in FileRecord /\ f.map = rec[cur].map /\ ~f.inUse
      BY <2>1, ReleasedLemma
    <3> HIDE DEF f
    <3>2. MapsTo(f) = {} 
      BY <3>1 DEF MapsTo
    <3>3. /\ Owned' \subseteq Owned /\ (NoSharing => NoSharing')
          /\ \A r \in Record : r # cur => rec'[r] = rec[r]
          /\ rec'[cur] = f
      BY <2>1, <2>3, <3>1, <3>2, RewriteLemma DEF f
    <3>4. /\ pc = "cr_undo" /\ pc' = "cr_unbit" /\ log' = log /\ todo' = todo
          /\ freed' = freed /\ bitmapDisk' = bitmapDisk /\ grew' = grew
          /\ damage \subseteq damage'
      BY <1>15 DEF CreateUndoRecord, disk, memory, locals, history, Fault
    <3> QED BY <2>1, <3>1, <3>3, <3>4
  <2> QED BY <1>15, <2>2, <2>3 DEF CreateUndoRecord
<1>16. CASE CreateUndoBit
  <2>1. rec' = rec
    BY <1>16 DEF CreateUndoBit, FreeBit, NoFault, Fault, disk, memory, locals, history, Return, Quiet
  <2>2. Owned' = Owned /\ (NoSharing' <=> NoSharing)
    BY <2>1, SameFilesLemma
  <2> QED BY <1>16, <2>1, <2>2 DEF CreateUndoBit, FreeBit, NoFault, Fault, disk, memory, locals, history, Return, Quiet
<1>17. CASE DeleteUnlink
  <2>1. rec' = rec
    BY <1>17 DEF DeleteUnlink, disk, memory, locals, history
  <2>2. Owned' = Owned /\ (NoSharing' <=> NoSharing)
    BY <2>1, SameFilesLemma
  <2> QED BY <1>17, <2>1, <2>2 DEF DeleteUnlink, disk, memory, locals, history
<1>18. CASE DeleteUnlinkRefused
  <2>1. rec' = rec
    BY <1>18 DEF DeleteUnlinkRefused, disk, memory, locals, history, Return, Quiet
  <2>2. Owned' = Owned /\ (NoSharing' <=> NoSharing)
    BY <2>1, SameFilesLemma
  <2> QED BY <1>18, <2>1, <2>2 DEF DeleteUnlinkRefused, disk, memory, locals, history, Return, Quiet
<1>19. CASE DeleteFree
  <2>1. rec' = rec
    BY <1>19 DEF DeleteFree, disk, memory, locals, history, FreeRunOf
  <2>2. Owned' = Owned /\ (NoSharing' <=> NoSharing)
    BY <2>1, SameFilesLemma
  <2> QED BY <1>19, <2>1, <2>2 DEF DeleteFree, disk, memory, locals, history, FreeRunOf
<1>20. CASE DeleteClearRecord
  <2>1. /\ rec \in [Record -> FileRecord] /\ cur \in Record /\ img \in FileRecord
        /\ grew \subseteq Record
    BY <1>20 DEF DeleteClearRecord, TypeInv, TypeOK, DiskType, MemoryType, HandlerType, InHand
  <2>2. CASE /\ rec' = rec /\ freed' = freed
           /\ damage' = damage \cup {"record"} \cup IF freed = {} THEN {} ELSE {"cluster"}
    <3>1. Owned' = Owned /\ (NoSharing' <=> NoSharing)
      BY <2>2, SameFilesLemma
    <3>2. \/ "cluster" \in damage'
          \/ freed = {} /\ freed' = {} /\ damage \subseteq damage'
      BY <2>2
    <3>3. /\ pc = "de_free" /\ pc' = "de_bit" /\ todo = {} /\ log' = log
          /\ bitmapDisk' = bitmapDisk /\ grew' = grew
      BY <1>20 DEF DeleteClearRecord, disk, memory, locals, history, Fault
    <3> QED BY <2>1, <2>2, <3>1, <3>2, <3>3
  <2>3. CASE rec' = [rec EXCEPT ![cur] = Released(img)] /\ freed' = {} /\ damage' = damage
    <3> DEFINE f == Released(img)
    <3>1. f \in FileRecord /\ ~f.inUse
      BY <2>1, ReleasedLemma
    <3> HIDE DEF f
    <3>2. MapsTo(f) = {}
      BY <3>1 DEF MapsTo
    <3>3. /\ Owned' \subseteq Owned /\ (NoSharing => NoSharing')
          /\ (NoSharing => Owned' \subseteq (Owned \ Mapped(cur)) \cup MapsTo(f))
          /\ \A r \in Record : r # cur => rec'[r] = rec[r]
          /\ rec'[cur] = f
      BY <2>1, <2>3, <3>1, <3>2, RewriteLemma DEF f
    <3>4. /\ pc = "de_free" /\ pc' = "de_bit" /\ todo = {} /\ log' = log
          /\ bitmapDisk' = bitmapDisk /\ grew' = grew
      BY <1>20 DEF DeleteClearRecord, disk, memory, locals, history, Fault
    <3> QED BY <2>1, <2>3, <3>2, <3>3, <3>4
  <2> QED BY <1>20, <2>2, <2>3 DEF DeleteClearRecord
<1>21. CASE DeleteClearBit
  <2>1. rec' = rec
    BY <1>21 DEF DeleteClearBit, FreeBit, NoFault, Fault, disk, memory, locals, history, Return, Quiet
  <2>2. Owned' = Owned /\ (NoSharing' <=> NoSharing)
    BY <2>1, SameFilesLemma
  <2> QED BY <1>21, <2>1, <2>2 DEF DeleteClearBit, FreeBit, NoFault, Fault, disk, memory, locals, history, Return, Quiet
<1>22. CASE WriteAlloc
  <2>1. rec' = rec
    BY <1>22 DEF WriteAlloc
  <2>2. Owned' = Owned /\ (NoSharing' <=> NoSharing)
    BY <2>1, SameFilesLemma
  <2>3. /\ cur' = cur /\ todo' = todo /\ freed' = freed /\ damage' = damage
        /\ grew' = grew /\ pc = "wr_alloc" /\ freed = {} /\ bitmap = bitmapDisk
    BY <1>22 DEF WriteAlloc, history, TypeInv, InHand
  <2>4. PICK run \in SUBSET Cluster :
           /\ run \cap bitmap = {} /\ bitmapDisk' = bitmapDisk \cup run
           /\ log' = log \cup run /\ pc' \in {"wr_undo", "wr_alloc"}
           /\ ClustersOf(img'.map) = ClustersOf(img.map) \cup run
           /\ NoRepeat(img.map) /\ ClustersOf(img.map) \cap run = {} => NoRepeat(img'.map)
    BY <1>22, WriteAllocLemma DEF TypeInv, TypeOK, HandlerType
  <2>5. cur \in Record
    BY <2>3 DEF TypeInv, InHand
  <2>6. Mapped(cur) \subseteq Owned
    BY <2>5 DEF Owned
  <2> QED BY <2>1, <2>2, <2>3, <2>4, <2>5, <2>6
<1>23. CASE WriteGiveUp
  <2>1. rec' = rec
    BY <1>23 DEF WriteGiveUp, disk, memory, locals, history
  <2>2. Owned' = Owned /\ (NoSharing' <=> NoSharing)
    BY <2>1, SameFilesLemma
  <2> QED BY <1>23, <2>1, <2>2 DEF WriteGiveUp, disk, memory, locals, history
<1>24. CASE WriteAllocated
  <2>1. rec' = rec
    BY <1>24 DEF WriteAllocated, disk, memory, locals, history
  <2>2. Owned' = Owned /\ (NoSharing' <=> NoSharing)
    BY <2>1, SameFilesLemma
  <2> QED BY <1>24, <2>1, <2>2 DEF WriteAllocated, disk, memory, locals, history
<1>25. CASE WriteUndo
  <2>1. rec' = rec
    BY <1>25 DEF WriteUndo, disk, memory, locals, history, FreeRunOf
  <2>2. Owned' = Owned /\ (NoSharing' <=> NoSharing)
    BY <2>1, SameFilesLemma
  <2> QED BY <1>25, <2>1, <2>2 DEF WriteUndo, disk, memory, locals, history, FreeRunOf
<1>26. CASE WriteRefused
  <2>1. rec' = rec
    BY <1>26 DEF WriteRefused, disk, memory, locals, history, Return, Quiet
  <2>2. Owned' = Owned /\ (NoSharing' <=> NoSharing)
    BY <2>1, SameFilesLemma
  <2> QED BY <1>26, <2>1, <2>2 DEF WriteRefused, disk, memory, locals, history, Return, Quiet
<1>27. CASE WriteRecord
  <2>1. /\ rec \in [Record -> FileRecord] /\ cur \in Record /\ img \in FileRecord
        /\ grew \subseteq Record
    BY <1>27 DEF WriteRecord, TypeInv, TypeOK, DiskType, MemoryType, HandlerType, InHand
  <2>2. CASE rec' = rec /\ Return("refused")
    <3>1. Owned' = Owned /\ (NoSharing' <=> NoSharing)
      BY <2>2, SameFilesLemma
    <3> QED BY <1>27, <2>2, <3>1 DEF WriteRecord, disk, memory, locals, history, Fault, Return, Quiet
  <2>3. CASE rec' = [rec EXCEPT ![cur] = NonResident(img)] /\ pc' = "sync" /\ log' = {} /\ freed' = freed
    <3> DEFINE f == NonResident(img)
    <3>1. f \in FileRecord /\ f.map = img.map /\ f.inUse = rec[cur].inUse
      BY <1>27, <2>1, NonResidentLemma DEF WriteRecord
    <3> HIDE DEF f
    <3>2. MapsTo(f) = IF rec[cur].inUse THEN ClustersOf(img.map) ELSE {}
      BY <3>1 DEF MapsTo
    <3> SUFFICES ASSUME damage \cap {"cluster", "entry"} = {} PROVE ClusterInv'
      BY <1>27 DEF WriteRecord
    <3>3. /\ Owned \ freed \subseteq bitmapDisk /\ NoSharing /\ rec[cur].inUse
          /\ log \subseteq bitmapDisk /\ log \cap Owned = {}
          /\ MapsTo(f) = Mapped(cur) \cup log /\ NoRepeat(f.map) /\ freed = {}
      BY <1>27, <3>1, <3>2 DEF WriteRecord
    <3>4. Mapped(cur) \subseteq Owned
      BY <2>1 DEF Owned
    <3>5. MapsTo(f) \cap (Owned \ Mapped(cur)) = {}
      BY <3>3
    <3>6. /\ NoSharing' /\ Owned' \subseteq (Owned \ Mapped(cur)) \cup MapsTo(f)
          /\ \A r \in Record : r # cur => rec'[r] = rec[r]
          /\ rec'[cur] = f
      BY <2>1, <2>3, <3>1, <3>3, <3>5, RewriteLemma DEF f
    <3>7. Owned' \subseteq bitmapDisk
      BY <3>3, <3>4, <3>6
    <3>8. /\ todo' = todo /\ cur' = cur
          /\ bitmapDisk' = bitmapDisk /\ grew' = grew
      BY <1>27, <2>3 DEF WriteRecord, memory, Return
    <3>9. \A r \in grew' : rec'[r].inUse \/ rec'[r].map = <<>>
      BY <2>1, <3>1, <3>3, <3>6, <3>8
    <3> QED BY <2>1, <2>3, <3>3, <3>6, <3>7, <3>8, <3>9
  <2> QED BY <1>27, <2>2, <2>3 DEF WriteRecord
<1>28. CASE ShrinkFree
  <2>1. rec' = rec
    BY <1>28 DEF ShrinkFree, disk, memory, locals, history, FreeRunOf
  <2>2. Owned' = Owned /\ (NoSharing' <=> NoSharing)
    BY <2>1, SameFilesLemma
  <2> QED BY <1>28, <2>1, <2>2 DEF ShrinkFree, disk, memory, locals, history, FreeRunOf
<1>29. CASE ShrinkRefused
  <2>1. rec' = rec
    BY <1>29 DEF ShrinkRefused, disk, memory, locals, history, Torn, Return, Quiet
  <2>2. Owned' = Owned /\ (NoSharing' <=> NoSharing)
    BY <2>1, SameFilesLemma
  <2> QED BY <1>29, <2>1, <2>2 DEF ShrinkRefused, disk, memory, locals, history, Torn, Return, Quiet
<1>30. CASE ShrinkRecord
  <2>1. /\ rec \in [Record -> FileRecord] /\ cur \in Record /\ img \in FileRecord
        /\ grew \subseteq Record
    BY <1>30 DEF ShrinkRecord, TypeInv, TypeOK, DiskType, MemoryType, HandlerType, InHand
  <2>2. CASE rec' = rec /\ Return("refused")
    <3>1. Owned' = Owned /\ (NoSharing' <=> NoSharing)
      BY <2>2, SameFilesLemma
    <3> QED BY <1>30, <2>2, <3>1 DEF ShrinkRecord, disk, memory, locals, history, Fault, Torn, Return, Quiet
  <2>3. CASE rec' = [rec EXCEPT ![cur] = img] /\ pc' = "sync" /\ freed' = {} /\ log' = log
    <3> SUFFICES ASSUME damage \cap {"cluster", "entry"} = {} PROVE ClusterInv'
      BY <1>30 DEF ShrinkRecord
    <3>1. /\ Owned \ freed \subseteq bitmapDisk /\ NoSharing /\ rec[cur].inUse /\ img.inUse
          /\ log = {} /\ todo = {}
          /\ Mapped(cur) = ClustersOf(img.map) \cup freed
          /\ ClustersOf(img.map) \cap freed = {} /\ NoRepeat(img.map)
      BY <1>30 DEF ShrinkRecord
    <3>2. MapsTo(img) = ClustersOf(img.map)
      BY <3>1 DEF MapsTo
    <3>3. Mapped(cur) \subseteq Owned
      BY <2>1 DEF Owned
    <3>4. MapsTo(img) \cap (Owned \ Mapped(cur)) = {}
      BY <3>1, <3>2
    <3>5. /\ NoSharing' /\ Owned' \subseteq (Owned \ Mapped(cur)) \cup MapsTo(img)
          /\ \A r \in Record : r # cur => rec'[r] = rec[r]
          /\ rec'[cur] = img
      BY <2>1, <2>3, <3>1, <3>4, RewriteLemma
    <3>6. Owned' \subseteq bitmapDisk
      BY <3>1, <3>2, <3>3, <3>5
    <3>7. /\ todo' = todo /\ cur' = cur
          /\ bitmapDisk' = bitmapDisk /\ grew' = grew
      BY <1>30, <2>3 DEF ShrinkRecord, memory, locals, Return
    <3> QED BY <2>1, <2>3, <3>1, <3>5, <3>6, <3>7
  <2> QED BY <1>30, <2>2, <2>3 DEF ShrinkRecord, locals
<1>31. CASE Sync
  <2>1. rec' = rec
    BY <1>31 DEF Sync, disk, memory, locals, history, Fault, NoFault, Return, Quiet
  <2>2. Owned' = Owned /\ (NoSharing' <=> NoSharing)
    BY <2>1, SameFilesLemma
  <2> QED BY <1>31, <2>1, <2>2 DEF Sync, disk, memory, locals, history, Fault, NoFault, Return, Quiet
<1>32. CASE Unmount
  <2>1. rec' = rec
    BY <1>32 DEF Unmount, NoFault, Fault, disk, memory, locals, history
  <2>2. Owned' = Owned /\ (NoSharing' <=> NoSharing)
    BY <2>1, SameFilesLemma
  <2> QED BY <1>32, <2>1, <2>2 DEF Unmount, NoFault, Fault, disk, memory, locals, history
<1>33. CASE Mount
  <2>1. rec' = rec
    BY <1>33 DEF Mount, disk, memory, locals, history
  <2>2. Owned' = Owned /\ (NoSharing' <=> NoSharing)
    BY <2>1, SameFilesLemma
  <2> QED BY <1>33, <2>1, <2>2 DEF Mount, disk, memory, locals, history
<1>34. CASE Crash
  <2>1. rec' = rec
    BY <1>34 DEF Crash, disk, memory, locals, history, Torn, Quiet
  <2>2. Owned' = Owned /\ (NoSharing' <=> NoSharing)
    BY <2>1, SameFilesLemma
  <2> QED BY <1>34, <2>1, <2>2 DEF Crash, disk, memory, locals, history, Torn, Quiet
<1>35. CASE UNCHANGED vars
  <2>1. rec' = rec
    BY <1>35 DEF vars, disk, memory, locals, history
  <2>2. Owned' = Owned /\ (NoSharing' <=> NoSharing)
    BY <2>1, SameFilesLemma
  <2> QED BY <1>35, <2>1, <2>2 DEF vars, disk, memory, locals, history
<1> QED
  BY <1>1, <1>2, <1>3, <1>4, <1>5, <1>6, <1>7, <1>8, <1>9, <1>10, <1>11, <1>12, <1>13, <1>14, <1>15, <1>16, <1>17, <1>18, <1>19, <1>20, <1>21, <1>22, <1>23, <1>24, <1>25, <1>26, <1>27, <1>28, <1>29, <1>30, <1>31, <1>32, <1>33, <1>34, <1>35
  DEF Next, Call, Handler

\* The initial volume is sound.
LEMMA SafeInit == Init => LocalsInv /\ EntryInv /\ RecordInv /\ ClusterInv
<1> SUFFICES ASSUME Init PROVE LocalsInv /\ EntryInv /\ RecordInv /\ ClusterInv
  OBVIOUS
<1> USE FreeRecordLemma
<1>1. LocalsInv
  BY DEF Init, LocalsInv, Freeing, Writing
<1>2. CASE /\ bitmapDisk = {} /\ mftBitmap = {}
           /\ rec = [r \in Record |-> FreeRecord]
           /\ index = [n \in Name |-> None]
  <2>1. EntryInv
    BY <1>2 DEF Init, EntryInv, EntriesResolve, Live
  <2>2. RecordInv
    BY <1>2 DEF Init, RecordInv, InUse
  <2>3. Owned = {} /\ NoSharing
    BY <1>2 DEF Owned, Mapped, NoSharing
  <2>4. ClusterInv
    BY <1>2, <2>3 DEF Init, ClusterInv
  <2> QED BY <1>1, <2>1, <2>2, <2>4
<1>3. ASSUME NEW r \in Record, NEW n \in Name, NEW m \in InitialMaps,
             NoRepeat(m), bitmapDisk = ClustersOf(m), mftBitmap = {r},
             rec = [q \in Record |->
                      IF q = r THEN [inUse |-> TRUE, seq |-> 1, resident |-> FALSE,
                                     map |-> m, size |-> Len(m)]
                      ELSE FreeRecord],
             index = [q \in Name |->
                        IF q = n THEN [rec |-> r, seq |-> 1, size |-> Len(m)] ELSE None]
      PROVE  LocalsInv /\ EntryInv /\ RecordInv /\ ClusterInv
  <2>1. /\ rec[r].inUse /\ rec[r].seq = 1 /\ rec[r].map = m
        /\ \A q \in Record : q # r => ~rec[q].inUse
    BY <1>3
  <2>2. \A q \in Name : index[q] # None => q = n /\ index[q].rec = r /\ index[q].seq = 1
    BY <1>3
  <2>3. EntryInv
    BY <1>3, <2>1, <2>2 DEF Init, EntryInv, EntriesResolve, Live
  <2>4. RecordInv
    BY <1>3, <2>1 DEF Init, RecordInv, InUse
  <2>5. Owned \subseteq bitmapDisk
    BY <1>3, <2>1 DEF Owned, Mapped
  <2>6. NoSharing
    BY <1>3, <2>1 DEF NoSharing, Mapped
  <2>7. ClusterInv
    BY <2>5, <2>6 DEF Init, ClusterInv
  <2> QED BY <1>1, <2>3, <2>4, <2>7
<1> QED BY <1>2, <1>3 DEF Init

(***************************************************************************)
(* The theorems                                                            *)
(***************************************************************************)
SafeInv == TypeInv /\ LocalsInv /\ EntryInv /\ RecordInv /\ ClusterInv

\* The invariant that carries all the theorems below is inductive.
LEMMA SafeInvariant == Spec => []SafeInv
<1>1. Init => SafeInv
  BY TypeInit, SafeInit DEF SafeInv
<1>2. SafeInv /\ [Next]_vars => SafeInv'
  BY TypeStep, LocalsStep, EntryStep, RecordStep, ClusterStep DEF SafeInv
<1> QED BY <1>1, <1>2, PTL DEF Spec

\* Whatever crashes and disk writes fail, on a volume of any size: an index
\* entry names a record in use of its own sequence number, unless the entry's
\* own commit was the write that failed.
THEOREM EntriesNeverDangle == Spec => []EntryNeverDangles
<1>1. SafeInv => EntryNeverDangles
  BY DEF SafeInv, EntryInv, EntryNeverDangles
<1> QED BY <1>1, SafeInvariant, PTL

\* A record in use keeps its $MFT:$BITMAP bit, so the allocator never hands it
\* to a new file, unless the write that was to free the record failed.
THEOREM RecordsNeverDangle == Spec => []RecordNeverDangles
<1>1. SafeInv => RecordNeverDangles
  BY DEF SafeInv, RecordInv, RecordNeverDangles
<1> QED BY <1>1, SafeInvariant, PTL

\* A mapped cluster is allocated and mapped once, unless a crash, a refusal or
\* a failed write fell between the freeing of clusters and the record's write.
THEOREM ClustersNeverDangle == Spec => []ClusterNeverDangles
<1>1. SafeInv => ClusterNeverDangles
  BY DEF SafeInv, ClusterInv, ClusterNeverDangles
<1> QED BY <1>1, SafeInvariant, PTL

(***************************************************************************)
(* Until the first crash and the first failed write                        *)
(*                                                                         *)
(* The safety properties above say what survives a failure.  The rest of   *)
(* this module is about calls that run undisturbed: they leave the volume  *)
(* consistent, and those that are refused take back all they did.          *)
(***************************************************************************)

\* No crash, no failed write, and no truncation refused halfway.
Undisturbed == crashes = 0 /\ faults = 0 /\ damage = {}

\* The record in hand, at the given steps.
CurAt(steps) == IF pc \in steps THEN {cur} ELSE {}

Taken   == CurAt({"cr_rec", "cr_ins", "cr_undo", "cr_unbit"})  \* by a create
Vacant  == CurAt({"cr_rec", "cr_unbit", "de_bit"})   \* its bit is set, it is not in use
Unnamed == CurAt({"cr_ins", "cr_undo", "de_free"})   \* in use, without an entry

Named   == {index[n].rec : n \in Live}

\* Clusters: $Bitmap is what the files map and what the call has allocated,
\* without what it has freed.
CalmBits ==
  /\ bitmapDisk = (Owned \ freed) \cup log
  /\ todo \cap freed = {}

\* Records: the bits, the FRH_IN_USE flags and the entries differ at most in
\* the record in hand.
CalmRecords ==
  /\ mftBitmap = InUse \cup Vacant
  /\ Vacant \cap InUse = {}
  /\ InUse = Named \cup Unnamed
  /\ pc \in Creating => index[name] = None

\* Sizes: only the entry of a record that has just been written is behind.
CalmSizes ==
  /\ \A n \in Live : ~(pc = "sync" /\ index[n].rec = cur) =>
                        index[n].size = rec[index[n].rec].size
  /\ pc = "sync" => rec[cur].size = img.size
  /\ pc = "cr_ins" => rec[cur].size = 0

\* The flag is on disk before anything is changed.
CalmFlag == (dirtySet => dirty) /\ (pc # "idle" => dirtySet)

\* The steps at which a call may still be refused, and what the volume would be
\* if its changes were taken back.
Refusable == Creating \cup Writing \cup {"de_unlink", "sh_free"}
Kept(r) == IF rec[r].inUse /\ r \notin Taken THEN rec[r] ELSE FreeRecord
Undone  == [bits  |-> (bitmapDisk \ log) \cup freed,
            mft   |-> mftBitmap \ Taken,
            index |-> index,
            files |-> [r \in Record |-> Kept(r)]]
CalmUndo == pc \in Refusable => before = Undone

CalmInv == Undisturbed => CalmBits /\ CalmRecords /\ CalmSizes /\ CalmFlag /\ CalmUndo

\* A step after which nothing has gone wrong is neither a crash nor a failed
\* write, and nothing had gone wrong before it.
LEMMA UndisturbedStep ==
  ASSUME TypeInv, [Next]_vars, Undisturbed'
  PROVE  Undisturbed /\ ~Fault /\ ~Crash
<1> USE DEF Undisturbed
<1>t. crashes \in Nat /\ faults \in Nat
  BY BoundAssumption DEF TypeInv, TypeOK, HistoryType
<1>f. ~Fault
  BY <1>t DEF Fault
<1>c. ~Crash
  BY <1>t DEF Crash
<1>d. damage \subseteq damage' /\ crashes <= crashes' /\ faults <= faults'
  <2>1. ASSUME NEW n \in Name, CreateBegin(n) PROVE damage \subseteq damage' /\ crashes <= crashes' /\ faults <= faults'
    BY <2>1, <1>t DEF CreateBegin, Start, MarkDirty, NoFault, Fault
  <2>2. ASSUME NEW n \in Name, DeleteBegin(n) PROVE damage \subseteq damage' /\ crashes <= crashes' /\ faults <= faults'
    BY <2>2, <1>t DEF DeleteBegin, Start, MarkDirty, NoFault, Fault
  <2>3. ASSUME NEW n \in Name, DeleteStale(n) PROVE damage \subseteq damage' /\ crashes <= crashes' /\ faults <= faults'
    BY <2>3, <1>t DEF DeleteStale, Return, Quiet, MarkDirty, NoFault, Fault
  <2>4. ASSUME NEW n \in Name, NEW k \in 0..MaxSize, WriteBegin(n, k) PROVE damage \subseteq damage' /\ crashes <= crashes' /\ faults <= faults'
    BY <2>4, <1>t DEF WriteBegin, Start, MarkDirty, NoFault, Fault
  <2>5. ASSUME NEW n \in Name, NEW k \in 0..MaxSize, TruncateBegin(n, k) PROVE damage \subseteq damage' /\ crashes <= crashes' /\ faults <= faults'
    BY <2>5, <1>t DEF TruncateBegin, Shrink, Start, MarkDirty, NoFault, Fault
  <2>6. ASSUME NEW r \in Record, CloseTrim(r) PROVE damage \subseteq damage' /\ crashes <= crashes' /\ faults <= faults'
    BY <2>6, <1>t DEF CloseTrim, Shrink, Start, MarkDirty, NoFault, Fault
  <2>7. ASSUME NEW r \in Record, CloseNoSlack(r) PROVE damage \subseteq damage' /\ crashes <= crashes' /\ faults <= faults'
    BY <2>7, <1>t DEF CloseNoSlack, Return, Quiet, disk
  <2>8. CASE CreateAllocRecord
    BY <2>8, <1>t DEF CreateAllocRecord, memory, history
  <2>9. CASE CreateNoRecord
    BY <2>9, <1>t DEF CreateNoRecord, Return, Quiet, NoFault, disk, memory, Fault
  <2>10. CASE CreateWriteRecord
    BY <2>10, <1>t DEF CreateWriteRecord, memory, locals, history
  <2>11. CASE CreateWriteRecordFails
    BY <2>11, <1>t DEF CreateWriteRecordFails, disk, memory, locals, Fault
  <2>12. CASE CreateInsert
    BY <2>12, <1>t DEF CreateInsert, Return, Quiet, memory
  <2>13. CASE CreateInsertRefused
    BY <2>13, <1>t DEF CreateInsertRefused, disk, memory, locals, history
  <2>14. CASE CreateCommitFails
    BY <2>14, <1>t DEF CreateCommitFails, memory, locals, Fault
  <2>15. CASE CreateUndoRecord
    BY <2>15, <1>t DEF CreateUndoRecord, memory, locals, Fault
  <2>16. CASE CreateUndoBit
    BY <2>16, <1>t DEF CreateUndoBit, Return, FreeBit, Quiet, NoFault, memory, Fault
  <2>17. CASE DeleteUnlink
    BY <2>17, <1>t DEF DeleteUnlink, memory, history
  <2>18. CASE DeleteUnlinkRefused
    BY <2>18, <1>t DEF DeleteUnlinkRefused, Return, Quiet, disk, memory
  <2>19. CASE DeleteFree
    BY <2>19, <1>t DEF DeleteFree, FreeRunOf
  <2>20. CASE DeleteClearRecord
    BY <2>20, <1>t DEF DeleteClearRecord, memory, locals, Fault
  <2>21. CASE DeleteClearBit
    BY <2>21, <1>t DEF DeleteClearBit, Return, FreeBit, Quiet, NoFault, memory, Fault
  <2>22. CASE WriteAlloc
    BY <2>22, <1>t DEF WriteAlloc, history
  <2>23. CASE WriteGiveUp
    BY <2>23, <1>t DEF WriteGiveUp, disk, memory, locals, history
  <2>24. CASE WriteAllocated
    BY <2>24, <1>t DEF WriteAllocated, disk, locals, history
  <2>25. CASE WriteUndo
    BY <2>25, <1>t DEF WriteUndo, FreeRunOf, history
  <2>26. CASE WriteRefused
    BY <2>26, <1>t DEF WriteRefused, Return, Quiet, disk, memory
  <2>27. CASE WriteRecord
    BY <2>27, <1>t DEF WriteRecord, Return, Quiet, memory, Fault
  <2>28. CASE ShrinkFree
    BY <2>28, <1>t DEF ShrinkFree, FreeRunOf
  <2>29. CASE ShrinkRefused
    BY <2>29, <1>t DEF ShrinkRefused, Return, Torn, Quiet, disk, memory
  <2>30. CASE ShrinkRecord
    BY <2>30, <1>t DEF ShrinkRecord, Return, Torn, Quiet, memory, locals, Fault
  <2>31. CASE Sync
    BY <2>31, <1>t DEF Sync, Return, Quiet, NoFault, memory, Fault
  <2>32. CASE Unmount
    BY <2>32, <1>t DEF Unmount, NoFault, locals, Fault
  <2>33. CASE Mount
    BY <2>33, <1>t DEF Mount, disk, locals, history
  <2>34. CASE Crash
    BY <2>34, <1>t DEF Crash, Torn, Quiet, disk
  <2>35. CASE UNCHANGED vars
    BY <2>35, <1>t DEF vars, disk, memory, locals, history
  <2> QED
    BY <2>1, <2>2, <2>3, <2>4, <2>5, <2>6, <2>7, <2>8, <2>9, <2>10, <2>11, <2>12, <2>13, <2>14, <2>15, <2>16, <2>17, <2>18, <2>19, <2>20, <2>21, <2>22, <2>23, <2>24, <2>25, <2>26, <2>27, <2>28, <2>29, <2>30, <2>31, <2>32, <2>33, <2>34, <2>35
    DEF Next, Call, Handler
<1>u. crashes' = 0 /\ faults' = 0 /\ damage' = {}
  OBVIOUS
<1> QED BY <1>t, <1>f, <1>c, <1>d, <1>u

\* What is mapped after one record is rewritten.
LEMMA OwnedLemma ==
  ASSUME rec \in [Record -> FileRecord], NEW c \in Record, NEW f \in FileRecord,
         rec' = [rec EXCEPT ![c] = f], NoSharing
  PROVE  Owned' = (Owned \ Mapped(c)) \cup MapsTo(f)
<1>1. rec'[c] = f /\ \A r \in Record : r # c => rec'[r] = rec[r]
  OBVIOUS
<1>2. Mapped(c)' = MapsTo(f) /\ \A r \in Record : r # c => Mapped(r)' = Mapped(r)
  BY <1>1 DEF Mapped, MapsTo
<1>3. Owned' \subseteq (Owned \ Mapped(c)) \cup MapsTo(f)
  BY RewriteLemma
<1>4. MapsTo(f) \subseteq Owned'
  BY <1>2 DEF Owned
<1>5. ASSUME NEW x \in Owned, x \notin Mapped(c) PROVE x \in Owned'
  <2>1. PICK r \in Record : x \in Mapped(r)
    BY DEF Owned
  <2>2. x \in Mapped(r)'
    BY <2>1, <1>2, <1>5
  <2> QED BY <2>2 DEF Owned
<1> QED BY <1>3, <1>4, <1>5

\* An undisturbed step keeps the flag ahead of the changes.
LEMMA CalmFlagStep ==
  ASSUME SafeInv, CalmInv, [Next]_vars, Undisturbed'
  PROVE  CalmFlag'
<1> USE DEF CalmFlag
<1>u. Undisturbed /\ ~Fault /\ ~Crash
  BY UndisturbedStep DEF SafeInv
<1>c. CalmFlag
  BY <1>u DEF CalmInv
<1>1. ASSUME NEW n \in Name, CreateBegin(n) PROVE CalmFlag'
  BY <1>1, <1>u, <1>c DEF CreateBegin, Start, MarkDirty, NoFault
<1>2. ASSUME NEW n \in Name, DeleteBegin(n) PROVE CalmFlag'
  BY <1>2, <1>u, <1>c DEF DeleteBegin, Start, MarkDirty, NoFault
<1>3. ASSUME NEW n \in Name, DeleteStale(n) PROVE CalmFlag'
  BY <1>3, <1>u, <1>c DEF DeleteStale, Return, Quiet, MarkDirty, NoFault
<1>4. ASSUME NEW n \in Name, NEW k \in 0..MaxSize, WriteBegin(n, k) PROVE CalmFlag'
  BY <1>4, <1>u, <1>c DEF WriteBegin, Start, MarkDirty, NoFault
<1>5. ASSUME NEW n \in Name, NEW k \in 0..MaxSize, TruncateBegin(n, k) PROVE CalmFlag'
  BY <1>5, <1>u, <1>c DEF TruncateBegin, Shrink, Start, MarkDirty, NoFault
<1>6. ASSUME NEW r \in Record, CloseTrim(r) PROVE CalmFlag'
  BY <1>6, <1>u, <1>c DEF CloseTrim, Shrink, Start, MarkDirty, NoFault
<1>7. ASSUME NEW r \in Record, CloseNoSlack(r) PROVE CalmFlag'
  BY <1>7, <1>u, <1>c DEF CloseNoSlack, Return, Quiet, disk
<1>8. CASE CreateAllocRecord
  BY <1>8, <1>u, <1>c DEF CreateAllocRecord, memory, history
<1>9. CASE CreateNoRecord
  BY <1>9, <1>u, <1>c DEF CreateNoRecord, Return, Quiet, NoFault, disk, memory
<1>10. CASE CreateWriteRecord
  BY <1>10, <1>u, <1>c DEF CreateWriteRecord, memory, locals, history
<1>11. CASE CreateWriteRecordFails
  BY <1>11, <1>u, <1>c DEF CreateWriteRecordFails, disk, memory, locals
<1>12. CASE CreateInsert
  BY <1>12, <1>u, <1>c DEF CreateInsert, Return, Quiet, memory
<1>13. CASE CreateInsertRefused
  BY <1>13, <1>u, <1>c DEF CreateInsertRefused, disk, memory, locals, history
<1>14. CASE CreateCommitFails
  BY <1>14, <1>u, <1>c DEF CreateCommitFails, memory, locals
<1>15. CASE CreateUndoRecord
  BY <1>15, <1>u, <1>c DEF CreateUndoRecord, memory, locals
<1>16. CASE CreateUndoBit
  BY <1>16, <1>u, <1>c DEF CreateUndoBit, Return, FreeBit, Quiet, NoFault, memory
<1>17. CASE DeleteUnlink
  BY <1>17, <1>u, <1>c DEF DeleteUnlink, memory, history
<1>18. CASE DeleteUnlinkRefused
  BY <1>18, <1>u, <1>c DEF DeleteUnlinkRefused, Return, Quiet, disk, memory
<1>19. CASE DeleteFree
  BY <1>19, <1>u, <1>c DEF DeleteFree, FreeRunOf
<1>20. CASE DeleteClearRecord
  BY <1>20, <1>u, <1>c DEF DeleteClearRecord, memory, locals
<1>21. CASE DeleteClearBit
  BY <1>21, <1>u, <1>c DEF DeleteClearBit, Return, FreeBit, Quiet, NoFault, memory
<1>22. CASE WriteAlloc
  BY <1>22, <1>u, <1>c DEF WriteAlloc, history
<1>23. CASE WriteGiveUp
  BY <1>23, <1>u, <1>c DEF WriteGiveUp, disk, memory, locals, history
<1>24. CASE WriteAllocated
  BY <1>24, <1>u, <1>c DEF WriteAllocated, disk, locals, history
<1>25. CASE WriteUndo
  BY <1>25, <1>u, <1>c DEF WriteUndo, FreeRunOf, history
<1>26. CASE WriteRefused
  BY <1>26, <1>u, <1>c DEF WriteRefused, Return, Quiet, disk, memory
<1>27. CASE WriteRecord
  BY <1>27, <1>u, <1>c DEF WriteRecord, Return, Quiet, memory
<1>28. CASE ShrinkFree
  BY <1>28, <1>u, <1>c DEF ShrinkFree, FreeRunOf
<1>29. CASE ShrinkRefused
  BY <1>29, <1>u, <1>c DEF ShrinkRefused, Return, Torn, Quiet, disk, memory
<1>30. CASE ShrinkRecord
  BY <1>30, <1>u, <1>c DEF ShrinkRecord, Return, Torn, Quiet, memory, locals
<1>31. CASE Sync
  BY <1>31, <1>u, <1>c DEF Sync, Return, Quiet, NoFault, memory
<1>32. CASE Unmount
  BY <1>32, <1>u, <1>c DEF Unmount, NoFault, locals
<1>33. CASE Mount
  BY <1>33, <1>u, <1>c DEF Mount, disk, locals, history
<1>34. CASE Crash
  BY <1>34, <1>u, <1>c DEF Crash, Torn, Quiet, disk
<1>35. CASE UNCHANGED vars
  BY <1>35, <1>u, <1>c DEF vars, disk, memory, locals, history
<1> QED
  BY <1>1, <1>2, <1>3, <1>4, <1>5, <1>6, <1>7, <1>8, <1>9, <1>10, <1>11, <1>12, <1>13, <1>14, <1>15, <1>16, <1>17, <1>18, <1>19, <1>20, <1>21, <1>22, <1>23, <1>24, <1>25, <1>26, <1>27, <1>28, <1>29, <1>30, <1>31, <1>32, <1>33, <1>34, <1>35
  DEF Next, Call, Handler

\* An undisturbed step keeps $Bitmap equal to what the files and the call hold.
LEMMA CalmBitsStep ==
  ASSUME SafeInv, CalmInv, [Next]_vars, Undisturbed'
  PROVE  CalmBits'
<1>u. Undisturbed /\ ~Fault /\ ~Crash
  BY UndisturbedStep DEF SafeInv
<1>c. /\ bitmapDisk = (Owned \ freed) \cup log /\ todo \cap freed = {}
      /\ mounted => bitmap = bitmapDisk
      /\ pc \notin {"de_free", "sh_free"} => todo = {}
      /\ pc \notin {"de_free", "sh_free", "de_bit"} => freed = {}
      /\ pc \notin Writing => log = {}
      /\ pc # "idle" => mounted
      /\ pc \notin {"idle", "cr_bit"} => cur \in Record
      /\ rec \in [Record -> FileRecord] /\ img \in FileRecord /\ left \in Nat
  BY <1>u DEF CalmInv, CalmBits, SafeInv, LocalsInv, Freeing, TypeInv, TypeOK, DiskType,
              HandlerType, InHand
<1>k. /\ NoSharing /\ log \cap Owned = {}
      /\ pc \in {"wr_alloc", "wr_rec"} =>
           rec[cur].inUse /\ ClustersOf(img.map) = Mapped(cur) \cup log
      /\ pc = "de_free" => Mapped(cur) = todo \cup freed
      /\ pc = "sh_free" => /\ rec[cur].inUse
                           /\ Mapped(cur) = ClustersOf(img.map) \cup todo \cup freed
                           /\ ClustersOf(img.map) \cap (todo \cup freed) = {}
      /\ pc = "de_bit" => freed = {}
      /\ pc \in {"cr_ins", "cr_undo"} => rec[cur].map = <<>>
  BY <1>u DEF SafeInv, ClusterInv, Undisturbed
<1>i. /\ pc = "cr_rec" => ~rec[cur].inUse
      /\ pc \in Writing \cup {"sh_free"} => img.inUse = rec[cur].inUse
  BY <1>u DEF SafeInv, RecordInv, LocalsInv, Undisturbed
<1>m. pc \notin {"idle", "cr_bit"} => Mapped(cur) \subseteq Owned
  BY <1>c DEF Owned
<1>o. rec' = rec => Owned' = Owned
  BY SameFilesLemma
<1> USE DEF CalmBits, Writing
<1>1. ASSUME NEW n \in Name, CreateBegin(n) PROVE CalmBits'
  BY <1>1, <1>u, <1>c, <1>o DEF CreateBegin, Start, MarkDirty, NoFault
<1>2. ASSUME NEW n \in Name, DeleteBegin(n) PROVE CalmBits'
  BY <1>2, <1>u, <1>c, <1>o DEF DeleteBegin, Start, MarkDirty, NoFault
<1>3. ASSUME NEW n \in Name, DeleteStale(n) PROVE CalmBits'
  BY <1>3, <1>u, <1>c, <1>o DEF DeleteStale, Return, Quiet, MarkDirty, NoFault
<1>4. ASSUME NEW n \in Name, NEW k \in 0..MaxSize, WriteBegin(n, k) PROVE CalmBits'
  BY <1>4, <1>u, <1>c, <1>o DEF WriteBegin, Start, MarkDirty, NoFault
<1>5. ASSUME NEW n \in Name, NEW k \in 0..MaxSize, TruncateBegin(n, k) PROVE CalmBits'
  BY <1>5, <1>u, <1>c, <1>o DEF TruncateBegin, Shrink, Start, MarkDirty, NoFault
<1>6. ASSUME NEW r \in Record, CloseTrim(r) PROVE CalmBits'
  BY <1>6, <1>u, <1>c, <1>o DEF CloseTrim, Shrink, Start, MarkDirty, NoFault
<1>7. ASSUME NEW r \in Record, CloseNoSlack(r) PROVE CalmBits'
  BY <1>7, <1>u, <1>c, <1>o DEF CloseNoSlack, Return, Quiet, disk
<1>8. CASE CreateAllocRecord
  BY <1>8, <1>u, <1>c, <1>o DEF CreateAllocRecord, memory, history
<1>9. CASE CreateNoRecord
  BY <1>9, <1>u, <1>c, <1>o DEF CreateNoRecord, Return, Quiet, NoFault, disk, memory
<1>10. CASE CreateWriteRecord
  <2> DEFINE f == NewFile(rec[cur].seq)
  <2>1. f \in FileRecord /\ f.map = <<>>
    BY <1>10, <1>c, FieldsLemma, NewFileLemma DEF CreateWriteRecord
  <2>2. MapsTo(f) = {} /\ Mapped(cur) = {}
    BY <1>10, <1>i, <2>1 DEF MapsTo, ClustersOf, CreateWriteRecord, Mapped
  <2> HIDE DEF f
  <2>3. rec' = [rec EXCEPT ![cur] = f] /\ cur \in Record
    BY <1>10, <1>c DEF CreateWriteRecord, f
  <2>o. Owned' = (Owned \ Mapped(cur)) \cup MapsTo(f)
    BY <1>c, <1>k, <2>1, <2>3, OwnedLemma
  <2>4. Owned' = Owned
    BY <2>2, <2>o
  <2> QED BY <1>10, <1>c, <2>4 DEF CreateWriteRecord, memory, locals, history
<1>11. CASE CreateWriteRecordFails
  BY <1>11, <1>u, <1>c, <1>o DEF CreateWriteRecordFails, disk, memory, locals
<1>12. CASE CreateInsert
  BY <1>12, <1>u, <1>c, <1>o DEF CreateInsert, Return, Quiet, memory
<1>13. CASE CreateInsertRefused
  BY <1>13, <1>u, <1>c, <1>o DEF CreateInsertRefused, disk, memory, locals, history
<1>14. CASE CreateCommitFails
  BY <1>14, <1>u, <1>c, <1>o DEF CreateCommitFails, memory, locals
<1>15. CASE CreateUndoRecord
  <2> DEFINE f == Released(rec[cur])
  <2>1. f \in FileRecord /\ ~f.inUse
    BY <1>15, <1>c, ReleasedLemma DEF CreateUndoRecord
  <2>2. MapsTo(f) = {} /\ Mapped(cur) = {}
    BY <1>15, <1>k, <2>1 DEF MapsTo, ClustersOf, CreateUndoRecord, Mapped
  <2> HIDE DEF f
  <2>3. rec' = [rec EXCEPT ![cur] = f] /\ cur \in Record
    BY <1>15, <1>c, <1>u DEF CreateUndoRecord, f
  <2>o. Owned' = (Owned \ Mapped(cur)) \cup MapsTo(f)
    BY <1>c, <1>k, <2>1, <2>3, OwnedLemma
  <2>4. Owned' = Owned
    BY <2>2, <2>o
  <2> QED BY <1>15, <1>c, <2>4 DEF CreateUndoRecord, memory, locals
<1>16. CASE CreateUndoBit
  BY <1>16, <1>u, <1>c, <1>o DEF CreateUndoBit, Return, FreeBit, Quiet, NoFault, memory
<1>17. CASE DeleteUnlink
  BY <1>17, <1>u, <1>c, <1>o DEF DeleteUnlink, memory, history
<1>18. CASE DeleteUnlinkRefused
  BY <1>18, <1>u, <1>c, <1>o DEF DeleteUnlinkRefused, Return, Quiet, disk, memory
<1>19. CASE DeleteFree
  BY <1>19, <1>u, <1>c, <1>o DEF DeleteFree, FreeRunOf
<1>20. CASE DeleteClearRecord
  <2> DEFINE f == Released(img)
  <2>1. f \in FileRecord /\ ~f.inUse
    BY <1>c, ReleasedLemma
  <2>2. MapsTo(f) = {}
    BY <2>1 DEF MapsTo
  <2> HIDE DEF f
  <2>3. rec' = [rec EXCEPT ![cur] = f] /\ cur \in Record /\ freed' = {} /\ Mapped(cur) = freed
    BY <1>20, <1>c, <1>k, <1>u DEF DeleteClearRecord, f
  <2>o. Owned' = (Owned \ Mapped(cur)) \cup MapsTo(f)
    BY <1>c, <1>k, <2>1, <2>3, OwnedLemma
  <2>4. Owned' = Owned \ freed
    BY <2>2, <2>3, <2>o
  <2> QED BY <1>20, <1>c, <2>3, <2>4 DEF DeleteClearRecord, memory, locals
<1>21. CASE DeleteClearBit
  BY <1>21, <1>u, <1>c, <1>k, <1>o DEF DeleteClearBit, Return, FreeBit, Quiet, NoFault, memory
<1>22. CASE WriteAlloc
  <2>1. PICK run \in SUBSET Cluster :
           run \cap bitmap = {} /\ bitmapDisk' = bitmapDisk \cup run /\ log' = log \cup run
    BY <1>22, <1>c, WriteAllocLemma
  <2>2. rec' = rec /\ freed' = freed /\ todo' = todo /\ freed = {} /\ todo = {}
    BY <1>22, <1>c DEF WriteAlloc, history
  <2> QED BY <1>c, <1>o, <2>1, <2>2
<1>23. CASE WriteGiveUp
  BY <1>23, <1>u, <1>c, <1>o DEF WriteGiveUp, disk, memory, locals, history
<1>24. CASE WriteAllocated
  BY <1>24, <1>u, <1>c, <1>o DEF WriteAllocated, disk, locals, history
<1>25. CASE WriteUndo
  BY <1>25, <1>c, <1>k, <1>o DEF WriteUndo, FreeRunOf, history
<1>26. CASE WriteRefused
  BY <1>26, <1>u, <1>c, <1>o DEF WriteRefused, Return, Quiet, disk, memory
<1>27. CASE WriteRecord
  <2> DEFINE f == NonResident(img)
  <2>1. f \in FileRecord /\ MapsTo(f) = Mapped(cur) \cup log
    BY <1>27, <1>c, <1>i, <1>k, NonResidentLemma DEF WriteRecord, MapsTo
  <2> HIDE DEF f
  <2>2. rec' = [rec EXCEPT ![cur] = f] /\ cur \in Record /\ log' = {}
    BY <1>27, <1>c, <1>u DEF WriteRecord, f
  <2>o. Owned' = (Owned \ Mapped(cur)) \cup MapsTo(f)
    BY <1>c, <1>k, <2>1, <2>2, OwnedLemma
  <2>3. Owned' = Owned \cup log
    BY <1>m, <1>27, <2>1, <2>2, <2>o DEF WriteRecord
  <2> QED BY <1>27, <1>c, <1>u, <2>2, <2>3 DEF WriteRecord, Return, Quiet, memory
<1>28. CASE ShrinkFree
  BY <1>28, <1>u, <1>c, <1>o DEF ShrinkFree, FreeRunOf
<1>29. CASE ShrinkRefused
  <2>1. freed = {}
    BY <1>29 DEF ShrinkRefused, Torn, Undisturbed
  <2> QED BY <1>29, <1>c, <1>o, <2>1 DEF ShrinkRefused, Return, Torn, Quiet, disk, memory
<1>30. CASE ShrinkRecord
  <2>1. MapsTo(img) = ClustersOf(img.map)
    BY <1>30, <1>i, <1>k DEF ShrinkRecord, MapsTo
  <2>2. rec' = [rec EXCEPT ![cur] = img] /\ cur \in Record /\ freed' = {}
    BY <1>30, <1>c, <1>u DEF ShrinkRecord
  <2>o. Owned' = (Owned \ Mapped(cur)) \cup MapsTo(img)
    BY <1>c, <1>k, <2>2, OwnedLemma
  <2>3. Owned' = Owned \ freed
    BY <1>c, <1>k, <1>m, <1>30, <2>1, <2>2, <2>o DEF ShrinkRecord
  <2> QED BY <1>30, <1>c, <1>u, <2>2, <2>3 DEF ShrinkRecord, Return, Torn, Quiet, memory, locals
<1>31. CASE Sync
  BY <1>31, <1>u, <1>c, <1>o DEF Sync, Return, Quiet, NoFault, memory
<1>32. CASE Unmount
  BY <1>32, <1>u, <1>c, <1>o DEF Unmount, NoFault, locals
<1>33. CASE Mount
  BY <1>33, <1>u, <1>c, <1>o DEF Mount, disk, locals, history
<1>34. CASE Crash
  BY <1>34, <1>u, <1>c, <1>o DEF Crash, Torn, Quiet, disk
<1>35. CASE UNCHANGED vars
  BY <1>35, <1>u, <1>c, <1>o DEF vars, disk, memory, locals, history
<1> QED
  BY <1>1, <1>2, <1>3, <1>4, <1>5, <1>6, <1>7, <1>8, <1>9, <1>10, <1>11, <1>12, <1>13, <1>14, <1>15, <1>16, <1>17, <1>18, <1>19, <1>20, <1>21, <1>22, <1>23, <1>24, <1>25, <1>26, <1>27, <1>28, <1>29, <1>30, <1>31, <1>32, <1>33, <1>34, <1>35
  DEF Next, Call, Handler

\* The records in use after one is rewritten.
LEMMA InUseLemma ==
  ASSUME rec \in [Record -> FileRecord], NEW c \in Record, NEW f \in FileRecord,
         rec' = [rec EXCEPT ![c] = f]
  PROVE  InUse' = IF f.inUse THEN InUse \cup {c} ELSE InUse \ {c}
<1>1. rec'[c] = f /\ \A r \in Record : r # c => rec'[r] = rec[r]
  OBVIOUS
<1> QED BY <1>1 DEF InUse

\* The copy of a size in the directory is brought up to date; names stay.
LEMMA SyncLemma ==
  ASSUME TypeInv, Sync, ~Fault,
         \A n, m \in Live : index[n].rec = index[m].rec => n = m
  PROVE  /\ Live' = Live
         /\ \A n \in Live : index'[n].rec = index[n].rec /\ index'[n].seq = index[n].seq
         /\ \A n \in Live : index[n].rec # cur => index'[n] = index[n]
         /\ \A n \in Live : index[n].rec = cur => index'[n].size = img.size
<1>t. index \in [Name -> Entry \cup {None}] /\ img.size \in Nat
  BY FieldsLemma DEF TypeInv, TypeOK, DiskType, HandlerType
<1>1. CASE (\A n \in Live : index[n].rec # cur) /\ index' = index
  BY <1>1 DEF Live
<1>2. ASSUME NEW m \in Live, index[m].rec = cur, index' = [index EXCEPT ![m].size = img.size]
      PROVE  /\ Live' = Live
             /\ \A n \in Live : index'[n].rec = index[n].rec /\ index'[n].seq = index[n].seq
             /\ \A n \in Live : index[n].rec # cur => index'[n] = index[n]
             /\ \A n \in Live : index[n].rec = cur => index'[n].size = img.size
  <2>1. index[m] \in Entry /\ m \in Name
    BY <1>t DEF Live
  <2>2. index'[m] = [index[m] EXCEPT !.size = img.size] /\ \A n \in Name : n # m => index'[n] = index[n]
    BY <1>2, <1>t, <2>1
  <2>3. /\ index'[m] \in Entry /\ index'[m].size = img.size
        /\ index'[m].rec = index[m].rec /\ index'[m].seq = index[m].seq
    BY <2>1, <2>2, <1>t DEF Entry
  <2>4. Live' = Live
    BY <2>1, <2>2, <2>3, NoneAssumption DEF Live
  <2> QED BY <1>2, <2>1, <2>2, <2>3, <2>4 DEF Live
<1> QED BY <1>1, <1>2 DEF Sync, NoFault

\* The entry of a new file joins the directory.
LEMMA InsertLemma ==
  ASSUME TypeInv, CreateInsert, index[name] = None
  PROVE  /\ name \in Name /\ cur \in Record /\ name \notin Live
         /\ Live' = Live \cup {name} /\ Named' = Named \cup {cur}
         /\ \A n \in Live : index'[n] = index[n]
         /\ index'[name].rec = cur /\ index'[name].size = 0
<1> DEFINE e == [rec |-> cur, seq |-> rec[cur].seq, size |-> 0]
<1>1. name \in Name /\ cur \in Record /\ index \in [Name -> Entry \cup {None}]
        /\ rec[cur] \in FileRecord
  BY DEF TypeInv, TypeOK, DiskType, InHand, CreateInsert, Creating
<1>2. e \in Entry /\ e.rec = cur /\ e.size = 0
  BY <1>1, FieldsLemma DEF Entry
<1> HIDE DEF e
<1>3. index' = [index EXCEPT ![name] = e]
  BY DEF CreateInsert, e
<1>4. index'[name] = e /\ \A n \in Name : n # name => index'[n] = index[n]
  BY <1>1, <1>3
<1>5. Live' = Live \cup {name} /\ name \notin Live
  BY <1>1, <1>2, <1>4, NoneAssumption DEF Live
<1>6. \A n \in Live : index'[n] = index[n]
  BY <1>4, <1>5 DEF Live
<1>7. Named' = Named \cup {cur}
  <2>1. Named' = {index'[n].rec : n \in Live'}
    BY DEF Named
  <2> QED BY <2>1, <1>2, <1>4, <1>5, <1>6 DEF Named
<1> QED BY <1>1, <1>2, <1>4, <1>5, <1>6, <1>7

\* An undisturbed step keeps the record bits, the records in use and the names
\* together.
LEMMA CalmRecordsStep ==
  ASSUME SafeInv, CalmInv, [Next]_vars, Undisturbed'
  PROVE  CalmRecords'
<1>u. Undisturbed /\ ~Fault /\ ~Crash
  BY UndisturbedStep DEF SafeInv
<1>c. /\ mftBitmap = InUse \cup Vacant
      /\ Vacant \cap InUse = {}
      /\ InUse = Named \cup Unnamed
      /\ pc \in Creating => index[name] = None
  BY <1>u DEF CalmInv, CalmRecords
<1>t. /\ pc \notin {"idle", "cr_bit"} => cur \in Record
      /\ pc \in Creating \cup {"de_unlink"} => name \in Name
      /\ rec \in [Record -> FileRecord] /\ img \in FileRecord
      /\ index \in [Name -> Entry \cup {None}]
  BY DEF SafeInv, TypeInv, TypeOK, DiskType, HandlerType, InHand
<1>e. /\ \A n, m \in Live : index[n].rec = index[m].rec => n = m
      /\ pc \in {"cr_rec", "cr_ins", "cr_undo", "cr_unbit", "de_free", "de_bit"} => cur \notin Named
      /\ pc = "de_unlink" => cur \in Named
      /\ pc \in Writing \cup {"sh_free"} => img.inUse = rec[cur].inUse
      /\ pc \in {"wr_rec", "sh_free"} => rec[cur].inUse
  BY <1>u DEF SafeInv, EntryInv, LocalsInv, ClusterInv, Undisturbed, Named, Writing
<1>o. /\ rec' = rec => InUse' = InUse
      /\ index' = index => Named' = Named
  BY DEF InUse, Named, Live
<1> USE DEF CalmRecords, Creating, Vacant, Unnamed, CurAt
<1>1. ASSUME NEW n \in Name, CreateBegin(n) PROVE CalmRecords'
  BY <1>1, <1>u, <1>c, <1>o DEF CreateBegin, Start, MarkDirty, NoFault
<1>2. ASSUME NEW n \in Name, DeleteBegin(n) PROVE CalmRecords'
  BY <1>2, <1>u, <1>c, <1>o DEF DeleteBegin, Start, MarkDirty, NoFault
<1>3. ASSUME NEW n \in Name, DeleteStale(n) PROVE CalmRecords'
  BY <1>3, <1>u, <1>c, <1>o DEF DeleteStale, Return, Quiet, MarkDirty, NoFault
<1>4. ASSUME NEW n \in Name, NEW k \in 0..MaxSize, WriteBegin(n, k) PROVE CalmRecords'
  BY <1>4, <1>u, <1>c, <1>o DEF WriteBegin, Start, MarkDirty, NoFault
<1>5. ASSUME NEW n \in Name, NEW k \in 0..MaxSize, TruncateBegin(n, k) PROVE CalmRecords'
  BY <1>5, <1>u, <1>c, <1>o DEF TruncateBegin, Shrink, Start, MarkDirty, NoFault
<1>6. ASSUME NEW r \in Record, CloseTrim(r) PROVE CalmRecords'
  BY <1>6, <1>u, <1>c, <1>o DEF CloseTrim, Shrink, Start, MarkDirty, NoFault
<1>7. ASSUME NEW r \in Record, CloseNoSlack(r) PROVE CalmRecords'
  BY <1>7, <1>u, <1>c, <1>o DEF CloseNoSlack, Return, Quiet, disk
<1>8. CASE CreateAllocRecord
  BY <1>8, <1>u, <1>c, <1>o DEF CreateAllocRecord, memory, history
<1>9. CASE CreateNoRecord
  BY <1>9, <1>u, <1>c, <1>o DEF CreateNoRecord, Return, Quiet, NoFault, disk, memory
<1>10. CASE CreateWriteRecord
  <2> DEFINE f == NewFile(rec[cur].seq)
  <2>1. f \in FileRecord /\ f.inUse /\ cur \in Record
    BY <1>10, <1>t, FieldsLemma, NewFileLemma DEF CreateWriteRecord
  <2> HIDE DEF f
  <2>2. InUse' = InUse \cup {cur}
    BY <1>10, <1>t, <2>1, InUseLemma DEF CreateWriteRecord, f
  <2> QED BY <1>10, <1>c, <1>o, <2>2 DEF CreateWriteRecord, memory, locals, history
<1>11. CASE CreateWriteRecordFails
  BY <1>11, <1>u, <1>c, <1>o DEF CreateWriteRecordFails, disk, memory, locals
<1>12. CASE CreateInsert
  <2>1. Named' = Named \cup {cur}
    BY <1>12, <1>c, InsertLemma DEF SafeInv, CreateInsert
  <2> QED BY <1>12, <1>c, <1>o, <2>1 DEF CreateInsert, Return, Quiet, memory
<1>13. CASE CreateInsertRefused
  BY <1>13, <1>u, <1>c, <1>o DEF CreateInsertRefused, disk, memory, locals, history
<1>14. CASE CreateCommitFails
  BY <1>14, <1>u, <1>c, <1>o DEF CreateCommitFails, memory, locals
<1>15. CASE CreateUndoRecord
  <2> DEFINE f == Released(rec[cur])
  <2>1. f \in FileRecord /\ ~f.inUse /\ cur \in Record
    BY <1>15, <1>t, ReleasedLemma DEF CreateUndoRecord
  <2> HIDE DEF f
  <2>2. InUse' = InUse \ {cur}
    BY <1>15, <1>u, <1>t, <2>1, InUseLemma DEF CreateUndoRecord, f
  <2> QED BY <1>15, <1>u, <1>c, <1>e, <1>o, <2>2 DEF CreateUndoRecord, memory, locals
<1>16. CASE CreateUndoBit
  BY <1>16, <1>u, <1>c, <1>o DEF CreateUndoBit, Return, FreeBit, Quiet, NoFault, memory
<1>17. CASE DeleteUnlink
  <2>1. \A n \in Name : index'[n] = IF index[n] # None /\ index[n].rec = cur THEN None ELSE index[n]
    BY <1>17 DEF DeleteUnlink
  <2>2. Named' = Named \ {cur}
    <3>1. Named' = {index'[n].rec : n \in Live'} /\ Live' = {n \in Live : index[n].rec # cur}
      BY <2>1 DEF Named, Live
    <3>2. \A n \in Live' : index'[n].rec = index[n].rec
      BY <3>1, <2>1 DEF Live
    <3> QED BY <3>1, <3>2 DEF Named
  <2> QED BY <1>17, <1>c, <1>e, <1>o, <2>2 DEF DeleteUnlink, memory, history
<1>18. CASE DeleteUnlinkRefused
  BY <1>18, <1>u, <1>c, <1>o DEF DeleteUnlinkRefused, Return, Quiet, disk, memory
<1>19. CASE DeleteFree
  BY <1>19, <1>u, <1>c, <1>o DEF DeleteFree, FreeRunOf
<1>20. CASE DeleteClearRecord
  <2> DEFINE f == Released(img)
  <2>1. f \in FileRecord /\ ~f.inUse /\ cur \in Record
    BY <1>20, <1>t, ReleasedLemma DEF DeleteClearRecord
  <2> HIDE DEF f
  <2>2. InUse' = InUse \ {cur}
    BY <1>20, <1>u, <1>t, <2>1, InUseLemma DEF DeleteClearRecord, f
  <2> QED BY <1>20, <1>u, <1>c, <1>e, <1>o, <2>2 DEF DeleteClearRecord, memory, locals
<1>21. CASE DeleteClearBit
  BY <1>21, <1>u, <1>c, <1>o DEF DeleteClearBit, Return, FreeBit, Quiet, NoFault, memory
<1>22. CASE WriteAlloc
  BY <1>22, <1>u, <1>c, <1>o DEF WriteAlloc, history
<1>23. CASE WriteGiveUp
  BY <1>23, <1>u, <1>c, <1>o DEF WriteGiveUp, disk, memory, locals, history
<1>24. CASE WriteAllocated
  BY <1>24, <1>u, <1>c, <1>o DEF WriteAllocated, disk, locals, history
<1>25. CASE WriteUndo
  BY <1>25, <1>u, <1>c, <1>o DEF WriteUndo, FreeRunOf, history
<1>26. CASE WriteRefused
  BY <1>26, <1>u, <1>c, <1>o DEF WriteRefused, Return, Quiet, disk, memory
<1>27. CASE WriteRecord
  <2> DEFINE f == NonResident(img)
  <2>1. f \in FileRecord /\ f.inUse /\ cur \in Record
    BY <1>27, <1>t, <1>e, NonResidentLemma DEF WriteRecord, Writing
  <2> HIDE DEF f
  <2>2. InUse' = InUse \cup {cur}
    BY <1>27, <1>u, <1>t, <2>1, InUseLemma DEF WriteRecord, f
  <2>3. cur \in InUse
    BY <1>27, <1>e, <2>1 DEF InUse, WriteRecord
  <2> QED BY <1>27, <1>u, <1>c, <1>o, <2>2, <2>3 DEF WriteRecord, Return, Quiet, memory
<1>28. CASE ShrinkFree
  BY <1>28, <1>u, <1>c, <1>o DEF ShrinkFree, FreeRunOf
<1>29. CASE ShrinkRefused
  BY <1>29, <1>u, <1>c, <1>o DEF ShrinkRefused, Return, Torn, Quiet, disk, memory
<1>30. CASE ShrinkRecord
  <2>1. img.inUse /\ cur \in Record
    BY <1>30, <1>t, <1>e DEF ShrinkRecord
  <2>2. InUse' = InUse \cup {cur}
    BY <1>30, <1>u, <1>t, <2>1, InUseLemma DEF ShrinkRecord
  <2>3. cur \in InUse
    BY <1>30, <1>e, <2>1 DEF InUse, ShrinkRecord
  <2> QED BY <1>30, <1>u, <1>c, <1>o, <2>2, <2>3 DEF ShrinkRecord, Return, Torn, Quiet, memory, locals
<1>31. CASE Sync
  <2>1. Live' = Live /\ \A n \in Live : index'[n].rec = index[n].rec
    BY <1>31, <1>u, <1>e, SyncLemma DEF SafeInv
  <2>2. Named' = Named
    BY <2>1 DEF Named
  <2>3. pc = "sync" /\ pc' = "idle" /\ rec' = rec /\ mftBitmap' = mftBitmap
    BY <1>31 DEF Sync, Return
  <2> QED BY <1>c, <1>o, <2>2, <2>3
<1>32. CASE Unmount
  BY <1>32, <1>u, <1>c, <1>o DEF Unmount, NoFault, locals
<1>33. CASE Mount
  BY <1>33, <1>u, <1>c, <1>o DEF Mount, disk, locals, history
<1>34. CASE Crash
  BY <1>34, <1>u, <1>c, <1>o DEF Crash, Torn, Quiet, disk
<1>35. CASE UNCHANGED vars
  BY <1>35, <1>u, <1>c, <1>o DEF vars, disk, memory, locals, history
<1> QED
  BY <1>1, <1>2, <1>3, <1>4, <1>5, <1>6, <1>7, <1>8, <1>9, <1>10, <1>11, <1>12, <1>13, <1>14, <1>15, <1>16, <1>17, <1>18, <1>19, <1>20, <1>21, <1>22, <1>23, <1>24, <1>25, <1>26, <1>27, <1>28, <1>29, <1>30, <1>31, <1>32, <1>33, <1>34, <1>35
  DEF Next, Call, Handler

\* An undisturbed step keeps the size in the directory equal to the record's.
LEMMA CalmSizesStep ==
  ASSUME SafeInv, CalmInv, [Next]_vars, Undisturbed'
  PROVE  CalmSizes'
<1>u. Undisturbed /\ ~Fault /\ ~Crash
  BY UndisturbedStep DEF SafeInv
<1>c. /\ \A n \in Live : ~(pc = "sync" /\ index[n].rec = cur) =>
                             index[n].size = rec[index[n].rec].size
      /\ pc = "sync" => rec[cur].size = img.size
      /\ pc = "cr_ins" => rec[cur].size = 0
      /\ pc \in Creating => index[name] = None
  BY <1>u DEF CalmInv, CalmRecords, CalmSizes
<1>t. /\ pc \notin {"idle", "cr_bit"} => cur \in Record
      /\ rec \in [Record -> FileRecord] /\ img \in FileRecord
      /\ \A n \in Live : index[n].rec \in Record
  BY EntryLemma DEF SafeInv, TypeInv, TypeOK, DiskType, HandlerType, InHand, Live
<1>e. /\ \A n, m \in Live : index[n].rec = index[m].rec => n = m
      /\ pc \in {"cr_rec", "cr_ins", "cr_undo", "cr_unbit", "de_free", "de_bit"} =>
           \A n \in Live : index[n].rec # cur
  BY <1>u DEF SafeInv, EntryInv, Undisturbed
<1>o. index' = index => Live' = Live
  BY DEF Live
<1> USE DEF CalmSizes
<1>1. ASSUME NEW n \in Name, CreateBegin(n) PROVE CalmSizes'
  BY <1>1, <1>u, <1>c, <1>o DEF CreateBegin, Start, MarkDirty, NoFault
<1>2. ASSUME NEW n \in Name, DeleteBegin(n) PROVE CalmSizes'
  BY <1>2, <1>u, <1>c, <1>o DEF DeleteBegin, Start, MarkDirty, NoFault
<1>3. ASSUME NEW n \in Name, DeleteStale(n) PROVE CalmSizes'
  BY <1>3, <1>u, <1>c, <1>o DEF DeleteStale, Return, Quiet, MarkDirty, NoFault
<1>4. ASSUME NEW n \in Name, NEW k \in 0..MaxSize, WriteBegin(n, k) PROVE CalmSizes'
  BY <1>4, <1>u, <1>c, <1>o DEF WriteBegin, Start, MarkDirty, NoFault
<1>5. ASSUME NEW n \in Name, NEW k \in 0..MaxSize, TruncateBegin(n, k) PROVE CalmSizes'
  BY <1>5, <1>u, <1>c, <1>o DEF TruncateBegin, Shrink, Start, MarkDirty, NoFault
<1>6. ASSUME NEW r \in Record, CloseTrim(r) PROVE CalmSizes'
  BY <1>6, <1>u, <1>c, <1>o DEF CloseTrim, Shrink, Start, MarkDirty, NoFault
<1>7. ASSUME NEW r \in Record, CloseNoSlack(r) PROVE CalmSizes'
  BY <1>7, <1>u, <1>c, <1>o DEF CloseNoSlack, Return, Quiet, disk
<1>8. CASE CreateAllocRecord
  BY <1>8, <1>u, <1>c, <1>o DEF CreateAllocRecord, memory, history
<1>9. CASE CreateNoRecord
  BY <1>9, <1>u, <1>c, <1>o DEF CreateNoRecord, Return, Quiet, NoFault, disk, memory
<1>10. CASE CreateWriteRecord
  <2> DEFINE f == NewFile(rec[cur].seq)
  <2>1. f \in FileRecord /\ f.size = 0 /\ cur \in Record
    BY <1>10, <1>t, FieldsLemma, NewFileLemma DEF CreateWriteRecord
  <2> HIDE DEF f
  <2>2. rec'[cur] = f /\ \A r \in Record : r # cur => rec'[r] = rec[r]
    BY <1>10, <1>t, <2>1 DEF CreateWriteRecord, f
  <2> QED BY <1>10, <1>c, <1>t, <1>e, <1>o, <2>1, <2>2 DEF CreateWriteRecord, memory, locals, history
<1>11. CASE CreateWriteRecordFails
  BY <1>11, <1>u, <1>c, <1>o DEF CreateWriteRecordFails, disk, memory, locals
<1>12. CASE CreateInsert
  <2>1. /\ name \notin Live /\ Live' = Live \cup {name}
        /\ \A n \in Live : index'[n] = index[n]
        /\ index'[name].rec = cur /\ index'[name].size = 0
    BY <1>12, <1>c, InsertLemma DEF SafeInv, CreateInsert, Creating
  <2>2. pc = "cr_ins" /\ pc' = "idle" /\ rec' = rec
    BY <1>12 DEF CreateInsert, Return
  <2> QED BY <1>c, <1>t, <2>1, <2>2
<1>13. CASE CreateInsertRefused
  BY <1>13, <1>u, <1>c, <1>o DEF CreateInsertRefused, disk, memory, locals, history
<1>14. CASE CreateCommitFails
  BY <1>14, <1>u, <1>c, <1>o DEF CreateCommitFails, memory, locals
<1>15. CASE CreateUndoRecord
  <2> DEFINE f == Released(rec[cur])
  <2>1. cur \in Record /\ rec' = [rec EXCEPT ![cur] = f]
    BY <1>15, <1>t, <1>u DEF CreateUndoRecord
  <2> HIDE DEF f
  <2>2. \A r \in Record : r # cur => rec'[r] = rec[r]
    BY <1>t, <2>1
  <2> QED BY <1>15, <1>u, <1>c, <1>t, <1>e, <1>o, <2>2 DEF CreateUndoRecord, memory, locals
<1>16. CASE CreateUndoBit
  BY <1>16, <1>u, <1>c, <1>o DEF CreateUndoBit, Return, FreeBit, Quiet, NoFault, memory
<1>17. CASE DeleteUnlink
  <2>1. \A n \in Name : index'[n] = IF index[n] # None /\ index[n].rec = cur THEN None ELSE index[n]
    BY <1>17 DEF DeleteUnlink
  <2>2. \A n \in Live' : n \in Live /\ index'[n] = index[n]
    BY <2>1 DEF Live
  <2> QED BY <1>17, <1>c, <2>2 DEF DeleteUnlink, memory, history
<1>18. CASE DeleteUnlinkRefused
  BY <1>18, <1>u, <1>c, <1>o DEF DeleteUnlinkRefused, Return, Quiet, disk, memory
<1>19. CASE DeleteFree
  BY <1>19, <1>u, <1>c, <1>o DEF DeleteFree, FreeRunOf
<1>20. CASE DeleteClearRecord
  <2> DEFINE f == Released(img)
  <2>1. cur \in Record /\ rec' = [rec EXCEPT ![cur] = f]
    BY <1>20, <1>t, <1>u DEF DeleteClearRecord
  <2> HIDE DEF f
  <2>2. \A r \in Record : r # cur => rec'[r] = rec[r]
    BY <1>t, <2>1
  <2> QED BY <1>20, <1>u, <1>c, <1>t, <1>e, <1>o, <2>2 DEF DeleteClearRecord, memory, locals
<1>21. CASE DeleteClearBit
  BY <1>21, <1>u, <1>c, <1>o DEF DeleteClearBit, Return, FreeBit, Quiet, NoFault, memory
<1>22. CASE WriteAlloc
  BY <1>22, <1>u, <1>c, <1>o DEF WriteAlloc, history
<1>23. CASE WriteGiveUp
  BY <1>23, <1>u, <1>c, <1>o DEF WriteGiveUp, disk, memory, locals, history
<1>24. CASE WriteAllocated
  BY <1>24, <1>u, <1>c, <1>o DEF WriteAllocated, disk, locals, history
<1>25. CASE WriteUndo
  BY <1>25, <1>u, <1>c, <1>o DEF WriteUndo, FreeRunOf, history
<1>26. CASE WriteRefused
  BY <1>26, <1>u, <1>c, <1>o DEF WriteRefused, Return, Quiet, disk, memory
<1>27. CASE WriteRecord
  <2> DEFINE f == NonResident(img)
  <2>1. f \in FileRecord /\ f.size = img.size /\ cur \in Record
    BY <1>27, <1>t, NonResidentLemma DEF WriteRecord
  <2> HIDE DEF f
  <2>2. rec'[cur] = f /\ \A r \in Record : r # cur => rec'[r] = rec[r]
    BY <1>27, <1>u, <1>t, <2>1 DEF WriteRecord, f
  <2> QED BY <1>27, <1>u, <1>c, <1>t, <1>o, <2>1, <2>2 DEF WriteRecord, Return, Quiet, memory
<1>28. CASE ShrinkFree
  BY <1>28, <1>u, <1>c, <1>o DEF ShrinkFree, FreeRunOf
<1>29. CASE ShrinkRefused
  BY <1>29, <1>u, <1>c, <1>o DEF ShrinkRefused, Return, Torn, Quiet, disk, memory
<1>30. CASE ShrinkRecord
  <2>1. cur \in Record
    BY <1>30, <1>t DEF ShrinkRecord
  <2>2. rec'[cur] = img /\ \A r \in Record : r # cur => rec'[r] = rec[r]
    BY <1>30, <1>u, <1>t, <2>1 DEF ShrinkRecord
  <2> QED BY <1>30, <1>u, <1>c, <1>t, <1>o, <2>1, <2>2 DEF ShrinkRecord, Return, Torn, Quiet, memory, locals
<1>31. CASE Sync
  <2>1. /\ Live' = Live /\ \A n \in Live : index'[n].rec = index[n].rec
        /\ \A n \in Live : index[n].rec # cur => index'[n] = index[n]
        /\ \A n \in Live : index[n].rec = cur => index'[n].size = img.size
    BY <1>31, <1>u, <1>e, SyncLemma DEF SafeInv
  <2>2. pc = "sync" /\ pc' = "idle" /\ rec' = rec
    BY <1>31 DEF Sync, Return
  <2> QED BY <1>c, <1>t, <2>1, <2>2
<1>32. CASE Unmount
  BY <1>32, <1>u, <1>c, <1>o DEF Unmount, NoFault, locals
<1>33. CASE Mount
  BY <1>33, <1>u, <1>c, <1>o DEF Mount, disk, locals, history
<1>34. CASE Crash
  BY <1>34, <1>u, <1>c, <1>o DEF Crash, Torn, Quiet, disk
<1>35. CASE UNCHANGED vars
  BY <1>35, <1>u, <1>c, <1>o DEF vars, disk, memory, locals, history
<1> QED
  BY <1>1, <1>2, <1>3, <1>4, <1>5, <1>6, <1>7, <1>8, <1>9, <1>10, <1>11, <1>12, <1>13, <1>14, <1>15, <1>16, <1>17, <1>18, <1>19, <1>20, <1>21, <1>22, <1>23, <1>24, <1>25, <1>26, <1>27, <1>28, <1>29, <1>30, <1>31, <1>32, <1>33, <1>34, <1>35
  DEF Next, Call, Handler

\* A call begins with nothing to take back.
LEMMA BeginLemma ==
  ASSUME pc = "idle", log = {}, freed = {}, log' = {}, freed' = {},
         pc' \in {"cr_bit", "de_unlink", "wr_alloc", "wr_rec", "sh_free"},
         UNCHANGED <<bitmapDisk, mftBitmap, rec, index>>
  PROVE  Undone' = View
<1>1. Taken' = {}
  BY DEF Taken, CurAt
<1>2. \A r \in Record : Kept(r)' = IF rec[r].inUse THEN rec[r] ELSE FreeRecord
  BY <1>1 DEF Kept
<1>3. [r \in Record |-> Kept(r)]' = [r \in Record |-> IF rec[r].inUse THEN rec[r] ELSE FreeRecord]
  BY <1>2
<1> QED BY <1>1, <1>3 DEF Undone, View

\* What a call would take back is decided by four parts of the volume.
LEMMA UndoneLemma ==
  ASSUME (bitmapDisk' \ log') \cup freed' = (bitmapDisk \ log) \cup freed,
         mftBitmap' \ Taken' = mftBitmap \ Taken,
         index' = index,
         \A r \in Record : Kept(r)' = Kept(r)
  PROVE  Undone' = Undone
<1>1. [r \in Record |-> Kept(r)]' = [r \in Record |-> Kept(r)]
  OBVIOUS
<1> QED BY <1>1 DEF Undone

\* A call that changes nothing on disk has no more to take back than before.
LEMMA SameUndoneLemma ==
  ASSUME UNCHANGED <<bitmapDisk, mftBitmap, rec, index>>, log' = log, freed' = freed,
         Taken' = Taken
  PROVE  Undone' = Undone
<1>1. \A r \in Record : Kept(r)' = Kept(r)
  BY DEF Kept
<1> QED BY <1>1, UndoneLemma

\* An undisturbed step keeps the volume as it was before the call within reach.
LEMMA CalmUndoStep ==
  ASSUME SafeInv, CalmInv, [Next]_vars, Undisturbed'
  PROVE  CalmUndo'
<1>u. Undisturbed /\ ~Fault /\ ~Crash
  BY UndisturbedStep DEF SafeInv
<1>c. /\ bitmapDisk = (Owned \ freed) \cup log /\ todo \cap freed = {}
      /\ mftBitmap = InUse \cup Vacant /\ Vacant \cap InUse = {}
      /\ pc \in Refusable => before = Undone
  BY <1>u DEF CalmInv, CalmBits, CalmRecords, CalmUndo
<1>t. /\ pc \notin {"idle", "cr_bit"} => cur \in Record
      /\ rec \in [Record -> FileRecord] /\ img \in FileRecord /\ left \in Nat
      /\ pc # "idle" => mounted
      /\ mounted => bitmap = bitmapDisk
  BY DEF SafeInv, TypeInv, TypeOK, DiskType, HandlerType, InHand, LocalsInv
<1>l. /\ pc \notin {"de_free", "sh_free", "de_bit"} => freed = {}
      /\ pc \notin Writing => log = {}
      /\ pc = "sh_free" => todo \subseteq Owned
  BY <1>u DEF SafeInv, LocalsInv, Freeing, ClusterInv, Undisturbed, Owned, TypeInv, InHand
<1> USE DEF CalmUndo, Refusable, Creating, Writing
<1>1. ASSUME NEW n \in Name, CreateBegin(n) PROVE CalmUndo'
  <2>1. /\ pc = "idle" /\ before' = View /\ log' = log /\ freed' = freed
        /\ pc' \in {"cr_bit", "de_unlink", "wr_alloc", "wr_rec", "sh_free"}
        /\ UNCHANGED <<bitmapDisk, mftBitmap, rec, index>>
    BY <1>1 DEF CreateBegin, Start, MarkDirty, NoFault
  <2> QED BY <1>l, <2>1, BeginLemma
<1>2. ASSUME NEW n \in Name, DeleteBegin(n) PROVE CalmUndo'
  <2>1. /\ pc = "idle" /\ before' = View /\ log' = log /\ freed' = freed
        /\ pc' \in {"cr_bit", "de_unlink", "wr_alloc", "wr_rec", "sh_free"}
        /\ UNCHANGED <<bitmapDisk, mftBitmap, rec, index>>
    BY <1>2 DEF DeleteBegin, Start, MarkDirty, NoFault
  <2> QED BY <1>l, <2>1, BeginLemma
<1>3. ASSUME NEW n \in Name, DeleteStale(n) PROVE CalmUndo'
  BY <1>3, <1>u, <1>c DEF DeleteStale, Return, Quiet, MarkDirty, NoFault
<1>4. ASSUME NEW n \in Name, NEW k \in 0..MaxSize, WriteBegin(n, k) PROVE CalmUndo'
  <2>1. /\ pc = "idle" /\ before' = View /\ log' = log /\ freed' = freed
        /\ pc' \in {"cr_bit", "de_unlink", "wr_alloc", "wr_rec", "sh_free"}
        /\ UNCHANGED <<bitmapDisk, mftBitmap, rec, index>>
    BY <1>4 DEF WriteBegin, Start, MarkDirty, NoFault
  <2> QED BY <1>l, <2>1, BeginLemma
<1>5. ASSUME NEW n \in Name, NEW k \in 0..MaxSize, TruncateBegin(n, k) PROVE CalmUndo'
  <2>1. /\ pc = "idle" /\ before' = View /\ log' = log /\ freed' = freed
        /\ pc' \in {"cr_bit", "de_unlink", "wr_alloc", "wr_rec", "sh_free"}
        /\ UNCHANGED <<bitmapDisk, mftBitmap, rec, index>>
    BY <1>5 DEF TruncateBegin, Shrink, Start, MarkDirty, NoFault
  <2> QED BY <1>l, <2>1, BeginLemma
<1>6. ASSUME NEW r \in Record, CloseTrim(r) PROVE CalmUndo'
  <2>1. /\ pc = "idle" /\ before' = View /\ log' = log /\ freed' = freed
        /\ pc' \in {"cr_bit", "de_unlink", "wr_alloc", "wr_rec", "sh_free"}
        /\ UNCHANGED <<bitmapDisk, mftBitmap, rec, index>>
    BY <1>6 DEF CloseTrim, Shrink, Start, MarkDirty, NoFault
  <2> QED BY <1>l, <2>1, BeginLemma
<1>7. ASSUME NEW r \in Record, CloseNoSlack(r) PROVE CalmUndo'
  BY <1>7, <1>u, <1>c DEF CloseNoSlack, Return, Quiet, disk
<1>8. CASE CreateAllocRecord
  <2>1. PICK r \in Record \ mftBitmap : mftBitmap' = mftBitmap \cup {r} /\ cur' = r
    BY <1>8 DEF CreateAllocRecord
  <2>2. /\ pc = "cr_bit" /\ pc' = "cr_rec" /\ before' = before
        /\ UNCHANGED <<bitmapDisk, rec, index, log, freed>>
    BY <1>8 DEF CreateAllocRecord, memory, history
  <2>3. Taken = {} /\ Taken' = {r}
    BY <2>1, <2>2 DEF Taken, CurAt
  <2>4. ~rec[r].inUse
    BY <1>c, <2>1 DEF InUse
  <2>5. \A q \in Record : Kept(q)' = Kept(q)
    BY <2>2, <2>3, <2>4 DEF Kept
  <2>6. mftBitmap' \ Taken' = mftBitmap \ Taken
    BY <2>1, <2>3
  <2>7. Undone' = Undone
    BY <2>2, <2>5, <2>6, UndoneLemma
  <2> QED BY <1>c, <2>2, <2>7
<1>9. CASE CreateNoRecord
  BY <1>9, <1>u, <1>c DEF CreateNoRecord, Return, Quiet, NoFault, disk, memory
<1>10. CASE CreateWriteRecord
  <2>1. /\ pc = "cr_rec" /\ pc' = "cr_ins" /\ before' = before /\ cur' = cur
        /\ UNCHANGED <<bitmapDisk, mftBitmap, index, log, freed>>
        /\ cur \in Record /\ \A r \in Record : r # cur => rec'[r] = rec[r]
    BY <1>10, <1>t DEF CreateWriteRecord, memory, locals, history
  <2>2. Taken = {cur} /\ Taken' = {cur}
    BY <2>1 DEF Taken, CurAt
  <2>3. \A r \in Record : Kept(r)' = Kept(r)
    BY <2>1, <2>2 DEF Kept
  <2>4. Undone' = Undone
    BY <2>1, <2>2, <2>3, UndoneLemma
  <2> QED BY <1>c, <2>1, <2>4
<1>11. CASE CreateWriteRecordFails
  BY <1>11, <1>u, <1>c DEF CreateWriteRecordFails, disk, memory, locals
<1>12. CASE CreateInsert
  BY <1>12, <1>u, <1>c DEF CreateInsert, Return, Quiet, memory
<1>13. CASE CreateInsertRefused
  <2>1. UNCHANGED <<bitmapDisk, mftBitmap, rec, index>> /\ log' = log /\ freed' = freed
        /\ cur' = cur /\ before' = before /\ pc \in {"cr_ins"} /\ pc' \in {"cr_undo"}
    BY <1>13 DEF CreateInsertRefused, disk, memory, locals, history
  <2>2. Taken' = Taken
    BY <2>1 DEF Taken, CurAt
  <2> QED BY <1>c, <2>1, <2>2, SameUndoneLemma
<1>14. CASE CreateCommitFails
  BY <1>14, <1>u, <1>c DEF CreateCommitFails, memory, locals
<1>15. CASE CreateUndoRecord
  <2>1. /\ pc = "cr_undo" /\ pc' = "cr_unbit" /\ before' = before /\ cur' = cur
        /\ UNCHANGED <<bitmapDisk, mftBitmap, index, log, freed>>
        /\ cur \in Record /\ \A r \in Record : r # cur => rec'[r] = rec[r]
    BY <1>15, <1>t, <1>u DEF CreateUndoRecord, memory, locals
  <2>2. Taken = {cur} /\ Taken' = {cur}
    BY <2>1 DEF Taken, CurAt
  <2>3. \A r \in Record : Kept(r)' = Kept(r)
    BY <2>1, <2>2 DEF Kept
  <2>4. Undone' = Undone
    BY <2>1, <2>2, <2>3, UndoneLemma
  <2> QED BY <1>c, <2>1, <2>4
<1>16. CASE CreateUndoBit
  BY <1>16, <1>u, <1>c DEF CreateUndoBit, Return, FreeBit, Quiet, NoFault, memory
<1>17. CASE DeleteUnlink
  BY <1>17, <1>u, <1>c DEF DeleteUnlink, memory, history
<1>18. CASE DeleteUnlinkRefused
  BY <1>18, <1>u, <1>c DEF DeleteUnlinkRefused, Return, Quiet, disk, memory
<1>19. CASE DeleteFree
  BY <1>19, <1>u, <1>c DEF DeleteFree, FreeRunOf
<1>20. CASE DeleteClearRecord
  BY <1>20, <1>u, <1>c DEF DeleteClearRecord, memory, locals
<1>21. CASE DeleteClearBit
  BY <1>21, <1>u, <1>c DEF DeleteClearBit, Return, FreeBit, Quiet, NoFault, memory
<1>22. CASE WriteAlloc
  <2>1. PICK run \in SUBSET Cluster :
           run \cap bitmap = {} /\ bitmapDisk' = bitmapDisk \cup run /\ log' = log \cup run
    BY <1>22, <1>t, WriteAllocLemma
  <2>2. /\ pc = "wr_alloc" /\ pc' \in {"wr_undo", "wr_alloc"} /\ before' = before /\ cur' = cur
        /\ UNCHANGED <<mftBitmap, rec, index, freed>>
    BY <1>22 DEF WriteAlloc, history
  <2>3. Taken = {} /\ Taken' = {}
    BY <2>2 DEF Taken, CurAt
  <2>4. (bitmapDisk' \ log') \cup freed' = (bitmapDisk \ log) \cup freed
    BY <1>t, <2>1, <2>2
  <2>5. \A r \in Record : Kept(r)' = Kept(r)
    BY <2>2, <2>3 DEF Kept
  <2>6. Undone' = Undone
    BY <2>2, <2>3, <2>4, <2>5, UndoneLemma
  <2> QED BY <1>c, <2>2, <2>6
<1>23. CASE WriteGiveUp
  <2>1. UNCHANGED <<bitmapDisk, mftBitmap, rec, index>> /\ log' = log /\ freed' = freed
        /\ cur' = cur /\ before' = before /\ pc \in {"wr_alloc"} /\ pc' \in {"wr_undo"}
    BY <1>23 DEF WriteGiveUp, disk, memory, locals, history
  <2>2. Taken' = Taken
    BY <2>1 DEF Taken, CurAt
  <2> QED BY <1>c, <2>1, <2>2, SameUndoneLemma
<1>24. CASE WriteAllocated
  <2>1. UNCHANGED <<bitmapDisk, mftBitmap, rec, index>> /\ log' = log /\ freed' = freed
        /\ cur' = cur /\ before' = before /\ pc \in {"wr_alloc"} /\ pc' \in {"wr_rec"}
    BY <1>24 DEF WriteAllocated, disk, locals, history
  <2>2. Taken' = Taken
    BY <2>1 DEF Taken, CurAt
  <2> QED BY <1>c, <2>1, <2>2, SameUndoneLemma
<1>25. CASE WriteUndo
  <2>1. PICK run \in SUBSET log : bitmapDisk' = bitmapDisk \ run /\ log' = log \ run
    BY <1>25 DEF WriteUndo, FreeRunOf, history
  <2>2. /\ pc = "wr_undo" /\ pc' = "wr_undo" /\ before' = before /\ cur' = cur
        /\ UNCHANGED <<mftBitmap, rec, index, freed>>
    BY <1>25 DEF WriteUndo, FreeRunOf, history
  <2>3. Taken = {} /\ Taken' = {}
    BY <2>2 DEF Taken, CurAt
  <2>4. (bitmapDisk' \ log') \cup freed' = (bitmapDisk \ log) \cup freed
    BY <2>1, <2>2
  <2>5. \A r \in Record : Kept(r)' = Kept(r)
    BY <2>2, <2>3 DEF Kept
  <2>6. Undone' = Undone
    BY <2>2, <2>3, <2>4, <2>5, UndoneLemma
  <2> QED BY <1>c, <2>2, <2>6
<1>26. CASE WriteRefused
  BY <1>26, <1>u, <1>c DEF WriteRefused, Return, Quiet, disk, memory
<1>27. CASE WriteRecord
  BY <1>27, <1>u, <1>c DEF WriteRecord, Return, Quiet, memory
<1>28. CASE ShrinkFree
  <2>1. PICK run \in SUBSET todo : bitmapDisk' = bitmapDisk \ run /\ freed' = freed \cup run
    BY <1>28 DEF ShrinkFree, FreeRunOf
  <2>2. /\ pc = "sh_free" /\ pc' = "sh_free" /\ before' = before /\ cur' = cur
        /\ UNCHANGED <<mftBitmap, rec, index, log>>
    BY <1>28 DEF ShrinkFree, FreeRunOf
  <2>3. Taken = {} /\ Taken' = {}
    BY <2>2 DEF Taken, CurAt
  <2>4. (bitmapDisk' \ log') \cup freed' = (bitmapDisk \ log) \cup freed
    BY <1>c, <1>l, <2>1, <2>2
  <2>5. \A r \in Record : Kept(r)' = Kept(r)
    BY <2>2, <2>3 DEF Kept
  <2>6. Undone' = Undone
    BY <2>2, <2>3, <2>4, <2>5, UndoneLemma
  <2> QED BY <1>c, <2>2, <2>6
<1>29. CASE ShrinkRefused
  BY <1>29, <1>u, <1>c DEF ShrinkRefused, Return, Torn, Quiet, disk, memory
<1>30. CASE ShrinkRecord
  BY <1>30, <1>u, <1>c DEF ShrinkRecord, Return, Torn, Quiet, memory, locals
<1>31. CASE Sync
  BY <1>31, <1>u, <1>c DEF Sync, Return, Quiet, NoFault, memory
<1>32. CASE Unmount
  BY <1>32, <1>u, <1>c DEF Unmount, NoFault, locals
<1>33. CASE Mount
  BY <1>33, <1>u, <1>c DEF Mount, disk, locals, history
<1>34. CASE Crash
  BY <1>34, <1>u, <1>c DEF Crash, Torn, Quiet, disk
<1>35. CASE UNCHANGED vars
  <2>1. UNCHANGED <<bitmapDisk, mftBitmap, rec, index>> /\ log' = log /\ freed' = freed
        /\ pc' = pc /\ cur' = cur /\ before' = before
    BY <1>35 DEF vars, disk, memory, locals, history
  <2>2. Taken' = Taken
    BY <2>1 DEF Taken, CurAt
  <2> QED BY <1>c, <2>1, <2>2, SameUndoneLemma
<1> QED
  BY <1>1, <1>2, <1>3, <1>4, <1>5, <1>6, <1>7, <1>8, <1>9, <1>10, <1>11, <1>12, <1>13, <1>14, <1>15, <1>16, <1>17, <1>18, <1>19, <1>20, <1>21, <1>22, <1>23, <1>24, <1>25, <1>26, <1>27, <1>28, <1>29, <1>30, <1>31, <1>32, <1>33, <1>34, <1>35
  DEF Next, Call, Handler

\* An undisturbed call that is refused leaves the volume as it found it.
LEMMA RefusalStep ==
  ASSUME SafeInv, CalmInv, [Next]_vars, Undisturbed',
         pc # "idle", pc' = "idle", status' = "refused"
  PROVE  View' = before
<1>u. Undisturbed /\ ~Fault /\ ~Crash
  BY UndisturbedStep DEF SafeInv
<1>c. /\ bitmapDisk = (Owned \ freed) \cup log /\ todo \cap freed = {}
      /\ mftBitmap = InUse \cup Vacant /\ Vacant \cap InUse = {}
      /\ pc \in Refusable => before = Undone
  BY <1>u DEF CalmInv, CalmBits, CalmRecords, CalmUndo
<1>t. /\ pc \notin {"idle", "cr_bit"} => cur \in Record
      /\ rec \in [Record -> FileRecord] /\ img \in FileRecord /\ left \in Nat
      /\ pc # "idle" => mounted
      /\ mounted => bitmap = bitmapDisk
  BY DEF SafeInv, TypeInv, TypeOK, DiskType, HandlerType, InHand, LocalsInv
<1>l. /\ pc \notin {"de_free", "sh_free", "de_bit"} => freed = {}
      /\ pc \notin Writing => log = {}
      /\ pc = "sh_free" => todo \subseteq Owned
  BY <1>u DEF SafeInv, LocalsInv, Freeing, ClusterInv, Undisturbed, Owned, TypeInv, InHand
<1> DEFINE Files == [r \in Record |-> IF rec[r].inUse THEN rec[r] ELSE FreeRecord]
<1>r. ASSUME pc \in Refusable, bitmapDisk' = (bitmapDisk \ log) \cup freed,
             mftBitmap' = mftBitmap \ Taken, rec' = rec, index' = index,
             \A r \in Taken : ~rec[r].inUse
      PROVE  View' = before
  <2>1. \A r \in Record : Kept(r) = IF rec[r].inUse THEN rec[r] ELSE FreeRecord
    BY <1>r DEF Kept
  <2>2. [r \in Record |-> Kept(r)] = Files
    BY <2>1
  <2>3. View' = Undone
    BY <1>r, <2>2 DEF View, Undone
  <2> QED BY <1>r, <1>c, <2>3
<1> HIDE DEF Files
<1> USE DEF Refusable, Creating, Writing
<1>1. CASE CreateNoRecord
  <2>1. pc = "cr_bit" /\ UNCHANGED <<bitmapDisk, mftBitmap, rec, index>>
    BY <1>1 DEF CreateNoRecord, disk
  <2>2. Taken = {} /\ log = {} /\ freed = {}
    BY <1>l, <2>1 DEF Taken, CurAt
  <2> QED BY <1>r, <2>1, <2>2
<1>2. CASE CreateUndoBit
  <2>1. pc = "cr_unbit" /\ mftBitmap' = mftBitmap \ {cur} /\ UNCHANGED <<bitmapDisk, rec, index>>
    BY <1>2, <1>u DEF CreateUndoBit, FreeBit
  <2>2. Taken = {cur} /\ Vacant = {cur} /\ log = {} /\ freed = {}
    BY <1>l, <2>1 DEF Taken, Vacant, CurAt
  <2>3. ~rec[cur].inUse
    BY <1>c, <1>t, <2>1, <2>2 DEF InUse
  <2> QED BY <1>r, <2>1, <2>2, <2>3
<1>3. CASE DeleteUnlinkRefused
  <2>1. pc = "de_unlink" /\ UNCHANGED <<bitmapDisk, mftBitmap, rec, index>>
    BY <1>3 DEF DeleteUnlinkRefused, disk
  <2>2. Taken = {} /\ log = {} /\ freed = {}
    BY <1>l, <2>1 DEF Taken, CurAt
  <2> QED BY <1>r, <2>1, <2>2
<1>4. CASE WriteRefused
  <2>1. pc = "wr_undo" /\ log = {} /\ UNCHANGED <<bitmapDisk, mftBitmap, rec, index>>
    BY <1>4 DEF WriteRefused, disk
  <2>2. Taken = {} /\ freed = {}
    BY <1>l, <2>1 DEF Taken, CurAt
  <2> QED BY <1>r, <2>1, <2>2
<1>5. CASE ShrinkRefused
  <2>1. pc = "sh_free" /\ damage' = damage \cup Torn /\ UNCHANGED <<bitmapDisk, mftBitmap, rec, index>>
    BY <1>5 DEF ShrinkRefused, disk
  <2>2. Taken = {} /\ log = {} /\ freed = {}
    BY <1>l, <2>1 DEF Taken, CurAt, Torn, Undisturbed
  <2> QED BY <1>r, <2>1, <2>2
<1>6. CASE CreateInsert \/ DeleteClearBit \/ Sync
  BY <1>6 DEF CreateInsert, DeleteClearBit, Sync, Return
<1>7. CASE WriteRecord \/ ShrinkRecord
  BY <1>7, <1>u DEF WriteRecord, ShrinkRecord
<1>8. CASE Call \/ Unmount \/ Mount
  BY <1>8 DEF Call, CreateBegin, DeleteBegin, DeleteStale, WriteBegin, TruncateBegin, CloseTrim,
              CloseNoSlack, Shrink, Start, Unmount, Mount
<1>9. CASE CreateAllocRecord \/ CreateWriteRecord \/ CreateWriteRecordFails \/ CreateInsertRefused
           \/ CreateCommitFails \/ CreateUndoRecord \/ DeleteUnlink \/ DeleteFree
           \/ DeleteClearRecord \/ WriteAlloc \/ WriteGiveUp \/ WriteAllocated \/ WriteUndo
           \/ ShrinkFree
  BY <1>9 DEF CreateAllocRecord, CreateWriteRecord, CreateWriteRecordFails, CreateInsertRefused,
              CreateCommitFails, CreateUndoRecord, DeleteUnlink, DeleteFree, DeleteClearRecord,
              WriteAlloc, WriteGiveUp, WriteAllocated, WriteUndo, ShrinkFree
<1>10. CASE UNCHANGED vars
  BY <1>10 DEF vars
<1> QED
  BY <1>u, <1>1, <1>2, <1>3, <1>4, <1>5, <1>6, <1>7, <1>8, <1>9, <1>10 DEF Next, Handler

(***************************************************************************)
(* A volume on which nothing goes wrong                                    *)
(***************************************************************************)

\* No crash, no failed write, and no sparse file on the volume to begin with.
Calm == /\ MaxCrashes = 0 /\ MaxFaults = 0
        /\ \A m \in InitialMaps : ~Sparse(m)

\* No file ever gets a hole.
NoHoles == ~Sparse(img.map) /\ \A r \in Record : ~Sparse(rec[r].map)

\* Neither a cut nor an allocated run puts a hole into a map.
LEMMA HoleLemma ==
  ASSUME NEW m \in MapType, ~Sparse(m)
  PROVE  /\ \A k \in 0..Len(m) : ~Sparse(SubSeq(m, 1, k))
         /\ \A n \in MapType : ~Sparse(n) => ~Sparse(m \o n)
<1>1. Len(m) \in Nat /\ \A i \in 1..Len(m) : m[i] # Hole
  BY DEF MapType, Sparse
<1>2. ASSUME NEW k \in 0..Len(m) PROVE ~Sparse(SubSeq(m, 1, k))
  <2>1. Len(SubSeq(m, 1, k)) = k /\ \A i \in 1..k : SubSeq(m, 1, k)[i] = m[i]
    BY <1>1 DEF MapType
  <2>2. \A i \in 1..k : i \in 1..Len(m)
    BY <1>1
  <2> QED BY <1>1, <2>1, <2>2 DEF Sparse
<1>3. ASSUME NEW n \in MapType, ~Sparse(n) PROVE ~Sparse(m \o n)
  <2>1. /\ Len(m \o n) = Len(m) + Len(n) /\ Len(n) \in Nat
        /\ \A i \in 1..Len(m) : (m \o n)[i] = m[i]
        /\ \A i \in 1..Len(n) : (m \o n)[Len(m) + i] = n[i] /\ n[i] # Hole
    BY <1>3 DEF MapType, Sparse
  <2>2. ASSUME NEW i \in 1..Len(m \o n) PROVE (m \o n)[i] # Hole
    <3>1. CASE i \in 1..Len(m)
      BY <3>1, <1>1, <2>1
    <3>2. CASE i \notin 1..Len(m)
      <4>1. i - Len(m) \in 1..Len(n) /\ Len(m) + (i - Len(m)) = i
        BY <3>2, <1>1, <2>1
      <4> QED BY <4>1, <2>1
    <3> QED BY <3>1, <3>2
  <2> QED BY <2>2 DEF Sparse
<1> QED BY <1>2, <1>3

\* A record without a file has no hole, and a rewritten one those of its map.
LEMMA NoHolesRewrite ==
  ASSUME NoHoles, rec \in [Record -> FileRecord], NEW c \in Record, NEW f,
         rec' = [rec EXCEPT ![c] = f], ~Sparse(f.map), ~Sparse(img'.map)
  PROVE  NoHoles'
BY DEF NoHoles

\* The map of the image of a truncation.
LEMMA CutMapLemma ==
  ASSUME NEW f \in FileRecord, NEW k \in 0..Len(f.map)
  PROVE  Resized(f, SubSeq(f.map, 1, k), k).map = SubSeq(f.map, 1, k)
<1>1. f.map \in MapType /\ k \in Nat
  BY FieldsLemma
<1>2. SubSeq(f.map, 1, k) \in MapType
  BY <1>1, CutLemma
<1> QED BY <1>1, <1>2, ResizedLemma

\* Every step keeps the files free of holes.
LEMMA NoHolesStep ==
  ASSUME TypeInv, NoHoles, [Next]_vars
  PROVE  NoHoles'
<1>t. /\ pc \notin {"idle", "cr_bit"} => cur \in Record
      /\ rec \in [Record -> FileRecord] /\ img \in FileRecord
      /\ \A n \in Name : index[n] # None => index[n].rec \in Record
      /\ \A r \in Record : rec[r].size \in Nat /\ rec[r].size <= Len(rec[r].map)
  BY EntryLemma, FieldsLemma
     DEF TypeInv, TypeOK, DiskType, HandlerType, InHand, SizeFits
<1>c. NoHoles
  OBVIOUS
<1>0. ~Sparse(<<>>) /\ ~Sparse(FreeRecord.map)
  BY FreeRecordLemma DEF Sparse
<1>f. \A f \in FileRecord : f.map \in MapType
  BY FieldsLemma
<1> USE DEF NoHoles
<1>1. ASSUME NEW n \in Name, CreateBegin(n) PROVE NoHoles'
  BY <1>1, <1>c, <1>t, <1>0 DEF CreateBegin, Start, MarkDirty, NoFault
<1>2. ASSUME NEW n \in Name, DeleteBegin(n) PROVE NoHoles'
  BY <1>2, <1>c, <1>t DEF DeleteBegin, Start, MarkDirty, NoFault
<1>3. ASSUME NEW n \in Name, DeleteStale(n) PROVE NoHoles'
  BY <1>3, <1>c, <1>t, <1>0 DEF DeleteStale, Return, Quiet, MarkDirty, NoFault
<1>4. ASSUME NEW n \in Name, NEW k \in 0..MaxSize, WriteBegin(n, k) PROVE NoHoles'
  <2>1. index[n].rec \in Record /\ img'.map = rec[index[n].rec].map
    BY <1>4, WriteBeginLemma DEF TypeInv, TypeOK
  <2> QED BY <1>4, <1>c, <2>1 DEF WriteBegin
<1>5. ASSUME NEW n \in Name, NEW k \in 0..MaxSize, TruncateBegin(n, k) PROVE NoHoles'
  <2> DEFINE f == rec[index[n].rec]
  <2>1. /\ index[n].rec \in Record /\ k \in 0..Len(f.map) /\ f \in FileRecord
        /\ img' = Resized(f, SubSeq(f.map, 1, k), k) /\ rec' = rec
    <3>1. index[n] # None /\ k < f.size
      BY <1>5 DEF TruncateBegin
    <3>2. index[n].rec \in Record /\ f.size \in Nat /\ f.size <= Len(f.map) /\ f \in FileRecord
      BY <3>1, <1>t
    <3>3. Len(f.map) \in Nat
      BY <3>2, FieldsLemma
    <3>4. k \in 0..Len(f.map)
      BY <3>1, <3>2, <3>3
    <3> QED BY <1>5, <3>2, <3>4 DEF TruncateBegin, Shrink, Start
  <2>2. ~Sparse(f.map)
    BY <2>1, <1>c
  <2> HIDE DEF f
  <2>3. ~Sparse(SubSeq(f.map, 1, k)) /\ f.map \in MapType
    BY <1>f, <2>1, <2>2, HoleLemma
  <2>4. img'.map = SubSeq(f.map, 1, k)
    BY <2>1, CutMapLemma
  <2> QED BY <1>c, <2>1, <2>3, <2>4
<1>6. ASSUME NEW r \in Record, CloseTrim(r) PROVE NoHoles'
  <2> DEFINE f == rec[r]
             k == f.size
  <2>1. /\ k \in 0..Len(f.map) /\ f \in FileRecord
        /\ img' = Resized(f, SubSeq(f.map, 1, k), k) /\ rec' = rec
    <3>1. f.size \in Nat /\ f.size <= Len(f.map) /\ f \in FileRecord
      BY <1>t
    <3>2. Len(f.map) \in Nat
      BY <3>1, FieldsLemma
    <3>3. k \in 0..Len(f.map)
      BY <3>1, <3>2
    <3> QED BY <1>6, <3>1, <3>3 DEF CloseTrim, Shrink, Start
  <2>2. ~Sparse(f.map)
    BY <1>c
  <2> HIDE DEF f, k
  <2>3. ~Sparse(SubSeq(f.map, 1, k)) /\ f.map \in MapType
    BY <1>f, <2>1, <2>2, HoleLemma
  <2>4. img'.map = SubSeq(f.map, 1, k)
    BY <2>1, CutMapLemma
  <2> QED BY <1>c, <2>1, <2>3, <2>4
<1>7. ASSUME NEW r \in Record, CloseNoSlack(r) PROVE NoHoles'
  BY <1>7, <1>c, <1>t, <1>0 DEF CloseNoSlack, Return, Quiet, disk
<1>8. CASE CreateAllocRecord
  BY <1>8, <1>c, <1>t, <1>0 DEF CreateAllocRecord, memory, history
<1>9. CASE CreateNoRecord
  BY <1>9, <1>c, <1>t, <1>0 DEF CreateNoRecord, Return, Quiet, NoFault, disk, memory
<1>10. CASE CreateWriteRecord
  <2> DEFINE f == NewFile(rec[cur].seq)
  <2>1. f.map = <<>> /\ cur \in Record
    BY <1>10, <1>t, FieldsLemma, NewFileLemma DEF CreateWriteRecord
  <2> HIDE DEF f
  <2>2. rec' = [rec EXCEPT ![cur] = f] /\ img' = img
    BY <1>10 DEF CreateWriteRecord, locals, f
  <2> QED BY <1>c, <1>t, <1>0, <2>1, <2>2, NoHolesRewrite
<1>11. CASE CreateWriteRecordFails
  BY <1>11, <1>c, <1>t, <1>0 DEF CreateWriteRecordFails, disk, memory, locals
<1>12. CASE CreateInsert
  BY <1>12, <1>c, <1>t, <1>0 DEF CreateInsert, Return, Quiet, memory
<1>13. CASE CreateInsertRefused
  BY <1>13, <1>c, <1>t, <1>0 DEF CreateInsertRefused, disk, memory, locals, history
<1>14. CASE CreateCommitFails
  BY <1>14, <1>c, <1>t, <1>0 DEF CreateCommitFails, memory, locals
<1>15. CASE CreateUndoRecord
  <2> DEFINE f == Released(rec[cur])
  <2>1. f.map = rec[cur].map /\ cur \in Record /\ img' = img
    BY <1>15, <1>t, ReleasedLemma DEF CreateUndoRecord, locals
  <2> HIDE DEF f
  <2>2. rec' = [rec EXCEPT ![cur] = f] \/ rec' = rec
    BY <1>15 DEF CreateUndoRecord, f
  <2> QED BY <1>c, <1>t, <2>1, <2>2, NoHolesRewrite
<1>16. CASE CreateUndoBit
  BY <1>16, <1>c, <1>t, <1>0 DEF CreateUndoBit, Return, FreeBit, Quiet, NoFault, memory
<1>17. CASE DeleteUnlink
  BY <1>17, <1>c, <1>t, <1>0 DEF DeleteUnlink, memory, history
<1>18. CASE DeleteUnlinkRefused
  BY <1>18, <1>c, <1>t, <1>0 DEF DeleteUnlinkRefused, Return, Quiet, disk, memory
<1>19. CASE DeleteFree
  BY <1>19, <1>c, <1>t, <1>0 DEF DeleteFree, FreeRunOf
<1>20. CASE DeleteClearRecord
  <2> DEFINE f == Released(img)
  <2>1. f.map = img.map /\ cur \in Record /\ img' = img
    BY <1>20, <1>t, ReleasedLemma DEF DeleteClearRecord, locals
  <2> HIDE DEF f
  <2>2. rec' = [rec EXCEPT ![cur] = f] \/ rec' = rec
    BY <1>20 DEF DeleteClearRecord, f
  <2> QED BY <1>c, <1>t, <2>1, <2>2, NoHolesRewrite
<1>21. CASE DeleteClearBit
  BY <1>21, <1>c, <1>t, <1>0 DEF DeleteClearBit, Return, FreeBit, Quiet, NoFault, memory
<1>22. CASE WriteAlloc
  <2>1. PICK start \in Cluster, k \in 1..left :
           Run(start, k) \subseteq Cluster
           /\ img' = Resized(img, img.map \o RunMap(start, k), img.size)
    BY <1>22 DEF WriteAlloc
  <2>2. start \in Nat /\ k \in Nat /\ img.map \in MapType /\ img.size \in Nat
    BY <2>1, <1>t, FieldsLemma, ClusterAssumption
  <2> DEFINE m == RunMap(start, k)
  <2>3. /\ m \in MapType /\ Len(m) = k
        /\ ClustersOf(m) = Run(start, k)
    BY <2>1, <2>2, RunMapLemma
  <2>4. ~Sparse(m)
    <3>1. \A i \in 1..k : m[i] = start + i - 1 /\ start + i - 1 \in Run(start, k)
      BY <2>2 DEF RunMap, Run
    <3>2. \A i \in 1..k : m[i] # Hole
      BY <2>1, <3>1, ClusterAssumption
    <3> QED BY <2>3, <3>2 DEF Sparse
  <2> HIDE DEF m
  <2>5. ~Sparse(img.map \o m) /\ img.map \o m \in MapType
    BY <1>c, <2>2, <2>3, <2>4, HoleLemma, AppendLemma
  <2>6. img'.map = img.map \o m
    BY <1>t, <2>1, <2>2, <2>5, ResizedLemma DEF m
  <2>7. rec' = rec
    BY <1>22 DEF WriteAlloc
  <2> QED BY <1>c, <2>5, <2>6, <2>7
<1>23. CASE WriteGiveUp
  BY <1>23, <1>c, <1>t, <1>0 DEF WriteGiveUp, disk, memory, locals, history
<1>24. CASE WriteAllocated
  BY <1>24, <1>c, <1>t, <1>0 DEF WriteAllocated, disk, locals, history
<1>25. CASE WriteUndo
  BY <1>25, <1>c, <1>t, <1>0 DEF WriteUndo, FreeRunOf, history
<1>26. CASE WriteRefused
  BY <1>26, <1>c, <1>t, <1>0 DEF WriteRefused, Return, Quiet, disk, memory
<1>27. CASE WriteRecord
  <2> DEFINE f == NonResident(img)
  <2>1. f.map = img.map /\ cur \in Record /\ img' \in {img, FreeRecord}
    BY <1>27, <1>t, NonResidentLemma DEF WriteRecord, Return, Quiet
  <2> HIDE DEF f
  <2>2. rec' = [rec EXCEPT ![cur] = f] \/ rec' = rec
    BY <1>27 DEF WriteRecord, f
  <2> QED BY <1>c, <1>t, <1>0, <2>1, <2>2, NoHolesRewrite
<1>28. CASE ShrinkFree
  BY <1>28, <1>c, <1>t, <1>0 DEF ShrinkFree, FreeRunOf
<1>29. CASE ShrinkRefused
  BY <1>29, <1>c, <1>t, <1>0 DEF ShrinkRefused, Return, Torn, Quiet, disk, memory
<1>30. CASE ShrinkRecord
  <2>1. cur \in Record /\ img' \in {img, FreeRecord}
    BY <1>30, <1>t DEF ShrinkRecord, Return, Quiet, locals
  <2>2. rec' = [rec EXCEPT ![cur] = img] \/ rec' = rec
    BY <1>30 DEF ShrinkRecord
  <2> QED BY <1>c, <1>t, <1>0, <2>1, <2>2, NoHolesRewrite
<1>31. CASE Sync
  BY <1>31, <1>c, <1>t, <1>0 DEF Sync, Return, Quiet, NoFault, memory
<1>32. CASE Unmount
  BY <1>32, <1>c, <1>t, <1>0 DEF Unmount, NoFault, locals
<1>33. CASE Mount
  BY <1>33, <1>c, <1>t, <1>0 DEF Mount, disk, locals, history
<1>34. CASE Crash
  BY <1>34, <1>c, <1>t, <1>0 DEF Crash, Torn, Quiet, disk
<1>35. CASE UNCHANGED vars
  BY <1>35, <1>c, <1>t, <1>0 DEF vars, disk, memory, locals, history
<1> QED
  BY <1>1, <1>2, <1>3, <1>4, <1>5, <1>6, <1>7, <1>8, <1>9, <1>10, <1>11, <1>12, <1>13, <1>14, <1>15, <1>16, <1>17, <1>18, <1>19, <1>20, <1>21, <1>22, <1>23, <1>24, <1>25, <1>26, <1>27, <1>28, <1>29, <1>30, <1>31, <1>32, <1>33, <1>34, <1>35
  DEF Next, Call, Handler

(***************************************************************************)
(* The theorems about calls that run undisturbed                           *)
(***************************************************************************)

\* The initial volume is consistent: empty, or with one file.
LEMMA CalmInit == Init => CalmInv
<1> SUFFICES ASSUME Init PROVE CalmInv
  OBVIOUS
<1> USE FreeRecordLemma
<1>1. /\ pc = "idle" /\ log = {} /\ freed = {} /\ todo = {} /\ dirtySet = FALSE
      /\ Vacant = {} /\ Unnamed = {}
  BY DEF Init, Vacant, Unnamed, CurAt
<1>2. CalmFlag /\ CalmUndo
  BY <1>1 DEF CalmFlag, CalmUndo, Refusable, Creating, Writing
<1>3. CASE /\ bitmapDisk = {} /\ mftBitmap = {}
           /\ rec = [r \in Record |-> FreeRecord]
           /\ index = [n \in Name |-> None]
  <2>1. InUse = {} /\ Live = {} /\ Named = {} /\ Owned = {}
    BY <1>3 DEF InUse, Live, Named, Owned, Mapped
  <2> QED BY <1>1, <1>2, <1>3, <2>1 DEF CalmInv, CalmBits, CalmRecords, CalmSizes, Creating
<1>4. ASSUME NEW r \in Record, NEW n \in Name, NEW m \in InitialMaps,
             bitmapDisk = ClustersOf(m), mftBitmap = {r},
             rec = [q \in Record |->
                      IF q = r THEN [inUse |-> TRUE, seq |-> 1, resident |-> FALSE,
                                     map |-> m, size |-> Len(m)]
                      ELSE FreeRecord],
             index = [q \in Name |->
                        IF q = n THEN [rec |-> r, seq |-> 1, size |-> Len(m)] ELSE None]
      PROVE  CalmInv
  <2>1. /\ rec[r].inUse /\ rec[r].map = m /\ rec[r].size = Len(m)
        /\ \A q \in Record : q # r => ~rec[q].inUse
    BY <1>4
  <2>2. [rec |-> r, seq |-> 1, size |-> Len(m)] \in Entry
    BY InitialMapsAssumption, BoundAssumption DEF Entry, MapType
  <2>3. /\ index[n].rec = r /\ index[n].size = Len(m) /\ Live = {n}
    BY <1>4, <2>2, NoneAssumption DEF Live
  <2>4. InUse = {r} /\ Named = {r} /\ Owned = ClustersOf(m)
    BY <2>1, <2>3 DEF InUse, Named, Owned, Mapped
  <2> QED BY <1>1, <1>2, <1>4, <2>1, <2>3, <2>4 DEF CalmInv, CalmBits, CalmRecords, CalmSizes, Creating
<1> QED BY <1>3, <1>4 DEF Init

\* Every step keeps the invariant of undisturbed calls.
LEMMA CalmStep == SafeInv /\ CalmInv /\ [Next]_vars => CalmInv'
<1> SUFFICES ASSUME SafeInv, CalmInv, [Next]_vars, Undisturbed' PROVE
      CalmBits' /\ CalmRecords' /\ CalmSizes' /\ CalmFlag' /\ CalmUndo'
  BY DEF CalmInv
<1> QED BY CalmBitsStep, CalmRecordsStep, CalmSizesStep, CalmFlagStep, CalmUndoStep

\* Both invariants hold on every volume.
LEMMA CalmInvariant == Spec => [](SafeInv /\ CalmInv)
<1>1. Init => CalmInv
  BY CalmInit
<1>2. SafeInv /\ CalmInv /\ [Next]_vars => CalmInv'
  BY CalmStep
<1> QED BY <1>1, <1>2, SafeInvariant, PTL DEF Spec

\* Between calls nothing is in hand, so the parts of the invariant are those of
\* a consistent volume.
LEMMA CalmAtRest ==
  ASSUME SafeInv, CalmInv, Undisturbed
  PROVE  ConsistentAtRest /\ CleanFlagTruthful
<1>c. CalmBits /\ CalmRecords /\ CalmSizes /\ CalmFlag
  BY DEF CalmInv
<1>1. ASSUME pc = "idle" PROVE Consistent
  <2>1. freed = {} /\ log = {} /\ Vacant = {} /\ Unnamed = {}
    BY <1>1 DEF SafeInv, LocalsInv, Freeing, Writing, Vacant, Unnamed, CurAt
  <2>2. bitmapDisk = Owned /\ mftBitmap = InUse /\ InUse = Named
    BY <1>c, <2>1 DEF CalmBits, CalmRecords
  <2>3. NoSharing /\ EntriesResolve
    BY DEF SafeInv, ClusterInv, EntryInv, Undisturbed
  <2>4. OneNameEach
    BY <2>2 DEF SafeInv, EntryInv, Undisturbed, OneNameEach, Named
  <2>5. SizesAgree
    BY <1>1, <1>c DEF SizesAgree, CalmSizes
  <2> QED BY <2>2, <2>3, <2>4, <2>5 DEF Consistent
<1>2. ConsistentAtRest
  BY <1>1 DEF ConsistentAtRest, SafeInv, LocalsInv
<1>3. CleanFlagTruthful
  BY <1>1, <1>c DEF CleanFlagTruthful, CalmFlag
<1> QED BY <1>2, <1>3

\* As long as there has been no crash, no failed write and no truncation
\* refused halfway: between two calls the volume would pass chkdsk and the
\* mirror of $Bitmap is exact, and a volume not flagged dirty is consistent
\* even while a call runs.
THEOREM UndisturbedConsistent ==
  Spec => [](Undisturbed => ConsistentAtRest /\ CleanFlagTruthful)
<1>1. SafeInv /\ CalmInv => (Undisturbed => ConsistentAtRest /\ CleanFlagTruthful)
  BY CalmAtRest
<1> QED BY <1>1, CalmInvariant, PTL

\* ... and up to then a call that is refused has changed nothing that a reader
\* of the volume sees.
THEOREM UndisturbedRefusal ==
  Spec => [][(Undisturbed' /\ pc # "idle" /\ pc' = "idle" /\ status' = "refused")
               => View' = before]_vars
<1>1. SafeInv /\ CalmInv /\ [Next]_vars =>
        [(Undisturbed' /\ pc # "idle" /\ pc' = "idle" /\ status' = "refused")
           => View' = before]_vars
  BY RefusalStep
<1> QED BY <1>1, CalmInvariant, PTL DEF Spec

\* On a calm volume nothing ever disturbs a call.
LEMMA CalmUndisturbed ==
  ASSUME Calm
  PROVE  Spec => []Undisturbed
<1>1. Init => Undisturbed /\ NoHoles
  <2> SUFFICES ASSUME Init PROVE Undisturbed /\ NoHoles
    OBVIOUS
  <2>1. ~Sparse(FreeRecord.map)
    BY FreeRecordLemma DEF Sparse
  <2>2. CASE rec = [r \in Record |-> FreeRecord]
    BY <2>1, <2>2 DEF Init, Undisturbed, NoHoles
  <2>3. ASSUME NEW r \in Record, NEW m \in InitialMaps,
               rec = [q \in Record |->
                        IF q = r THEN [inUse |-> TRUE, seq |-> 1, resident |-> FALSE,
                                       map |-> m, size |-> Len(m)]
                        ELSE FreeRecord]
        PROVE  Undisturbed /\ NoHoles
    <3>1. rec[r].map = m /\ \A q \in Record : q # r => rec[q] = FreeRecord
      BY <2>3
    <3>2. \A q \in Record : ~Sparse(rec[q].map)
      BY <3>1, <2>1 DEF Calm
    <3> QED BY <2>1, <3>2 DEF Init, Undisturbed, NoHoles
  <2> QED BY <2>2, <2>3 DEF Init
<1>2. ASSUME TypeInv, Undisturbed, NoHoles, [Next]_vars PROVE Undisturbed'
  <2>0. MaxCrashes = 0 /\ MaxFaults = 0 /\ crashes = 0 /\ faults = 0 /\ damage = {} /\ ~Sparse(img.map)
    BY <1>2 DEF Calm, Undisturbed, NoHoles
  <2>f. ~Fault /\ ~Crash /\ ~ShrinkRefused /\ ~CreateCommitFails
    BY <2>0 DEF Fault, Crash, ShrinkRefused, CreateCommitFails
  <2>1. ASSUME NEW n \in Name, CreateBegin(n) PROVE Undisturbed'
    BY <2>1, <2>0, <2>f DEF Undisturbed, CreateBegin, Start, MarkDirty, NoFault
  <2>2. ASSUME NEW n \in Name, DeleteBegin(n) PROVE Undisturbed'
    BY <2>2, <2>0, <2>f DEF Undisturbed, DeleteBegin, Start, MarkDirty, NoFault
  <2>3. ASSUME NEW n \in Name, DeleteStale(n) PROVE Undisturbed'
    BY <2>3, <2>0, <2>f DEF Undisturbed, DeleteStale, Return, Quiet, MarkDirty, NoFault
  <2>4. ASSUME NEW n \in Name, NEW k \in 0..MaxSize, WriteBegin(n, k) PROVE Undisturbed'
    BY <2>4, <2>0, <2>f DEF Undisturbed, WriteBegin, Start, MarkDirty, NoFault
  <2>5. ASSUME NEW n \in Name, NEW k \in 0..MaxSize, TruncateBegin(n, k) PROVE Undisturbed'
    BY <2>5, <2>0, <2>f DEF Undisturbed, TruncateBegin, Shrink, Start, MarkDirty, NoFault
  <2>6. ASSUME NEW r \in Record, CloseTrim(r) PROVE Undisturbed'
    BY <2>6, <2>0, <2>f DEF Undisturbed, CloseTrim, Shrink, Start, MarkDirty, NoFault
  <2>7. ASSUME NEW r \in Record, CloseNoSlack(r) PROVE Undisturbed'
    BY <2>7, <2>0, <2>f DEF Undisturbed, CloseNoSlack, Return, Quiet, disk
  <2>8. CASE CreateAllocRecord
    BY <2>8, <2>0, <2>f DEF Undisturbed, CreateAllocRecord, memory, history
  <2>9. CASE CreateNoRecord
    BY <2>9, <2>0, <2>f DEF Undisturbed, CreateNoRecord, Return, Quiet, NoFault, disk, memory
  <2>10. CASE CreateWriteRecord
    BY <2>10, <2>0, <2>f DEF Undisturbed, CreateWriteRecord, memory, locals, history
  <2>11. CASE CreateWriteRecordFails
    BY <2>11, <2>0, <2>f DEF Undisturbed, CreateWriteRecordFails, disk, memory, locals
  <2>12. CASE CreateInsert
    BY <2>12, <2>0, <2>f DEF Undisturbed, CreateInsert, Return, Quiet, memory
  <2>13. CASE CreateInsertRefused
    BY <2>13, <2>0, <2>f DEF Undisturbed, CreateInsertRefused, disk, memory, locals, history
  <2>15. CASE CreateUndoRecord
    BY <2>15, <2>0, <2>f DEF Undisturbed, CreateUndoRecord, memory, locals
  <2>16. CASE CreateUndoBit
    BY <2>16, <2>0, <2>f DEF Undisturbed, CreateUndoBit, Return, FreeBit, Quiet, NoFault, memory
  <2>17. CASE DeleteUnlink
    BY <2>17, <2>0, <2>f DEF Undisturbed, DeleteUnlink, memory, history
  <2>18. CASE DeleteUnlinkRefused
    BY <2>18, <2>0, <2>f DEF Undisturbed, DeleteUnlinkRefused, Return, Quiet, disk, memory
  <2>19. CASE DeleteFree
    BY <2>19, <2>0, <2>f DEF Undisturbed, DeleteFree, FreeRunOf
  <2>20. CASE DeleteClearRecord
    BY <2>20, <2>0, <2>f DEF Undisturbed, DeleteClearRecord, memory, locals
  <2>21. CASE DeleteClearBit
    BY <2>21, <2>0, <2>f DEF Undisturbed, DeleteClearBit, Return, FreeBit, Quiet, NoFault, memory
  <2>22. CASE WriteAlloc
    BY <2>22, <2>0, <2>f DEF Undisturbed, WriteAlloc, history
  <2>23. CASE WriteGiveUp
    BY <2>23, <2>0, <2>f DEF Undisturbed, WriteGiveUp, disk, memory, locals, history
  <2>24. CASE WriteAllocated
    BY <2>24, <2>0, <2>f DEF Undisturbed, WriteAllocated, disk, locals, history
  <2>25. CASE WriteUndo
    BY <2>25, <2>0, <2>f DEF Undisturbed, WriteUndo, FreeRunOf, history
  <2>26. CASE WriteRefused
    BY <2>26, <2>0, <2>f DEF Undisturbed, WriteRefused, Return, Quiet, disk, memory
  <2>27. CASE WriteRecord
    BY <2>27, <2>0, <2>f DEF Undisturbed, WriteRecord, Return, Quiet, memory
  <2>28. CASE ShrinkFree
    BY <2>28, <2>0, <2>f DEF Undisturbed, ShrinkFree, FreeRunOf
  <2>30. CASE ShrinkRecord
    BY <2>30, <2>0, <2>f DEF Undisturbed, ShrinkRecord, Return, Torn, Quiet, memory, locals
  <2>31. CASE Sync
    BY <2>31, <2>0, <2>f DEF Undisturbed, Sync, Return, Quiet, NoFault, memory
  <2>32. CASE Unmount
    BY <2>32, <2>0, <2>f DEF Undisturbed, Unmount, NoFault, locals
  <2>33. CASE Mount
    BY <2>33, <2>0, <2>f DEF Undisturbed, Mount, disk, locals, history
  <2>35. CASE UNCHANGED vars
    BY <2>35, <2>0, <2>f DEF Undisturbed, vars, disk, memory, locals, history
  <2> QED
    BY <1>2, <2>f, <2>1, <2>2, <2>3, <2>4, <2>5, <2>6, <2>7, <2>8, <2>9, <2>10, <2>11, <2>12, <2>13, <2>15, <2>16, <2>17, <2>18, <2>19, <2>20, <2>21, <2>22, <2>23, <2>24, <2>25, <2>26, <2>27, <2>28, <2>30, <2>31, <2>32, <2>33, <2>35
    DEF Next, Call, Handler
<1>3. TypeInv /\ Undisturbed /\ NoHoles /\ [Next]_vars => (Undisturbed /\ NoHoles)'
  BY <1>2, NoHolesStep
<1>4. TypeInv /\ [Next]_vars => TypeInv'
  BY TypeStep
<1>5. Init => TypeInv
  BY TypeInit
<1> QED BY <1>1, <1>3, <1>4, <1>5, PTL DEF Spec

\* On a calm volume every call, successful or refused, leaves the volume
\* consistent and the mirror of $Bitmap exact.
THEOREM CalmConsistentAtRest == Calm => (Spec => []ConsistentAtRest)
<1> SUFFICES ASSUME Calm PROVE Spec => []ConsistentAtRest
  OBVIOUS
<1>1. Spec => []Undisturbed
  BY CalmUndisturbed
<1> QED BY <1>1, UndisturbedConsistent, PTL

\* ... the dirty flag is on disk before the first change of a mount ...
THEOREM CalmCleanFlagTruthful == Calm => (Spec => []CleanFlagTruthful)
<1> SUFFICES ASSUME Calm PROVE Spec => []CleanFlagTruthful
  OBVIOUS
<1>1. Spec => []Undisturbed
  BY CalmUndisturbed
<1> QED BY <1>1, UndisturbedConsistent, PTL

\* ... and a refused call has undone all it did.
THEOREM CalmRefusalChangesNothing == Calm => (Spec => RefusalChangesNothing)
<1> SUFFICES ASSUME Calm PROVE Spec => RefusalChangesNothing
  OBVIOUS
<1>1. Spec => []Undisturbed
  BY CalmUndisturbed
<1>2. SafeInv /\ CalmInv /\ Undisturbed' /\ [Next]_vars =>
        [(pc # "idle" /\ pc' = "idle" /\ status' = "refused") => View' = before]_vars
  BY RefusalStep
<1> QED BY <1>1, <1>2, CalmInvariant, PTL DEF Spec, RefusalChangesNothing

(***************************************************************************)
(* The handlers use the allocator as ClusterSpace says.  The clusters that *)
(* somebody holds are those marked in $Bitmap, so it is enough to see how  *)
(* $Bitmap moves.                                                          *)
(***************************************************************************)

\* While nothing goes wrong, a cluster has one holder if it is marked and
\* none if it is not.
LEMMA HoldersLemma ==
  ASSUME SafeInv, CalmInv, Undisturbed
  PROVE  Holders = [c \in Cluster |-> IF c \in bitmapDisk THEN 1 ELSE 0]
<1>c. /\ bitmapDisk = (Owned \ freed) \cup log
      /\ NoSharing /\ log \cap Owned = {}
      /\ pc = "de_free" => Mapped(cur) = todo \cup freed
      /\ pc = "sh_free" => freed \subseteq Mapped(cur)
      /\ pc \notin {"de_free", "sh_free"} => freed = {}
      /\ cur \in Record \/ freed = {}
  BY DEF CalmInv, CalmBits, SafeInv, ClusterInv, LocalsInv, Freeing, Undisturbed, TypeInv, InHand
<1>1. freed \subseteq Mapped(cur) \/ freed = {}
  BY <1>c
<1> SUFFICES ASSUME NEW c \in Cluster
             PROVE  Holders[c] = IF c \in bitmapDisk THEN 1 ELSE 0
  BY DEF Holders
<1> DEFINE H == {r \in Record : c \in Mapped(r) \ (IF r = cur THEN freed ELSE {})}
<1>2. Holders[c] = Cardinality(H) + IF c \in log THEN 1 ELSE 0
  BY DEF Holders
<1>3. H # {} <=> c \in Owned \ freed
  <2>1. ASSUME NEW r \in H PROVE c \in Owned \ freed
    <3>1. c \in Mapped(r) /\ r \in Record /\ (r = cur => c \notin freed)
      OBVIOUS
    <3>2. c \notin freed
      BY <1>c, <1>1, <3>1 DEF NoSharing
    <3> QED BY <3>1, <3>2 DEF Owned
  <2>2. ASSUME c \in Owned \ freed PROVE H # {}
    BY <2>2 DEF Owned
  <2> QED BY <2>1, <2>2
<1>4. \A r, s \in H : r = s
  BY <1>c DEF NoSharing
<1>5. Cardinality(H) = IF c \in Owned \ freed THEN 1 ELSE 0
  <2>1. CASE H = {}
    BY <2>1, <1>3, FS_EmptySet
  <2>2. ASSUME NEW r \in H PROVE H = {r} /\ Cardinality(H) = 1 /\ c \in Owned \ freed
    <3> HIDE DEF H
    <3>1. H = {r}
      BY <2>2, <1>4
    <3>2. Cardinality({r}) = 1
      BY FS_Singleton
    <3> QED BY <2>2, <3>1, <3>2, <1>3
  <2> HIDE DEF H
  <2> QED BY <2>1, <2>2
<1> HIDE DEF H
<1> QED BY <1>2, <1>5, <1>c

\* One step marks a run of free clusters, clears a run of marked ones, or
\* leaves $Bitmap alone.
Marks(start, k) ==
  /\ start \in Nat /\ k \in Nat \ {0} /\ Run(start, k) \subseteq Cluster \ bitmapDisk
  /\ bitmapDisk' = bitmapDisk \cup Run(start, k)
Clears(start, k) ==
  /\ start \in Nat /\ k \in Nat \ {0} /\ Run(start, k) \subseteq Cluster \cap bitmapDisk
  /\ bitmapDisk' = bitmapDisk \ Run(start, k)

\* Giving back one of the runs of a set of marked clusters clears a run.
LEMMA ClearsLemma ==
  ASSUME NEW S, S \subseteq Cluster, S \subseteq bitmapDisk,
         NEW run \in Runs(S), FreeRunOf(S, run)
  PROVE  \E start, k : Clears(start, k)
<1>1. PICK start \in S, k \in 1..Cardinality(S) : run = Run(start, k)
  BY DEF Runs
<1>2. start \in Nat /\ k \in Nat \ {0}
  BY <1>1, ClusterAssumption
<1>3. Run(start, k) \subseteq Cluster \cap bitmapDisk /\ bitmapDisk' = bitmapDisk \ Run(start, k)
  BY <1>1 DEF FreeRunOf
<1> QED BY <1>2, <1>3 DEF Clears

\* Which of the three a step does.
LEMMA BitmapMoves ==
  ASSUME SafeInv, CalmInv, [Next]_vars, Undisturbed'
  PROVE  \/ bitmapDisk' = bitmapDisk
         \/ \E start, k : Marks(start, k)
         \/ \E start, k : Clears(start, k)
<1>u. Undisturbed /\ ~Fault /\ ~Crash
  BY UndisturbedStep DEF SafeInv
<1>c. /\ bitmapDisk = (Owned \ freed) \cup log /\ todo \cap freed = {}
      /\ pc = "de_free" => Mapped(cur) = todo \cup freed
      /\ pc = "sh_free" => todo \subseteq Mapped(cur)
      /\ pc \in {"de_free", "sh_free"} => cur \in Record
      /\ todo \subseteq Cluster /\ log \subseteq Cluster
      /\ pc = "wr_alloc" => bitmap = bitmapDisk
  BY <1>u DEF CalmInv, CalmBits, SafeInv, ClusterInv, LocalsInv, Undisturbed, TypeInv, TypeOK,
              HandlerType, InHand
<1>1. CASE WriteAlloc
  <2>1. PICK start \in Cluster, k \in 1..left :
           Run(start, k) \subseteq Cluster \ bitmap /\ bitmapDisk' = bitmapDisk \cup Run(start, k)
    BY <1>1 DEF WriteAlloc
  <2>2. start \in Nat /\ k \in Nat \ {0} /\ bitmap = bitmapDisk
    BY <1>1, <1>c, <2>1, ClusterAssumption DEF WriteAlloc
  <2>3. Marks(start, k)
    BY <2>1, <2>2 DEF Marks
  <2> QED BY <2>3
<1>2. CASE DeleteFree \/ ShrinkFree
  <2>1. PICK run \in Runs(todo) : FreeRunOf(todo, run)
    BY <1>2 DEF DeleteFree, ShrinkFree
  <2>2. Mapped(cur) \subseteq Owned /\ todo \subseteq Mapped(cur)
    BY <1>2, <1>c DEF DeleteFree, ShrinkFree, Owned
  <2> QED BY <1>c, <2>1, <2>2, ClearsLemma
<1>3. CASE WriteUndo
  <2>1. PICK run \in Runs(log) : FreeRunOf(log, run)
    BY <1>3 DEF WriteUndo
  <2> QED BY <1>c, <2>1, ClearsLemma
<1>4. CASE Call
  BY <1>4 DEF Call, CreateBegin, DeleteBegin, DeleteStale, WriteBegin, TruncateBegin, CloseTrim,
              CloseNoSlack, disk
<1>5. CASE Unmount \/ Mount
  BY <1>5 DEF Unmount, Mount, disk
<1>6. CASE \/ CreateAllocRecord \/ CreateNoRecord \/ CreateWriteRecord
           \/ CreateWriteRecordFails \/ CreateInsert \/ CreateInsertRefused
           \/ CreateCommitFails \/ CreateUndoRecord \/ CreateUndoBit
           \/ DeleteUnlink \/ DeleteUnlinkRefused \/ DeleteClearRecord \/ DeleteClearBit
           \/ WriteGiveUp \/ WriteAllocated \/ WriteRefused \/ WriteRecord
           \/ ShrinkRefused \/ ShrinkRecord \/ Sync
  BY <1>6 DEF CreateAllocRecord, CreateNoRecord, CreateWriteRecord, CreateWriteRecordFails,
     CreateInsert, CreateInsertRefused, CreateCommitFails, CreateUndoRecord, CreateUndoBit,
     DeleteUnlink, DeleteUnlinkRefused, DeleteClearRecord, DeleteClearBit,
     WriteGiveUp, WriteAllocated, WriteRefused, WriteRecord,
     ShrinkRefused, ShrinkRecord, Sync, disk
<1>7. CASE UNCHANGED vars
  BY <1>7 DEF vars, disk
<1> QED
  BY <1>u, <1>1, <1>2, <1>3, <1>4, <1>5, <1>6, <1>7 DEF Next, Handler

\* A run of clusters is a run in the sense of ClusterSpace.
LEMMA RunIsRun ==
  ASSUME NEW start \in Nat, NEW k \in Nat \ {0}
  PROVE  Space!IsRun(Run(start, k))
<1>1. start \in Run(start, k)
  BY DEF Run
<1>2. \A a, b \in Run(start, k) : \A c \in Cluster : a <= c /\ c <= b => c \in Run(start, k)
  BY ClusterAssumption DEF Run
<1> QED BY <1>1, <1>2 DEF Space!IsRun

Marked == Holders = [c \in Cluster |-> IF c \in bitmapDisk THEN 1 ELSE 0]

\* Every step is a grant, a release, or none of the allocator's business.
LEMMA SpaceStep ==
  ASSUME SafeInv, CalmInv, [Next]_vars, Undisturbed', Marked, Marked'
  PROVE  [Space!Next]_Holders
<1>1. \A c \in Cluster : Holders[c] = IF c \in bitmapDisk THEN 1 ELSE 0
  BY DEF Marked
<1>2. \A c \in Cluster : Holders'[c] = IF c \in bitmapDisk' THEN 1 ELSE 0
  BY DEF Marked
<1>3. Holders' \in [Cluster -> 0..1]
  BY DEF Marked
<1>4. CASE bitmapDisk' = bitmapDisk
  <2>1. Holders' = Holders
    BY <1>4 DEF Marked
  <2> QED BY <2>1
<1>5. ASSUME NEW start, NEW k, Marks(start, k) PROVE Space!Grant
  <2>1. Space!Moved = Run(start, k)
    BY <1>1, <1>2, <1>5 DEF Space!Moved, Marks
  <2>2. \A c \in Space!Moved : Holders[c] = 0
    BY <1>1, <1>5, <2>1 DEF Marks
  <2>3. Space!IsRun(Run(start, k))
    BY <1>5, RunIsRun DEF Marks
  <2> QED BY <1>3, <2>1, <2>2, <2>3 DEF Space!Grant
<1>6. ASSUME NEW start, NEW k, Clears(start, k) PROVE Space!Release
  <2>1. Space!Moved = Run(start, k)
    BY <1>1, <1>2, <1>6 DEF Space!Moved, Clears
  <2>2. \A c \in Space!Moved : Holders[c] = 1
    BY <1>1, <1>6, <2>1 DEF Clears
  <2>3. Space!IsRun(Run(start, k))
    BY <1>6, RunIsRun DEF Clears
  <2> QED BY <1>3, <2>1, <2>2, <2>3 DEF Space!Release
<1> QED BY <1>4, <1>5, <1>6, BitmapMoves DEF Space!Next

\* On a calm volume all the handlers together, and the mounts between them, use
\* the allocator as ClusterSpace says.
THEOREM CalmUsesClusterSpace == Calm => (Spec => UsesClusterSpace)
<1> SUFFICES ASSUME Calm PROVE Spec => UsesClusterSpace
  OBVIOUS
<1>1. Spec => []Undisturbed
  BY CalmUndisturbed
<1>2. SafeInv /\ CalmInv /\ Undisturbed => Marked
  BY HoldersLemma DEF Marked
<1>3. Marked => Space!Init
  BY DEF Marked, Space!Init
<1>4. SafeInv /\ CalmInv /\ [Next]_vars /\ Undisturbed' /\ Marked /\ Marked' => [Space!Next]_Holders
  BY SpaceStep
<1> QED BY <1>1, <1>2, <1>3, <1>4, CalmInvariant, PTL DEF Spec, UsesClusterSpace, Space!Spec

=============================================================================
