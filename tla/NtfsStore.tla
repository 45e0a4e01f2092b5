------------------------------ MODULE NtfsStore ------------------------------
(***************************************************************************)
(* The metadata of one mounted NTFS volume and the handlers of the driver  *)
(* that change it: create, delete, growing write, truncate, close (which   *)
(* trims the preallocation) and the mount life cycle.                      *)
(*                                                                         *)
(* There is no journal, so what matters is the ORDER of the disk writes    *)
(* inside a handler.  Every action below performs at most one of them, and *)
(* Crash may fall between any two.  The driver is single threaded (UEFI    *)
(* boot services), so one handler runs at a time: pc says where it is.     *)
(*                                                                         *)
(* Sizes are counted in clusters; a resident file has size 0.  A call of   *)
(* the allocator yields any free run of at most the requested length,      *)
(* which is what module ClusterSpace promises and NtfsBitmap implements.   *)
(* A file has one name and at most one open handle.                        *)
(***************************************************************************)
EXTENDS Naturals, Sequences, FiniteSets

CONSTANTS
  Cluster,      \* the volume's clusters, numbers
  Record,       \* the user records of the (fully grown) MFT
  Name,         \* names in the one directory modelled
  Hole,         \* a sparse cluster of a file (LBN = -1 in a run list)
  None,         \* no entry, no record, no name, no snapshot
  InitialMaps,  \* cluster maps a file already on the volume may have
  Quantum,      \* NTFS_WRITE_PREALLOC_BYTES, in clusters
  MaxSize,      \* bound: the largest file a caller asks for
  MaxSeq,       \* 65535 in the code: sequence numbers are 1..MaxSeq
  MaxCrashes,   \* bound on the number of crashes
  MaxFaults     \* bound on the number of disk writes that fail

ASSUME ClusterAssumption ==
  /\ Cluster \subseteq Nat
  /\ IsFiniteSet(Cluster)
  /\ Hole \notin Cluster
ASSUME BoundAssumption ==
  /\ Quantum \in Nat \ {0} /\ MaxSize \in Nat
  /\ MaxSeq \in Nat \ {0}
  /\ MaxCrashes \in Nat /\ MaxFaults \in Nat

MapType == Seq(Cluster \cup {Hole})

ASSUME InitialMapsAssumption == InitialMaps \subseteq MapType

(***************************************************************************)
(* An MFT record: FRH_IN_USE, SequenceNumber and the $DATA attribute (its  *)
(* cluster map in VCN order and its DataSize).  An index entry: the file   *)
(* reference and the copy of the size that NTFS keeps in the directory.    *)
(***************************************************************************)
FileRecord == [inUse : BOOLEAN, seq : 1..MaxSeq, resident : BOOLEAN,
               map : MapType, size : Nat]
Entry      == [rec : Record, seq : 1..MaxSeq, size : Nat]

ASSUME NoneAssumption == None \notin Record /\ None \notin Name /\ None \notin Entry

VARIABLES
  (* on disk *)
  bitmapDisk,   \* $Bitmap: allocated clusters
  mftBitmap,    \* $MFT:$BITMAP: records taken
  rec,          \* the records themselves
  index,        \* the directory's index
  dirty,        \* VOLUME_DIRTY in $Volume
  (* in memory: the VCB and the open handles *)
  mounted,
  bitmap,       \* Vcb->VolBitmap
  dirtySet,     \* Vcb->VolumeDirtySet
  grew,         \* records whose open handle has DidGrow set
  (* the handler that is running *)
  pc, cur, name,
  img,          \* its in-memory copy of cur's record
  left,         \* Remaining clusters to allocate
  log,          \* AllocLog: clusters allocated by this call
  todo,         \* clusters it still has to free
  (* history *)
  freed,        \* clusters it freed and cur's record on disk still maps
  before,       \* the volume as it was when the handler began
  status,       \* what the last handler told its caller
  damage,       \* kinds of damage a cut-off or failed write has left
  crashes, faults

disk    == <<bitmapDisk, mftBitmap, rec, index, dirty>>
memory  == <<mounted, bitmap, dirtySet, grew>>
locals  == <<cur, name, img, left, log, todo>>
history == <<freed, before, status, damage, crashes, faults>>
vars    == <<disk, memory, pc, locals, history>>

(***************************************************************************)
(* Vocabulary                                                              *)
(***************************************************************************)
ClustersOf(m) == {m[i] : i \in 1..Len(m)} \ {Hole}
Sparse(m)     == \E i \in 1..Len(m) : m[i] = Hole

Mapped(r)  == IF rec[r].inUse THEN ClustersOf(rec[r].map) ELSE {}
InUse      == {r \in Record : rec[r].inUse}
Live       == {n \in Name : index[n] # None}
\* Mutant: the wrap from 65535 to 1 is forgotten.
MutantNextSeq(s) == s + 1
NextSeq(s) == IF s = MaxSeq THEN 1 ELSE s + 1
Larger(a, b) == IF a >= b THEN a ELSE b

\* k clusters in a row, as a set and as a cluster map.
Run(start, k)   == start .. (start + k - 1)
RunMap(start, k) == [i \in 1..k |-> start + i - 1]

\* A slot never used before: its first file gets sequence number 1.
FreeRecord == [inUse |-> FALSE, seq |-> MaxSeq, resident |-> TRUE,
               map |-> <<>>, size |-> 0]

\* How a handler changes (its image of) a record.
NewFile(s)         == [FreeRecord EXCEPT !.inUse = TRUE, !.seq = NextSeq(s)]
Released(f)        == [f EXCEPT !.inUse = FALSE, !.seq = NextSeq(f.seq)]
Resized(f, m, len) == [f EXCEPT !.map = m, !.size = len]
NonResident(f)     == [f EXCEPT !.resident = FALSE]

\* What a reader of the volume sees; a free record has no content.
View == [bits  |-> bitmapDisk, mft |-> mftBitmap, index |-> index,
         files |-> [r \in Record |-> IF rec[r].inUse THEN rec[r] ELSE FreeRecord]]

PCs == {"idle", "cr_bit", "cr_rec", "cr_ins", "cr_undo", "cr_unbit",
        "de_unlink", "de_free", "de_bit", "wr_alloc", "wr_undo", "wr_rec",
        "sh_free", "sync"}
Damages == {"cluster", "record", "entry"}

(***************************************************************************)
(* The steps of a handler                                                  *)
(***************************************************************************)

\* The locals and the history of a handler that has returned.
Quiet ==
  /\ cur' = None /\ name' = None /\ img' = FreeRecord
  /\ left' = 0 /\ log' = {} /\ todo' = {} /\ freed' = {} /\ before' = None

Return(s) == pc' = "idle" /\ status' = s /\ Quiet

\* A handler starts on record r or name n: it has nothing in hand yet.
Start(step, r, n, image) ==
  /\ pc = "idle" /\ mounted
  /\ pc' = step /\ cur' = r /\ name' = n /\ img' = image
  /\ before' = View /\ status' = "none"
  /\ UNCHANGED <<freed, damage, crashes>>

NoFault == UNCHANGED faults

\* A disk write that does not happen.
Fault == faults < MaxFaults /\ faults' = faults + 1

(***************************************************************************)
(* NtfsMarkVolumeDirty: the first change of a mount sets VOLUME_DIRTY on   *)
(* disk.  It is best effort: VolumeDirtySet is set even if that fails.     *)
(***************************************************************************)
\* Mutant: only the flag in memory is set.
MutantMarkDirty == dirtySet' = TRUE /\ dirty' = dirty /\ NoFault

MarkDirty ==
  /\ dirtySet' = TRUE
  /\ \/ dirtySet  /\ dirty' = dirty /\ NoFault
     \/ ~dirtySet /\ dirty' = TRUE  /\ NoFault
     \/ ~dirtySet /\ dirty' = dirty /\ Fault

(***************************************************************************)
(* NtfsEfiCreateFile                                                       *)
(***************************************************************************)

\* NtfsEfiOpen creates only after a lookup has missed, so the handler's own
\* refusal of a name that exists is never taken.
CreateBegin(n) ==
  /\ Start("cr_bit", None, n, FreeRecord)
  /\ index[n] = None
  /\ MarkDirty
  /\ UNCHANGED <<bitmapDisk, mftBitmap, rec, index, mounted, bitmap, grew,
                 left, log, todo>>

\* NtfsEfiAllocateMftRecord: some clear bit of $MFT:$BITMAP is set.
CreateAllocRecord ==
  /\ pc = "cr_bit"
  /\ \E r \in Record \ mftBitmap :
       /\ mftBitmap' = mftBitmap \cup {r}
       /\ cur' = r
  /\ pc' = "cr_rec"
  /\ UNCHANGED <<bitmapDisk, rec, index, dirty, memory,
                 name, img, left, log, todo, history>>

\* No bit is clear, or setting it fails.
CreateNoRecord ==
  /\ pc = "cr_bit"
  /\ \/ Record \subseteq mftBitmap /\ NoFault
     \/ Fault
  /\ Return("refused")
  /\ UNCHANGED <<disk, memory, damage, crashes>>

\* NtfsCreateFileRecord: an empty resident file, under the slot's next
\* sequence number.
CreateWriteRecord ==
  /\ pc = "cr_rec"
  /\ rec' = [rec EXCEPT ![cur] = NewFile(rec[cur].seq)]
  /\ pc' = "cr_ins"
  /\ UNCHANGED <<bitmapDisk, mftBitmap, index, dirty, memory, locals, history>>

CreateWriteRecordFails ==
  /\ pc = "cr_rec"
  /\ Fault
  /\ pc' = "cr_unbit"
  /\ UNCHANGED <<disk, memory, locals, freed, before, status, damage, crashes>>

\* NtfsInsertIndexEntry and the write of the parent's record.
CreateInsert ==
  /\ pc = "cr_ins"
  /\ index' = [index EXCEPT ![name] = [rec |-> cur, seq |-> rec[cur].seq, size |-> 0]]
  /\ Return("ok")
  /\ UNCHANGED <<bitmapDisk, mftBitmap, rec, dirty, memory, damage, crashes, faults>>

\* The insertion is refused (no room in the tree) or its write fails.
CreateInsertRefused ==
  /\ pc = "cr_ins"
  /\ pc' = "cr_undo"
  /\ UNCHANGED <<disk, memory, locals, history>>

\* In a large directory the entry is in an index block already when the
\* write of the parent's record fails: the file is rolled back, the entry not.
CreateCommitFails ==
  /\ pc = "cr_ins"
  /\ Fault
  /\ index' = [index EXCEPT ![name] = [rec |-> cur, seq |-> rec[cur].seq, size |-> 0]]
  /\ damage' = damage \cup {"entry"}
  /\ pc' = "cr_undo"
  /\ UNCHANGED <<bitmapDisk, mftBitmap, rec, dirty, memory, locals,
                 freed, before, status, crashes>>

\* Mutant: a failed create gives the bitmap bit back, not the record.
MutantCreateUndoRecord ==
  /\ pc = "cr_undo" /\ pc' = "cr_unbit"
  /\ UNCHANGED <<disk, memory, locals, history>>

\* NtfsRollbackNewRecord, first half; its status is ignored.
CreateUndoRecord ==
  /\ pc = "cr_undo"
  /\ \/ /\ rec' = [rec EXCEPT ![cur] = Released(rec[cur])]
        /\ UNCHANGED <<damage, faults>>
     \/ /\ Fault
        /\ damage' = damage \cup {"record"}
        /\ UNCHANGED rec
  /\ pc' = "cr_unbit"
  /\ UNCHANGED <<bitmapDisk, mftBitmap, index, dirty, memory, locals,
                 freed, before, status, crashes>>

\* NtfsEfiFreeMftRecord; its status is ignored.
FreeBit ==
  \/ mftBitmap' = mftBitmap \ {cur} /\ NoFault
  \/ UNCHANGED mftBitmap /\ Fault

\* The end of both failure paths.
CreateUndoBit ==
  /\ pc = "cr_unbit"
  /\ FreeBit
  /\ Return("refused")
  /\ UNCHANGED <<bitmapDisk, rec, index, dirty, memory, damage, crashes>>

(***************************************************************************)
(* NtfsEfiDelete and NtfsEfiDeleteFile, of the file named n.  The handle   *)
(* is gone afterwards whatever happens, untrimmed.                         *)
(***************************************************************************)
DeleteBegin(n) ==
  /\ index[n] # None
  /\ LET r == index[n].rec
     IN  /\ Start("de_unlink", r, n, rec[r])
         /\ rec[r].inUse
         /\ grew' = grew \ {r}
  /\ MarkDirty
  /\ UNCHANGED <<bitmapDisk, mftBitmap, rec, index, mounted, bitmap,
                 left, log, todo>>

\* The record is free already: the entry was left by an earlier failure.
DeleteStale(n) ==
  /\ pc = "idle" /\ mounted
  /\ index[n] # None /\ ~rec[index[n].rec].inUse
  /\ grew' = grew \ {index[n].rec}
  /\ MarkDirty
  /\ Return("refused")
  /\ UNCHANGED <<bitmapDisk, mftBitmap, rec, index, mounted, bitmap,
                 damage, crashes>>

\* Step 1: NtfsRemoveOneDirEntryByChild, as long as an entry names the record,
\* whatever the entry's sequence number.
DeleteUnlink ==
  /\ pc = "de_unlink"
  /\ index' = [n \in Name |->
                 IF index[n] # None /\ index[n].rec = cur THEN None ELSE index[n]]
  /\ todo' = ClustersOf(img.map)
  /\ pc' = "de_free"
  /\ UNCHANGED <<bitmapDisk, mftBitmap, rec, dirty, memory,
                 cur, name, img, left, log, history>>

\* Mutant: the status of the unlink is ignored.
MutantDeleteUnlinkRefused ==
  /\ pc = "de_unlink"
  /\ todo' = ClustersOf(img.map) /\ pc' = "de_free"
  /\ UNCHANGED <<disk, memory, cur, name, img, left, log, history>>

\* Step 1 bails out (an index spread over records, a device error) before anything is freed.
DeleteUnlinkRefused ==
  /\ pc = "de_unlink"
  /\ Return("refused")
  /\ UNCHANGED <<disk, memory, damage, crashes, faults>>

\* NtfsEfiFreeClusters on one run of clusters out of S.
FreeRunOf(S, run) ==
  /\ run # {} /\ run \subseteq S
  /\ bitmap' = bitmap \ run
  /\ bitmapDisk' = bitmapDisk \ run

Runs(S) == {r \in {Run(start, k) : start \in S, k \in 1..Cardinality(S)} : r \subseteq S}

\* Mutant: the loop over the runs does not advance.
MutantDeleteFree ==
  /\ pc = "de_free"
  /\ \E run \in Runs(todo) : FreeRunOf(todo, run) /\ freed' = freed \cup run
  /\ UNCHANGED <<mftBitmap, rec, index, dirty, mounted, dirtySet, grew,
                 pc, locals, before, status, damage, crashes, faults>>

\* Step 2: NtfsFreeAllAttributeClusters, run by run.
DeleteFree ==
  /\ pc = "de_free"
  /\ \E run \in Runs(todo) :
       /\ FreeRunOf(todo, run)
       /\ todo' = todo \ run
       /\ freed' = freed \cup run
  /\ UNCHANGED <<mftBitmap, rec, index, dirty, mounted, dirtySet, grew,
                 pc, cur, name, img, left, log,
                 before, status, damage, crashes, faults>>

\* Step 3: the record is marked free; the status of the write is ignored.
DeleteClearRecord ==
  /\ pc = "de_free"
  /\ todo = {}
  /\ \/ /\ rec' = [rec EXCEPT ![cur] = Released(img)]
        /\ freed' = {}
        /\ UNCHANGED <<damage, faults>>
     \/ /\ Fault
        /\ damage' = damage \cup {"record"} \cup IF freed = {} THEN {} ELSE {"cluster"}
        /\ UNCHANGED <<rec, freed>>
  /\ pc' = "de_bit"
  /\ UNCHANGED <<bitmapDisk, mftBitmap, index, dirty, memory, locals,
                 before, status, crashes>>

\* Step 4.
DeleteClearBit ==
  /\ pc = "de_bit"
  /\ FreeBit
  /\ Return("ok")
  /\ UNCHANGED <<bitmapDisk, rec, index, dirty, memory, damage, crashes>>

(***************************************************************************)
(* NtfsEfiWrite that extends the file of record r to end clusters.  The    *)
(* payload is not modelled.  An allocated size that is too small is grown  *)
(* by at least Quantum clusters; the conversion of a resident file         *)
(* allocates likewise but insists on a single run.  Neither this handler   *)
(* nor the truncation below looks at FRH_IN_USE or the sequence number.    *)
(***************************************************************************)
WriteBegin(n, end) ==
  /\ index[n] # None
  /\ LET r == index[n].rec
         need == IF end > Len(rec[r].map) THEN Larger(end - Len(rec[r].map), Quantum) ELSE 0
     IN  /\ Start(IF need = 0 THEN "wr_rec" ELSE "wr_alloc", r, n,
                  Resized(rec[r], rec[r].map, end))
         /\ rec[r].size < end
         /\ left' = need
  /\ MarkDirty
  /\ UNCHANGED <<bitmapDisk, mftBitmap, rec, index, mounted, bitmap, grew,
                 log, todo>>

\* NtfsEfiAllocateClusters hands out a run of at most left clusters and
\* NtfsAppendRunToAttr puts it at the end of the image's cluster map, which
\* must have no hole.
WriteAlloc ==
  /\ pc = "wr_alloc"
  /\ left > 0 /\ ~Sparse(img.map)
  /\ \E start \in Cluster, k \in 1..left :
       /\ Run(start, k) \subseteq Cluster \ bitmap
       /\ bitmap' = bitmap \cup Run(start, k)
       /\ bitmapDisk' = bitmapDisk \cup Run(start, k)
       /\ log' = log \cup Run(start, k)
       /\ img' = Resized(img, img.map \o RunMap(start, k), img.size)
       /\ left' = left - k
       /\ pc' = IF img.resident /\ k < left THEN "wr_undo" ELSE "wr_alloc"
  /\ UNCHANGED <<mftBitmap, rec, index, dirty, mounted, dirtySet, grew,
                 cur, name, todo, history>>

\* The loop ends early: the volume is full or the map has a hole (no other step
\* is possible then), the run list is at NTFS_MAX_RUNS, the record has no room
\* for the run just allocated, or the new clusters cannot be zeroed.
WriteGiveUp ==
  /\ pc = "wr_alloc"
  /\ pc' = "wr_undo"
  /\ UNCHANGED <<disk, memory, locals, history>>

\* Everything is allocated.  Only the growth of a non-resident file sets
\* DidGrow, so Close does not trim a file that was just converted.
WriteAllocated ==
  /\ pc = "wr_alloc"
  /\ left = 0
  /\ grew' = IF img.resident THEN grew ELSE grew \cup {cur}
  /\ pc' = "wr_rec"
  /\ UNCHANGED <<disk, mounted, bitmap, dirtySet, locals, history>>

\* Mutant: only one run of the call's allocation log is given back.
MutantWriteUndo ==
  /\ pc = "wr_undo"
  /\ \E run \in Runs(log) : FreeRunOf(log, run)
  /\ log' = {}
  /\ UNCHANGED <<mftBitmap, rec, index, dirty, mounted, dirtySet, grew,
                 pc, cur, name, img, left, todo, history>>

\* Roll back every cluster allocated in this call, run by run.
WriteUndo ==
  /\ pc = "wr_undo"
  /\ \E run \in Runs(log) :
       /\ FreeRunOf(log, run)
       /\ log' = log \ run
  /\ UNCHANGED <<mftBitmap, rec, index, dirty, mounted, dirtySet, grew,
                 pc, cur, name, img, left, todo, history>>

WriteRefused ==
  /\ pc = "wr_undo"
  /\ log = {}
  /\ Return("refused")
  /\ UNCHANGED <<disk, memory, damage, crashes, faults>>

\* NtfsEfiWriteFileRecord with the new sizes and map.  When it fails the
\* clusters of this call stay allocated.
WriteRecord ==
  /\ pc = "wr_rec"
  /\ \/ /\ rec' = [rec EXCEPT ![cur] = NonResident(img)]
        /\ pc' = "sync" /\ log' = {}
        /\ UNCHANGED <<cur, name, img, left, todo, freed, before, status, faults>>
     \/ /\ Fault
        /\ Return("refused")
        /\ UNCHANGED rec
  /\ UNCHANGED <<bitmapDisk, mftBitmap, index, dirty, memory, damage, crashes>>

(***************************************************************************)
(* NtfsEfiSetFileSize to keep clusters, and NtfsEfiTrimAllocation, called  *)
(* by NtfsEfiClose on a handle that grew the file.  Both call              *)
(* NtfsShrinkNonResidentRuns and then write the record.                    *)
(***************************************************************************)
Shrink(r, n, keep) ==
  /\ Start("sh_free", r, n, Resized(rec[r], SubSeq(rec[r].map, 1, keep), keep))
  /\ todo' = ClustersOf(SubSeq(rec[r].map, keep + 1, Len(rec[r].map)))

TruncateBegin(n, keep) ==
  /\ index[n] # None
  /\ LET r == index[n].rec
     IN  /\ keep < rec[r].size
         /\ Shrink(r, n, keep)
  /\ MarkDirty
  /\ UNCHANGED <<bitmapDisk, mftBitmap, rec, index, mounted, bitmap, grew, left, log>>

CloseTrim(r) ==
  /\ r \in grew
  /\ ~rec[r].resident /\ rec[r].size < Len(rec[r].map)
  /\ Shrink(r, None, rec[r].size)
  /\ grew' = grew \ {r}
  /\ MarkDirty
  /\ UNCHANGED <<bitmapDisk, mftBitmap, rec, index, mounted, bitmap, left, log>>

\* Close finds no slack to trim.
CloseNoSlack(r) ==
  /\ pc = "idle" /\ mounted
  /\ r \in grew
  /\ rec[r].resident \/ rec[r].size >= Len(rec[r].map)
  /\ grew' = grew \ {r}
  /\ Return("ok")
  /\ UNCHANGED <<disk, mounted, bitmap, dirtySet, damage, crashes, faults>>

\* The runs at or beyond the cut are freed first ...
ShrinkFree ==
  /\ pc = "sh_free"
  /\ \E run \in Runs(todo) :
       /\ FreeRunOf(todo, run)
       /\ todo' = todo \ run
       /\ freed' = freed \cup run
  /\ UNCHANGED <<mftBitmap, rec, index, dirty, mounted, dirtySet, grew,
                 pc, cur, name, img, left, log,
                 before, status, damage, crashes, faults>>

Torn == IF freed = {} THEN {} ELSE {"cluster"}

\* ... then the surviving runs are encoded again, which is refused if one of
\* them is sparse (EFI_UNSUPPORTED) ...
ShrinkRefused ==
  /\ pc = "sh_free" /\ todo = {}
  /\ Sparse(img.map)
  /\ damage' = damage \cup Torn
  /\ Return("refused")
  /\ UNCHANGED <<disk, memory, crashes, faults>>

\* ... and only then the record is written.
ShrinkRecord ==
  /\ pc = "sh_free" /\ todo = {}
  /\ ~Sparse(img.map)
  /\ \/ /\ rec' = [rec EXCEPT ![cur] = img]
        /\ pc' = "sync" /\ freed' = {}
        /\ UNCHANGED <<locals, before, status, damage, faults>>
     \/ /\ Fault
        /\ damage' = damage \cup Torn
        /\ Return("refused")
        /\ UNCHANGED rec
  /\ UNCHANGED <<bitmapDisk, mftBitmap, index, dirty, memory, crashes>>

(***************************************************************************)
(* NtfsSyncParentIndexEntrySize, NtfsPatchParentIndexEntry: the copy of    *)
(* the size in the directory, in the first entry found that names the      *)
(* record.  Best effort: its failure is ignored.                           *)
(***************************************************************************)
Sync ==
  /\ pc = "sync"
  /\ \/ /\ \E n \in Live : /\ index[n].rec = cur
                           /\ index' = [index EXCEPT ![n].size = img.size]
        /\ NoFault
     \/ (\A n \in Live : index[n].rec # cur) /\ UNCHANGED index /\ NoFault
     \/ UNCHANGED index /\ Fault
  /\ Return("ok")
  /\ UNCHANGED <<bitmapDisk, mftBitmap, rec, dirty, memory, damage, crashes>>

(***************************************************************************)
(* The mount life cycle                                                    *)
(***************************************************************************)

\* NtfsEfiUnmountVolume.  Open handles die with it, untrimmed.
Unmount ==
  /\ pc = "idle" /\ mounted
  /\ \/ dirty' = (dirty /\ ~dirtySet) /\ NoFault
     \/ dirtySet /\ UNCHANGED dirty /\ Fault
  /\ mounted' = FALSE /\ dirtySet' = FALSE /\ grew' = {} /\ bitmap' = {}
  /\ UNCHANGED <<bitmapDisk, mftBitmap, rec, index, pc, locals,
                 freed, before, status, damage, crashes>>

\* Mutant: the mirror starts empty.
MutantMount ==
  /\ pc = "idle" /\ ~mounted
  /\ mounted' = TRUE /\ dirtySet' = FALSE /\ grew' = {} /\ bitmap' = {}
  /\ UNCHANGED <<disk, pc, locals, history>>

\* NtfsEfiMountVolume seeds the mirror of $Bitmap from the disk.
Mount ==
  /\ pc = "idle" /\ ~mounted
  /\ mounted' = TRUE /\ dirtySet' = FALSE /\ grew' = {}
  /\ bitmap' = bitmapDisk
  /\ UNCHANGED <<disk, pc, locals, history>>

\* Power is lost: memory is gone, the disk keeps what was written so far.
Crash ==
  /\ mounted /\ crashes < MaxCrashes
  /\ crashes' = crashes + 1
  /\ damage' = damage \cup Torn
  /\ mounted' = FALSE /\ dirtySet' = FALSE /\ grew' = {} /\ bitmap' = {}
  /\ pc' = "idle" /\ status' = "none" /\ Quiet
  /\ UNCHANGED <<disk, faults>>

(***************************************************************************)
(* Specification                                                           *)
(***************************************************************************)
NoRepeat(m) == \A i, j \in 1..Len(m) : i # j /\ m[i] = m[j] => m[i] = Hole

\* A clean volume, empty or with one file written by another system.
Init ==
  /\ \/ /\ bitmapDisk = {} /\ mftBitmap = {}
        /\ rec = [r \in Record |-> FreeRecord]
        /\ index = [n \in Name |-> None]
     \/ \E r \in Record, n \in Name, m \in InitialMaps :
          /\ NoRepeat(m)
          /\ bitmapDisk = ClustersOf(m) /\ mftBitmap = {r}
          /\ rec = [q \in Record |->
                      IF q = r THEN [inUse |-> TRUE, seq |-> 1, resident |-> FALSE,
                                     map |-> m, size |-> Len(m)]
                      ELSE FreeRecord]
          /\ index = [q \in Name |->
                        IF q = n THEN [rec |-> r, seq |-> 1, size |-> Len(m)] ELSE None]
  /\ dirty = FALSE
  /\ mounted = FALSE /\ bitmap = {} /\ dirtySet = FALSE /\ grew = {}
  /\ pc = "idle" /\ cur = None /\ name = None /\ img = FreeRecord
  /\ left = 0 /\ log = {} /\ todo = {}
  /\ freed = {} /\ before = None /\ status = "none" /\ damage = {}
  /\ crashes = 0 /\ faults = 0

\* A call into the driver.
Call ==
  \/ \E n \in Name : CreateBegin(n) \/ DeleteBegin(n) \/ DeleteStale(n)
  \/ \E n \in Name, k \in 0..MaxSize : WriteBegin(n, k) \/ TruncateBegin(n, k)
  \/ \E r \in Record : CloseTrim(r) \/ CloseNoSlack(r)

\* A step of the call in progress.
Handler ==
  \/ CreateAllocRecord \/ CreateNoRecord \/ CreateWriteRecord
  \/ CreateWriteRecordFails \/ CreateInsert \/ CreateInsertRefused
  \/ CreateCommitFails \/ CreateUndoRecord \/ CreateUndoBit
  \/ DeleteUnlink \/ DeleteUnlinkRefused \/ DeleteFree \/ DeleteClearRecord
  \/ DeleteClearBit
  \/ WriteAlloc \/ WriteGiveUp \/ WriteAllocated \/ WriteUndo \/ WriteRefused
  \/ WriteRecord
  \/ ShrinkFree \/ ShrinkRefused \/ ShrinkRecord \/ Sync

Next == Call \/ Handler \/ Unmount \/ Mount \/ Crash

Spec == Init /\ [][Next]_vars

\* A call runs to its end: boot services are not preempted.
FairSpec == Spec /\ WF_vars(Handler)

(***************************************************************************)
(* Properties                                                              *)
(***************************************************************************)

DiskType ==
  /\ bitmapDisk \subseteq Cluster
  /\ mftBitmap \subseteq Record
  /\ rec \in [Record -> FileRecord]
  /\ index \in [Name -> Entry \cup {None}]
  /\ dirty \in BOOLEAN

MemoryType ==
  /\ bitmap \subseteq Cluster
  /\ mounted \in BOOLEAN /\ dirtySet \in BOOLEAN
  /\ grew \subseteq Record

HandlerType ==
  /\ pc \in PCs
  /\ cur \in Record \cup {None} /\ name \in Name \cup {None}
  /\ img \in FileRecord
  /\ left \in Nat
  /\ log \subseteq Cluster /\ todo \subseteq Cluster

HistoryType ==
  /\ freed \subseteq Cluster
  /\ status \in {"none", "ok", "refused"}
  /\ damage \subseteq Damages
  /\ crashes \in 0..MaxCrashes /\ faults \in 0..MaxFaults

\* The variables keep their types, whatever crashes and write faults occur.
TypeOK == DiskType /\ MemoryType /\ HandlerType /\ HistoryType

Owned == UNION {Mapped(r) : r \in Record}

\* No cluster is mapped twice, by two files or by one.
NoSharing ==
  /\ \A r, s \in Record : r # s => Mapped(r) \cap Mapped(s) = {}
  /\ \A r \in Record : rec[r].inUse => NoRepeat(rec[r].map)

\* Every entry names a record in use, of the same sequence number.
EntriesResolve ==
  \A n \in Live : rec[index[n].rec].inUse /\ rec[index[n].rec].seq = index[n].seq

\* A record is in use exactly if one entry names it.
OneNameEach ==
  /\ \A n, m \in Live : index[n].rec = index[m].rec => n = m
  /\ InUse = {index[n].rec : n \in Live}

\* The three views of a file's size agree ("All three copies must agree").
SizesAgree == \A n \in Live : index[n].size = rec[index[n].rec].size

Consistent ==
  /\ bitmapDisk = Owned /\ NoSharing
  /\ mftBitmap = InUse
  /\ EntriesResolve /\ OneNameEach /\ SizesAgree

\* Between calls, the volume would pass chkdsk and the mirror of $Bitmap is
\* exact: no call, successful or refused, leaves anything behind.
ConsistentAtRest ==
  pc = "idle" => /\ Consistent
                 /\ mounted => bitmap = bitmapDisk

\* A volume that is not flagged dirty is consistent, even while a call runs:
\* the flag is on disk before the first change of a mount.
CleanFlagTruthful == ~dirty => Consistent

\* A call that is refused has changed nothing a reader of the volume sees:
\* every roll-back path of create and write undoes all that went before.
RefusalChangesNothing ==
  [][pc # "idle" /\ pc' = "idle" /\ status' = "refused" => View' = before]_vars

\* The files that hold each cluster, the running call counting as one for the
\* clusters it has allocated and not yet recorded.
Holders == [c \in Cluster |->
  Cardinality({r \in Record : c \in Mapped(r) \ (IF r = cur THEN freed ELSE {})})
    + IF c \in log THEN 1 ELSE 0]

Space == INSTANCE ClusterSpace WITH holders <- Holders

\* With no crash and no failed write, all the handlers together use the
\* allocator as ClusterSpace says: each grant is of clusters nobody holds, no
\* cluster is released twice or while a file keeps it, none changes hands
\* otherwise, across mounts too.
UsesClusterSpace == Space!Spec

\* Every call returns: no allocation, roll-back or free loop runs for ever.
CallsReturn == (pc # "idle") ~> (pc = "idle")

\* Whatever the crash point and the failed write, an index entry never names
\* a record that is free or that has become another file.
EntryNeverDangles == "entry" \notin damage => EntriesResolve

\* ... a record in use has its $MFT:$BITMAP bit, so no create reuses it ...
RecordNeverDangles == "record" \notin damage => InUse \subseteq mftBitmap

\* ... and a cluster mapped by a file is allocated and mapped by it alone, so
\* no write lands in another file.  The clusters that the running call has
\* freed but whose record is not written yet are the exception, which a crash
\* or a failed record write turns into "cluster" damage; and a stale entry can
\* be used to truncate a free record.
ClusterNeverDangles ==
  damage \cap {"cluster", "entry"} = {} =>
    /\ Owned \ freed \subseteq bitmapDisk
    /\ NoSharing

\* The same with no exception for a crash: "Every write ordered so a crash
\* leaks, never dangles" (README.md:99).
CrashNeverDangles == pc = "idle" => Owned \subseteq bitmapDisk

\* "After an unclean shutdown Windows will offer to run chkdsk"
\* (README.md:707): a volume a crash has left inconsistent is flagged dirty.
UncleanShutdownFlagged == crashes > 0 /\ pc = "idle" /\ ~Consistent => dirty

\* "refusing here just leaves them free with the attribute unchanged - the
\* volume stays valid" (ntfs_setinfo.c:515): after a refusal, with no crash and
\* no failed write, no file maps a free cluster.
RefusalLeavesValid ==
  pc = "idle" /\ status = "refused" /\ crashes = 0 /\ faults = 0
     => Owned \subseteq bitmapDisk

=============================================================================
