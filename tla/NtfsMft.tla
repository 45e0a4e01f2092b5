------------------------------ MODULE NtfsMft -------------------------------
(***************************************************************************)
(* The allocator of file records (ntfs_bitmap.c) and the table they live   *)
(* in.  $MFT describes itself: its record 0 holds the runs of the table    *)
(* and the table's own bitmap, resident or not.  There are five copies of  *)
(* what record 0 says: on disk, in $MFTMirr, in the cache of file records, *)
(* in Vcb->MasterFileTable, which growth edits and writes back whole, and  *)
(* in Vcb->MFTContext, through which every record is read and written.     *)
(*                                                                         *)
(* A step is one write to the disk.  A write may fail, the power may go    *)
(* between any two, and record 0 may drop out of the cache at any time.    *)
(* Clusters come from the allocator that ClusterSpace specifies.           *)
(***************************************************************************)
EXTENDS Integers, Sequences, FiniteSets

CONSTANTS
  Cluster,      \* the clusters of the volume, 0..n
  PerCluster,   \* records in a cluster
  FirstUser,    \* NTFS_FILE_FIRST_USER_FILE
  ByteBits,     \* 8 in the code
  ByteAlign,    \* the bitmap grows to a multiple of this many bytes, 8
  ClusterBytes,
  GrowClusters, \* NTFS_MFT_GROW_CLUSTERS
  RoomSet,      \* what a record 0 may hold in mapping pairs and bitmap bytes
  Formats,      \* the records 0 that another system has written
  MaxFaults,    \* bound on failed writes, failed reads and losses of power
  None

ASSUME SizeAssumption ==
  /\ Cluster \subseteq Nat /\ IsFiniteSet(Cluster)
  /\ PerCluster \in Nat \ {0} /\ FirstUser \in Nat
  /\ ByteBits \in Nat \ {0} /\ ByteAlign \in Nat \ {0}
  /\ ClusterBytes \in Nat \ {0} /\ GrowClusters \in Nat \ {0}
  /\ RoomSet \subseteq Nat
  /\ MaxFaults \in Nat

VARIABLES
  resident,   \* is the table's $BITMAP resident?
  room,       \* of record 0
  files,      \* the clusters of everything but $MFT
  disk,       \* record 0 in the table
  mirr,       \* record 0 in $MFTMirr
  cache,      \* record 0 in the cache of file records, or None
  mft,        \* Vcb->MasterFileTable
  ctx,        \* Vcb->MFTContext: the runs and the size of $MFT
  bits,       \* the clusters of a non-resident $BITMAP: their one bits
  alloc,      \* the allocated clusters
  dirty,      \* the clusters that hold old data
  pc,         \* where the running call is; "refused" after an EFI_VOLUME_FULL or NTFS_REFUSE
  img,        \* its MftRec0
  got,        \* the run of clusters it is adding
  old,        \* the length its bitmap had
  owners,     \* history: how many files have each record
  lost,       \* history: the records whose bit a failed read has cleared
  faults

copies  == <<disk, mirr, cache, mft, ctx>>
local   == <<pc, img, got, old>>
history == <<owners, lost>>
fixed   == <<resident, room, files>>
vars    == <<fixed, copies, bits, alloc, dirty, local, history, faults>>

Elems(s) == {s[i] : i \in DOMAIN s}
Record == 0..(Cardinality(Cluster) * PerCluster - 1)

(***************************************************************************)
(* Record 0: place is the runs of $DATA, cluster by cluster, size the      *)
(* number of records; bmap the runs of a non-resident $BITMAP, bm the bits *)
(* of a resident one, len its length in bytes.                             *)
(***************************************************************************)
Rec0 == [place : Seq(Cluster), size : Nat, bmap : Seq(Cluster), bm : SUBSET Nat, len : Nat]

ASSUME FormatAssumption == Formats \subseteq Rec0
ASSUME NoneAssumption == None \notin Rec0

\* The mapping pairs that a run list takes: consecutive clusters share one.
Pairs(s) == Cardinality({i \in DOMAIN s : i = 1 \/ s[i] # s[i - 1] + 1})

Fits(rec) == Pairs(rec.place) + Pairs(rec.bmap) + (IF resident THEN rec.len ELSE 0) <= room

Capacity(rec) == Len(rec.bmap) * ClusterBytes
Ctx(rec) == [place |-> rec.place, size |-> rec.size]

\* NtfsEfiReadFileRecord of record 0: the cache first.
Read == IF cache # None THEN cache ELSE disk
Caches == cache' = Read

Marked(rec) == IF resident THEN rec.bm ELSE bits

\* Mutant: the search is bounded by the bitmap alone.
MutantLimit(rec) == rec.len * ByteBits

\* The records whose bit is in the bitmap and which lie in the table.
Limit(rec) == IF rec.len * ByteBits < ctx.size THEN rec.len * ByteBits ELSE ctx.size

FreeRecords(rec) == {r \in FirstUser..(Limit(rec) - 1) : r \notin Marked(rec)}

\* NtfsFirstFreeBit.
FirstFree(rec) == {r \in FreeRecords(rec) : \A q \in FreeRecords(rec) : r <= q}

ByteOf(r) == LET first == (r \div ByteBits) * ByteBits IN first..(first + ByteBits - 1)

NeedBytes ==
  LET bytes == (ctx.size + ByteBits - 1) \div ByteBits
  IN  ((bytes + ByteAlign - 1) \div ByteAlign) * ByteAlign

Fault == faults < MaxFaults /\ faults' = faults + 1

(***************************************************************************)
(* Writing record 0.                                                       *)
(***************************************************************************)

\* Mutant: the cached image is not refreshed.
MutantWriteRec0(rec) ==
  /\ disk' = rec /\ mirr' = rec
  /\ UNCHANGED <<cache, faults>>

\* NtfsEfiWriteFileRecord: the table, the cache and, at best, the mirror.
WriteRec0(rec) ==
  /\ disk' = rec /\ cache' = rec
  /\ \/ mirr' = rec /\ UNCHANGED faults
     \/ Fault /\ UNCHANGED mirr

\* Mutant: Vcb->MasterFileTable is not brought up to date.
MutantWriteMftRec0(rec) == WriteRec0(rec) /\ ctx' = Ctx(rec) /\ UNCHANGED mft

WriteMftRec0(rec) == WriteRec0(rec) /\ mft' = rec /\ ctx' = Ctx(rec)

\* The call returns: a refusal (EFI_VOLUME_FULL, NTFS_REFUSE), or anything else.
Leave(how) == pc' = how /\ img' = None /\ got' = << >> /\ old' = 0
Return == Leave("idle")
Refuse == Leave("refused")

AtRest == pc \in {"idle", "refused"}
Mounted == mft # None

(***************************************************************************)
(* NtfsEfiAllocateMftRecord                                                *)
(***************************************************************************)
AllocBegin ==
  /\ AtRest /\ Mounted
  /\ pc' = "find"
  /\ UNCHANGED <<fixed, copies, bits, alloc, dirty, img, got, old, owners, lost, faults>>

Granted(r) == owners' = [owners EXCEPT ![r] = @ + 1]

\* A free record, and the write of its bit.
FindResident ==
  /\ pc \in {"find", "again"} /\ resident
  /\ \E r \in FirstFree(Read) :
       \/ WriteMftRec0([Read EXCEPT !.bm = @ \cup {r}]) /\ Granted(r)
       \/ Fault /\ Caches /\ UNCHANGED <<disk, mirr, mft, ctx, owners>>
  /\ Return
  /\ UNCHANGED <<fixed, bits, alloc, dirty, lost>>

FindNonResident ==
  /\ pc \in {"find", "again"} /\ ~resident
  /\ \E r \in FirstFree(Read) :
       \/ bits' = bits \cup {r} /\ Granted(r) /\ UNCHANGED faults
       \/ Fault /\ UNCHANGED <<bits, owners>>
  /\ Caches /\ Return
  /\ UNCHANGED <<fixed, disk, mirr, mft, ctx, alloc, dirty, lost>>

\* None is free: grow the table once, then give up.
FindNone ==
  /\ pc \in {"find", "again"}
  /\ FreeRecords(Read) = {}
  /\ Caches
  /\ \/ pc = "find" /\ pc' = "grow" /\ UNCHANGED <<img, got, old>>
     \/ pc = "again" /\ Refuse
  /\ UNCHANGED <<fixed, disk, mirr, mft, ctx, bits, alloc, dirty, owners, lost, faults>>

(***************************************************************************)
(* NtfsGrowMft                                                             *)
(***************************************************************************)
Run(start, k) == [i \in 1..k |-> start + i - 1]

\* Mutant: the run may pass the end of the volume.
MutantGrants(need) == {s \in {Run(c, k) : c \in Cluster, k \in 1..need} : Elems(s) \cap alloc = {}}

\* What NtfsEfiAllocateClusters may grant for a request of need clusters.
Grants(need) ==
  {s \in {Run(c, k) : c \in Cluster, k \in 1..need} :
     Elems(s) \subseteq Cluster /\ Elems(s) \cap alloc = {}}

NoCluster == Cluster \subseteq alloc

\* Mutant: a full volume is tried again.
MutantGrowAllocate ==
  /\ pc = "grow"
  /\ \/ /\ \E s \in Grants(GrowClusters) : got' = s /\ alloc' = alloc \cup Elems(s)
        /\ pc' = "zero"
     \/ NoCluster /\ pc' = "find" /\ UNCHANGED <<got, alloc>>
  /\ UNCHANGED <<fixed, copies, bits, dirty, img, old, history, faults>>

GrowAllocate ==
  /\ pc = "grow"
  /\ \/ /\ \E s \in Grants(GrowClusters) : got' = s /\ alloc' = alloc \cup Elems(s)
        /\ pc' = "zero" /\ UNCHANGED <<img, old>>
     \/ NoCluster /\ Refuse /\ UNCHANGED alloc
  /\ UNCHANGED <<fixed, copies, bits, dirty, owners, lost, faults>>

\* Mutant: the new clusters keep what they hold.
MutantGrowZero ==
  /\ pc = "zero" /\ pc' = "append"
  /\ UNCHANGED <<fixed, copies, bits, alloc, dirty, img, got, old, history, faults>>

GrowZero ==
  /\ pc = "zero"
  /\ \/ /\ dirty' = dirty \ Elems(got)
        /\ pc' = "append" /\ UNCHANGED <<img, got, old, alloc, faults>>
     \/ Fault /\ alloc' = alloc \ Elems(got) /\ Return /\ UNCHANGED dirty
  /\ UNCHANGED <<fixed, copies, bits, owners, lost>>

\* The whole allocation becomes the size.
Grown ==
  LET place == mft.place \o got
  IN  [mft EXCEPT !.place = place, !.size = Len(place) * PerCluster]

\* Mutant: when the write fails the clusters are given back.
MutantGrowWrite ==
  /\ pc = "append" /\ Fits(Grown)
  /\ mft' = Grown
  /\ \/ /\ WriteRec0(Grown) /\ ctx' = Ctx(Grown)
        /\ pc' = "bitmap" /\ UNCHANGED <<img, got, old, alloc>>
     \/ Fault /\ Return /\ alloc' = alloc \ Elems(got) /\ UNCHANGED <<disk, mirr, cache, ctx>>
  /\ UNCHANGED <<fixed, bits, dirty, owners, lost>>

\* Vcb->MasterFileTable is edited in place: when the write fails it keeps the
\* new run, whose clusters stay allocated.
GrowWrite ==
  /\ pc = "append" /\ Fits(Grown)
  /\ mft' = Grown
  /\ \/ /\ WriteRec0(Grown) /\ ctx' = Ctx(Grown)
        /\ pc' = "bitmap" /\ UNCHANGED <<img, got, old>>
     \/ Fault /\ Return /\ UNCHANGED <<disk, mirr, cache, ctx>>
  /\ UNCHANGED <<fixed, bits, alloc, dirty, owners, lost>>

\* Mutant: the clusters are kept.
MutantGrowNoRoom ==
  /\ pc = "append" /\ ~Fits(Grown)
  /\ Refuse
  /\ UNCHANGED <<fixed, copies, bits, alloc, dirty, owners, lost, faults>>

\* No room in record 0 for another mapping pair.
GrowNoRoom ==
  /\ pc = "append" /\ ~Fits(Grown)
  /\ alloc' = alloc \ Elems(got)
  /\ Refuse
  /\ UNCHANGED <<fixed, copies, bits, dirty, owners, lost, faults>>

(***************************************************************************)
(* NtfsGrowMftBitmap                                                       *)
(***************************************************************************)
TooShort(rec) == ctx.size > rec.len * ByteBits
Longer(rec) == [rec EXCEPT !.len = NeedBytes]

BitmapLongEnough ==
  /\ pc = "bitmap" /\ ~TooShort(Read)
  /\ Caches /\ pc' = "again"
  /\ UNCHANGED <<fixed, disk, mirr, mft, ctx, bits, alloc, dirty, img, got, old, history, faults>>

\* The resident form grows inside record 0, with zeros.
BitmapResident ==
  /\ pc = "bitmap" /\ resident /\ TooShort(Read)
  /\ \/ /\ Fits(Longer(Read))
        /\ \/ WriteMftRec0(Longer(Read)) /\ pc' = "again" /\ UNCHANGED <<img, got, old>>
           \/ Fault /\ Return /\ Caches /\ UNCHANGED <<disk, mirr, mft, ctx>>
     \/ ~Fits(Longer(Read)) /\ Refuse /\ Caches /\ UNCHANGED <<disk, mirr, mft, ctx, faults>>
  /\ UNCHANGED <<fixed, bits, alloc, dirty, owners, lost>>

NeedClusters(rec) == (NeedBytes - Capacity(rec) + ClusterBytes - 1) \div ClusterBytes

\* The other form needs clusters only when those it has run out, and then in
\* one run; a run that is too short or has no room in record 0 is given back.
BitmapAllocate ==
  /\ pc = "bitmap" /\ ~resident /\ TooShort(Read)
  /\ Caches
  /\ \/ /\ NeedBytes <= Capacity(Read)
        /\ pc' = "bmwrite" /\ img' = Longer(Read) /\ old' = Read.len
        /\ UNCHANGED <<got, alloc>>
     \/ /\ NeedBytes > Capacity(Read)
        /\ \E s \in Grants(NeedClusters(Read)) :
             LET rec == [Longer(Read) EXCEPT !.bmap = @ \o s]
             IN  \/ /\ Len(s) = NeedClusters(Read) /\ Fits(rec)
                    /\ got' = s /\ alloc' = alloc \cup Elems(s)
                    /\ pc' = "bmwrite" /\ img' = rec /\ old' = Read.len
                 \/ /\ Len(s) < NeedClusters(Read) \/ ~Fits(rec)
                    /\ Refuse /\ UNCHANGED alloc
     \/ NeedBytes > Capacity(Read) /\ NoCluster /\ Refuse /\ UNCHANGED alloc
  /\ UNCHANGED <<fixed, disk, mirr, mft, ctx, bits, dirty, owners, lost, faults>>

Span(from, to) == (from * ByteBits)..(to * ByteBits - 1)

\* The sizes first: the new bytes hold what their clusters held before.
BitmapWrite ==
  /\ pc = "bmwrite"
  /\ \/ /\ WriteMftRec0(img)
        /\ \E junk \in SUBSET Span(Capacity(disk), Capacity(img)) : bits' = bits \cup junk
        /\ pc' = "bmzero" /\ UNCHANGED <<img, got, old>>
     \/ Fault /\ Return /\ UNCHANGED <<disk, mirr, cache, mft, ctx, bits>>
  /\ UNCHANGED <<fixed, alloc, dirty, owners, lost>>

\* Mutant: the new bytes are not zeroed.
MutantBitmapZero ==
  /\ pc = "bmzero" /\ pc' = "again"
  /\ UNCHANGED <<fixed, copies, bits, alloc, dirty, img, got, old, history, faults>>

\* Then the zeros, up to a byte whose write fails.
BitmapZero ==
  /\ pc = "bmzero"
  /\ \/ /\ bits' = bits \ Span(old, img.len)
        /\ pc' = "again" /\ UNCHANGED <<img, got, old, faults>>
     \/ /\ Fault /\ Return
        /\ \E b \in old..(img.len - 1) : bits' = bits \ Span(old, b)
  /\ UNCHANGED <<fixed, copies, alloc, dirty, owners, lost>>

(***************************************************************************)
(* NtfsEfiFreeMftRecord, of a record that a file has.  Nothing that the    *)
(* non-resident form reads or writes is checked: a byte that could not be  *)
(* read is written back with whatever the stack held.                      *)
(***************************************************************************)
FreeResident(r) ==
  /\ AtRest /\ Mounted /\ resident /\ owners[r] > 0
  /\ owners' = [owners EXCEPT ![r] = @ - 1]
  /\ \/ WriteMftRec0([Read EXCEPT !.bm = @ \ {r}])
     \/ Fault /\ Caches /\ UNCHANGED <<disk, mirr, mft, ctx>>
  /\ pc' = "idle"
  /\ UNCHANGED <<fixed, bits, alloc, dirty, img, got, old, lost>>

FreeNonResident(r) ==
  /\ AtRest /\ Mounted /\ ~resident /\ owners[r] > 0
  /\ owners' = [owners EXCEPT ![r] = @ - 1]
  /\ Caches
  /\ \/ bits' = bits \ {r} /\ UNCHANGED <<lost, faults>>
     \/ Fault /\ UNCHANGED <<bits, lost>>
     \/ /\ Fault
        /\ \E byte \in SUBSET (ByteOf(r) \ {r}) :
             /\ bits' = (bits \ ByteOf(r)) \cup byte
             /\ lost' = lost \cup {q \in ByteOf(r) \ {r} : q \in Record /\ owners[q] > 0 /\ q \notin byte}
  /\ pc' = "idle"
  /\ UNCHANGED <<fixed, disk, mirr, mft, ctx, alloc, dirty, img, got, old>>

(***************************************************************************)
(* Around the calls: other records push record 0 out of the cache; the     *)
(* volume is unmounted, or the power goes, and it is mounted again.        *)
(***************************************************************************)
Evict ==
  /\ cache # None /\ cache' = None
  /\ UNCHANGED <<fixed, disk, mirr, mft, ctx, bits, alloc, dirty, local, history, faults>>

Forget ==
  /\ mft' = None /\ ctx' = None /\ cache' = None
  /\ Return
  /\ UNCHANGED <<fixed, disk, mirr, bits, alloc, dirty, owners, lost>>

Unmount == AtRest /\ Mounted /\ Forget /\ UNCHANGED faults
Crash == Mounted /\ Fault /\ Forget

Mount ==
  /\ ~Mounted
  /\ mft' = disk /\ ctx' = Ctx(disk) /\ cache' = None
  /\ UNCHANGED <<fixed, disk, mirr, bits, alloc, dirty, local, history, faults>>

(***************************************************************************)
(* The specification                                                       *)
(***************************************************************************)
Clusters(rec) == Elems(rec.place) \cup Elems(rec.bmap)

Injective(s) == \A i, j \in DOMAIN s : s[i] = s[j] => i = j

\* No cluster of the table or of its bitmap is mapped twice.
MapsOnce(rec) ==
  /\ Injective(rec.place) /\ Injective(rec.bmap)
  /\ Elems(rec.place) \cap Elems(rec.bmap) = {}

WellFormed(rec) ==
  /\ MapsOnce(rec)
  /\ rec.size <= Len(rec.place) * PerCluster /\ rec.size <= rec.len * ByteBits
  /\ Fits(rec)
  /\ IF resident THEN rec.bmap = << >> /\ rec.bm \subseteq FirstUser..(rec.size - 1)
                 ELSE rec.bm = {} /\ rec.len <= Capacity(rec)

\* A volume written by another system: a bit is set when a file has the record.
Init ==
  /\ resident \in BOOLEAN /\ room \in RoomSet
  /\ disk \in Formats /\ WellFormed(disk) /\ mirr = disk
  /\ files \in SUBSET (Cluster \ Clusters(disk))
  /\ alloc = files \cup Clusters(disk) /\ dirty = Cluster \ Clusters(disk)
  /\ bits \in IF resident THEN {{}} ELSE SUBSET (FirstUser..(disk.size - 1))
  /\ owners = [r \in Record |-> IF r \in Marked(disk) THEN 1 ELSE 0]
  /\ lost = {}
  /\ cache = None /\ mft = None /\ ctx = None
  /\ pc = "idle" /\ img = None /\ got = << >> /\ old = 0
  /\ faults = 0

\* The steps of a running call.
Step ==
  \/ FindResident \/ FindNonResident \/ FindNone
  \/ GrowAllocate \/ GrowZero \/ GrowWrite \/ GrowNoRoom
  \/ BitmapLongEnough \/ BitmapResident \/ BitmapAllocate \/ BitmapWrite \/ BitmapZero

Next ==
  \/ AllocBegin \/ Step
  \/ \E r \in Record : FreeResident(r) \/ FreeNonResident(r)
  \/ Evict \/ Mount \/ Unmount \/ Crash

\* A call that has begun runs on; nothing makes callers call or users mount.
Spec == Init /\ [][Next]_vars /\ WF_vars(Step)

(***************************************************************************)
(* Properties                                                              *)
(***************************************************************************)

\* Types.
TypeOK ==
  /\ resident \in BOOLEAN /\ room \in RoomSet /\ files \subseteq Cluster
  /\ disk \in Rec0 /\ mirr \in Rec0
  /\ cache \in Rec0 \cup {None} /\ mft \in Rec0 \cup {None} /\ img \in Rec0 \cup {None}
  /\ ctx \in [place : Seq(Cluster), size : Nat] \cup {None}
  /\ bits \subseteq Nat /\ alloc \subseteq Cluster /\ dirty \subseteq Cluster
  /\ pc \in {"idle", "refused", "find", "again", "grow", "zero", "append", "bitmap",
             "bmwrite", "bmzero"}
  /\ got \in Seq(Cluster) /\ old \in Nat
  /\ owners \in [Record -> Nat] /\ lost \subseteq Record
  /\ faults \in 0..MaxFaults

\* The copies of record 0 agree, whatever write has failed: what is cached is
\* what is on disk, every record is found through the runs on disk, and
\* Vcb->MasterFileTable, which the next growth writes back whole, differs from
\* the disk by no more than a run that a failed growth has left in it
\* ("Anything stored into record 0 from a local copy without refreshing the
\* cache is therefore undone by the next growth", ntfs_bitmap.c:315).
Staged ==
  /\ Len(disk.place) <= Len(mft.place)
  /\ \A i \in DOMAIN disk.place : mft.place[i] = disk.place[i]
  /\ disk.size <= mft.size /\ mft.size <= Len(mft.place) * PerCluster
  /\ mft.bmap = disk.bmap /\ mft.bm = disk.bm /\ mft.len = disk.len

CopiesAgree ==
  /\ Mounted => ctx = Ctx(disk) /\ Staged
  /\ cache \in {None, disk}
  /\ faults = 0 => mirr = disk /\ (AtRest /\ Mounted => mft = disk)

\* A record that a file has is marked and inside the table, so no create is
\* given it, over growths, failed writes and mounts; the one exception is the
\* byte that was written back without having been read.
OwnedIsMarked ==
  \A r \in Record \ lost :
    /\ owners[r] <= 1
    /\ owners[r] = 1 => r \in Marked(disk) /\ r < disk.size

\* The clusters of the table and of its bitmap are allocated, each mapped
\* once and not a file's: on disk, and in the copy that the next growth writes.
ExtentsSound ==
  /\ files \subseteq alloc
  /\ \A rec \in {disk, mft} \ {None} :
       /\ MapsOnce(rec)
       /\ Clusters(rec) \subseteq alloc \ files
  /\ Elems(got) \subseteq alloc \ files

\* A growth that has come to its end serves the request it was made for: "grow
\* the MFT (which appends fresh, all-zero records) and its bitmap, then look
\* again" (ntfs_bitmap.c:470).
GrowthServes ==
  pc = "again" /\ faults = 0 => FreeRecords(Read) # {}

\* When no write fails and no call is cut off, every allocated cluster has an owner.
NothingLeaks ==
  AtRest /\ faults = 0 => alloc = files \cup Clusters(disk)

\* The table never takes in a cluster with old data in it, in which a scan of
\* the table would find old records in use.
TableIsClean ==
  [][Elems(disk'.place) \cap dirty' \subseteq Elems(disk.place)]_vars

\* The allocator keeps what its callers rely on, until a byte has been written
\* back without having been read.
Space == INSTANCE RecordSpace WITH table <- disk.place
ImplementsSpace ==
  Space!Init /\ [][lost' = {} => Space!Next]_<<disk.place, owners>>

\* Every allocation ends, and with it the bounded search, growth and second search.
AllocReturns == ~AtRest ~> AtRest

=============================================================================
