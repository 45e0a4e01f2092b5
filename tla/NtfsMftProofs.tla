--------------------------- MODULE NtfsMftProofs ----------------------------
(***************************************************************************)
(* Theorems about NtfsMft, for tables, bitmaps and volumes of any size and *)
(* any number of failed writes and losses of power.                        *)
(***************************************************************************)
EXTENDS NtfsMft, TLAPS

(***************************************************************************)
(* Run lists                                                               *)
(***************************************************************************)

\* A run that is appended to a run list adds its clusters, and maps none twice
\* when the two have none in common.
LEMMA AppendRun ==
  ASSUME NEW s \in Seq(Cluster), NEW t \in Seq(Cluster)
  PROVE  /\ s \o t \in Seq(Cluster)
         /\ Len(s \o t) = Len(s) + Len(t)
         /\ \A i \in DOMAIN s : i \in DOMAIN (s \o t) /\ (s \o t)[i] = s[i]
         /\ Elems(s \o t) = Elems(s) \cup Elems(t)
         /\ Injective(s) /\ Injective(t) /\ Elems(s) \cap Elems(t) = {} => Injective(s \o t)
<1>1. s \o t \in Seq(Cluster) /\ Len(s \o t) = Len(s) + Len(t)
  OBVIOUS
<1>2. /\ DOMAIN s = 1..Len(s) /\ DOMAIN t = 1..Len(t)
      /\ DOMAIN (s \o t) = 1..(Len(s) + Len(t))
      /\ Len(s) \in Nat /\ Len(t) \in Nat
  BY <1>1
<1>3. \A i \in 1..Len(s) : (s \o t)[i] = s[i]
  OBVIOUS
<1>4. \A i \in 1..(Len(s) + Len(t)) : i > Len(s) => (s \o t)[i] = t[i - Len(s)]
  OBVIOUS
<1>5. Elems(s \o t) = Elems(s) \cup Elems(t)
  <2>1. \A i \in 1..Len(t) : t[i] = (s \o t)[Len(s) + i] /\ Len(s) + i \in 1..(Len(s) + Len(t))
    BY <1>2, <1>4
  <2>2. \A i \in 1..(Len(s) + Len(t)) : i <= Len(s) \/ i - Len(s) \in 1..Len(t)
    BY <1>2
  <2>3. Elems(s) \cup Elems(t) \subseteq Elems(s \o t)
    <3>1. ASSUME NEW i \in 1..Len(s) PROVE s[i] \in Elems(s \o t)
      <4>1. i \in DOMAIN (s \o t) /\ (s \o t)[i] = s[i]
        BY <1>2, <1>3
      <4> QED BY <4>1, Zenon DEF Elems
    <3>2. ASSUME NEW i \in 1..Len(t) PROVE t[i] \in Elems(s \o t)
      <4>1. Len(s) + i \in DOMAIN (s \o t) /\ (s \o t)[Len(s) + i] = t[i]
        BY <1>2, <2>1
      <4> QED BY <4>1, Zenon DEF Elems
    <3> QED BY <3>1, <3>2, <1>2 DEF Elems
  <2>4. Elems(s \o t) \subseteq Elems(s) \cup Elems(t)
    <3>1. SUFFICES ASSUME NEW i \in 1..(Len(s) + Len(t))
                   PROVE  (s \o t)[i] \in Elems(s) \cup Elems(t)
      BY <1>2 DEF Elems
    <3>2. CASE i <= Len(s)
      BY <3>2, <1>2, <1>3 DEF Elems
    <3>3. CASE i > Len(s)
      BY <3>3, <2>2, <1>2, <1>4 DEF Elems
    <3> QED BY <3>2, <3>3, <1>2
  <2> QED BY <2>3, <2>4
<1>6. ASSUME Injective(s), Injective(t), Elems(s) \cap Elems(t) = {}
      PROVE  Injective(s \o t)
  <2>1. SUFFICES ASSUME NEW i \in 1..(Len(s) + Len(t)), NEW j \in 1..(Len(s) + Len(t)),
                        (s \o t)[i] = (s \o t)[j]
                 PROVE  i = j
    BY <1>2 DEF Injective
  <2>2. CASE i <= Len(s) /\ j <= Len(s)
    BY <2>1, <2>2, <1>2, <1>3, <1>6 DEF Injective
  <2>3. CASE i > Len(s) /\ j > Len(s)
    <3>1. i - Len(s) \in 1..Len(t) /\ j - Len(s) \in 1..Len(t)
      BY <2>3, <1>2
    <3>2. t[i - Len(s)] = t[j - Len(s)]
      BY <2>1, <2>3, <1>4
    <3>3. i - Len(s) = j - Len(s)
      BY <3>1, <3>2, <1>2, <1>6 DEF Injective
    <3> QED BY <3>3, <1>2
  <2>4. ASSUME NEW a \in 1..Len(s), NEW b \in 1..(Len(s) + Len(t)), b > Len(s),
               (s \o t)[a] = (s \o t)[b]
        PROVE  FALSE
    <3>1. s[a] = t[b - Len(s)] /\ b - Len(s) \in 1..Len(t)
      BY <2>4, <1>2, <1>3, <1>4
    <3> QED BY <3>1, <1>2, <1>6 DEF Elems
  <2> QED BY <2>1, <2>2, <2>3, <2>4, <1>2
<1> QED BY <1>1, <1>2, <1>3, <1>5, <1>6

\* A grant of the cluster allocator is a run of distinct free clusters.
LEMMA GrantIsRun ==
  ASSUME NEW need, NEW s \in Grants(need)
  PROVE  /\ s \in Seq(Cluster) /\ Injective(s) /\ s # << >>
         /\ Elems(s) \subseteq Cluster /\ Elems(s) \cap alloc = {}
<1>1. PICK c \in Cluster, k \in 1..need : s = Run(c, k)
  BY DEF Grants
<1>2. Elems(s) \subseteq Cluster /\ Elems(s) \cap alloc = {}
  BY DEF Grants
<1>3. c \in Nat /\ k \in Nat
  BY <1>1, SizeAssumption
<1>4. DOMAIN s = 1..k /\ \A i \in 1..k : s[i] = c + i - 1
  BY <1>1, <1>3 DEF Run
<1>5. \A i \in 1..k : s[i] \in Cluster
  BY <1>2, <1>4 DEF Elems
<1>6. s \in [1..k -> Cluster]
  BY <1>1, <1>4, <1>5 DEF Run
<1>7. s \in Seq(Cluster)
  BY <1>3, <1>6
<1>8. Injective(s)
  BY <1>3, <1>4 DEF Injective
<1>9. s # << >>
  BY <1>1, <1>3, <1>4
<1> QED BY <1>2, <1>7, <1>8, <1>9

(***************************************************************************)
(* The invariant.  In its second part a call in progress is related to     *)
(* what is on disk: no step trusts a copy that the disk has gone past.     *)
(***************************************************************************)
Running == pc \in {"find", "again", "grow", "zero", "append", "bitmap", "bmwrite", "bmzero"}

\* The clusters being added are allocated and in no run list yet.
Adding(s, rec) ==
  /\ Injective(s) /\ Elems(s) \cap Clusters(rec) = {}
  /\ Elems(s) \subseteq alloc \ files

\* The record that a growth of the bitmap is to write.
ImgInv ==
  /\ img \in Rec0 /\ ~resident
  /\ img.place = disk.place /\ img.size = disk.size /\ img.bm = disk.bm
  /\ MapsOnce(img) /\ Clusters(img) \subseteq alloc \ files
  /\ old <= img.len

LocalInv ==
  /\ Running => Mounted
  /\ pc \in {"zero", "append"} => Adding(got, mft) /\ got # << >>
  /\ pc \in {"bmwrite", "bmzero"} => ImgInv /\ old <= disk.len
  /\ pc = "bmwrite" => old = disk.len
  /\ pc = "bmzero" => img.len = disk.len

CopyInv ==
  /\ Mounted => ctx = Ctx(disk) /\ Staged
  /\ cache \in {None, disk}
  /\ faults = 0 => mirr = disk /\ (Mounted => mft = disk)

SizeInv == disk.size <= Len(disk.place) * PerCluster

\* The bit of an owned record is one that no zeroing reaches.
MarkInv ==
  \A r \in Record \ lost :
    /\ owners[r] <= 1
    /\ owners[r] = 1 =>
         /\ r \in Marked(disk) /\ r < disk.size /\ r < disk.len * ByteBits
         /\ pc \in {"bmwrite", "bmzero"} => r < old * ByteBits

\* What has been added to a run list and is not on disk yet has been zeroed.
CleanInv ==
  /\ Mounted => Elems(mft.place) \cap dirty \subseteq Elems(disk.place)
  /\ pc = "append" => Elems(got) \cap dirty = {}

IInv == TypeOK /\ LocalInv /\ CopyInv /\ SizeInv /\ MarkInv /\ ExtentsSound /\ CleanInv

\* Whatever is read of record 0 is what is on disk.
LEMMA ReadIsDisk ==
  ASSUME TypeOK, CopyInv
  PROVE  Read = disk
BY NoneAssumption DEF TypeOK, CopyInv, Read

(***************************************************************************)
(* Types                                                                   *)
(***************************************************************************)
LEMMA InitType == Init => TypeOK
<1>1. SUFFICES ASSUME Init PROVE TypeOK
  OBVIOUS
<1>2. disk \in Rec0
  BY <1>1, FormatAssumption DEF Init
<1>3. Clusters(disk) \subseteq Cluster
  BY <1>2 DEF Clusters, Elems, Rec0
<1>4. bits \subseteq Nat
  BY <1>1, <1>2, SizeAssumption DEF Init, Rec0
<1>5. owners \in [Record -> Nat]
  BY <1>1 DEF Init
<1>6. << >> \in Seq(Cluster)
  OBVIOUS
<1>0. /\ resident \in BOOLEAN /\ room \in RoomSet /\ mirr = disk
      /\ files \in SUBSET (Cluster \ Clusters(disk))
      /\ alloc = files \cup Clusters(disk) /\ dirty = Cluster \ Clusters(disk)
      /\ cache = None /\ mft = None /\ ctx = None /\ img = None
      /\ pc = "idle" /\ got = << >> /\ old = 0 /\ lost = {} /\ faults = 0
  BY <1>1, Zenon DEF Init
<1>7. room \in RoomSet /\ files \subseteq Cluster /\ mirr \in Rec0
  BY <1>0, <1>2
<1>8. alloc \subseteq Cluster /\ dirty \subseteq Cluster
  BY <1>0, <1>3
<1>9. got \in Seq(Cluster) /\ old \in Nat /\ lost \subseteq Record /\ faults \in 0..MaxFaults
  BY <1>0, <1>6, SizeAssumption
<1> QED BY <1>2, <1>4, <1>5, <1>0, <1>7, <1>8, <1>9, Zenon DEF TypeOK


\* The bitmap's length is computed in the naturals, and rounding up never loses
\* anything.
LEMMA DivNat ==
  ASSUME NEW n \in Nat, NEW k \in Nat \ {0}
  PROVE  n \div k \in Nat /\ n < (n \div k) * k + k
OBVIOUS

LEMMA RoundUp ==
  ASSUME NEW n \in Nat, NEW k \in Nat \ {0}
  PROVE  ((n + k - 1) \div k) \in Nat /\ n <= ((n + k - 1) \div k) * k
<1>1. n + k - 1 \in Nat
  OBVIOUS
<1>2. PICK q \in Nat : q = (n + k - 1) \div k
  BY <1>1, DivNat
<1>3. n + k - 1 < q * k + k /\ q * k \in Nat
  BY <1>1, <1>2, DivNat
<1> QED BY <1>2, <1>3

LEMMA Grows ==
  ASSUME NEW len \in Nat, ctx.size \in Nat, ctx.size > len * ByteBits
  PROVE  NeedBytes \in Nat /\ len <= NeedBytes
<1>1. PICK bytes \in Nat : bytes = (ctx.size + ByteBits - 1) \div ByteBits
  BY RoundUp, SizeAssumption
<1>2. ctx.size <= bytes * ByteBits
  BY <1>1, RoundUp, SizeAssumption
<1>3. PICK words \in Nat : words = (bytes + ByteAlign - 1) \div ByteAlign
  BY RoundUp, SizeAssumption
<1>4. bytes <= words * ByteAlign
  BY <1>3, RoundUp, SizeAssumption
<1>5. NeedBytes = words * ByteAlign /\ words * ByteAlign \in Nat
  BY <1>1, <1>3, SizeAssumption DEF NeedBytes
<1>6. len <= bytes
  <2>1. SUFFICES ASSUME bytes < len PROVE FALSE
    OBVIOUS
  <2>2. PICK d \in Nat : len = bytes + d
    BY <2>1
  <2>3. len * ByteBits = bytes * ByteBits + d * ByteBits /\ d * ByteBits \in Nat
    BY <2>2, SizeAssumption
  <2> QED BY <2>3, <1>2, SizeAssumption
<1> QED BY <1>4, <1>5, <1>6


\* The images that the calls make of record 0.
LEMMA Images ==
  ASSUME NEW rec \in Rec0
  PROVE  /\ \A r \in Nat : [rec EXCEPT !.bm = @ \cup {r}] \in Rec0 /\ [rec EXCEPT !.bm = @ \ {r}] \in Rec0
         /\ \A n \in Nat : [rec EXCEPT !.len = n] \in Rec0
         /\ \A n \in Nat, s \in Seq(Cluster) :
              [[rec EXCEPT !.len = n] EXCEPT !.bmap = @ \o s] \in Rec0
         /\ \A s \in Seq(Cluster) :
              [rec EXCEPT !.place = rec.place \o s, !.size = Len(rec.place \o s) * PerCluster] \in Rec0
<1>1. \A r \in Nat : [rec EXCEPT !.bm = @ \cup {r}] \in Rec0 /\ [rec EXCEPT !.bm = @ \ {r}] \in Rec0
  BY DEF Rec0
<1>2. \A n \in Nat : [rec EXCEPT !.len = n] \in Rec0
  BY DEF Rec0
<1>3. ASSUME NEW n \in Nat, NEW s \in Seq(Cluster)
      PROVE  [[rec EXCEPT !.len = n] EXCEPT !.bmap = @ \o s] \in Rec0
  <2>1. rec.bmap \o s \in Seq(Cluster)
    BY AppendRun DEF Rec0
  <2> QED BY <2>1 DEF Rec0
<1>4. ASSUME NEW s \in Seq(Cluster)
      PROVE  [rec EXCEPT !.place = rec.place \o s, !.size = Len(rec.place \o s) * PerCluster] \in Rec0
  <2>1. rec.place \o s \in Seq(Cluster) /\ Len(rec.place \o s) * PerCluster \in Nat
    BY SizeAssumption DEF Rec0
  <2> QED BY <2>1 DEF Rec0
<1> QED BY <1>1, <1>2, <1>3, <1>4

\* A successful write of record 0 keeps the types of all its copies.
LEMMA WriteType ==
  ASSUME TypeOK, NEW rec \in Rec0, WriteMftRec0(rec)
  PROVE  /\ disk' \in Rec0 /\ mirr' \in Rec0 /\ cache' \in Rec0 \cup {None}
         /\ mft' \in Rec0 \cup {None} /\ faults' \in 0..MaxFaults
         /\ ctx' \in [place : Seq(Cluster), size : Nat] \cup {None}
<1>1. Ctx(rec) \in [place : Seq(Cluster), size : Nat]
  BY DEF Rec0, Ctx
<1>2. mirr \in Rec0 /\ faults \in 0..MaxFaults
  BY DEF TypeOK
<1>3. mirr' \in Rec0 /\ faults' \in 0..MaxFaults
  BY <1>2, SizeAssumption DEF WriteMftRec0, WriteRec0, Fault
<1> QED BY <1>1, <1>3 DEF WriteMftRec0, WriteRec0

LEMMA FaultType == ASSUME TypeOK, Fault PROVE faults' \in 0..MaxFaults
BY SizeAssumption DEF TypeOK, Fault

\* The locals of a call, kept or dropped.
LocalsOK == img \in Rec0 \cup {None} /\ got \in Seq(Cluster) /\ old \in Nat

LEMMA LocalsKept == ASSUME TypeOK, UNCHANGED <<img, got, old>> PROVE LocalsOK'
<1>1. img \in Rec0 \cup {None} /\ got \in Seq(Cluster) /\ old \in Nat
  BY DEF TypeOK
<1> QED BY <1>1 DEF LocalsOK

LEMMA LocalsLeft == ASSUME NEW how, Leave(how) PROVE LocalsOK' /\ pc' = how
<1>1. << >> \in Seq(Cluster)
  OBVIOUS
<1> QED BY <1>1 DEF LocalsOK, Leave

\* Typing of what the searches and a release may do.
LEMMA TypeFind ==
  ASSUME TypeOK, CopyInv, LocalInv, FindResident \/ FindNonResident \/ FindNone \/ AllocBegin
  PROVE  TypeOK'
<1>1. Read = disk /\ disk \in Rec0
  BY ReadIsDisk DEF TypeOK
<1>2. FirstFree(Read) \subseteq Nat
  BY SizeAssumption DEF FirstFree, FreeRecords
<1>3. << >> \in Seq(Cluster)
  OBVIOUS
<1>4. ASSUME NEW r \in Nat, Granted(r) PROVE owners' \in [Record -> Nat]
  <2>1. owners \in [Record -> Nat] /\ owners' = [owners EXCEPT ![r] = owners[r] + 1]
    BY <1>4 DEF Granted, TypeOK
  <2>2. r \in Record => owners[r] + 1 \in Nat
    BY <2>1
  <2> QED BY <2>1, <2>2
<1>5. CASE FindResident
  <2>1. PICK r \in FirstFree(Read) :
          \/ WriteMftRec0([Read EXCEPT !.bm = @ \cup {r}]) /\ Granted(r)
          \/ Fault /\ Caches /\ UNCHANGED <<disk, mirr, mft, ctx, owners>>
    BY <1>5 DEF FindResident
  <2>2. /\ disk' \in Rec0 /\ mirr' \in Rec0 /\ cache' \in Rec0 \cup {None}
        /\ mft' \in Rec0 \cup {None} /\ faults' \in 0..MaxFaults
        /\ ctx' \in [place : Seq(Cluster), size : Nat] \cup {None}
    <3>1. CASE WriteMftRec0([Read EXCEPT !.bm = @ \cup {r}])
      BY <3>1, <1>1, <1>2, Images, WriteType
    <3>2. CASE Fault /\ Caches /\ UNCHANGED <<disk, mirr, mft, ctx, owners>>
      BY <3>2, <1>1, FaultType DEF TypeOK, Caches
    <3> QED BY <2>1, <3>1, <3>2
  <2>3. owners' \in [Record -> Nat]
    BY <2>1, <1>2, <1>4 DEF TypeOK
  <2>4. pc' = "idle" /\ img' = None /\ got' = << >> /\ old' = 0
    BY <1>5 DEF FindResident, Return, Leave
  <2>5. UNCHANGED <<fixed, bits, alloc, dirty, lost>>
    BY <1>5 DEF FindResident
  <2> QED BY <2>2, <2>3, <2>4, <2>5, <1>3 DEF TypeOK, fixed
<1>6. CASE FindNonResident
  <2>1. PICK r \in FirstFree(Read) :
          \/ bits' = bits \cup {r} /\ Granted(r) /\ UNCHANGED faults
          \/ Fault /\ UNCHANGED <<bits, owners>>
    BY <1>6 DEF FindNonResident
  <2>2. bits' \subseteq Nat /\ faults' \in 0..MaxFaults
    BY <2>1, <1>2, FaultType DEF TypeOK
  <2>3. owners' \in [Record -> Nat]
    BY <2>1, <1>2, <1>4 DEF TypeOK
  <2>4. pc' = "idle" /\ img' = None /\ got' = << >> /\ old' = 0 /\ cache' = disk
    BY <1>6, <1>1 DEF FindNonResident, Return, Leave, Caches
  <2>5. UNCHANGED <<fixed, disk, mirr, mft, ctx, alloc, dirty, lost>>
    BY <1>6 DEF FindNonResident
  <2> QED BY <2>2, <2>3, <2>4, <2>5, <1>1, <1>3 DEF TypeOK, fixed
<1>7. CASE FindNone
  <2>1. cache' = disk /\ UNCHANGED <<fixed, disk, mirr, mft, ctx, bits, alloc, dirty, owners, lost, faults>>
    BY <1>7, <1>1 DEF FindNone, Caches
  <2>2. \/ pc' = "grow" /\ UNCHANGED <<img, got, old>>
        \/ Leave("refused")
    BY <1>7 DEF FindNone, Refuse
  <2>3. pc' \in {"grow", "refused"} /\ LocalsOK'
    BY <2>2, LocalsKept, LocalsLeft
  <2> QED BY <2>1, <2>3, <1>1 DEF TypeOK, LocalsOK, fixed
<1>8. CASE AllocBegin
  BY <1>8 DEF AllocBegin, TypeOK, fixed, copies
<1> QED BY <1>5, <1>6, <1>7, <1>8


LEMMA TypeGrow ==
  ASSUME TypeOK, CopyInv, LocalInv, GrowAllocate \/ GrowZero \/ GrowWrite \/ GrowNoRoom
  PROVE  TypeOK'
<1>1. << >> \in Seq(Cluster)
  OBVIOUS
<1>2. CASE GrowAllocate
  <2>1. /\ got' \in Seq(Cluster) /\ alloc' \subseteq Cluster /\ pc' \in {"zero", "refused"}
        /\ img' \in Rec0 \cup {None} /\ old' \in Nat
    <3>1. ASSUME NEW s \in Grants(GrowClusters), got' = s, alloc' = alloc \cup Elems(s)
          PROVE  got' \in Seq(Cluster) /\ alloc' \subseteq Cluster
      <4>1. s \in Seq(Cluster) /\ Elems(s) \subseteq Cluster
        BY GrantIsRun
      <4> QED BY <3>1, <4>1 DEF TypeOK
    <3>2. \/ \E s \in Grants(GrowClusters) : got' = s /\ alloc' = alloc \cup Elems(s)
          \/ Leave("refused") /\ UNCHANGED alloc
      BY <1>2 DEF GrowAllocate, Refuse
    <3>3. (pc' = "zero" /\ UNCHANGED <<img, old>>) \/ Leave("refused")
      BY <1>2 DEF GrowAllocate, Refuse
    <3>4. got' \in Seq(Cluster) /\ alloc' \subseteq Cluster
      BY <3>1, <3>2, LocalsLeft DEF TypeOK, LocalsOK
    <3>5. pc' \in {"zero", "refused"} /\ img' \in Rec0 \cup {None} /\ old' \in Nat
      BY <3>3, LocalsLeft DEF TypeOK, LocalsOK
    <3> QED BY <3>4, <3>5
  <2>2. UNCHANGED <<fixed, copies, bits, dirty, owners, lost, faults>>
    BY <1>2 DEF GrowAllocate
  <2> QED BY <2>1, <2>2 DEF TypeOK, fixed, copies
<1>3. CASE GrowZero
  <2>1. dirty' \subseteq Cluster /\ alloc' \subseteq Cluster /\ faults' \in 0..MaxFaults
    BY <1>3, FaultType DEF GrowZero, TypeOK
  <2>2. UNCHANGED <<fixed, copies, bits, owners, lost>>
    BY <1>3 DEF GrowZero
  <2>3. (pc' = "append" /\ UNCHANGED <<img, got, old>>) \/ Leave("idle")
    BY <1>3 DEF GrowZero, Return
  <2>4. pc' \in {"append", "idle"} /\ LocalsOK'
    BY <2>3, LocalsKept, LocalsLeft
  <2> QED BY <2>1, <2>2, <2>4 DEF TypeOK, LocalsOK, fixed, copies
<1>4. CASE GrowWrite
  <2>1. mft \in Rec0 /\ got \in Seq(Cluster)
    BY <1>4 DEF GrowWrite, LocalInv, Running, Mounted, TypeOK
  <2>2. Grown \in Rec0
    BY <2>1, Images DEF Grown
  <2>3. /\ disk' \in Rec0 /\ mirr' \in Rec0 /\ cache' \in Rec0 \cup {None}
        /\ mft' \in Rec0 \cup {None} /\ faults' \in 0..MaxFaults
        /\ ctx' \in [place : Seq(Cluster), size : Nat] \cup {None}
    <3>1. CASE WriteRec0(Grown) /\ ctx' = Ctx(Grown)
      <4>1. WriteMftRec0(Grown)
        BY <3>1, <1>4 DEF GrowWrite, WriteMftRec0
      <4> QED BY <4>1, <2>2, WriteType
    <3>2. CASE Fault /\ Return /\ UNCHANGED <<disk, mirr, cache, ctx>>
      BY <3>2, <2>2, <1>4, FaultType DEF GrowWrite, TypeOK
    <3> QED BY <3>1, <3>2, <1>4 DEF GrowWrite
  <2>6. (pc' = "bitmap" /\ UNCHANGED <<img, got, old>>) \/ Leave("idle")
    BY <1>4 DEF GrowWrite, Return
  <2>4. pc' \in {"bitmap", "idle"} /\ LocalsOK'
    BY <2>6, LocalsKept, LocalsLeft
  <2>5. UNCHANGED <<fixed, bits, alloc, dirty, owners, lost>>
    BY <1>4 DEF GrowWrite
  <2> QED BY <2>3, <2>4, <2>5 DEF TypeOK, LocalsOK, fixed
<1>5. CASE GrowNoRoom
  BY <1>1, <1>5 DEF GrowNoRoom, Refuse, Leave, TypeOK, fixed, copies
<1> QED BY <1>2, <1>3, <1>4, <1>5

LEMMA TypeBitmap ==
  ASSUME TypeOK, CopyInv, LocalInv,
         BitmapLongEnough \/ BitmapResident \/ BitmapAllocate \/ BitmapWrite \/ BitmapZero
  PROVE  TypeOK'
<1>1. << >> \in Seq(Cluster)
  OBVIOUS
<1>2. Read = disk /\ disk \in Rec0
  BY ReadIsDisk DEF TypeOK
<1>3. ASSUME TooShort(Read), pc = "bitmap"
      PROVE  NeedBytes \in Nat /\ Longer(Read) \in Rec0
  <2>1. ctx = Ctx(disk) /\ disk \in Rec0
    BY <1>3 DEF LocalInv, CopyInv, Running, TypeOK
  <2>2. disk.len \in Nat /\ ctx.size \in Nat /\ ctx.size > disk.len * ByteBits
    BY <2>1, <1>2, <1>3 DEF Rec0, TooShort, Ctx
  <2> QED BY <2>2, <1>2, Grows, Images DEF Longer
<1>4. CASE BitmapLongEnough
  <2>1. /\ UNCHANGED <<fixed, disk, mirr, mft, ctx, bits, alloc, dirty, owners, lost, faults>>
        /\ cache' = disk /\ pc' = "again"
    BY <1>2, <1>4 DEF BitmapLongEnough, Caches, history
  <2>2. LocalsOK'
    BY <1>4, LocalsKept DEF BitmapLongEnough
  <2> QED BY <2>1, <2>2, <1>2 DEF TypeOK, LocalsOK, fixed
<1>5. CASE BitmapResident
  <2>1. /\ disk' \in Rec0 /\ mirr' \in Rec0 /\ cache' \in Rec0 \cup {None}
        /\ mft' \in Rec0 \cup {None} /\ faults' \in 0..MaxFaults
        /\ ctx' \in [place : Seq(Cluster), size : Nat] \cup {None}
    <3>1. CASE WriteMftRec0(Longer(Read))
      BY <3>1, <1>3, <1>5, WriteType DEF BitmapResident
    <3>2. CASE Fault /\ Caches /\ UNCHANGED <<disk, mirr, mft, ctx>>
      BY <3>2, <1>2, FaultType DEF TypeOK, Caches
    <3>3. CASE Caches /\ UNCHANGED <<disk, mirr, mft, ctx, faults>>
      BY <3>3, <1>2 DEF TypeOK, Caches
    <3> QED BY <3>1, <3>2, <3>3, <1>5 DEF BitmapResident
  <2>4. (pc' = "again" /\ UNCHANGED <<img, got, old>>) \/ Leave("idle") \/ Leave("refused")
    BY <1>5 DEF BitmapResident, Return, Refuse
  <2>2. pc' \in {"again", "idle", "refused"} /\ LocalsOK'
    BY <2>4, LocalsKept, LocalsLeft
  <2>3. UNCHANGED <<fixed, bits, alloc, dirty, owners, lost>>
    BY <1>5 DEF BitmapResident
  <2> QED BY <2>1, <2>2, <2>3 DEF TypeOK, LocalsOK, fixed
<1>6. CASE BitmapAllocate
  <2>1. UNCHANGED <<fixed, disk, mirr, mft, ctx, bits, dirty, owners, lost, faults>> /\ cache' = disk
    BY <1>2, <1>6 DEF BitmapAllocate, Caches
  <2>2. /\ pc' \in {"bmwrite", "refused"} /\ img' \in Rec0 \cup {None}
        /\ got' \in Seq(Cluster) /\ old' \in Nat /\ alloc' \subseteq Cluster
    <3>1. NeedBytes \in Nat /\ Longer(Read) \in Rec0 /\ disk.len \in Nat
      BY <1>2, <1>3, <1>6 DEF BitmapAllocate, Rec0
    <3>2. CASE /\ pc' = "bmwrite" /\ img' = Longer(Read) /\ old' = Read.len
               /\ UNCHANGED <<got, alloc>>
      BY <3>1, <3>2, <1>2 DEF TypeOK
    <3>3. CASE Refuse /\ UNCHANGED alloc
      BY <3>3, <1>1 DEF Refuse, Leave, TypeOK
    <3>4. ASSUME NEW s \in Grants(NeedClusters(Read)),
                 got' = s, alloc' = alloc \cup Elems(s), pc' = "bmwrite",
                 img' = [Longer(Read) EXCEPT !.bmap = @ \o s], old' = Read.len
          PROVE  /\ pc' \in {"bmwrite", "refused"} /\ img' \in Rec0 \cup {None}
                 /\ got' \in Seq(Cluster) /\ old' \in Nat /\ alloc' \subseteq Cluster
      <4>1. s \in Seq(Cluster) /\ Elems(s) \subseteq Cluster
        BY <3>4, GrantIsRun
      <4>2. [Longer(Read) EXCEPT !.bmap = @ \o s] \in Rec0
        BY <4>1, <3>1, <1>2, Images DEF Longer
      <4> QED BY <4>1, <4>2, <3>1, <3>4, <1>2 DEF TypeOK
    <3> QED BY <3>2, <3>3, <3>4, <1>6 DEF BitmapAllocate
  <2> QED BY <2>1, <2>2, <1>2 DEF TypeOK, fixed
<1>7. CASE BitmapWrite
  <2>1. img \in Rec0
    BY <1>7 DEF BitmapWrite, LocalInv, ImgInv
  <2>2. /\ disk' \in Rec0 /\ mirr' \in Rec0 /\ cache' \in Rec0 \cup {None}
        /\ mft' \in Rec0 \cup {None} /\ faults' \in 0..MaxFaults
        /\ ctx' \in [place : Seq(Cluster), size : Nat] \cup {None}
    <3>1. CASE WriteMftRec0(img)
      BY <3>1, <2>1, WriteType
    <3>2. CASE Fault /\ UNCHANGED <<disk, mirr, cache, mft, ctx>>
      BY <3>2, FaultType DEF TypeOK
    <3> QED BY <3>1, <3>2, <1>7 DEF BitmapWrite
  <2>3. bits' \subseteq Nat
    <3>1. \A a, b \in Nat : Span(a, b) \subseteq Nat
      BY SizeAssumption DEF Span
    <3>2. Capacity(disk) \in Nat /\ Capacity(img) \in Nat
      BY <2>1, <1>2, SizeAssumption DEF Capacity, Rec0
    <3>3. Span(Capacity(disk), Capacity(img)) \subseteq Nat
      BY <3>1, <3>2
    <3> QED BY <3>3, <1>7 DEF BitmapWrite, TypeOK
  <2>6. (pc' = "bmzero" /\ UNCHANGED <<img, got, old>>) \/ Leave("idle")
    BY <1>7 DEF BitmapWrite, Return
  <2>4. pc' \in {"bmzero", "idle"} /\ LocalsOK'
    BY <2>6, LocalsKept, LocalsLeft
  <2>5. UNCHANGED <<fixed, alloc, dirty, owners, lost>>
    BY <1>7 DEF BitmapWrite
  <2> QED BY <2>2, <2>3, <2>4, <2>5 DEF TypeOK, LocalsOK, fixed
<1>8. CASE BitmapZero
  <2>1. bits' \subseteq Nat /\ faults' \in 0..MaxFaults
    BY <1>8, FaultType DEF BitmapZero, TypeOK
  <2>4. (pc' = "again" /\ UNCHANGED <<img, got, old>>) \/ Leave("idle")
    BY <1>8 DEF BitmapZero, Return
  <2>2. pc' \in {"again", "idle"} /\ LocalsOK'
    BY <2>4, LocalsKept, LocalsLeft
  <2>3. UNCHANGED <<fixed, copies, alloc, dirty, owners, lost>>
    BY <1>8 DEF BitmapZero
  <2> QED BY <2>1, <2>2, <2>3 DEF TypeOK, LocalsOK, fixed, copies
<1> QED BY <1>4, <1>5, <1>6, <1>7, <1>8


LEMMA TypeFree ==
  ASSUME TypeOK, CopyInv, NEW r \in Record, FreeResident(r) \/ FreeNonResident(r)
  PROVE  TypeOK'
<1>1. Read = disk /\ disk \in Rec0
  BY ReadIsDisk DEF TypeOK
<1>2. Record \subseteq Nat
  BY DEF Record
<1>3. owners' \in [Record -> Nat] /\ UNCHANGED <<fixed, alloc, dirty, img, got, old>> /\ pc' = "idle"
  <2>1. owners \in [Record -> Nat] /\ owners[r] > 0 /\ owners' = [owners EXCEPT ![r] = owners[r] - 1]
    BY DEF FreeResident, FreeNonResident, TypeOK
  <2>2. owners[r] - 1 \in Nat
    BY <2>1
  <2>3. UNCHANGED <<fixed, alloc, dirty, img, got, old>> /\ pc' = "idle"
    BY DEF FreeResident, FreeNonResident
  <2> QED BY <2>1, <2>2, <2>3
<1>4. CASE FreeResident(r)
  <2>1. /\ disk' \in Rec0 /\ mirr' \in Rec0 /\ cache' \in Rec0 \cup {None}
        /\ mft' \in Rec0 \cup {None} /\ faults' \in 0..MaxFaults
        /\ ctx' \in [place : Seq(Cluster), size : Nat] \cup {None}
    <3>1. CASE WriteMftRec0([Read EXCEPT !.bm = @ \ {r}])
      BY <3>1, <1>1, <1>2, Images, WriteType
    <3>2. CASE Fault /\ Caches /\ UNCHANGED <<disk, mirr, mft, ctx>>
      BY <3>2, <1>1, FaultType DEF TypeOK, Caches
    <3> QED BY <3>1, <3>2, <1>4 DEF FreeResident
  <2>2. UNCHANGED <<bits, lost>>
    BY <1>4 DEF FreeResident
  <2> QED BY <2>1, <2>2, <1>3, LocalsKept DEF TypeOK, LocalsOK, fixed
<1>5. CASE FreeNonResident(r)
  <2>1. cache' = disk /\ UNCHANGED <<disk, mirr, mft, ctx>>
    BY <1>1, <1>5 DEF FreeNonResident, Caches
  <2>2. ByteOf(r) \subseteq Nat
    <3>1. r \div ByteBits \in Nat
      BY <1>2, DivNat, SizeAssumption
    <3>2. (r \div ByteBits) * ByteBits \in Nat
      BY <3>1, SizeAssumption
    <3> QED BY <3>2, SizeAssumption DEF ByteOf
  <2>3. bits' \subseteq Nat /\ lost' \subseteq Record /\ faults' \in 0..MaxFaults
    BY <1>5, <2>2, FaultType DEF FreeNonResident, TypeOK
  <2> QED BY <2>1, <2>3, <1>1, <1>3, LocalsKept DEF TypeOK, LocalsOK, fixed
<1> QED BY <1>4, <1>5

LEMMA TypeAround ==
  ASSUME TypeOK, Evict \/ Mount \/ Unmount \/ Crash
  PROVE  TypeOK'
<1>1. CASE Evict
  BY <1>1, LocalsKept DEF Evict, TypeOK, LocalsOK, fixed, local, history
<1>2. CASE Mount
  <2>1. Ctx(disk) \in [place : Seq(Cluster), size : Nat]
    BY DEF Ctx, Rec0, TypeOK
  <2> QED BY <1>2, <2>1, LocalsKept DEF Mount, TypeOK, LocalsOK, fixed, local, history
<1>3. ASSUME Forget, faults' \in 0..MaxFaults PROVE TypeOK'
  BY <1>3, LocalsLeft DEF Forget, Return, TypeOK, LocalsOK, fixed
<1>4. CASE Unmount
  BY <1>3, <1>4 DEF Unmount, TypeOK
<1>5. CASE Crash
  BY <1>3, <1>5, FaultType DEF Crash
<1> QED BY <1>1, <1>2, <1>4, <1>5

LEMMA TypeStep == TypeOK /\ CopyInv /\ LocalInv /\ [Next]_vars => TypeOK'
<1>1. SUFFICES ASSUME TypeOK, CopyInv, LocalInv, [Next]_vars PROVE TypeOK'
  OBVIOUS
<1>2. CASE UNCHANGED vars
  BY <1>1, <1>2 DEF vars, fixed, copies, local, history, TypeOK
<1> QED BY <1>1, <1>2, TypeFind, TypeGrow, TypeBitmap, TypeFree, TypeAround DEF Next, Step


(***************************************************************************)
(* The copies of record 0                                                  *)
(***************************************************************************)

LEMMA Distribute ==
  ASSUME NEW a \in Nat, NEW b \in Nat, NEW k \in Nat
  PROVE  (a + b) * k = a * k + b * k /\ a * k \in Nat /\ b * k \in Nat
OBVIOUS

\* The image that a growth writes continues what is on disk.
LEMMA GrownIsLonger ==
  ASSUME TypeOK, CopyInv, Mounted
  PROVE  /\ Grown \in Rec0 /\ Grown.place = mft.place \o got
         /\ Grown.size = Len(Grown.place) * PerCluster
         /\ Grown.bmap = disk.bmap /\ Grown.bm = disk.bm /\ Grown.len = disk.len
         /\ disk.size <= Grown.size
         /\ Len(disk.place) <= Len(Grown.place)
         /\ \A i \in DOMAIN disk.place : Grown.place[i] = disk.place[i]
<1>1. disk \in Rec0 /\ mft \in Rec0 /\ got \in Seq(Cluster) /\ Staged
  BY DEF TypeOK, CopyInv, Mounted
<1>2. mft.place \in Seq(Cluster) /\ disk.place \in Seq(Cluster)
  BY <1>1 DEF Rec0
<1>3. Grown = [mft EXCEPT !.place = mft.place \o got, !.size = Len(mft.place \o got) * PerCluster]
  BY DEF Grown
<1>4. Grown \in Rec0
  BY <1>1, <1>3, Images
<1>5. /\ Grown.place = mft.place \o got
      /\ Grown.size = Len(mft.place \o got) * PerCluster
      /\ Grown.bmap = mft.bmap /\ Grown.bm = mft.bm /\ Grown.len = mft.len
  BY <1>1, <1>3 DEF Rec0
<1>6. /\ Len(mft.place \o got) = Len(mft.place) + Len(got)
      /\ \A i \in DOMAIN mft.place : (mft.place \o got)[i] = mft.place[i]
  BY <1>1, <1>2, AppendRun
<1>7. Len(mft.place) \in Nat /\ Len(got) \in Nat /\ Len(disk.place) \in Nat
  BY <1>1, <1>2
<1>8. disk.size <= Grown.size
  <2>1. disk.size \in Nat /\ mft.size \in Nat /\ disk.size <= mft.size /\ mft.size <= Len(mft.place) * PerCluster
    BY <1>1 DEF Rec0, Staged
  <2>2. PICK a \in Nat, b \in Nat : a = Len(mft.place) /\ b = Len(got)
    BY <1>7
  <2>3. Grown.size = (a + b) * PerCluster /\ mft.size <= a * PerCluster
    BY <2>1, <2>2, <1>5, <1>6
  <2>4. PICK k \in Nat : k = PerCluster
    BY SizeAssumption
  <2>5. (a + b) * k = a * k + b * k /\ a * k \in Nat /\ b * k \in Nat
    BY Distribute
  <2> QED BY <2>1, <2>3, <2>4, <2>5
<1>9. ASSUME NEW i \in DOMAIN disk.place PROVE Grown.place[i] = disk.place[i]
  <2>1. i \in DOMAIN mft.place /\ mft.place[i] = disk.place[i]
    BY <1>1, <1>2, <1>7 DEF Staged
  <2> QED BY <2>1, <1>5, <1>6
<1> QED BY <1>1, <1>4, <1>5, <1>6, <1>7, <1>8, <1>9 DEF Staged

LEMMA WriteCopies ==
  ASSUME NEW rec \in Rec0, rec.size <= Len(rec.place) * PerCluster, WriteMftRec0(rec),
         CopyInv, faults \in Nat
  PROVE  CopyInv' /\ SizeInv' /\ Mounted' /\ disk' = rec /\ mft' = rec
<1>1. /\ disk' = rec /\ mft' = rec /\ cache' = rec /\ ctx' = Ctx(rec)
      /\ mirr' = rec \/ faults' = faults + 1
  BY DEF WriteMftRec0, WriteRec0, Fault
<1>2. Mounted'
  BY <1>1, NoneAssumption DEF Mounted
<1>3. Staged'
  BY <1>1 DEF Staged, Rec0
<1>4. (ctx = Ctx(disk))'
  BY <1>1 DEF Ctx
<1>5. faults' = 0 => mirr' = disk'
  BY <1>1
<1> QED BY <1>1, <1>2, <1>3, <1>4, <1>5 DEF CopyInv, SizeInv

\* The copies change together or not at all.
LEMMA CopyStep ==
  TypeOK /\ CopyInv /\ LocalInv /\ SizeInv /\ [Next]_vars => CopyInv' /\ SizeInv'
<1>1. SUFFICES ASSUME TypeOK, CopyInv, LocalInv, SizeInv, [Next]_vars PROVE CopyInv' /\ SizeInv'
  OBVIOUS
<1>2. Read = disk /\ disk \in Rec0 /\ faults \in Nat
  BY <1>1, ReadIsDisk, SizeAssumption DEF TypeOK
<1>3. ASSUME UNCHANGED <<disk, mirr, mft, ctx>>, cache' \in {None, cache, disk},
             faults' = faults \/ faults' = faults + 1
      PROVE  CopyInv' /\ SizeInv'
  <2>1. (faults' = 0 => faults = 0) /\ cache' \in {None, disk'}
    BY <1>1, <1>2, <1>3 DEF CopyInv
  <2>2. Mounted' <=> Mounted
    BY <1>3 DEF Mounted
  <2>3. Staged' <=> Staged
    BY <1>3 DEF Staged
  <2>4. SizeInv'
    BY <1>1, <1>3 DEF SizeInv
  <2> QED BY <1>1, <1>3, <2>1, <2>2, <2>3, <2>4 DEF CopyInv, Ctx
<1>4. ASSUME NEW rec \in Rec0, rec.size = disk.size, rec.place = disk.place, WriteMftRec0(rec)
      PROVE  CopyInv' /\ SizeInv'
  BY <1>1, <1>2, <1>4, WriteCopies DEF SizeInv
<1>5. CASE UNCHANGED vars
  BY <1>3, <1>5 DEF vars, copies
<1>6. CASE AllocBegin \/ FindNone \/ FindNonResident \/ GrowAllocate \/ GrowZero \/ GrowNoRoom
           \/ BitmapLongEnough \/ BitmapAllocate \/ BitmapZero \/ Evict
  <2>1. /\ UNCHANGED <<disk, mirr, mft, ctx>> /\ cache' \in {None, cache, disk}
        /\ faults' = faults \/ faults' = faults + 1
    BY <1>2, <1>6 DEF AllocBegin, FindNone, FindNonResident, GrowAllocate, GrowZero, GrowNoRoom,
         BitmapLongEnough, BitmapAllocate, BitmapZero, Evict, copies, history, Caches, Fault
  <2> QED BY <1>3, <2>1
<1>7. CASE FindResident
  <2>1. PICK r \in FirstFree(Read) :
          \/ WriteMftRec0([Read EXCEPT !.bm = @ \cup {r}])
          \/ Fault /\ Caches /\ UNCHANGED <<disk, mirr, mft, ctx>>
    BY <1>7 DEF FindResident
  <2>2. r \in Nat
    BY SizeAssumption DEF FirstFree, FreeRecords
  <2>3. CASE WriteMftRec0([Read EXCEPT !.bm = @ \cup {r}])
    <3>1. [disk EXCEPT !.bm = @ \cup {r}] \in Rec0
      BY <1>2, <2>2, Images
    <3> QED BY <1>2, <1>4, <2>3, <3>1 DEF Rec0
  <2>4. CASE Fault /\ Caches /\ UNCHANGED <<disk, mirr, mft, ctx>>
    BY <1>2, <1>3, <2>4 DEF Fault, Caches
  <2> QED BY <2>1, <2>3, <2>4
<1>8. CASE GrowWrite
  <2>1. Mounted
    BY <1>1, <1>8 DEF GrowWrite, LocalInv, Running
  <2>2. Grown \in Rec0 /\ Grown.size <= Len(Grown.place) * PerCluster
    BY <1>1, <2>1, GrownIsLonger DEF Rec0
  <2>3. CASE WriteRec0(Grown) /\ ctx' = Ctx(Grown)
    <3>1. WriteMftRec0(Grown)
      BY <1>8, <2>3 DEF GrowWrite, WriteMftRec0
    <3> QED BY <3>1, <2>2, <1>1, <1>2, WriteCopies
  <2>4. CASE Fault /\ UNCHANGED <<disk, mirr, cache, ctx>>
    <3>1. mft' = Grown /\ faults' = faults + 1 /\ UNCHANGED <<disk, mirr, cache, ctx>>
      BY <1>8, <2>4 DEF GrowWrite, Fault
    <3>2. Staged'
      BY <3>1, <2>1, <2>2, <1>1, GrownIsLonger DEF Staged
    <3>3. faults' # 0 /\ (ctx = Ctx(disk))'
      BY <3>1, <2>1, <1>1, <1>2 DEF CopyInv, Ctx
    <3> QED BY <3>1, <3>2, <3>3, <1>1 DEF CopyInv, SizeInv
  <2> QED BY <2>3, <2>4, <1>8 DEF GrowWrite
<1>9. CASE BitmapResident
  <2>1. ASSUME WriteMftRec0(Longer(Read)) PROVE CopyInv' /\ SizeInv'
    <3>1. NeedBytes \in Nat
      <4>1. ctx = Ctx(disk) /\ TooShort(Read)
        BY <1>1, <1>9 DEF BitmapResident, LocalInv, CopyInv, Running
      <4>2. disk.len \in Nat /\ ctx.size \in Nat /\ ctx.size > disk.len * ByteBits
        BY <4>1, <1>2 DEF Rec0, Ctx, TooShort
      <4> QED BY <4>2, Grows
    <3>2. Longer(disk) \in Rec0 /\ Longer(disk).size = disk.size /\ Longer(disk).place = disk.place
      BY <3>1, <1>2, Images DEF Longer, Rec0
    <3> QED BY <3>2, <2>1, <1>2, <1>4
  <2>2. \/ WriteMftRec0(Longer(Read))
        \/ /\ UNCHANGED <<disk, mirr, mft, ctx>> /\ cache' = disk
           /\ faults' = faults \/ faults' = faults + 1
    BY <1>2, <1>9 DEF BitmapResident, Caches, Fault
  <2> QED BY <2>1, <2>2, <1>3
<1>10. CASE BitmapWrite
  <2>1. img \in Rec0 /\ img.size = disk.size /\ img.place = disk.place
    BY <1>1, <1>10 DEF BitmapWrite, LocalInv, ImgInv
  <2>2. \/ WriteMftRec0(img)
        \/ UNCHANGED <<disk, mirr, cache, mft, ctx>> /\ faults' = faults + 1
    BY <1>10 DEF BitmapWrite, Fault
  <2> QED BY <2>1, <2>2, <1>3, <1>4
<1>11. ASSUME NEW r \in Record, FreeResident(r) \/ FreeNonResident(r) PROVE CopyInv' /\ SizeInv'
  <2>1. r \in Nat
    BY DEF Record
  <2>2. [disk EXCEPT !.bm = @ \ {r}] \in Rec0
    BY <1>2, <2>1, Images
  <2>3. \/ WriteMftRec0([disk EXCEPT !.bm = @ \ {r}])
        \/ /\ UNCHANGED <<disk, mirr, mft, ctx>> /\ cache' = disk
           /\ faults' = faults \/ faults' = faults + 1
    BY <1>2, <1>11 DEF FreeResident, FreeNonResident, Caches, Fault
  <2> QED BY <2>2, <2>3, <1>2, <1>3, <1>4 DEF Rec0
<1>12. CASE Mount
  <2>1. mft' = disk /\ ctx' = Ctx(disk) /\ cache' = None /\ UNCHANGED <<disk, mirr, faults>>
    BY <1>12 DEF Mount
  <2>2. Staged'
    BY <2>1, <1>1, <1>2 DEF Staged, SizeInv, Rec0
  <2> QED BY <2>1, <2>2, <1>1 DEF CopyInv, SizeInv, Ctx
<1>13. CASE Unmount \/ Crash
  <2>1. /\ mft' = None /\ cache' = None /\ UNCHANGED <<disk, mirr>>
        /\ faults' = faults \/ faults' = faults + 1
    BY <1>13 DEF Unmount, Crash, Forget, Fault
  <2> QED BY <2>1, <1>1, <1>2 DEF CopyInv, SizeInv, Mounted
<1> QED BY <1>1, <1>5, <1>6, <1>7, <1>8, <1>9, <1>10, <1>11, <1>12, <1>13 DEF Next, Step


(***************************************************************************)
(* Clusters                                                                *)
(***************************************************************************)

\* The copy that growth edits maps all that the disk maps.
LEMMA StagedCovers ==
  ASSUME TypeOK, CopyInv, Mounted
  PROVE  Clusters(disk) \subseteq Clusters(mft)
<1>1. disk \in Rec0 /\ mft \in Rec0 /\ Staged
  BY DEF TypeOK, CopyInv, Mounted
<1>2. DOMAIN disk.place \subseteq DOMAIN mft.place
  BY <1>1 DEF Staged, Rec0
<1>3. Elems(disk.place) \subseteq Elems(mft.place)
  BY <1>1, <1>2 DEF Staged, Elems
<1> QED BY <1>1, <1>3 DEF Clusters, Staged

\* What a run list in use may map.
Good(rec, owned) == MapsOnce(rec) /\ Clusters(rec) \subseteq owned

LEMMA FilesFixed == [Next]_vars => UNCHANGED <<files, resident>>
<1>1. AllocBegin \/ FindResident \/ FindNonResident \/ FindNone \/ GrowAllocate \/ GrowZero
        => UNCHANGED fixed
  BY DEF AllocBegin, FindResident, FindNonResident, FindNone, GrowAllocate, GrowZero
<1>2. GrowWrite \/ GrowNoRoom \/ BitmapLongEnough \/ BitmapResident \/ BitmapAllocate
        => UNCHANGED fixed
  BY DEF GrowWrite, GrowNoRoom, BitmapLongEnough, BitmapResident, BitmapAllocate
<1>3. BitmapWrite \/ BitmapZero \/ Evict \/ Mount \/ Unmount \/ Crash => UNCHANGED fixed
  BY DEF BitmapWrite, BitmapZero, Evict, Mount, Unmount, Crash, Forget
<1>4. \A r \in Record : FreeResident(r) \/ FreeNonResident(r) => UNCHANGED fixed
  BY DEF FreeResident, FreeNonResident
<1>5. UNCHANGED vars => UNCHANGED fixed
  BY DEF vars
<1>6. [Next]_vars => UNCHANGED fixed
  BY <1>1, <1>2, <1>3, <1>4, <1>5 DEF Next, Step
<1> QED BY <1>6 DEF fixed

LEMMA ExtentStep ==
  TypeOK /\ CopyInv /\ LocalInv /\ ExtentsSound /\ [Next]_vars => ExtentsSound'
<1>1. SUFFICES ASSUME TypeOK, CopyInv, LocalInv, ExtentsSound, [Next]_vars PROVE ExtentsSound'
  OBVIOUS
<1>2. Read = disk /\ disk \in Rec0 /\ disk # None
  BY <1>1, ReadIsDisk, NoneAssumption DEF TypeOK
<1>3. /\ files \subseteq alloc /\ Good(disk, alloc \ files)
      /\ Mounted => Good(mft, alloc \ files)
      /\ Elems(got) \subseteq alloc \ files
  BY <1>1, <1>2 DEF ExtentsSound, Good, Mounted
<1>5. Elems(<< >>) = {} /\ UNCHANGED files
  BY <1>1, FilesFixed DEF Elems
<1>6. ASSUME UNCHANGED <<disk, alloc>>, mft' \in {mft, None, disk}, got' \in {got, << >>}
      PROVE  ExtentsSound'
  BY <1>3, <1>5, <1>6 DEF ExtentsSound, Good, Mounted
<1>7. ASSUME NEW rec, disk' = rec, mft' = rec, UNCHANGED alloc, got' \in {got, << >>},
             rec.place = disk.place, rec.bmap = disk.bmap
      PROVE  ExtentsSound'
  BY <1>3, <1>5, <1>7 DEF ExtentsSound, Good, MapsOnce, Clusters
<1>8. CASE UNCHANGED vars
  BY <1>6, <1>8 DEF vars, copies, local
<1>9. CASE AllocBegin \/ FindNone \/ FindNonResident \/ BitmapLongEnough \/ BitmapZero \/ Evict
           \/ Mount \/ Unmount \/ Crash
  <2>1. UNCHANGED <<disk, alloc>> /\ mft' \in {mft, None, disk} /\ got' \in {got, << >>}
    BY <1>9 DEF AllocBegin, FindNone, FindNonResident, BitmapLongEnough, BitmapZero, Evict, Mount,
         Unmount, Crash, Forget, Return, Refuse, Leave, copies, local
  <2> QED BY <1>6, <2>1
<1>10. CASE FindResident
  <2>1. UNCHANGED alloc /\ got' = << >>
    BY <1>10 DEF FindResident, Return, Leave
  <2>2. PICK r \in FirstFree(Read) :
          \/ WriteMftRec0([Read EXCEPT !.bm = @ \cup {r}])
          \/ UNCHANGED <<disk, mft>>
    BY <1>10 DEF FindResident
  <2>3. CASE WriteMftRec0([Read EXCEPT !.bm = @ \cup {r}])
    BY <1>2, <1>7, <2>1, <2>3 DEF WriteMftRec0, WriteRec0, Rec0
  <2> QED BY <1>6, <2>1, <2>2, <2>3
<1>11. ASSUME NEW r \in Record, FreeResident(r) \/ FreeNonResident(r) PROVE ExtentsSound'
  <2>1. UNCHANGED <<alloc, got>>
    BY <1>11 DEF FreeResident, FreeNonResident
  <2>2. \/ WriteMftRec0([disk EXCEPT !.bm = @ \ {r}])
        \/ UNCHANGED <<disk, mft>>
    BY <1>2, <1>11 DEF FreeResident, FreeNonResident
  <2>3. CASE WriteMftRec0([disk EXCEPT !.bm = @ \ {r}])
    BY <1>2, <1>7, <2>1, <2>3 DEF WriteMftRec0, WriteRec0, Rec0
  <2> QED BY <1>6, <2>1, <2>2, <2>3
<1>12. CASE BitmapResident
  <2>1. UNCHANGED alloc /\ got' \in {got, << >>}
    BY <1>12 DEF BitmapResident, Return, Refuse, Leave
  <2>2. WriteMftRec0(Longer(disk)) \/ UNCHANGED <<disk, mft>>
    BY <1>2, <1>12 DEF BitmapResident
  <2>3. CASE WriteMftRec0(Longer(disk))
    BY <1>2, <1>7, <2>1, <2>3 DEF WriteMftRec0, WriteRec0, Rec0, Longer
  <2> QED BY <1>6, <2>1, <2>2, <2>3
<1>13. CASE BitmapWrite
  <2>1. UNCHANGED alloc /\ got' \in {got, << >>}
    BY <1>13 DEF BitmapWrite, Return, Leave
  <2>2. WriteMftRec0(img) \/ UNCHANGED <<disk, mft>>
    BY <1>13 DEF BitmapWrite
  <2>3. CASE WriteMftRec0(img)
    <3>1. disk' = img /\ mft' = img /\ Good(img, alloc \ files)
      BY <1>1, <1>13, <2>3 DEF WriteMftRec0, WriteRec0, BitmapWrite, LocalInv, ImgInv, Good
    <3> QED BY <3>1, <2>1, <1>3, <1>5 DEF ExtentsSound, Good
  <2> QED BY <1>6, <2>1, <2>2, <2>3
<1>14. ASSUME UNCHANGED <<disk, mft>>, alloc \subseteq alloc', Elems(got') \subseteq alloc' \ files
       PROVE  ExtentsSound'
  BY <1>3, <1>5, <1>14 DEF ExtentsSound, Good, Mounted
<1>15. ASSUME NEW need, NEW t \in Grants(need) PROVE Elems(t) \cap alloc = {}
  BY GrantIsRun
<1>16. CASE GrowAllocate
  <2>1. \/ \E t \in Grants(GrowClusters) : got' = t /\ alloc' = alloc \cup Elems(t)
        \/ got' = << >> /\ UNCHANGED alloc
    BY <1>16 DEF GrowAllocate, Refuse, Leave
  <2>2. UNCHANGED <<disk, mft>>
    BY <1>16 DEF GrowAllocate, copies
  <2>3. alloc \subseteq alloc' /\ Elems(got') \subseteq alloc' \ files
    BY <2>1, <1>3, <1>5, <1>15
  <2> QED BY <2>2, <2>3, <1>14
<1>17. CASE BitmapAllocate
  <2>1. \/ \E t \in Grants(NeedClusters(Read)) : got' = t /\ alloc' = alloc \cup Elems(t)
        \/ got' \in {got, << >>} /\ UNCHANGED alloc
    BY <1>17 DEF BitmapAllocate, Refuse, Leave
  <2>2. UNCHANGED <<disk, mft>>
    BY <1>17 DEF BitmapAllocate
  <2>3. alloc \subseteq alloc' /\ Elems(got') \subseteq alloc' \ files
    BY <2>1, <1>3, <1>5, <1>15
  <2> QED BY <2>2, <2>3, <1>14
<1>18. CASE GrowZero \/ GrowNoRoom
  <2>1. UNCHANGED <<disk, mft>>
    BY <1>18 DEF GrowZero, GrowNoRoom, copies
  <2>2. \/ UNCHANGED <<alloc, got>>
        \/ alloc' = alloc \ Elems(got) /\ got' = << >>
    BY <1>18 DEF GrowZero, GrowNoRoom, Return, Refuse, Leave
  <2>3. Adding(got, mft) /\ Mounted
    BY <1>1, <1>18 DEF GrowZero, GrowNoRoom, LocalInv, Running
  <2>4. Clusters(disk) \cap Elems(got) = {} /\ Clusters(mft) \cap Elems(got) = {}
    BY <1>1, <2>3, StagedCovers DEF Adding
  <2>5. CASE alloc' = alloc \ Elems(got) /\ got' = << >>
    <3>1. files' \subseteq alloc'
      BY <1>3, <1>5, <2>5
    <3>2. Good(disk', alloc' \ files') /\ Good(mft', alloc' \ files')
      BY <1>3, <1>5, <2>1, <2>3, <2>4, <2>5 DEF Good
    <3> QED BY <3>1, <3>2, <2>5, <1>5 DEF ExtentsSound, Good
  <2> QED BY <2>1, <2>2, <2>5, <1>6
<1>19. CASE GrowWrite
  <2>1. Mounted /\ Adding(got, mft) /\ UNCHANGED alloc /\ got' \in {got, << >>}
    BY <1>1, <1>19 DEF GrowWrite, LocalInv, Running, Return, Leave
  <2>2. mft' = Grown /\ disk' \in {disk, Grown}
    BY <1>19 DEF GrowWrite, WriteRec0
  <2>3. mft \in Rec0 /\ got \in Seq(Cluster) /\ mft.bmap = disk.bmap
    BY <1>1, <2>1 DEF TypeOK, Mounted, CopyInv, Staged
  <2>4. Grown.place = mft.place \o got /\ Grown.bmap = mft.bmap
    BY <1>1, <2>1, <2>3, GrownIsLonger
  <2>5. /\ Elems(Grown.place) = Elems(mft.place) \cup Elems(got)
        /\ Injective(mft.place) /\ Injective(got) /\ Elems(mft.place) \cap Elems(got) = {}
             => Injective(Grown.place)
    BY <2>3, <2>4, AppendRun DEF Rec0
  <2>6. Good(Grown, alloc \ files)
    BY <1>3, <2>1, <2>4, <2>5 DEF Good, MapsOnce, Clusters, Adding
  <2> QED BY <2>1, <2>2, <2>6, <1>3, <1>5 DEF ExtentsSound, Good
<1> QED BY <1>1, <1>8, <1>9, <1>10, <1>11, <1>12, <1>13, <1>16, <1>17, <1>18, <1>19 DEF Next, Step


(***************************************************************************)
(* The call in progress                                                    *)
(***************************************************************************)
LEMMA LocalStep ==
  TypeOK /\ CopyInv /\ LocalInv /\ ExtentsSound /\ [Next]_vars => LocalInv'
<1>1. SUFFICES ASSUME TypeOK, CopyInv, LocalInv, ExtentsSound, [Next]_vars PROVE LocalInv'
  OBVIOUS
<1>2. Read = disk /\ disk \in Rec0 /\ disk # None
  BY <1>1, ReadIsDisk, NoneAssumption DEF TypeOK
<1>3. UNCHANGED <<files, resident>>
  BY <1>1, FilesFixed
\* A call that is over, or in one of the phases that rely on nothing but the mount.
<1>4. ASSUME pc' \in {"idle", "refused"} PROVE LocalInv'
  BY <1>4 DEF LocalInv, Running
<1>5. ASSUME pc' \in {"find", "again", "grow", "bitmap"}, Mounted' PROVE LocalInv'
  BY <1>5 DEF LocalInv, Running
<1>6. CASE UNCHANGED vars
  BY <1>1, <1>6 DEF vars, fixed, copies, local, LocalInv, Running, Mounted, Adding, ImgInv
<1>7. CASE AllocBegin
  BY <1>5, <1>7 DEF AllocBegin, Mounted, copies
<1>8. CASE FindResident \/ FindNonResident \/ Unmount \/ Crash
  BY <1>4, <1>8 DEF FindResident, FindNonResident, Unmount, Crash, Forget, Return, Leave
<1>9. CASE FindNone
  <2>1. Mounted'
    BY <1>1, <1>9 DEF FindNone, LocalInv, Running, Mounted
  <2> QED BY <1>4, <1>5, <1>9, <2>1 DEF FindNone, Refuse, Leave
<1>10. CASE GrowAllocate
  <2>1. Mounted /\ Mounted'
    BY <1>1, <1>10 DEF GrowAllocate, LocalInv, Running, Mounted, copies
  <2>2. CASE Refuse
    BY <1>4, <2>2 DEF Refuse, Leave
  <2>3. ASSUME NEW s \in Grants(GrowClusters), got' = s, alloc' = alloc \cup Elems(s), pc' = "zero"
        PROVE  LocalInv'
    <3>1. Injective(s) /\ Elems(s) \cap alloc = {} /\ s # << >>
      BY GrantIsRun
    <3>2. mft' = mft /\ Clusters(mft) \subseteq alloc /\ files \subseteq alloc
      BY <1>1, <1>10, <2>1 DEF GrowAllocate, copies, ExtentsSound, Mounted
    <3>3. Adding(got, mft)'
      BY <3>1, <3>2, <2>3, <1>3 DEF Adding
    <3> QED BY <2>1, <2>3, <3>1, <3>3 DEF LocalInv
  <2> QED BY <1>10, <2>2, <2>3 DEF GrowAllocate
<1>11. CASE GrowZero
  <2>1. CASE Return
    BY <1>4, <2>1 DEF Return, Leave
  <2>2. CASE pc' = "append" /\ UNCHANGED <<img, got, old, alloc, faults>>
    <3>1. Mounted' /\ Adding(got, mft)' /\ got' # << >>
      BY <1>1, <1>3, <1>11, <2>2 DEF GrowZero, LocalInv, Running, Mounted, Adding, copies
    <3> QED BY <2>2, <3>1 DEF LocalInv
  <2> QED BY <1>11, <2>1, <2>2 DEF GrowZero
<1>12. CASE GrowWrite
  <2>1. mft' = Grown /\ Mounted
    BY <1>1, <1>12 DEF GrowWrite, LocalInv, Running
  <2>2. Mounted'
    BY <1>1, <2>1, GrownIsLonger, NoneAssumption DEF Mounted
  <2>3. pc' \in {"idle", "bitmap"}
    BY <1>12 DEF GrowWrite, Return, Leave
  <2> QED BY <1>4, <1>5, <2>2, <2>3
<1>13. CASE GrowNoRoom
  BY <1>4, <1>13 DEF GrowNoRoom, Refuse, Leave
<1>14. CASE BitmapLongEnough
  BY <1>1, <1>5, <1>14 DEF BitmapLongEnough, LocalInv, Running, Mounted
<1>15. ASSUME pc = "bitmap", TooShort(disk)
       PROVE  /\ NeedBytes \in Nat /\ disk.len <= NeedBytes /\ Longer(disk) \in Rec0
              /\ Mounted /\ disk.len \in Nat
  <2>1. ctx = Ctx(disk) /\ Mounted
    BY <1>1, <1>15 DEF LocalInv, CopyInv, Running
  <2>2. disk.len \in Nat /\ ctx.size \in Nat /\ ctx.size > disk.len * ByteBits
    BY <1>2, <1>15, <2>1 DEF Rec0, Ctx, TooShort
  <2> QED BY <1>2, <2>1, <2>2, Grows, Images DEF Longer
<1>16. CASE BitmapResident
  <2>1. CASE WriteMftRec0(Longer(Read)) /\ pc' = "again"
    <3>1. mft' = Longer(disk) /\ Longer(disk) \in Rec0
      BY <1>2, <1>15, <1>16, <2>1 DEF BitmapResident, WriteMftRec0
    <3> QED BY <1>5, <2>1, <3>1, NoneAssumption DEF Mounted
  <2>2. CASE Return \/ Refuse
    BY <1>4, <2>2 DEF Return, Refuse, Leave
  <2> QED BY <1>16, <2>1, <2>2 DEF BitmapResident
<1>17. CASE BitmapAllocate
  <2>1. /\ pc = "bitmap" /\ TooShort(disk) /\ ~resident /\ UNCHANGED <<disk, mft>>
    BY <1>2, <1>17 DEF BitmapAllocate
  <2>2. /\ NeedBytes \in Nat /\ disk.len <= NeedBytes /\ Longer(disk) \in Rec0
        /\ Mounted /\ Mounted' /\ disk.len \in Nat
    BY <1>15, <2>1 DEF Mounted
  <2>3. /\ Longer(disk).place = disk.place /\ Longer(disk).size = disk.size
        /\ Longer(disk).bm = disk.bm /\ Longer(disk).bmap = disk.bmap
        /\ Longer(disk).len = NeedBytes
    BY <1>2 DEF Rec0, Longer
  <2>4. files \subseteq alloc /\ MapsOnce(disk) /\ Clusters(disk) \subseteq alloc \ files
    BY <1>1, <1>2 DEF ExtentsSound
  <2>5. CASE Refuse
    BY <1>4, <2>5 DEF Refuse, Leave
  <2>6. CASE pc' = "bmwrite" /\ img' = Longer(Read) /\ old' = Read.len /\ UNCHANGED alloc
    <3>1. ImgInv'
      BY <1>2, <1>3, <2>1, <2>2, <2>3, <2>4, <2>6 DEF ImgInv, MapsOnce, Clusters
    <3>2. old' = disk'.len /\ old' <= disk'.len
      BY <1>2, <2>1, <2>2, <2>6
    <3> QED BY <2>2, <2>6, <3>1, <3>2 DEF LocalInv
  <2>7. ASSUME NEW s \in Grants(NeedClusters(Read)), alloc' = alloc \cup Elems(s), pc' = "bmwrite",
               img' = [Longer(Read) EXCEPT !.bmap = @ \o s], old' = Read.len
        PROVE  LocalInv'
    <3>1. s \in Seq(Cluster) /\ Injective(s) /\ Elems(s) \cap alloc = {}
      BY GrantIsRun
    <3>2. img' \in Rec0
      BY <1>2, <2>2, <2>7, <3>1, Images DEF Longer
    <3>3. /\ img'.place = disk.place /\ img'.size = disk.size /\ img'.bm = disk.bm
          /\ img'.bmap = disk.bmap \o s /\ img'.len = NeedBytes
      BY <1>2, <2>2, <2>3, <2>7 DEF Rec0
    <3>4. disk.bmap \in Seq(Cluster)
      BY <1>2 DEF Rec0
    <3>5. /\ Elems(img'.bmap) = Elems(disk.bmap) \cup Elems(s)
          /\ Injective(disk.bmap) /\ Elems(disk.bmap) \cap Elems(s) = {} => Injective(img'.bmap)
      BY <3>1, <3>3, <3>4, AppendRun
    <3>6. MapsOnce(img') /\ Clusters(img') \subseteq alloc' \ files
      BY <2>4, <2>7, <3>1, <3>3, <3>5 DEF MapsOnce, Clusters
    <3>7. ImgInv'
      BY <1>2, <1>3, <2>1, <2>2, <2>7, <3>2, <3>3, <3>6 DEF ImgInv
    <3>8. old' = disk'.len /\ old' <= disk'.len
      BY <1>2, <2>1, <2>2, <2>7
    <3> QED BY <2>2, <2>7, <3>7, <3>8 DEF LocalInv
  <2> QED BY <1>17, <2>5, <2>6, <2>7 DEF BitmapAllocate
<1>18. CASE BitmapWrite
  <2>1. CASE Return
    BY <1>4, <2>1 DEF Return, Leave
  <2>2. CASE WriteMftRec0(img) /\ pc' = "bmzero" /\ UNCHANGED <<img, got, old>>
    <3>1. disk' = img /\ mft' = img /\ img \in Rec0 /\ UNCHANGED alloc /\ ImgInv
      BY <1>1, <1>18, <2>2 DEF BitmapWrite, WriteMftRec0, WriteRec0, LocalInv, ImgInv
    <3>2. ImgInv' /\ old' <= disk'.len /\ img'.len = disk'.len
      BY <1>3, <2>2, <3>1 DEF ImgInv
    <3>3. Mounted'
      BY <3>1, NoneAssumption DEF Mounted
    <3> QED BY <2>2, <3>2, <3>3 DEF LocalInv
  <2> QED BY <1>18, <2>1, <2>2 DEF BitmapWrite
<1>19. CASE BitmapZero
  <2>1. pc' \in {"idle", "again"} /\ Mounted'
    BY <1>1, <1>19 DEF BitmapZero, LocalInv, Running, Mounted, Return, Leave, copies
  <2> QED BY <1>4, <1>5, <2>1
<1>20. ASSUME NEW r \in Record, FreeResident(r) \/ FreeNonResident(r) PROVE LocalInv'
  BY <1>4, <1>20 DEF FreeResident, FreeNonResident
<1>21. CASE Evict
  BY <1>1, <1>21 DEF Evict, fixed, local, LocalInv, Running, Mounted, Adding, ImgInv
<1>22. CASE Mount
  <2>1. pc' \in {"idle", "refused"}
    BY <1>1, <1>22 DEF Mount, LocalInv, Running, TypeOK, local
  <2> QED BY <1>4, <2>1
<1> QED BY <1>1, <1>6, <1>7, <1>8, <1>9, <1>10, <1>11, <1>12, <1>13, <1>14, <1>16, <1>17, <1>18,
      <1>19, <1>20, <1>21, <1>22 DEF Next, Step


(***************************************************************************)
(* The bits of the table's bitmap                                          *)
(***************************************************************************)

\* A bit that is inside a bitmap is inside a longer one.
LEMMA LongerCovers ==
  ASSUME NEW m \in Nat, NEW n \in Nat, m <= n
  PROVE  m * ByteBits \in Nat /\ n * ByteBits \in Nat /\ m * ByteBits <= n * ByteBits
<1>1. PICK d \in Nat : n = m + d
  <2>1. n - m \in Nat /\ n = m + (n - m)
    OBVIOUS
  <2> QED BY <2>1
<1>2. PICK k \in Nat : k = ByteBits
  BY SizeAssumption
<1>3. (m + d) * k = m * k + d * k /\ m * k \in Nat /\ d * k \in Nat
  BY <1>2, Distribute
<1> QED BY <1>1, <1>2, <1>3

\* A step that takes no bit away and hands no record out.
Quiet ==
  /\ UNCHANGED <<owners, lost>>
  /\ Marked(disk) \subseteq Marked(disk)'
  /\ disk.size <= disk'.size /\ disk.len <= disk'.len
  /\ pc' \in {"bmwrite", "bmzero"} => pc \in {"bmwrite", "bmzero"} /\ UNCHANGED old

LEMMA QuietMarks ==
  ASSUME MarkInv, Quiet, disk \in Rec0, disk' \in Rec0
  PROVE  MarkInv'
<1>1. disk.len * ByteBits \in Nat /\ disk'.len * ByteBits \in Nat
      /\ disk.len * ByteBits <= disk'.len * ByteBits
  BY LongerCovers DEF Quiet, Rec0
<1>2. disk.size \in Nat /\ disk'.size \in Nat /\ disk.size <= disk'.size
  BY DEF Quiet, Rec0
<1>3. SUFFICES ASSUME NEW r \in Record \ lost'
               PROVE  /\ owners'[r] <= 1
                      /\ owners'[r] = 1 =>
                           /\ r \in Marked(disk)' /\ r < disk'.size /\ r < disk'.len * ByteBits
                           /\ pc' \in {"bmwrite", "bmzero"} => r < old' * ByteBits
  BY DEF MarkInv
<1>4. r \in Record \ lost /\ r \in Nat /\ owners' = owners
  BY <1>3 DEF Quiet, Record
<1>5. /\ owners[r] <= 1
      /\ owners[r] = 1 =>
           /\ r \in Marked(disk) /\ r < disk.size /\ r < disk.len * ByteBits
           /\ pc \in {"bmwrite", "bmzero"} => r < old * ByteBits
  BY <1>4 DEF MarkInv
<1>6. owners[r] = 1 => r \in Marked(disk)' /\ (pc' \in {"bmwrite", "bmzero"} => r < old' * ByteBits)
  BY <1>5 DEF Quiet
<1>7. owners[r] = 1 => r < disk'.size /\ r < disk'.len * ByteBits
  BY <1>1, <1>2, <1>4, <1>5
<1> QED BY <1>4, <1>5, <1>6, <1>7

\* A free record is in the table, its bit in the bitmap, and nobody has it.
LEMMA FreeIsNobodys ==
  ASSUME TypeOK, CopyInv, MarkInv, Mounted, NEW r \in FirstFree(Read)
  PROVE  /\ r \in Nat /\ r < disk.size /\ r < disk.len * ByteBits /\ r \notin Marked(disk)
         /\ r \in Record \ lost => owners[r] = 0
<1>1. Read = disk /\ disk \in Rec0 /\ ctx = Ctx(disk)
  BY ReadIsDisk DEF TypeOK, CopyInv
<1>2. r \in FirstUser..(Limit(disk) - 1) /\ r \notin Marked(disk)
  BY <1>1 DEF FirstFree, FreeRecords
<1>3. disk.len * ByteBits \in Nat /\ disk.size \in Nat /\ ctx.size = disk.size
  BY <1>1, SizeAssumption DEF Rec0, Ctx
<1>4. Limit(disk) \in Nat /\ Limit(disk) <= disk.size /\ Limit(disk) <= disk.len * ByteBits
  BY <1>3 DEF Limit
<1>5. r \in Nat /\ r < Limit(disk)
  BY <1>2, <1>4, SizeAssumption
<1>6. r \in Record \ lost => owners[r] = 0
  <2>1. r \in Record => owners[r] \in Nat
    BY DEF TypeOK
  <2> QED BY <1>2, <2>1 DEF MarkInv
<1> QED BY <1>2, <1>3, <1>4, <1>5, <1>6


LEMMA MarkStep ==
  TypeOK /\ TypeOK' /\ CopyInv /\ LocalInv /\ MarkInv /\ [Next]_vars => MarkInv'
<1>1. SUFFICES ASSUME TypeOK, TypeOK', CopyInv, LocalInv, MarkInv, [Next]_vars PROVE MarkInv'
  OBVIOUS
<1>2. Read = disk /\ disk \in Rec0 /\ disk' \in Rec0
  BY <1>1, ReadIsDisk DEF TypeOK
<1>3. UNCHANGED resident
  BY <1>1, FilesFixed
<1>4. disk.size <= disk.size /\ disk.len <= disk.len /\ owners \in [Record -> Nat]
  <2>1. disk.size \in Nat /\ disk.len \in Nat
    BY <1>2 DEF Rec0
  <2>2. owners \in [Record -> Nat]
    BY <1>1 DEF TypeOK
  <2> QED BY <2>1, <2>2
<1>5. Quiet => MarkInv'
  BY <1>1, <1>2, QuietMarks
\* Most steps leave the bits and record 0 alone.
<1>6. ASSUME UNCHANGED <<disk, bits, owners, lost>>,
             pc' \in {"bmwrite", "bmzero"} => pc \in {"bmwrite", "bmzero"} /\ UNCHANGED old
      PROVE  MarkInv'
  <2>1. Marked(disk)' = Marked(disk)
    BY <1>3, <1>6 DEF Marked
  <2> QED BY <1>4, <1>5, <1>6, <2>1 DEF Quiet
<1>7. CASE UNCHANGED vars
  BY <1>6, <1>7 DEF vars, copies, local, history
<1>8. CASE AllocBegin \/ FindNone \/ BitmapLongEnough
  BY <1>6, <1>8 DEF AllocBegin, FindNone, BitmapLongEnough, Refuse, Leave, copies, history
<1>9. CASE GrowAllocate \/ GrowZero \/ GrowNoRoom
  BY <1>6, <1>9 DEF GrowAllocate, GrowZero, GrowNoRoom, Return, Refuse, Leave, copies
<1>10. CASE Evict \/ Mount
  BY <1>6, <1>10 DEF Evict, Mount, local, history
<1>11. CASE Unmount \/ Crash
  BY <1>6, <1>11 DEF Unmount, Crash, Forget, Return, Leave
\* A grant: the new bit is the record's.
<1>12. CASE FindResident \/ FindNonResident
  <2>1. PICK r \in FirstFree(Read) :
          \/ Granted(r) /\ resident /\ WriteMftRec0([Read EXCEPT !.bm = @ \cup {r}])
          \/ Granted(r) /\ ~resident /\ bits' = bits \cup {r} /\ UNCHANGED disk
          \/ UNCHANGED <<disk, owners, bits>>
    BY <1>12 DEF FindResident, FindNonResident
  <2>2. Mounted /\ pc' = "idle" /\ UNCHANGED lost /\ (resident => UNCHANGED bits)
    BY <1>1, <1>12 DEF FindResident, FindNonResident, Return, Leave, LocalInv, Running
  <2>3. /\ r \in Nat /\ r < disk.size /\ r < disk.len * ByteBits
        /\ r \in Record \ lost => owners[r] = 0
    BY <1>1, <2>2, FreeIsNobodys
  <2>4. CASE UNCHANGED <<disk, owners, bits>>
    BY <1>6, <2>2, <2>4
  <2>5. ASSUME Granted(r), Marked(disk)' = Marked(disk) \cup {r},
               disk'.size = disk.size, disk'.len = disk.len
        PROVE  MarkInv'
    <3>1. owners' = [owners EXCEPT ![r] = owners[r] + 1]
      BY <2>5 DEF Granted
    <3>2. SUFFICES ASSUME NEW q \in Record \ lost
                   PROVE  /\ owners'[q] <= 1
                          /\ owners'[q] = 1 =>
                               q \in Marked(disk)' /\ q < disk'.size /\ q < disk'.len * ByteBits
      BY <2>2 DEF MarkInv
    <3>3. CASE q = r
      BY <1>4, <2>3, <2>5, <3>1, <3>2, <3>3
    <3>4. CASE q # r
      BY <1>1, <1>4, <2>5, <3>1, <3>2, <3>4 DEF MarkInv
    <3> QED BY <3>3, <3>4
  <2>6. CASE Granted(r) /\ resident /\ WriteMftRec0([Read EXCEPT !.bm = @ \cup {r}])
    <3>1. disk' = [disk EXCEPT !.bm = @ \cup {r}]
      BY <1>2, <2>6 DEF WriteMftRec0, WriteRec0
    <3>2. disk'.bm = disk.bm \cup {r} /\ disk'.size = disk.size /\ disk'.len = disk.len
      BY <1>2, <3>1 DEF Rec0
    <3> QED BY <1>3, <2>5, <2>6, <3>2 DEF Marked
  <2>7. CASE Granted(r) /\ ~resident /\ bits' = bits \cup {r} /\ UNCHANGED disk
    BY <1>3, <2>5, <2>7 DEF Marked
  <2> QED BY <2>1, <2>4, <2>6, <2>7
<1>13. CASE GrowWrite
  <2>1. /\ UNCHANGED <<bits, owners, lost>> /\ pc' \in {"bitmap", "idle"} /\ Mounted
        /\ disk' \in {disk, Grown}
    BY <1>1, <1>13 DEF GrowWrite, WriteRec0, Return, Leave, LocalInv, Running
  <2>2. disk'.bm = disk.bm /\ disk'.len = disk.len /\ disk.size <= disk'.size
    BY <1>1, <1>4, <2>1, GrownIsLonger
  <2>3. Marked(disk)' = Marked(disk)
    BY <1>3, <2>1, <2>2 DEF Marked
  <2> QED BY <1>4, <1>5, <2>1, <2>2, <2>3 DEF Quiet
<1>14. CASE BitmapResident
  <2>1. /\ pc = "bitmap" /\ TooShort(disk) /\ UNCHANGED <<bits, owners, lost>>
        /\ pc' \in {"again", "idle", "refused"} /\ disk' \in {disk, Longer(disk)}
    BY <1>2, <1>14 DEF BitmapResident, WriteMftRec0, WriteRec0, Return, Refuse, Leave
  <2>2. ctx = Ctx(disk)
    BY <1>1, <2>1 DEF LocalInv, CopyInv, Running
  <2>3. disk.len \in Nat /\ ctx.size \in Nat /\ ctx.size > disk.len * ByteBits
    BY <1>2, <2>1, <2>2 DEF Rec0, Ctx, TooShort
  <2>4. disk.len <= NeedBytes
    BY <2>3, Grows
  <2>5. /\ Longer(disk).bm = disk.bm /\ Longer(disk).size = disk.size
        /\ Longer(disk).len = NeedBytes
    BY <1>2 DEF Longer, Rec0
  <2>6. disk'.bm = disk.bm /\ disk.len <= disk'.len /\ disk.size <= disk'.size
    BY <1>4, <2>1, <2>4, <2>5
  <2>7. Marked(disk)' = Marked(disk)
    BY <1>3, <2>1, <2>6 DEF Marked
  <2> QED BY <1>5, <2>1, <2>6, <2>7 DEF Quiet
\* The call now knows how far the old bitmap reached: past every owner's bit.
<1>15. CASE BitmapAllocate
  <2>1. /\ UNCHANGED <<disk, bits, owners, lost>>
        /\ pc' = "refused" \/ (pc' = "bmwrite" /\ old' = disk.len)
    BY <1>2, <1>15 DEF BitmapAllocate, Refuse, Leave
  <2>2. Marked(disk)' = Marked(disk)
    BY <1>3, <2>1 DEF Marked
  <2>3. CASE pc' = "refused"
    BY <1>6, <2>1, <2>3
  <2>4. CASE pc' = "bmwrite" /\ old' = disk.len
    BY <1>1, <2>1, <2>2, <2>4 DEF MarkInv
  <2> QED BY <2>1, <2>3, <2>4
<1>16. CASE BitmapWrite
  <2>1. ImgInv /\ old = disk.len /\ old <= img.len
    BY <1>1, <1>16 DEF BitmapWrite, LocalInv, ImgInv
  <2>2. /\ pc = "bmwrite" /\ UNCHANGED <<owners, lost>>
        /\ \/ disk' = img /\ bits \subseteq bits' /\ UNCHANGED old
           \/ UNCHANGED <<disk, bits>> /\ pc' = "idle"
    BY <1>16 DEF BitmapWrite, WriteMftRec0, WriteRec0, Return, Leave
  <2>3. CASE disk' = img /\ bits \subseteq bits' /\ UNCHANGED old
    <3>1. Marked(disk) \subseteq Marked(disk)'
      BY <1>3, <2>1, <2>3 DEF Marked, ImgInv
    <3> QED BY <1>4, <1>5, <2>1, <2>2, <2>3, <3>1 DEF Quiet, ImgInv
  <2>4. CASE UNCHANGED <<disk, bits>> /\ pc' = "idle"
    BY <1>6, <2>2, <2>4
  <2> QED BY <2>2, <2>3, <2>4
\* Zeroing begins where the old bitmap ended.
<1>17. CASE BitmapZero
  <2>1. PICK b : bits' = bits \ Span(old, b)
    BY <1>17 DEF BitmapZero
  <2>2. /\ UNCHANGED <<disk, owners, lost>> /\ pc = "bmzero" /\ ~resident
        /\ pc' \in {"again", "idle"}
    BY <1>1, <1>17 DEF BitmapZero, LocalInv, ImgInv, Return, Leave, copies, history
  <2>3. \A r \in Nat : r < old * ByteBits => r \notin Span(old, b)
    BY <1>1, SizeAssumption DEF Span, TypeOK
  <2>4. SUFFICES ASSUME NEW r \in Record \ lost
                 PROVE  /\ owners[r] <= 1
                        /\ owners[r] = 1 =>
                             r \in Marked(disk)' /\ r < disk.size /\ r < disk.len * ByteBits
    BY <2>2 DEF MarkInv
  <2>5. r \in Nat
    BY DEF Record
  <2> QED BY <1>1, <1>3, <2>1, <2>2, <2>3, <2>4, <2>5 DEF MarkInv, Marked
\* A release takes away the bit of its own record, or names those it took.
<1>18. ASSUME NEW r \in Record, FreeResident(r) \/ FreeNonResident(r) PROVE MarkInv'
  <2>1. owners' = [owners EXCEPT ![r] = owners[r] - 1] /\ pc' = "idle" /\ lost \subseteq lost'
    BY <1>18 DEF FreeResident, FreeNonResident
  <2>2. disk'.size = disk.size /\ disk'.len = disk.len
    <3>1. disk' \in {disk, [disk EXCEPT !.bm = @ \ {r}]}
      BY <1>2, <1>18 DEF FreeResident, FreeNonResident, WriteMftRec0, WriteRec0
    <3> QED BY <1>2, <3>1 DEF Rec0
  <2>3. \A q \in Record \ lost' : q # r /\ owners[q] = 1 /\ q \in Marked(disk) => q \in Marked(disk)'
    <3>1. CASE FreeResident(r)
      <4>1. resident /\ disk' \in {disk, [disk EXCEPT !.bm = @ \ {r}]}
        BY <1>2, <1>18, <3>1 DEF FreeResident, WriteMftRec0, WriteRec0
      <4>2. disk'.bm \in {disk.bm, disk.bm \ {r}}
        BY <1>2, <4>1 DEF Rec0
      <4> QED BY <1>3, <4>1, <4>2 DEF Marked
    <3>2. CASE FreeNonResident(r)
      <4>1. /\ ~resident
            /\ \/ bits' = bits \ {r}
               \/ bits' = bits
               \/ \E byte \in SUBSET (ByteOf(r) \ {r}) :
                    /\ bits' = (bits \ ByteOf(r)) \cup byte
                    /\ lost' = lost \cup {q \in ByteOf(r) \ {r} : q \in Record /\ owners[q] > 0 /\ q \notin byte}
        BY <3>2 DEF FreeNonResident
      <4>2. \A q \in Record \ lost' : q # r /\ owners[q] = 1 /\ q \in bits => q \in bits'
        BY <4>1
      <4> QED BY <1>3, <4>1, <4>2 DEF Marked
    <3> QED BY <1>18, <3>1, <3>2
  <2>4. SUFFICES ASSUME NEW q \in Record \ lost'
                 PROVE  /\ owners'[q] <= 1
                        /\ owners'[q] = 1 =>
                             q \in Marked(disk)' /\ q < disk'.size /\ q < disk'.len * ByteBits
    BY <2>1 DEF MarkInv
  <2>5. q \in Record \ lost
    BY <2>1, <2>4
  <2>6. CASE q = r
    <3>1. owners[r] \in Nat /\ owners[r] <= 1 /\ owners'[r] = owners[r] - 1
      BY <1>1, <1>4, <2>1, <2>5, <2>6 DEF MarkInv
    <3> QED BY <2>6, <3>1
  <2>7. CASE q # r
    BY <1>1, <1>4, <2>1, <2>2, <2>3, <2>4, <2>5, <2>7 DEF MarkInv
  <2> QED BY <2>6, <2>7
<1> QED BY <1>1, <1>7, <1>8, <1>9, <1>10, <1>11, <1>12, <1>13, <1>14, <1>15, <1>16, <1>17, <1>18
      DEF Next, Step


(***************************************************************************)
(* Old data                                                                *)
(***************************************************************************)
LEMMA CleanStep ==
  TypeOK /\ CopyInv /\ LocalInv /\ CleanInv /\ [Next]_vars => CleanInv'
<1>1. SUFFICES ASSUME TypeOK, CopyInv, LocalInv, CleanInv, [Next]_vars PROVE CleanInv'
  OBVIOUS
<1>2. Read = disk /\ disk \in Rec0
  BY <1>1, ReadIsDisk DEF TypeOK
<1>3. ASSUME mft' \in {mft, None}, dirty' \subseteq dirty, disk'.place = disk.place,
             pc' = "append" => Elems(got') \cap dirty' = {}
      PROVE  CleanInv'
  BY <1>1, <1>3 DEF CleanInv, Mounted
<1>4. ASSUME mft' = disk', UNCHANGED dirty, pc' # "append" PROVE CleanInv'
  BY <1>4 DEF CleanInv
<1>5. CASE UNCHANGED vars
  BY <1>1, <1>5 DEF vars, copies, local, CleanInv, Mounted
<1>6. CASE AllocBegin \/ FindNone \/ BitmapLongEnough \/ Unmount \/ Crash
  BY <1>3, <1>6 DEF AllocBegin, FindNone, BitmapLongEnough, Unmount, Crash, Forget, Return, Refuse,
       Leave, copies
<1>7. CASE GrowAllocate \/ GrowNoRoom \/ BitmapAllocate \/ BitmapZero \/ FindNonResident
  BY <1>3, <1>7 DEF GrowAllocate, GrowNoRoom, BitmapAllocate, BitmapZero, FindNonResident, Return,
       Refuse, Leave, copies
<1>8. CASE GrowZero
  <2>1. UNCHANGED <<mft, disk>>
    BY <1>8 DEF GrowZero, copies
  <2>2. \/ dirty' = dirty \ Elems(got) /\ UNCHANGED got
        \/ pc' = "idle" /\ UNCHANGED dirty
    BY <1>8 DEF GrowZero, Return, Leave
  <2> QED BY <1>3, <2>1, <2>2
<1>9. CASE FindResident
  <2>1. UNCHANGED dirty /\ pc' = "idle" /\ (UNCHANGED <<mft, disk>> \/ mft' = disk')
    BY <1>9 DEF FindResident, WriteMftRec0, WriteRec0, Return, Leave
  <2> QED BY <1>3, <1>4, <2>1
<1>10. CASE BitmapResident
  <2>1. UNCHANGED dirty /\ pc' # "append" /\ (UNCHANGED <<mft, disk>> \/ mft' = disk')
    BY <1>10 DEF BitmapResident, WriteMftRec0, WriteRec0, Return, Refuse, Leave
  <2> QED BY <1>3, <1>4, <2>1
<1>11. CASE BitmapWrite
  <2>1. UNCHANGED dirty /\ pc' # "append" /\ (UNCHANGED <<mft, disk>> \/ mft' = disk')
    BY <1>11 DEF BitmapWrite, WriteMftRec0, WriteRec0, Return, Leave
  <2> QED BY <1>3, <1>4, <2>1
<1>12. CASE GrowWrite
  <2>1. Mounted /\ mft' = Grown /\ disk' \in {disk, Grown} /\ UNCHANGED dirty /\ pc = "append"
        /\ pc' # "append"
    BY <1>1, <1>12 DEF GrowWrite, WriteRec0, LocalInv, Running, Return, Leave
  <2>2. Grown.place = mft.place \o got /\ mft.place \in Seq(Cluster) /\ got \in Seq(Cluster)
    BY <1>1, <2>1, GrownIsLonger DEF TypeOK, Mounted, Rec0
  <2>3. Elems(Grown.place) = Elems(mft.place) \cup Elems(got)
    BY <2>2, AppendRun
  <2>4. Elems(Grown.place) \cap dirty \subseteq Elems(disk.place)
    BY <1>1, <2>1, <2>3 DEF CleanInv
  <2> QED BY <2>1, <2>4 DEF CleanInv
<1>13. ASSUME NEW r \in Record, FreeResident(r) \/ FreeNonResident(r) PROVE CleanInv'
  <2>1. UNCHANGED dirty /\ pc' = "idle" /\ (UNCHANGED <<mft, disk>> \/ mft' = disk')
    BY <1>13 DEF FreeResident, FreeNonResident, WriteMftRec0, WriteRec0
  <2> QED BY <1>3, <1>4, <2>1
<1>14. CASE Evict
  BY <1>1, <1>14 DEF Evict, local, CleanInv, Mounted
<1>15. CASE Mount
  <2>1. mft' = disk' /\ UNCHANGED <<dirty, disk>> /\ pc' # "append"
    BY <1>1, <1>15 DEF Mount, local, LocalInv, Running
  <2> QED BY <1>4, <2>1
<1> QED BY <1>1, <1>5, <1>6, <1>7, <1>8, <1>9, <1>10, <1>11, <1>12, <1>13, <1>14, <1>15
      DEF Next, Step

\* Nothing but the write at the end of a growth changes the runs of the table.
LEMMA PlaceKept ==
  ASSUME TypeOK, CopyInv, LocalInv, [Next]_vars, ~GrowWrite
  PROVE  disk'.place = disk.place
<1>1. Read = disk /\ disk \in Rec0
  BY ReadIsDisk DEF TypeOK
<1>2. CASE UNCHANGED disk
  BY <1>2
<1>3. CASE FindResident
  BY <1>1, <1>3 DEF FindResident, WriteMftRec0, WriteRec0, Rec0
<1>4. CASE BitmapResident
  BY <1>1, <1>4 DEF BitmapResident, WriteMftRec0, WriteRec0, Longer, Rec0
<1>5. CASE BitmapWrite
  BY <1>5 DEF BitmapWrite, WriteMftRec0, WriteRec0, LocalInv, ImgInv
<1>6. ASSUME NEW r \in Record, FreeResident(r) PROVE disk'.place = disk.place
  BY <1>1, <1>6 DEF FreeResident, WriteMftRec0, WriteRec0, Rec0
<1>7. AllocBegin \/ FindNonResident \/ FindNone \/ GrowAllocate \/ GrowZero \/ GrowNoRoom
        => UNCHANGED disk
  BY DEF AllocBegin, FindNonResident, FindNone, GrowAllocate, GrowZero, GrowNoRoom, copies
<1>8. BitmapLongEnough \/ BitmapAllocate \/ BitmapZero \/ Evict \/ Mount \/ Unmount \/ Crash
        => UNCHANGED disk
  BY DEF BitmapLongEnough, BitmapAllocate, BitmapZero, Evict, Mount, Unmount, Crash, Forget, copies
<1>9. \A r \in Record : FreeNonResident(r) => UNCHANGED disk
  BY DEF FreeNonResident
<1>10. UNCHANGED vars => UNCHANGED disk
  BY DEF vars, copies
<1> QED BY <1>2, <1>3, <1>4, <1>5, <1>6, <1>7, <1>8, <1>9, <1>10 DEF Next, Step

(***************************************************************************)
(* The invariant holds                                                     *)
(***************************************************************************)
LEMMA InitInv == Init => IInv
<1>1. SUFFICES ASSUME Init PROVE IInv
  OBVIOUS
<1>2. TypeOK
  BY <1>1, InitType
<1>3. /\ pc = "idle" /\ mft = None /\ cache = None /\ mirr = disk /\ got = << >>
      /\ WellFormed(disk) /\ lost = {} /\ disk \in Rec0
      /\ files \subseteq Cluster \ Clusters(disk) /\ alloc = files \cup Clusters(disk)
      /\ owners = [r \in Record |-> IF r \in Marked(disk) THEN 1 ELSE 0]
  BY <1>1, FormatAssumption DEF Init
<1>4. LocalInv /\ CopyInv /\ CleanInv
  BY <1>3 DEF LocalInv, CopyInv, CleanInv, Running, Mounted
<1>5. SizeInv
  BY <1>3 DEF SizeInv, WellFormed
<1>6. ExtentsSound
  <2>1. Elems(got) = {}
    BY <1>3 DEF Elems
  <2>2. disk # None
    BY <1>3, NoneAssumption
  <2> QED BY <1>3, <2>1, <2>2 DEF ExtentsSound, WellFormed
<1>7. MarkInv
  <2>1. Marked(disk) \subseteq FirstUser..(disk.size - 1)
    BY <1>1, <1>3 DEF Init, WellFormed, Marked
  <2>2. disk.size \in Nat /\ disk.len \in Nat /\ disk.size <= disk.len * ByteBits
        /\ disk.len * ByteBits \in Nat
    BY <1>3, SizeAssumption DEF WellFormed, Rec0
  <2>3. SUFFICES ASSUME NEW r \in Record
                 PROVE  /\ owners[r] <= 1
                        /\ owners[r] = 1 =>
                             r \in Marked(disk) /\ r < disk.size /\ r < disk.len * ByteBits
    BY <1>3 DEF MarkInv
  <2>4. owners[r] = IF r \in Marked(disk) THEN 1 ELSE 0
    BY <1>3
  <2>5. r \in Marked(disk) => r \in Nat /\ r < disk.size /\ r < disk.len * ByteBits
    BY <2>1, <2>2, SizeAssumption
  <2> QED BY <2>4, <2>5
<1> QED BY <1>2, <1>4, <1>5, <1>6, <1>7 DEF IInv

LEMMA StepInv == IInv /\ [Next]_vars => IInv'
<1>1. SUFFICES ASSUME IInv, [Next]_vars PROVE IInv'
  OBVIOUS
<1>2. TypeOK /\ LocalInv /\ CopyInv /\ SizeInv /\ MarkInv /\ ExtentsSound /\ CleanInv
  BY <1>1 DEF IInv
<1>3. TypeOK'
  BY <1>1, <1>2, TypeStep
<1>4. CopyInv' /\ SizeInv'
  BY <1>1, <1>2, CopyStep
<1>5. LocalInv' /\ ExtentsSound'
  BY <1>1, <1>2, LocalStep, ExtentStep
<1>6. MarkInv' /\ CleanInv'
  BY <1>1, <1>2, <1>3, MarkStep, CleanStep
<1> QED BY <1>3, <1>4, <1>5, <1>6 DEF IInv

\* In every state of every behaviour.
THEOREM Invariant == Spec => []IInv
<1>1. Init => IInv
  BY InitInv
<1>2. IInv /\ [Next]_vars => IInv'
  BY StepInv
<1> QED BY <1>1, <1>2, PTL DEF Spec

\* Every variable keeps its type: no copy of record 0 is ever anything but a
\* record or absent, and the bitmap's computed length stays a number of bytes.
THEOREM TypeCorrect == Spec => []TypeOK
<1>1. IInv => TypeOK
  BY DEF IInv
<1> QED BY <1>1, Invariant, PTL

\* The five copies of record 0 that ntfs_mft.c and ntfs_bitmap.c keep agree,
\* whatever write has failed, and with no failure they are equal at rest.
THEOREM Copies == Spec => []CopiesAgree
<1>1. IInv => CopiesAgree
  <2>1. SUFFICES ASSUME IInv PROVE CopiesAgree
    OBVIOUS
  <2> QED BY <2>1, Zenon DEF IInv, CopyInv, CopiesAgree
<1> QED BY <1>1, Invariant, PTL

\* A record that a file has is marked and inside the table, and no second file
\* is given it, on tables and bitmaps of any size (ntfs_bitmap.c:474).
THEOREM Marks == Spec => []OwnedIsMarked
<1>1. IInv => OwnedIsMarked
  BY DEF IInv, MarkInv, OwnedIsMarked
<1> QED BY <1>1, Invariant, PTL

\* What $MFT and its bitmap map is allocated, mapped once and no file's.
THEOREM Extents == Spec => []ExtentsSound
<1>1. IInv => ExtentsSound
  BY DEF IInv
<1> QED BY <1>1, Invariant, PTL

\* No cluster enters the table with old data in it (ntfs_bitmap.c:251).
THEOREM Clean == Spec => TableIsClean
<1>1. ASSUME IInv, [Next]_vars
      PROVE  Elems(disk'.place) \cap dirty' \subseteq Elems(disk.place)
  <2>1. disk \in Rec0 /\ Read = disk
    BY <1>1, ReadIsDisk DEF IInv, TypeOK
  <2>2. CASE GrowWrite
    <3>1. Mounted /\ disk' \in {disk, Grown} /\ UNCHANGED dirty /\ pc = "append"
      BY <1>1, <2>2 DEF GrowWrite, WriteRec0, IInv, LocalInv, Running
    <3>2. Grown.place = mft.place \o got /\ mft.place \in Seq(Cluster) /\ got \in Seq(Cluster)
      BY <1>1, <3>1, GrownIsLonger DEF IInv, TypeOK, Mounted, Rec0
    <3>3. Elems(Grown.place) = Elems(mft.place) \cup Elems(got)
      BY <3>2, AppendRun
    <3> QED BY <1>1, <3>1, <3>3 DEF IInv, CleanInv
  <2>3. ASSUME ~GrowWrite PROVE disk'.place = disk.place
    BY <1>1, <2>3, PlaceKept DEF IInv
  <2> QED BY <2>2, <2>3
<1> QED BY <1>1, Invariant, PTL DEF Spec, TableIsClean


(***************************************************************************)
(* The promise to the callers                                              *)
(***************************************************************************)
LEMMA SpaceInit == Init => Space!Init
<1>1. SUFFICES ASSUME Init PROVE Space!Init
  OBVIOUS
<1>2. disk \in Rec0
  BY <1>1, FormatAssumption DEF Init
<1>3. disk.place \in Seq(Nat)
  <2>1. disk.place \in Seq(Cluster)
    BY <1>2 DEF Rec0
  <2>2. Cluster \subseteq Nat
    BY SizeAssumption
  <2>3. ASSUME NEW s \in Seq(Cluster) PROVE s \in Seq(Nat)
    <3>1. PICK n \in Nat : s \in [1..n -> Cluster]
      OBVIOUS
    <3>2. s \in [1..n -> Nat]
      BY <3>1, <2>2
    <3> QED BY <3>2
  <2> QED BY <2>1, <2>3
<1>4. owners \in [Record -> 0..1]
  BY <1>1 DEF Init
<1> QED BY <1>3, <1>4 DEF Space!Init

LEMMA SpaceStep ==
  IInv /\ IInv' /\ [Next]_vars => [lost' = {} => Space!Next]_<<disk.place, owners>>
<1>1. SUFFICES ASSUME IInv, IInv', [Next]_vars, lost' = {}, ~UNCHANGED <<disk.place, owners>>
               PROVE  Space!Next
  OBVIOUS
<1>2. /\ TypeOK /\ CopyInv /\ LocalInv /\ MarkInv /\ SizeInv
      /\ Read = disk /\ disk \in Rec0 /\ disk' \in Rec0 /\ owners \in [Record -> Nat]
  BY <1>1, ReadIsDisk DEF IInv, TypeOK
\* A growth.
<1>3. CASE GrowWrite
  <2>1. Mounted /\ disk' \in {disk, Grown} /\ UNCHANGED owners /\ got # << >>
    BY <1>2, <1>3 DEF GrowWrite, WriteRec0, LocalInv, Running
  <2>2. disk' = Grown
    BY <1>1, <2>1
  <2>3. /\ Grown.place = mft.place \o got /\ Len(disk.place) <= Len(mft.place)
        /\ mft.place \in Seq(Cluster) /\ got \in Seq(Cluster) /\ disk.place \in Seq(Cluster)
        /\ \A i \in DOMAIN disk.place : Grown.place[i] = disk.place[i]
    BY <1>2, <2>1, GrownIsLonger DEF TypeOK, Mounted, Rec0, CopyInv, Staged
  <2>4. Len(Grown.place) = Len(mft.place) + Len(got) /\ Len(got) > 0 /\ Grown.place \in Seq(Cluster)
    BY <2>1, <2>3, AppendRun
  <2>5. Len(disk'.place) > Len(disk.place) /\ DOMAIN disk.place = 1..Len(disk.place)
        /\ DOMAIN disk'.place = 1..Len(disk'.place)
    BY <2>2, <2>3, <2>4
  <2>6. Injective(disk'.place)
    <3>1. disk' # None
      BY <1>2, NoneAssumption
    <3>2. ExtentsSound'
      BY <1>1 DEF IInv
    <3> QED BY <3>1, <3>2 DEF ExtentsSound, MapsOnce, Injective
  <2>7. \A i, j \in 1..Len(disk'.place) : disk'.place[i] = disk'.place[j] => i = j
    BY <2>5, <2>6 DEF Injective
  <2>8. Space!Grow
    BY <2>1, <2>2, <2>3, <2>5, <2>7 DEF Space!Grow
  <2> QED BY <2>8 DEF Space!Next
<1>4. ASSUME ~GrowWrite PROVE disk'.place = disk.place
  BY <1>1, <1>2, <1>4, PlaceKept
<1>5. CASE FindResident \/ FindNonResident
  <2>1. PICK r \in FirstFree(Read) : Granted(r) \/ UNCHANGED owners
    BY <1>5 DEF FindResident, FindNonResident
  <2>2. Mounted /\ UNCHANGED lost
    BY <1>2, <1>5 DEF FindResident, FindNonResident, LocalInv, Running
  <2>3. r \in Nat /\ r < disk.size /\ (r \in Record \ lost => owners[r] = 0)
    BY <1>2, <2>2, FreeIsNobodys
  <2>4. disk'.place = disk.place
    <3>1. CASE GrowWrite
      BY <1>5, <3>1 DEF GrowWrite, FindResident, FindNonResident
    <3> QED BY <1>4, <3>1
  <2>5. Granted(r) /\ r \in Record
    BY <1>1, <1>2, <2>1, <2>4 DEF Granted
  <2>6. owners[r] = 0 /\ owners' = [owners EXCEPT ![r] = 1]
    <3>1. owners[r] = 0
      BY <1>1, <2>2, <2>3, <2>5
    <3>2. owners' = [owners EXCEPT ![r] = owners[r] + 1]
      BY <2>5 DEF Granted
    <3>3. owners' = [owners EXCEPT ![r] = 0 + 1]
      BY <3>1, <3>2
    <3> QED BY <3>1, <3>3
  <2>7. Space!Inside(r)
    <3>1. disk.size <= Len(disk.place) * PerCluster /\ disk.size \in Nat
          /\ Len(disk.place) * PerCluster \in Nat
      BY <1>2, SizeAssumption DEF SizeInv, Rec0
    <3> QED BY <2>3, <3>1 DEF Space!Inside
  <2> QED BY <2>4, <2>5, <2>6, <2>7 DEF Space!Next, Space!Grant
<1>6. ASSUME NEW r \in Record, FreeResident(r) \/ FreeNonResident(r) PROVE Space!Next
  <2>1. owners[r] > 0 /\ owners' = [owners EXCEPT ![r] = owners[r] - 1] /\ AtRest /\ lost \subseteq lost'
    BY <1>6 DEF FreeResident, FreeNonResident
  <2>2. owners[r] = 1
    BY <1>1, <1>2, <2>1 DEF MarkInv
  <2>3. disk'.place = disk.place
    <3>1. CASE GrowWrite
      BY <2>1, <3>1 DEF GrowWrite, AtRest
    <3> QED BY <1>4, <3>1
  <2>4. owners' = [owners EXCEPT ![r] = 1 - 1]
    BY <2>1, <2>2
  <2>5. owners' = [owners EXCEPT ![r] = 0]
    BY <2>4
  <2>6. Space!Release
    BY <2>2, <2>3, <2>5 DEF Space!Release
  <2> QED BY <2>6 DEF Space!Next
<1>7. CASE AllocBegin \/ FindNone \/ GrowAllocate \/ GrowZero \/ GrowNoRoom \/ BitmapLongEnough
           \/ BitmapResident \/ BitmapAllocate \/ BitmapWrite \/ BitmapZero
  <2>1. UNCHANGED owners
    BY <1>7 DEF AllocBegin, FindNone, GrowAllocate, GrowZero, GrowNoRoom, BitmapLongEnough,
         BitmapResident, BitmapAllocate, BitmapWrite, BitmapZero, history
  <2> QED BY <1>1, <1>3, <1>4, <2>1
<1>8. CASE Evict \/ Mount \/ Unmount \/ Crash \/ UNCHANGED vars
  <2>1. UNCHANGED owners
    BY <1>8 DEF Evict, Mount, Unmount, Crash, Forget, history, vars
  <2> QED BY <1>1, <1>3, <1>4, <2>1
<1> QED BY <1>1, <1>3, <1>5, <1>6, <1>7, <1>8 DEF Next, Step

\* The allocator implements RecordSpace: create and delete, which know nothing
\* of clusters, caches and growth, may rely on it as long as no byte of the
\* bitmap has been written back unread (ntfs_bitmap.c:645).
THEOREM Implements == Spec => ImplementsSpace
<1>1. Init => Space!Init
  BY SpaceInit
<1>2. IInv /\ IInv' /\ [Next]_vars => [lost' = {} => Space!Next]_<<disk.place, owners>>
  BY SpaceStep
<1> QED BY <1>1, <1>2, Invariant, PTL DEF Spec, ImplementsSpace

(***************************************************************************)
(* Nothing leaks                                                           *)
(***************************************************************************)

\* What a running call has allocated, or is about to map, and the disk does not map.
Held == IF pc \in {"zero", "append"} THEN Elems(got)
        ELSE IF pc = "bmwrite" THEN Clusters(img) ELSE {}

\* Before the first failure every allocated cluster is a file's, mapped on disk,
\* or in the hands of the call.
LeakInv ==
  faults = 0 =>
    /\ alloc = files \cup Clusters(disk) \cup Held
    /\ pc = "bmwrite" => Clusters(disk) \subseteq Clusters(img)

\* A failure is counted, and no count goes down.
LEMMA FaultCounted ==
  ASSUME TypeOK, [Next]_vars, faults' = 0
  PROVE  faults = 0 /\ ~Fault
<1>1. faults \in Nat
  BY SizeAssumption DEF TypeOK
<1>2. ~Fault
  BY <1>1 DEF Fault
<1>3. CASE UNCHANGED vars
  BY <1>2, <1>3 DEF vars
<1>4. CASE AllocBegin \/ FindNone \/ GrowAllocate \/ GrowNoRoom \/ BitmapLongEnough
           \/ BitmapAllocate \/ Evict \/ Mount \/ Unmount
  BY <1>2, <1>4 DEF AllocBegin, FindNone, GrowAllocate, GrowNoRoom, BitmapLongEnough,
       BitmapAllocate, Evict, Mount, Unmount
<1>5. CASE FindResident \/ FindNonResident \/ GrowZero \/ GrowWrite \/ BitmapResident
           \/ BitmapWrite \/ BitmapZero \/ Crash
  BY <1>2, <1>5 DEF FindResident, FindNonResident, GrowZero, GrowWrite, BitmapResident,
       BitmapWrite, BitmapZero, Crash, WriteMftRec0, WriteRec0
<1>6. ASSUME NEW r \in Record, FreeResident(r) \/ FreeNonResident(r) PROVE UNCHANGED faults
  BY <1>2, <1>6 DEF FreeResident, FreeNonResident, WriteMftRec0, WriteRec0
<1> QED BY <1>1, <1>2, <1>3, <1>4, <1>5, <1>6 DEF Next, Step

\* What a record 0 maps when a run is appended to one of its run lists.
LEMMA ClustersOf ==
  ASSUME NEW rec \in Rec0
  PROVE  /\ \A n \in Nat, s \in Seq(Cluster) :
              Clusters([[rec EXCEPT !.len = n] EXCEPT !.bmap = @ \o s]) = Clusters(rec) \cup Elems(s)
         /\ \A n \in Nat : Clusters([rec EXCEPT !.len = n]) = Clusters(rec)
         /\ \A new \in Rec0 : new.place = rec.place /\ new.bmap = rec.bmap
                                => Clusters(new) = Clusters(rec)
<1>1. ASSUME NEW n \in Nat, NEW s \in Seq(Cluster)
      PROVE  Clusters([[rec EXCEPT !.len = n] EXCEPT !.bmap = @ \o s]) = Clusters(rec) \cup Elems(s)
  <2>1. PICK new : new = [[rec EXCEPT !.len = n] EXCEPT !.bmap = @ \o s]
    OBVIOUS
  <2>2. new.place = rec.place /\ new.bmap = rec.bmap \o s /\ rec.bmap \in Seq(Cluster)
    BY <2>1 DEF Rec0
  <2>3. Elems(new.bmap) = Elems(rec.bmap) \cup Elems(s)
    BY <2>2, AppendRun
  <2>4. Clusters(new) = Clusters(rec) \cup Elems(s)
    BY <2>2, <2>3, Zenon DEF Clusters
  <2> QED BY <2>1, <2>4
<1>2. ASSUME NEW n \in Nat PROVE Clusters([rec EXCEPT !.len = n]) = Clusters(rec)
  BY DEF Clusters, Rec0
<1>3. ASSUME NEW new \in Rec0, new.place = rec.place, new.bmap = rec.bmap
      PROVE  Clusters(new) = Clusters(rec)
  BY <1>3 DEF Clusters
<1> QED BY <1>1, <1>2, <1>3

\* A volume as it is found has no cluster without an owner.
LEMMA LeakInit == Init => LeakInv
<1>1. SUFFICES ASSUME Init PROVE LeakInv
  OBVIOUS
<1>2. pc = "idle" /\ alloc = files \cup Clusters(disk)
  BY <1>1 DEF Init
<1> QED BY <1>2 DEF LeakInv, Held

\* No way out of a growth drops a cluster.
LEMMA LeakStep == IInv /\ LeakInv /\ [Next]_vars => LeakInv'
<1>1. SUFFICES ASSUME IInv, LeakInv, [Next]_vars, faults' = 0
               PROVE  /\ alloc' = files' \cup Clusters(disk') \cup Held'
                      /\ pc' = "bmwrite" => Clusters(disk') \subseteq Clusters(img')
  BY Zenon DEF LeakInv
<1>2. /\ TypeOK /\ CopyInv /\ LocalInv /\ ExtentsSound
      /\ Read = disk /\ disk \in Rec0 /\ disk # None /\ got \in Seq(Cluster)
  BY <1>1, ReadIsDisk, NoneAssumption DEF IInv, TypeOK
<1>3. faults = 0 /\ ~Fault /\ UNCHANGED files
  BY <1>1, <1>2, FaultCounted, FilesFixed
<1>4. /\ alloc = files \cup Clusters(disk) \cup Held
      /\ pc = "bmwrite" => Clusters(disk) \subseteq Clusters(img)
  BY <1>1, <1>3 DEF LeakInv
<1>5. Mounted => mft = disk
  BY <1>2, <1>3 DEF CopyInv
\* A step that holds nothing before and after.
<1>6. ASSUME UNCHANGED alloc, Clusters(disk') = Clusters(disk),
             pc \notin {"zero", "append", "bmwrite"}, pc' \notin {"zero", "append", "bmwrite"}
      PROVE  /\ alloc' = files' \cup Clusters(disk') \cup Held'
             /\ pc' = "bmwrite" => Clusters(disk') \subseteq Clusters(img')
  BY <1>3, <1>4, <1>6 DEF Held
\* A step that leaves the call where it is.
<1>7. ASSUME UNCHANGED <<alloc, disk, pc, got, img>>
      PROVE  /\ alloc' = files' \cup Clusters(disk') \cup Held'
             /\ pc' = "bmwrite" => Clusters(disk') \subseteq Clusters(img')
  <2>1. Held' = Held
    BY <1>7 DEF Held, Clusters, Elems
  <2> QED BY <1>3, <1>4, <1>7, <2>1
<1>8. CASE UNCHANGED vars
  BY <1>7, <1>8 DEF vars, copies, local
<1>9. CASE Evict \/ Mount
  BY <1>7, <1>9 DEF Evict, Mount, local
<1>10. CASE AllocBegin \/ FindNone \/ FindNonResident \/ BitmapLongEnough \/ BitmapZero \/ Unmount
  <2>1. /\ UNCHANGED <<alloc, disk>>
        /\ pc \notin {"zero", "append", "bmwrite"} /\ pc' \notin {"zero", "append", "bmwrite"}
    BY <1>10 DEF AllocBegin, FindNone, FindNonResident, BitmapLongEnough, BitmapZero, Unmount,
         AtRest, Forget, Return, Refuse, Leave, copies
  <2> QED BY <1>6, <2>1
<1>11. CASE Crash
  BY <1>3, <1>11 DEF Crash
<1>12. CASE FindResident
  <2>1. PICK r \in FirstFree(Read) : WriteMftRec0([Read EXCEPT !.bm = @ \cup {r}])
    BY <1>3, <1>12 DEF FindResident
  <2>2. disk'.place = disk.place /\ disk'.bmap = disk.bmap
    BY <1>2, <2>1 DEF WriteMftRec0, WriteRec0, Rec0
  <2>3. Clusters(disk') = Clusters(disk)
    BY <2>2 DEF Clusters
  <2>4. UNCHANGED alloc /\ pc \in {"find", "again"} /\ pc' = "idle"
    BY <1>12 DEF FindResident, Return, Leave
  <2> QED BY <1>6, <2>3, <2>4
<1>13. ASSUME NEW r \in Record, FreeResident(r) \/ FreeNonResident(r)
       PROVE  /\ alloc' = files' \cup Clusters(disk') \cup Held'
              /\ pc' = "bmwrite" => Clusters(disk') \subseteq Clusters(img')
  <2>1. UNCHANGED disk \/ WriteMftRec0([Read EXCEPT !.bm = @ \ {r}])
    BY <1>13 DEF FreeResident, FreeNonResident
  <2>2. disk'.place = disk.place /\ disk'.bmap = disk.bmap
    BY <1>2, <2>1 DEF WriteMftRec0, WriteRec0, Rec0
  <2>3. Clusters(disk') = Clusters(disk)
    BY <2>2 DEF Clusters
  <2>4. UNCHANGED alloc /\ AtRest /\ pc' = "idle"
    BY <1>13 DEF FreeResident, FreeNonResident
  <2> QED BY <1>6, <2>3, <2>4 DEF AtRest
<1>14. CASE GrowAllocate
  <2>1. pc = "grow" /\ UNCHANGED disk
    BY <1>14 DEF GrowAllocate, copies
  <2>2. CASE \E s \in Grants(GrowClusters) :
               got' = s /\ alloc' = alloc \cup Elems(s) /\ pc' = "zero"
    BY <1>3, <1>4, <2>1, <2>2 DEF Held
  <2>3. CASE UNCHANGED alloc /\ pc' = "refused"
    BY <1>6, <2>1, <2>3
  <2> QED BY <1>14, <2>2, <2>3 DEF GrowAllocate, Refuse, Leave
<1>15. CASE GrowZero
  <2>1. pc = "zero" /\ pc' = "append" /\ UNCHANGED <<disk, got, alloc>>
    BY <1>3, <1>15 DEF GrowZero, copies
  <2> QED BY <1>3, <1>4, <2>1 DEF Held, Elems
<1>16. CASE GrowNoRoom
  <2>1. pc = "append" /\ pc' = "refused" /\ alloc' = alloc \ Elems(got) /\ UNCHANGED disk
    BY <1>16 DEF GrowNoRoom, Refuse, Leave, copies
  <2>2. Adding(got, disk)
    BY <1>2, <1>5, <2>1 DEF LocalInv, Running
  <2>3. Elems(got) \cap Clusters(disk) = {} /\ Elems(got) \cap files = {}
    BY <2>2 DEF Adding
  <2>4. alloc = files \cup Clusters(disk) \cup Elems(got)
    BY <1>4, <2>1 DEF Held
  <2>5. Held' = {}
    BY <2>1 DEF Held
  <2> QED BY <1>3, <2>1, <2>3, <2>4, <2>5
<1>17. CASE GrowWrite
  <2>1. pc = "append" /\ pc' = "bitmap" /\ disk' = Grown /\ UNCHANGED alloc /\ Mounted
    BY <1>2, <1>3, <1>17 DEF GrowWrite, WriteRec0, LocalInv, Running
  <2>2. /\ Grown.place = disk.place \o got /\ Grown.bmap = disk.bmap
        /\ disk.place \in Seq(Cluster)
    BY <1>2, <1>5, <2>1, GrownIsLonger DEF Rec0
  <2>3. Elems(disk.place \o got) = Elems(disk.place) \cup Elems(got)
    BY <1>2, <2>2, AppendRun
  <2>4. Clusters(disk') = Clusters(disk) \cup Elems(got)
    BY <2>1, <2>2, <2>3 DEF Clusters
  <2>5. alloc = files \cup Clusters(disk) \cup Elems(got)
    BY <1>4, <2>1 DEF Held
  <2>6. Held' = {}
    BY <2>1 DEF Held
  <2> QED BY <1>3, <2>1, <2>4, <2>5, <2>6
<1>18. CASE BitmapResident
  <2>1. UNCHANGED disk \/ WriteMftRec0(Longer(Read))
    BY <1>18 DEF BitmapResident
  <2>2. disk'.place = disk.place /\ disk'.bmap = disk.bmap
    BY <1>2, <2>1 DEF WriteMftRec0, WriteRec0, Longer, Rec0
  <2>3. Clusters(disk') = Clusters(disk)
    BY <2>2 DEF Clusters
  <2>4. UNCHANGED alloc /\ pc = "bitmap" /\ pc' \in {"again", "idle", "refused"}
    BY <1>18 DEF BitmapResident, Return, Refuse, Leave
  <2> QED BY <1>6, <2>3, <2>4
<1>19. CASE BitmapAllocate
  <2>1. pc = "bitmap" /\ UNCHANGED disk
    BY <1>19 DEF BitmapAllocate
  <2>2. NeedBytes \in Nat
    <3>1. ctx = Ctx(disk) /\ TooShort(disk)
      BY <1>2, <1>19 DEF BitmapAllocate, LocalInv, CopyInv, Running
    <3>2. disk.len \in Nat /\ ctx.size \in Nat /\ ctx.size > disk.len * ByteBits
      BY <3>1, <1>2 DEF Rec0, Ctx, TooShort
    <3> QED BY <3>2, Grows
  <2>3. CASE UNCHANGED alloc /\ pc' = "refused"
    BY <1>6, <2>1, <2>3
  <2>4. CASE img' = Longer(disk) /\ UNCHANGED alloc /\ pc' = "bmwrite"
    <3>1. Clusters(img') = Clusters(disk)
      BY <1>2, <2>2, <2>4, ClustersOf DEF Longer
    <3>2. Held' = Clusters(disk) /\ Held = {}
      BY <2>1, <2>4, <3>1 DEF Held
    <3> QED BY <1>3, <1>4, <2>1, <2>4, <3>1, <3>2
  <2>5. ASSUME NEW s \in Grants(NeedClusters(Read)), alloc' = alloc \cup Elems(s),
               img' = [Longer(disk) EXCEPT !.bmap = @ \o s], pc' = "bmwrite"
        PROVE  /\ alloc' = files' \cup Clusters(disk') \cup Held'
               /\ pc' = "bmwrite" => Clusters(disk') \subseteq Clusters(img')
    <3>1. s \in Seq(Cluster)
      BY GrantIsRun
    <3>2. Clusters(img') = Clusters(disk) \cup Elems(s)
      <4>1. img' = [[disk EXCEPT !.len = NeedBytes] EXCEPT !.bmap = @ \o s]
        BY <2>5 DEF Longer
      <4>2. Clusters([[disk EXCEPT !.len = NeedBytes] EXCEPT !.bmap = @ \o s])
              = Clusters(disk) \cup Elems(s)
        BY <1>2, <2>2, <3>1, ClustersOf
      <4> QED BY <4>1, <4>2
    <3>3. Held' = Clusters(disk) \cup Elems(s) /\ Held = {}
      BY <2>1, <2>5, <3>2 DEF Held
    <3> QED BY <1>3, <1>4, <2>1, <2>5, <3>2, <3>3
  <2>6. \/ UNCHANGED alloc /\ pc' = "refused"
        \/ img' = Longer(disk) /\ UNCHANGED alloc /\ pc' = "bmwrite"
        \/ \E s \in Grants(NeedClusters(Read)) :
             /\ alloc' = alloc \cup Elems(s)
             /\ img' = [Longer(disk) EXCEPT !.bmap = @ \o s] /\ pc' = "bmwrite"
    BY <1>2, <1>19 DEF BitmapAllocate, Refuse, Leave
  <2> QED BY <2>3, <2>4, <2>5, <2>6
<1>20. CASE BitmapWrite
  <2>1. pc = "bmwrite" /\ pc' = "bmzero" /\ disk' = img /\ UNCHANGED alloc
    BY <1>3, <1>20 DEF BitmapWrite, WriteMftRec0, WriteRec0
  <2>2. Held' = {} /\ Held = Clusters(img)
    BY <2>1 DEF Held
  <2> QED BY <1>3, <1>4, <2>1, <2>2
<1> QED BY <1>1, <1>8, <1>9, <1>10, <1>11, <1>12, <1>13, <1>14, <1>15, <1>16, <1>17, <1>18,
           <1>19, <1>20 DEF Next, Step

\* While no write fails and no call is cut off, a growth gives back every cluster
\* that it does not map, on each of its ways out (ntfs_bitmap.c:250).
THEOREM Leakproof == Spec => []NothingLeaks
<1>1. Init => LeakInv
  BY LeakInit
<1>2. IInv /\ LeakInv /\ [Next]_vars => LeakInv'
  BY LeakStep
<1>3. LeakInv => NothingLeaks
  BY DEF LeakInv, NothingLeaks, Held, AtRest
<1> QED BY <1>1, <1>2, <1>3, Invariant, PTL DEF Spec

(***************************************************************************)
(* A growth serves                                                         *)
(***************************************************************************)

\* Every volume has its reserved records; the search begins after them.
Reserved == \A rec \in Formats : FirstUser <= rec.size

\* The bits below this one are what the calls have made of them; those above it
\* are what the clusters of the bitmap held before, until the zeros are written.
Settled == IF pc = "bmzero" THEN old * ByteBits ELSE disk.len * ByteBits

\* No settled bit past the end of the table is set: the records that the next
\* growth appends are free.
NoStray ==
  /\ \A r \in Marked(disk) : r < Settled => r < disk.size
  /\ resident => \A r \in disk.bm : r < disk.size

\* The bytes of a bitmap have clusters.
HoldsBits ==
  ~resident =>
    /\ disk.len <= Capacity(disk)
    /\ pc \in {"bmwrite", "bmzero"} => img.len <= Capacity(img)

\* From the write of the table to the second search its last record is a free
\* one, and the bitmap is on its way to cover it.
LastFree ==
  pc \in {"bitmap", "bmwrite", "bmzero", "again"} =>
    /\ FirstUser < disk.size
    /\ disk.size - 1 \in Marked(disk) => ~resident /\ Settled < disk.size
    /\ pc \in {"bmwrite", "bmzero"} => disk.size <= img.len * ByteBits
    /\ pc = "again" => disk.size <= disk.len * ByteBits

Serving == FirstUser <= disk.size /\ NoStray /\ HoldsBits /\ LastFree
ServeInv == faults = 0 => Serving

\* The bitmap's new length covers the table.
LEMMA NeedCovers ==
  ASSUME ctx.size \in Nat
  PROVE  NeedBytes \in Nat /\ ctx.size <= NeedBytes * ByteBits
<1>1. PICK bytes \in Nat : bytes = (ctx.size + ByteBits - 1) \div ByteBits
  BY RoundUp, SizeAssumption
<1>2. ctx.size <= bytes * ByteBits
  BY <1>1, RoundUp, SizeAssumption
<1>3. PICK words \in Nat : words = (bytes + ByteAlign - 1) \div ByteAlign
  BY RoundUp, SizeAssumption
<1>4. bytes <= words * ByteAlign
  BY <1>3, RoundUp, SizeAssumption
<1>5. NeedBytes = words * ByteAlign /\ words * ByteAlign \in Nat
  BY <1>1, <1>3, SizeAssumption DEF NeedBytes
<1>6. PICK d \in Nat : NeedBytes = bytes + d
  BY <1>4, <1>5
<1>7. NeedBytes * ByteBits = bytes * ByteBits + d * ByteBits /\ d * ByteBits \in Nat
      /\ bytes * ByteBits \in Nat
  BY <1>6, Distribute, SizeAssumption
<1> QED BY <1>2, <1>5, <1>7

\* The clusters that the bitmap asks for hold its new length.
LEMMA NeedFits ==
  ASSUME NEW rec \in Rec0, NEW s \in Seq(Cluster), NeedBytes \in Nat,
         NeedBytes > Capacity(rec), Len(s) = NeedClusters(rec)
  PROVE  NeedBytes <= Len(rec.bmap \o s) * ClusterBytes
<1>1. rec.bmap \in Seq(Cluster) /\ Len(rec.bmap \o s) = Len(rec.bmap) + Len(s)
  BY AppendRun DEF Rec0
<1>2. PICK a \in Nat, b \in Nat, k \in Nat \ {0} :
        a = Len(rec.bmap) /\ b = Len(s) /\ k = ClusterBytes
  BY <1>1, SizeAssumption
<1>3. (a + b) * k = a * k + b * k /\ a * k \in Nat /\ b * k \in Nat
  BY Distribute
<1>4. Capacity(rec) = a * k
  BY <1>2 DEF Capacity
<1>5. PICK n \in Nat : n = NeedBytes - a * k
  BY <1>3, <1>4
<1>6. b = (n + k - 1) \div k
  BY <1>2, <1>4, <1>5 DEF NeedClusters
<1>7. n <= b * k
  BY <1>6, RoundUp
<1> QED BY <1>1, <1>2, <1>3, <1>5, <1>7

\* A byte count that is no smaller covers no fewer bits.
LEMMA Covers ==
  ASSUME NEW a \in Nat, NEW b \in Nat, a <= b
  PROVE  a * ByteBits <= b * ByteBits /\ a * ByteBits \in Nat /\ b * ByteBits \in Nat
<1>1. PICK d \in Nat : b = a + d
  OBVIOUS
<1>2. b * ByteBits = a * ByteBits + d * ByteBits /\ a * ByteBits \in Nat /\ d * ByteBits \in Nat
  BY <1>1, Distribute, SizeAssumption
<1> QED BY <1>2

\* A volume as it is found has no bit set past the end of its table.
LEMMA ServeInit == Reserved /\ Init => ServeInv
<1>1. SUFFICES ASSUME Reserved, Init PROVE Serving
  BY DEF ServeInv
<1>2. disk \in Rec0 /\ WellFormed(disk) /\ pc = "idle" /\ disk \in Formats
  BY <1>1, FormatAssumption DEF Init
<1>3. disk.size \in Nat /\ FirstUser \in Nat
  BY <1>2, SizeAssumption DEF Rec0
<1>4. Marked(disk) \subseteq FirstUser..(disk.size - 1)
  BY <1>1, <1>2 DEF Init, WellFormed, Marked
<1>5. \A r \in Marked(disk) : r < disk.size
  BY <1>3, <1>4
<1>6. NoStray
  BY <1>5 DEF NoStray, Marked
<1>7. HoldsBits /\ LastFree
  BY <1>2 DEF WellFormed, HoldsBits, LastFree
<1>8. FirstUser <= disk.size
  BY <1>1, <1>2 DEF Reserved
<1> QED BY <1>6, <1>7, <1>8 DEF Serving

\* Before the first failure every step keeps the bits past the table clear.
LEMMA ServeStep == IInv /\ ServeInv /\ [Next]_vars => ServeInv'
<1>1. SUFFICES ASSUME IInv, ServeInv, [Next]_vars, faults' = 0 PROVE Serving'
  BY DEF ServeInv
<1>2. /\ TypeOK /\ CopyInv /\ LocalInv /\ SizeInv
      /\ Read = disk /\ disk \in Rec0 /\ bits \subseteq Nat /\ old \in Nat
  BY <1>1, ReadIsDisk DEF IInv, TypeOK
<1>3. faults = 0 /\ ~Fault /\ UNCHANGED resident
  BY <1>1, <1>2, FaultCounted, FilesFixed
<1>4. FirstUser <= disk.size /\ NoStray /\ HoldsBits /\ LastFree
  BY <1>1, <1>3 DEF ServeInv, Serving
<1>5. /\ FirstUser \in Nat /\ disk.size \in Nat /\ disk.len \in Nat /\ disk.bm \subseteq Nat
      /\ disk.len * ByteBits \in Nat /\ old * ByteBits \in Nat /\ Settled \in Nat
  BY <1>2, SizeAssumption DEF Rec0, Settled
<1>6. Mounted => ctx.size = disk.size
  BY <1>2 DEF CopyInv, Ctx
\* A step of no growth, which at most sets bits inside the table.
<1>7. ASSUME disk'.size = disk.size, disk'.len = disk.len, disk'.bmap = disk.bmap,
             \A r \in disk'.bm : r < disk.size \/ r \in disk.bm,
             \A r \in bits' : r < disk.size \/ r \in bits,
             pc # "bmzero", pc' \notin {"bitmap", "bmwrite", "bmzero", "again"}
      PROVE  Serving'
  <2>1. Settled = disk.len * ByteBits /\ Settled' = disk.len * ByteBits
    BY <1>7 DEF Settled
  <2>2. NoStray'
    BY <1>3, <1>4, <1>7, <2>1 DEF NoStray, Marked
  <2>3. HoldsBits'
    BY <1>3, <1>4, <1>7 DEF HoldsBits, Capacity
  <2> QED BY <1>4, <1>7, <2>2, <2>3 DEF Serving, LastFree
\* A step that leaves the call where it is.
<1>8. ASSUME UNCHANGED <<disk, bits, pc, img, old>> PROVE Serving'
  BY <1>3, <1>4, <1>8 DEF Serving, NoStray, HoldsBits, LastFree, Settled, Marked, Capacity
<1>9. CASE UNCHANGED vars
  BY <1>8, <1>9 DEF vars, copies, local
<1>10. CASE Evict \/ Mount
  BY <1>8, <1>10 DEF Evict, Mount, local
<1>11. CASE AllocBegin \/ FindNone \/ GrowAllocate \/ GrowZero \/ GrowNoRoom \/ Unmount
  <2>1. UNCHANGED <<disk, bits>> /\ pc # "bmzero" /\ pc' \notin {"bitmap", "bmwrite", "bmzero", "again"}
    BY <1>11 DEF AllocBegin, FindNone, GrowAllocate, GrowZero, GrowNoRoom, Unmount,
         AtRest, Forget, Return, Refuse, Leave, copies
  <2> QED BY <1>7, <2>1
<1>12. CASE Crash
  BY <1>3, <1>12 DEF Crash
\* A record that is given away lies in the table.
<1>13. CASE FindResident \/ FindNonResident
  <2>1. pc \in {"find", "again"} /\ pc' = "idle"
    BY <1>13 DEF FindResident, FindNonResident, Return, Leave
  <2>2. PICK r \in FirstFree(Read) :
          \/ WriteMftRec0([Read EXCEPT !.bm = @ \cup {r}]) /\ UNCHANGED bits
          \/ bits' = bits \cup {r} /\ UNCHANGED disk
    BY <1>3, <1>13 DEF FindResident, FindNonResident
  <2>3. Mounted
    BY <1>2, <2>1 DEF LocalInv, Running
  <2>4. r \in Nat /\ r < disk.size
    <3>1. Limit(disk) \in Nat /\ Limit(disk) <= disk.size
      BY <1>5, <1>6, <2>3 DEF Limit
    <3>2. r \in FirstUser..(Limit(disk) - 1)
      BY <1>2 DEF FirstFree, FreeRecords
    <3> QED BY <1>5, <3>1, <3>2
  <2>5. CASE WriteMftRec0([Read EXCEPT !.bm = @ \cup {r}]) /\ UNCHANGED bits
    <3>1. /\ disk'.size = disk.size /\ disk'.len = disk.len /\ disk'.bmap = disk.bmap
          /\ disk'.bm = disk.bm \cup {r}
      BY <1>2, <2>5 DEF WriteMftRec0, WriteRec0, Rec0
    <3> QED BY <1>7, <2>1, <2>4, <2>5, <3>1
  <2>6. CASE bits' = bits \cup {r} /\ UNCHANGED disk
    BY <1>7, <2>1, <2>4, <2>6
  <2> QED BY <2>2, <2>5, <2>6
<1>14. ASSUME NEW r \in Record, FreeResident(r) \/ FreeNonResident(r) PROVE Serving'
  <2>1. pc # "bmzero" /\ pc' = "idle"
    BY <1>14 DEF FreeResident, FreeNonResident, AtRest
  <2>2. \/ WriteMftRec0([Read EXCEPT !.bm = @ \ {r}]) /\ UNCHANGED bits
        \/ bits' = bits \ {r} /\ UNCHANGED disk
    BY <1>3, <1>14 DEF FreeResident, FreeNonResident
  <2>3. CASE WriteMftRec0([Read EXCEPT !.bm = @ \ {r}]) /\ UNCHANGED bits
    <3>1. /\ disk'.size = disk.size /\ disk'.len = disk.len /\ disk'.bmap = disk.bmap
          /\ disk'.bm = disk.bm \ {r}
      BY <1>2, <2>3 DEF WriteMftRec0, WriteRec0, Rec0
    <3> QED BY <1>7, <2>1, <2>3, <3>1
  <2>4. CASE bits' = bits \ {r} /\ UNCHANGED disk
    BY <1>7, <2>1, <2>4
  <2> QED BY <2>2, <2>3, <2>4
\* The table grows by whole clusters, past every bit that is set.
<1>15. CASE GrowWrite
  <2>1. /\ pc = "append" /\ pc' = "bitmap" /\ disk' = Grown /\ UNCHANGED bits
        /\ Mounted /\ got # << >> /\ got \in Seq(Cluster)
    BY <1>2, <1>3, <1>15 DEF GrowWrite, WriteRec0, LocalInv, Running, TypeOK
  <2>2. mft = disk
    BY <1>2, <1>3, <2>1 DEF CopyInv
  <2>3. /\ disk'.bmap = disk.bmap /\ disk'.bm = disk.bm /\ disk'.len = disk.len
        /\ disk'.size = Len(disk.place \o got) * PerCluster /\ disk.place \in Seq(Cluster)
    BY <1>2, <2>1, <2>2, GrownIsLonger DEF Rec0
  <2>4. PICK a \in Nat, b \in Nat \ {0}, k \in Nat \ {0} :
          a = Len(disk.place) /\ b = Len(got) /\ k = PerCluster
    BY <2>1, <2>3, SizeAssumption
  <2>5. disk'.size = (a + b) * k
    BY <2>1, <2>3, <2>4, AppendRun
  <2>6. (a + b) * k = a * k + b * k /\ a * k \in Nat /\ b * k \in Nat
    BY Distribute
  <2>7. b * k > 0
    OBVIOUS
  <2>8. disk.size <= a * k
    BY <1>2, <2>4 DEF SizeInv
  <2>9. disk.size < disk'.size /\ disk'.size \in Nat
    BY <1>5, <2>5, <2>6, <2>7, <2>8
  <2>10. Settled = disk.len * ByteBits /\ Settled' = disk.len * ByteBits
    BY <2>1, <2>3 DEF Settled
  <2>11. Marked(disk)' = Marked(disk) /\ Marked(disk) \subseteq Nat
    BY <1>2, <1>3, <1>5, <2>1, <2>3 DEF Marked
  <2>12. NoStray'
    <3>1. ASSUME NEW r \in Marked(disk), r < Settled PROVE r < disk'.size
      <4>1. r < disk.size
        BY <1>4, <3>1 DEF NoStray
      <4> QED BY <4>1, <2>9, <2>11, <1>5
    <3>2. ASSUME resident, NEW r \in disk.bm PROVE r < disk'.size
      <4>1. r < disk.size
        BY <1>4, <3>2 DEF NoStray
      <4> QED BY <4>1, <2>9, <1>5
    <3> QED BY <3>1, <3>2, <1>3, <2>3, <2>10, <2>11 DEF NoStray
  <2>13. HoldsBits'
    BY <1>3, <1>4, <2>1, <2>3 DEF HoldsBits, Capacity
  <2>14. disk'.size - 1 \in Marked(disk) => ~resident /\ Settled < disk'.size
    <3>1. SUFFICES ASSUME disk'.size - 1 \in Marked(disk) PROVE ~resident /\ Settled < disk'.size
      OBVIOUS
    <3>2. ~(disk'.size - 1 < disk.size)
      BY <1>5, <2>9
    <3>3. ~resident
      BY <1>4, <3>1, <3>2 DEF NoStray, Marked
    <3>4. ~(disk'.size - 1 < Settled)
      BY <1>4, <3>1, <3>2 DEF NoStray
    <3> QED BY <3>3, <3>4, <1>5, <2>9
  <2>15. LastFree'
    <3>1. FirstUser < disk'.size
      BY <1>4, <1>5, <2>9
    <3> QED BY <3>1, <2>14, <2>1, <2>10, <2>11, <1>3 DEF LastFree
  <2> QED BY <1>4, <1>5, <2>9, <2>12, <2>13, <2>15 DEF Serving
<1>16. CASE BitmapLongEnough
  <2>1. pc = "bitmap" /\ pc' = "again" /\ UNCHANGED <<disk, bits>> /\ Mounted
    BY <1>2, <1>16 DEF BitmapLongEnough, LocalInv, Running
  <2>2. disk.size <= disk.len * ByteBits
    BY <1>2, <1>5, <1>6, <1>16, <2>1 DEF BitmapLongEnough, TooShort
  <2>3. Settled' = Settled /\ Marked(disk)' = Marked(disk)
    BY <1>3, <2>1 DEF Settled, Marked
  <2>4. NoStray' /\ HoldsBits'
    BY <1>3, <1>4, <2>1, <2>3 DEF NoStray, HoldsBits, Capacity
  <2>5. LastFree'
    BY <1>3, <1>4, <2>1, <2>2, <2>3 DEF LastFree
  <2> QED BY <1>4, <2>1, <2>4, <2>5 DEF Serving
<1>17. CASE BitmapResident
  <2>1. pc = "bitmap" /\ resident /\ UNCHANGED bits /\ Mounted
    BY <1>2, <1>17 DEF BitmapResident, LocalInv, Running
  <2>2. CASE UNCHANGED disk /\ pc' \in {"idle", "refused"}
    BY <1>7, <2>1, <2>2
  <2>3. CASE WriteMftRec0(Longer(disk)) /\ pc' = "again"
    <3>1. NeedBytes \in Nat /\ disk.size <= NeedBytes * ByteBits
      BY <1>5, <1>6, <2>1, NeedCovers
    <3>2. disk'.size = disk.size /\ disk'.bm = disk.bm /\ disk'.len = NeedBytes
      BY <1>2, <2>3 DEF WriteMftRec0, WriteRec0, Longer, Rec0
    <3>3. Marked(disk)' = disk.bm /\ Marked(disk) = disk.bm
      BY <1>3, <2>1, <3>2 DEF Marked
    <3>4. NoStray'
      BY <1>3, <1>4, <2>1, <3>2, <3>3 DEF NoStray
    <3>5. HoldsBits'
      BY <1>3, <2>1 DEF HoldsBits
    <3>6. LastFree'
      BY <1>4, <2>1, <2>3, <3>1, <3>2, <3>3 DEF LastFree
    <3> QED BY <1>4, <3>2, <3>4, <3>5, <3>6 DEF Serving
  <2> QED BY <1>2, <1>3, <1>17, <2>2, <2>3 DEF BitmapResident, Return, Refuse, Leave
\* The clusters that the bitmap is given hold its new length.
<1>18. CASE BitmapAllocate
  <2>1. pc = "bitmap" /\ ~resident /\ UNCHANGED <<disk, bits>> /\ Mounted
    BY <1>2, <1>18 DEF BitmapAllocate, LocalInv, Running
  <2>2. NeedBytes \in Nat /\ disk.size <= NeedBytes * ByteBits
    BY <1>5, <1>6, <2>1, NeedCovers
  <2>3. CASE pc' = "refused"
    BY <1>7, <2>1, <2>3
  <2>4. ASSUME pc' = "bmwrite", img'.len = NeedBytes, img'.len <= Capacity(img') PROVE Serving'
    <3>1. Settled' = Settled /\ Marked(disk)' = Marked(disk)
      BY <1>3, <2>1, <2>4 DEF Settled, Marked
    <3>2. NoStray'
      BY <1>3, <1>4, <2>1, <3>1 DEF NoStray
    <3>3. HoldsBits'
      BY <1>3, <1>4, <2>1, <2>4 DEF HoldsBits, Capacity
    <3>4. LastFree'
      BY <1>3, <1>4, <2>1, <2>2, <2>4, <3>1 DEF LastFree
    <3> QED BY <1>4, <2>1, <3>2, <3>3, <3>4 DEF Serving
  <2>5. CASE NeedBytes <= Capacity(disk) /\ pc' = "bmwrite" /\ img' = Longer(disk)
    <3>1. img'.len = NeedBytes /\ img'.bmap = disk.bmap
      BY <1>2, <2>5 DEF Longer, Rec0
    <3> QED BY <2>4, <2>5, <3>1 DEF Capacity
  <2>6. ASSUME NeedBytes > Capacity(disk), NEW s \in Grants(NeedClusters(disk)),
               Len(s) = NeedClusters(disk), pc' = "bmwrite",
               img' = [Longer(disk) EXCEPT !.bmap = @ \o s]
        PROVE  Serving'
    <3>1. s \in Seq(Cluster)
      BY GrantIsRun
    <3>2. img'.len = NeedBytes /\ img'.bmap = disk.bmap \o s
      BY <1>2, <2>6 DEF Longer, Rec0
    <3>3. NeedBytes <= Len(disk.bmap \o s) * ClusterBytes
      BY <1>2, <2>2, <2>6, <3>1, NeedFits
    <3> QED BY <2>4, <2>6, <3>2, <3>3 DEF Capacity
  <2>7. \/ pc' = "refused"
        \/ NeedBytes <= Capacity(disk) /\ pc' = "bmwrite" /\ img' = Longer(disk)
        \/ /\ NeedBytes > Capacity(disk) /\ pc' = "bmwrite"
           /\ \E s \in Grants(NeedClusters(disk)) :
                Len(s) = NeedClusters(disk) /\ img' = [Longer(disk) EXCEPT !.bmap = @ \o s]
    BY <1>2, <1>18 DEF BitmapAllocate, Refuse, Leave
  <2> QED BY <2>3, <2>5, <2>6, <2>7
\* What the new clusters held lies past the settled bits.
<1>19. CASE BitmapWrite
  <2>1. /\ pc = "bmwrite" /\ pc' = "bmzero" /\ disk' = img /\ UNCHANGED <<img, old>>
        /\ \E junk \in SUBSET Span(Capacity(disk), Capacity(img)) : bits' = bits \cup junk
    BY <1>3, <1>19 DEF BitmapWrite, WriteMftRec0, WriteRec0
  <2>2. img \in Rec0 /\ ~resident /\ img.size = disk.size /\ img.bm = disk.bm /\ old = disk.len
    BY <1>2, <2>1 DEF LocalInv, ImgInv
  <2>3. disk.len <= Capacity(disk) /\ img.len <= Capacity(img) /\ Capacity(disk) \in Nat
    BY <1>2, <1>4, <2>1, <2>2, SizeAssumption DEF HoldsBits, Capacity, Rec0
  <2>4. Settled = disk.len * ByteBits /\ Settled' = disk.len * ByteBits
    BY <2>1, <2>2 DEF Settled
  <2>5. \A r \in bits' : r < Settled => r \in bits
    <3>1. PICK junk \in SUBSET Span(Capacity(disk), Capacity(img)) : bits' = bits \cup junk
      BY <2>1
    <3>2. Settled <= Capacity(disk) * ByteBits /\ Capacity(disk) * ByteBits \in Nat
      BY <1>5, <2>3, <2>4, Covers
    <3>3. ASSUME NEW r \in junk, r < Settled PROVE FALSE
      <4>1. r \in Int /\ r >= Capacity(disk) * ByteBits
        BY <3>2 DEF Span
      <4> QED BY <3>2, <3>3, <4>1, <1>5
    <3> QED BY <3>1, <3>3
  <2>6. Marked(disk)' = bits' /\ Marked(disk) = bits
    BY <1>3, <2>2 DEF Marked
  <2>7. NoStray'
    BY <1>3, <1>4, <2>1, <2>2, <2>4, <2>5, <2>6 DEF NoStray
  <2>8. HoldsBits'
    BY <1>3, <2>1, <2>2, <2>3 DEF HoldsBits, Capacity
  <2>9. LastFree'
    <3>1. /\ FirstUser < disk.size
          /\ disk.size - 1 \in bits => Settled < disk.size
          /\ disk.size <= img.len * ByteBits
      BY <1>4, <2>1, <2>6 DEF LastFree
    <3>2. disk.size - 1 \in bits' => Settled < disk.size
      <4>1. CASE disk.size - 1 < Settled
        BY <4>1, <2>5, <3>1
      <4>2. CASE ~(disk.size - 1 < Settled)
        BY <4>2, <1>5
      <4> QED BY <4>1, <4>2
    <3> QED BY <1>3, <2>1, <2>2, <2>4, <2>6, <3>1, <3>2 DEF LastFree
  <2> QED BY <1>4, <2>1, <2>2, <2>7, <2>8, <2>9 DEF Serving
\* The zeros settle every byte up to the new length.
<1>20. CASE BitmapZero
  <2>1. /\ pc = "bmzero" /\ pc' = "again" /\ UNCHANGED disk
        /\ bits' = bits \ Span(old, img.len)
    BY <1>3, <1>20 DEF BitmapZero, copies
  <2>2. ~resident /\ img.len = disk.len
    BY <1>2, <2>1 DEF LocalInv, ImgInv
  <2>3. Settled = old * ByteBits /\ Settled' = disk.len * ByteBits
    BY <2>1 DEF Settled
  <2>4. \A r \in bits' : r < Settled' => r \in bits /\ r < Settled
    <3>1. SUFFICES ASSUME NEW r \in bits, r \notin Span(old, disk.len), r < disk.len * ByteBits
                   PROVE  r < old * ByteBits
      BY <2>1, <2>2, <2>3
    <3>2. r \in Nat
      BY <1>2
    <3> QED BY <1>5, <3>1, <3>2 DEF Span
  <2>5. Marked(disk)' = bits' /\ Marked(disk) = bits
    BY <1>3, <2>2 DEF Marked
  <2>6. NoStray'
    BY <1>3, <1>4, <2>1, <2>2, <2>4, <2>5 DEF NoStray
  <2>7. HoldsBits'
    BY <1>3, <1>4, <2>1 DEF HoldsBits, Capacity
  <2>8. LastFree'
    <3>1. /\ FirstUser < disk.size
          /\ disk.size - 1 \in bits => Settled < disk.size
          /\ disk.size <= disk.len * ByteBits
      BY <1>4, <2>1, <2>2, <2>5 DEF LastFree
    <3>2. disk.size - 1 \notin bits'
      <4>1. disk.size - 1 < Settled'
        BY <1>5, <2>3, <3>1
      <4>2. disk.size - 1 \in bits' => Settled < disk.size /\ disk.size - 1 < Settled
        BY <2>4, <3>1, <4>1
      <4> QED BY <4>2, <1>5
    <3> QED BY <1>3, <2>1, <2>2, <2>5, <3>1, <3>2 DEF LastFree
  <2> QED BY <1>4, <2>1, <2>6, <2>7, <2>8 DEF Serving
<1> QED BY <1>1, <1>9, <1>10, <1>11, <1>12, <1>13, <1>14, <1>15, <1>16, <1>17, <1>18, <1>19,
           <1>20 DEF Next, Step

\* When the second search begins, the last record of the table is there to be found.
LEMMA Served == IInv /\ ServeInv => GrowthServes
<1>1. SUFFICES ASSUME IInv, ServeInv, pc = "again", faults = 0
               PROVE  FreeRecords(Read) # {}
  BY DEF GrowthServes
<1>2. /\ Read = disk /\ disk \in Rec0 /\ ctx.size = disk.size
  BY <1>1, ReadIsDisk DEF IInv, TypeOK, LocalInv, CopyInv, Running, Ctx
<1>3. /\ FirstUser < disk.size /\ disk.size <= disk.len * ByteBits
      /\ disk.size - 1 \in Marked(disk) => Settled < disk.size
  BY <1>1 DEF ServeInv, Serving, LastFree
<1>4. /\ FirstUser \in Nat /\ disk.size \in Nat /\ disk.len * ByteBits \in Nat
      /\ Settled = disk.len * ByteBits
  BY <1>1, <1>2, SizeAssumption DEF Rec0, Settled
<1>5. disk.size - 1 \notin Marked(disk)
  BY <1>3, <1>4
<1>6. Limit(disk) = disk.size
  BY <1>2, <1>3, <1>4 DEF Limit
<1>7. disk.size - 1 \in FirstUser..(Limit(disk) - 1)
  BY <1>3, <1>4, <1>6
<1> QED BY <1>2, <1>5, <1>7 DEF FreeRecords

\* A growth that no failure cuts short serves the request it was made for, on
\* tables and bitmaps of any size (ntfs_bitmap.c:470).
THEOREM GrowthIsServed == Reserved => (Spec => []GrowthServes)
<1>1. Reserved /\ Init => ServeInv
  BY ServeInit
<1>2. IInv /\ ServeInv /\ [Next]_vars => ServeInv'
  BY ServeStep
<1>3. IInv /\ ServeInv => GrowthServes
  BY Served
<1> QED BY <1>1, <1>2, <1>3, Invariant, PTL DEF Spec

=============================================================================
