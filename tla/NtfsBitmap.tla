----------------------------- MODULE NtfsBitmap -----------------------------
(***************************************************************************)
(* The cluster allocator of ntfs_bitmap.c, over $Bitmap on disk, its       *)
(* mirror in memory, the rolling cursor and the count of free clusters.    *)
(*                                                                         *)
(* A bitmap is the set of its one bits.  It is scanned bit by bit with     *)
(* whole words and bytes of ones skipped, and written by bytes: a grant or *)
(* a release writes the bytes its run touches, from the buffer.  The       *)
(* status of that write is ignored; when it fails, the bytes before the    *)
(* failing one are written.  Without memory for the mirror at mount time,  *)
(* every operation works on a buffer read from the disk.                   *)
(***************************************************************************)
EXTENDS Integers, FiniteSets

CONSTANTS
  ByteBits,   \* 8 in the code
  WordBytes,  \* 8 in the code
  Bytes,      \* the length of $Bitmap
  Retreat,    \* the smallest release that moves the cursor back, in clusters
  MaxNeed,    \* bound: the largest request
  MaxFaults,  \* bound on the number of writes of $Bitmap that fail
  NoMirror

ASSUME SizeAssumption ==
  /\ ByteBits \in Nat \ {0} /\ WordBytes \in Nat \ {0}
  /\ Bytes \in Nat /\ Retreat \in Nat \ {0}
  /\ MaxNeed \in Nat /\ MaxFaults \in Nat

Total   == Bytes * ByteBits
Cluster == 0..(Total - 1)

ASSUME MirrorAssumption == \A S \in SUBSET Cluster : NoMirror # S

VARIABLES
  disk,     \* $Bitmap
  mounted,
  mirror,   \* Vcb->VolBitmap
  free,     \* Vcb->FreeClusters
  hint,     \* Vcb->BitmapAllocHint
  owned,    \* history: how many files hold each cluster
  faults

vars == <<disk, mounted, mirror, free, hint, owned, faults>>

Run(start, k) == start..(start + k - 1)

Held == {c \in Cluster : owned[c] > 0}

(***************************************************************************)
(* NtfsScanBitmapRange: the first run of need free clusters in [from, to), *)
(* else the longest run in it.                                             *)
(***************************************************************************)

\* The scan passes over k-bit chunks of ones while the whole chunk is in range.
SkipOnes(buf, bit, to, k) ==
  LET Ahead(n) == n = bit \/ (n <= to /\ (n - bit) % k = 0 /\ bit..(n - 1) \subseteq buf)
  IN  CHOOSE n \in bit..to : Ahead(n) /\ \A m \in bit..to : Ahead(m) => m <= n

\* Skipping is possible only at a byte boundary with no free run open.
Skip(buf, s, to) ==
  IF s.len = 0 /\ s.bit % ByteBits = 0
  THEN SkipOnes(buf, SkipOnes(buf, s.bit, to, WordBytes * ByteBits), to, ByteBits)
  ELSE s.bit

\* The longest run seen so far, when the open one ends.
Longest(s) == IF s.len > s.bestLen
           THEN [s EXCEPT !.bestStart = s.start, !.bestLen = s.len] ELSE s

\* Mutant: a run that ends is kept whether or not it is the longest.
MutantCloseRun(s) ==
  IF s.len > 0 THEN [s EXCEPT !.bestStart = s.start, !.bestLen = s.len, !.len = 0] ELSE s

\* A used bit ends the open run.
CloseRun(s) == [Longest(s) EXCEPT !.len = 0]

\* One turn of the loop, unless the request is met or the range exhausted.
Turn(buf, s, to, need) ==
  LET bit == Skip(buf, s, to)
  IN  IF s.len >= need \/ bit >= to THEN s
      ELSE IF bit \in buf THEN [CloseRun(s) EXCEPT !.bit = bit + 1]
      ELSE [s EXCEPT !.bit = bit + 1, !.len = s.len + 1,
                     !.start = IF s.len = 0 THEN bit ELSE s.start]

\* The state of the scan after i turns.
Walk(buf, from, to, need) ==
  LET walk[i \in 0..(to - from)] ==
        IF i = 0 THEN [bit |-> from, start |-> 0, len |-> 0, bestStart |-> 0, bestLen |-> 0]
        ELSE Turn(buf, walk[i - 1], to, need)
  IN  walk

Scan(buf, from, to, need) ==
  LET last == Longest(Walk(buf, from, to, need)[to - from])
  IN  [start |-> last.bestStart, len |-> last.bestLen]

\* From the cursor to the end, and only if that is short from the beginning
\* to the cursor; the longer of two short runs wins.
Search(buf, need) ==
  LET from == IF hint >= Total THEN 0 ELSE hint
      high == Scan(buf, from, Total, need)
      low  == Scan(buf, 0, from, need)
  IN  IF high.len < need /\ low.len > high.len THEN low ELSE high

(***************************************************************************)
(* NtfsEfiWriteAttr of the bytes that the clusters first..last lie in,     *)
(* with what new has there; or of the bytes before one that fails.         *)
(***************************************************************************)
Overlay(new, first, past) ==
  LET bits == {c \in Cluster : first <= c \div ByteBits /\ c \div ByteBits < past}
  IN  (disk \ bits) \cup (new \cap bits)

\* Mutant: the length is rounded down, so the last byte may be left out.
MutantWriteSlice(new, first, last) ==
  /\ disk' = Overlay(new, first \div ByteBits, (last + 1) \div ByteBits)
  /\ UNCHANGED faults

WriteSlice(new, first, last) ==
  \/ /\ disk' = Overlay(new, first \div ByteBits, last \div ByteBits + 1)
     /\ UNCHANGED faults
  \/ /\ faults < MaxFaults /\ faults' = faults + 1
     /\ \E failed \in (first \div ByteBits)..(last \div ByteBits) :
          disk' = Overlay(new, first \div ByteBits, failed)

\* The buffer an operation works on, and what is left of it afterwards.
Buffer == IF mirror = NoMirror THEN disk ELSE mirror

\* Mutant: the operation works on a copy of the mirror.
MutantKeep(new) == UNCHANGED mirror
Keep(new) == mirror' = IF mirror = NoMirror THEN NoMirror ELSE new

\* The files that hold the run, after d more have taken it.
Hold(run, d) == owned' = [c \in Cluster |-> IF c \in run THEN owned[c] + d ELSE owned[c]]

(***************************************************************************)
(* NtfsEfiAllocateClusters                                                 *)
(***************************************************************************)

\* Mutant: the cursor moves by what was asked for, not by what was found.
MutantAllocate(need) ==
  /\ mounted
  /\ LET r   == Search(Buffer, need)
         run == Run(r.start, r.len)
     IN  /\ r.len > 0
         /\ Keep(Buffer \cup run)
         /\ WriteSlice(Buffer \cup run, r.start, r.start + r.len - 1)
         /\ free' = IF free > r.len THEN free - r.len ELSE 0
         /\ hint' = r.start + need
         /\ Hold(run, 1)
  /\ UNCHANGED mounted

Allocate(need) ==
  /\ mounted
  /\ LET r   == Search(Buffer, need)
         run == Run(r.start, r.len)
     IN  /\ r.len > 0
         /\ Keep(Buffer \cup run)
         /\ WriteSlice(Buffer \cup run, r.start, r.start + r.len - 1)
         /\ free' = IF free > r.len THEN free - r.len ELSE 0
         /\ hint' = r.start + r.len
         /\ Hold(run, 1)
  /\ UNCHANGED mounted

\* EFI_VOLUME_FULL.
AllocateFull(need) ==
  /\ mounted
  /\ Search(Buffer, need).len = 0
  /\ UNCHANGED vars

\* NtfsEfiFreeClusters, of clusters a file maps.  A large release before the
\* cursor moves it back.
Free(start, count) ==
  LET run == Run(start, count)
  IN  /\ mounted
      /\ run \subseteq Held
      /\ Keep(Buffer \ run)
      /\ WriteSlice(Buffer \ run, start, start + count - 1)
      /\ free' = free + count
      /\ hint' = IF start < hint /\ count >= Retreat THEN start ELSE hint
      /\ Hold(run, -1)
      /\ UNCHANGED mounted

(***************************************************************************)
(* NtfsEfiMountVolume seeds the mirror and counts, if there is memory for  *)
(* it; otherwise every cluster counts as free.  Unmount and power loss     *)
(* discard all that is in memory.                                          *)
(***************************************************************************)
Mount ==
  /\ ~mounted
  /\ mounted' = TRUE /\ hint' = 0
  /\ \/ mirror' = disk     /\ free' = Total - Cardinality(disk)
     \/ mirror' = NoMirror /\ free' = Total
  /\ UNCHANGED <<disk, owned, faults>>

Unmount ==
  /\ mounted
  /\ mounted' = FALSE /\ mirror' = NoMirror /\ free' = 0 /\ hint' = 0
  /\ UNCHANGED <<disk, owned, faults>>

Init ==
  /\ disk \in SUBSET Cluster
  /\ owned = [c \in Cluster |-> IF c \in disk THEN 1 ELSE 0]
  /\ mounted = FALSE /\ mirror = NoMirror /\ free = 0 /\ hint = 0 /\ faults = 0

\* No call is followed once two files hold a cluster.
Call ==
  /\ \A c \in Cluster : owned[c] <= 1
  /\ \/ \E need \in 1..MaxNeed : Allocate(need) \/ AllocateFull(need)
     \/ \E start \in Cluster, count \in 1..Total : Free(start, count)

Next == Call \/ Mount \/ Unmount

Spec == Init /\ [][Next]_vars

(***************************************************************************)
(* Properties                                                              *)
(***************************************************************************)

\* Types; the cursor stays on the volume or just past its end.
TypeOK ==
  /\ disk \subseteq Cluster /\ owned \in [Cluster -> Nat]
  /\ mounted \in BOOLEAN
  /\ mirror = NoMirror \/ mirror \subseteq Cluster
  /\ free \in Nat /\ hint \in 0..Total
  /\ faults \in 0..MaxFaults

\* What the driver goes by has every cluster that a file holds.
Remembers == Held \subseteq Buffer /\ \A c \in Cluster : owned[c] <= 1

\* The allocator implements the promise its callers rely on: it grants only
\* clusters no file has, as one run, and forgets or invents none, until the
\* driver has forgotten one.  The result of a write of $Bitmap is ignored
\* (ntfs_bitmap.c:202) and a run is granted that is not marked on disk; but no
\* cluster is forgotten as long as no write fails, and with a mirror none
\* before the volume is mounted again.
Space == INSTANCE ClusterSpace WITH holders <- owned
ImplementsSpace ==
  /\ Space!Init
  /\ [][Remembers => Space!Next]_owned
  /\ [][Remembers /\ (faults' = 0 \/ (mirror # NoMirror /\ mounted')) => Remembers']_vars

\* A run of k clusters with no bit set in buf lies in [from, to).
Fits(buf, from, to, k) == \E s \in from..(to - k) : Run(s, k) \cap buf = {}

\* What the search finds is the first run long enough beyond the cursor, else
\* before it; failing that, neither half holds a longer run than the one
\* found.  So a request is refused only by a full volume, however the words
\* and bytes of ones are skipped.
SearchIsBest ==
  mounted => \A need \in 1..MaxNeed :
    LET r == Search(Buffer, need)
    IN  /\ r.len \in 0..need /\ Run(r.start, r.len) \cap Buffer = {}
        /\ r.len < need => /\ ~Fits(Buffer, hint, Total, r.len + 1)
                           /\ ~Fits(Buffer, 0, hint, r.len + 1)
        /\ r.len = need => ~Fits(Buffer, IF r.start < hint THEN 0 ELSE hint,
                                 r.start + need - 1, need)

\* The three records of the free space agree: the mirror with the disk, as
\* long as no write fails, and FreeClusters with both; the count is never
\* below what the mirror has, nor below the truth without one.
FreeSpaceAgrees ==
  /\ faults = 0 => disk = Held
  /\ mirror # NoMirror /\ faults = 0 => mirror = disk /\ free = Cardinality(Cluster \ disk)
  /\ mounted /\ (mirror # NoMirror \/ faults = 0) => free >= Cardinality(Cluster \ Buffer)

=============================================================================
