# A TLA+ model of the NTFS_EFI driver

NTFS_EFI is a UEFI driver that mounts an NTFS volume read/write, and EC, a file
commander that runs on top of it. The driver has no journal: what a crash or a
failed write leaves on the disk is decided by the order of the writes inside
each handler, by explicit roll-back and by the `VOLUME_DIRTY` flag. That
discipline is what these modules describe, check and prove.

## 1. Inventory

| Part | State it keeps | Operations | Correct when |
|---|---|---|---|
| Cluster allocator, `ntfs_bitmap.c` | `$Bitmap` on disk, mirror `VolBitmap`, cursor `BitmapAllocHint`, `FreeClusters` | `NtfsEfiAllocateClusters`, `NtfsEfiFreeClusters` | grants only clusters nobody has; mirror, disk and count agree; refuses only when full |
| MFT record allocator, `ntfs_bitmap.c` | `$MFT:$BITMAP`, the cached record 0, `MFTContext` | allocate/free a record, `NtfsGrowMft`, `NtfsGrowMftBitmap` | a record is granted once; growth maps no cluster twice and leaves no stale bit |
| MFT record I/O, `ntfs_mft.c` | record cache, `$MFTMirr` | read, write (fixups), mirror the first records | a read returns the last write; cache and disk agree |
| Create, `ntfs_create.c` | - | record bit, record, index entry, roll-back | a refused create leaves nothing behind |
| Delete, `ntfs_delete.c` | - | unlink, free clusters, clear record, clear bit | nothing that can still be reached is freed |
| Growing write, `ntfs_file.c` | handle, `AllocLog` | allocation loop, roll-back, record write, size copies | clusters of a refused call return; sizes agree |
| Truncate and trim, `ntfs_setinfo.c` | `DidGrow` | free tail, encode run list, write record | the record never maps freed clusters |
| Rename/move, `ntfs_setinfo.c` | - | check for cycles, rewrite name, unlink, insert | each name has one entry and each entry a file; no directory below itself |
| Directory index, `ntfs_btree.c`, `ntfs_create.c`, `ntfs_delete.c` | `$INDEX_ROOT`, `$INDEX_ALLOCATION`, its bitmap | insert and split, remove and merge, look up | sorted, reachable, one entry per name |
| Mount life cycle, `ntfs_volume.c` | the VCB, `VolumeDirtySet` | mount, mark dirty, unmount, flush | an unflagged volume is consistent |
| Binding, `ntfs_binding.c` | protocol interfaces | Start, Stop, media change | no handle outlives its volume |
| Handles, `ntfs_file.c` | position, cached size, record number | open, read, write, seek, close | a handle touches its own file only |
| Attribute I/O and run lists, `ntfs_attr.c`, `ntfs_runlist.c` | - | byte-range read/write, decode, encode | decode of encode is the identity |
| Disk I/O, `ntfs_diskio.c` | firmware's block cache | read, write | - |
| EC tree operations, `ec/FileSystem.c`, `ec/Sync.c` | - | recursive copy, move, delete, synchronise | a failure loses no file |
| EC user interface, probe, scripts, vendored EDK2 | | | |

Calls go one way: the file protocol (`ntfs_file.c`) calls create, delete, write
and set-info, these call the two allocators, the index and the record writer, and
everything ends in `NtfsEfiWriteDisk`. They share the VCB (mirror, cursor, dirty
flag) and the disk. All of it runs as UEFI boot services code on one processor:
no threads, no timers, no asynchronous completion (`ntfs_diskio.c:10-16`). What
is hard is therefore not interleaving but the prefix of a handler that a crash
or a failed write leaves behind, what the *next* handlers, or the next mounts,
make of it, and the caches (mirror, `VolumeDirtySet`, `DidGrow`, copies of the
size) that must follow the disk. `PROJECT.json` lists these hazards line by line.

## 2. Modules

| Module | What it models |
|---|---|
| `ClusterSpace` | abstract: what the cluster allocator promises (a grant is one run nobody holds; a release gives one back; nothing else moves a cluster) |
| `NtfsBitmap` | `ntfs_bitmap.c` for clusters: scan with word and byte skipping, cursor, mirror, counts, byte writes; implements `ClusterSpace` |
| `NtfsStore` | the clusters of files: every disk write of create, delete, growing write, truncate, close with trim, size synchronisation, mount, unmount; crash and failed write anywhere; instantiates `ClusterSpace` to say how the handlers use the allocator |
| `RecordSpace` | abstract: what the record allocator promises (the table only gets longer; a grant is one record inside it that nobody has) |
| `NtfsMft` | `ntfs_bitmap.c` for file records: search, growth of `$MFT` and of both forms of its bitmap, release; the five copies of record 0; implements `RecordSpace` |
| `Namespace` | abstract: what a user sees of the directories (every file is in one place; create, move and remove happen at once) |
| `NtfsMove` | names and directories: every disk write of move, rename, create and delete over a tree of directories, with aliases and links; implements `Namespace` |
| `NameSet` | abstract: what an index promises (a set of names) |
| `NtfsIndex` | the tree of one directory: insertion with splits, removal with predecessor replacement, dropping of blocks, collapse, lookup; implements `NameSet` |
| `FileContent` | abstract: what a caller is promised of a file (a sequence of bytes changed by puts and cuts) |
| `NtfsFile` | the content of one file and several handles to it: open, read, write with the filling of gaps, growth and conversion, resize, close with trim, delete; short and failed writes, loss of power; implements `FileContent` |
| `MCNtfsStore`, `MCNtfsMft`, `MCNtfsMove`, `MCNtfsIndex`, `MCNtfsFile` | small instances for TLC |
| `NtfsStoreProofs`, `NtfsBitmapProofs`, `NtfsMftProofs`, `NtfsMoveProofs`, `NtfsIndexProofs`, `NtfsIndexTreeProofs`, `NtfsFileProofs`, `NtfsFileSafetyProofs` | theorems |

The modules fit together by what they take for granted of each other. `NtfsStore` and `NtfsMft`
ask clusters of an allocator that grants any free run, which `ClusterSpace` says and `NtfsBitmap`
implements. `NtfsStore` and `NtfsMove` ask records of one that grants any free record (`RecordSpace`,
`NtfsMft`), and insert into and remove from an index that is a set of entries (`NameSet`, `NtfsIndex`).
`NtfsStore` follows the clusters of a file through create, write and delete in one directory,
`NtfsMove` its names through all directories, `NtfsFile` its content through several handles.

**`NtfsStore` and the code.** `bitmapDisk`, `mftBitmap`, `rec`, `index` and `dirty` are the
disk (`$Bitmap`, `$MFT:$BITMAP`, the records with flag, sequence number, cluster map
and size, the directory, `VOLUME_DIRTY`). `mounted`, `bitmap`, `dirtySet` and `grew` are
the VCB's mirror and flag and the handles' `DidGrow`: a crash or an unmount forgets
them. `pc` names the point a handler has reached, `img` is its private copy of the record
(`Rec` in the code), `left`, `log`, `todo` are `Remaining`, `AllocLog` and the runs it has
yet to free. Each action makes at most one disk write (a run freed, a record written,
an entry inserted, ...), so that `Crash` falls between any two, and each write may be the
one that fails (`Fault`); the action then does what the code does with the status, which
is often to ignore it. `before`, `status`, `freed` and `damage` are history: the volume at the
start of the call, its result, the clusters it has freed while cur's record still maps them,
and which of the known windows a crash or failed write has hit.

**`NtfsBitmap` and the code.** A bitmap is the set of its one bits. `Scan` is
`NtfsScanBitmapRange` turn by turn (skip words of ones, skip bytes of ones, close a run,
extend a run), `Search` the two halves around the cursor, `WriteSlice` the bytes that
`NtfsEfiWriteAttr` puts on disk, or those before the one it fails on. `Keep` and `Buffer`
tell the two modes apart: with the mirror, and without it when its memory could not be had
at mount. `owned` is history: who holds each cluster.

**`NtfsMft` and the code.** `disk`, `mirr`, `cache`, `mft` and `ctx` are the five places that say where
the table lies: record 0 on disk, its copy in `$MFTMirr`, the cached copy, `Vcb->MasterFileTable`
and `Vcb->MFTContext`. Growth edits `mft` in place and writes it whole (`GrowWrite`), everything
else reads record 0, changes it and writes it through `NtfsWriteMftRec0` (`WriteMftRec0`); that they do
not undo each other is `CopiesAgree`. `pc` walks through `NtfsEfiAllocateMftRecord`: search, growth
(clusters, zeros, record 0), growth of the bitmap (sizes, then zeros: in between the new bytes
hold what their clusters held, `junk`), second search. `room` is what record 0 can hold, in
mapping pairs and bytes of a resident bitmap. `owners` is history; `lost` names the records whose
bits a release wrote back without having read their byte.

**`NtfsMove` and the code.** `rec` is every record's flags and `$FILE_NAME`s, `index` the entries
of every directory, `call` the arguments of the running call and `img` its `ParentRec`. A call begins with
records that paths lead to (`Handles`, `Targets`: entries and `..`), and with a lookup in the same
step as its first write. Some things the code does are easily missed: a rename rewrites the
*first* `$FILE_NAME` only; `NtfsEfiIndexRemoveByChild` takes every entry of the file in the
old directory, that of another link too (`trouble` "link"); the result of that removal is ignored
("unlink"); the insertion is refused when the file has a link of that name in the new directory
already; and a removal refused because the predecessor of a separator does not fit has taken the
predecessor out of its block by then, so that another file loses its entry ("lost"), although
`ntfs_delete.c:1492` returns as if nothing had changed.

**`NtfsIndex` and the code.** `dir` is the directory's record and its blocks: `root`, `node`, the `used`
bits, the number of blocks `owned` and the clusters `free` on the volume; `limit` is how many blocks the record can map. The functions of the
code are operators from a directory to a directory (`InsertRec`, `SplitNode`, `Promote`,
`PushDownRoot`, `ExtractMaxKey`, `DropEmptyBlock`, `Collapse`, ...), and a call is one step. A name
is a number in collation order with a `Size`. `trouble` names three windows in which calls without any
failed write hurt the tree: an insertion refused half way ("half"), a dropped separator that
was not inserted again ("separator"), a block that keeps separators but has lost the child at its end and
is then taken for a leaf ("cut").

**`NtfsFile` and the code.** `rec` is the file's record with `DataSize`, `InitializedSize`, run list or
resident value, `data` the clusters; `handles` has each handle's `FileSize`, `Position` and `DidGrow`, and what it can
know of the file (`knows`, history). `NtfsEfiWrite` calls itself to fill the gap before a write past the end, 4096 bytes
(`Chunk`) at a time: `stack` holds those calls, each with its own allocation, data and record write. Between
calls a caller may set any position, so the one that a call leaves is compared with what it should be
(`DoesAsAsked`) and then forgotten. A free cluster becomes `Junk`, since another file may
have it next. `trouble` names what the code gives no guarantee for, and the run follows one call from there to its end:

- "behind": another handle has made the file longer. A write past the size that the handle knows then fills the "gap"
  with zeros, over the other's data; and as `FileSize` does not follow when nothing grows, the function calls itself
  from the old size for every chunk again.
- "beyond": another handle has made it shorter. A write at the old end exposes what the clusters in between held,
  without the zeros that `src/README.md:193` speaks of.
- "orphan": the file was deleted, and perhaps its record taken again: no sequence number tells.
- "uninit": `InitializedSize` is behind the size, in files of other systems. Reads and growth do not look at it.
- "short", "dangle": a short write of data moved the size all the same; a cut freed clusters and did not get
  to the record (`store_crash_dangles`).

`kept` is slack that no handle answers for: a conversion preallocates without setting `DidGrow`
(`ntfs_file.c:1311`), so closing does not give it back, unlike what `src/README.md:200` says of Close; nor does
a refused delete or a loss of power.

## 3. Runs

| Run | Shows |
|---|---|
| `store_calm` | without crashes and failures: consistency between calls (`ConsistentAtRest`), a volume not flagged dirty is consistent even inside a call (`CleanFlagTruthful`), a refused call has changed nothing (`RefusalChangesNothing`), all handlers together use the allocator as `ClusterSpace` says (`UsesClusterSpace`), every call returns (`CallsReturn`) |
| `store_crash` | with one crash and one failed write anywhere, starting empty or with a sparse file of another system: entries, records and clusters may leak but never dangle, outside the windows named by `damage` |
| `store_crash_dangles` | violated: the README's "a crash leaks, never dangles" without that exception. Delete and shrink free clusters before they write the record |
| `store_unclean_flag` | violated: a volume left inconsistent by a crash loses its dirty flag at the next mount that changes something and unmounts |
| `store_sparse_refusal` | violated: truncation of a sparse file frees the tail and is then refused; no crash or failure is needed |
| `bitmap` | the allocator implements `ClusterSpace` across mounts with and without mirror; mirror, disk and count agree; the search is optimal on its side of the cursor and refuses only a full volume. One write of `$Bitmap` may fail, whose result is ignored (`ntfs_bitmap.c:202`, although line 99 promises that a run is marked on disk before it is granted): the mirror makes up for it until the volume is mounted again, and without a mirror, or after that, a cluster may be granted twice; what follows then is not explored |
| `mft` | with one failed read or write, or loss of power, anywhere in search, growth and release: the copies of record 0 agree, a record is never granted twice (but for the byte written back unread), no cluster of the table is mapped twice or free, none is taken in unzeroed, a growth serves the call it was made for, nothing leaks when nothing fails, every allocation ends |
| `move` | with one failed write, refused index or loss of power, and one more call after it: no name twice in a directory, no entry of a free record outside two windows; without trouble every call is one step of `Namespace`, which makes no cycle, and records and indexes agree between calls; they agree too after a move for which the walk for cycles gave up ("deep"), which may have made one |
| `move_full_directory` | violated: "ordered so a failure leaves the volume consistent". A refused insertion leaves the file renamed and in no directory |
| `index` | insertions and removals in any order in a tree of up to three levels, until the volume is full or the directory's record takes no more runs: the tree is in order, its blocks and their bitmap agree, removal and lookup see the same names, an emptied directory gives its blocks back, an insertion is refused only when the blocks to be had, those the directory owns and does not use included, are no more than the levels of the tree (or for one of three reasons that have nothing to do with blocks), and every call outside the windows is one step of `NameSet` and does what it reports |
| `index_name_lost` | violated: "no name is lost". Deleting one file loses the name of another, whose separator went with an emptied block and could not be inserted again |
| `file` | two handles on one file, with one failed or short write or loss of power anywhere: a handle that no other has overtaken reads the content and no more (`ReadsContent`); a call that reports success has done what was asked and a failed one nothing else (`DoesAsAsked`); preallocated clusters are given back when the handle that took them is closed (`SlackReturned`); the content changes by puts of data or zeros and by cuts only, so that no old content of a cluster is ever seen (`ImplementsFile`) |

The bounds, all constants of the configurations:

- `Cluster`: 3 clusters in `store_calm` let a growth take two runs, run out in the middle
  and roll back, with another file in between; 2 clusters where crashes and failures
  multiply the states, enough for one file to reuse what another has freed.
- `Record`, `Name`: 2 of each in `NtfsStore`: reuse of a record under a new sequence number while an old
  entry survives, and two files competing for clusters and for the last record.
- `MaxSeq = 2` makes the sequence number wrap at once (65535 in the code).
- `Quantum = 2` (`NTFS_WRITE_PREALLOC_BYTES`) exceeds a small request, so there is slack to
  trim; `MaxSize = 2`.
- `MaxCrashes`, `MaxFaults`, `MaxTroubles`: one each, at any point and any number of mounts or calls
  later. The theorems of section 5 hold for any number.
- `ByteBits = WordBytes = 2`, `Bytes = 3` in `bitmap`: all alignments of a run to bytes and
  words, a word and a byte beyond it, every initial bitmap, every cursor. `Retreat = 2` for the
  release size that moves the cursor back.
- `mft`: seven clusters of one record each, the table in two of them, two bits to a byte and
  `RoomSet = {2, 3, 4}`: the table grows by one run or two or to the end of the volume, its bitmap
  must follow after every second record, and record 0 runs out of room before either. Resident
  bitmaps of one and two bytes, non-resident ones with and without a cluster to spare. About 654,000 states.
- `move`: the root and three records, three names of which callers ask for two, five trees: a
  directory in a directory, a file with an 8.3 alias after its name and one with the alias before it,
  a file with links in two directories, and one with two links in the same. `MaxAfter = 1`: one more call
  after the first trouble meets what that has left; two (3.3 million states) show no more. With `MaxHops = 2` the walk for cycles
  gives up three levels down, so that "deep" is met, and with it a directory that is moved below itself. About 1.34 million states.
- `index`: seven names of two sizes, a block that holds two or three of them, a root that holds one,
  six clusters asked for eight at a time and less (`Asks`): three levels, splits of leaves and inner nodes, push-down of the root,
  halved requests, a full volume and blocks used again. `Limits = {0, 6}`: between any two calls the record may come to take no more runs, or
  to take them again. `Margin = 1`: the longest name fits in what is left beside the shortest, so no separator is `TooLong`. About 105,000 states. In this instance no predecessor is longer than
  the separator it replaces by more than a node has room for, so the refusal of such a removal
  ("unsupported") does not come up in it; `NtfsMove` takes it into account.
- `file`: two handles, three clusters of two units, writes of up to two units to positions up to three, chunks of one
  unit and a record that holds one: gaps of several chunks, every step from resident to one cluster to three, growth
  that takes more than is needed, a full volume. The file is new, or left by another system in one cluster with or
  without an `InitializedSize` behind its size. About 782,000 states up to symmetry.

Records, names, handles and the clusters of `file` are symmetric where no liveness is checked. Elsewhere clusters are numbers,
hence not. Deadlock is checked where some call, mount or unmount is always possible; `move` and
`index` stop at `MaxAfter`; `file` stays where it is after trouble (`Over`), so that a call that could not go on would show.

## 4. Fairness

`NtfsStore!FairSpec` has weak fairness of `Handler` and `NtfsMft!Spec` of `Step`, the steps of the call in
progress, and of nothing else: boot services code is not preempted, and the disk calls are synchronous. Callers owe
nothing (no fairness of `Call`, `Mount`, `Unmount`, `Crash`). `CallsReturn` then
says that no loop over runs or clusters goes on for ever, `AllocReturns` that search, growth
and second search come to an end. `NtfsMove`, `NtfsIndex` and `NtfsFile` have no liveness property: the
loops of a move are bounded by the entries of a directory, the recursions of the index by its depth, those of a write by the gap.

## 5. Proofs

For every volume, every number of records and names, every bound, any number of crashes
and failed writes, from the assumptions on the constants that each module names:

| Module | Theorem | States |
|---|---|---|
| `NtfsStoreProofs` | `TypeCorrect` | `Spec => []TypeOK` |
| | `EntriesNeverDangle` | `Spec => []EntryNeverDangles` |
| | `RecordsNeverDangle` | `Spec => []RecordNeverDangles` |
| | `ClustersNeverDangle` | `Spec => []ClusterNeverDangles` |
| | `UndisturbedConsistent` | `Spec => [](Undisturbed => ConsistentAtRest /\ CleanFlagTruthful)` |
| | `UndisturbedRefusal` | `Spec =>` every undisturbed step of a refusal restores the view |
| | `CalmConsistentAtRest` | `Calm => (Spec => []ConsistentAtRest)` |
| | `CalmCleanFlagTruthful` | `Calm => (Spec => []CleanFlagTruthful)` |
| | `CalmRefusalChangesNothing` | `Calm => (Spec => RefusalChangesNothing)` |
| | `CalmUsesClusterSpace` | `Calm => (Spec => UsesClusterSpace)` |
| `NtfsBitmapProofs` | `TypeCorrect` | `Spec => []TypeOK` |
| | `FreeSpace` | `Spec => []FreeSpaceAgrees` |
| | `SearchCorrect` | `Spec => []SearchIsBest` |
| | `Implements` | `Spec => ImplementsSpace` |
| `NtfsMftProofs` | `TypeCorrect` | `Spec => []TypeOK` |
| | `Copies` | `Spec => []CopiesAgree` |
| | `Marks` | `Spec => []OwnedIsMarked` |
| | `Extents` | `Spec => []ExtentsSound` |
| | `Clean` | `Spec => TableIsClean` |
| | `Implements` | `Spec => ImplementsSpace` |
| | `Leakproof` | `Spec => []NothingLeaks` |
| | `GrowthIsServed` | `Reserved => (Spec => []GrowthServes)` |
| `NtfsMoveProofs` | `TypeCorrect` | `Spec => []TypeOK` |
| | `NamesStayUnique` | `Spec => []NamesUnique` |
| | `EntriesNeverDangle` | `Spec => []EntryNeverDangles` |
| | `NamesStayAgreed` | `Spec => []NamesAgree` |
| | `Implements` | `Spec => ImplementsNamespace` |
| `NtfsIndexProofs` | `IndexTypes` | `Spec => []TypeOK` |
| `NtfsIndexTreeProofs` | `StaysInOrder` | `Spec => []InCollationOrder` |
| | `BlocksStayAgreed` | `Spec => []BlocksAgree` |
| | `ScanStaysAgreed` | `Spec => []ScanAgreesWithLookup` |
| | `EmptyStaysSmall` | `Spec => []EmptyIsSmall` |
| | `IndexImplementsNameSet` | `Spec => ImplementsNameSet` |
| | `CallsChangeAsAsked` | `Spec => ChangesAsAsked` |
| | `RootFitsRecord` | `Spec => []Held(dir)`: the root's keys fit in the record |
| | `RefusesOnlyWhenFull` | `Spec => RefusedOnlyWhenFull` |
| `NtfsFileProofs` | `TypeCorrect` | `Spec => []TypeOK` |
| | `HandleReads` | `Spec => []ReadsContent` |
| `NtfsFileSafetyProofs` | `SlackGivenBack` | `Spec => []SlackReturned` |
| | `FileImplemented` | `MappedOnce => (Spec => ImplementsFile)` |
| | `CallsDoAsAsked` | `MappedOnce => (Spec => []DoesAsAsked)` |

**`NtfsStore`.** None of the four is inductive. `TypeInv` adds to `TypeOK` that a handler in the middle has a
record in hand and that a file is never longer than what is allocated to it (`SizeFits`), which a cut needs.
`LocalsInv` says what the locals hold at each `pc` (no log, nothing freed or left to free at
rest), that the mirror equals `$Bitmap`, and that the image a handler works on is the record but for
the part it changes. `EntryInv` adds that entries name different records, and none the one being
created or deleted; `RecordInv` that a record's bit goes after its in-use flag; `ClusterInv` that the
log is allocated and no file's, and that a record in the middle of a call maps what its image maps, less
the log or plus `todo` and `freed`. `SafeInv` is their
conjunction; `LocalsStep`, `EntryStep`, `RecordStep` and `ClusterStep` are proved separately, each from
`TypeInv` and the ones before it, with one step per action. Lemmas on cluster maps
(`RunMapLemma`, `AppendLemma`, `CutLemma`) carry the facts about sequences.

The consistency of the volume holds only until something goes wrong (section 3 has the runs that show how it is
lost), so `CalmInv` is about the histories that are `Undisturbed`: no crash, no failed write, no damage so far. It gives the exact
value of everything on disk at every `pc`: `CalmBits` that `$Bitmap` is what the files map, plus the log, less what is freed;
`CalmRecords` that bits, in-use flags and entries differ in the record in hand only; `CalmSizes` that
one entry's size at most is behind; `CalmFlag` that the dirty flag went first; and `CalmUndo`, the strongest part, that at each
step that can still be refused the volume with the call's changes taken back (`Undone`) is the volume that the
call found. The first two theorems need nothing more than `Spec`. The four under `Calm` are the properties as the run
`store_calm` checks them: `Calm` says that the bounds allow no crash and no failed write and that no file is
sparse at the start, which is that run's setting, and `NoHoles` shows that then nothing disturbs: a refusal
that strands clusters needs a sparse file (run `store_sparse_refusal`).

**`NtfsBitmap`.** The hard part is what a scan finds (`ScanFinds`): `Walk` is a function
defined by recursion on the turns of the loop, and the induction theorems take operators that the provers cannot
instantiate. The proofs use the least number of a set instead, which follows from the well-foundedness of `<`
(`LeastNumber`): that the recursion has a solution (`WalkDefined`), and that `ScanInv` holds after every turn
(`WalkKeeps`), are shown at the least turn at which they would fail. `ScanInv` says that the open run begins
after a used cluster, and that any free run passed so far is no longer than the best or lies in the open
one. `FreeSpaceAgrees` with the types is inductive; `CallStores` says what the write by bytes leaves
on disk and in the mirror, `FreeCount` does the arithmetic of `FreeClusters`, and `AllocateGrants` and `FreeReleases` are
the steps of the refinement.

**`NtfsMft`.** `IInv` is `TypeOK` with `LocalInv` (the run being added is allocated and in no copy; the image of a
growing bitmap differs from record 0 by its own runs and length only), `CopyInv` (`CopiesAgree` without its restriction to
calls at rest), `SizeInv`, `MarkInv` (a granted record's bit lies below what the zeroing of a
grown bitmap can reach), `ExtentsSound` and `CleanInv`. It is proved conjunct by conjunct over the
actions; `Clean` and `Implements` are then step theorems from it: every action is a `Grow`, `Grant` or
`Release` of `RecordSpace` or leaves it alone. `LeakInv` and `ServeInv` are about the
histories without a fault: an allocated cluster is a file's, mapped on disk or `Held` by the growth, and from the write of
the grown table to the second search its last record is free and the bitmap on its way to cover it (`LastFree`),
for which no bit past the end may be set in the part of the bitmap that has been zeroed (`NoStray`). `GrowthServes`
also needs that the volume has its reserved records (`Reserved`), as every formatted volume has
(`NTFS_FILE_FIRST_USER_FILE`) and the run's formats have: a table that ends below the first user record could grow by a record that no
search looks at.

**`NtfsMove`.** What an index is and what it is about to be differ while its image is being written; `Ahead`
is the latter. Two lemmas carry everything: an insertion adds the call's entry to `Ahead` (`Grows`), and no other
step adds any (`Shrinks`). `NameInv` then needs only that the name found free at the start of a call is
still free in `Ahead` when it is inserted. For `EntriesNeverDangle`, `UsedInv` adds that the entries of a file with one link are all
in one directory (`OneDirectory`), so that the removals from that directory are removals of all of them,
and what each `pc` knows about the entries of the running call's file (`MoveKnows`, `CreateKnows`,
`DeleteKnows`); it holds as long as no move's removal and no create's commit has failed (`Sound`).

The rest is about what holds as long as nothing goes wrong. `AgreeInv` splits `NamesAgree` by files: every file but the
running call's agrees at any moment, and `MoveTree`, `CreateTree` and `DeleteTree` say how far that
one has got. It also needs that only directories in use have entries (`DirInv`), and that callers reach only
files in use (`HandlesUsed`): a create looks at its directory's type, not at its use. `TreeInv` says that no
directory is above itself, where "above" is a least set closed under parents (`Over`). `WalkFinds` shows that
a walk that comes to the root has seen every record above, and `AcyclicMove` that a move that
the walk lets through so makes no cycle. A walk that gives up first proves nothing: it is the trouble "deep", which ends `Implements` and
`TreeInv`, but not `NamesStayAgreed`, as agreement needs no tree (`Calm` allows it). `Iterates` and `KeptByAll` are the inductions for the recursive
functions of walk and paths. What is assumed is that the volume is in order when it is found (`TreesAssumption`: a tree, no name
twice in a directory). Nothing relates `MaxHops` to the number of records.

**`NtfsFile`.** A record is `Sound` when its clusters are those that its allocation counts and its sizes are in
order; `Files` and `None` come with that as assumptions. `IInv` is `DiskInv` (the record is sound at every
step) with `LocalInv`: the types of handles, image and stack; the image is sound too (`ImgInv`, from
`ClustersHold`, the arithmetic of clusters); on the stack each write begins where the gap of the one
below it goes on (`StackInv`); and a handle not overtaken has the size of the record, which is in use
(`KnowInv`), which is all that a read trusts and bounds the stack by two. The ways a write ends, fails and goes on to its next piece are lemmas of
their own (`FinishWorks`, `FailWorks`, `OnwardWorks`). `SlackInv` then says of the image what `SlackReturned`
says of the record: there is no slack in it that the record on disk or the handle's `DidGrow` does not answer for.

The content needs that units do not share a place, so `FileImplemented` and `CallsDoAsAsked` assume `MappedOnce`: no
record found on the volume maps a cluster twice (the run's files do not); `MapInv` shows that the calls keep it so.
`ContentInv` holds while callers meet nothing worse than a handle whose size is too small. `PlaceInv` says that a call works on a
file that is all written and starts no further than its end (a gap has been filled before), and `ImageInv`, the heart of it, that the
record about to be written describes what the clusters already hold: the old units up to the data and the data behind them, or the
old units cut short. So the step that writes the record shows a `Put` or a `Cut` of `FileContent` and the steps before it nothing;
where a cut has freed clusters that the record still maps, the content is that of the image (`Content`). `PlaceIs` and `PlaceOnce` do
the arithmetic of units in clusters, `WrittenIs` says what a write of data leaves where, and `PutIs` and `CutIs` carry
the refinement. `CallsDoAsAsked` follows calls over all of their steps. `AskInv` holds while there is no trouble at all: `WorkInv` says that
what the call found is still there, followed by zeros as far as the gap has been filled, but for data on the disk
and not yet in the record, and that the handle has the file's size; `CutInv` the same of a cut, in the image once the record no longer
maps what it says. `DoneOk` and `DoneFailed` compare that with `AskedFor` at the end. On the way `CutRefusedAsk` shows that a call without
trouble never gets the refusal of a cut to a larger size.

**`NtfsIndex`.** A walk down the tree is a function from levels to functions on blocks, and `DropEmptyBlock` a function from
rounds to directories. `Iterates` says that such a function exists, and one lemma a walk
(`InsertRecLevels`, `ExtractMaxKeyLevels`, `DropRoundsFacts`) takes it to its steps, so that what each step keeps holds of the
whole by `KeptByAll`. `TypeInv` adds to `TypeOK` that an index which has left the record owns a block: the
clusters that folding gives back are all but one of those it owns, which needs one.

The order of the tree needs more than the properties say. `Tree(d, x, g)` gives every node a label `g`: its level above
the leaves, the node that points to it, and the two separators between which its keys lie. A block in use then has exactly one
pointer to it, at a slot whose neighbours are its bounds, and a block out of use holds nothing. `x` names the one block that may be without a
key while a removal is under way. `TreeInv` is the inductive invariant: until a window is met, the directory is in its record (`Small`) or such a tree
of no more levels than an insertion goes down, with a key and without a block that has lost its end (`Big`), and `names` are the keys in
it. It is stronger than the properties in three ways they need: that a lookup finds every key by comparison takes the bounds; that an
empty directory folds takes that no leaf is empty; and that a split may take any block the bitmap calls free takes that such a block is
pointed to by nobody and holds no key which a removal would find. It also allows what the code leaves behind: a
root whose last child has gone (`Stump`), whole or pushed down into a block.

Each part of a call is a lemma from labels to labels: `SplitStep` (a new block gets the level of the old one and
its separator goes up), `PushTree` (the record's items go to a block of their own), `RenameTree` (a separator takes the key before it, and what was
bounded by the one is bounded by the other), `CutLeaf`, `EndTree` and `LowerTree` (a pointer to an empty block goes, alone or with its
separator). `InsertWalk` and `ExtractWalk` carry them up and down the levels. `EntryStep` then says what an insertion comes to, `RemoveBig` and
`RemoveSmall` what a removal does, with what folding finds (`SettledTree`, `SettledBarren`); `InsertTold` and `RemoveTold` leave the windows
out, and the six theorems follow.

`RefusesOnlyWhenFull` counts blocks on top of that. `Spare` are those to be had (owned and not used, or free, as far as the record can map them),
and one allocation takes one of them and fails only when there is none (`SpareAlloc`). An insertion that reaches a node of level `h` takes one block for each level
that it splits (`LeafCost`, `InnerCost`, added up by `CostWalk` and `WayCost`), and one more for a push-down, which makes the tree one level
higher (`PushCost`): with more to be had than the tree has levels no split is refused (`LargeCost`, `SmallCost`). What is left is the root, which must
have room for the separator that comes up; `Held` (`RootFitsRecord`) says that its keys fit in the record, and `RootFull` that a margin was kept, so it has, unless the separator is `TooLong`.

Model-checked only: liveness (`CallsReturn`, `AllocReturns`), which is out of the prover's reach.

## 6. What is abstracted, and what is not modelled

- `NtfsStore`: sizes are counted in clusters; a resident file has size 0; one directory, one name and
  at most one open handle to a file. Insertion in and removal from an index are one step each, in `NtfsMove` too.
  Writes of `$Bitmap` do not fail there, they do in `NtfsBitmap`. Filling the gap before a write beyond the end is a
  sequence of writes (`NtfsFile`).
- `NtfsFile`: one file; creating and deleting it are one step each (`NtfsStore` has theirs). Clusters come in any
  order, in the one run of a conversion too; runs are `NtfsBitmap`'s. Sparse and compressed files, which a write refuses, and
  directories are left out; so is the opening of a handle for reading only. A volume unmounted
  under open handles (`ntfs_binding.c:270`) is not modelled.
- Reads do not fail except in `NtfsMft`, on-disk structures are well formed, and memory can be had except for the mirror.
- A unit of content is zero, data or junk: writes of different data are not told apart.
- Disk writes are ordered and durable at once. The firmware's cache between `NtfsEfiWriteDisk`
  and `FlushBlocks` could reorder them. A write of a record is atomic: records torn inside a write, which
  the update sequence detects, are not modelled.
- The refusal of a shrink whose new mapping pairs are larger than the old cannot happen with
  minimal encodings, so `ShrinkRefused` is the sparse one only.
- After damage of kind `entry` a stale entry names a free record; write and truncate do not look at
  the in-use flag, so a call through it may allocate to or free from that record. The cluster
  property excludes that history, and section 3's runs do not judge it.
- `NtfsMft`: a refused growth of the bitmap keeps the grown table (`NothingLeaks` counts those clusters as the
  table's, which they are); the allocation is the size, with no slack behind `$MFT`'s data; the check of a record number against the
  bitmap in `NtfsEfiFreeMftRecord` cannot fail for a record that a file has.
- `NtfsMove`: names that differ in case only are one name. A call names its files by path, so handles that outlive their file, and what
  is created through them in a directory that has been deleted, are left out; so are lookups that fail to read
  a block. The duplicated times and sizes of an entry are data. The walk for cycles gives up after 4096 steps and
  then reports none (`ntfs_setinfo.c:264`): such a move is modelled, and named "deep", after which `ImplementsNamespace` no longer judges
  whether there is a cycle.
- `NtfsIndex`: a block is one cluster, and a key is removed by its name, not by its child's record number; the 8 bytes that a
  separator's pointer adds are left out. Whether the record can map another chunk (room for a mapping pair, `ntfs_create.c:541`; for a run in the
  list, 574; for the bits of its blocks, 604) is a choice: `limit`, which changes between calls (`Fill`), with every new chunk of a call counted against it, so that any
  chunk of any call may be the first to be refused. The room for keys in the record (`RootRoom`) is a constant, though: what the runs and bits take of it as they grow
  is left out. A call is one
  step, so there is no crash inside a split, where blocks are flushed before the record that maps them
  (`ntfs_create.c:942`). A directory starts empty, so the bitmap of its blocks is in its record and
  stays there, as the driver never moves it out; a bitmap outside the record, as Windows leaves one in a very large directory, with which `NtfsBtreeAllocBlock`
  refuses even the blocks that the directory owns, blocks that Windows has given back and an index spread
  over `$ATTRIBUTE_LIST` records are not modelled.
- Driver binding adds only the firmware's handle database to mount and unmount. The run list codec,
  decompression (LZNT1, WOF), symbolic links, times and names are functions of bytes
  with known test data; the user interface of EC holds no shared state, and its tree operations are an application above the
  driver. The full list with reasons is `components` in `PROJECT.json`.

## 7. What is left

In order of importance:

1. Stop of the binding under open handles; handles that outlive their file, in `NtfsMove` too.
2. `NtfsIndex` with one step per block written, and a crash between two.
3. Decode and encode of mapping pairs, checked against a reference over small widths.
4. EC's recursive copy, move, delete and synchronisation, with failures and cancellation.
