----------------------------- MODULE NtfsIndex ------------------------------
(***************************************************************************)
(* The index of one directory: a tree whose root is in the directory's     *)
(* record ($INDEX_ROOT) and whose other nodes are blocks of                *)
(* $INDEX_ALLOCATION, with a bitmap of the blocks in use.  Insertion       *)
(* splits blocks; removal replaces separators by their predecessors, takes *)
(* empty blocks out and folds an empty tree back into the record.          *)
(*                                                                         *)
(* A call is one step: every operator below maps the directory before a    *)
(* part of the call to the directory after it.  A block is one cluster.    *)
(***************************************************************************)
EXTENDS Integers, Sequences, SequencesExt, FiniteSets, FiniteSetsExt

CONSTANTS
  Key,        \* the names, numbers in collation order
  Size,       \* [Key -> how much of a node an entry takes]
  RootRoom,   \* how much the record can hold
  BlockRoom,  \* how much a block can hold
  Margin,     \* what the root must have left beyond a separator
  Clusters,   \* how many clusters the volume has for this directory
  Asks,       \* how many blocks the index asks for: NTFS_INDEX_ALLOC_CHUNK and its halves
  Limits,     \* how many blocks the record may be able to map
  MaxAfter,   \* bound on the calls after the first trouble
  None

ASSUME SizeAssumption ==
  /\ Key \subseteq Nat /\ Size \in [Key -> Nat \ {0}]
  /\ {RootRoom, BlockRoom, Margin, Clusters, MaxAfter} \subseteq Nat
  /\ Asks \subseteq Nat \ {0} /\ 1 \in Asks /\ Limits \subseteq Nat
  /\ \A k \in Key : RootRoom + Size[k] <= BlockRoom
  /\ None \notin Int

VARIABLES
  dir,      \* on disk: the directory's record and blocks, and the free clusters
  limit,    \* the blocks beyond which the record takes no more runs, or no more bits
  status,   \* how the last call ended
  names,    \* history: the names that a lookup finds
  trouble,  \* history: in which of the known windows the tree has been
  after     \* how many calls have begun since

vars == <<dir, limit, status, names, trouble, after>>

(***************************************************************************)
(* Nodes                                                                   *)
(***************************************************************************)
Block == 0..(Clusters - 1)
Sub == Block \cup {None, -1}        \* -1: bytes that are no pointer, read as one
Item == [key : Key, sub : Sub]
Node == [keys : Seq(Item), end : Sub]
Blank == [keys |-> << >>, end |-> -1]   \* no INDX signature
Leaf(s) == [keys |-> s, end |-> None]
Plain(k) == [key |-> k, sub |-> None]

\* How much of a node these items take.
Width(s) ==
  LET upto[i \in 0..Len(s)] == IF i = 0 THEN 0 ELSE upto[i - 1] + Size[s[i].key]
  IN  upto[Len(s)]

\* A block of 4 KiB holds any two names of at most 255 characters.
ASSUME RoomAssumption ==
  \A x, y \in Item : Width(<<x>>) <= BlockRoom /\ Width(<<x, y>>) <= BlockRoom

\* Where k goes: the first item that is not smaller, or after the last.
Slot(n, k) == Min({i \in DOMAIN n.keys : n.keys[i].key >= k} \cup {Len(n.keys) + 1})
Has(n, k) == \E i \in DOMAIN n.keys : n.keys[i].key = k
SubAt(n, i) == IF i <= Len(n.keys) THEN n.keys[i].sub ELSE n.end
SetSub(n, i, v) == IF i <= Len(n.keys) THEN [n EXCEPT !.keys[i].sub = v] ELSE [n EXCEPT !.end = v]
SlotOf(n, v) == {i \in 1..(Len(n.keys) + 1) : SubAt(n, i) = v}

\* None stands for the record.
NodeAt(d, u) == IF u = None THEN d.root ELSE d.node[u]
Readable(d, v) == v \in Block /\ d.node[v] # Blank
Subs(n) == {SubAt(n, i) : i \in 1..(Len(n.keys) + 1)} \ {None}

\* Every walk down the tree stops at a limit on its depth.
SearchLevels == 32      \* NTFS_MAX_INDEX_DEPTH
InsertLevels == 13      \* NtfsBtreeInsertRec refuses at Depth > 12
RemoveLevels == 33      \* the walks of ntfs_delete.c stop at Depth > 32
DropRounds == 32        \* NtfsDropEmptyIndexBlock, Round < 32

(***************************************************************************)
(* Lookup                                                                  *)
(***************************************************************************)
\* NtfsEfiSearchIndexBlock: the name in node n or below it, or None.
SearchNode(n, k, below) ==
  LET i == Slot(n, k)
  IN  IF i <= Len(n.keys) /\ n.keys[i].key = k THEN k ELSE below[SubAt(n, i)]
\* NtfsEfiSearchSubNode.
SearchBlocks(d, k) ==
  LET level[h \in 0..SearchLevels] ==
        [v \in Sub |-> IF h > 0 /\ v \in d.used /\ Readable(d, v) THEN SearchNode(d.node[v], k, level[h - 1]) ELSE None]
  IN  level[SearchLevels]
Search(d, k) == SearchNode(d.root, k, SearchBlocks(d, k))

Visible(d) == {k \in Key : Search(d, k) = k}

(***************************************************************************)
(* Insertion                                                               *)
(***************************************************************************)
\* A chunk takes clusters, a mapping pair and bits for its blocks.
NoChunk(d) == d.free = 0 \/ limit <= d.owned

\* NtfsBtreeAllocBlock: a block of its own first, else a chunk of clusters.
\* Mutant: the blocks of its own are not looked for.
MutantNoBlock(d) == NoChunk(d)
NoBlock(d) == 0..(d.owned - 1) \subseteq d.used /\ NoChunk(d)
NewBlock(d) == Min(((0..(d.owned - 1)) \ d.used) \cup {d.owned})
\* Mutant: the bit of a block that is used again is not set.
MutantAllocBlock(d) ==
  LET got == Max({c \in Asks : c <= d.free})
  IN  IF NewBlock(d) < d.owned THEN d
      ELSE [d EXCEPT !.used = @ \cup {d.owned}, !.owned = @ + got, !.free = @ - got]
AllocBlock(d) ==
  LET v == NewBlock(d)
      got == Max({c \in Asks : c <= d.free})
  IN  IF v < d.owned THEN [d EXCEPT !.used = @ \cup {v}]
      ELSE [d EXCEPT !.used = @ \cup {v}, !.owned = @ + got, !.free = @ - got]

Done(d) == [how |-> "done", dir |-> d]
Refused(d) == [how |-> "refused", dir |-> d]
Exists(d) == [how |-> "exists", dir |-> d]
Unsupported(d) == [how |-> "unsupported", dir |-> d]
Split(d, s, v) == [how |-> "split", dir |-> d, sep |-> s, right |-> v]

\* Mutant: no block: the name is dropped.
MutantSplitNode(d, v, ord, leftEnd, rightEnd) ==
  IF NoBlock(d) THEN Done(d)
  ELSE LET half == Len(ord) \div 2
           w == NewBlock(d)
       IN  Split([AllocBlock(d) EXCEPT
                   !.node[v] = [keys |-> SubSeq(ord, 1, half), end |-> leftEnd],
                   !.node[w] = [keys |-> SubSeq(ord, half + 2, Len(ord)), end |-> rightEnd]],
                 [key |-> ord[half + 1].key, sub |-> v], w)
\* The items of node v, one too many, over v and a new block; the median goes up.
SplitNode(d, v, ord, leftEnd, rightEnd) ==
  LET half == Len(ord) \div 2
      w == NewBlock(d)
  IN  IF Len(ord) < 2 \/ NoBlock(d) THEN Refused(d)
      ELSE Split([AllocBlock(d) EXCEPT
                   !.node[v] = [keys |-> SubSeq(ord, 1, half), end |-> leftEnd],
                   !.node[w] = [keys |-> SubSeq(ord, half + 2, Len(ord)), end |-> rightEnd]],
                 [key |-> ord[half + 1].key, sub |-> v], w)

\* A node without a child at its end is taken for a leaf.
InsertLeaf(d, v, k) ==
  LET n == d.node[v]
      i == Slot(n, k)
      ord == InsertAt(n.keys, i, Plain(k))
  IN  IF SubAt(n, i) = None /\ Width(ord) <= BlockRoom
      THEN Done([d EXCEPT !.node[v].keys = ord])
      ELSE SplitNode(d, v, ord, None, None)

\* Mutant: the slot is not repointed.
MutantPromote(n, i, sep, right) ==
  [n EXCEPT !.keys = InsertAt(@, i, [sep EXCEPT !.sub = right])]
\* A separator that has come up goes before the slot of the node that was split.
Promote(n, i, sep, right) ==
  LET m == SetSub(n, i, right) IN [m EXCEPT !.keys = InsertAt(@, i, sep)]

\* NtfsBtreeInsertRec.
InsertNode(d, v, k, below) ==
  LET n == d.node[v]
      i == Slot(n, k)
      r == below[SubAt(n, i)]
      m == Promote(n, i, r.sep, r.right)
      half == Len(m.keys) \div 2
  IN  IF ~Readable(d, v) THEN Refused(d)
      ELSE IF Has(n, k) THEN Exists(d)
      ELSE IF n.end = None THEN InsertLeaf(d, v, k)
      ELSE IF r.how # "split" THEN r
      ELSE IF Width(m.keys) <= BlockRoom THEN Done([r.dir EXCEPT !.node[v] = m])
      ELSE SplitNode(r.dir, v, m.keys, m.keys[half + 1].sub, m.end)
InsertRec(d, v, k) ==
  LET level[h \in 0..InsertLevels] ==
        [w \in Sub |-> IF h = 0 THEN Refused(d) ELSE InsertNode(d, w, k, level[h - 1])]
  IN  level[InsertLevels][v]

\* Mutant: the bit of the first block is not set.
MutantExpand(d) ==
  IF d.large THEN d
  ELSE [d EXCEPT !.node[0] = Leaf(<< >>), !.large = TRUE, !.root = [keys |-> << >>, end |-> 0]]
\* A collapsed root gets its first block back.
Expand(d) ==
  IF d.large THEN d
  ELSE [d EXCEPT !.node[0] = Leaf(<< >>), !.used = @ \cup {0}, !.large = TRUE,
                 !.root = [keys |-> << >>, end |-> 0]]

\* NtfsBtreePushDownRoot: the root's items move to a block of their own.
RootFull(d, k) ==
  d.root.keys # << >> /\ RootRoom < Width(d.root.keys) + Size[k] + Margin
PushDownRoot(d) ==
  LET w == NewBlock(d)
  IN  [AllocBlock(d) EXCEPT
        !.node[w] = IF d.root.end = None THEN [d.root EXCEPT !.end = -1] ELSE d.root,
        !.root = [keys |-> << >>, end |-> w]]

\* NtfsRootInsertSep.
RootInsertSep(r, v) ==
  LET n == r.dir.root
      m == Promote(n, Min(SlotOf(n, v)), r.sep, r.right)
  IN  IF Width(m.keys) <= RootRoom THEN Done([r.dir EXCEPT !.root = m]) ELSE Refused(r.dir)

\* NtfsInsertIndexAllocationEntry.  The record is written when all has gone
\* well.  A refused call leaves it as it was, but for an index it has expanded;
\* the block of a push-down is written and the clusters it took are lost.
InsertLarge(d, k) ==
  LET e == Expand(d)
      p == IF RootFull(e, k) THEN PushDownRoot(e) ELSE e
      v == SubAt(p.root, Slot(p.root, k))
      r == InsertRec(p, v, k)
      s == IF Has(p.root, k) THEN Exists(p)
           ELSE IF v = None THEN Refused(p)
           ELSE IF r.how = "split" THEN RootInsertSep(r, v) ELSE r
      left == [e EXCEPT !.free = s.dir.free,
                        !.node = [w \in Block |-> IF w < e.owned THEN p.node[w] ELSE @[w]]]
  IN  IF RootFull(e, k) /\ NoBlock(e) THEN Refused(e)
      ELSE IF s.how = "done" THEN s ELSE [s EXCEPT !.dir = left]

\* Mutant: the cluster of the first block is not taken.
MutantInsertSmall(d, k) ==
  LET ord == InsertAt(d.root.keys, Slot(d.root, k), Plain(k))
  IN  IF Width(ord) <= RootRoom THEN Done([d EXCEPT !.root.keys = ord])
      ELSE Done([d EXCEPT !.root = [keys |-> << >>, end |-> 0], !.large = TRUE,
                          !.node[0] = Leaf(ord), !.used = {0}, !.owned = 1])
\* NtfsInsertIndexEntrySmall and NtfsConvertRootToSingleIndexAllocation.
InsertSmall(d, k) ==
  LET ord == InsertAt(d.root.keys, Slot(d.root, k), Plain(k))
  IN  IF Has(d.root, k) THEN Exists(d)
      ELSE IF Width(ord) <= RootRoom THEN Done([d EXCEPT !.root.keys = ord])
      ELSE IF NoChunk(d) THEN Refused(d)
      ELSE Done([d EXCEPT !.root = [keys |-> << >>, end |-> 0], !.large = TRUE,
                          !.node[0] = Leaf(ord), !.used = {0}, !.owned = 1, !.free = @ - 1])

\* NtfsInsertIndexEntry, and NtfsInsertIndexKey for a key that comes back.
InsertEntry(d, k) == IF d.owned > 0 THEN InsertLarge(d, k) ELSE InsertSmall(d, k)

(***************************************************************************)
(* Removal                                                                 *)
(***************************************************************************)
\* NtfsFreeIndexSubtree.
Under(d, v) ==
  LET level[h \in 0..RemoveLevels] ==
        [w \in Sub |-> {w} \cup IF h > 0 /\ Readable(d, w) THEN UNION {level[h - 1][x] : x \in Subs(d.node[w])} ELSE {}]
  IN  level[RemoveLevels][v]
FreeSubtree(d, v) == [d EXCEPT !.used = @ \ Under(d, v)]

\* NtfsSubtreeIsEmpty: the first key met below v, or None; what cannot be read is
\* empty.
KeyBelow(d, v) ==
  LET level[h \in 0..RemoveLevels] ==
        [w \in Sub |-> IF h = 0 \/ ~Readable(d, w) THEN None
                       ELSE IF d.node[w].keys # << >> THEN d.node[w].keys[1].key
                       ELSE level[h - 1][d.node[w].end]]
  IN  level[RemoveLevels][v]
SubtreeIsEmpty(d, v) == KeyBelow(d, v) = None

Without(n, i) == [n EXCEPT !.keys = RemoveAt(@, i)]
Taken(d, k, v) == [how |-> "done", dir |-> d, key |-> k, emptied |-> v]
NoKey(d) == [how |-> "none", dir |-> d]

\* NtfsExtractMaxKey: the last key below v leaves the tree.
ExtractNode(d, v, below) ==
  LET n == d.node[v]
      last == Len(n.keys)
      item == n.keys[last]
      right == below[n.end]
      left == below[item.sub]
      put == [n EXCEPT !.keys[last].key = left.key]
      cut == Without(n, last)
      Wrote(e, m, emptied) ==
        Taken([e EXCEPT !.node[v] = m], item.key, IF m.keys = << >> THEN v ELSE emptied)
  IN  IF ~Readable(d, v) THEN Unsupported(d)
      ELSE IF n.end # None /\ right.how # "none" THEN right
      ELSE IF n.keys = << >> THEN NoKey(d)
      ELSE IF item.sub = None THEN Wrote(d, cut, None)
      ELSE IF left.how = "none" THEN Wrote(FreeSubtree(d, item.sub), cut, None)
      ELSE IF left.how = "unsupported" THEN left
      ELSE IF Width(put.keys) > BlockRoom THEN Unsupported(left.dir)
      ELSE Wrote(left.dir, put, left.emptied)
ExtractMaxKey(d, v) ==
  LET level[h \in 0..RemoveLevels] ==
        [w \in Sub |-> IF h = 0 THEN Unsupported(d) ELSE ExtractNode(d, w, level[h - 1])]
  IN  level[RemoveLevels][v]

\* Mutant: the separator is not inserted again.
MutantDropEmptyBlock(d, v) ==
  LET hosts == {w \in Block \ {v} : Readable(d, w) /\ SlotOf(d.node[w], v) # {}}
      w == Min(hosts)
      Off(n) == LET i == Min(SlotOf(n, v))
                IN  IF i <= Len(n.keys) THEN Without(n, i) ELSE [n EXCEPT !.end = None]
  IN  IF SlotOf(d.root, v) # {}
      THEN Done([d EXCEPT !.root = Off(@), !.used = @ \ {v}])
      ELSE IF hosts # {} THEN Done([d EXCEPT !.node[w] = Off(@), !.used = @ \ {v}]) ELSE Done(d)
\* NtfsDropEmptyIndexBlock: the pointer to v goes, and so does v's bit.  A
\* separator that held the pointer is inserted again.  A block that is left
\* without keys is next.
Unhook(d, v) ==
  LET hosts == {w \in Block \ {v} : Readable(d, w) /\ SlotOf(d.node[w], v) # {}}
      inRoot == SlotOf(d.root, v) # {}
      w == Min(hosts)
      n == IF inRoot THEN d.root ELSE d.node[w]
      i == Min(SlotOf(n, v))
      keyed == i <= Len(n.keys)
      m == IF keyed THEN Without(n, i) ELSE [n EXCEPT !.end = None]
      e == [IF inRoot THEN [d EXCEPT !.root = m] ELSE [d EXCEPT !.node[w] = m]
            EXCEPT !.used = @ \ {v}]
      Left(r, next) == [how |-> r.how, dir |-> r.dir, next |-> next]
  IN  IF ~inRoot /\ hosts = {} THEN Left(Done(d), None)
      ELSE IF keyed THEN Left(InsertEntry(e, n.keys[i].key), None)
      ELSE Left(Done(e), IF ~inRoot /\ m.keys = << >> THEN w ELSE None)
UnhookNext(s) == IF s.next = None THEN s ELSE Unhook(s.dir, s.next)
DropEmptyBlock(d, v) ==
  LET round[h \in 0..DropRounds] ==
        IF h = 0 THEN [how |-> "done", dir |-> d, next |-> v] ELSE UnhookNext(round[h - 1])
  IN  round[DropRounds]

\* Mutant: the clusters are kept.
MutantCollapse(d) ==
  IF d.large /\ d.root.keys = << >> /\ SubtreeIsEmpty(d, d.root.end)
  THEN [FreeSubtree(d, d.root.end) EXCEPT !.root = Leaf(<< >>), !.large = FALSE]
  ELSE d
\* NtfsCollapseIndexToResident: one block stays mapped.
Collapse(d) ==
  IF d.large /\ d.root.keys = << >> /\ SubtreeIsEmpty(d, d.root.end)
  THEN [FreeSubtree(d, d.root.end) EXCEPT
         !.root = Leaf(<< >>), !.large = FALSE, !.owned = 1, !.free = @ + d.owned - 1,
         !.node = [v \in Block |-> IF v = 0 THEN d.node[v] ELSE Blank]]
  ELSE d

\* A key leaves node n, in which it was found: the directory without it, and what
\* n becomes.
TakeKey(d, n, k, room) ==
  LET i == Slot(n, k)
      v == n.keys[i].sub
      r == ExtractMaxKey(d, v)
      m == [n EXCEPT !.keys[i].key = r.key]
      Left(e, kept, emptied) == [how |-> "done", dir |-> e, node |-> kept, emptied |-> emptied]
  IN  IF v = None THEN Left(d, Without(n, i), None)
      ELSE IF r.how = "none" THEN Left(FreeSubtree(d, v), Without(n, i), None)
      ELSE IF r.how = "unsupported" \/ Width(m.keys) > room THEN Unsupported(r.dir)
      ELSE Left(r.dir, m, r.emptied)

\* The node and the record are written, a block that is left without keys is dropped,
\* and an index without keys is folded.  Nobody looks how dropping has ended.
AfterTake(u, r, empty) ==
  LET e == IF u = None THEN [r.dir EXCEPT !.root = r.node] ELSE [r.dir EXCEPT !.node[u] = r.node]
      Left(s) == [how |-> "done", dir |-> Collapse(s.dir), drop |-> s.how]
  IN  Left(IF empty = None THEN Done(e) ELSE DropEmptyBlock(e, empty))

\* NtfsRemoveOneDirEntryByChild: the root first, then every block that can be
\* read, in or out of the tree.
RemoveEntry(d, k) ==
  LET hosts == {w \in Block : Readable(d, w) /\ Has(d.node[w], k)}
      u == IF Has(d.root, k) THEN None ELSE Min(hosts)
      n == NodeAt(d, u)
      r == TakeKey(d, n, k, IF u = None THEN RootRoom ELSE BlockRoom)
  IN  IF ~Has(d.root, k) /\ hosts = {} THEN [how |-> "not found", dir |-> d]
      ELSE IF r.how # "done" THEN r
      ELSE AfterTake(u, r, IF u # None /\ n.keys = <<Plain(k)>> THEN u ELSE r.emptied)

(***************************************************************************)
(* The specification                                                       *)
(***************************************************************************)
\* A block that keeps separators while the child at its end has gone, or has bytes
\* that are no pointer there.
Cut(n) == n.end = -1 \/ (n.end \notin Block /\ \E i \in DOMAIN n.keys : n.keys[i].sub \in Block)

\* The windows: an insertion refused after it has taken clusters or written a
\* block; a removal refused half way; a separator that was not inserted again; a
\* block that has lost its end.
Windows(r) ==
  (IF r.how \in {"refused", "unsupported"} /\ (r.dir.free # dir.free \/ r.dir.node # dir.node) THEN {"half"} ELSE {})
  \cup (IF "drop" \in DOMAIN r /\ r.drop # "done" THEN {"separator"} ELSE {})
  \cup (IF \E v \in r.dir.used : Cut(r.dir.node[v]) THEN {"cut"} ELSE {})

Call(r) ==
  /\ trouble # {} => after < MaxAfter
  /\ after' = IF trouble = {} THEN 0 ELSE after + 1
  /\ dir' = r.dir
  /\ UNCHANGED limit
  /\ status' = r.how
  /\ names' = Visible(r.dir)
  /\ trouble' = trouble \cup Windows(r)

\* Callers look a name up before they insert it.
InsertName(k) == k \notin names /\ \E r \in {InsertEntry(dir, k)} : Call(r)
RemoveName(k) == \E r \in {RemoveEntry(dir, k)} : Call(r)

\* Between calls: the record's other attributes, and the runs that come to lie side by
\* side, change what it has room for.
Fill ==
  /\ trouble # {} => after < MaxAfter
  /\ limit' \in Limits \ {limit}
  /\ status' = "idle"
  /\ UNCHANGED <<dir, names, trouble, after>>

Init ==
  /\ limit \in Limits
  /\ dir = [root |-> Leaf(<< >>), large |-> FALSE, node |-> [v \in Block |-> Blank],
            used |-> {}, owned |-> 0, free |-> Clusters]
  /\ status = "idle" /\ names = {} /\ trouble = {} /\ after = 0

Next == Fill \/ \E k \in Key : InsertName(k) \/ RemoveName(k)

Spec == Init /\ [][Next]_vars

(***************************************************************************)
(* Properties                                                              *)
(***************************************************************************)
TypeOK ==
  /\ dir \in [root : Node, large : BOOLEAN, node : [Block -> Node], used : SUBSET Block,
              owned : 0..Clusters, free : 0..Clusters]
  /\ dir.owned + dir.free <= Clusters
  /\ limit \in Limits
  /\ status \in {"idle", "done", "refused", "exists", "unsupported", "not found"}
  /\ trouble \subseteq {"half", "separator", "cut"}
  /\ after \in 0..(MaxAfter + 1)

\* Every node is in collation order, and every name below it is below the slot
\* that a comparison leads to, so a lookup that descends by comparison finds what
\* an enumeration lists, and a name is there once (NtfsEfiSearchIndexBlock).
Below(d, v) ==
  {k \in Key : \E w \in Under(d, v) : w \in Block /\ Has(d.node[w], k)}
Ordered(d, n) ==
  /\ \A i \in 2..Len(n.keys) : n.keys[i - 1].key < n.keys[i].key
  /\ \A i \in 1..(Len(n.keys) + 1) : \A k \in Below(d, SubAt(n, i)) : ~Has(n, k) /\ Slot(n, k) = i
InCollationOrder ==
  trouble = {} => \A u \in dir.used \cup {None} : Ordered(dir, NodeAt(dir, u))

\* The blocks marked in use are the blocks of the tree, each with one pointer to
\* it: no block is in two places, none is marked and out of the tree, and none
\* in the tree can be given out again (NtfsBtreeAllocBlock).
Pointers(d, v) == UNION {{<<u, i>> : i \in SlotOf(NodeAt(d, u), v)} : u \in d.used \cup {None}}
BlocksAgree ==
  trouble = {} =>
    /\ dir.used = {v \in Block : Pointers(dir, v) # {}}
    /\ \A v \in dir.used : Cardinality(Pointers(dir, v)) = 1 /\ v < dir.owned
    /\ dir.owned + dir.free = Clusters

\* A removal finds a name by reading every block, in the tree or not, and a
\* lookup by descending: they see the same names, so nothing is deleted from a
\* block that nobody reads (NtfsRemoveOneDirEntryByChild).
ScanAgreesWithLookup ==
  trouble = {} =>
    names = {k \in Key : Has(dir.root, k) \/ \E v \in Block :
                                   Readable(dir, v) /\ Has(dir.node[v], k)}

\* No block of the tree is left without a key below it, so an emptied directory
\* gives its blocks back (NtfsCollapseIndexToResident).
EmptyIsSmall ==
  trouble = {} /\ names = {} => ~dir.large /\ dir.used = {} /\ dir.owned <= 1

\* Every call outside the windows is one step of a set of names, or none.
Names == INSTANCE NameSet
ImplementsNameSet ==
  Names!Init /\ [][trouble' = {} /\ names' # names => Names!Next]_vars

\* The caller is told the truth: a call that reports success has changed the name
\* it was asked for, any other has changed no name.
ChangesAsAsked ==
  [][trouble' = {} =>
       /\ \A k \in names' \ names : InsertName(k)
       /\ \A k \in names \ names' : RemoveName(k)
       /\ status' = "done" <=> names' # names]_vars

\* The levels of the tree below the root, and the blocks that can still be had: those
\* the directory owns and does not use, and those the volume can give and the record map.
Height(d) ==
  LET level[h \in 0..InsertLevels] ==
        [v \in Sub |-> IF h > 0 /\ v \in Block THEN 1 + level[h - 1][d.node[v].end] ELSE 0]
  IN  level[InsertLevels][d.root.end]
Fresh(d) == IF NoChunk(d) THEN 0 ELSE IF d.free <= limit - d.owned THEN d.free ELSE limit - d.owned
Spare(d) == Fresh(d) + Cardinality(0..(d.owned - 1) \ d.used)

\* A separator j that comes up when k is put in: the record has been given room for
\* k and the margin only, or can never have room for it.
TooLong(j, k) == RootRoom < Size[j] \/ Size[k] + Margin < Size[j]

\* However short of clusters, of mapping pairs or of bits the directory is, an insertion
\* is refused only if there are fewer blocks to be had, those it owns and does not use
\* included, than the levels of the tree and one more; or at the limit of its depth,
\* behind a root whose last child has gone, or for a separator that is too long
\* ("Reuse removes that failure outright", NtfsBtreeAllocBlock).
RefusedOnlyWhenFull ==
  [][trouble = {} /\ status' = "refused" =>
       \A k \in Key : InsertName(k) =>
         \/ Spare(dir) <= Height(dir) \/ Height(dir) = InsertLevels
         \/ dir.large /\ dir.root.end = None
         \/ \E j \in names \cup {k} : TooLong(j, k)]_vars

\* "A separator's key stays exactly where it is, so no name is lost"
\* (ntfs_delete.c): the removal of a name removes no other.
NoOtherNameLost ==
  [][status' = "done" => Cardinality(names \ names') <= 1]_vars

=============================================================================
