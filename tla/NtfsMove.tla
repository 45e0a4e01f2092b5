------------------------------ MODULE NtfsMove ------------------------------
(***************************************************************************)
(* The directories: what a file's record says of where it is (its          *)
(* $FILE_NAMEs) and what the indexes of the directories say.  Move and     *)
(* rename (NtfsEfiMoveFile), create and delete change both, one disk write *)
(* after the other.  A write may fail, an index may refuse, and the power  *)
(* may go between any two writes.                                          *)
(*                                                                         *)
(* An index is a set of entries: its tree is NtfsIndex.  Names that differ *)
(* in case only are one name.                                              *)
(***************************************************************************)
EXTENDS Naturals, Sequences, FiniteSets

CONSTANTS
  Node,         \* file records, with the root directory's
  Root,         \* NTFS_FILE_ROOT
  Name,
  Asked,        \* the names that callers give
  Trees,        \* the directories that another system has left: [Node -> records]
  MaxTroubles,  \* bound on failed writes, refusals of an index and losses of power
  MaxAfter,     \* bound on the calls after the first trouble
  MaxHops,      \* 4096: the steps after which the walk for cycles gives up, and finds none
  None

ASSUME BoundAssumption ==
  /\ IsFiniteSet(Node) /\ Root \in Node
  /\ None \notin Node \cup Name \cup [parent : Node, name : Name]
  /\ Asked \subseteq Name
  /\ MaxTroubles \in Nat /\ MaxAfter \in Nat
  /\ MaxHops \in Nat \ {0}

VARIABLES
  rec,      \* on disk: the records
  index,    \* on disk: the entries of each directory
  pc,       \* where the running call is
  call,     \* its file, the directories it takes it from and to, its new name
  img,      \* its ParentRec: the index of the directory it inserts in
  status,   \* how the last call ended
  trouble,  \* history: what has gone wrong so far
  faults,
  refusals,
  after     \* how many calls have begun since

disk   == <<rec, index>>
budget == <<faults, refusals>>
vars   == <<disk, pc, call, img, status, trouble, budget, after>>

\* A $FILE_NAME: dos is the 8.3 alias of another one.
FileName == [parent : Node, name : Name, dos : BOOLEAN]
Record == [used : BOOLEAN, dir : BOOLEAN, names : Seq(FileName)]
IndexEntry == [name : Name, child : Node]
Entry(x, n) == [name |-> x, child |-> n]

\* NtfsCountRealNames.
RealNames(r) == {i \in DOMAIN r.names : ~r.names[i].dos}
Single(r) == r.dir \/ Cardinality(RealNames(r)) <= 1

\* A directory, or a file with one link, has its alias beside its name.
Together(r) ==
  Single(r) => \A i, j \in DOMAIN r.names : r.names[i].parent = r.names[j].parent

\* Every file in use is in directories in use, and its first name leads up to
\* the root, which is in itself.
IsTree(t) ==
  /\ t[Root].used /\ t[Root].dir /\ t[Root].names[1].parent = Root
  /\ \A n \in Node : t[n].used =>
       \A i \in DOMAIN t[n].names :
         LET d == t[n].names[i].parent IN t[d].used /\ t[d].dir
  /\ \E depth \in [Node -> 0..Cardinality(Node)] :
       \A n \in Node \ {Root} : t[n].used => depth[t[n].names[1].parent] < depth[n]

ASSUME TreesAssumption ==
  \A t \in Trees :
    /\ t \in [Node -> Record] /\ IsTree(t)
    /\ \A n \in Node : t[n].names # << >> /\ Together(t[n])
    /\ \A n, m \in Node : \A i \in DOMAIN t[n].names, j \in DOMAIN t[m].names :
         /\ n # m /\ t[n].used /\ t[m].used /\ Root \notin {n, m}
         /\ t[n].names[i].parent = t[m].names[j].parent
         => t[n].names[i].name # t[m].names[j].name

\* NtfsEfiParentOf, and all that is read of a record's names here: the first.
First(n) == rec[n].names[1]
ParentOf(n) == First(n).parent

EntriesOf(d, n) == {e \in index[d] : e.child = n}
Found(d, x) == {e \in index[d] : e.name = x}

\* What a path leads to from one of the records in S: entries and "..".
Follow(S) == S \cup {ParentOf(n) : n \in S} \cup UNION {{e.child : e \in index[d]} : d \in S}
ReachFrom(S) ==
  LET reach[k \in 0..Cardinality(Node)] == IF k = 0 THEN S ELSE Follow(reach[k - 1])
  IN  Node \cap reach[Cardinality(Node)]

\* The files that a caller can have a handle to.
Handles == ReachFrom({Root})

\* The directories that the new path of n may lead to: from the root, or from
\* where n is.
Targets(n) == {ParentOf(n)} \cup ReachFrom({Root, ParentOf(n)})

AtRest == pc = "idle"
Begin ==
  /\ AtRest /\ (trouble # {} => after < MaxAfter)
  /\ after' = IF trouble = {} THEN 0 ELSE after + 1
Fault == faults + refusals < MaxTroubles /\ faults' = faults + 1 /\ UNCHANGED refusals
Refusal == faults + refusals < MaxTroubles /\ refusals' = refusals + 1 /\ UNCHANGED faults
NoCall == [node |-> None, from |-> None, to |-> None, name |-> None]

Hit(what) == trouble' = trouble \cup what
Return(how) == pc' = "idle" /\ call' = NoCall /\ img' = {} /\ status' = how

Drop(d, e) == index' = [index EXCEPT ![d] = @ \ {e}]

\* The removal of a key that separates two blocks is refused when the key that
\* takes its place does not fit; that key has left its own block by then.
RefuseRemoval(d, n) ==
  /\ Refusal
  /\ \E e \in index[d], separator \in EntriesOf(d, n) : e # separator /\ Drop(d, e)

(***************************************************************************)
(* NtfsEfiMoveFile                                                         *)
(***************************************************************************)
\* NtfsMoveWouldCycle: the walk up the records.
Up(d) ==
  LET up[k \in 0..MaxHops] ==
        IF k = 0 THEN d ELSE IF up[k - 1] = Root THEN Root ELSE ParentOf(up[k - 1])
  IN  up
WouldCycle(n, d) == \E k \in 0..MaxHops - 1 : Up(d)[k] = n
\* A directory goes where the walk has not come to the root.
GivesUp(n, d) == d # ParentOf(n) /\ rec[n].dir /\ Up(d)[MaxHops] # Root

\* Mutant: a directory may go below itself.
MutantMayMove(n, d, x) ==
  /\ n # Root
  /\ d # ParentOf(n) => rec[d].used /\ rec[d].dir
  /\ \A e \in Found(d, x) : e.child = n

\* Its checks: same directory, or another one that is in use and not below n.
MayMove(n, d, x) ==
  /\ n # Root
  /\ d # ParentOf(n) =>
       /\ rec[d].used /\ rec[d].dir
       /\ rec[n].dir => ~WouldCycle(n, d)
  /\ \A e \in Found(d, x) : e.child = n

Renamed(r, d, x) ==
  [r EXCEPT !.names = [@ EXCEPT ![1] = [parent |-> d, name |-> x, dos |-> r.names[1].dos]]]

\* The record takes the new name and directory first.
MoveWrite(n, d, x) ==
  /\ Begin /\ MayMove(n, d, x)
  /\ \/ /\ rec' = [rec EXCEPT ![n] = Renamed(rec[n], d, x)]
        /\ pc' = "unlink" /\ status' = "running"
        /\ call' = [node |-> n, from |-> ParentOf(n), to |-> d, name |-> x]
        /\ Hit(IF GivesUp(n, d) THEN {"deep"} ELSE {})
        /\ UNCHANGED budget
     \/ Fault /\ status' = "failed" /\ UNCHANGED <<rec, pc, call, trouble>>
  /\ UNCHANGED <<index, img>>

\* Does this entry belong to another link of the file?
OtherLink(e) ==
  \E i \in DOMAIN rec[call.node].names :
    /\ i > 1 /\ ~rec[call.node].names[i].dos /\ ~rec[call.node].names[1].dos
    /\ rec[call.node].names[i].parent = call.from /\ rec[call.node].names[i].name = e.name

\* NtfsEfiIndexRemoveByChild: every entry of the file in the old directory.
MoveUnlink ==
  /\ pc \in {"unlink", "more"}
  /\ \E e \in EntriesOf(call.from, call.node) :
       /\ Drop(call.from, e)
       /\ Hit(IF OtherLink(e) THEN {"link"} ELSE {})
  /\ pc' = "more"
  /\ UNCHANGED <<rec, call, img, status, budget>>

\* Mutant: one entry is removed, not all.
MutantMoveUnlinked ==
  /\ pc \in {"unlink", "more"}
  /\ \/ /\ pc = "more" \/ EntriesOf(call.from, call.node) = {}
        /\ Hit(IF pc = "unlink" THEN {"unlink"} ELSE {})
        /\ UNCHANGED <<index, budget>>
     \/ Fault /\ Hit({"unlink"}) /\ UNCHANGED index
     \/ RefuseRemoval(call.from, call.node) /\ Hit({"unlink"})
  /\ pc' = "insert"
  /\ UNCHANGED <<rec, call, img, status>>

\* Its status is not looked at.
MoveUnlinked ==
  /\ pc \in {"unlink", "more"}
  /\ \/ /\ EntriesOf(call.from, call.node) = {}
        /\ Hit(IF pc = "unlink" THEN {"unlink"} ELSE {})
        /\ UNCHANGED <<index, budget>>
     \/ Fault /\ Hit({"unlink"}) /\ UNCHANGED index
     \/ RefuseRemoval(call.from, call.node) /\ Hit({"unlink", "lost"})
  /\ pc' = "insert"
  /\ UNCHANGED <<rec, call, img, status>>

\* The entry goes into the image of the directory's record, or, in a large
\* directory, to disk at once.
MoveInsert ==
  /\ pc = "insert" /\ Entry(call.name, call.node) \notin index[call.to]
  /\ img' = index[call.to] \cup {Entry(call.name, call.node)}
  /\ index' \in {index, [index EXCEPT ![call.to] = img']}
  /\ pc' = "commit"
  /\ UNCHANGED <<rec, call, status, trouble, budget>>

\* The index refuses, and always when the file has a link of that name there.
MoveNotInserted ==
  /\ pc = "insert"
  /\ \/ (Refusal \/ Fault) /\ Hit({"insert"})
     \/ Entry(call.name, call.node) \in index[call.to] /\ UNCHANGED <<trouble, budget>>
  /\ Return("failed")
  /\ UNCHANGED disk

MoveCommit ==
  /\ pc = "commit"
  /\ \/ index' = [index EXCEPT ![call.to] = img] /\ Return("done") /\ UNCHANGED <<trouble, budget>>
     \/ Fault /\ Return("failed") /\ Hit({"insert"}) /\ UNCHANGED index
  /\ UNCHANGED rec

(***************************************************************************)
(* NtfsEfiCreateFile.  The bit of the record is NtfsMft's.                 *)
(***************************************************************************)
\* Mutant: the record has no name yet.
MutantNewRecord(d, x, isDir) == [used |-> TRUE, dir |-> isDir, names |-> << >>]

NewRecord(d, x, isDir) ==
  [used |-> TRUE, dir |-> isDir, names |-> <<[parent |-> d, name |-> x, dos |-> FALSE]>>]

\* Mutant: the name may exist.
MutantCreateWrite(n, d, x) ==
  /\ Begin /\ ~rec[n].used
  /\ rec[d].dir
  /\ \E isDir \in BOOLEAN : rec' = [rec EXCEPT ![n] = NewRecord(d, x, isDir)]
  /\ index' = [index EXCEPT ![n] = {}]
  /\ pc' = "link" /\ status' = "running"
  /\ call' = [node |-> n, from |-> None, to |-> d, name |-> x]
  /\ img' = index[d]
  /\ UNCHANGED <<trouble, budget>>

\* The parent need not be in use, only a directory.
CreateWrite(n, d, x) ==
  /\ Begin /\ ~rec[n].used
  /\ rec[d].dir /\ Found(d, x) = {}
  /\ \E isDir \in BOOLEAN : rec' = [rec EXCEPT ![n] = NewRecord(d, x, isDir)]
  /\ index' = [index EXCEPT ![n] = {}]
  /\ pc' = "link" /\ status' = "running"
  /\ call' = [node |-> n, from |-> None, to |-> d, name |-> x]
  /\ img' = index[d]
  /\ UNCHANGED <<trouble, budget>>

CreateInsert ==
  /\ pc = "link"
  /\ img' = img \cup {Entry(call.name, call.node)}
  /\ index' \in {index, [index EXCEPT ![call.to] = img']}
  /\ pc' = "publish"
  /\ UNCHANGED <<rec, call, status, trouble, budget>>

\* NtfsRollbackNewRecord.
CreateRefused ==
  /\ pc = "link"
  /\ Refusal \/ Fault
  /\ rec' = [rec EXCEPT ![call.node].used = FALSE]
  /\ Return("failed")
  /\ UNCHANGED <<index, trouble>>

CreateCommit ==
  /\ pc = "publish"
  /\ \/ index' = [index EXCEPT ![call.to] = img] /\ Return("done") /\ UNCHANGED <<rec, trouble, budget>>
     \/ /\ Fault /\ UNCHANGED index
        /\ rec' = [rec EXCEPT ![call.node].used = FALSE]
        /\ Hit(IF Entry(call.name, call.node) \in index[call.to] THEN {"commit"} ELSE {})
        /\ Return("failed")

(***************************************************************************)
(* NtfsEfiDeleteFile                                                       *)
(***************************************************************************)
\* Mutant: a file with several links may be deleted.
MutantMayDelete(n) ==
  /\ n # Root /\ rec[n].used
  /\ rec[n].dir => index[n] = {}

\* A file has no other link, a directory is empty.
MayDelete(n) ==
  /\ n # Root /\ rec[n].used
  /\ Single(rec[n])
  /\ rec[n].dir => index[n] = {}

\* The first removal decides: without it nothing happens.
DeleteUnlink(n) ==
  /\ Begin /\ MayDelete(n)
  /\ \/ /\ \E e \in EntriesOf(ParentOf(n), n) : Drop(ParentOf(n), e)
        /\ pc' = "alias" /\ status' = "running"
        /\ call' = [NoCall EXCEPT !.node = n, !.from = ParentOf(n)]
        /\ UNCHANGED <<trouble, budget>>
     \/ /\ \/ Fault /\ UNCHANGED <<index, trouble>>
           \/ RefuseRemoval(ParentOf(n), n) /\ Hit({"lost"})
        /\ status' = "failed" /\ UNCHANGED <<pc, call>>
  /\ UNCHANGED <<rec, img>>

\* The loop over the other entries ends at the first error.
DeleteAlias ==
  /\ pc = "alias"
  /\ \/ /\ \E e \in EntriesOf(call.from, call.node) : Drop(call.from, e)
        /\ UNCHANGED <<pc, trouble, budget>>
     \/ /\ EntriesOf(call.from, call.node) = {}
        /\ pc' = "clear" /\ UNCHANGED <<index, trouble, budget>>
     \/ /\ EntriesOf(call.from, call.node) # {}
        /\ \/ Fault /\ Hit({"unlink"}) /\ UNCHANGED index
           \/ RefuseRemoval(call.from, call.node) /\ Hit({"unlink", "lost"})
        /\ pc' = "clear"
  /\ UNCHANGED <<rec, call, img, status>>

\* The record keeps its names and its directory flag.
DeleteClear ==
  /\ pc = "clear"
  /\ rec' = [rec EXCEPT ![call.node].used = FALSE]
  /\ Return("done")
  /\ UNCHANGED <<index, trouble, budget>>

(***************************************************************************)
(* Losses of power                                                         *)
(***************************************************************************)
Crash ==
  /\ ~AtRest /\ Fault
  /\ Hit({"crash"}) /\ Return("idle")
  /\ UNCHANGED disk

(***************************************************************************)
(* The specification                                                       *)
(***************************************************************************)
NamesOf(n) == {rec[n].names[i] : i \in DOMAIN rec[n].names}

Init ==
  /\ rec \in Trees
  /\ index = [d \in Node |->
       {e \in IndexEntry : /\ rec[e.child].used /\ e.child # Root
                           /\ \E f \in NamesOf(e.child) : f.parent = d /\ f.name = e.name}]
  /\ pc = "idle" /\ call = NoCall /\ img = {} /\ status = "idle"
  /\ trouble = {} /\ faults = 0 /\ refusals = 0 /\ after = 0

\* The steps of a running call.
Step ==
  \/ MoveUnlink \/ MoveUnlinked \/ MoveInsert \/ MoveNotInserted \/ MoveCommit
  \/ CreateInsert \/ CreateRefused \/ CreateCommit
  \/ DeleteAlias \/ DeleteClear

Call ==
  /\ AtRest
  /\ \E h \in Handles :
       \/ \E d \in Targets(h), x \in Asked : MoveWrite(h, d, x)
       \/ \E n \in Node, x \in Asked : CreateWrite(n, h, x)
       \/ DeleteUnlink(h)

Next ==
  \/ Call
  \/ Step /\ UNCHANGED after
  \/ Crash /\ UNCHANGED after

Spec == Init /\ [][Next]_vars

(***************************************************************************)
(* Properties                                                              *)
(***************************************************************************)

Call0 == [node : Node \cup {None}, from : Node \cup {None},
          to : Node \cup {None}, name : Name \cup {None}]

Troubles == {"deep", "unlink", "link", "insert", "lost", "commit", "crash"}

\* Types.
TypeOK ==
  /\ rec \in [Node -> Record] /\ \A n \in Node : rec[n].names # << >>
  /\ index \in [Node -> SUBSET IndexEntry]
  /\ call \in Call0 /\ img \subseteq IndexEntry
  /\ pc \in {"idle", "unlink", "more", "insert", "commit", "link", "publish", "alias", "clear"}
  /\ status \in {"idle", "running", "done", "failed"}
  /\ trouble \subseteq Troubles
  /\ faults \in 0..MaxTroubles /\ refusals \in 0..MaxTroubles
  /\ after \in 0..MaxAfter

\* No two files of a directory have the same name, at any moment and whatever
\* has failed: the name that move and create have found free is still free when
\* they insert it, some writes later.
NamesUnique ==
  \A d \in Node : \A e, f \in index[d] : e.name = f.name => e = f

\* An entry never names a record that is not in use, so that no lookup ends at
\* a file of another name: over refused insertions, failed writes and crashes.
\* Not so after a move whose removal of the old entry failed or found none
\* (NtfsEfiMoveFile does not look, ntfs_setinfo.c:417), or a create whose record
\* was rolled back under an entry on disk.
EntryNeverDangles ==
  trouble \cap {"unlink", "commit"} = {} =>
    \A d \in Node : \A e \in index[d] : rec[e.child].used

HasEntry(n, f) == Entry(f.name, n) \in index[f.parent]

\* Between calls records and indexes agree when nothing has gone wrong: each
\* entry is one of its file's names, and each file's first name, which is the
\* one that move and delete go by, and each of its other links have an entry.
Agree ==
  \A n \in Node :
    /\ \A d \in Node : \A e \in EntriesOf(d, n) :
         \E f \in NamesOf(n) : f.parent = d /\ f.name = e.name
    /\ rec[n].used /\ n # Root =>
         /\ HasEntry(n, First(n))
         /\ ~First(n).dos => \A f \in NamesOf(n) : ~f.dos => HasEntry(n, f)

NamesAgree == AtRest /\ trouble \subseteq {"deep"} => Agree

\* Create, move and remove are seen by a user as if they happened at once, and no move
\* puts a directory below itself, for as long as none has gone where the walk up gives up
\* before the root.
Places == INSTANCE Namespace WITH
  where <- [n \in Node |-> IF rec[n].used /\ n # Root
                           THEN [parent |-> ParentOf(n), name |-> First(n).name] ELSE None],
  isDir <- {n \in Node : rec[n].dir}
ImplementsNamespace ==
  Places!Init /\ [][trouble' = {} /\ rec' # rec => Places!Next]_vars

\* "Steps, ordered so a failure leaves the volume consistent"
\* (ntfs_setinfo.c:287): a call that returns an error, with no write that failed
\* and no loss of power, leaves records and indexes in agreement.
FailureLeavesConsistent ==
  status = "failed" /\ faults = 0 /\ trouble \subseteq {"insert"} => Agree

=============================================================================
