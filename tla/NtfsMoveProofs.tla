--------------------------- MODULE NtfsMoveProofs ---------------------------
(***************************************************************************)
(* Theorems about NtfsMove, for any set of records, names and trees that   *)
(* another system has left, and any number of failed writes, refusals and  *)
(* losses of power.                                                        *)
(***************************************************************************)
EXTENDS NtfsMove, FiniteSetTheorems, WellFoundedInduction, SequenceTheorems, TLAPS

(***************************************************************************)
(* The inductive invariant                                                 *)
(***************************************************************************)

\* What the running call knows.
InMove == pc \in {"unlink", "more", "insert", "commit"}
InCreate == pc \in {"link", "publish"}
InDelete == pc \in {"alias", "clear"}
CallInv ==
  /\ ~AtRest => call.node \in Node
  /\ InMove \/ InCreate => call.to \in Node /\ call.name \in Name
  /\ InMove \/ InDelete => call.from \in Node

TypeInv == TypeOK /\ CallInv

\* A record that has been given another name is a record with as many names,
\* and a file with one link stays one.
LEMMA RenamedRecord ==
  ASSUME NEW r \in Record, r.names # << >>, NEW d \in Node, NEW x \in Name
  PROVE  /\ Renamed(r, d, x) \in Record
         /\ Renamed(r, d, x).names # << >>
         /\ Renamed(r, d, x).used = r.used
         /\ Renamed(r, d, x).dir = r.dir
         /\ Single(Renamed(r, d, x)) = Single(r)
<1> DEFINE f == [parent |-> d, name |-> x, dos |-> r.names[1].dos]
           s == [r.names EXCEPT ![1] = f]
<1>1. r.names \in Seq(FileName) /\ r.used \in BOOLEAN /\ r.dir \in BOOLEAN
  BY DEF Record
<1>2. 1 \in 1..Len(r.names) /\ Len(r.names) \in Nat
  BY <1>1
<1>3. r.names[1] \in FileName
  BY <1>1, <1>2
<1>4. f \in FileName
  BY <1>3 DEF FileName
<1>5. /\ s \in Seq(FileName) /\ Len(s) = Len(r.names)
      /\ \A j \in 1..Len(r.names) : s[j] = IF j = 1 THEN f ELSE r.names[j]
  <2> HIDE DEF f
  <2>1. s \in Seq(FileName) /\ Len(s) = Len(r.names)
    BY <1>1, <1>2, <1>4, ExceptSeq
  <2>2. DOMAIN r.names = 1..Len(r.names)
    BY <1>1
  <2> QED BY <2>1, <2>2
<1>6. /\ Renamed(r, d, x) \in Record
      /\ Renamed(r, d, x).names = s
      /\ Renamed(r, d, x).used = r.used /\ Renamed(r, d, x).dir = r.dir
  <2>1. Renamed(r, d, x) = [r EXCEPT !.names = s]
    BY DEF Renamed
  <2> HIDE DEF s
  <2>2. [r EXCEPT !.names = s] \in Record
    BY <1>5 DEF Record
  <2> QED BY <2>1, <2>2 DEF Record
<1>7. s # << >>
  BY <1>2, <1>5
<1>8. RealNames(Renamed(r, d, x)) = RealNames(r)
  <2>1. DOMAIN s = 1..Len(r.names) /\ DOMAIN r.names = 1..Len(r.names)
    BY <1>1, <1>5
  <2>2. \A i \in 1..Len(r.names) : s[i].dos = r.names[i].dos
    BY <1>5
  <2> HIDE DEF s
  <2> QED BY <1>6, <2>1, <2>2, Zenon DEF RealNames
<1> QED BY <1>6, <1>7, <1>8 DEF Single

LEMMA FaultType ==
  ASSUME TypeOK, Fault \/ Refusal
  PROVE  faults' \in 0..MaxTroubles /\ refusals' \in 0..MaxTroubles
BY BoundAssumption DEF TypeOK, Fault, Refusal

LEMMA BeginType ==
  ASSUME TypeOK, Begin
  PROVE  after' \in 0..MaxAfter
BY BoundAssumption DEF TypeOK, Begin

\* Removing an entry, of which there are only some.
LEMMA DropType ==
  ASSUME TypeOK, NEW d \in Node, NEW e \in IndexEntry, Drop(d, e)
  PROVE  index' \in [Node -> SUBSET IndexEntry]
BY DEF TypeOK, Drop

LEMMA RefuseRemovalType ==
  ASSUME TypeOK, NEW d \in Node, NEW n, RefuseRemoval(d, n)
  PROVE  /\ index' \in [Node -> SUBSET IndexEntry]
         /\ faults' \in 0..MaxTroubles /\ refusals' \in 0..MaxTroubles
<1>1. PICK e \in index[d] : Drop(d, e)
  BY DEF RefuseRemoval
<1>2. e \in IndexEntry
  BY <1>1 DEF TypeOK
<1> QED BY <1>1, <1>2, DropType, FaultType DEF RefuseRemoval

LEMMA TypeInit == Init => TypeInv
<1> SUFFICES ASSUME Init PROVE TypeInv
  OBVIOUS
<1>1. rec \in [Node -> Record] /\ \A n \in Node : rec[n].names # << >>
  BY TreesAssumption DEF Init
<1>2. index \in [Node -> SUBSET IndexEntry]
  BY DEF Init
<1>3. call \in Call0 /\ img \subseteq IndexEntry
  BY DEF Init, NoCall, Call0
<1> QED BY <1>1, <1>2, <1>3, BoundAssumption
        DEF Init, TypeInv, TypeOK, CallInv, AtRest, InMove, InCreate, InDelete, Troubles

\* A path leads to a record.
LEMMA HandlesAreRecords ==
  ASSUME TypeOK
  PROVE  Handles \subseteq Node /\ \A n \in Node : ParentOf(n) \in Node /\ Targets(n) \subseteq Node
<1>1. \A S : ReachFrom(S) \subseteq Node
  BY DEF ReachFrom
<1>2. ASSUME NEW n \in Node PROVE ParentOf(n) \in Node
  <2>1. rec[n].names \in Seq(FileName) /\ rec[n].names # << >>
    BY DEF TypeOK, Record
  <2>2. rec[n].names[1] \in FileName
    BY <2>1
  <2> QED BY <2>2 DEF ParentOf, First, FileName
<1> QED BY <1>1, <1>2 DEF Handles, Targets

\* A call begins at records of the volume.
LEMMA CallCases ==
  ASSUME TypeOK, Call
  PROVE  \/ \E n \in Node, d \in Node, x \in Name : MoveWrite(n, d, x) \/ CreateWrite(n, d, x)
         \/ \E n \in Node : DeleteUnlink(n)
BY HandlesAreRecords, BoundAssumption DEF Call

LEMMA TypeMoveWrite ==
  ASSUME TypeInv, NEW n \in Node, NEW d \in Node, NEW x \in Name, MoveWrite(n, d, x)
  PROVE  TypeInv'
<1>1. after' \in 0..MaxAfter /\ AtRest
  BY BeginType DEF MoveWrite, TypeInv, Begin
<1>2. rec' \in [Node -> Record] /\ \A m \in Node : rec'[m].names # << >>
  <2>1. CASE rec' = [rec EXCEPT ![n] = Renamed(rec[n], d, x)]
    <3>1. rec[n] \in Record /\ rec[n].names # << >>
      BY DEF TypeInv, TypeOK
    <3>2. Renamed(rec[n], d, x) \in Record /\ Renamed(rec[n], d, x).names # << >>
      BY <3>1, RenamedRecord
    <3> QED BY <2>1, <3>2 DEF TypeInv, TypeOK
  <2>2. CASE UNCHANGED rec
    BY <2>2 DEF TypeInv, TypeOK
  <2> QED BY <2>1, <2>2 DEF MoveWrite
<1>3. CASE pc' = "unlink" /\ status' = "running" /\ UNCHANGED budget
           /\ Hit(IF GivesUp(n, d) THEN {"deep"} ELSE {})
           /\ call' = [node |-> n, from |-> ParentOf(n), to |-> d, name |-> x]
  <2>1. call' \in Call0 /\ ParentOf(n) \in Node
    BY <1>3, HandlesAreRecords DEF Call0, TypeInv
  <2>2. trouble' \subseteq Troubles
    BY <1>3 DEF Hit, TypeInv, TypeOK, Troubles
  <2> QED BY <1>1, <1>2, <1>3, <2>1, <2>2
      DEF MoveWrite, TypeInv, TypeOK, CallInv, AtRest, InMove, InCreate, InDelete, budget
<1>4. CASE Fault /\ status' = "failed" /\ UNCHANGED <<rec, pc, call, trouble>>
  <2>1. faults' \in 0..MaxTroubles /\ refusals' \in 0..MaxTroubles
    BY <1>4, FaultType DEF TypeInv
  <2> QED BY <1>1, <1>2, <1>4, <2>1
      DEF MoveWrite, TypeInv, TypeOK, CallInv, AtRest, InMove, InCreate, InDelete
<1> QED BY <1>3, <1>4 DEF MoveWrite

LEMMA TypeMoveUnlink == ASSUME TypeInv, MoveUnlink, UNCHANGED after PROVE TypeInv'
<1>1. PICK e \in EntriesOf(call.from, call.node) :
        Drop(call.from, e) /\ Hit(IF OtherLink(e) THEN {"link"} ELSE {})
  BY DEF MoveUnlink
<1>2. call.from \in Node /\ e \in IndexEntry
  BY <1>1 DEF MoveUnlink, TypeInv, TypeOK, CallInv, InMove, EntriesOf
<1>3. index' \in [Node -> SUBSET IndexEntry]
  BY <1>1, <1>2, DropType DEF TypeInv
<1>4. trouble' \subseteq Troubles
  BY <1>1 DEF Hit, TypeInv, TypeOK, Troubles
<1> QED BY <1>3, <1>4 DEF MoveUnlink, TypeInv, TypeOK, CallInv, AtRest, InMove, InCreate, InDelete, budget

LEMMA TypeMoveUnlinked == ASSUME TypeInv, MoveUnlinked, UNCHANGED after PROVE TypeInv'
<1>1. call.from \in Node
  BY DEF MoveUnlinked, TypeInv, CallInv, InMove
<1>2. /\ index' \in [Node -> SUBSET IndexEntry]
      /\ faults' \in 0..MaxTroubles /\ refusals' \in 0..MaxTroubles
  BY <1>1, FaultType, RefuseRemovalType DEF MoveUnlinked, TypeInv, TypeOK, budget
<1>3. trouble' \subseteq Troubles
  BY DEF MoveUnlinked, Hit, TypeInv, TypeOK, Troubles
<1> QED BY <1>2, <1>3 DEF MoveUnlinked, TypeInv, TypeOK, CallInv, AtRest, InMove, InCreate, InDelete

\* Inserting the call's entry.
LEMMA InsertType ==
  ASSUME TypeInv, InMove \/ InCreate, NEW S \in SUBSET IndexEntry,
         index' \in {index, [index EXCEPT ![call.to] = S \cup {Entry(call.name, call.node)}]}
  PROVE  /\ S \cup {Entry(call.name, call.node)} \subseteq IndexEntry
         /\ index' \in [Node -> SUBSET IndexEntry]
<1>1. Entry(call.name, call.node) \in IndexEntry
  BY DEF TypeInv, CallInv, AtRest, InMove, InCreate, Entry, IndexEntry
<1> QED BY <1>1 DEF TypeInv, TypeOK

LEMMA TypeMoveInsert == ASSUME TypeInv, MoveInsert, UNCHANGED after PROVE TypeInv'
<1>1. InMove /\ index[call.to] \in SUBSET IndexEntry
  BY DEF MoveInsert, TypeInv, TypeOK, CallInv, InMove
<1>2. img' \subseteq IndexEntry /\ index' \in [Node -> SUBSET IndexEntry]
  BY <1>1, InsertType DEF MoveInsert
<1> QED BY <1>2 DEF MoveInsert, TypeInv, TypeOK, CallInv, AtRest, InMove, InCreate, InDelete, budget

LEMMA ReturnType ==
  ASSUME NEW how \in {"idle", "done", "failed"}, Return(how)
  PROVE  call' \in Call0 /\ img' = {} /\ CallInv' /\ pc' = "idle"
         /\ status' \in {"idle", "running", "done", "failed"}
BY DEF Return, NoCall, Call0, CallInv, AtRest, InMove, InCreate, InDelete

LEMMA TypeMoveNotInserted == ASSUME TypeInv, MoveNotInserted, UNCHANGED after PROVE TypeInv'
<1>1. /\ faults' \in 0..MaxTroubles /\ refusals' \in 0..MaxTroubles
      /\ trouble' \subseteq Troubles
  BY FaultType DEF MoveNotInserted, Hit, TypeInv, TypeOK, Troubles, budget
<1> QED BY <1>1, ReturnType DEF MoveNotInserted, TypeInv, TypeOK, disk

LEMMA TypeMoveCommit == ASSUME TypeInv, MoveCommit, UNCHANGED after PROVE TypeInv'
<1>1. /\ faults' \in 0..MaxTroubles /\ refusals' \in 0..MaxTroubles
      /\ trouble' \subseteq Troubles
  BY FaultType DEF MoveCommit, Hit, TypeInv, TypeOK, Troubles, budget
<1>2. index' \in [Node -> SUBSET IndexEntry]
  BY DEF MoveCommit, TypeInv, TypeOK
<1> QED BY <1>1, <1>2, ReturnType DEF MoveCommit, TypeInv, TypeOK

LEMMA TypeCreateWrite ==
  ASSUME TypeInv, NEW n \in Node, NEW d \in Node, NEW x \in Name, CreateWrite(n, d, x)
  PROVE  TypeInv'
<1>1. after' \in 0..MaxAfter /\ AtRest
  BY BeginType DEF CreateWrite, TypeInv, Begin
<1>2. \A isDir \in BOOLEAN : NewRecord(d, x, isDir) \in Record /\ NewRecord(d, x, isDir).names # << >>
  BY DEF NewRecord, Record, FileName
<1>3. rec' \in [Node -> Record] /\ \A m \in Node : rec'[m].names # << >>
  <2>1. PICK isDir \in BOOLEAN : rec' = [rec EXCEPT ![n] = NewRecord(d, x, isDir)]
    BY DEF CreateWrite
  <2> QED BY <1>2, <2>1 DEF TypeInv, TypeOK
<1>4. index' \in [Node -> SUBSET IndexEntry] /\ img' \subseteq IndexEntry
  BY DEF CreateWrite, TypeInv, TypeOK
<1>5. call' \in Call0
  BY DEF CreateWrite, Call0
<1> QED BY <1>1, <1>3, <1>4, <1>5
    DEF CreateWrite, TypeInv, TypeOK, CallInv, AtRest, InMove, InCreate, InDelete, budget

LEMMA TypeCreateInsert == ASSUME TypeInv, CreateInsert, UNCHANGED after PROVE TypeInv'
<1>1. InCreate /\ img \in SUBSET IndexEntry
  BY DEF CreateInsert, TypeInv, TypeOK, InCreate
<1>2. img' \subseteq IndexEntry /\ index' \in [Node -> SUBSET IndexEntry]
  BY <1>1, InsertType DEF CreateInsert
<1> QED BY <1>2 DEF CreateInsert, TypeInv, TypeOK, CallInv, AtRest, InMove, InCreate, InDelete, budget

\* Rolling a record back, or clearing it.
LEMMA ClearType ==
  ASSUME TypeOK, NEW n \in Node, rec' = [rec EXCEPT ![n].used = FALSE]
  PROVE  rec' \in [Node -> Record] /\ \A m \in Node : rec'[m].names # << >>
<1>1. rec[n] \in Record /\ rec[n].names # << >>
  BY DEF TypeOK
<1>2. [rec[n] EXCEPT !.used = FALSE] \in Record /\ [rec[n] EXCEPT !.used = FALSE].names = rec[n].names
  BY <1>1 DEF Record
<1> QED BY <1>1, <1>2 DEF TypeOK

LEMMA TypeCreateRefused == ASSUME TypeInv, CreateRefused, UNCHANGED after PROVE TypeInv'
<1>1. call.node \in Node
  BY DEF CreateRefused, TypeInv, CallInv, AtRest
<1>2. faults' \in 0..MaxTroubles /\ refusals' \in 0..MaxTroubles
  BY FaultType DEF CreateRefused, TypeInv
<1>3. rec' \in [Node -> Record] /\ \A m \in Node : rec'[m].names # << >>
  BY <1>1, ClearType DEF CreateRefused, TypeInv
<1> QED BY <1>2, <1>3, ReturnType DEF CreateRefused, TypeInv, TypeOK

LEMMA TypeCreateCommit == ASSUME TypeInv, CreateCommit, UNCHANGED after PROVE TypeInv'
<1>1. call.node \in Node /\ call.to \in Node
  BY DEF CreateCommit, TypeInv, CallInv, AtRest, InCreate
<1>2. /\ faults' \in 0..MaxTroubles /\ refusals' \in 0..MaxTroubles
      /\ trouble' \subseteq Troubles
  BY FaultType DEF CreateCommit, Hit, TypeInv, TypeOK, Troubles, budget
<1>3. rec' \in [Node -> Record] /\ \A m \in Node : rec'[m].names # << >>
  BY <1>1, ClearType DEF CreateCommit, TypeInv, TypeOK
<1>4. index' \in [Node -> SUBSET IndexEntry]
  BY DEF CreateCommit, TypeInv, TypeOK
<1> QED BY <1>2, <1>3, <1>4, ReturnType DEF CreateCommit, TypeInv, TypeOK

LEMMA TypeDeleteUnlink ==
  ASSUME TypeInv, NEW n \in Node, DeleteUnlink(n)
  PROVE  TypeInv'
<1>1. after' \in 0..MaxAfter /\ AtRest /\ ParentOf(n) \in Node
  BY BeginType, HandlesAreRecords DEF DeleteUnlink, TypeInv, Begin
<1>2. CASE /\ \E e \in EntriesOf(ParentOf(n), n) : Drop(ParentOf(n), e)
           /\ pc' = "alias" /\ status' = "running"
           /\ call' = [NoCall EXCEPT !.node = n, !.from = ParentOf(n)]
           /\ UNCHANGED <<trouble, budget>>
  <2>1. index' \in [Node -> SUBSET IndexEntry]
    <3>1. PICK e \in EntriesOf(ParentOf(n), n) : Drop(ParentOf(n), e)
      BY <1>2
    <3>2. e \in IndexEntry
      BY <1>1 DEF EntriesOf, TypeInv, TypeOK
    <3> QED BY <1>1, <3>1, <3>2, DropType DEF TypeInv
  <2>2. call' = [node |-> n, from |-> ParentOf(n), to |-> None, name |-> None]
    BY <1>2 DEF NoCall
  <2>3. call' \in Call0
    BY <1>1, <2>2 DEF Call0
  <2> QED BY <1>1, <1>2, <2>1, <2>2, <2>3
      DEF DeleteUnlink, TypeInv, TypeOK, CallInv, AtRest, InMove, InCreate, InDelete, budget
<1>3. CASE /\ \/ Fault /\ UNCHANGED <<index, trouble>>
              \/ RefuseRemoval(ParentOf(n), n) /\ Hit({"lost"})
           /\ status' = "failed" /\ UNCHANGED <<pc, call>>
  <2>1. /\ index' \in [Node -> SUBSET IndexEntry]
        /\ faults' \in 0..MaxTroubles /\ refusals' \in 0..MaxTroubles
    BY <1>1, <1>3, FaultType, RefuseRemovalType DEF TypeInv, TypeOK
  <2>2. trouble' \subseteq Troubles
    BY <1>3 DEF Hit, TypeInv, TypeOK, Troubles
  <2> QED BY <1>1, <1>3, <2>1, <2>2
      DEF DeleteUnlink, TypeInv, TypeOK, CallInv, AtRest, InMove, InCreate, InDelete
<1> QED BY <1>2, <1>3 DEF DeleteUnlink

LEMMA TypeDeleteAlias == ASSUME TypeInv, DeleteAlias, UNCHANGED after PROVE TypeInv'
<1>1. call.from \in Node
  BY DEF DeleteAlias, TypeInv, CallInv, InDelete
<1>2. index' \in [Node -> SUBSET IndexEntry]
  <2>1. ASSUME NEW e \in EntriesOf(call.from, call.node), Drop(call.from, e)
        PROVE  index' \in [Node -> SUBSET IndexEntry]
    <3>1. e \in IndexEntry
      BY <1>1 DEF EntriesOf, TypeInv, TypeOK
    <3> QED BY <1>1, <2>1, <3>1, DropType DEF TypeInv
  <2> QED BY <1>1, <2>1, RefuseRemovalType DEF DeleteAlias, TypeInv, TypeOK
<1>3. /\ faults' \in 0..MaxTroubles /\ refusals' \in 0..MaxTroubles
      /\ trouble' \subseteq Troubles
  BY <1>1, FaultType, RefuseRemovalType DEF DeleteAlias, Hit, TypeInv, TypeOK, Troubles, budget
<1> QED BY <1>2, <1>3 DEF DeleteAlias, TypeInv, TypeOK, CallInv, AtRest, InMove, InCreate, InDelete

LEMMA TypeDeleteClear == ASSUME TypeInv, DeleteClear, UNCHANGED after PROVE TypeInv'
<1>1. call.node \in Node
  BY DEF DeleteClear, TypeInv, CallInv, AtRest
<1>2. rec' \in [Node -> Record] /\ \A m \in Node : rec'[m].names # << >>
  BY <1>1, ClearType DEF DeleteClear, TypeInv
<1> QED BY <1>2, ReturnType DEF DeleteClear, TypeInv, TypeOK, budget

LEMMA TypeCrash == ASSUME TypeInv, Crash, UNCHANGED after PROVE TypeInv'
<1>1. /\ faults' \in 0..MaxTroubles /\ refusals' \in 0..MaxTroubles
      /\ trouble' \subseteq Troubles
  BY FaultType DEF Crash, Hit, TypeInv, TypeOK, Troubles
<1> QED BY <1>1, ReturnType DEF Crash, TypeInv, TypeOK, disk

LEMMA TypeStep == TypeInv /\ [Next]_vars => TypeInv'
<1> SUFFICES ASSUME TypeInv, [Next]_vars PROVE TypeInv'
  OBVIOUS
<1>1. CASE Call
  BY <1>1, CallCases, TypeMoveWrite, TypeCreateWrite, TypeDeleteUnlink DEF TypeInv
<1>2. CASE Step /\ UNCHANGED after
  BY <1>2, TypeMoveUnlink, TypeMoveUnlinked, TypeMoveInsert, TypeMoveNotInserted, TypeMoveCommit,
     TypeCreateInsert, TypeCreateRefused, TypeCreateCommit, TypeDeleteAlias, TypeDeleteClear DEF Step
<1>3. CASE Crash /\ UNCHANGED after
  BY <1>3, TypeCrash
<1>4. CASE UNCHANGED vars
  BY <1>4 DEF vars, disk, budget, TypeInv, TypeOK, CallInv, AtRest, InMove, InCreate, InDelete
<1> QED BY <1>1, <1>2, <1>3, <1>4 DEF Next

\* Every variable keeps its type.
THEOREM TypeCorrect == Spec => []TypeOK
<1>1. TypeInv => TypeOK
  BY DEF TypeInv
<1> QED BY <1>1, TypeInit, TypeStep, PTL DEF Spec

(***************************************************************************)
(* What the indexes are about to be                                        *)
(***************************************************************************)

\* The indexes with the image of the one that is being written.
Writing == pc \in {"commit", "link", "publish"}
Ahead == [d \in Node |-> IF Writing /\ d = call.to THEN img ELSE index[d]]
AheadInv == \A d \in Node : index[d] \subseteq Ahead[d]

\* Only the two insertions add to it.
Inserts == MoveInsert \/ CreateInsert

LEMMA AheadAtRest == TypeInv => (~Writing => Ahead = index)
BY DEF Ahead, TypeInv, TypeOK

\* An index without an entry.
LEMMA DropShrinks ==
  ASSUME TypeOK, NEW d \in Node, NEW e, Drop(d, e)
  PROVE  \A c \in Node : index'[c] \subseteq index[c]
BY DEF TypeOK, Drop

LEMMA RefuseRemovalShrinks ==
  ASSUME TypeOK, NEW d \in Node, NEW n, RefuseRemoval(d, n)
  PROVE  \A c \in Node : index'[c] \subseteq index[c]
BY DropShrinks DEF RefuseRemoval

\* Every other step leaves the indexes, as they are about to be, with no more entries.
LEMMA Shrinks ==
  ASSUME TypeInv, AheadInv, [Next]_vars, ~Inserts
  PROVE  /\ \A d \in Node : Ahead'[d] \subseteq Ahead[d]
         /\ AheadInv'
<1> DEFINE Less == \A d \in Node : index'[d] \subseteq index[d]
<1>0. /\ \A d \in Node : Ahead[d] = IF Writing /\ d = call.to THEN img ELSE index[d]
      /\ \A d \in Node : Ahead'[d] = IF Writing' /\ d = call'.to THEN img' ELSE index'[d]
  BY DEF Ahead
<1>1. ASSUME Less, ~Writing' PROVE (\A d \in Node : Ahead'[d] \subseteq Ahead[d]) /\ AheadInv'
  BY <1>0, <1>1 DEF AheadInv
<1>2. CASE Call
  <2>1. ASSUME NEW n \in Node, NEW d \in Node, NEW x \in Name, MoveWrite(n, d, x) PROVE Less /\ ~Writing'
    BY <2>1 DEF MoveWrite, Begin, AtRest, Writing
  <2>2. ASSUME NEW n \in Node, DeleteUnlink(n) PROVE Less /\ ~Writing'
    <3>1. ParentOf(n) \in Node
      BY HandlesAreRecords DEF TypeInv
    <3>2. Less
      BY <2>2, <3>1, DropShrinks, RefuseRemovalShrinks DEF DeleteUnlink, TypeInv
    <3> QED BY <2>2, <3>2 DEF DeleteUnlink, Begin, AtRest, Writing
  <2>3. ASSUME NEW n \in Node, NEW d \in Node, NEW x \in Name, CreateWrite(n, d, x)
        PROVE  (\A c \in Node : Ahead'[c] \subseteq Ahead[c]) /\ AheadInv'
    <3>1. ~Writing /\ Writing' /\ call'.to = d /\ img' = index[d]
      BY <2>3 DEF CreateWrite, Begin, AtRest, Writing
    <3>2. Less
      BY <2>3 DEF CreateWrite, TypeInv, TypeOK
    <3> QED BY <1>0, <3>1, <3>2 DEF AheadInv
  <2> QED BY <1>1, <1>2, <2>1, <2>2, <2>3, CallCases DEF TypeInv
<1>3. CASE Step /\ UNCHANGED after
  <2>1. ASSUME MoveUnlink PROVE Less /\ ~Writing'
    <3>1. call.from \in Node
      BY <2>1 DEF MoveUnlink, TypeInv, CallInv, InMove
    <3> QED BY <2>1, <3>1, DropShrinks DEF MoveUnlink, TypeInv, Writing
  <2>2. ASSUME MoveUnlinked PROVE Less /\ ~Writing'
    <3>1. call.from \in Node
      BY <2>2 DEF MoveUnlinked, TypeInv, CallInv, InMove
    <3> QED BY <2>2, <3>1, RefuseRemovalShrinks DEF MoveUnlinked, TypeInv, Writing
  <2>3. ASSUME DeleteAlias PROVE Less /\ ~Writing'
    <3>1. call.from \in Node
      BY <2>3 DEF DeleteAlias, TypeInv, CallInv, InDelete
    <3> QED BY <2>3, <3>1, DropShrinks, RefuseRemovalShrinks DEF DeleteAlias, TypeInv, Writing
  <2>4. ASSUME MoveNotInserted \/ CreateRefused \/ DeleteClear PROVE Less /\ ~Writing'
    BY <2>4 DEF MoveNotInserted, CreateRefused, DeleteClear, Return, Writing, disk
  <2>5. ASSUME MoveCommit \/ CreateCommit
        PROVE  (\A d \in Node : Ahead'[d] \subseteq Ahead[d]) /\ AheadInv'
    <3>1. Writing /\ ~Writing'
      BY <2>5 DEF MoveCommit, CreateCommit, Return, Writing
    <3>2. index' = [index EXCEPT ![call.to] = img] \/ index' = index
      BY <2>5 DEF MoveCommit, CreateCommit
    <3>3. index' \in [Node -> SUBSET IndexEntry] /\ index \in [Node -> SUBSET IndexEntry]
      BY <2>5, <1>3, TypeMoveCommit, TypeCreateCommit DEF TypeInv, TypeOK
    <3>4. \A d \in Node : index'[d] \subseteq Ahead[d]
      BY <1>0, <3>1, <3>2, <3>3 DEF AheadInv
    <3> QED BY <1>0, <3>1, <3>4 DEF AheadInv
  <2> QED BY <1>1, <1>3, <2>1, <2>2, <2>3, <2>4, <2>5 DEF Step, Inserts
<1>4. CASE Crash
  <2>1. Less /\ ~Writing'
    BY <1>4 DEF Crash, Return, Writing, disk
  <2> QED BY <1>1, <2>1
<1>5. CASE UNCHANGED vars
  BY <1>0, <1>5 DEF vars, disk, Writing, AheadInv
<1> QED BY <1>2, <1>3, <1>4, <1>5 DEF Next

\* An insertion adds the entry of the call.
LEMMA Grows ==
  ASSUME TypeInv, AheadInv, Inserts
  PROVE  /\ \A d \in Node : Ahead'[d] = Ahead[d] \cup IF d = call.to THEN {Entry(call.name, call.node)} ELSE {}
         /\ AheadInv' /\ call' = call /\ call.to \in Node
<1>1. call' = call /\ call.to \in Node /\ Writing'
  BY DEF Inserts, MoveInsert, CreateInsert, TypeInv, CallInv, InMove, InCreate, Writing
<1>2. /\ \A d \in Node : Ahead[d] = IF Writing /\ d = call.to THEN img ELSE index[d]
      /\ \A d \in Node : Ahead'[d] = IF d = call.to THEN img' ELSE index'[d]
  BY <1>1 DEF Ahead
<1>3. img' = Ahead[call.to] \cup {Entry(call.name, call.node)}
  BY <1>1, <1>2 DEF Inserts, MoveInsert, CreateInsert, Writing
<1>4. /\ \A d \in Node : d # call.to => index'[d] = index[d]
      /\ index'[call.to] \in {index[call.to], img'}
  BY <1>1 DEF Inserts, MoveInsert, CreateInsert, TypeInv, TypeOK
<1> QED BY <1>1, <1>2, <1>3, <1>4 DEF AheadInv

(***************************************************************************)
(* Names                                                                   *)
(***************************************************************************)

\* No index is about to have a name twice: the name of the running call is
\* still free for its file when it gets to the insertion.
UniqueIn(S) == \A e, f \in S : e.name = f.name => e = f
NameInv ==
  /\ AheadInv
  /\ \A d \in Node : UniqueIn(Ahead[d])
  /\ pc \in {"unlink", "more", "insert"} =>
       \A e \in index[call.to] : e.name = call.name => e.child = call.node
  /\ pc = "link" => \A e \in img : e.name # call.name

LEMMA NameInit == Init => NameInv
<1> SUFFICES ASSUME Init PROVE NameInv
  OBVIOUS
<1>1. TypeInv /\ pc = "idle" /\ ~Writing
  BY TypeInit DEF Init, Writing
<1>2. Ahead = index
  BY <1>1, AheadAtRest
<1>3. ASSUME NEW d \in Node PROVE UniqueIn(index[d])
  <2>1. SUFFICES ASSUME NEW e \in index[d], NEW f \in index[d], e.name = f.name PROVE e = f
    BY DEF UniqueIn
  <2>2. /\ e \in IndexEntry /\ f \in IndexEntry
        /\ rec[e.child].used /\ e.child # Root /\ rec[f.child].used /\ f.child # Root
        /\ \E g \in NamesOf(e.child) : g.parent = d /\ g.name = e.name
        /\ \E g \in NamesOf(f.child) : g.parent = d /\ g.name = f.name
    BY DEF Init
  <2>3. PICK i \in DOMAIN rec[e.child].names :
          rec[e.child].names[i].parent = d /\ rec[e.child].names[i].name = e.name
    BY <2>2 DEF NamesOf
  <2>4. PICK j \in DOMAIN rec[f.child].names :
          rec[f.child].names[j].parent = d /\ rec[f.child].names[j].name = f.name
    BY <2>2 DEF NamesOf
  <2>5. e.child \in Node /\ f.child \in Node
    BY <2>2 DEF IndexEntry
  <2>6. e.child = f.child
    BY <2>1, <2>2, <2>3, <2>4, <2>5, TreesAssumption DEF Init
  <2> QED BY <2>1, <2>2, <2>6 DEF IndexEntry
<1> QED BY <1>1, <1>2, <1>3 DEF NameInv, AheadInv

LEMMA NameStep == TypeInv /\ NameInv /\ [Next]_vars => NameInv'
<1> SUFFICES ASSUME TypeInv, NameInv, [Next]_vars PROVE NameInv'
  OBVIOUS
<1>1. CASE ~Inserts
  <2>1. AheadInv' /\ \A d \in Node : UniqueIn(Ahead'[d])
    BY <1>1, Shrinks DEF NameInv, UniqueIn
  <2>2. ASSUME pc' \in {"unlink", "more", "insert"}
        PROVE  \A e \in index'[call'.to] : e.name = call'.name => e.child = call'.node
    <3>1. CASE Call
      <4>1. ASSUME NEW n \in Node, NEW d \in Node, NEW x \in Name, CreateWrite(n, d, x) PROVE FALSE
        BY <2>2, <4>1 DEF CreateWrite
      <4>2. ASSUME NEW n \in Node, DeleteUnlink(n) PROVE FALSE
        BY <2>2, <4>2 DEF DeleteUnlink, Begin, AtRest
      <4>3. PICK n \in Node, d \in Node, x \in Name : MoveWrite(n, d, x)
        BY <3>1, <4>1, <4>2, CallCases DEF TypeInv
      <4>4. /\ call' = [node |-> n, from |-> ParentOf(n), to |-> d, name |-> x]
            /\ MayMove(n, d, x) /\ index' = index
        BY <2>2, <4>3 DEF MoveWrite, Begin, AtRest
      <4> QED BY <4>4 DEF MayMove, Found
    <3>2. CASE MoveUnlink \/ MoveUnlinked
      <4>1. call' = call /\ call.from \in Node /\ call.to \in Node
        BY <3>2 DEF MoveUnlink, MoveUnlinked, TypeInv, CallInv, InMove
      <4>2. index'[call.to] \subseteq index[call.to]
        BY <3>2, <4>1, DropShrinks, RefuseRemovalShrinks DEF MoveUnlink, MoveUnlinked, TypeInv
      <4> QED BY <3>2, <4>1, <4>2 DEF MoveUnlink, MoveUnlinked, NameInv
    <3>3. CASE UNCHANGED vars
      BY <2>2, <3>3 DEF vars, disk, NameInv
    <3> QED BY <1>1, <2>2, <3>1, <3>2, <3>3
        DEF Next, Step, Inserts, MoveNotInserted, MoveCommit, CreateRefused, CreateCommit,
            DeleteAlias, DeleteClear, Crash, Return
  <2>3. ASSUME pc' = "link" PROVE \A e \in img' : e.name # call'.name
    <3>1. CASE Call
      <4>1. ASSUME NEW n \in Node, NEW d \in Node, NEW x \in Name, MoveWrite(n, d, x) PROVE FALSE
        BY <2>3, <4>1 DEF MoveWrite, Begin, AtRest
      <4>2. ASSUME NEW n \in Node, DeleteUnlink(n) PROVE FALSE
        BY <2>3, <4>2 DEF DeleteUnlink, Begin, AtRest
      <4>3. PICK n \in Node, d \in Node, x \in Name : CreateWrite(n, d, x)
        BY <3>1, <4>1, <4>2, CallCases DEF TypeInv
      <4> QED BY <4>3 DEF CreateWrite, Found
    <3>2. CASE UNCHANGED vars
      BY <2>3, <3>2 DEF vars, NameInv
    <3> QED BY <1>1, <2>3, <3>1, <3>2
        DEF Next, Step, Inserts, MoveUnlink, MoveUnlinked, MoveNotInserted, MoveCommit,
            CreateRefused, CreateCommit, DeleteAlias, DeleteClear, Crash, Return
  <2> QED BY <2>1, <2>2, <2>3 DEF NameInv
<1>2. CASE Inserts
  <2>1. pc' \in {"commit", "publish"} /\ pc \in {"insert", "link"}
    BY <1>2 DEF Inserts, MoveInsert, CreateInsert
  <2>2. \A e \in Ahead[call.to] : e.name = call.name => e = Entry(call.name, call.node)
    <3>1. call.to \in Node /\ call.node \in Node
      BY <2>1 DEF TypeInv, CallInv, InMove, InCreate, AtRest
    <3>2. CASE pc = "link"
      BY <3>1, <3>2 DEF NameInv, Ahead, Writing
    <3>3. CASE pc = "insert"
      <4>1. Ahead[call.to] = index[call.to] /\ index[call.to] \subseteq IndexEntry
        BY <3>1, <3>3 DEF Ahead, Writing, TypeInv, TypeOK
      <4> QED BY <3>3, <4>1 DEF NameInv, IndexEntry, Entry
    <3> QED BY <2>1, <3>2, <3>3
  <2>3. ASSUME NEW d \in Node PROVE UniqueIn(Ahead'[d])
    <3>1. Entry(call.name, call.node).name = call.name
      BY DEF Entry
    <3> QED BY <1>2, <2>2, <3>1, Grows DEF NameInv, UniqueIn
  <2> QED BY <1>2, <2>1, <2>3, Grows DEF NameInv
<1> QED BY <1>1, <1>2

\* No two files of a directory have the same name, whatever has failed.
THEOREM NamesStayUnique == Spec => []NamesUnique
<1>1. TypeInv /\ NameInv => NamesUnique
  BY DEF NamesUnique, NameInv, AheadInv, UniqueIn
<1>2. Init => TypeInv /\ NameInv
  BY TypeInit, NameInit
<1>3. TypeInv /\ NameInv /\ [Next]_vars => TypeInv' /\ NameInv'
  BY TypeStep, NameStep
<1> QED BY <1>1, <1>2, <1>3, PTL DEF Spec

(***************************************************************************)
(* Records in use                                                          *)
(***************************************************************************)

\* While each move has taken the old entry out and no create has been rolled
\* back under its entry, entries are of records in use; those of a file with one
\* link are in one directory, so that to remove them there is to remove them
\* all; and the running call knows where its file's entries are.
Sound == trouble \cap {"unlink", "commit"} = {}
AllUsed == \A d \in Node : \A e \in Ahead[d] : rec[e.child].used
OneDirectory ==
  \A c, d \in Node : \A e \in Ahead[c], f \in Ahead[d] :
    e.child = f.child /\ Single(rec[e.child]) => c = d
OwnOnlyFrom == \A c \in Node : \A e \in Ahead[c] : e.child = call.node => c = call.from
OwnNone == \A c \in Node : \A e \in Ahead[c] : e.child # call.node
MoveKnows ==
  /\ pc \in {"more", "insert"} => rec[call.node].used
  /\ pc = "more" /\ Single(rec[call.node]) => OwnOnlyFrom
  /\ pc = "insert" /\ Single(rec[call.node]) => OwnNone
CreateKnows ==
  /\ pc = "link" => rec[call.node].used /\ OwnNone
  /\ pc = "publish" =>
       \A c \in Node : \A e \in Ahead[c] :
         e.child = call.node => c = call.to /\ e = Entry(call.name, call.node)
DeleteKnows ==
  /\ pc = "alias" => OwnOnlyFrom
  /\ pc = "clear" => OwnNone
Knows == MoveKnows /\ CreateKnows /\ DeleteKnows
UsedInv == Sound => AllUsed /\ OneDirectory /\ Knows

\* Fewer entries, of files that are what they were.
LEMMA FewerUsed ==
  ASSUME AllUsed, OneDirectory,
         \A d \in Node : Ahead'[d] \subseteq Ahead[d],
         \A d \in Node : \A e \in Ahead'[d] :
           rec'[e.child].used = rec[e.child].used /\ Single(rec'[e.child]) = Single(rec[e.child])
  PROVE  AllUsed' /\ OneDirectory'
<1>1. AllUsed'
  BY Zenon DEF AllUsed
<1>2. OneDirectory'
  BY DEF OneDirectory
<1> QED BY <1>1, <1>2

\* What has gone wrong is not forgotten.
LEMMA TroubleStays == ASSUME [Next]_vars PROVE Sound' => Sound
<1>1. trouble \subseteq trouble'
  BY DEF Next, Call, Step, Crash, MoveWrite, MoveUnlink, MoveUnlinked, MoveInsert, MoveNotInserted,
         MoveCommit, CreateWrite, CreateInsert, CreateRefused, CreateCommit, DeleteUnlink,
         DeleteAlias, DeleteClear, Hit, vars
<1> QED BY <1>1 DEF Sound

LEMMA UsedInit == Init => UsedInv
<1> SUFFICES ASSUME Init PROVE UsedInv
  OBVIOUS
<1>1. TypeInv /\ pc = "idle" /\ Ahead = index
  BY TypeInit, AheadAtRest DEF Init, Writing
<1>2. AllUsed
  BY <1>1 DEF Init, AllUsed
<1>3. OneDirectory
  <2>1. SUFFICES ASSUME NEW c \in Node, NEW d \in Node, NEW e \in index[c], NEW f \in index[d],
                        e.child = f.child, Single(rec[e.child])
                 PROVE  c = d
    BY <1>1 DEF OneDirectory
  <2>2. PICK i \in DOMAIN rec[e.child].names : rec[e.child].names[i].parent = c
    BY DEF Init, NamesOf
  <2>3. PICK j \in DOMAIN rec[e.child].names : rec[e.child].names[j].parent = d
    BY <2>1 DEF Init, NamesOf
  <2>4. e.child \in Node
    BY <1>1 DEF TypeInv, TypeOK, IndexEntry
  <2>5. Together(rec[e.child])
    BY <2>4, TreesAssumption DEF Init
  <2> QED BY <2>1, <2>2, <2>3, <2>5 DEF Together
<1> QED BY <1>1, <1>2, <1>3 DEF UsedInv, Knows, MoveKnows, CreateKnows, DeleteKnows

\* The steps that leave a file's use and links alone, and add no entry.
LEMMA UsedStays ==
  ASSUME TypeInv, AheadInv, Sound, UsedInv, [Next]_vars, ~Inserts,
         \A m \in Node : rec'[m].used = rec[m].used /\ Single(rec'[m]) = Single(rec[m])
  PROVE  AllUsed' /\ OneDirectory'
<1>1. \A d \in Node : \A e \in Ahead'[d] : e.child \in Node
  <2>1. TypeInv'
    BY TypeStep
  <2> QED BY <2>1 DEF Ahead, TypeInv, TypeOK, IndexEntry
<1>2. \A d \in Node : Ahead'[d] \subseteq Ahead[d]
  BY Shrinks
<1> QED BY <1>1, <1>2, FewerUsed DEF UsedInv

\* And those that take a record out of use, or into it, while no entry has it.
LEMMA UsedUnnamed ==
  ASSUME TypeInv, AheadInv, Sound, UsedInv, [Next]_vars, ~Inserts, NEW n \in Node,
         \A m \in Node : m # n => rec'[m] = rec[m],
         \A d \in Node : \A e \in Ahead'[d] : e.child # n
  PROVE  AllUsed' /\ OneDirectory'
<1>1. \A d \in Node : \A e \in Ahead'[d] : e.child \in Node
  <2>1. TypeInv'
    BY TypeStep
  <2> QED BY <2>1 DEF Ahead, TypeInv, TypeOK, IndexEntry
<1>2. \A d \in Node : Ahead'[d] \subseteq Ahead[d]
  BY Shrinks
<1> QED BY <1>1, <1>2, FewerUsed DEF UsedInv

\* The entries of a file when no step has added any.
LEMMA OwnStays ==
  ASSUME \A d \in Node : Ahead'[d] \subseteq Ahead[d], call' = call
  PROVE  (OwnOnlyFrom => OwnOnlyFrom') /\ (OwnNone => OwnNone')
BY DEF OwnOnlyFrom, OwnNone

LEMMA UsedMoveWrite ==
  ASSUME TypeInv, AheadInv, Sound, UsedInv, [Next]_vars, ~Inserts,
         NEW n \in Node, NEW d \in Node, NEW x \in Name, MoveWrite(n, d, x)
  PROVE  AllUsed' /\ OneDirectory' /\ Knows'
<1>1. \A m \in Node : rec'[m].used = rec[m].used /\ Single(rec'[m]) = Single(rec[m])
  <2>1. CASE rec' = [rec EXCEPT ![n] = Renamed(rec[n], d, x)]
    <3>1. rec[n] \in Record /\ rec[n].names # << >>
      BY DEF TypeInv, TypeOK
    <3> QED BY <2>1, <3>1, RenamedRecord DEF TypeInv, TypeOK
  <2>2. CASE UNCHANGED rec
    BY <2>2
  <2> QED BY <2>1, <2>2 DEF MoveWrite
<1>2. pc' \in {"unlink", "idle"}
  BY DEF MoveWrite, Begin, AtRest
<1> QED BY <1>1, <1>2, UsedStays DEF Knows, MoveKnows, CreateKnows, DeleteKnows

LEMMA UsedMoveUnlink ==
  ASSUME TypeInv, AheadInv, Sound, UsedInv, [Next]_vars, ~Inserts, MoveUnlink
  PROVE  AllUsed' /\ OneDirectory' /\ Knows'
<1>1. AllUsed' /\ OneDirectory'
  BY UsedStays DEF MoveUnlink
<1>2. pc' = "more" /\ rec' = rec /\ call' = call /\ call.from \in Node
  BY DEF MoveUnlink, TypeInv, CallInv, InMove
<1>3. PICK e \in EntriesOf(call.from, call.node) : TRUE
  BY DEF MoveUnlink
<1>4. Ahead = index
  BY AheadAtRest DEF MoveUnlink, Writing
<1>5. e \in Ahead[call.from] /\ e.child = call.node
  BY <1>3, <1>4 DEF EntriesOf
<1>6. rec[call.node].used
  BY <1>2, <1>5 DEF UsedInv, AllUsed
<1>7. Single(rec[call.node]) => OwnOnlyFrom
  BY <1>2, <1>5 DEF UsedInv, OneDirectory, OwnOnlyFrom
<1>8. Single(rec'[call'.node]) => OwnOnlyFrom'
  BY <1>2, <1>7, Shrinks, OwnStays
<1> QED BY <1>1, <1>2, <1>6, <1>8 DEF Knows, MoveKnows, CreateKnows, DeleteKnows

LEMMA UsedMoveUnlinked ==
  ASSUME TypeInv, AheadInv, Sound, Sound', UsedInv, [Next]_vars, ~Inserts, MoveUnlinked
  PROVE  AllUsed' /\ OneDirectory' /\ Knows'
<1>1. AllUsed' /\ OneDirectory'
  BY UsedStays DEF MoveUnlinked
<1>2. pc' = "insert" /\ rec' = rec /\ call' = call /\ call.from \in Node
  BY DEF MoveUnlinked, TypeInv, CallInv, InMove
<1>3. pc = "more" /\ EntriesOf(call.from, call.node) = {}
  BY DEF MoveUnlinked, Hit, Sound
<1>4. Ahead = index
  BY <1>3, AheadAtRest DEF Writing
<1>5. rec[call.node].used /\ (Single(rec[call.node]) => OwnNone)
  BY <1>3, <1>4 DEF UsedInv, Knows, MoveKnows, OwnOnlyFrom, OwnNone, EntriesOf
<1>6. Single(rec'[call'.node]) => OwnNone'
  BY <1>2, <1>5, Shrinks, OwnStays
<1> QED BY <1>1, <1>2, <1>5, <1>6 DEF Knows, MoveKnows, CreateKnows, DeleteKnows

LEMMA UsedCreateWrite ==
  ASSUME TypeInv, AheadInv, Sound, UsedInv, [Next]_vars, ~Inserts,
         NEW n \in Node, NEW d \in Node, NEW x \in Name, CreateWrite(n, d, x)
  PROVE  AllUsed' /\ OneDirectory' /\ Knows'
<1>1. /\ ~rec[n].used /\ pc' = "link" /\ call'.node = n
      /\ \A m \in Node : m # n => rec'[m] = rec[m]
      /\ rec'[n].used
  <2>1. PICK isDir \in BOOLEAN : rec' = [rec EXCEPT ![n] = NewRecord(d, x, isDir)]
    BY DEF CreateWrite
  <2> QED BY <2>1 DEF CreateWrite, NewRecord, TypeInv, TypeOK
<1>2. \A c \in Node : \A e \in Ahead'[c] : e.child # n
  BY <1>1, Shrinks DEF UsedInv, AllUsed
<1>3. AllUsed' /\ OneDirectory'
  BY <1>1, <1>2, UsedUnnamed
<1>4. OwnNone'
  BY <1>1, <1>2 DEF OwnNone
<1> QED BY <1>1, <1>3, <1>4 DEF Knows, MoveKnows, CreateKnows, DeleteKnows

\* Nothing is known between calls.
LEMMA NothingKnown == ASSUME pc = "idle" PROVE Knows
BY DEF Knows, MoveKnows, CreateKnows, DeleteKnows

\* A record cleared while no entry has it.
LEMMA UsedCleared ==
  ASSUME TypeInv, AheadInv, Sound, UsedInv, [Next]_vars, ~Inserts,
         NEW n \in Node, rec' = [rec EXCEPT ![n].used = FALSE], pc' = "idle",
         \A d \in Node : \A e \in Ahead'[d] : e.child # n
  PROVE  AllUsed' /\ OneDirectory' /\ Knows'
<1>1. \A m \in Node : m # n => rec'[m] = rec[m]
  BY DEF TypeInv, TypeOK
<1>2. AllUsed' /\ OneDirectory'
  BY <1>1, UsedUnnamed
<1>3. Knows'
  BY DEF Knows, MoveKnows, CreateKnows, DeleteKnows
<1> QED BY <1>2, <1>3

LEMMA UsedCreateRefused ==
  ASSUME TypeInv, AheadInv, Sound, UsedInv, [Next]_vars, ~Inserts, CreateRefused
  PROVE  AllUsed' /\ OneDirectory' /\ Knows'
<1>1. call.node \in Node /\ pc' = "idle"
  BY DEF CreateRefused, Return, TypeInv, CallInv, AtRest
<1>2. \A d \in Node : \A e \in Ahead'[d] : e.child # call.node
  BY Shrinks DEF CreateRefused, UsedInv, Knows, CreateKnows, OwnNone
<1> QED BY <1>1, <1>2, UsedCleared DEF CreateRefused

LEMMA UsedCreateCommit ==
  ASSUME TypeInv, AheadInv, Sound, Sound', UsedInv, [Next]_vars, ~Inserts, CreateCommit
  PROVE  AllUsed' /\ OneDirectory' /\ Knows'
<1>1. call.node \in Node /\ call.to \in Node /\ pc = "publish" /\ pc' = "idle"
  BY DEF CreateCommit, Return, TypeInv, CallInv, AtRest, InCreate
<1>2. CASE UNCHANGED rec
  BY <1>1, <1>2, UsedStays, NothingKnown DEF Knows, MoveKnows, CreateKnows, DeleteKnows
<1>3. CASE /\ UNCHANGED index
           /\ rec' = [rec EXCEPT ![call.node].used = FALSE]
           /\ Hit(IF Entry(call.name, call.node) \in index[call.to] THEN {"commit"} ELSE {})
  <2>1. Entry(call.name, call.node) \notin index[call.to]
    BY <1>3 DEF Hit, Sound
  <2>2. \A d \in Node : Ahead'[d] = index[d]
    BY <1>1, <1>3 DEF Ahead, Writing
  <2>3. \A d \in Node : \A e \in Ahead'[d] : e.child # call.node
    BY <1>1, <2>1, <2>2 DEF UsedInv, Knows, CreateKnows, AheadInv
  <2> QED BY <1>1, <1>3, <2>3, UsedCleared
<1> QED BY <1>2, <1>3 DEF CreateCommit

LEMMA UsedDeleteUnlink ==
  ASSUME TypeInv, AheadInv, Sound, UsedInv, [Next]_vars, ~Inserts,
         NEW n \in Node, DeleteUnlink(n)
  PROVE  AllUsed' /\ OneDirectory' /\ Knows'
<1>1. AllUsed' /\ OneDirectory'
  BY UsedStays DEF DeleteUnlink
<1>2. Ahead = index /\ pc = "idle" /\ Single(rec[n]) /\ ParentOf(n) \in Node
  BY AheadAtRest, HandlesAreRecords DEF DeleteUnlink, Begin, AtRest, Writing, MayDelete, TypeInv
<1>3. CASE /\ \E e \in EntriesOf(ParentOf(n), n) : Drop(ParentOf(n), e)
           /\ pc' = "alias"
           /\ call' = [NoCall EXCEPT !.node = n, !.from = ParentOf(n)]
  <2>1. call'.node = n /\ call'.from = ParentOf(n)
    BY <1>3 DEF NoCall
  <2>2. PICK e \in Ahead[ParentOf(n)] : e.child = n
    BY <1>2, <1>3 DEF EntriesOf
  <2>3. \A c \in Node : \A f \in Ahead[c] : f.child = n => c = ParentOf(n)
    BY <1>2, <2>2 DEF UsedInv, OneDirectory
  <2>4. OwnOnlyFrom'
    BY <2>1, <2>3, Shrinks DEF OwnOnlyFrom
  <2> QED BY <1>1, <1>3, <2>4 DEF Knows, MoveKnows, CreateKnows, DeleteKnows
<1>4. CASE UNCHANGED pc
  BY <1>1, <1>2, <1>4 DEF Knows, MoveKnows, CreateKnows, DeleteKnows
<1> QED BY <1>3, <1>4 DEF DeleteUnlink

LEMMA UsedDeleteAlias ==
  ASSUME TypeInv, AheadInv, Sound, Sound', UsedInv, [Next]_vars, ~Inserts, DeleteAlias
  PROVE  AllUsed' /\ OneDirectory' /\ Knows'
<1>1. AllUsed' /\ OneDirectory'
  BY UsedStays DEF DeleteAlias
<1>2. Ahead = index /\ pc = "alias" /\ call' = call /\ OwnOnlyFrom
  BY AheadAtRest DEF DeleteAlias, Writing, UsedInv, Knows, DeleteKnows
<1>3. CASE UNCHANGED pc
  <2>1. OwnOnlyFrom'
    BY <1>2, Shrinks, OwnStays
  <2> QED BY <1>1, <1>2, <1>3, <2>1 DEF Knows, MoveKnows, CreateKnows, DeleteKnows
<1>4. CASE EntriesOf(call.from, call.node) = {} /\ pc' = "clear"
  <2>1. OwnNone
    BY <1>2, <1>4 DEF OwnOnlyFrom, OwnNone, EntriesOf
  <2>2. OwnNone'
    BY <1>2, <2>1, Shrinks, OwnStays
  <2> QED BY <1>1, <1>4, <2>2 DEF Knows, MoveKnows, CreateKnows, DeleteKnows
<1>5. ~(Hit({"unlink"}) \/ Hit({"unlink", "lost"}))
  BY DEF Hit, Sound
<1> QED BY <1>3, <1>4, <1>5 DEF DeleteAlias

LEMMA UsedDeleteClear ==
  ASSUME TypeInv, AheadInv, Sound, UsedInv, [Next]_vars, ~Inserts, DeleteClear
  PROVE  AllUsed' /\ OneDirectory' /\ Knows'
<1>1. call.node \in Node /\ pc' = "idle"
  BY DEF DeleteClear, Return, TypeInv, CallInv, AtRest
<1>2. \A d \in Node : \A e \in Ahead'[d] : e.child # call.node
  BY Shrinks DEF DeleteClear, UsedInv, Knows, DeleteKnows, OwnNone
<1> QED BY <1>1, <1>2, UsedCleared DEF DeleteClear

\* The file that move or create inserts is in use and, with one link, in no
\* directory.
LEMMA UsedInserts ==
  ASSUME TypeInv, AheadInv, Sound, UsedInv, Inserts
  PROVE  AllUsed' /\ OneDirectory' /\ Knows'
<1> DEFINE new == Entry(call.name, call.node)
<1>1. /\ \A d \in Node : Ahead'[d] = Ahead[d] \cup IF d = call.to THEN {new} ELSE {}
      /\ call' = call /\ call.to \in Node /\ rec' = rec
  BY Grows DEF Inserts, MoveInsert, CreateInsert
<1>2. new.child = call.node
  BY DEF Entry
<1>3. rec[call.node].used /\ (Single(rec[call.node]) => OwnNone)
  BY DEF UsedInv, Knows, MoveKnows, CreateKnows, Inserts, MoveInsert, CreateInsert
<1>4. AllUsed'
  <2> HIDE DEF new
  <2> QED BY <1>1, <1>2, <1>3 DEF UsedInv, AllUsed
<1>5. OneDirectory'
  <2> HIDE DEF new
  <2>1. SUFFICES ASSUME NEW c \in Node, NEW d \in Node, NEW e \in Ahead'[c], NEW f \in Ahead'[d],
                        e.child = f.child, Single(rec[e.child])
                 PROVE  c = d
    BY <1>1 DEF OneDirectory
  <2>2. CASE e \in Ahead[c] /\ f \in Ahead[d]
    BY <2>1, <2>2 DEF UsedInv, OneDirectory
  <2>3. CASE e \notin Ahead[c] \/ f \notin Ahead[d]
    <3>1. e.child = call.node /\ OwnNone
      BY <1>1, <1>2, <1>3, <2>1, <2>3
    <3>2. e \notin Ahead[c] /\ f \notin Ahead[d]
      BY <2>1, <3>1 DEF OwnNone
    <3> QED BY <1>1, <3>2
  <2> QED BY <2>2, <2>3
<1>6. Knows'
  <2>1. CASE MoveInsert
    BY <2>1 DEF MoveInsert, Knows, MoveKnows, CreateKnows, DeleteKnows
  <2>2. CASE CreateInsert
    <3>1. OwnNone /\ pc' = "publish"
      BY <2>2 DEF CreateInsert, UsedInv, Knows, CreateKnows
    <3>2. \A c \in Node : \A e \in Ahead'[c] : e.child = call.node => c = call.to /\ e = new
      BY <1>1, <3>1 DEF OwnNone
    <3> QED BY <1>1, <3>1, <3>2 DEF Knows, MoveKnows, CreateKnows, DeleteKnows
  <2> QED BY <2>1, <2>2 DEF Inserts
<1> QED BY <1>4, <1>5, <1>6

LEMMA UsedStep == TypeInv /\ NameInv /\ UsedInv /\ [Next]_vars => UsedInv'
<1> SUFFICES ASSUME TypeInv, AheadInv, UsedInv, [Next]_vars, Sound', Sound
             PROVE  AllUsed' /\ OneDirectory' /\ Knows'
  BY TroubleStays DEF UsedInv, NameInv
<1>1. CASE Inserts
  BY <1>1, UsedInserts
<1>2. CASE ~Inserts /\ Call
  BY <1>2, CallCases, UsedMoveWrite, UsedCreateWrite, UsedDeleteUnlink DEF TypeInv
<1>3. CASE ~Inserts /\ Step
  <2>1. ASSUME MoveNotInserted \/ MoveCommit PROVE AllUsed' /\ OneDirectory' /\ Knows'
    <3>1. rec' = rec /\ pc' = "idle"
      BY <2>1 DEF MoveNotInserted, MoveCommit, Return, disk
    <3> QED BY <1>3, <3>1, UsedStays DEF Knows, MoveKnows, CreateKnows, DeleteKnows
  <2> QED BY <1>3, <2>1, UsedMoveUnlink, UsedMoveUnlinked, UsedCreateRefused, UsedCreateCommit,
          UsedDeleteAlias, UsedDeleteClear DEF Step, Inserts
<1>4. CASE ~Inserts /\ Crash
  <2>1. rec' = rec /\ pc' = "idle"
    BY <1>4 DEF Crash, Return, disk
  <2> QED BY <1>4, <2>1, UsedStays DEF Knows, MoveKnows, CreateKnows, DeleteKnows
<1>5. CASE ~Inserts /\ UNCHANGED vars
  <2>1. rec' = rec /\ pc' = pc /\ call' = call /\ \A d \in Node : Ahead'[d] = Ahead[d]
    BY <1>5 DEF vars, disk, Ahead, Writing
  <2>2. AllUsed' /\ OneDirectory'
    BY <1>5, <2>1, UsedStays
  <2>3. Knows'
    BY <2>1 DEF UsedInv, Knows, MoveKnows, CreateKnows, DeleteKnows, OwnOnlyFrom, OwnNone
  <2> QED BY <2>2, <2>3
<1> QED BY <1>1, <1>2, <1>3, <1>4, <1>5 DEF Next

\* An entry never names a record that is not in use, unless the removal of an
\* old entry or the commit of a create has failed.
THEOREM EntriesNeverDangle == Spec => []EntryNeverDangles
<1>1. NameInv /\ UsedInv => EntryNeverDangles
  BY DEF EntryNeverDangles, Sound, UsedInv, AllUsed, NameInv, AheadInv
<1>2. Init => TypeInv /\ NameInv /\ UsedInv
  BY TypeInit, NameInit, UsedInit
<1>3. TypeInv /\ NameInv /\ UsedInv /\ [Next]_vars => TypeInv' /\ NameInv' /\ UsedInv'
  BY TypeStep, NameStep, UsedStep
<1> QED BY <1>1, <1>2, <1>3, PTL DEF Spec

(***************************************************************************)
(* While nothing goes wrong the records and the indexes agree between      *)
(* calls, however the calls are arranged, and what a user sees of the      *)
(* directories is Namespace, a tree at any moment.                         *)
(***************************************************************************)

(***************************************************************************)
(* The inductive invariant                                                 *)
(***************************************************************************)

\* Agreement, file by file: its entries are its names, and its names have entries.
Named(n) ==
  \A d \in Node : \A e \in index[d] : e.child = n =>
    \E f \in NamesOf(n) : f.parent = d /\ f.name = e.name
Entered(n) ==
  rec[n].used /\ n # Root =>
    /\ HasEntry(n, First(n))
    /\ ~First(n).dos => \A f \in NamesOf(n) : ~f.dos => HasEntry(n, f)
AgreeFor(n) == Named(n) /\ Entered(n)

IsDir(d) == rec[d].used /\ rec[d].dir
NoEntry(n) == \A d \in Node : \A e \in index[d] : e.child # n

\* Only directories in use have entries, so a directory that has one is not
\* deleted, and a parent always has one.
RootInv == IsDir(Root) /\ ParentOf(Root) = Root
DirInv == \A d \in Node : index[d] # {} => IsDir(d)

\* The image is what it was read from: nothing else has written that index.
ImgIs ==
  /\ pc = "link" => img = index[call.to]
  /\ pc \in {"commit", "publish"} => img = index[call.to] \cup {Entry(call.name, call.node)}

\* What the file of a move, of a create and of a delete is on the way.
MoveTree ==
  InMove => LET n == call.node IN
    /\ rec[n].used /\ n # Root /\ IsDir(call.to)
    /\ ParentOf(n) = call.to /\ First(n).name = call.name
    /\ \A d \in Node : \A e \in index[d] : e.child = n =>
         \/ pc \in {"unlink", "more"} /\ d = call.from
         \/ \E f \in NamesOf(n) : f.parent = d /\ f.name = e.name
    /\ ~First(n).dos => \A i \in DOMAIN rec[n].names :
         i > 1 /\ ~rec[n].names[i].dos => HasEntry(n, rec[n].names[i])
CreateTree ==
  InCreate => LET n == call.node IN
    /\ rec[n].used /\ n # Root /\ IsDir(call.to) /\ call.to # n
    /\ rec[n].names = <<[parent |-> call.to, name |-> call.name, dos |-> FALSE]>>
    /\ index[n] = {}
    /\ Named(n)
    /\ pc = "link" => NoEntry(n)
DeleteTree ==
  InDelete => LET n == call.node IN
    /\ rec[n].used /\ n # Root /\ ParentOf(n) = call.from /\ IsDir(call.from) /\ call.from # n
    /\ index[n] = {}
    /\ Named(n)
    /\ pc = "clear" => NoEntry(n)
RestTree == AtRest => call = NoCall

\* Every other file agrees at any moment.
AllAgree ==
  /\ \A n \in Node : n # call.node => AgreeFor(n)
  /\ RootInv /\ DirInv /\ ImgIs /\ MoveTree /\ CreateTree /\ DeleteTree /\ RestTree
\* Nothing has gone wrong, whether or not a directory has gone where the walk gives up.
Calm == trouble \subseteq {"deep"}
AgreeInv == Calm => AllAgree

\* No directory is above itself: Over(d) is d and all above it, the least set
\* that is closed under parents.
Closed(S) == \A m \in S : rec[m].used /\ m # Root => ParentOf(m) \in S
Over(d) == {a \in Node : \A S \in SUBSET Node : d \in S /\ Closed(S) => a \in S}
Acyclic == \A n \in Node : rec[n].used /\ n # Root => n \notin Over(ParentOf(n))
TreeInv == trouble = {} => Acyclic

(***************************************************************************)
(* Names                                                                   *)
(***************************************************************************)

\* A record has a first name, and its parent is a record.
LEMMA NameFacts ==
  ASSUME TypeOK, NEW n \in Node
  PROVE  /\ rec[n] \in Record /\ rec[n].names \in Seq(FileName) /\ Len(rec[n].names) \in Nat \ {0}
         /\ DOMAIN rec[n].names = 1..Len(rec[n].names) /\ 1 \in DOMAIN rec[n].names
         /\ First(n) \in FileName /\ First(n) \in NamesOf(n)
         /\ ParentOf(n) \in Node /\ ParentOf(n) = First(n).parent
         /\ NamesOf(n) \subseteq FileName
<1>1. rec[n] \in Record /\ rec[n].names \in Seq(FileName) /\ rec[n].names # << >>
  BY DEF TypeOK, Record
<1>2. Len(rec[n].names) \in Nat \ {0} /\ DOMAIN rec[n].names = 1..Len(rec[n].names)
  BY <1>1
<1>3. \A i \in DOMAIN rec[n].names : rec[n].names[i] \in FileName
  BY <1>1, <1>2
<1> QED BY <1>1, <1>2, <1>3 DEF First, ParentOf, NamesOf, FileName

\* The names that a move leaves.
LEMMA RenamedNames ==
  ASSUME NEW r \in Record, r.names # << >>, NEW d \in Node, NEW x \in Name
  PROVE  LET s == Renamed(r, d, x)
         IN  /\ DOMAIN s.names = DOMAIN r.names
             /\ s.names[1] = [parent |-> d, name |-> x, dos |-> r.names[1].dos]
             /\ \A i \in DOMAIN r.names : i > 1 => s.names[i] = r.names[i]
             /\ s.used = r.used /\ s.dir = r.dir
<1>1. r.names \in Seq(FileName) /\ 1 \in DOMAIN r.names /\ DOMAIN r.names = 1..Len(r.names)
  BY DEF Record
<1> DEFINE f == [parent |-> d, name |-> x, dos |-> r.names[1].dos]
           t == [r.names EXCEPT ![1] = f]
<1>2. /\ DOMAIN t = DOMAIN r.names /\ t[1] = f
      /\ \A i \in DOMAIN r.names : i > 1 => t[i] = r.names[i]
  <2> HIDE DEF f
  <2>1. t = [i \in DOMAIN r.names |-> IF i = 1 THEN f ELSE r.names[i]]
    OBVIOUS
  <2> QED BY <1>1, <2>1
<1>3. Renamed(r, d, x) = [r EXCEPT !.names = t]
  BY DEF Renamed
<1>4. Renamed(r, d, x).names = t /\ Renamed(r, d, x).used = r.used /\ Renamed(r, d, x).dir = r.dir
  <2> HIDE DEF t
  <2> QED BY <1>3 DEF Record
<1> QED BY <1>2, <1>4

\* Between calls the invariant is agreement.
LEMMA AgreesAtRest ==
  ASSUME AgreeInv, AtRest, Calm
  PROVE  call = NoCall /\ \A n \in Node : AgreeFor(n)
<1>1. call = NoCall
  BY DEF AgreeInv, AllAgree, RestTree
<1>2. call.node = None
  BY <1>1 DEF NoCall
<1> QED BY <1>1, <1>2, BoundAssumption DEF AgreeInv, AllAgree

LEMMA AgreeIsAgree ==
  ASSUME TypeOK, \A n \in Node : AgreeFor(n)
  PROVE  Agree
<1>1. ASSUME NEW n \in Node, NEW d \in Node, NEW e \in EntriesOf(d, n)
      PROVE  \E f \in NamesOf(n) : f.parent = d /\ f.name = e.name
  BY DEF AgreeFor, Named, EntriesOf
<1> QED BY <1>1 DEF Agree, AgreeFor, Entered

LEMMA NamesAgreeInv == TypeInv /\ AgreeInv => NamesAgree
BY AgreesAtRest, AgreeIsAgree DEF NamesAgree, TypeInv, Calm

\* Init gives each file in use an entry for each of its names.
LEMMA AgreeInit == Init => AgreeInv
<1> SUFFICES ASSUME Init PROVE AgreeInv
  OBVIOUS
<1>1. TypeOK /\ pc = "idle" /\ call = NoCall
  BY TypeInit DEF Init, TypeInv
<1>2. IsTree(rec)
  BY TreesAssumption DEF Init
<1>3. ASSUME NEW n \in Node PROVE AgreeFor(n)
  <2>1. Named(n)
    BY DEF Init, Named
  <2>2. ASSUME rec[n].used, n # Root, NEW f \in NamesOf(n) PROVE HasEntry(n, f)
    <3>1. f \in FileName
      BY <1>1, NameFacts
    <3>2. Entry(f.name, n) \in IndexEntry
      BY <3>1 DEF Entry, IndexEntry, FileName
    <3>3. Entry(f.name, n).child = n /\ Entry(f.name, n).name = f.name
      BY DEF Entry
    <3>4. f.parent \in Node
      BY <3>1 DEF FileName
    <3> QED BY <2>2, <3>2, <3>3, <3>4 DEF Init, HasEntry
  <2>3. Entered(n)
    BY <1>1, <2>2, NameFacts DEF Entered
  <2> QED BY <2>1, <2>3 DEF AgreeFor
<1>4. RootInv
  BY <1>2 DEF RootInv, IsDir, IsTree, ParentOf, First
<1>5. DirInv
  <2>1. SUFFICES ASSUME NEW d \in Node, NEW e \in index[d] PROVE IsDir(d)
    BY DEF DirInv
  <2>2. e.child \in Node /\ rec[e.child].used /\ \E f \in NamesOf(e.child) : f.parent = d
    BY DEF Init, IndexEntry
  <2>3. PICK i \in DOMAIN rec[e.child].names : rec[e.child].names[i].parent = d
    BY <2>2 DEF NamesOf
  <2> QED BY <1>2, <2>2, <2>3 DEF IsTree, IsDir
<1> QED BY <1>1, <1>3, <1>4, <1>5
    DEF AgreeInv, AllAgree, ImgIs, MoveTree, CreateTree, DeleteTree, RestTree, InMove, InCreate, InDelete

\* A file agrees as long as its record and its entries stay what they are.
LEMMA AgreeForStays ==
  ASSUME NEW n \in Node, AgreeFor(n), rec'[n] = rec[n],
         \A d \in Node : \A e \in IndexEntry : e.child = n => (e \in index'[d] <=> e \in index[d]),
         TypeOK, TypeOK'
  PROVE  AgreeFor(n)'
<1>1. NamesOf(n)' = NamesOf(n) /\ First(n)' = First(n)
  BY DEF NamesOf, First
<1>2. Named(n)'
  <2>1. \A d \in Node : \A e \in index'[d] : e \in IndexEntry
    BY DEF TypeOK
  <2> QED BY <1>1, <2>1 DEF Named, AgreeFor
<1>3. ASSUME NEW f \in NamesOf(n), HasEntry(n, f) PROVE HasEntry(n, f)'
  <2>1. f \in FileName
    BY NameFacts
  <2>2. Entry(f.name, n) \in IndexEntry /\ Entry(f.name, n).child = n /\ f.parent \in Node
    BY <2>1 DEF Entry, IndexEntry, FileName
  <2> QED BY <1>3, <2>2 DEF HasEntry
<1>4. First(n) \in NamesOf(n)
  BY NameFacts
<1>5. Entered(n)'
  BY <1>1, <1>3, <1>4 DEF Entered, AgreeFor
<1> QED BY <1>2, <1>5 DEF AgreeFor

(***************************************************************************)
(* Paths                                                                   *)
(***************************************************************************)

\* Every set of numbers has a least one.
LEMMA LeastNumber ==
  ASSUME NEW T \in SUBSET Nat, T # {}
  PROVE  \E x \in T : \A y \in T : x <= y
<1> DEFINE R == OpToRel(<, Nat)
<1>1. IsWellFoundedOn(R, Nat)
  BY NatLessThanWellFounded
<1>2. \E x \in T : \A y \in T : ~ (<<y, x>> \in R)
  <2> HIDE DEF R
  <2> QED BY <1>1, WFMin
<1>3. \A x, y \in Nat : y < x => <<y, x>> \in R
  BY DEF OpToRel
<1> HIDE DEF R
<1>4. PICK x \in T : \A y \in T : ~ (<<y, x>> \in R)
  BY <1>2
<1>5. \A y \in T : x <= y
  <2>1. SUFFICES ASSUME NEW y \in T, ~ x <= y PROVE FALSE
    OBVIOUS
  <2>2. x \in Nat /\ y \in Nat
    OBVIOUS
  <2>3. y < x
    BY <2>1, <2>2
  <2> QED BY <1>3, <1>4, <2>2, <2>3
<1> QED BY <1>4, <1>5

\* What each step keeps, all of the steps keep.
LEMMA KeptByAll ==
  ASSUME NEW N \in Nat, NEW w, NEW D, w[0] \in D,
         \A k \in 1..N : w[k - 1] \in D => w[k] \in D
  PROVE  \A k \in 0..N : w[k] \in D
<1> DEFINE Bad == {k \in Nat : k <= N /\ w[k] \notin D}
<1>1. SUFFICES ASSUME Bad # {} PROVE FALSE
  OBVIOUS
<1>2. PICK k \in Bad : \A m \in Bad : k <= m
  BY <1>1, LeastNumber
<1>3. k \in 1..N /\ k - 1 \in Nat /\ k - 1 <= N /\ ~ k <= k - 1
  BY <1>2
<1>4. w[k - 1] \in D
  BY <1>2, <1>3
<1> QED BY <1>2, <1>3, <1>4

\* A function of a set into itself can be iterated.
LEMMA Iterates ==
  ASSUME NEW N \in Nat, NEW D, NEW f \in [D -> D], NEW a \in D
  PROVE  \E w \in [0..N -> D] : w[0] = a /\ \A k \in 1..N : w[k] = f[w[k - 1]]
<1> DEFINE Upto(n, w) == w[0] = a /\ \A k \in 1..n : w[k] = f[w[k - 1]]
           Bad == {n \in Nat : ~ \E w \in [0..n -> D] : Upto(n, w)}
<1>1. SUFFICES ASSUME Bad # {} PROVE FALSE
  OBVIOUS
<1>2. PICK n \in Bad : \A m \in Bad : n <= m
  BY <1>1, LeastNumber
<1>3. n # 0
  <2> DEFINE w == [i \in 0..0 |-> a]
  <2>1. w \in [0..0 -> D] /\ Upto(0, w)
    OBVIOUS
  <2> QED BY <1>2, <2>1
<1>4. n \in Nat /\ n - 1 \in Nat /\ ~ n <= n - 1
  BY <1>2, <1>3
<1>5. PICK v \in [0..(n - 1) -> D] : Upto(n - 1, v)
  <2> HIDE DEF Upto
  <2> QED BY <1>2, <1>4
<1> DEFINE w == [i \in 0..n |-> IF i < n THEN v[i] ELSE f[v[n - 1]]]
<1>6. v[n - 1] \in D /\ \A i \in 0..n : i < n => w[i] = v[i] /\ v[i] \in D
  BY <1>4
<1>7. w[n] = f[v[n - 1]] /\ w[n] \in D
  BY <1>4, <1>6
<1>8. w \in [0..n -> D]
  BY <1>4, <1>6
<1>9. Upto(n, w)
  <2> HIDE DEF w
  <2>1. w[0] = a
    BY <1>3, <1>4, <1>5, <1>6
  <2>2. ASSUME NEW k \in 1..n PROVE w[k] = f[w[k - 1]]
    <3>1. k - 1 \in 0..n /\ k - 1 < n
      BY <1>4
    <3>2. CASE k = n
      BY <1>6, <1>7, <3>1, <3>2
    <3>3. CASE k # n
      <4>1. k \in 1..(n - 1) /\ k \in 0..n /\ k < n
        BY <1>4, <3>3
      <4> QED BY <1>5, <1>6, <3>1, <4>1
    <3> QED BY <3>2, <3>3
  <2> QED BY <2>1, <2>2
<1> HIDE DEF Upto, w
<1> QED BY <1>2, <1>8, <1>9

LEMMA NodeCount == Cardinality(Node) \in Nat
BY BoundAssumption, FS_CardinalityType

\* No path leaves a set of records that has the parents and the entries of its
\* members.
LEMMA ReachStays ==
  ASSUME NEW U \in SUBSET Node, NEW S \in SUBSET U,
         \A n \in U : ParentOf(n) \in U /\ \A e \in index[n] : e.child \in U
  PROVE  ReachFrom(S) \subseteq U
<1> DEFINE N == Cardinality(Node)
           F(g) == [k \in 0..N |-> IF k = 0 THEN S ELSE Follow(g[k - 1])]
           f == [T \in SUBSET U |-> Follow(T)]
           r == CHOOSE g : g = F(g)
<1>1. N \in Nat
  BY NodeCount
<1>2. \A T \in SUBSET U : Follow(T) \in SUBSET U
  BY DEF Follow
<1>3. f \in [SUBSET U -> SUBSET U] /\ \A T \in SUBSET U : f[T] = Follow(T)
  BY <1>2
<1>4. \E g : g = F(g)
  <2> DEFINE D == SUBSET U
  <2>0. f \in [D -> D] /\ S \in D
    BY <1>3
  <2> HIDE DEF N, f
  <2>1. PICK w \in [0..N -> D] : w[0] = S /\ \A k \in 1..N : w[k] = f[w[k - 1]]
    <3> HIDE DEF D
    <3>1. \A X : \A g \in [X -> X] : \A y \in X :
            \E w \in [0..N -> X] : w[0] = y /\ \A k \in 1..N : w[k] = g[w[k - 1]]
      BY <1>1, Iterates, Zenon
    <3>2. \A g \in [D -> D] : \A y \in D :
            \E w \in [0..N -> D] : w[0] = y /\ \A k \in 1..N : w[k] = g[w[k - 1]]
      BY <3>1, SMTT(20)
    <3> QED BY <2>0, <3>2, Zenon
  <2>2. \A k \in 0..N : w[k] = IF k = 0 THEN S ELSE Follow(w[k - 1])
    <3>1. SUFFICES ASSUME NEW k \in 0..N, k # 0 PROVE w[k] = Follow(w[k - 1])
      BY <2>1
    <3>2. k \in 1..N /\ k - 1 \in 0..N
      BY <1>1, <3>1
    <3>3. w[k - 1] \in SUBSET U
      BY <3>2
    <3> QED BY <1>3, <2>1, <3>2, <3>3
  <2>3. w = F(w)
    BY <2>2
  <2> QED BY <2>3
<1>5. r = F(r)
  <2> HIDE DEF F
  <2> QED BY <1>4
<1>6. ReachFrom(S) = Node \cap r[N]
  BY DEF ReachFrom
<1> HIDE DEF r
<1>7. r[0] = S /\ \A k \in 1..N : r[k] = Follow(r[k - 1])
  <2> HIDE DEF N
  <2>1. \A k \in 0..N : r[k] = IF k = 0 THEN S ELSE Follow(r[k - 1])
    BY <1>5, Zenon
  <2> QED BY <1>1, <2>1
<1>8. \A k \in 0..N : r[k] \in SUBSET U
  <2> HIDE DEF N
  <2>1. \A k \in 1..N : r[k - 1] \in SUBSET U => r[k] \in SUBSET U
    BY <1>2, <1>7
  <2> QED BY <1>1, <1>7, <2>1, KeptByAll
<1> QED BY <1>1, <1>6, <1>8

\* Between calls the parents of files in use are directories in use,
LEMMA ParentsAreDirs ==
  ASSUME TypeOK, AtRest, AllAgree
  PROVE  \A n \in Node : rec[n].used => IsDir(ParentOf(n))
<1>1. SUFFICES ASSUME NEW n \in Node, rec[n].used PROVE IsDir(ParentOf(n))
  OBVIOUS
<1>2. CASE n = Root
  BY <1>2 DEF AllAgree, RootInv
<1>3. CASE n # Root
  <2>1. call.node = None
    BY DEF AllAgree, RestTree, NoCall
  <2>2. HasEntry(n, First(n))
    BY <1>1, <1>3, <2>1, BoundAssumption DEF AllAgree, AgreeFor, Entered
  <2> QED BY <2>2, NameFacts DEF HasEntry, AllAgree, DirInv
<1> QED BY <1>2, <1>3

\* so the files that a caller can reach are in use.
LEMMA HandlesUsed ==
  ASSUME TypeInv, UsedInv, AtRest, Calm, AllAgree
  PROVE  \A h \in Handles : h \in Node /\ rec[h].used
<1> DEFINE U == {n \in Node : rec[n].used}
<1>1. Root \in U
  BY BoundAssumption DEF AllAgree, RootInv, IsDir
<1>2. ASSUME NEW n \in U PROVE ParentOf(n) \in U /\ \A e \in index[n] : e.child \in U
  <2>1. ParentOf(n) \in U
    BY ParentsAreDirs, NameFacts DEF TypeInv, IsDir
  <2>2. Ahead = index
    BY AheadAtRest DEF AtRest, Writing
  <2>3. \A e \in index[n] : e.child \in Node /\ rec[e.child].used
    BY <2>2 DEF UsedInv, Sound, Calm, AllUsed, TypeInv, TypeOK, IndexEntry
  <2> QED BY <2>1, <2>3
<1>3. {Root} \in SUBSET U /\ U \in SUBSET Node
  BY <1>1
<1> HIDE DEF U
<1>4. ReachFrom({Root}) \subseteq U
  BY <1>2, <1>3, ReachStays
<1> QED BY <1>4 DEF Handles, U

(***************************************************************************)
(* Agreement, one action after the other                                   *)
(***************************************************************************)

\* A step that changes no entry and no record between two calls.
LEMMA AgreeSame ==
  ASSUME AllAgree, UNCHANGED <<rec, index, pc, call, img>>
  PROVE  AllAgree'
<1>1. rec' = rec /\ index' = index /\ pc' = pc /\ call' = call /\ img' = img
  OBVIOUS
<1>2. \A n \in Node : AgreeFor(n) => AgreeFor(n)'
  BY <1>1 DEF AgreeFor, Named, Entered, NamesOf, HasEntry, First
<1>3. RootInv' /\ DirInv' /\ ImgIs' /\ RestTree'
  BY <1>1 DEF AllAgree, RootInv, DirInv, IsDir, ParentOf, First, ImgIs, RestTree, AtRest
<1>4. MoveTree'
  BY <1>1 DEF AllAgree, MoveTree, InMove, IsDir, ParentOf, First, NamesOf, HasEntry
<1>5. CreateTree' /\ DeleteTree'
  BY <1>1 DEF AllAgree, CreateTree, DeleteTree, InCreate, InDelete, IsDir, ParentOf, First, Named,
              NamesOf, NoEntry
<1> QED BY <1>1, <1>2, <1>3, <1>4, <1>5 DEF AllAgree

\* The other files: their records are as they were and so are their entries.
LEMMA OthersAgree ==
  ASSUME TypeOK, TypeOK', NEW n, \A m \in Node : m # n => AgreeFor(m) /\ rec'[m] = rec[m],
         \A d \in Node : \A e \in IndexEntry : e.child # n => (e \in index'[d] <=> e \in index[d])
  PROVE  \A m \in Node : m # n => AgreeFor(m)'
BY AgreeForStays

\* The record is renamed: its old entry is the only one that is not its name.
LEMMA AgreeMoveWrite ==
  ASSUME TypeInv, TypeInv', AllAgree, AtRest, NEW n \in Node, rec[n].used, NEW d \in Node,
         NEW x \in Name, MoveWrite(n, d, x)
  PROVE  AllAgree'
<1>1. CASE UNCHANGED <<rec, pc, call>>
  BY <1>1, AgreeSame DEF MoveWrite
<1>2. CASE /\ rec' = [rec EXCEPT ![n] = Renamed(rec[n], d, x)] /\ pc' = "unlink"
           /\ call' = [node |-> n, from |-> ParentOf(n), to |-> d, name |-> x]
  <2> DEFINE r == rec[n]
             s == rec'[n]
  <2>1. /\ index' = index /\ n # Root /\ call.node = None
        /\ d # ParentOf(n) => IsDir(d)
    BY DEF MoveWrite, MayMove, IsDir, AllAgree, RestTree, NoCall
  <2>2. /\ call'.node = n /\ call'.from = ParentOf(n) /\ call'.to = d /\ call'.name = x
        /\ \A m \in Node : m # n => rec'[m] = rec[m]
        /\ rec'[n] = Renamed(rec[n], d, x)
    BY <1>2 DEF TypeInv, TypeOK
  <2>3. /\ DOMAIN s.names = DOMAIN r.names
        /\ s.names[1] = [parent |-> d, name |-> x, dos |-> r.names[1].dos]
        /\ \A i \in DOMAIN r.names : i > 1 => s.names[i] = r.names[i]
        /\ s.used = r.used /\ s.dir = r.dir
    <3>1. r \in Record /\ r.names # << >> /\ s = Renamed(r, d, x)
      BY <2>2 DEF TypeInv, TypeOK
    <3> HIDE DEF r, s
    <3> QED BY <3>1, RenamedNames
  <2>4. \A m \in Node : AgreeFor(m)
    BY <2>1, BoundAssumption DEF AllAgree
  <2>5. \A m \in Node : rec'[m].used = rec[m].used /\ rec'[m].dir = rec[m].dir
    BY <2>2, <2>3
  <2>6. IsDir(d)
    BY <2>1, ParentsAreDirs DEF TypeInv
  <2>7. \A m \in Node : m # call'.node => AgreeFor(m)'
    BY <2>1, <2>2, <2>4, OthersAgree DEF TypeInv
  <2>8. RootInv' /\ DirInv'
    BY <2>1, <2>2, <2>5, BoundAssumption DEF AllAgree, RootInv, DirInv, IsDir, ParentOf, First
  <2>9. /\ r.names \in Seq(FileName) /\ DOMAIN r.names = 1..Len(r.names) /\ 1 \in DOMAIN r.names
        /\ Len(r.names) \in Nat
    BY NameFacts DEF TypeInv
  <2>10. MoveTree'
    <3>1. rec'[n].used /\ n # Root /\ IsDir(d)'
      BY <2>1, <2>5, <2>6 DEF IsDir
    <3>2. First(n)' = [parent |-> d, name |-> x, dos |-> First(n).dos] /\ ParentOf(n)' = d
      BY <2>3 DEF First, ParentOf
    <3>3. ASSUME NEW c \in Node, NEW e \in index'[c], e.child = n, c # call'.from
          PROVE  \E f \in NamesOf(n)' : f.parent = c /\ f.name = e.name
      <4>1. PICK i \in DOMAIN r.names : r.names[i].parent = c /\ r.names[i].name = e.name
        BY <2>1, <2>4, <3>3 DEF AgreeFor, Named, NamesOf
      <4>2. i # 1
        BY <2>2, <3>3, <4>1 DEF ParentOf, First
      <4>3. s.names[i] = r.names[i] /\ i \in DOMAIN s.names
        BY <2>3, <2>9, <4>2
      <4> QED BY <4>1, <4>3 DEF NamesOf
    <3>4. ASSUME ~First(n)'.dos, NEW i \in DOMAIN s.names, i > 1, ~s.names[i].dos
          PROVE  HasEntry(n, rec[n].names[i])'
      <4>1. s.names[i] = r.names[i] /\ i \in DOMAIN r.names
        BY <2>3, <3>4
      <4>2. HasEntry(n, r.names[i])
        BY <2>1, <2>4, <3>2, <3>4, <4>1 DEF AgreeFor, Entered, NamesOf
      <4> QED BY <2>1, <4>1, <4>2 DEF HasEntry
    <3> QED BY <1>2, <2>2, <3>1, <3>2, <3>3, <3>4 DEF MoveTree
  <2>11. ImgIs' /\ CreateTree' /\ DeleteTree' /\ RestTree'
    BY <1>2 DEF ImgIs, CreateTree, DeleteTree, RestTree, InCreate, InDelete, AtRest
  <2> QED BY <2>7, <2>8, <2>10, <2>11 DEF AllAgree
<1> QED BY <1>1, <1>2 DEF MoveWrite

\* An entry leaves the old directory, and not one of another link.
LEMMA AgreeMoveUnlink ==
  ASSUME TypeInv, TypeInv', AllAgree, Calm', MoveUnlink
  PROVE  AllAgree'
<1> DEFINE n == call.node
<1>1. /\ pc \in {"unlink", "more"} /\ pc' = "more" /\ rec' = rec /\ call' = call /\ img' = img
      /\ n \in Node /\ call.from \in Node /\ MoveTree
  BY DEF MoveUnlink, TypeInv, CallInv, AtRest, InMove, AllAgree
<1>2. PICK e \in EntriesOf(call.from, n) : Drop(call.from, e) /\ ~OtherLink(e)
  BY DEF MoveUnlink, Hit, Calm
<1>3. e.child = n /\ \A c \in Node : \A g : g \in index'[c] <=> g \in index[c] /\ ~(c = call.from /\ g = e)
  BY <1>1, <1>2 DEF Drop, EntriesOf, TypeInv, TypeOK
<1>4. \A m \in Node : m # call'.node => AgreeFor(m)'
  BY <1>1, <1>3, OthersAgree DEF AllAgree, TypeInv
<1>5. RootInv' /\ DirInv'
  <2>1. \A c \in Node : index'[c] # {} => index[c] # {}
    BY <1>3
  <2> QED BY <1>1, <2>1 DEF AllAgree, RootInv, DirInv, IsDir, ParentOf, First
<1>6. MoveTree'
  <2>1. ASSUME ~First(n).dos, NEW i \in DOMAIN rec[n].names, i > 1, ~rec[n].names[i].dos
        PROVE  HasEntry(n, rec[n].names[i])'
    <3>1. HasEntry(n, rec[n].names[i])
      BY <1>1, <2>1 DEF MoveTree, InMove
    <3>2. rec[n].names[i].parent \in Node
      BY <1>1, NameFacts DEF TypeInv, FileName, NamesOf
    <3>3. Entry(rec[n].names[i].name, n).name = rec[n].names[i].name
      BY DEF Entry
    <3>4. ~(rec[n].names[i].parent = call.from /\ Entry(rec[n].names[i].name, n) = e)
      BY <1>2, <2>1, <3>3 DEF OtherLink, First
    <3> QED BY <1>1, <1>3, <3>1, <3>2, <3>4 DEF HasEntry
  <2>2. ASSUME NEW c \in Node, NEW g \in index'[c], g.child = n, c # call.from
        PROVE  \E f \in NamesOf(n) : f.parent = c /\ f.name = g.name
    BY <1>1, <1>3, <2>2 DEF MoveTree, InMove
  <2> QED BY <1>1, <2>1, <2>2 DEF MoveTree, InMove, IsDir, ParentOf, First, NamesOf
<1>7. ImgIs' /\ CreateTree' /\ DeleteTree' /\ RestTree'
  BY <1>1 DEF ImgIs, CreateTree, DeleteTree, RestTree, InCreate, InDelete, AtRest
<1> QED BY <1>4, <1>5, <1>6, <1>7 DEF AllAgree

\* No entry is left there.
LEMMA AgreeMoveUnlinked ==
  ASSUME TypeInv, AllAgree, Calm', MoveUnlinked
  PROVE  AllAgree'
<1>1. /\ pc = "more" /\ pc' = "insert" /\ rec' = rec /\ index' = index /\ call' = call /\ img' = img
      /\ EntriesOf(call.from, call.node) = {} /\ MoveTree
  BY DEF MoveUnlinked, Hit, Calm, AllAgree
<1>2. \A n \in Node : AgreeFor(n) => AgreeFor(n)'
  BY <1>1 DEF AgreeFor, Named, Entered, NamesOf, HasEntry, First
<1>3. RootInv' /\ DirInv'
  BY <1>1 DEF AllAgree, RootInv, DirInv, IsDir, ParentOf, First
<1>4. MoveTree'
  <2>1. \A e \in index[call.from] : e.child # call.node
    BY <1>1 DEF EntriesOf
  <2> QED BY <1>1, <2>1 DEF MoveTree, InMove, IsDir, ParentOf, First, NamesOf, HasEntry
<1>5. ImgIs' /\ CreateTree' /\ DeleteTree' /\ RestTree'
  BY <1>1 DEF ImgIs, CreateTree, DeleteTree, RestTree, InCreate, InDelete, AtRest
<1> QED BY <1>1, <1>2, <1>3, <1>4, <1>5 DEF AllAgree

\* An insertion adds the call's entry to a directory's index, or leaves it.
LEMMA EntryAdded ==
  ASSUME TypeInv, TypeInv', AllAgree, InMove \/ InCreate, rec' = rec,
         \/ index' = index
         \/ index' = [index EXCEPT ![call.to] = index[call.to] \cup {Entry(call.name, call.node)}]
  PROVE  /\ \A m \in Node : m # call.node => AgreeFor(m)'
         /\ RootInv' /\ DirInv'
         /\ \A d \in Node : index[d] \subseteq index'[d]
         /\ \A d \in Node : \A e \in index'[d] :
              e \in index[d] \/ (d = call.to /\ e = Entry(call.name, call.node))
<1>1. call.to \in Node /\ call.node \in Node /\ IsDir(call.to)
  BY DEF TypeInv, CallInv, AtRest, InMove, InCreate, AllAgree, MoveTree, CreateTree
<1>2. Entry(call.name, call.node).child = call.node
  BY DEF Entry
<1> DEFINE new == Entry(call.name, call.node)
<1> HIDE DEF new
<1>3. /\ \A d \in Node : index[d] \subseteq index'[d]
      /\ \A d \in Node : \A e \in index'[d] : e \in index[d] \/ (d = call.to /\ e = new)
  <2>1. index' = index \/ index' = [index EXCEPT ![call.to] = index[call.to] \cup {new}]
    BY DEF new
  <2> QED BY <1>1, <2>1 DEF TypeInv, TypeOK
<1>4. \A m \in Node : m # call.node => AgreeFor(m)'
  <2>1. \A d \in Node : \A e \in IndexEntry : e.child # call.node => (e \in index'[d] <=> e \in index[d])
    BY <1>2, <1>3 DEF new
  <2> QED BY <2>1, OthersAgree DEF AllAgree, TypeInv
<1>5. RootInv' /\ DirInv'
  <2>1. \A d \in Node : index'[d] # {} => index[d] # {} \/ d = call.to
    BY <1>3
  <2> QED BY <1>1, <2>1 DEF AllAgree, RootInv, DirInv, IsDir, ParentOf, First
<1> QED BY <1>3, <1>4, <1>5 DEF new

\* The new name has its entry, or will have with the image.
LEMMA AgreeMoveInsert ==
  ASSUME TypeInv, TypeInv', AllAgree, MoveInsert
  PROVE  AllAgree'
<1> DEFINE n == call.node
           new == Entry(call.name, n)
<1>1. /\ pc = "insert" /\ pc' = "commit" /\ rec' = rec /\ call' = call
      /\ img' = index[call.to] \cup {new}
      /\ index' = index \/ index' = [index EXCEPT ![call.to] = img']
      /\ n \in Node /\ call.to \in Node /\ MoveTree
  BY DEF MoveInsert, TypeInv, CallInv, AtRest, InMove, AllAgree
<1>2. /\ \A m \in Node : m # n => AgreeFor(m)'
      /\ RootInv' /\ DirInv'
      /\ \A d \in Node : index[d] \subseteq index'[d]
      /\ \A d \in Node : \A e \in index'[d] : e \in index[d] \/ (d = call.to /\ e = new)
  BY <1>1, EntryAdded DEF InMove
<1>3. MoveTree'
  <2>1. First(n) \in NamesOf(n) /\ First(n).parent = call.to /\ First(n).name = call.name
    BY <1>1, NameFacts DEF TypeInv, MoveTree, InMove
  <2>2. ASSUME NEW c \in Node, NEW e \in index'[c], e.child = n
        PROVE  \E f \in NamesOf(n) : f.parent = c /\ f.name = e.name
    <3>1. CASE e \in index[c]
      BY <1>1, <2>2, <3>1 DEF MoveTree, InMove
    <3>2. CASE c = call.to /\ e = new
      BY <2>1, <3>2 DEF Entry
    <3> QED BY <1>2, <3>1, <3>2
  <2>3. ASSUME ~First(n).dos, NEW i \in DOMAIN rec[n].names, i > 1, ~rec[n].names[i].dos
        PROVE  HasEntry(n, rec[n].names[i])'
    <3>1. HasEntry(n, rec[n].names[i])
      BY <1>1, <2>3 DEF MoveTree, InMove
    <3>2. rec[n].names[i].parent \in Node
      BY <1>1, NameFacts DEF TypeInv, FileName, NamesOf
    <3> QED BY <1>1, <1>2, <3>1, <3>2 DEF HasEntry
  <2> HIDE DEF new
  <2> QED BY <1>1, <2>2, <2>3 DEF MoveTree, InMove, IsDir, ParentOf, First, NamesOf
<1>4. ImgIs'
  BY <1>1 DEF ImgIs, TypeInv, TypeOK
<1>5. CreateTree' /\ DeleteTree' /\ RestTree'
  BY <1>1 DEF CreateTree, DeleteTree, RestTree, InCreate, InDelete, AtRest
<1> QED BY <1>1, <1>2, <1>3, <1>4, <1>5 DEF AllAgree

\* A call that has returned.
LEMMA Returned ==
  ASSUME NEW how, Return(how)
  PROVE  ImgIs' /\ MoveTree' /\ CreateTree' /\ DeleteTree' /\ RestTree'
BY DEF Return, ImgIs, MoveTree, CreateTree, DeleteTree, RestTree, InMove, InCreate, InDelete, AtRest

\* A move ends, with the entry that it has inserted or found.
LEMMA AgreeMoveEnds ==
  ASSUME TypeInv, TypeInv', AllAgree, Calm', MoveNotInserted \/ MoveCommit,
         NEW n \in Node, n = call.node
  PROVE  AllAgree'
<1> DEFINE new == Entry(call.name, n)
<1>1. /\ pc \in {"insert", "commit"} /\ rec' = rec
      /\ call.to \in Node /\ MoveTree /\ InMove
      /\ \E how : Return(how)
  BY DEF MoveNotInserted, MoveCommit, TypeInv, CallInv, AtRest, InMove, AllAgree, disk
<1>2. /\ index' = index \/ index' = [index EXCEPT ![call.to] = index[call.to] \cup {new}]
      /\ new \in index'[call.to]
  <2>1. CASE MoveNotInserted
    BY <2>1 DEF MoveNotInserted, Hit, Calm, disk
  <2>2. CASE MoveCommit
    <3>1. img = index[call.to] \cup {new}
      BY <2>2 DEF MoveCommit, AllAgree, ImgIs
    <3>2. index' = [index EXCEPT ![call.to] = img]
      BY <2>2 DEF MoveCommit, Hit, Calm
    <3> QED BY <1>1, <3>1, <3>2 DEF TypeInv, TypeOK
  <2> QED BY <2>1, <2>2
<1>3. /\ \A m \in Node : m # n => AgreeFor(m)'
      /\ RootInv' /\ DirInv'
      /\ \A d \in Node : index[d] \subseteq index'[d]
      /\ \A d \in Node : \A e \in index'[d] : e \in index[d] \/ (d = call.to /\ e = new)
  BY <1>1, <1>2, EntryAdded
<1>4. First(n) \in NamesOf(n) /\ First(n).parent = call.to /\ First(n).name = call.name
  BY <1>1, NameFacts DEF TypeInv, MoveTree
<1>5. Named(n)'
  <2>1. SUFFICES ASSUME NEW c \in Node, NEW e \in index'[c], e.child = n
                 PROVE  \E f \in NamesOf(n) : f.parent = c /\ f.name = e.name
    BY <1>1 DEF Named, NamesOf
  <2>2. CASE e \in index[c]
    BY <1>1, <2>1, <2>2 DEF MoveTree
  <2>3. CASE c = call.to /\ e = new
    BY <1>4, <2>3 DEF Entry
  <2> QED BY <1>3, <2>2, <2>3
<1>6. Entered(n)'
  <2>1. HasEntry(n, First(n))'
    BY <1>1, <1>2, <1>4 DEF HasEntry, First
  <2>2. ASSUME ~First(n).dos, NEW i \in DOMAIN rec[n].names, ~rec[n].names[i].dos
        PROVE  HasEntry(n, rec[n].names[i])'
    <3>1. CASE i = 1
      BY <2>1, <3>1 DEF First
    <3>2. CASE i # 1
      <4>1. i > 1
        BY <1>1, <3>2, NameFacts DEF TypeInv
      <4>2. HasEntry(n, rec[n].names[i])
        BY <1>1, <2>2, <4>1 DEF MoveTree
      <4>3. rec[n].names[i].parent \in Node
        BY <1>1, NameFacts DEF TypeInv, FileName, NamesOf
      <4> QED BY <1>1, <1>3, <4>2, <4>3 DEF HasEntry
    <3> QED BY <3>1, <3>2
  <2> QED BY <1>1, <2>1, <2>2 DEF Entered, First, NamesOf
<1>7. call'.node = None
  BY <1>1 DEF Return, NoCall
<1> QED BY <1>1, <1>3, <1>5, <1>6, <1>7, Returned DEF AllAgree, AgreeFor

\* A record that nothing names gets a name in a directory.
LEMMA AgreeCreateWrite ==
  ASSUME TypeInv, TypeInv', UsedInv, AllAgree, AtRest, Calm,
         NEW n \in Node, NEW d \in Node, rec[d].used, NEW x \in Name, CreateWrite(n, d, x)
  PROVE  AllAgree'
<1>1. PICK isDir \in BOOLEAN : rec' = [rec EXCEPT ![n] = NewRecord(d, x, isDir)]
  BY DEF CreateWrite
<1>2. /\ ~rec[n].used /\ IsDir(d) /\ pc' = "link" /\ img' = index[d]
      /\ call'.node = n /\ call'.to = d /\ call'.name = x
      /\ call.node = None
  BY DEF CreateWrite, IsDir, AllAgree, RestTree, NoCall
<1>3. n # d /\ n # Root /\ index[n] = {}
  BY <1>2 DEF IsDir, AllAgree, RootInv, DirInv
<1>4. index' = index
  <2>1. index' = [index EXCEPT ![n] = {}]
    BY DEF CreateWrite
  <2> QED BY <1>3, <2>1 DEF TypeInv, TypeOK
<1>5. /\ \A m \in Node : m # n => rec'[m] = rec[m]
      /\ rec'[n].used /\ rec'[n].names = <<[parent |-> d, name |-> x, dos |-> FALSE]>>
  BY <1>1 DEF NewRecord, TypeInv, TypeOK
<1>6. \A m \in Node : m # call'.node => AgreeFor(m)'
  <2>1. \A m \in Node : AgreeFor(m)
    BY <1>2, BoundAssumption DEF AllAgree
  <2> QED BY <1>2, <1>4, <1>5, <2>1, OthersAgree DEF TypeInv
<1>7. NoEntry(n)'
  <2>1. Ahead = index
    BY AheadAtRest DEF AtRest, Writing
  <2> QED BY <1>2, <1>4, <2>1 DEF UsedInv, Sound, Calm, AllUsed, NoEntry
<1>8. RootInv' /\ DirInv'
  BY <1>3, <1>4, <1>5, BoundAssumption DEF AllAgree, RootInv, DirInv, IsDir, ParentOf, First
<1>9. CreateTree'
  <2>1. IsDir(d)'
    BY <1>2, <1>3, <1>5 DEF IsDir
  <2>2. Named(n)'
    BY <1>7 DEF Named, NoEntry
  <2> QED BY <1>2, <1>3, <1>4, <1>5, <1>7, <2>1, <2>2 DEF CreateTree, Named, NoEntry, NamesOf
<1>10. ImgIs' /\ MoveTree' /\ DeleteTree' /\ RestTree'
  BY <1>2, <1>4 DEF ImgIs, MoveTree, DeleteTree, RestTree, InMove, InDelete, AtRest
<1> QED BY <1>6, <1>8, <1>9, <1>10 DEF AllAgree

\* Its entry goes in.
LEMMA AgreeCreateInsert ==
  ASSUME TypeInv, TypeInv', AllAgree, CreateInsert
  PROVE  AllAgree'
<1> DEFINE n == call.node
           new == Entry(call.name, n)
<1>1. /\ pc = "link" /\ pc' = "publish" /\ rec' = rec /\ call' = call
      /\ img' = index[call.to] \cup {new}
      /\ index' = index \/ index' = [index EXCEPT ![call.to] = img']
      /\ n \in Node /\ call.to \in Node /\ InCreate /\ CreateTree
  BY DEF CreateInsert, TypeInv, CallInv, AtRest, InCreate, AllAgree, ImgIs
<1>2. /\ \A m \in Node : m # n => AgreeFor(m)'
      /\ RootInv' /\ DirInv'
      /\ \A d \in Node : index[d] \subseteq index'[d]
      /\ \A d \in Node : \A e \in index'[d] : e \in index[d] \/ (d = call.to /\ e = new)
  BY <1>1, EntryAdded
<1>3. Named(n)'
  <2>1. First(n) \in NamesOf(n) /\ First(n).parent = call.to /\ First(n).name = call.name
    <3>1. First(n) = [parent |-> call.to, name |-> call.name, dos |-> FALSE]
      BY <1>1 DEF CreateTree, First
    <3> QED BY <1>1, <3>1, NameFacts DEF TypeInv
  <2>2. SUFFICES ASSUME NEW c \in Node, NEW e \in index'[c], e.child = n
                 PROVE  \E f \in NamesOf(n) : f.parent = c /\ f.name = e.name
    BY <1>1 DEF Named, NamesOf
  <2>3. CASE e \in index[c]
    BY <1>1, <2>2, <2>3 DEF CreateTree, Named
  <2>4. CASE c = call.to /\ e = new
    BY <2>1, <2>4 DEF Entry
  <2> QED BY <1>2, <2>3, <2>4
<1>4. index'[n] = {}
  BY <1>1, <1>2 DEF CreateTree
<1>5. CreateTree'
  <2> HIDE DEF new
  <2> QED BY <1>1, <1>3, <1>4 DEF CreateTree, IsDir, Named, NamesOf
<1>6. ImgIs'
  BY <1>1 DEF ImgIs, TypeInv, TypeOK
<1>7. MoveTree' /\ DeleteTree' /\ RestTree'
  BY <1>1 DEF MoveTree, DeleteTree, RestTree, InMove, InDelete, AtRest
<1> QED BY <1>1, <1>2, <1>5, <1>6, <1>7 DEF AllAgree

\* A record that no entry has, taken out of use.
LEMMA AgreeCleared ==
  ASSUME TypeInv, TypeInv', AllAgree, NEW n \in Node, n = call.node, n # Root, NoEntry(n),
         index[n] = {}, rec' = [rec EXCEPT ![n].used = FALSE], index' = index,
         NEW how, Return(how)
  PROVE  AllAgree'
<1>1. \A m \in Node : m # n => rec'[m] = rec[m]
  BY DEF TypeInv, TypeOK
<1>2. ~rec'[n].used
  BY DEF TypeInv, TypeOK, Record
<1>3. \A m \in Node : m # n => AgreeFor(m)'
  BY <1>1, OthersAgree DEF AllAgree, TypeInv
<1>4. AgreeFor(n)'
  BY <1>2 DEF AgreeFor, Named, Entered, NoEntry
<1>5. RootInv' /\ DirInv'
  BY <1>1, BoundAssumption DEF AllAgree, RootInv, DirInv, IsDir, ParentOf, First
<1> QED BY <1>3, <1>4, <1>5, Returned DEF AllAgree

LEMMA AgreeCreateRefused ==
  ASSUME TypeInv, TypeInv', AllAgree, CreateRefused
  PROVE  AllAgree'
<1>1. call.node \in Node /\ pc = "link" /\ index' = index /\ Return("failed")
  BY DEF CreateRefused, TypeInv, CallInv, AtRest
<1>2. call.node # Root /\ NoEntry(call.node) /\ index[call.node] = {}
  BY <1>1 DEF AllAgree, CreateTree, InCreate
<1> QED BY <1>1, <1>2, AgreeCleared DEF CreateRefused

\* The entry is there to stay, or never was.
LEMMA AgreeCreateCommit ==
  ASSUME TypeInv, TypeInv', NameInv, UsedInv, AllAgree, Calm, Calm', CreateCommit,
         NEW n \in Node, n = call.node
  PROVE  AllAgree'
<1> DEFINE new == Entry(call.name, n)
<1>1. /\ pc = "publish" /\ call.to \in Node /\ InCreate /\ CreateTree
      /\ img = index[call.to] \cup {new}
  BY DEF CreateCommit, TypeInv, CallInv, AtRest, InCreate, AllAgree, ImgIs
<1>2. CASE index' = [index EXCEPT ![call.to] = img] /\ Return("done") /\ UNCHANGED rec
  <2>1. /\ \A m \in Node : m # n => AgreeFor(m)'
        /\ RootInv' /\ DirInv'
        /\ \A d \in Node : index[d] \subseteq index'[d]
        /\ \A d \in Node : \A e \in index'[d] : e \in index[d] \/ (d = call.to /\ e = new)
    BY <1>1, <1>2, EntryAdded
  <2>2. new \in index'[call.to]
    BY <1>1, <1>2 DEF TypeInv, TypeOK
  <2>3. NamesOf(n) = {First(n)} /\ First(n).parent = call.to /\ First(n).name = call.name
    <3>1. rec[n].names = <<[parent |-> call.to, name |-> call.name, dos |-> FALSE]>>
      BY <1>1 DEF CreateTree
    <3>2. DOMAIN rec[n].names = {1} /\ First(n) = [parent |-> call.to, name |-> call.name, dos |-> FALSE]
      BY <3>1 DEF First
    <3>3. First(n).parent = call.to /\ First(n).name = call.name
      BY <3>2
    <3>4. NamesOf(n) = {First(n)}
      <4>1. \A f : f \in NamesOf(n) <=> \E i \in {1} : f = rec[n].names[i]
        BY <3>2 DEF NamesOf
      <4>2. \A f : f \in NamesOf(n) <=> f = First(n)
        BY <4>1 DEF First
      <4> QED BY <4>2
    <3> QED BY <3>3, <3>4
  <2>4. AgreeFor(n)'
    <3>1. Named(n)'
      <4>1. SUFFICES ASSUME NEW c \in Node, NEW e \in index'[c], e.child = n
                     PROVE  \E f \in NamesOf(n) : f.parent = c /\ f.name = e.name
        BY <1>2 DEF Named, NamesOf
      <4>2. CASE e \in index[c]
        BY <1>1, <4>1, <4>2 DEF CreateTree, Named
      <4>3. CASE c = call.to /\ e = new
        BY <2>3, <4>3 DEF Entry
      <4> QED BY <2>1, <4>2, <4>3
    <3>2. HasEntry(n, First(n))'
      BY <1>2, <2>2, <2>3 DEF HasEntry, First
    <3>3. NamesOf(n)' = {First(n)'}
      BY <1>2, <2>3 DEF NamesOf, First
    <3> QED BY <3>1, <3>2, <3>3 DEF AgreeFor, Entered
  <2> QED BY <1>2, <2>1, <2>4, Returned DEF AllAgree
<1>3. CASE /\ UNCHANGED index
           /\ rec' = [rec EXCEPT ![n].used = FALSE]
           /\ Hit(IF new \in index[call.to] THEN {"commit"} ELSE {})
           /\ Return("failed")
  <2>1. new \notin index[call.to]
    BY <1>3 DEF Hit, Calm
  <2>2. NoEntry(n)
    BY <1>1, <2>1 DEF NoEntry, UsedInv, Sound, Calm, Knows, CreateKnows, NameInv, AheadInv
  <2>3. n # Root /\ index[n] = {}
    BY <1>1 DEF CreateTree
  <2> QED BY <1>1, <1>3, <2>2, <2>3, AgreeCleared
<1> QED BY <1>2, <1>3 DEF CreateCommit

\* An entry of a file that is being deleted leaves its directory.
LEMMA AgreeDropped ==
  ASSUME TypeInv, TypeInv', AllAgree, NEW n \in Node, call'.node = n, NEW d \in Node,
         NEW e \in EntriesOf(d, n), Drop(d, e), rec' = rec, pc' = "alias", call'.from = d,
         \A m \in Node : m # n => AgreeFor(m), Named(n),
         rec[n].used, n # Root, ParentOf(n) = d, index[n] = {}
  PROVE  AllAgree'
<1>1. e.child = n /\ \A c \in Node : \A g : g \in index'[c] <=> g \in index[c] /\ ~(c = d /\ g = e)
  BY DEF Drop, EntriesOf, TypeInv, TypeOK
<1>2. \A m \in Node : m # n => AgreeFor(m)'
  BY <1>1, OthersAgree DEF TypeInv
<1>3. RootInv' /\ DirInv'
  <2>1. \A c \in Node : index'[c] # {} => index[c] # {}
    BY <1>1
  <2> QED BY <2>1 DEF AllAgree, RootInv, DirInv, IsDir, ParentOf, First
<1>4. IsDir(d) /\ d # n
  BY DEF EntriesOf, AllAgree, DirInv
<1>5. Named(n)' /\ index'[n] = {}
  BY <1>1 DEF Named, NamesOf
<1>6. DeleteTree'
  BY <1>4, <1>5 DEF DeleteTree, IsDir, ParentOf, First
<1>7. ImgIs' /\ MoveTree' /\ CreateTree' /\ RestTree'
  BY DEF ImgIs, MoveTree, CreateTree, RestTree, InMove, InCreate, AtRest
<1> QED BY <1>2, <1>3, <1>6, <1>7 DEF AllAgree

LEMMA AgreeDeleteUnlink ==
  ASSUME TypeInv, TypeInv', AllAgree, AtRest, Calm', NEW n \in Node, DeleteUnlink(n)
  PROVE  AllAgree'
<1>1. CASE UNCHANGED <<index, pc, call>>
  BY <1>1, AgreeSame DEF DeleteUnlink
<1>2. CASE /\ \E e \in EntriesOf(ParentOf(n), n) : Drop(ParentOf(n), e)
           /\ pc' = "alias" /\ call' = [NoCall EXCEPT !.node = n, !.from = ParentOf(n)]
  <2>1. call'.node = n /\ call'.from = ParentOf(n) /\ ParentOf(n) \in Node
    BY <1>2, HandlesAreRecords DEF NoCall, TypeInv
  <2>2. \A m \in Node : AgreeFor(m)
    BY BoundAssumption DEF AllAgree, RestTree, NoCall
  <2>3. n # Root /\ rec[n].used /\ index[n] = {} /\ rec' = rec
    BY DEF DeleteUnlink, MayDelete, AllAgree, DirInv, IsDir
  <2> QED BY <1>2, <2>1, <2>2, <2>3, AgreeDropped DEF AgreeFor
<1> QED BY <1>1, <1>2 DEF DeleteUnlink, Hit, Calm

LEMMA AgreeDeleteAlias ==
  ASSUME TypeInv, TypeInv', UsedInv, AllAgree, Calm, Calm', DeleteAlias
  PROVE  AllAgree'
<1>1. /\ pc = "alias" /\ call.node \in Node /\ call.from \in Node /\ rec' = rec /\ call' = call
      /\ img' = img /\ DeleteTree /\ InDelete
  BY DEF DeleteAlias, TypeInv, CallInv, AtRest, InDelete, AllAgree
<1>2. CASE (\E e \in EntriesOf(call.from, call.node) : Drop(call.from, e)) /\ UNCHANGED pc
  BY <1>1, <1>2, AgreeDropped DEF DeleteTree, AllAgree
<1>3. CASE EntriesOf(call.from, call.node) = {} /\ pc' = "clear" /\ UNCHANGED index
  <2>1. Ahead = index
    BY <1>1, AheadAtRest DEF Writing
  <2>2. NoEntry(call.node)'
    BY <1>1, <1>3, <2>1 DEF UsedInv, Sound, Calm, Knows, DeleteKnows, OwnOnlyFrom, NoEntry, EntriesOf
  <2>3. \A n \in Node : AgreeFor(n) => AgreeFor(n)'
    BY <1>1, <1>3 DEF AgreeFor, Named, Entered, NamesOf, HasEntry, First
  <2>4. RootInv' /\ DirInv'
    BY <1>1, <1>3 DEF AllAgree, RootInv, DirInv, IsDir, ParentOf, First
  <2>5. DeleteTree'
    BY <1>1, <1>3, <2>2 DEF DeleteTree, IsDir, ParentOf, First, Named, NamesOf, NoEntry
  <2>6. ImgIs' /\ MoveTree' /\ CreateTree' /\ RestTree'
    BY <1>3 DEF ImgIs, MoveTree, CreateTree, RestTree, InMove, InCreate, AtRest
  <2> QED BY <1>1, <2>3, <2>4, <2>5, <2>6 DEF AllAgree
<1> QED BY <1>2, <1>3 DEF DeleteAlias, Hit, Calm

LEMMA AgreeDeleteClear ==
  ASSUME TypeInv, TypeInv', AllAgree, DeleteClear
  PROVE  AllAgree'
<1>1. call.node \in Node /\ pc = "clear" /\ index' = index /\ Return("done")
  BY DEF DeleteClear, TypeInv, CallInv, AtRest
<1>2. call.node # Root /\ NoEntry(call.node) /\ index[call.node] = {}
  BY <1>1 DEF AllAgree, DeleteTree, InDelete
<1> QED BY <1>1, <1>2, AgreeCleared DEF DeleteClear

\* What has gone wrong is not forgotten.
LEMMA TroubleNotForgotten ==
  [Next]_vars => (trouble' = {} => trouble = {}) /\ (Calm' => Calm)
<1>1. [Next]_vars => trouble \subseteq trouble'
  BY DEF Next, Call, Step, Crash, MoveWrite, MoveUnlink, MoveUnlinked, MoveInsert, MoveNotInserted,
         MoveCommit, CreateWrite, CreateInsert, CreateRefused, CreateCommit, DeleteUnlink,
         DeleteAlias, DeleteClear, Hit, vars
<1> QED BY <1>1 DEF Calm

LEMMA AgreeStep == TypeInv /\ NameInv /\ UsedInv /\ AgreeInv /\ [Next]_vars => AgreeInv'
<1> SUFFICES ASSUME TypeInv, NameInv, UsedInv, AllAgree, [Next]_vars, Calm, Calm'
             PROVE  AllAgree'
  BY TroubleNotForgotten DEF AgreeInv
<1>1. TypeInv'
  BY TypeStep
<1>2. CASE Call
  <2>1. AtRest /\ \A h \in Handles : h \in Node /\ rec[h].used
    BY <1>2, HandlesUsed DEF Call
  <2>2. PICK h \in Handles :
          \/ \E d \in Targets(h), x \in Asked : MoveWrite(h, d, x)
          \/ \E n \in Node, x \in Asked : CreateWrite(n, h, x)
          \/ DeleteUnlink(h)
    BY <1>2 DEF Call
  <2>3. h \in Node /\ rec[h].used /\ Targets(h) \subseteq Node /\ Asked \subseteq Name
    BY <2>1, HandlesAreRecords, BoundAssumption DEF TypeInv
  <2> QED BY <1>1, <2>1, <2>2, <2>3, AgreeMoveWrite, AgreeCreateWrite, AgreeDeleteUnlink
<1>3. CASE Step
  <2>1. ~AtRest => call.node \in Node
    BY DEF TypeInv, CallInv
  <2>2. MoveNotInserted \/ MoveCommit \/ CreateCommit => ~AtRest
    BY DEF MoveNotInserted, MoveCommit, CreateCommit, AtRest
  <2> QED BY <1>1, <1>3, <2>1, <2>2, AgreeMoveUnlink, AgreeMoveUnlinked, AgreeMoveInsert, AgreeMoveEnds, AgreeCreateInsert,
     AgreeCreateRefused, AgreeCreateCommit, AgreeDeleteAlias, AgreeDeleteClear DEF Step
<1>4. CASE Crash
  BY <1>4 DEF Crash, Hit, Calm
<1>5. CASE UNCHANGED vars
  BY <1>5, AgreeSame DEF vars, disk
<1> QED BY <1>2, <1>3, <1>4, <1>5 DEF Next

\* Between calls the entries of the directories and the names in the records are
\* the same, as long as no write has failed, no index refused and no power gone:
\* after a move past the steps of the walk too, which may have made a cycle.
THEOREM NamesStayAgreed == Spec => []NamesAgree
<1>1. Init => TypeInv /\ NameInv /\ UsedInv /\ AgreeInv
  BY TypeInit, NameInit, UsedInit, AgreeInit
<1>2. TypeInv /\ NameInv /\ UsedInv /\ AgreeInv /\ [Next]_vars
        => TypeInv' /\ NameInv' /\ UsedInv' /\ AgreeInv'
  BY TypeStep, NameStep, UsedStep, AgreeStep
<1> QED BY <1>1, <1>2, NamesAgreeInv, PTL DEF Spec

(***************************************************************************)
(* No cycle                                                                *)
(***************************************************************************)

\* The records above one are the least set with it that is closed.
LEMMA OverIsLeast ==
  ASSUME NEW d \in Node, TypeOK
  PROVE  /\ d \in Over(d) /\ Over(d) \subseteq Node /\ Closed(Over(d))
         /\ \A S \in SUBSET Node : d \in S /\ Closed(S) => Over(d) \subseteq S
<1>1. \A m \in Node : ParentOf(m) \in Node
  BY HandlesAreRecords
<1>2. Closed(Over(d))
  <2>1. SUFFICES ASSUME NEW m \in Over(d), rec[m].used, m # Root,
                        NEW S \in SUBSET Node, d \in S, Closed(S)
                 PROVE  ParentOf(m) \in S
    BY <1>1 DEF Over, Closed
  <2> QED BY <2>1 DEF Over, Closed
<1> QED BY <1>2 DEF Over

\* The walk up that comes to the root has seen every record above the directory.
LEMMA WalkFinds ==
  ASSUME TypeOK, NEW n \in Node, NEW d \in Node, n # Root, ~WouldCycle(n, d),
         Up(d)[MaxHops] = Root
  PROVE  n \notin Over(d)
<1> DEFINE N == MaxHops
           F(g) == [k \in 0..N |->
                     IF k = 0 THEN d ELSE IF g[k - 1] = Root THEN Root ELSE ParentOf(g[k - 1])]
           f == [m \in Node |-> IF m = Root THEN Root ELSE ParentOf(m)]
           up == CHOOSE g : g = F(g)
<1>1. N \in Nat
  BY BoundAssumption
<1>2. \A m \in Node : ParentOf(m) \in Node
  BY HandlesAreRecords
<1>3. f \in [Node -> Node] /\ \A m \in Node : f[m] = IF m = Root THEN Root ELSE ParentOf(m)
  BY <1>2
<1>4. \E g : g = F(g)
  <2> HIDE DEF N, f
  <2>1. PICK w \in [0..N -> Node] : w[0] = d /\ \A k \in 1..N : w[k] = f[w[k - 1]]
    <3>1. \A X : \A g \in [X -> X] : \A y \in X :
            \E w \in [0..N -> X] : w[0] = y /\ \A k \in 1..N : w[k] = g[w[k - 1]]
      BY <1>1, Iterates, Zenon
    <3> QED BY <1>3, <3>1, SMTT(20)
  <2>2. \A k \in 0..N : w[k] =
          IF k = 0 THEN d ELSE IF w[k - 1] = Root THEN Root ELSE ParentOf(w[k - 1])
    <3>1. SUFFICES ASSUME NEW k \in 0..N, k # 0
                   PROVE  w[k] = IF w[k - 1] = Root THEN Root ELSE ParentOf(w[k - 1])
      BY <2>1
    <3>2. k \in 1..N /\ k - 1 \in 0..N
      BY <1>1, <3>1
    <3>3. w[k - 1] \in Node
      BY <3>2
    <3> QED BY <1>3, <2>1, <3>2, <3>3
  <2>3. w = F(w)
    BY <2>2
  <2> QED BY <2>3
<1>5. up = F(up)
  <2> HIDE DEF F
  <2> QED BY <1>4
<1>6. up[N] = Root /\ \A k \in 0..N - 1 : up[k] # n
  <2>1. Up(d) = up
    BY DEF Up
  <2> HIDE DEF up
  <2> QED BY <2>1 DEF WouldCycle
<1> HIDE DEF up
<1>7. up[0] = d /\ \A k \in 1..N : up[k] = IF up[k - 1] = Root THEN Root ELSE ParentOf(up[k - 1])
  <2> HIDE DEF N
  <2>1. \A k \in 0..N : up[k] =
          IF k = 0 THEN d ELSE IF up[k - 1] = Root THEN Root ELSE ParentOf(up[k - 1])
    BY <1>5, Zenon
  <2> QED BY <1>1, <2>1
<1>8. \A k \in 0..N : up[k] \in Node
  <2> HIDE DEF N
  <2>1. \A k \in 1..N : up[k - 1] \in Node => up[k] \in Node
    BY <1>2, <1>7, BoundAssumption
  <2> QED BY <1>1, <1>7, <2>1, KeptByAll
<1> DEFINE C == {up[k] : k \in 0..N}
<1> HIDE DEF N
<1>9. C \subseteq Node /\ d \in C
  BY <1>1, <1>7, <1>8
<1>10. n \notin C
  <2>1. ASSUME NEW k \in 0..N PROVE up[k] # n
    <3>1. k = N \/ k \in 0..N - 1
      BY <1>1
    <3> QED BY <1>6, <3>1
  <2> QED BY <2>1
<1>11. Closed(C)
  <2>1. SUFFICES ASSUME NEW k \in 0..N, up[k] # Root PROVE ParentOf(up[k]) \in C
    BY DEF Closed
  <2>2. k # N
    BY <1>6, <2>1
  <2>3. k + 1 \in 1..N /\ k + 1 \in 0..N /\ (k + 1) - 1 = k
    BY <1>1, <2>2
  <2>4. up[k + 1] = ParentOf(up[k])
    BY <1>7, <2>1, <2>3
  <2> QED BY <2>3, <2>4
<1> HIDE DEF C
<1> QED BY <1>9, <1>10, <1>11 DEF Over

\* A file is not above a directory that it is moved to, when the walk from there
\* does not give up.
LEMMA NotMovedBelow ==
  ASSUME TypeOK, AtRest, AllAgree, Acyclic, NEW n \in Node, rec[n].used, NEW d \in Node,
         NEW x, MayMove(n, d, x), ~GivesUp(n, d)
  PROVE  n # Root /\ IsDir(d) /\ n \notin Over(d)
<1>1. n # Root /\ IsDir(d)
  BY ParentsAreDirs DEF MayMove, IsDir
<1>2. CASE ~rec[n].dir
  <2> DEFINE S == {m \in Node : IsDir(m)}
  <2>1. Closed(S) /\ d \in S /\ n \notin S
    BY <1>1, <1>2, ParentsAreDirs, HandlesAreRecords DEF Closed, IsDir
  <2> HIDE DEF S
  <2>2. S \subseteq Node
    BY DEF S
  <2> QED BY <1>1, <2>1, <2>2 DEF Over
<1>3. CASE rec[n].dir /\ d # ParentOf(n)
  BY <1>1, <1>3, WalkFinds DEF MayMove, GivesUp
<1>4. CASE d = ParentOf(n)
  BY <1>1, <1>4 DEF Acyclic
<1> QED BY <1>1, <1>2, <1>3, <1>4

\* A file goes where it is not above: whatever has it above still has no cycle,
\* through the new directories above.
LEMMA AcyclicMove ==
  ASSUME TypeOK, TypeOK', Acyclic, NEW n \in Node, NEW d \in Node, n # Root, n \notin Over(d),
         \A m \in Node : /\ rec'[m].used = rec[m].used
                         /\ m # n => ParentOf(m)' = ParentOf(m),
         ParentOf(n)' = d
  PROVE  Acyclic'
<1>1. PICK T \in SUBSET Node : T = Over(d)
  BY OverIsLeast
<1>2. d \in T /\ Closed(T) /\ n \notin T /\ Closed(T)'
  BY <1>1, OverIsLeast DEF Closed
<1>3. SUFFICES ASSUME NEW m \in Node, rec'[m].used, m # Root
               PROVE  \E S \in SUBSET Node : ParentOf(m)' \in S /\ Closed(S)' /\ m \notin S
  BY DEF Acyclic, Over
<1>4. CASE m = n
  BY <1>2, <1>4
<1>5. CASE m # n
  <2>1. PICK p \in Node : p = ParentOf(m)
    BY HandlesAreRecords
  <2>2. PICK P \in SUBSET Node : P = Over(p)
    BY OverIsLeast
  <2>3. p \in P /\ Closed(P) /\ m \notin P /\ ParentOf(m)' = p /\ rec[m].used
    BY <1>3, <1>5, <2>1, <2>2, OverIsLeast DEF Acyclic
  <2>4. CASE n \notin P
    <3>1. Closed(P)'
      BY <2>3, <2>4 DEF Closed
    <3> QED BY <2>3, <3>1
  <2>5. CASE n \in P
    <3>1. m \notin T
      <4>1. ASSUME m \in T PROVE FALSE
        <5>1. p \in T
          BY <1>2, <1>3, <2>1, <2>3, <4>1 DEF Closed
        <5>2. P \subseteq T
          BY <1>2, <2>2, <5>1, OverIsLeast
        <5> QED BY <1>2, <2>5, <5>2
      <4> QED BY <4>1
    <3>2. Closed(P \cup T)'
      BY <1>2, <2>3 DEF Closed
    <3>3. P \cup T \in SUBSET Node
      OBVIOUS
    <3> QED BY <2>3, <3>1, <3>2, <3>3
  <2> QED BY <2>4, <2>5
<1> QED BY <1>4, <1>5

\* A new file is above nothing.
LEMMA AcyclicCreate ==
  ASSUME TypeOK, TypeOK', AtRest, AllAgree, Acyclic, NEW n \in Node, NEW d \in Node,
         ~rec[n].used, n # Root, n # d,
         \A m \in Node : m # n => rec'[m] = rec[m],
         ParentOf(n)' = d
  PROVE  Acyclic'
<1>1. \A m \in Node : m # n => ParentOf(m)' = ParentOf(m)
  BY DEF ParentOf, First
<1>2. \A m \in Node : rec[m].used => ParentOf(m) # n
  BY ParentsAreDirs DEF IsDir
<1>3. ASSUME NEW a \in Node, a # n
      PROVE  \E S \in SUBSET Node : a \in S /\ Closed(S)' /\ S = Over(a) \ {n}
  <2>1. PICK P \in SUBSET Node : P = Over(a)
    BY OverIsLeast
  <2>2. a \in P /\ Closed(P)
    BY <2>1, OverIsLeast
  <2>3. Closed(P \ {n})'
    BY <1>1, <1>2, <2>2 DEF Closed
  <2> QED BY <1>3, <2>1, <2>2, <2>3
<1>4. SUFFICES ASSUME NEW m \in Node, rec'[m].used, m # Root
               PROVE  \E S \in SUBSET Node : ParentOf(m)' \in S /\ Closed(S)' /\ m \notin S
  BY DEF Acyclic, Over
<1>5. CASE m = n
  BY <1>3, <1>5
<1>6. CASE m # n
  <2>1. PICK p \in Node : p = ParentOf(m)
    BY HandlesAreRecords
  <2>2. ParentOf(m)' = p /\ p # n /\ m \notin Over(p)
    BY <1>1, <1>2, <1>4, <1>6, <2>1 DEF Acyclic
  <2> QED BY <1>3, <2>2
<1> QED BY <1>5, <1>6

\* Fewer records in use.
LEMMA AcyclicFewer ==
  ASSUME TypeOK, Acyclic,
         \A m \in Node : (rec'[m].used => rec[m].used) /\ ParentOf(m)' = ParentOf(m)
  PROVE  Acyclic'
<1>1. \A S \in SUBSET Node : Closed(S) => Closed(S)'
  BY DEF Closed
<1> QED BY <1>1 DEF Acyclic, Over

(***************************************************************************)
(* The refinement                                                          *)
(***************************************************************************)

\* What Namespace sees.
Where == [n \in Node |-> IF rec[n].used /\ n # Root
                         THEN [parent |-> ParentOf(n), name |-> First(n).name] ELSE None]
Placed(n) == rec[n].used /\ n # Root

LEMMA WhereIs ==
  ASSUME TypeOK, NEW n \in Node
  PROVE  /\ Placed(n) => /\ Where[n] = [parent |-> ParentOf(n), name |-> First(n).name]
                         /\ Where[n] # None /\ Where[n].parent = ParentOf(n)
                         /\ Where[n].name = First(n).name
                         /\ Where[n] \in [parent : Node, name : Name]
         /\ ~Placed(n) => Where[n] = None
<1>1. ParentOf(n) \in Node /\ First(n).name \in Name
  BY NameFacts DEF FileName
<1>2. [parent |-> ParentOf(n), name |-> First(n).name] \in [parent : Node, name : Name]
  BY <1>1
<1> QED BY <1>2, BoundAssumption DEF Where, Placed

\* Namespace's terms, in those of the records.
LEMMA LiveIs ==
  ASSUME TypeOK
  PROVE  Places!Live \ {Root} = {n \in Node : Placed(n)} /\ Root \in Places!Live
<1>1. Places!Live = {n \in Node : Where[n] # None} \cup {Root}
  BY DEF Places!Live, Where
<1> QED BY <1>1, WhereIs DEF Placed

LEMMA AboveIs ==
  ASSUME TypeOK, NEW d \in Node
  PROVE  Places!Above(d) = Over(d)
<1>1. Places!Above(d) =
        {a \in Node : \A S \in SUBSET Node :
           d \in S /\ (\A m \in S \cap (Places!Live \ {Root}) : Where[m].parent \in S) => a \in S}
  BY DEF Places!Above, Where
<1>2. ASSUME NEW S \in SUBSET Node
      PROVE  (\A m \in S \cap (Places!Live \ {Root}) : Where[m].parent \in S) <=> Closed(S)
  <2>1. \A m : m \in S \cap (Places!Live \ {Root}) <=> m \in S /\ Placed(m)
    BY LiveIs
  <2>2. \A m \in S : Placed(m) => Where[m].parent = ParentOf(m)
    BY WhereIs
  <2>3. (\A m \in S \cap (Places!Live \ {Root}) : Where[m].parent \in S)
          <=> \A m \in S : Placed(m) => ParentOf(m) \in S
    BY <2>1, <2>2
  <2> QED BY <2>3 DEF Closed, Placed
<1> QED BY <1>1, <1>2 DEF Over

\* Between calls the place of a file that no entry names is vacant.
LEMMA VacantIs ==
  ASSUME TypeOK, AtRest, AllAgree, NEW n \in Node, NEW d \in Node, NEW x \in Name,
         \A e \in Found(d, x) : e.child = n
  PROVE  Places!Vacant(d, x, n)
<1>1. \A m \in Node : Placed(m) => HasEntry(m, First(m))
  BY BoundAssumption DEF AllAgree, RestTree, NoCall, AgreeFor, Entered, Placed
<1>2. SUFFICES ASSUME NEW m \in Node \ {n}, Where[m] = [parent |-> d, name |-> x] PROVE FALSE
  BY DEF Places!Vacant, Places!Place, Where
<1>3. Placed(m) /\ ParentOf(m) = d /\ First(m).name = x
  <2>1. Placed(m)
    <3>1. [parent |-> d, name |-> x] \in [parent : Node, name : Name]
      OBVIOUS
    <3>2. Where[m] # None
      BY <1>2, <3>1, BoundAssumption
    <3> QED BY <3>2, WhereIs
  <2>2. [parent |-> ParentOf(m), name |-> First(m).name] = [parent |-> d, name |-> x]
    BY <1>2, <2>1, WhereIs
  <2> QED BY <2>1, <2>2
<1>4. Entry(x, m) \in index[d]
  BY <1>1, <1>3 DEF HasEntry, ParentOf
<1> QED BY <1>2, <1>4 DEF Found, Entry

LEMMA PlaceIs ==
  ASSUME TypeOK, NEW d \in Node, IsDir(d)
  PROVE  Places!IsPlace(d)
<1>1. d \in Places!Live
  BY LiveIs DEF IsDir, Placed
<1> QED BY <1>1 DEF Places!IsPlace, IsDir

\* The move of a file, at the write of its record.
LEMMA MoveImplements ==
  ASSUME TypeOK, TypeOK', AtRest, AllAgree, Acyclic, NEW n \in Node, rec[n].used, NEW d \in Node,
         NEW x \in Name, MoveWrite(n, d, x), rec' # rec, trouble' = {}
  PROVE  Places!Move(n, d, x) /\ Acyclic'
<1>1. rec' = [rec EXCEPT ![n] = Renamed(rec[n], d, x)] /\ MayMove(n, d, x) /\ ~GivesUp(n, d)
  BY DEF MoveWrite, Hit
<1>2. n # Root /\ IsDir(d) /\ n \notin Over(d)
  BY <1>1, NotMovedBelow
<1>3. /\ rec'[n].names[1] = [parent |-> d, name |-> x, dos |-> rec[n].names[1].dos]
      /\ rec'[n].used = rec[n].used /\ rec'[n].dir = rec[n].dir
  <2> DEFINE r == rec[n]
             s == rec'[n]
  <2>1. r \in Record /\ r.names # << >> /\ s = Renamed(r, d, x)
    BY <1>1 DEF TypeOK
  <2> HIDE DEF r, s
  <2>2. /\ s.names[1] = [parent |-> d, name |-> x, dos |-> r.names[1].dos]
        /\ s.used = r.used /\ s.dir = r.dir
    BY <2>1, RenamedNames
  <2> QED BY <2>2 DEF r, s
<1>4. \A m \in Node : m # n => rec'[m] = rec[m]
  BY <1>1 DEF TypeOK
<1>5. ParentOf(n)' = d /\ First(n)'.name = x /\ \A m \in Node : m # n => ParentOf(m)' = ParentOf(m)
  BY <1>3, <1>4 DEF ParentOf, First
<1>6. Acyclic'
  BY <1>2, <1>3, <1>4, <1>5, AcyclicMove
<1>7. Where' = [Where EXCEPT ![n] = [parent |-> d, name |-> x]]
  BY <1>2, <1>3, <1>4, <1>5 DEF Where, ParentOf, First
<1>8. {m \in Node : rec'[m].dir} = {m \in Node : rec[m].dir}
  BY <1>3, <1>4
<1>9. n \in Places!Live \ {Root} /\ Places!IsPlace(d) /\ Places!Vacant(d, x, n)
  BY <1>1, <1>2, LiveIs, PlaceIs, VacantIs DEF Placed, MayMove
<1>10. n \notin Places!Above(d)
  BY <1>2, AboveIs
<1> QED BY <1>6, <1>7, <1>8, <1>9, <1>10 DEF Places!Move, Places!Place, Where

\* The creation of one, at the write of its record.
LEMMA CreateImplements ==
  ASSUME TypeOK, TypeOK', AtRest, AllAgree, Acyclic, NEW n \in Node, NEW d \in Node, rec[d].used,
         NEW x \in Name, CreateWrite(n, d, x)
  PROVE  Places!Create(n, d, x) /\ Acyclic'
<1>1. PICK isDir \in BOOLEAN : rec' = [rec EXCEPT ![n] = NewRecord(d, x, isDir)]
  BY DEF CreateWrite
<1>2. ~rec[n].used /\ IsDir(d) /\ Found(d, x) = {} /\ n # Root /\ n # d
  BY DEF CreateWrite, IsDir, AllAgree, RootInv
<1>3. /\ rec'[n].names[1] = [parent |-> d, name |-> x, dos |-> FALSE]
      /\ rec'[n].used /\ \A m \in Node : m # n => rec'[m] = rec[m]
  BY <1>1 DEF NewRecord, TypeOK
<1>4. ParentOf(n)' = d /\ First(n)'.name = x
  BY <1>3 DEF ParentOf, First
<1>5. Acyclic'
  BY <1>2, <1>3, <1>4, AcyclicCreate
<1>6. Where' = [Where EXCEPT ![n] = [parent |-> d, name |-> x]]
  BY <1>2, <1>3, <1>4 DEF Where, ParentOf, First
<1>7. LET D == {m \in Node : rec[m].dir} IN {m \in Node : rec'[m].dir} \in {D \ {n}, D \cup {n}}
  <2>1. CASE rec'[n].dir
    BY <1>3, <2>1
  <2>2. CASE ~rec'[n].dir
    BY <1>3, <2>2
  <2> QED BY <2>1, <2>2
<1>8. n \notin Places!Live /\ Places!IsPlace(d) /\ Places!Vacant(d, x, n)
  BY <1>2, LiveIs, PlaceIs, VacantIs DEF Placed
<1> QED BY <1>5, <1>6, <1>7, <1>8 DEF Places!Create, Places!Place, Where

\* The removal of one, or of one whose creation has failed, when its record is
\* taken out of use.
LEMMA RemoveImplements ==
  ASSUME TypeOK, TypeOK', AllAgree, Acyclic, NEW n \in Node, n = call.node, Placed(n),
         rec' = [rec EXCEPT ![n].used = FALSE], index[n] = {}, ParentOf(n) # n
  PROVE  Places!Remove(n) /\ Acyclic'
<1>1. /\ ~rec'[n].used /\ rec'[n].names = rec[n].names /\ rec'[n].dir = rec[n].dir
      /\ \A m \in Node : m # n => rec'[m] = rec[m]
  BY DEF TypeOK, Record
<1>2. \A m \in Node : ParentOf(m)' = ParentOf(m) /\ First(m)' = First(m)
  BY <1>1 DEF ParentOf, First
<1>3. Acyclic'
  BY <1>1, <1>2, AcyclicFewer
<1>4. Where' = [Where EXCEPT ![n] = None]
  BY <1>1, <1>2 DEF Where
<1>5. {m \in Node : rec'[m].dir} = {m \in Node : rec[m].dir}
  BY <1>1
<1>6. n \in Places!Live \ {Root}
  BY LiveIs
<1>7. \A m \in Places!Live \ {Root} : Where[m].parent # n
  <2>1. ASSUME NEW m \in Node, Placed(m), m # n PROVE ParentOf(m) # n
    <3>1. HasEntry(m, First(m))
      BY <2>1 DEF AllAgree, AgreeFor, Entered, Placed
    <3> QED BY <3>1 DEF HasEntry, ParentOf
  <2>2. \A m \in Node : Placed(m) => Where[m].parent = ParentOf(m)
    BY WhereIs
  <2> QED BY <2>1, <2>2, LiveIs
<1> QED BY <1>3, <1>4, <1>5, <1>6, <1>7 DEF Places!Remove, Where

\* Every step that changes a record, while nothing goes wrong, is one of these.
LEMMA TreeStep ==
  ASSUME TypeInv, NameInv, UsedInv, AllAgree, Acyclic, [Next]_vars, trouble = {}, trouble' = {}
  PROVE  Acyclic' /\ (rec' # rec => Places!Next)
<1>1. TypeInv' /\ TypeOK /\ TypeOK'
  BY TypeStep DEF TypeInv
<1>2. CASE rec' = rec
  <2>1. \A m \in Node : (rec'[m].used => rec[m].used) /\ ParentOf(m)' = ParentOf(m)
    BY <1>2 DEF ParentOf, First
  <2> QED BY <1>1, <1>2, <2>1, AcyclicFewer
<1>3. CASE Call /\ rec' # rec
  <2>1. AtRest /\ \A h \in Handles : h \in Node /\ rec[h].used
    BY <1>3, HandlesUsed DEF Call, Calm
  <2>2. PICK h \in Handles :
          \/ \E d \in Targets(h), x \in Asked : MoveWrite(h, d, x)
          \/ \E n \in Node, x \in Asked : CreateWrite(n, h, x)
          \/ DeleteUnlink(h)
    BY <1>3 DEF Call
  <2>3. h \in Node /\ rec[h].used /\ Targets(h) \subseteq Node /\ Asked \subseteq Name
    BY <1>1, <2>1, HandlesAreRecords, BoundAssumption
  <2>4. ~DeleteUnlink(h)
    BY <1>3 DEF DeleteUnlink
  <2>5. CASE \E d \in Targets(h), x \in Asked : MoveWrite(h, d, x)
    <3>1. PICK d \in Node, x \in Name : MoveWrite(h, d, x)
      BY <2>3, <2>5
    <3>2. Places!Move(h, d, x) /\ Acyclic'
      BY <1>1, <1>3, <2>1, <2>3, <3>1, MoveImplements
    <3> QED BY <2>3, <3>2 DEF Places!Next
  <2>6. CASE \E n \in Node, x \in Asked : CreateWrite(n, h, x)
    <3>1. PICK n \in Node, x \in Name : CreateWrite(n, h, x)
      BY <2>3, <2>6
    <3>2. Places!Create(n, h, x) /\ Acyclic'
      BY <1>1, <2>1, <2>3, <3>1, CreateImplements
    <3> QED BY <2>3, <3>2 DEF Places!Next
  <2> QED BY <2>2, <2>4, <2>5, <2>6
<1>4. CASE Step /\ rec' # rec
  <2>1. PICK n : n = call.node
    OBVIOUS
  <2>2. rec' = [rec EXCEPT ![n].used = FALSE] /\ (InCreate \/ pc = "clear")
    BY <1>4, <2>1 DEF Step, MoveUnlink, MoveUnlinked, MoveInsert, MoveNotInserted, MoveCommit, CreateInsert,
       CreateRefused, CreateCommit, DeleteAlias, DeleteClear, InCreate, disk
  <2>3. n \in Node /\ Placed(n) /\ index[n] = {} /\ ParentOf(n) # n
    <3>1. CASE InCreate
      BY <2>1, <3>1 DEF AllAgree, CreateTree, Placed, ParentOf, First, TypeInv, CallInv, AtRest, InCreate
    <3>2. CASE pc = "clear"
      BY <2>1, <3>2 DEF AllAgree, DeleteTree, Placed, TypeInv, CallInv, AtRest, InDelete
    <3> QED BY <2>2, <3>1, <3>2
  <2>4. Places!Remove(n) /\ Acyclic'
    BY <1>1, <2>1, <2>2, <2>3, RemoveImplements
  <2> QED BY <2>3, <2>4 DEF Places!Next
<1>5. CASE Crash \/ UNCHANGED vars
  BY <1>2, <1>5 DEF Crash, vars, disk
<1> QED BY <1>2, <1>3, <1>4, <1>5 DEF Next

\* The trees that another system leaves have no cycle, and lead up to the root.
LEMMA TreeInit == Init => TreeInv /\ Places!Init
<1> SUFFICES ASSUME Init PROVE Acyclic /\ Places!Init
  BY DEF TreeInv
<1>1. TypeOK /\ IsTree(rec) /\ rec \in Trees
  BY TypeInit, TreesAssumption DEF Init, TypeInv
<1>2. \A n \in Node : ParentOf(n) \in Node
  BY <1>1, HandlesAreRecords
<1>3. PICK depth \in [Node -> 0..Cardinality(Node)] :
        \A n \in Node \ {Root} : rec[n].used => depth[rec[n].names[1].parent] < depth[n]
  BY <1>1 DEF IsTree
<1>4. /\ \A n \in Node : depth[n] \in Nat
      /\ \A n \in Node : Placed(n) => depth[ParentOf(n)] < depth[n]
  BY <1>3, NodeCount DEF Placed, ParentOf, First
<1>5. \A n \in Node : rec[n].used => rec[ParentOf(n)].used
  <2>1. \A n \in Node : 1 \in DOMAIN rec[n].names
    BY <1>1, NameFacts
  <2> QED BY <1>1, <2>1 DEF IsTree, ParentOf, First
<1>6. Acyclic
  <2>1. SUFFICES ASSUME NEW n \in Node, Placed(n) PROVE n \notin Over(ParentOf(n))
    BY DEF Acyclic, Placed
  <2> DEFINE S == {m \in Node : m = Root \/ (rec[m].used /\ depth[m] < depth[n])}
  <2>2. ParentOf(n) \in S /\ n \notin S
    BY <1>2, <1>4, <1>5, <2>1 DEF Placed
  <2>3. Closed(S)
    <3>1. SUFFICES ASSUME NEW m \in S, Placed(m) PROVE ParentOf(m) \in S
      BY DEF Closed, Placed
    <3>2. depth[ParentOf(m)] < depth[m] /\ depth[m] < depth[n]
      BY <1>4, <3>1 DEF Placed
    <3>3. depth[ParentOf(m)] < depth[n]
      <4> HIDE DEF S
      <4>1. m \in Node
        BY DEF S
      <4> QED BY <1>2, <1>4, <2>1, <3>2, <4>1
    <3> QED BY <1>2, <1>5, <3>1, <3>3 DEF Placed
  <2>4. S \subseteq Node
    OBVIOUS
  <2> HIDE DEF S
  <2> QED BY <2>2, <2>3, <2>4 DEF Over
<1>7. ASSUME NEW n \in Node, Placed(n) PROVE Root \in Places!Above(n)
  <2>1. SUFFICES ASSUME NEW S \in SUBSET Node, n \in S, Closed(S), Root \notin S PROVE FALSE
    BY <1>1, AboveIs, BoundAssumption DEF Over
  <2> DEFINE D == {depth[m] : m \in {k \in S : rec[k].used}}
  <2>2. D # {} /\ D \subseteq Nat
    BY <1>4, <1>7, <2>1 DEF Placed
  <2>3. PICK v \in D : \A w \in D : v <= w
    <3> HIDE DEF D
    <3> QED BY <2>2, LeastNumber
  <2>4. PICK m \in S : rec[m].used /\ v = depth[m]
    BY <2>3
  <2>5. ParentOf(m) \in S /\ rec[ParentOf(m)].used /\ depth[ParentOf(m)] < depth[m]
    BY <1>4, <1>5, <2>1, <2>4 DEF Closed, Placed
  <2>6. depth[m] <= depth[ParentOf(m)]
    BY <2>3, <2>4, <2>5
  <2> QED BY <1>4, <2>5, <2>6
<1>8. ASSUME NEW n \in Node, Placed(n) PROVE Places!Vacant(Where[n].parent, Where[n].name, n)
  <2>1. SUFFICES ASSUME NEW m \in Node \ {n},
                        Where[m] = [parent |-> Where[n].parent, name |-> Where[n].name]
                 PROVE  FALSE
    BY DEF Places!Vacant, Places!Place, Where
  <2>2. Where[n] = [parent |-> ParentOf(n), name |-> First(n).name] /\ Where[n] # None
    BY <1>1, <1>8, WhereIs
  <2>3. Where[m] = Where[n]
    BY <2>1, <2>2
  <2>4. Placed(m) /\ Where[m] = [parent |-> ParentOf(m), name |-> First(m).name]
    BY <1>1, <2>2, <2>3, WhereIs
  <2>5. ParentOf(m) = ParentOf(n) /\ First(m).name = First(n).name
    BY <2>2, <2>3, <2>4
  <2>6. 1 \in DOMAIN rec[n].names /\ 1 \in DOMAIN rec[m].names
    BY <1>1, NameFacts
  <2>7. rec[n].used /\ rec[m].used /\ Root \notin {n, m} /\ n # m
    BY <1>8, <2>1, <2>4 DEF Placed
  <2>8. /\ rec[n].names[1].parent = rec[m].names[1].parent
        /\ rec[n].names[1].name = rec[m].names[1].name
    BY <2>5 DEF ParentOf, First
  <2> QED BY <1>1, <2>6, <2>7, <2>8, TreesAssumption
<1>9. Where \in [Node -> [parent : Node, name : Name] \cup {None}]
  <2>1. \A n \in Node : Where[n] \in [parent : Node, name : Name] \cup {None}
    BY <1>1, WhereIs
  <2> QED BY <2>1 DEF Where
<1>10. \A n \in Places!Live \ {Root} : n \in Node /\ Placed(n)
  BY <1>1, LiveIs
<1> QED BY <1>6, <1>7, <1>8, <1>9, <1>10 DEF Places!Init, Where

\* While nothing goes wrong, and no directory is moved to where the walk gives up
\* before the root, each write of a record is one step of Namespace: the moves never
\* make a cycle, the places stay one file's, and only what holds nothing is removed.
THEOREM Implements == Spec => ImplementsNamespace
<1> DEFINE Inv == TypeInv /\ NameInv /\ UsedInv /\ AgreeInv /\ TreeInv
<1>1. Init => Inv /\ Places!Init
  BY TypeInit, NameInit, UsedInit, AgreeInit, TreeInit
<1>2. Inv /\ [Next]_vars => Inv' /\ [trouble' = {} /\ rec' # rec => Places!Next]_vars
  <2>1. SUFFICES ASSUME Inv, [Next]_vars
                 PROVE  Inv' /\ (trouble' = {} /\ rec' # rec => Places!Next)
    OBVIOUS
  <2>2. TypeInv' /\ NameInv' /\ UsedInv' /\ AgreeInv'
    BY <2>1, TypeStep, NameStep, UsedStep, AgreeStep
  <2>3. ASSUME trouble' = {} PROVE Acyclic' /\ (rec' # rec => Places!Next)
    <3>1. trouble = {}
      BY <2>1, <2>3, TroubleNotForgotten
    <3>2. AllAgree /\ Acyclic
      BY <2>1, <3>1 DEF AgreeInv, TreeInv, Calm
    <3> QED BY <2>1, <2>3, <3>1, <3>2, TreeStep
  <2> QED BY <2>2, <2>3 DEF TreeInv
<1> QED BY <1>1, <1>2, PTL DEF Spec, ImplementsNamespace

=============================================================================
