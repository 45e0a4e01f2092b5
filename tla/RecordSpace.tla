---------------------------- MODULE RecordSpace -----------------------------
(***************************************************************************)
(* What the allocator of file records promises its callers.  The table is  *)
(* a sequence of clusters that only ever gets longer: no record moves and  *)
(* none is lost.  A grant is one record inside the table that nobody has.  *)
(* NtfsMft implements it.                                                  *)
(***************************************************************************)
EXTENDS Naturals, Sequences

CONSTANTS
  Record,
  PerCluster   \* records in a cluster

VARIABLES
  table,    \* the clusters of the table, in order
  owners    \* how many files have each record

Inside(r) == r < Len(table) * PerCluster

Grow ==
  /\ Len(table') > Len(table)
  /\ \A i \in 1..Len(table) : table'[i] = table[i]
  /\ \A i, j \in 1..Len(table') : table'[i] = table'[j] => i = j
  /\ UNCHANGED owners

Grant == \E r \in Record :
  /\ Inside(r) /\ owners[r] = 0
  /\ owners' = [owners EXCEPT ![r] = 1]
  /\ UNCHANGED table

Release == \E r \in Record :
  /\ owners[r] = 1
  /\ owners' = [owners EXCEPT ![r] = 0]
  /\ UNCHANGED table

Init ==
  /\ table \in Seq(Nat)
  /\ owners \in [Record -> 0..1]

Next == Grow \/ Grant \/ Release
Spec == Init /\ [][Next]_<<table, owners>>

=============================================================================
