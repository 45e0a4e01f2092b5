---------------------------- MODULE MCNtfsStore ----------------------------
(***************************************************************************)
(* Small volumes on which TLC checks NtfsStore.                            *)
(***************************************************************************)
EXTENDS NtfsStore, TLC

CONSTANTS r1, r2, a, b

MCCluster      == 0..2
MCSmallCluster == 0..1
MCRecord  == {r1, r2}
MCName    == {a, b}

\* A file with a hole between its two clusters, written by another system.
MCInitialMaps == {<<0, Hole, 1>>}

\* Records and names are interchangeable (clusters are not: they are numbers).
MCSymmetry == Permutations(MCRecord) \cup Permutations(MCName)

=============================================================================
