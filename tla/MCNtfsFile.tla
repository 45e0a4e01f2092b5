----------------------------- MODULE MCNtfsFile -----------------------------
(***************************************************************************)
(* NtfsFile with two handles and three clusters.  The file is new, or was  *)
(* left by another system: in one cluster, all of it written, or the       *)
(* second half of it not yet.                                              *)
(***************************************************************************)
EXTENDS NtfsFile, TLC

Foreign(c, init) ==
  [NewFile EXCEPT !.resident = FALSE, !.map = <<c>>, !.size = 2, !.init = init]

MCFiles == {NewFile} \cup {Foreign(c, init) : c \in Cluster, init \in {1, 2}}

MCSymmetry == Permutations(Handle) \cup Permutations(Cluster)

=============================================================================
