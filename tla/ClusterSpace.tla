---------------------------- MODULE ClusterSpace ----------------------------
(***************************************************************************)
(* What the cluster allocator promises its callers: a grant is one run of  *)
(* consecutive clusters that nobody holds, a release gives one such run    *)
(* back, and nothing else (no mount or unmount) moves a cluster.           *)
(* NtfsBitmap implements it; NtfsStore is written against it.              *)
(***************************************************************************)
EXTENDS Naturals

CONSTANT Cluster

VARIABLE holders   \* how many files hold each cluster

IsRun(S) ==
  /\ S # {}
  /\ \A a, b \in S : \A c \in Cluster : a <= c /\ c <= b => c \in S

Moved == {c \in Cluster : holders'[c] # holders[c]}

Grant ==
  /\ holders' \in [Cluster -> 0..1]
  /\ IsRun(Moved) /\ \A c \in Moved : holders[c] = 0

Release ==
  /\ holders' \in [Cluster -> 0..1]
  /\ IsRun(Moved) /\ \A c \in Moved : holders[c] = 1

Init == holders \in [Cluster -> 0..1]
Next == Grant \/ Release
Spec == Init /\ [][Next]_holders

=============================================================================
