----------------------------- MODULE MCNtfsMft ------------------------------
(***************************************************************************)
(* NtfsMft on a volume of seven clusters with one record each: the table   *)
(* has two clusters, of which the second is a user's, and its bitmap is    *)
(* resident, with one byte or two, or non-resident with its cluster full,  *)
(* or with a cluster to spare.                                             *)
(***************************************************************************)
EXTENDS NtfsMft

Table(p, n, b, l) == [place |-> p, size |-> n, bmap |-> b, bm |-> {}, len |-> l]

MCCluster == 0..6
MCFormats ==
  {[Table(<<0, 1>>, 2, << >>, l) EXCEPT !.bm = S] : l \in {1, 2}, S \in SUBSET {1}}
  \cup {Table(<<0, 1>>, 2, <<3>>, 1), Table(<<0, 1>>, 2, <<3, 4>>, 1)}

=============================================================================
