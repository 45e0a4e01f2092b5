------------------------------ MODULE NameSet -------------------------------
(***************************************************************************)
(* What a directory's index promises: a set of names.  NtfsIndex           *)
(* implements it with a tree of blocks.                                    *)
(***************************************************************************)
CONSTANT Key
VARIABLE names

Init == names \in SUBSET Key

Add(k) == k \notin names /\ names' = names \cup {k}
Remove(k) == k \in names /\ names' = names \ {k}
Next == \E k \in Key : Add(k) \/ Remove(k)

Spec == Init /\ [][Next]_names

=============================================================================
