---------------------------- MODULE MCNtfsIndex -----------------------------
(***************************************************************************)
(* Seven names, two of them short.  A block holds two long names or a short *)
(* one more, the record one; six clusters, asked for eight at a time.       *)
(***************************************************************************)
EXTENDS NtfsIndex
Keys == 1..7
Mixed == [k \in Keys |-> IF k \in {3, 5} THEN 1 ELSE 2]
=============================================================================
