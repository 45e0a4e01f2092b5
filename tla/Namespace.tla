----------------------------- MODULE Namespace ------------------------------
(***************************************************************************)
(* What a user sees of the directories: every file is in one place, a name *)
(* in a directory, and create, move and remove each happen at once.        *)
(* NtfsMove implements it.                                                 *)
(***************************************************************************)
CONSTANTS
  Node,
  Root,
  Name,
  None

VARIABLES
  where,   \* of each node: its directory and name, or None
  isDir    \* the nodes that are directories, or were

Place(d, x) == [parent |-> d, name |-> x]
Live == {n \in Node : where[n] # None} \cup {Root}
IsPlace(d) == d \in Live /\ d \in isDir
Vacant(d, x, n) == \A m \in Node \ {n} : where[m] # Place(d, x)

\* The directories above d, with d: the least set that has d and every parent.
Above(d) ==
  {a \in Node : \A S \in SUBSET Node :
     d \in S /\ (\A m \in S \cap (Live \ {Root}) : where[m].parent \in S) => a \in S}

Create(n, d, x) ==
  /\ n \notin Live /\ IsPlace(d) /\ Vacant(d, x, n)
  /\ where' = [where EXCEPT ![n] = Place(d, x)]
  /\ isDir' \in {isDir \ {n}, isDir \cup {n}}

Move(n, d, x) ==
  /\ n \in Live \ {Root} /\ IsPlace(d) /\ Vacant(d, x, n)
  /\ n \in isDir => n \notin Above(d)
  /\ where' = [where EXCEPT ![n] = Place(d, x)]
  /\ UNCHANGED isDir

Remove(n) ==
  /\ n \in Live \ {Root}
  /\ \A m \in Live \ {Root} : where[m].parent # n
  /\ where' = [where EXCEPT ![n] = None]
  /\ UNCHANGED isDir

Init ==
  /\ where \in [Node -> [parent : Node, name : Name] \cup {None}]
  /\ isDir \in SUBSET Node
  /\ \A n \in Live \ {Root} : Root \in Above(n) /\ Vacant(where[n].parent, where[n].name, n)

Next == \E n \in Node :
  \/ Remove(n)
  \/ \E d \in Node, x \in Name : Create(n, d, x) \/ Move(n, d, x)

Spec == Init /\ [][Next]_<<where, isDir>>

=============================================================================
