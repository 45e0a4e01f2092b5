----------------------------- MODULE MCNtfsMove -----------------------------
(***************************************************************************)
(* NtfsMove with a root directory and three records, on volumes with a     *)
(* directory in a directory, a file with an 8.3 alias (before its long     *)
(* name in the record, or after it), and a file with two links.            *)
(***************************************************************************)
EXTENDS NtfsMove

CONSTANTS root, n1, n2, n3, a, b, c

MCNode == {root, n1, n2, n3}
MCName == {a, b, c}
MCAsked == {a, b}

In(d, x) == [parent |-> d, name |-> x, dos |-> FALSE]
Dos(d, x) == [parent |-> d, name |-> x, dos |-> TRUE]
Dir(names) == [used |-> TRUE, dir |-> TRUE, names |-> names]
File(names) == [used |-> TRUE, dir |-> FALSE, names |-> names]
FreeRec == [used |-> FALSE, dir |-> FALSE, names |-> <<In(root, a)>>]

Tree(r1, r2, r3) ==
  [n \in MCNode |-> CASE n = n1 -> r1 [] n = n2 -> r2 [] n = n3 -> r3
                      [] OTHER -> Dir(<<In(root, a)>>)]

MCTrees ==
  { Tree(Dir(<<In(root, a)>>), Dir(<<In(n1, a)>>), File(<<In(n1, b)>>)),
    Tree(Dir(<<In(root, a)>>), File(<<In(n1, a), Dos(n1, c)>>), File(<<In(n1, b)>>)),
    Tree(Dir(<<In(root, a)>>), File(<<Dos(n1, a), In(n1, b)>>), FreeRec),
    Tree(Dir(<<In(root, a)>>), File(<<In(root, b), In(n1, b)>>), FreeRec),
    Tree(Dir(<<In(root, a)>>), File(<<In(n1, a), In(n1, b)>>), FreeRec) }

=============================================================================
