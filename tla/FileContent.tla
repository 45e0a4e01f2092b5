---------------------------- MODULE FileContent -----------------------------
(***************************************************************************)
(* What a caller is promised of a file: a sequence of bytes, into which a  *)
(* write puts its data at a place inside it or at its end, and of which a  *)
(* truncation keeps a prefix.  NtfsFile implements it.                     *)
(***************************************************************************)
EXTENDS Naturals, Sequences

CONSTANTS
  Value,    \* what a caller, or the filling of a gap, may put there
  Longest,  \* the longest write
  None      \* there is no file

VARIABLE content

\* s with n times v after its first p elements, over what is there.
Splice(s, p, n, v) ==
  [i \in 1..(IF p + n > Len(s) THEN p + n ELSE Len(s)) |->
     IF i \in (p + 1)..(p + n) THEN v ELSE s[i]]

Create == content = None /\ content' = << >>
Remove == content # None /\ content' = None
Put    == /\ content # None
          /\ \E p \in 0..Len(content), n \in 1..Longest, v \in Value :
               content' = Splice(content, p, n, v)
Cut    == /\ content # None
          /\ \E n \in 0..Len(content) : content' = SubSeq(content, 1, n)

Next == Create \/ Remove \/ Put \/ Cut

=============================================================================
