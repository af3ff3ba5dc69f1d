-------------------------------- MODULE Lists --------------------------------
(***************************************************************************)
(* What the code does to its arrays, the rows of tables and the calls      *)
(* under way, as operators on sequences.  A sequence with elements left    *)
(* out is given by the places that are kept.                               *)
(***************************************************************************)
EXTENDS Integers, FiniteSets, Sequences, Functions

\* The numbers of a finite set, the least first.
Ascending(S) ==
  [k \in 1 .. Cardinality(S) |->
     CHOOSE x \in S : Cardinality({y \in S : y < x}) = k - 1]

Reversed(s) == [k \in DOMAIN s |-> s[Len(s) + 1 - k]]

\* filter: what is at these places, in the order there was.
Kept(s, places) ==
  LET order == Ascending(places) IN [k \in DOMAIN order |-> s[order[k]]]

\* splice(i, 1).
RemoveAt(s, i) == SubSeq(s, 1, i - 1) \o SubSeq(s, i + 1, Len(s))

\* The parts one after the other.
Joined(parts) ==
  LET Upto[n \in 0 .. Len(parts)] == IF n = 0 THEN <<>> ELSE Upto[n - 1] \o parts[n]
  IN Upto[Len(parts)]
=============================================================================
