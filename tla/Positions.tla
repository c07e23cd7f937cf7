------------------------------- MODULE Positions -------------------------------
(* Parts of sequences, picked by their positions.                               *)
EXTENDS Integers, FiniteSets

\* The n-th position in S: the one up to which there are n of them.
Nth(S, n) == CHOOSE i \in S : Cardinality(S \cap (1..i)) = n

\* What seq has at the positions in S, in its order.
Chosen(seq, S) == [n \in 1..Cardinality(S) |-> seq[Nth(S, n)]]

================================================================================
