--------------------------- MODULE MCSessionIndex ---------------------------
(* Instances of ShadowIndex and of the index it extends, for TLC. *)
EXTENDS ShadowIndex, TLC

CONSTANT Lengths

\* Conversations in which the message changes at most once, so that two of them
\* may part at any place.
Lists ==
  {conv \in UNION {[1..n -> Messages] : n \in Lengths} :
     Cardinality({i \in 2..Len(conv) : conv[i] # conv[i-1]}) <= 1}

MessageSymmetry == Permutations(Messages)
=============================================================================
