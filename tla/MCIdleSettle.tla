---------------------------- MODULE MCIdleSettle ----------------------------
(* Instances of IdleSettle for TLC. *)
EXTENDS IdleSettle

CONSTANTS c1, c2, c3, s1, s2

\* c1 and c2 settle the same session (say a stop and a scanner), c3 another.
TwoOnOne == [c \in Settlers |-> IF c = c3 THEN s2 ELSE s1]

\* With Limit 3: the first call gets 2, the second 1, the third nothing.
TwoPoints == [c \in Settlers |-> 2]

Today == [s \in Sessions |-> 0]
=============================================================================
