--------------------------- MODULE MCPointsOutbox ---------------------------
(* Instances of PointsOutbox for TLC.                                      *)
EXTENDS PointsOutbox

CONSTANTS e1, e2,      \* two events
          u1,          \* an account
          p1, p2,      \* two pods
          c1, c2,      \* a consumer per pod
          r1, r2       \* a relay per pod

TwoPods == [x \in Procs |-> IF x \in {e1, c1, r1} THEN p1 ELSE p2]
\* Both requests reach the first pod, whose pool can then be full.
RequestsOnP1 == [x \in Procs |-> IF x \in {e1, e2, c1, r1} THEN p1 ELSE p2]

SameUser == [e \in Events |-> u1]

\* An income and a spend.
IncomeAndSpend == [e \in Events |-> IF e = e1 THEN 2 ELSE -1]
\* Two spends.  A balance of 2 can pay either but not both; it could also pay
\* the smaller one twice by mistake.
TwoSpends == [e \in Events |-> IF e = e1 THEN -1 ELSE -2]

AllOne == [u \in Users |-> 1]
AllTwo == [u \in Users |-> 2]

=============================================================================
