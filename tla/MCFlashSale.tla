----------------------------- MODULE MCFlashSale -----------------------------
(* Instances of FlashSale for TLC.                                         *)
EXTENDS FlashSale

CONSTANTS q1, q2, q3,   \* requests
          u1, u2,       \* users
          p1, p2        \* pods

\* The first two requests are of one user, on different pods.
TwoUsers == [r \in Requests |-> IF r \in {q1, q2} THEN u1 ELSE u2]
TwoPods == [r \in Requests |-> IF r \in {q1, q3} THEN p1 ELSE p2]
=============================================================================
