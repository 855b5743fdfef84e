---------------------------- MODULE MCShopRedeem ----------------------------
(* Instances of ShopRedeem for TLC.                                        *)
EXTENDS ShopRedeem

CONSTANTS q1, q2, q3,   \* requests
          u1, u2,       \* users
          p1, p2        \* pods

\* The first two requests are of one user, on different pods.
TwoUsers == [r \in Requests |-> IF r \in {q1, q2} THEN u1 ELSE u2]
\* A user per request.
OwnUser == [r \in Requests |-> IF r = q1 THEN u1 ELSE u2]
TwoPods == [r \in Requests |-> IF r \in {q1, q3} THEN p1 ELSE p2]

AllTwo == [r \in Requests |-> 2]

\* Two users start at different buckets.
Apart == [u \in Users |-> IF u = u1 THEN 0 ELSE 1 % N]

=============================================================================
