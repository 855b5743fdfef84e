---------------------------- MODULE PointsLedger ----------------------------
(***************************************************************************)
(* What the points outbox promises to the rest of the program: an          *)
(* adjustment that a business transaction accepted is added to the user's  *)
(* balance at most once, never drives the balance below zero, and nothing  *)
(* else moves a balance.  The detailed protocol is in PointsOutbox.        *)
(***************************************************************************)
EXTENDS Integers

CONSTANTS Users,        \* user accounts
          Events,       \* points_outbox.event_id values
          UserOf,       \* the account an event adjusts
          Delta,        \* the signed amount of an event
          InitBalance   \* balance of each account when the system starts

VARIABLES accepted,     \* events committed with their business transaction
          credited,     \* events that took effect on userDB
          balance       \* users.points_balance

lvars == <<accepted, credited, balance>>

LInit ==
    /\ accepted = {}
    /\ credited = {}
    /\ balance = InitBalance

\* The business transaction commits together with its outbox row.
Accept(e) ==
    /\ e \notin accepted
    /\ accepted' = accepted \cup {e}
    /\ UNCHANGED <<credited, balance>>

\* The adjustment takes effect on the account, once.
Credit(e) ==
    /\ e \in accepted \ credited
    /\ balance[UserOf[e]] + Delta[e] >= 0
    /\ credited' = credited \cup {e}
    /\ balance' = [balance EXCEPT ![UserOf[e]] = @ + Delta[e]]
    /\ UNCHANGED accepted

LNext == \E e \in Events : Accept(e) \/ Credit(e)

LSpec == LInit /\ [][LNext]_lvars
=============================================================================
