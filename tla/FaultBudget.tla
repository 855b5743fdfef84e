---------------------------- MODULE FaultBudget ----------------------------
(***************************************************************************)
(* The adverse events a behaviour may contain, counted against one bound    *)
(* and remembered by kind, so that a property can say which of them it      *)
(* survives.                                                                *)
(***************************************************************************)
EXTENDS Naturals

CONSTANT MaxFaults   \* bound: outages, crashes, failed writes, lost replies, shutdowns

ASSUME FaultAssumption == MaxFaults \in Nat

VARIABLES faults,    \* how many so far
          harm       \* kinds of those a property has to except

faultVars == <<faults, harm>>

\* A behaviour may be given less than the bound.
FaultInit(budget) == faults = MaxFaults - budget /\ harm = {}

\* An event that every property survives.
Disturb == faults < MaxFaults /\ faults' = faults + 1 /\ UNCHANGED harm

\* An event that some property has to except.
Harm(what) == faults < MaxFaults /\ faults' = faults + 1 /\ harm' = harm \cup {what}
=============================================================================
