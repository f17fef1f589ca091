---------------------------- MODULE MCInventory ----------------------------
(* Small stockrooms for TLC.                                                 *)
EXTENDS Inventory, TLC

CONSTANTS l1, l2, o1, o2   \* the levels and orders the maps below name

(* All lines are of one order, and for one level. *)
SameOrder == [ln \in Lines |-> o1]
SameLevel == [ln \in Lines |-> l1]
(* Two orders of two lines each, the levels in opposite order. *)
TwoEach == [ln \in Lines |-> IF ln <= 2 THEN o1 ELSE o2]
Crossed == [ln \in Lines |-> IF ln \in {1, 4} THEN l1 ELSE l2]

(* Only the first level has a row. *)
OnlyFirst == [l \in Levels |-> IF l = l1 THEN 2 ELSE 0]
(* No level has one yet. *)
NoRowYet == [l \in Levels |-> 0]

Interchangeable == Permutations(Technicians) \cup Permutations(Clerks)
=============================================================================
