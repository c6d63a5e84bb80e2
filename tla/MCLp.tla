-------------------------------- MODULE MCLp --------------------------------
(***************************************************************************)
(* Instances of LpStaking for TLC.                                         *)
(***************************************************************************)
EXTENDS LpStaking, TLC

MCInitSchedule == [start |-> 0, end |-> 2, amount |-> 8]

\* one that may be added, and one that ends as it starts
MCSchedules == {[start |-> 1, end |-> 3, amount |-> 3], [start |-> 2, end |-> 2, amount |-> 3]}

\* two bonds in one pool, one in the other
MCHeld == <<4, 2>>

UserSymmetry == Permutations(Users)
=============================================================================
