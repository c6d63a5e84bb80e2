------------------------------ MODULE MCYasset ------------------------------
(***************************************************************************)
(* Instances of YassetStaking for TLC.                                     *)
(***************************************************************************)
EXTENDS YassetStaking, TLC

HalfFee == MAX_PROTOCOL_FEE
BadFee == MAX_PROTOCOL_FEE + 1

MCFees == {HalfFee, BadFee}

UserSymmetry == Permutations(Users)
=============================================================================
