------------------------------- MODULE MCVault -------------------------------
(***************************************************************************)
(* Instances of Vault for TLC.                                             *)
(***************************************************************************)
EXTENDS Vault, TLC

MCParams == [epoch_period |-> 0, unbonding_period |-> 2,
             peg_recovery_fee |-> ONE \div 2, er_threshold |-> ONE]

MCOtherParams == [epoch_period |-> 1, unbonding_period |-> 1,
                  peg_recovery_fee |-> 0, er_threshold |-> 0]

MCInvalidParams == [MCParams EXCEPT !.er_threshold = ONE + 1]

MCParamChoices == {MCParams, MCOtherParams, MCInvalidParams}

UserSymmetry == Permutations(Users)
=============================================================================
