------------------------------ MODULE MCLaunch -------------------------------
(***************************************************************************)
(* Instances of LaunchPool for TLC.                                        *)
(***************************************************************************)
EXTENDS LaunchPool, TLC

CONSTANT boost_owner

MCBoostConfig == [owner |-> boost_owner, boost_per_hour |-> ONE, max_boost_per_xprism |-> 3,
                  launch_pool_contract |-> TRUE]
MCBoostUpdates == {[launch_pool_contract |-> FALSE, max_boost_per_xprism |-> 4]}

MCPoolConfig == [start |-> 0, end |-> 2, amount |-> 9, base_pool_ratio |-> ONE \div 2,
                 min_bond_amount |-> 1]
=============================================================================
