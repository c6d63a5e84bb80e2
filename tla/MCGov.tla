-------------------------------- MODULE MCGov --------------------------------
(***************************************************************************)
(* Instances of Gov for TLC.                                               *)
(***************************************************************************)
EXTENDS Gov, TLC

CONSTANT owner

\* No delay at all is legal, and the shortest time in which orders overlap.
MCXprismConfig ==
  [owner |-> owner, quorum |-> ONE \div 2, threshold |-> ONE \div 2,
   voting_period |-> 1, effective_delay |-> 0, proposal_deposit |-> 1,
   snapshot_period |-> 1, redemption_time |-> 1]

MCPollConfig ==
  [owner |-> GOV, quorum |-> ONE \div 2, threshold |-> ONE \div 2,
   voting_period |-> 1, effective_delay |-> 1, proposal_deposit |-> 1,
   snapshot_period |-> 1, redemption_time |-> 1]

MCXprismUpdates == {[redemption_time |-> 0]}

MCPollUpdates == {[owner |-> owner, effective_delay |-> 0],
                  [quorum |-> ONE + 1]}

MCMessages ==
  {[msg |-> "other", poll_id |-> 0], [msg |-> "update_config", poll_id |-> 0],
   [msg |-> "execute_poll", poll_id |-> 2]}

UserSymmetry == Permutations(Users)
=============================================================================
