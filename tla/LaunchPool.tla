----------------------------- MODULE LaunchPool ------------------------------
(***************************************************************************)
(* contracts/prism-launch-pool, with the boost contract it works with.     *)
(* yLuna is bonded for a share of a PRISM schedule.  One part of the       *)
(* schedule is shared by bond, the other by boost weight, the square root  *)
(* of bond times boost, as of the last time the pool asked the boost       *)
(* contract.  Rewards that are withdrawn vest before they can be claimed,  *)
(* as PRISM, as xPRISM or as xPRISM bonded for more boost.                 *)
(*                                                                         *)
(* A transaction is atomic over both contracts: unbonding at the boost     *)
(* contract and the refresh it asks of the pool are one action, and so are *)
(* a claim and the bond it ends in.                                        *)
(***************************************************************************)
EXTENDS XprismBoost

CONSTANTS
  OWNER, OPERATOR,          \* of the pool; instantiate sets them for good
  InitPoolConfig,           \* the rest of the configuration
  Funding,                  \* the PRISM sent to the pool to distribute
  VESTING_PERIOD,
  TIME_UNIT,                \* vest.rs: vests end on a multiple of it (a day)
  MAX_UPDATE_VEST_PER_TX,   \* vest.rs
  XPRISM_PRICE              \* PRISM for one xPRISM, at gov

CONSTANTS                   \* bounds of a model and the inputs it draws from
  MaxTime, MaxRefreshes,
  BondAmounts, UnbondAmounts, XprismAmounts, XprismUnbondAmounts, YieldAmounts,
  MinBondChoices, RatioChoices, BulkLimit

VARIABLES
  pool_config,              \* CONFIG: schedule, base_pool_ratio, min_bond_amount
  base_status, boost_status,\* BASE_ and BOOST_DISTRIBUTION_STATUS
  bond_amounts,             \* BOND_AMOUNTS, 0 where there is no record
  reward_info,              \* REWARD_INFO
  scheduled_vest,           \* SCHEDULED_VEST, by user and end time
  pending_withdraw,         \* PENDING_WITHDRAW, 0 where there is no record
  prism_held,               \* the pool's PRISM
  staked_yluna,             \* its bond at yasset-staking
  last_address,             \* what WithdrawRewardsBulk returned last, 0 for ""
  \* for the properties: refreshes so far, and the users whose boost was lowered
  \* without the pool being told
  refreshes, untold

distVars   == <<base_status, boost_status>>
rewardVars == <<reward_info, scheduled_vest, pending_withdraw>>
poolVars   == <<pool_config, distVars, bond_amounts, rewardVars, prism_held,
                staked_yluna, last_address>>
histVars   == <<refreshes, untold>>
vars       == <<boostVars, poolVars, histVars, now>>

PoolConfig == [start: Nat, end: Nat, amount: Nat, base_pool_ratio: 0..ONE,
               min_bond_amount: Nat]
DistributionStatus == [total_distributed: Nat, total_weight: Nat,
                       pending_reward: Nat, reward_index: Nat]
\* active_boost is stored for display only.
RewardInfo == [base_index: Nat, boost_index: Nat, boost_weight: Nat, pending_reward: Nat]

ASSUME LaunchAssumption ==
  /\ InitPoolConfig \in PoolConfig /\ InitPoolConfig.start <= InitPoolConfig.end
  /\ Funding \in Nat /\ Funding >= InitPoolConfig.amount
  /\ VESTING_PERIOD \in Nat /\ TIME_UNIT \in Nat \ {0}
  /\ MAX_UPDATE_VEST_PER_TX \in Nat \ {0} /\ XPRISM_PRICE \in Nat \ {0}
  /\ MaxTime \in Nat /\ MaxRefreshes \in Nat /\ BulkLimit \in Nat
  /\ BondAmounts \subseteq Nat \ {0} /\ UnbondAmounts \subseteq Nat \ {0}
  /\ XprismAmounts \subseteq Nat \ {0} /\ XprismUnbondAmounts \subseteq Nat \ {0}
  /\ YieldAmounts \subseteq Nat /\ MinBondChoices \subseteq Nat /\ RatioChoices \subseteq Nat

NoStatus == [total_distributed |-> 0, total_weight |-> 0, pending_reward |-> 0,
             reward_index |-> 0]

\* instantiate, and the PRISM sent to the pool
Init ==
  /\ BoostInit
  /\ pool_config = InitPoolConfig
  /\ base_status = NoStatus /\ boost_status = NoStatus
  /\ bond_amounts = [u \in Users |-> 0]
  /\ reward_info = [u \in {} |-> 0]
  /\ scheduled_vest = [u \in Users |-> [t \in {} |-> 0]]
  /\ pending_withdraw = [u \in Users |-> 0]
  /\ prism_held = Funding /\ staked_yluna = 0 /\ last_address = 0
  /\ refreshes = 0 /\ untold = {}
  /\ now = 0

-----------------------------------------------------------------------------
(***************************************************************************)
(* The distribution                                                        *)
(***************************************************************************)
denom == pool_config.end - pool_config.start

total_distribute(ratio) ==
  mul((pool_config.amount * smaller(now - pool_config.start, denom)) \div denom, ratio)

\* _update_reward_index neither divides by zero nor goes below zero
Updatable(status, ratio) ==
  now >= pool_config.start =>
    denom > 0 /\ status.total_distributed <= total_distribute(ratio)

update_reward_index(status, ratio) ==
  LET distribute_here == total_distribute(ratio) - status.total_distributed
                           + status.pending_reward
  IN  IF now < pool_config.start THEN status
      ELSE IF status.total_weight = 0
      THEN [status EXCEPT !.total_distributed = total_distribute(ratio),
                          !.pending_reward = distribute_here]
      ELSE [status EXCEPT !.total_distributed = total_distribute(ratio),
                          !.pending_reward = 0,
                          !.reward_index = @ + from_ratio(distribute_here, status.total_weight)]

boost_pool_ratio == ONE - pool_config.base_pool_ratio

\* update_reward_indexes
IndexesUpdatable == /\ Updatable(base_status, pool_config.base_pool_ratio)
                    /\ Updatable(boost_status, boost_pool_ratio)
Base  == update_reward_index(base_status, pool_config.base_pool_ratio)
Boost == update_reward_index(boost_status, boost_pool_ratio)

\* _pull_pending_rewards, at given indexes
Info(u) ==
  IF u \in DOMAIN reward_info THEN reward_info[u]
  ELSE [base_index |-> Base.reward_index, boost_index |-> Boost.reward_index,
        boost_weight |-> 0, pending_reward |-> 0]

pull_pending_rewards(u) ==
  LET info == Info(u)
      base == Base.reward_index
      boost == Boost.reward_index
      base_pending == mul(bond_amounts[u], base) - mul(bond_amounts[u], info.base_index)
      boost_pending == mul(info.boost_weight, boost) - mul(info.boost_weight, info.boost_index)
  IN  [info EXCEPT !.pending_reward = @ + base_pending + boost_pending,
                   !.base_index = base, !.boost_index = boost]

integer_sqrt(n) == CHOOSE r \in 0..n : r * r <= n /\ n < (r + 1) * (r + 1)

WithRecord(u, info) ==
  [v \in DOMAIN reward_info \cup {u} |-> IF v = u THEN info ELSE reward_info[v]]
WithoutRecords(S) == Restrict(reward_info, DOMAIN reward_info \ S)

record_removable(bond, info) == bond = 0 /\ info.pending_reward = 0

\* Mutant: the total is only ever added to.
boost_total_weight_adding(info, new_weight) == Boost.total_weight + new_weight

boost_total_weight(info, new_weight) ==
  Boost.total_weight - info.boost_weight + new_weight

\* update_and_save_boost_weight_and_reward_info, after the indexes are updated
\* and the user's rewards pulled, for a new bond and the boost the query returned
SaveBoostWeight(u, bond, boost) ==
  LET info == pull_pending_rewards(u)
      weight == integer_sqrt(bond * boost)
  IN  /\ boost_status' = [Boost EXCEPT !.total_weight = boost_total_weight(info, weight)]
      /\ reward_info' = IF record_removable(bond, info) THEN WithoutRecords({u})
                        ELSE WithRecord(u, [info EXCEPT !.boost_weight = weight])

\* what Bond, Unbond and refresh_boost have in common
Refresh(u, bond, boost) ==
  /\ IndexesUpdatable
  /\ refreshes < MaxRefreshes
  /\ base_status' = [Base EXCEPT !.total_weight = @ - bond_amounts[u] + bond]
  /\ bond_amounts' = [bond_amounts EXCEPT ![u] = bond]
  /\ SaveBoostWeight(u, bond, boost)
  /\ staked_yluna' = staked_yluna - bond_amounts[u] + bond
  /\ refreshes' = refreshes + 1
  /\ untold' = untold \ {u}
  /\ UNCHANGED <<pool_config, scheduled_vest, pending_withdraw, prism_held, last_address,
                 now>>

\* The Bond hook, sent with yLuna
bond(u, amount) ==
  /\ amount >= pool_config.min_bond_amount
  /\ Refresh(u, bond_amounts[u] + amount, GetBoost(user_info, u))
  /\ UNCHANGED boostVars

\* Unbond of an amount or, without one, of the whole bond
unbond(u, amount) ==
  LET new_bond_amount == bond_amounts[u] - amount
  IN  /\ 0 < amount /\ amount <= bond_amounts[u] /\ amount <= staked_yluna
      /\ new_bond_amount = 0 \/ new_bond_amount >= pool_config.min_bond_amount
      /\ Refresh(u, new_bond_amount, GetBoost(user_info, u))
      /\ UNCHANGED boostVars

activate_boost(u) ==
  /\ bond_amounts[u] > 0
  /\ Refresh(u, bond_amounts[u], GetBoost(user_info, u))
  /\ UNCHANGED boostVars

-----------------------------------------------------------------------------
(***************************************************************************)
(* Vesting                                                                 *)
(***************************************************************************)
\* Mutant: too many vests are not looked at.
EndedVests_within_limit(u) ==
  {t \in DOMAIN scheduled_vest[u] :
     /\ Cardinality(DOMAIN scheduled_vest[u]) <= MAX_UPDATE_VEST_PER_TX
     /\ t <= now}

\* update_vest: of the oldest vests one call looks at, those that have ended
EndedVests(u) ==
  {t \in DOMAIN scheduled_vest[u] :
     /\ Cardinality({s \in DOMAIN scheduled_vest[u] : s <= t}) <= MAX_UPDATE_VEST_PER_TX
     /\ t <= now}
RunningVests(u) == Restrict(scheduled_vest[u], DOMAIN scheduled_vest[u] \ EndedVests(u))
can_withdraw(u) == pending_withdraw[u] + SumFunctionOnSet(scheduled_vest[u], EndedVests(u))

vest_end_time == now + VESTING_PERIOD - ((now + VESTING_PERIOD) % TIME_UNIT)

\* Mutant: a vest that ends on the same day is replaced.
with_vest_replaced(vests, amount) ==
  [t \in DOMAIN vests \cup {vest_end_time} |->
     IF t = vest_end_time THEN amount ELSE vests[t]]

with_vest(vests, amount) ==
  [t \in DOMAIN vests \cup {vest_end_time} |->
     IF t = vest_end_time
     THEN amount + (IF t \in DOMAIN vests THEN vests[t] ELSE 0) ELSE vests[t]]

\* _withdraw_rewards_single for every user of a set: no two of them share state
Withdraw(S) ==
  LET to_withdraw(u) == pull_pending_rewards(u).pending_reward
      Kept == {u \in S : bond_amounts[u] > 0}
  IN  /\ IndexesUpdatable
      /\ base_status' = Base /\ boost_status' = Boost
      /\ reward_info' = [u \in (DOMAIN reward_info \ S) \cup Kept |->
                           IF u \in S THEN [pull_pending_rewards(u) EXCEPT !.pending_reward = 0]
                           ELSE reward_info[u]]
      /\ pending_withdraw' = [u \in Users |-> IF u \in S THEN can_withdraw(u)
                                              ELSE pending_withdraw[u]]
      /\ scheduled_vest' =
           [u \in Users |-> IF u \notin S THEN scheduled_vest[u]
                            ELSE IF to_withdraw(u) = 0 THEN RunningVests(u)
                            ELSE with_vest(RunningVests(u), to_withdraw(u))]
      /\ UNCHANGED <<boostVars, pool_config, bond_amounts, prism_held, staked_yluna,
                     histVars, now>>

withdraw_rewards(u) == Withdraw({u}) /\ last_address' = last_address

\* Mutant: the batch is as many records as the limit says from the start.
bulk_addresses_from_start(limit, start_after) ==
  {u \in DOMAIN reward_info :
     Cardinality({v \in DOMAIN reward_info : v <= u}) <= limit}

bulk_addresses(limit, start_after) ==
  {u \in DOMAIN reward_info :
     /\ u > start_after
     /\ Cardinality({v \in DOMAIN reward_info : start_after < v /\ v <= u}) <= limit}

\* The operator, a bot, starts after the address the last call returned.
withdraw_rewards_bulk(sender, limit) ==
  LET addresses == bulk_addresses(limit, last_address)
  IN  /\ sender = OPERATOR
      /\ Withdraw(addresses)
      /\ last_address' = IF addresses = {} THEN 0
                         ELSE CHOOSE u \in addresses : \A v \in addresses : v <= u

\* ClaimWithdrawnRewards without what becomes of the PRISM
Claim(u) ==
  /\ can_withdraw(u) > 0 /\ can_withdraw(u) <= prism_held
  /\ prism_held' = prism_held - can_withdraw(u)
  /\ pending_withdraw' = [pending_withdraw EXCEPT ![u] = 0]
  /\ scheduled_vest' = [scheduled_vest EXCEPT ![u] = RunningVests(u)]
  /\ UNCHANGED <<pool_config, distVars, bond_amounts, reward_info, staked_yluna,
                 last_address, histVars, now>>

\* gov's MintXprism, which fails when it would mint nothing
xprism_minted(amount) == amount \div XPRISM_PRICE

claim_as_prism(u) == Claim(u) /\ UNCHANGED boostVars

claim_as_xprism(u) ==
  /\ xprism_minted(can_withdraw(u)) > 0
  /\ Claim(u)
  /\ UNCHANGED boostVars

\* Amps: minted for the pool, whose hook bonds what its balance grew by
claim_as_amps(u) ==
  /\ boost_bond(u, xprism_minted(can_withdraw(u)))
  /\ Claim(u)

-----------------------------------------------------------------------------
(***************************************************************************)
(* Administration                                                          *)
(***************************************************************************)
\* AdminSendWithdrawnRewards: what a balance grew by while rewards were claimed
withdrawn_rewards(prev, current) == current - prev

\* AdminWithdrawRewards: yasset-staking's rewards, here of PRISM, to the owner
admin_withdraw_rewards(sender, yield) ==
  LET sent == withdrawn_rewards(prism_held, prism_held + yield)
  IN  /\ sender = OWNER
      /\ prism_held' = prism_held + yield - sent
      /\ UNCHANGED <<boostVars, pool_config, distVars, bond_amounts, rewardVars,
                     staked_yluna, last_address, histVars, now>>

update_min_bond_amount(sender, amount) ==
  /\ sender = OWNER
  /\ pool_config' = [pool_config EXCEPT !.min_bond_amount = amount]
  /\ UNCHANGED <<boostVars, distVars, bond_amounts, rewardVars, prism_held, staked_yluna,
                 last_address, histVars, now>>

\* Mutant: the distribution starts anew, and what it has distributed does not.
restarted_keeping_total(status) == status

restarted(status) == [status EXCEPT !.total_distributed = 0]

\* Mutant: the whole amount is distributed again.
remaining_distribution_whole == pool_config.amount

remaining_distribution ==
  pool_config.amount - (Base.total_distributed + Boost.total_distributed)

\* Mutant: a ratio above one is accepted.
ratio_ok_always(ratio) == TRUE

ratio_ok(ratio) == ratio <= ONE

\* UpdateConfig of base_pool_ratio; of both fields, it is one after the other
update_base_pool_ratio(sender, ratio) ==
  LET running == pool_config.start < now /\ now < pool_config.end
  IN  /\ sender = OWNER
      /\ ratio_ok(ratio)
      /\ IndexesUpdatable
      /\ pool_config' =
           [pool_config EXCEPT !.base_pool_ratio = ratio,
                               !.start = IF running THEN now ELSE @,
                               !.amount = IF running THEN remaining_distribution ELSE @]
      /\ base_status' = IF running THEN restarted(Base) ELSE Base
      /\ boost_status' = IF running THEN restarted(Boost) ELSE Boost
      /\ UNCHANGED <<boostVars, bond_amounts, rewardVars, prism_held, staked_yluna,
                     last_address, histVars, now>>

-----------------------------------------------------------------------------
(***************************************************************************)
(* The boost contract's transactions                                       *)
(***************************************************************************)
bond_xprism(u, amount) ==
  /\ boost_bond(u, amount)
  /\ UNCHANGED <<poolVars, histVars, now>>

\* Mutant: the pool is told only where the record is kept.
tells_pool_when_kept(u) ==
  boost_config.launch_pool_contract /\ u \in DOMAIN user_info'

tells_pool(u) == boost_config.launch_pool_contract

\* with the pool's PrivilegedRefreshBoost, where the boost contract knows the pool
unbond_xprism(u, amount) ==
  /\ boost_unbond(u, amount)
  /\ \/ /\ tells_pool(u)
        /\ Refresh(u, bond_amounts[u], GetBoost(user_info', u))
     \/ /\ ~ tells_pool(u)
        /\ untold' = IF boost_config.launch_pool_contract THEN untold ELSE untold \cup {u}
        /\ UNCHANGED <<poolVars, refreshes, now>>

\* A lower rate also applies to the time before it that has not been accumulated.
configure_boost(sender, update) ==
  /\ update_boost_config(sender, update)
  /\ untold' = IF boost_config'.boost_per_hour < boost_config.boost_per_hour
               THEN Users ELSE untold
  /\ UNCHANGED <<poolVars, refreshes, now>>

EndBlock ==
  /\ now < MaxTime
  /\ now' = now + 1
  /\ UNCHANGED <<boostVars, poolVars, histVars>>

Next ==
  \/ \E u \in Users, amount \in BondAmounts : bond(u, amount)
  \/ \E u \in Users, amount \in UnbondAmounts : unbond(u, amount)
  \/ \E u \in Users : unbond(u, bond_amounts[u])
  \/ \E u \in Users : activate_boost(u)
  \/ \E u \in Users : withdraw_rewards(u)
  \/ \E s \in {OWNER, OPERATOR} : withdraw_rewards_bulk(s, BulkLimit)
  \/ \E u \in Users : claim_as_prism(u)
  \/ \E u \in Users : claim_as_xprism(u)
  \/ \E u \in Users : claim_as_amps(u)
  \/ \E s \in {OWNER, OPERATOR}, y \in YieldAmounts : admin_withdraw_rewards(s, y)
  \/ \E s \in {OWNER, OPERATOR}, m \in MinBondChoices : update_min_bond_amount(s, m)
  \/ \E s \in {OWNER, OPERATOR}, r \in RatioChoices : update_base_pool_ratio(s, r)
  \/ \E u \in Users, amount \in XprismAmounts : bond_xprism(u, amount)
  \/ \E u \in Users, amount \in XprismUnbondAmounts : unbond_xprism(u, amount)
  \/ \E s \in BoostOwners, update \in BoostUpdates : configure_boost(s, update)
  \/ EndBlock

Spec == Init /\ [][Next]_vars

\* Blocks keep coming, the bot keeps calling, and users claim what has vested.
FairSpec ==
  /\ Spec
  /\ WF_vars(EndBlock)
  /\ WF_vars(withdraw_rewards_bulk(OPERATOR, BulkLimit))
  /\ \A u \in Users : WF_vars(claim_as_prism(u))

-----------------------------------------------------------------------------
\* Every variable keeps its type and no record is ahead of the indexes, which the
\* subtractions of _pull_pending_rewards rely on.
TypeOK ==
  /\ BoostTypeOK
  /\ pool_config \in PoolConfig /\ pool_config.start <= pool_config.end
  /\ base_status \in DistributionStatus /\ boost_status \in DistributionStatus
  /\ bond_amounts \in [Users -> Nat]
  /\ DOMAIN reward_info \subseteq Users
  /\ reward_info \in [DOMAIN reward_info -> RewardInfo]
  /\ \A u \in DOMAIN reward_info : /\ reward_info[u].base_index <= base_status.reward_index
                                   /\ reward_info[u].boost_index <= boost_status.reward_index
  /\ DOMAIN scheduled_vest = Users
  /\ \A u \in Users : scheduled_vest[u] \in [DOMAIN scheduled_vest[u] -> Nat]
  /\ pending_withdraw \in [Users -> Nat]
  /\ prism_held \in Nat /\ staked_yluna \in Nat
  /\ last_address \in Users \cup {0} /\ untold \subseteq Users
  /\ refreshes \in Nat /\ now \in Nat

Weight(u) == IF u \in DOMAIN reward_info THEN reward_info[u].boost_weight ELSE 0
Bonded(u) == IF u \in DOMAIN user_info THEN user_info[u].amt_bonded ELSE 0
Total(f) == SumFunctionOnSet(f, DOMAIN f)

\* The weights the rewards are divided by are the sums of the weights they are paid
\* on, however bonds, boosts and records come and go, and what is bonded is there:
\* a user without a bond keeps no weight (so that _withdraw_rewards_single may drop
\* the record) and a user with one keeps the record.
WeightsAddUp ==
  /\ base_status.total_weight = Total(bond_amounts)
  /\ staked_yluna = Total(bond_amounts)
  /\ boost_status.total_weight = Total([u \in Users |-> Weight(u)])
  /\ \A u \in Users : IF bond_amounts[u] = 0 THEN Weight(u) = 0 ELSE u \in DOMAIN reward_info
  /\ xprism_held = Total([u \in Users |-> Bonded(u)])

\* "to make sure the launch-pool contract stops accruing boosted rewards for this user"
\* (xprism_boost.rs): nobody's weight in the pool exceeds what the AMPS held now are
\* worth, but for users whose AMPS were lowered while the pool could not be told.
NoWeightWithoutAmps ==
  \A u \in Users \ untold :
    Weight(u) <= integer_sqrt(bond_amounts[u] * GetBoost(user_info, u))

\* As long as the distribution runs, no sequence of calls, changes of the ratio included,
\* makes the unchecked subtraction of _update_reward_index fail, which would stop every
\* operation of the pool.
RunningPoolComputes == now < pool_config.end => IndexesUpdatable

\* What a user has of the pool: accrued, vesting and vested.
Entitled(u) ==
  pull_pending_rewards(u).pending_reward + Total(scheduled_vest[u]) + pending_withdraw[u]

Released ==
  IF now < pool_config.start THEN 0
  ELSE (pool_config.amount * smaller(now - pool_config.start, denom)) \div denom

\* Rewards claimed, accrued, vesting and vested by all users and rewards not yet
\* distributed never exceed what the schedule has released so far, through every change
\* of the ratio (which starts it anew with the rest) and whatever the owner withdraws,
\* up to one unit in each pool for each change of a weight.
WithinSchedule ==
  IndexesUpdatable =>
    (Funding - prism_held) + Total([u \in Users |-> Entitled(u)])
        + Base.pending_reward + Boost.pending_reward
      <= (InitPoolConfig.amount - pool_config.amount) + Released + 2 * refreshes

\* No step loses rewards of anyone: what a user has accrued, vesting and vested never
\* falls but by what the pool pays, whoever calls what and however records are removed.
NothingLost ==
  [][(IndexesUpdatable /\ IndexesUpdatable') =>
       \A u \in Users : Entitled(u)' + (prism_held - prism_held') >= Entitled(u)]_vars

\* Every vest that ends within the time of the model is paid, however many there are.
EveryVestPaid ==
  \A u \in Users, t \in 0..MaxTime :
    t \in DOMAIN scheduled_vest[u]
      ~> (t \notin DOMAIN scheduled_vest[u] /\ pending_withdraw[u] = 0)

\* Rewards wait for the user, stored in the record or accrued since.
Pending(u) == IndexesUpdatable /\ pull_pending_rewards(u).pending_reward > 0

\* "to effectively paginate over all accounts" (withdraw_rewards_bulk): the bot gets to
\* everyone who has rewards, though records come and go while it does, unless the
\* pool has stopped.
BotReachesAll == \A u \in Users : Pending(u) ~> ~ Pending(u)
=============================================================================
