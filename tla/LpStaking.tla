------------------------------ MODULE LpStaking ------------------------------
(***************************************************************************)
(* contracts/prism-lp-staking: LP tokens are bonded in pools that share    *)
(* schedules of PRISM by weight.  A pool turns its share into a growing    *)
(* index when it is touched; unbonding goes through orders that mature     *)
(* after the pool's unbond period.                                         *)
(***************************************************************************)
EXTENDS Decimals, FiniteSets, Functions, Sequences

CONSTANTS
  Users, Owners, InitOwner,
  Tokens,          \* staking tokens, registered or not, by their place in the order of POOLS' keys
  InitTokens,      \* those of the instantiate message
  InitWeight, InitPeriod, InitSchedule,
  Funding,         \* the PRISM sent to the contract to distribute
  MAX_ORDER_WITHDRAW_PER_TX

CONSTANTS          \* bounds of a model and the inputs it draws from
  MaxTime, MaxSchedules, MaxHeld, MaxRebonds,
  BondAmounts, UnbondAmounts, GiftAmounts, Weights, Periods, Schedules

CONSTANT QueueToken  \* for the properties: one token, any of them, whose orders are watched

Schedule == [start: Nat, end: Nat, amount: Nat]
ValidSchedule(s) == s.start < s.end

ASSUME LpAssumption ==
  /\ IsFiniteSet(Users) /\ IsFiniteSet(Tokens) /\ Tokens \subseteq Nat
  /\ InitTokens \subseteq Tokens
  /\ QueueToken \in Tokens
  /\ InitOwner \in Owners
  /\ InitWeight \in Nat /\ InitPeriod \in Nat /\ Funding \in Nat
  /\ InitSchedule \in Schedule /\ ValidSchedule(InitSchedule)
  /\ MAX_ORDER_WITHDRAW_PER_TX \in Nat \ {0}
  /\ MaxTime \in Nat /\ MaxSchedules \in Nat /\ MaxRebonds \in Nat
  /\ MaxHeld \in [Tokens -> Nat]
  /\ BondAmounts \subseteq Nat \ {0} /\ UnbondAmounts \subseteq Nat
  /\ GiftAmounts \subseteq Nat \ {0}
  /\ Weights \subseteq Nat /\ Periods \subseteq Nat /\ Schedules \subseteq Schedule

VARIABLES
  owner, distribution_schedule, total_weight,   \* CONFIG
  pools,             \* POOLS, by token
  reward_info,       \* REWARD_INFO, by staker and token
  unbond_orders,     \* UNBOND_ORDERS: the amount, by staker, token and time
  staker_by_token,   \* STAKER_BY_TOKEN_INDEXER
  \* the contract's LP tokens and PRISM, and block time
  held, prism, now,
  \* for the properties: how often a bond has changed, and whether the total was
  \* lowered under a pool whose past was still to be computed
  rebonds, repriced

configVars == <<owner, distribution_schedule, total_weight, repriced>>
stakeVars  == <<reward_info, unbond_orders, staker_by_token>>
vars == <<configVars, pools, stakeVars, held, prism, now, rebonds>>

PoolInfo == [last_distributed: Nat, weight: Nat, total_bond_amount: Nat,
             total_pending_withdraw: Nat, reward_index: Nat, pending_reward: Nat,
             unbond_period: Nat]
RewardInfo == [reward_index: Nat, bond_amount: Nat, withdrawable_amount: Nat,
               pending_reward: Nat]

NewPool(weight, period, time) ==
  [last_distributed |-> time, weight |-> weight, total_bond_amount |-> 0,
   total_pending_withdraw |-> 0, reward_index |-> 0, pending_reward |-> 0,
   unbond_period |-> period]
DefaultRewardInfo ==
  [reward_index |-> 0, bond_amount |-> 0, withdrawable_amount |-> 0, pending_reward |-> 0]
Empty == [x \in {} |-> 0]

\* instantiate, of pools with the same weight and period, at time 0
Init ==
  /\ owner = InitOwner
  /\ distribution_schedule = <<InitSchedule>>
  /\ total_weight = InitWeight * Cardinality(InitTokens)
  /\ pools = [t \in InitTokens |-> NewPool(InitWeight, InitPeriod, 0)]
  /\ reward_info = Empty
  /\ unbond_orders = Empty
  /\ staker_by_token = {}
  /\ held = [t \in Tokens |-> 0]
  /\ prism = Funding
  /\ now = 0
  /\ rebonds = 0
  /\ repriced = FALSE

-----------------------------------------------------------------------------
later(a, b) == IF a >= b THEN a ELSE b

Applies(s, pool) == s.start <= now /\ s.end >= pool.last_distributed

\* compute_pool_reward: what a schedule has brought since the last time, of the total weight
DistributedBy(s, pool, total) ==
  LET seconds_passed == smaller(s.end, now) - later(s.start, pool.last_distributed)
      pool_distribution_amount == mul(s.amount, from_ratio(pool.weight, total))
  IN  mul(seconds_passed, from_ratio(pool_distribution_amount, s.end - s.start))

distributed_amount(pool, total) ==
  SumFunctionOnSet([i \in DOMAIN distribution_schedule |->
                      IF Applies(distribution_schedule[i], pool)
                      THEN DistributedBy(distribution_schedule[i], pool, total) ELSE 0],
                   DOMAIN distribution_schedule)

\* from_ratio panics without any weight
Computable(pool, total) ==
  total > 0 \/ \A i \in DOMAIN distribution_schedule :
                        ~ Applies(distribution_schedule[i], pool)

\* Mutant: an empty pool only collects, and keeps its time.
compute_pool_reward_empty_waits(pool, total) ==
  LET amount == pool.pending_reward + distributed_amount(pool, total)
  IN  IF pool.total_bond_amount = 0
      THEN [pool EXCEPT !.pending_reward = amount]
      ELSE [pool EXCEPT !.last_distributed = now, !.pending_reward = 0,
              !.reward_index = @ + from_ratio(amount, pool.total_bond_amount)]

compute_pool_reward(pool, total) ==
  LET amount == pool.pending_reward + distributed_amount(pool, total)
  IN  IF pool.total_bond_amount = 0
      THEN [pool EXCEPT !.last_distributed = now, !.pending_reward = amount]
      ELSE [pool EXCEPT !.last_distributed = now, !.pending_reward = 0,
              !.reward_index = @ + from_ratio(amount, pool.total_bond_amount)]

compute_staker_reward(pool, info) ==
  [info EXCEPT !.reward_index = pool.reward_index,
     !.pending_reward = @ + (mul(info.bond_amount, pool.reward_index)
                               - mul(info.bond_amount, info.reward_index))]

-----------------------------------------------------------------------------
OrderTimes(u, t) == {k[3] : k \in {j \in DOMAIN unbond_orders : j[1] = u /\ j[2] = t}}

\* get_withdrawable_amount: the expired of the oldest orders, as many as one
\* call takes
ExpiredOrders(u, t) ==
  {time \in OrderTimes(u, t) :
     /\ Cardinality({o \in OrderTimes(u, t) : o <= time}) <= MAX_ORDER_WITHDRAW_PER_TX
     /\ time + pools[t].unbond_period < now}

\* Mutant: no further iteration beyond the limit.
order_count_at_limit(u, t) ==
  smaller(Cardinality(OrderTimes(u, t)), MAX_ORDER_WITHDRAW_PER_TX)

order_count(u, t) ==
  smaller(Cardinality(OrderTimes(u, t)), MAX_ORDER_WITHDRAW_PER_TX + 1)

withdrawable_amount(u, t) ==
  SumFunctionOnSet([o \in OrderTimes(u, t) |-> unbond_orders[<<u, t, o>>]], ExpiredOrders(u, t))

\* pull_expired_withdraw_orders: the staker's record, the orders that stay, and
\* whether the staker has any of them
Record(u, t) == IF <<u, t>> \in DOMAIN reward_info THEN reward_info[<<u, t>>]
                ELSE DefaultRewardInfo
Pulled(u, t) ==
  [Record(u, t) EXCEPT !.withdrawable_amount = @ + withdrawable_amount(u, t)]
Remaining(u, S) ==
  Restrict(unbond_orders, {k \in DOMAIN unbond_orders :
                             ~(k[1] = u /\ k[2] \in S /\ k[3] \in ExpiredOrders(u, k[2]))})
orders_pending(u, t) == order_count(u, t) > Cardinality(ExpiredOrders(u, t))

\* Mutant: tokens that wait to be claimed do not keep the record.
KeepRecord_unless_withdrawable(info, pending) ==
  info.pending_reward > 0 \/ info.bond_amount > 0 \/ pending

KeepRecord(info, pending) ==
  info.pending_reward > 0 \/ info.bond_amount > 0 \/ info.withdrawable_amount > 0 \/ pending

\* update_or_remove_staker_rewards, for the tokens of a set
Save(u, S, info, pending) ==
  LET Kept == {t \in S : KeepRecord(info[t], pending[t])}
      gone == {<<u, t>> : t \in S \ Kept}
  IN  /\ reward_info' = [k \in (DOMAIN reward_info \ gone) \cup {<<u, t>> : t \in Kept} |->
                           IF k[1] = u /\ k[2] \in S THEN info[k[2]] ELSE reward_info[k]]
      /\ staker_by_token' = staker_by_token \ {<<k[2], k[1]>> : k \in gone}

-----------------------------------------------------------------------------
Bonded(u, t, amount) ==
  LET pool == compute_pool_reward(pools[t], total_weight)
      info == compute_staker_reward(pool, Pulled(u, t))
  IN  /\ t \in DOMAIN pools
      /\ Computable(pools[t], total_weight)
      /\ rebonds < MaxRebonds
      /\ reward_info' = [k \in DOMAIN reward_info \cup {<<u, t>>} |->
                           IF k = <<u, t>> THEN [info EXCEPT !.bond_amount = @ + amount]
                           ELSE reward_info[k]]
      /\ staker_by_token' = staker_by_token \cup {<<t, u>>}
      /\ pools' = [pools EXCEPT ![t] = [pool EXCEPT !.total_bond_amount = @ + amount]]
      /\ unbond_orders' = Remaining(u, {t})
      /\ rebonds' = rebonds + 1
      /\ UNCHANGED <<configVars, prism, now>>

\* the Bond hook, sent with LP tokens
bond(u, t, amount) ==
  /\ held[t] + amount <= MaxHeld[t]
  /\ Bonded(u, t, amount)
  /\ held' = [held EXCEPT ![t] = @ + amount]

\* what nobody's bond or order accounts for is the caller's
auto_stake_hook(u, t) ==
  /\ t \in DOMAIN pools
  /\ held[t] >= pools[t].total_bond_amount + pools[t].total_pending_withdraw
  /\ Bonded(u, t, held[t] - pools[t].total_bond_amount - pools[t].total_pending_withdraw)
  /\ held' = held

\* Unbond of an amount or, without one, of the whole bond
unbond(u, t, amount) ==
  LET pool == compute_pool_reward(pools[t], total_weight)
      info == compute_staker_reward(pool, Pulled(u, t))
      at_once == pool.unbond_period = 0
  IN  /\ <<u, t>> \in DOMAIN reward_info
      /\ Computable(pools[t], total_weight)
      /\ rebonds < MaxRebonds
      /\ reward_info[<<u, t>>].bond_amount > 0
      /\ amount <= reward_info[<<u, t>>].bond_amount
      /\ IF at_once
         THEN /\ 0 < amount /\ amount <= held[t]
              /\ held' = [held EXCEPT ![t] = @ - amount]
              /\ unbond_orders' = Remaining(u, {t})
         ELSE /\ <<u, t, now>> \notin DOMAIN unbond_orders
              /\ held' = held
              /\ unbond_orders' = [k \in DOMAIN Remaining(u, {t}) \cup {<<u, t, now>>} |->
                                     IF k = <<u, t, now>> THEN amount ELSE unbond_orders[k]]
      /\ pools' = [pools EXCEPT ![t] =
           [pool EXCEPT !.total_bond_amount = @ - amount,
                        !.total_pending_withdraw = @ + (IF at_once THEN 0 ELSE amount)]]
      /\ Save(u, {t}, [x \in {t} |-> [info EXCEPT !.bond_amount = @ - amount]],
                      [x \in {t} |-> ~ at_once \/ orders_pending(u, t)])
      /\ rebonds' = rebonds + 1
      /\ UNCHANGED <<configVars, prism, now>>

claim_unbonded(u, t) ==
  LET amount == Pulled(u, t).withdrawable_amount
  IN  /\ <<u, t>> \in DOMAIN reward_info
      /\ 0 < amount /\ amount <= held[t] /\ amount <= pools[t].total_pending_withdraw
      /\ pools' = [pools EXCEPT ![t].total_pending_withdraw = @ - amount]
      /\ unbond_orders' = Remaining(u, {t})
      /\ Save(u, {t}, [x \in {t} |-> [Pulled(u, t) EXCEPT !.withdrawable_amount = 0]],
                      [x \in {t} |-> orders_pending(u, t)])
      /\ held' = [held EXCEPT ![t] = @ - amount]
      /\ UNCHANGED <<configVars, prism, now, rebonds>>

\* ClaimRewards of the pools of a set
claim_rewards(u, S) ==
  LET Pool(t) == compute_pool_reward(pools[t], total_weight)
      Earned(t) == compute_staker_reward(Pool(t), Pulled(u, t))
      claim_amount == SumFunctionOnSet([t \in S |-> Earned(t).pending_reward], S)
  IN  /\ \A t \in S : <<u, t>> \in DOMAIN reward_info /\ Computable(pools[t], total_weight)
      /\ claim_amount <= prism
      /\ pools' = [t \in DOMAIN pools |-> IF t \in S THEN Pool(t) ELSE pools[t]]
      /\ unbond_orders' = Remaining(u, S)
      /\ Save(u, S, [t \in S |-> [Earned(t) EXCEPT !.pending_reward = 0]],
                    [t \in S |-> orders_pending(u, t)])
      /\ prism' = prism - claim_amount
      /\ UNCHANGED <<configVars, held, now, rebonds>>

StakedBy(u) == {t \in Tokens : <<u, t>> \in DOMAIN reward_info}

-----------------------------------------------------------------------------
update_owner(sender, new_owner) ==
  /\ sender = owner
  /\ owner' = new_owner
  /\ UNCHANGED <<distribution_schedule, total_weight, repriced, pools, stakeVars, held, prism, now,
                 rebonds>>

\* Mutant: the new schedule is not checked.
add_distribution_schedule_unchecked(sender, s) ==
  /\ sender = owner
  /\ Len(distribution_schedule) < MaxSchedules
  /\ distribution_schedule' = Append(distribution_schedule, s)
  /\ UNCHANGED <<owner, total_weight, repriced, pools, stakeVars, held, prism, now, rebonds>>

add_distribution_schedule(sender, s) ==
  /\ sender = owner
  /\ s.start >= now /\ ValidSchedule(s) /\ s.amount > 0
  /\ Len(distribution_schedule) < MaxSchedules
  /\ distribution_schedule' = Append(distribution_schedule, s)
  /\ UNCHANGED <<owner, total_weight, repriced, pools, stakeVars, held, prism, now, rebonds>>

register_staking_token(sender, t, period, weight) ==
  /\ sender = owner
  /\ t \in Tokens \ DOMAIN pools
  /\ \A x \in DOMAIN pools : Computable(pools[x], total_weight)
  /\ pools' = [x \in DOMAIN pools \cup {t} |->
                 IF x = t THEN NewPool(weight, period, now)
                 ELSE compute_pool_reward(pools[x], total_weight)]
  /\ total_weight' = total_weight + weight
  /\ UNCHANGED <<owner, distribution_schedule, repriced, stakeVars, held, prism, now, rebonds>>

total_reweighted(t, weight) == total_weight - pools[t].weight + weight

\* Mutant: the pool's own past is computed with the new total already.
total_at_at_once(x, t, weight) ==
  IF x < t THEN total_weight ELSE total_reweighted(t, weight)

\* The loop of UpdateStakingToken changes config.total_weight when it comes to the pool:
\* those behind it are computed with the new total.
total_at(x, t, weight) == IF x <= t THEN total_weight ELSE total_reweighted(t, weight)

pools_reweighted(t, weight) ==
  [[x \in DOMAIN pools |-> compute_pool_reward(pools[x], total_at(x, t, weight))]
     EXCEPT ![t].weight = weight]

Stale(t) == pools[t].last_distributed < now

\* UpdateStakingToken of the weight
update_weight(sender, t, weight) ==
  /\ sender = owner
  /\ t \in DOMAIN pools
  /\ \A x \in DOMAIN pools : Computable(pools[x], total_at(x, t, weight))
  /\ pools' = pools_reweighted(t, weight)
  /\ total_weight' = total_reweighted(t, weight)
  /\ repriced' = \/ repriced
                 \/ weight < pools[t].weight /\ \E x \in DOMAIN pools : x > t /\ Stale(x)
  /\ UNCHANGED <<owner, distribution_schedule, stakeVars, held, prism, now, rebonds>>

\* UpdateStakingToken of the period; of both, it is one after the other
update_unbond_period(sender, t, period) ==
  /\ sender = owner
  /\ t \in DOMAIN pools
  /\ pools' = [pools EXCEPT ![t].unbond_period = period]
  /\ UNCHANGED <<configVars, stakeVars, held, prism, now, rebonds>>

-----------------------------------------------------------------------------
\* LP tokens arrive without a hook, for auto_stake_hook or by mistake.
LpArrives(t, amount) ==
  /\ held[t] + amount <= MaxHeld[t]
  /\ held' = [held EXCEPT ![t] = @ + amount]
  /\ UNCHANGED <<configVars, pools, stakeVars, prism, now, rebonds>>

EndBlock ==
  /\ now < MaxTime
  /\ now' = now + 1
  /\ UNCHANGED <<configVars, pools, stakeVars, held, prism, rebonds>>

Next ==
  \/ \E u \in Users, t \in DOMAIN pools, amount \in BondAmounts : bond(u, t, amount)
  \/ \E u \in Users, t \in DOMAIN pools : auto_stake_hook(u, t)
  \/ \E u \in Users, t \in DOMAIN pools, amount \in UnbondAmounts : unbond(u, t, amount)
  \/ \E u \in Users, t \in DOMAIN pools : unbond(u, t, Record(u, t).bond_amount)
  \/ \E u \in Users, t \in DOMAIN pools : claim_unbonded(u, t)
  \/ \E u \in Users, t \in DOMAIN pools : claim_rewards(u, {t})
  \/ \E u \in Users : claim_rewards(u, StakedBy(u))
  \/ \E s, o \in Owners : update_owner(s, o)
  \/ \E o \in Owners, s \in Schedules : add_distribution_schedule(o, s)
  \/ \E o \in Owners, t \in Tokens, p \in Periods, w \in Weights :
       register_staking_token(o, t, p, w)
  \/ \E o \in Owners, t \in DOMAIN pools, w \in Weights : update_weight(o, t, w)
  \/ \E o \in Owners, t \in DOMAIN pools, p \in Periods : update_unbond_period(o, t, p)
  \/ \E t \in Tokens, amount \in GiftAmounts : LpArrives(t, amount)
  \/ EndBlock

Spec == Init /\ [][Next]_vars

-----------------------------------------------------------------------------
\* Every variable keeps its type; schedules do not end before they start and no pool
\* is ahead of time or behind its stakers' index, which the unchecked subtractions
\* of compute_pool_reward and compute_staker_reward rely on.
TypeOK ==
  /\ owner \in Owners /\ total_weight \in Nat /\ now \in Nat /\ rebonds \in Nat
  /\ repriced \in BOOLEAN
  /\ prism \in Nat /\ held \in [Tokens -> Nat]
  /\ distribution_schedule \in Seq(Schedule)
  /\ \A i \in DOMAIN distribution_schedule : ValidSchedule(distribution_schedule[i])
  /\ DOMAIN pools \subseteq Tokens /\ pools \in [DOMAIN pools -> PoolInfo]
  /\ \A t \in DOMAIN pools : pools[t].last_distributed <= now
  /\ DOMAIN reward_info \subseteq Users \X (DOMAIN pools)
  /\ reward_info \in [DOMAIN reward_info -> RewardInfo]
  /\ \A k \in DOMAIN reward_info : reward_info[k].reward_index <= pools[k[2]].reward_index
  /\ DOMAIN unbond_orders \subseteq Users \X (DOMAIN pools) \X (0..now)
  /\ unbond_orders \in [DOMAIN unbond_orders -> Nat]
  /\ staker_by_token \subseteq (DOMAIN pools) \X Users

SumOver(S, Value(_)) == SumFunctionOnSet([x \in S |-> Value(x)], S)

OrdersOf(t) == {k \in DOMAIN unbond_orders : k[2] = t}

\* A pool's totals are the sums of its stakers' bonds, orders and withdrawable
\* amounts, and its tokens are there; nobody who has an order is without the record
\* claim_unbonded asks for, whatever was removed on the way and however many orders
\* one call leaves behind; the index of stakers has whom the records have.
StakesAccountedFor ==
  /\ \A t \in DOMAIN pools :
       /\ LET Bond(u) == Record(u, t).bond_amount
          IN  pools[t].total_bond_amount = SumOver(Users, Bond)
       /\ LET Withdrawable(u) == Record(u, t).withdrawable_amount
              Order(k) == unbond_orders[k]
          IN  pools[t].total_pending_withdraw
                = SumOver(Users, Withdrawable) + SumOver(OrdersOf(t), Order)
       /\ held[t] >= pools[t].total_bond_amount + pools[t].total_pending_withdraw
  /\ \A k \in DOMAIN unbond_orders : <<k[1], k[2]>> \in DOMAIN reward_info
  /\ staker_by_token = {<<k[2], k[1]>> : k \in DOMAIN reward_info}

\* What a staker would get of a pool now.
Claimable(u, t) ==
  compute_staker_reward(compute_pool_reward(pools[t], total_weight), Record(u, t)).pending_reward

ReleasedBy(s) ==
  IF s.start > now THEN 0
  ELSE (s.amount * (smaller(s.end, now) - s.start)) \div (s.end - s.start)

\* Paid, claimable and still undistributed rewards of all pools together never exceed
\* what the schedules have released, through every raise of a weight and every new pool
\* and schedule, up to one unit for each change of a bond (where compute_staker_reward
\* rounds anew).  A weight that is lowered ahead of a pool whose past is not computed
\* gives that pool too much of it (update_staking_token), and ends what this says.
WithinSchedules ==
  total_weight > 0 /\ ~ repriced =>
    LET Owed(k) == Claimable(k[1], k[2])
        Undistributed(t) == compute_pool_reward(pools[t], total_weight).pending_reward
        Released(i) == ReleasedBy(distribution_schedule[i])
    IN  (Funding - prism) + SumOver(Users \X (DOMAIN pools), Owed)
          + SumOver(DOMAIN pools, Undistributed)
        <= SumOver(DOMAIN distribution_schedule, Released) + rebonds

Stakers(t) == {u \in Users : <<u, t>> \in DOMAIN reward_info}

\* What a staker can claim of a pool stays; or, with bonds in the pool, is cleared,
\* and falls only when it is paid.
ClaimKept(u, t) ==
  \/ Claimable(u, t)' = Claimable(u, t)
  \/ /\ pools[t].total_bond_amount > 0 => Claimable(u, t)' = 0
     /\ Claimable(u, t)' < Claimable(u, t) => prism' < prism

\* A step that changes a weight ahead of a pool whose past is not computed.
ReweightedAhead(t) ==
  Stale(t) /\ \E x \in DOMAIN pools : x < t /\ pools'[x].weight # pools[x].weight

\* At any instant, nobody's call changes what another can claim of a pool with bonds,
\* and what a staker can claim goes only when it is paid.  Of a change of a weight this is
\* said for the pool itself, for those ahead of it and for those computed at this instant.
ClaimsKept ==
  [][(now' = now /\ total_weight > 0 /\ total_weight' > 0) =>
       \A t \in DOMAIN pools :
         ReweightedAhead(t) \/ \A u \in Stakers(t) \cup Stakers(t)' : ClaimKept(u, t)]_vars

\* "update all pools rewards so that the new weight is only applied to all pools from
\* this instant" (update_staking_token): no call at all changes what a staker can claim
\* of a pool for the past.  It is violated.
PastIsFixed ==
  [][(now' = now /\ total_weight > 0 /\ total_weight' > 0) =>
       \A t \in DOMAIN pools : \A u \in Stakers(t) \cup Stakers(t)' : ClaimKept(u, t)]_vars

\* The unbond orders of one token as a queue.
QueueOrders == OrdersOf(QueueToken)
Queue == INSTANCE RedemptionQueue WITH
  Claimants <- Users,
  orders    <- [k \in {<<j[1], j[3]>> : j \in QueueOrders} |-> unbond_orders[<<k[1], QueueToken, k[2]>>]],
  ready     <- [u \in Users |-> Record(u, QueueToken).withdrawable_amount],
  mature    <- {<<j[1], j[3]>> : j \in {k \in QueueOrders : k[3] + pools[QueueToken].unbond_period < now}},
  promised  <- IF QueueToken \in DOMAIN pools THEN pools[QueueToken].total_pending_withdraw ELSE 0,
  balance   <- held[QueueToken]

\* The unbond orders of a token, whichever, implement the queue, though bonding, unbonding
\* and claiming rewards pull them too, some at a time, and the period may change under them.
ImplementsQueue == Queue!Spec
=============================================================================
