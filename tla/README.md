# Prism contracts: a TLA+ verification project

The repository holds eight CosmWasm contracts of the Prism protocol on Terra.
This directory models them in TLA+, checks the models with TLC on small
instances and proves, with TLAPS, what must hold for every instance. Seven are
modelled: the vault (`prism-vault`), governance (`prism-gov`), three contracts
that pay rewards on what is bonded with them (`prism-yasset-staking`,
`prism-lp-staking`, `prism-launch-pool`), the last composed with the boost
contract it asks (`prism-xprism-boost`), and the collector of fees
(`prism-collector`).

Contents: [inventory](#inventory), [modules](#modules-and-the-code),
[runs](#runs), [fairness](#fairness), [findings](#findings),
[proofs](#proofs), [not modelled](#what-is-not-modelled), [plan](#plan).

## Inventory

The chain runs one transaction at a time, and a transaction is atomic: a
handler, the messages it emits and the handlers of those messages commit
together, or an error or a panic undoes them all (the release profile keeps
`overflow-checks = true`, so an underflow is a panic). There are no threads.
What is hard here is elsewhere:

- the *order* in which users, administrators and the chain act, over days;
- state that changes without a call: slashing, block time, arriving Luna,
  tokens sent or burnt by their holders;
- values cached in storage (rates, indexes, totals, previous balances) that are
  stale when they are used;
- integer division, which always rounds down, and amounts of zero, which cw20
  tokens refuse to move;
- limits on how much one call processes;
- chains of messages, sub-messages and replies that share storage.

| contract | state it keeps | operations | talks to |
|---|---|---|---|
| `prism-vault` | config, parameters, validator whitelist, exchange rate and total bond, current batch, wait list and history of batches | bond, bond_split, split, merge, unbond, withdraw_unbonded, check_slashing, update_global_index, administration of validators and parameters, airdrops | staking and bank modules, cLuna/yLuna/pLuna tokens, yasset-staking, airdrop registry |
| `prism-gov` | config, withdraw orders and their total, voting deposits and locks, polls with an index by status, the id of the poll in execution | mint, redeem and claim xPRISM, stake, withdraw, create/vote/snapshot/end/execute a poll, update_config | PRISM and xPRISM tokens, whatever contract a poll's message names, itself |
| `prism-yasset-staking` | bonds of yLuna, reward index per asset, pending rewards, whitelist of reward assets | bond, unbond, deposit_rewards, claim, convert_and_claim, process_delegator_rewards and its hooks | vault, gov, collector, boost |
| `prism-lp-staking` | pools with weights and reward indexes, stakers, unbond orders, schedules | register/update pools, bond, unbond, claim | LP tokens, yasset-staking |
| `prism-launch-pool` | two distributions (base and boost), bonds, boost weights, scheduled vests | bond, unbond, boost refresh, withdraw (by the user or a bot), claim, administration | boost, gov, yasset-staking |
| `prism-xprism-boost` | bonded xPRISM and accrued boost per user | bond, unbond, update_config | launch pool |
| `prism-collector` | config | convert_and_send, distribute, swap hook | swap pairs, gov |
| `prism-airdrop-registry` | table of airdrops | add, update, remove, fabricate_claim | vault |

What makes each correct:

- *vault*: every yLuna and pLuna has a cLuna behind it; batches are released
  once, in order and on time; the Luna set aside covers every request; prices
  are taken after losses are known; the bond never runs empty; Luna is delegated
  to whitelisted validators only.
- *gov*: promised PRISM is there, the rate of xPRISM does not fall, the xPRISM
  held is exactly what is owed, a staked token votes once per poll, a poll is
  decided and executed once on the terms it was created with, a failure is
  charged to the poll that failed, and polls and orders do come to their end.
- *staking contracts*: the sum of what stakers can claim never exceeds
  what was deposited or scheduled, totals are the sums of their parts, nothing is
  lost on removal of a record.
- *launch pool and boost*: weights add up and follow the boost, a schedule that is
  restarted pays what the old one would have, vests are paid, the bot reaches
  everyone.
- *collector*: a conversion for others spends nothing of the collector's own and
  keeps nothing of theirs; a distribution leaves nothing behind.

The hazards, each at its line with the properties aimed at it, are in
`PROJECT.json` under `hazards`.

## Modules and the code

| module | models |
|---|---|
| `Decimals` | `Decimal`, `decimal_division`, `SignedInt`: integers over a fixed denominator, rounded down |
| `Vault` | `contracts/prism-vault` |
| `MCVault` | parameters of the vault's instances |
| `Gov` | `contracts/prism-gov` |
| `MCGov` | parameters of governance's instances |
| `YassetStaking` | `contracts/prism-yasset-staking` |
| `MCYasset` | parameters of its instances |
| `LpStaking` | `contracts/prism-lp-staking` |
| `MCLp` | parameters of its instances |
| `XprismBoost` | `contracts/prism-xprism-boost` |
| `LaunchPool` | `contracts/prism-launch-pool`, composed with `XprismBoost` |
| `MCLaunch` | parameters of its instances |
| `Collector` | `contracts/prism-collector` |
| `MCCollector` | parameters of its instance |
| `RedemptionQueue` | abstract: what the delayed withdrawals of gov and lp staking promise |
| `Arithmetic` | lemmas on `Decimals` and on sums of functions over finite sets |
| `VaultProofs` | theorems on `Vault` |
| `QueueProofs` | theorem on `RedemptionQueue` |
| `GovProofs` | theorems on `Gov` |
| `YassetProofs` | theorems on `YassetStaking` |
| `LpProofs` | theorems on `LpStaking` |
| `LaunchProofs` | theorems on `LaunchPool` with `XprismBoost` |
| `CollectorProofs` | theorems on `Collector` |

A handler is one action, named as in the source; its guard is the negation of
its error paths, the panics and the refusals of the cw20, bank and staking
messages it emits included. Wording, attributes, queries and addresses are left
out. Token balances are kept as totals (what exists, what the contract holds),
because holders may move tokens between themselves at any time; a user who sends
tokens needs only that some are in circulation. A definition called `..._xyz`
under a comment that begins with "Mutant" is a variant of the definition that
follows it with a plausible mistake; no specification uses one. Each shows that
the property it is paired with in `PROJECT.json` depends on that line of code.

### Vault

State: `config`, `params`, `validators`; the fields of `State`; `current_batch`,
`unbond_wait_list`, `unbond_history`; the token supplies and the vault's own
cLuna; and the chain's side: block time, the vault's Luna, its delegations, the
Luna unbonding for each batch and the validators a redelegation is arriving at.

- `execute_bond`, `execute_bond_split` (with `_execute_bond`), `split`, `merge`
  and `execute_slashing` translate the handlers of those names. `slashed_bond`
  and `slashed_rate` are what `slashing()` leaves for the handler that called it.
- `execute_unbond` is `unbond_within_epoch` or `unbond_closing_batch`; the second
  also undelegates (`pick_unbond_validator` draws validators down in turn) and
  opens the next batch.
- `execute_withdraw_unbonded` includes `process_withdraw_rate`, which releases
  the matured batches up to the point where its loops stop (`LoopsEndAt`).
- The staking module is external: `SlashDelegation`, `SlashUnbonding`,
  `EndBlock` (which pays the unbondings that are due), `RedelegationCompletes`;
  so are `RogueTransfer` and `HolderBurn`, what anybody may do with Luna and the
  cw20 tokens.
- The validator that serves a bond is the one the caller names or the least
  delegated of the active ones; which are active is the chain's choice.

### Gov

State: `config`; `orders` with `pending_xprism` and `pending_prism`; `deposit`
and `locked_balance` (the bank); `poll`, `poll_indexer`, `poll_voter`,
`last_poll_id`, `tmp_poll_id`; the contract's PRISM, the supply of xPRISM and
the contract's share of it; block time; and `executing`.

- `mint_xprism`, `redeem_xprism`, `claim_redeemed_prism`, `stake_voting_tokens`,
  `withdraw_voting_tokens`, `create_poll`, `end_poll`, `cast_vote`,
  `snapshot_poll`, `OwnerUpdatesConfig` are one action each. A withdrawal also
  cleans up the locks of decided polls, in both stores.
- `execute_poll` is the one handler whose transaction is several steps: it marks
  the poll, stores its id and sends the poll's message as a sub-message that is
  answered only on error. The message may be another ExecutePoll
  (`SubmessageExecutesPoll`), UpdateConfig of the contract by itself
  (`SubmessageUpdatesConfig`) or something for another contract
  (`SubmessageSucceeds`); any of them may fail (`failed_poll`, the reply), for
  want of gas if for nothing else. While `executing` is not 0 no other
  transaction runs. Once a sub-message succeeds, or its failure has been handled
  by the reply, every ExecutePoll around it has succeeded too, so one step ends
  the transaction; and a failed sub-message is rolled back, so it changes nothing
  but what the reply does.
- Messages of a poll that are open to anyone (EndPoll, SnapshotPoll of another
  poll) have the effect of the same call made right after, and are not repeated
  as sub-messages.
- `gifts` counts xPRISM transferred to the contract without a hook, so that
  custody can be stated as an equality.

### YassetStaking

State: owner and fee of the config; `whitelisted_assets`, a list in the code, as
the number of times it has each asset (one removal takes one of them);
`total_bond_amount`, `bond_amounts`, the index of each asset's pool and
`rewards`, per user the entries there are (a missing entry is not an entry of
zero); the contract's tokens (`held`), its Luna, and the vault's total bond, which
`deposit_rewards` queries.

- `bond`, `unbond`, `DepositRewards`, `claim_rewards`,
  `convert_and_claim_rewards`, `whitelist_reward_asset`,
  `remove_whitelisted_reward_asset`, `update_config` are one action each; a
  deposit of several assets is a sequence of deposits of one.
- `process_delegator_rewards` covers the chain of hooks it starts: the market
  swap (its outcome is already in `luna`), the vault's BondSplit, which adds the
  Luna to the vault's bond and mints one of `MintAmounts` (at the vault's own rate,
  so more or less than the Luna), and the deposit of what was minted. LunaToPylunaHook is open to anyone and is the same step.
- In a conversion the collector takes the assets and sends the outcome to the
  claimer, directly or through the xPRISM hook; the model keeps what leaves the
  contract (`SentByConvert`).
- cw20 refuses a transfer of zero, so a deposit of which the collector gets
  nothing (no fee, everything bonded) fails: `kept > 0`.

### LpStaking

State: owner, `distribution_schedule` and `total_weight` of the config; `pools`,
`reward_info`, `unbond_orders`, `staker_by_token` keyed as in the code; the
contract's LP tokens and PRISM; block time. A token is a number, its place in the
order in which `POOLS` lists its keys. `rebonds` and `repriced` are for the
properties: how often a bond has changed, and whether a weight was ever lowered
ahead of a pool whose past was still to be computed.

- `compute_pool_reward` and `compute_staker_reward` translate the functions of
  those names; `Pulled`, `Remaining` and `orders_pending` are the three results of
  `pull_expired_withdraw_orders`, and `Save` is `update_or_remove_staker_rewards`.
- `Bonded` is `bond` of the code; the `Bond` hook and `auto_stake_hook` are the
  two ways to it. `claim_rewards` takes one pool or all of a staker's.
- UpdateStakingToken is `update_weight` and `update_unbond_period`; with both
  fields it is the first followed by the second. The loop of the first goes through
  the pools in key order and changes `total_weight` when it comes to the pool it is
  about: `total_at` is the total each pool is computed with, the old one up to that
  pool and the new one behind it.
- Without any weight a running schedule makes the ratio panic: `Computable`, of a
  pool and the total in force, guards every action that computes a pool.
- PRISM is not itself a staking token in the model, although the code would accept
  it (AutoStakeHook could then stake the rewards).

### XprismBoost and LaunchPool

`XprismBoost` has the boost contract's configuration, its users' bonds and boost,
and the xPRISM it holds. Boost is brought up to date when it is read, so
`GetBoost` is an operator of the state and of block time. `LaunchPool` extends
it: the query, `PrivilegedRefreshBoost` and the bond a claim ends in make the two
one system, and a transaction spans both. State of the pool: the parts of the
configuration that change (schedule, ratio, minimum bond), the two distribution
statuses, `bond_amounts`, `reward_info`, `scheduled_vest` by user and end time,
`pending_withdraw`, the pool's PRISM and its bond at yasset staking, and the
address the last bulk call returned, which the bot passes on.

- `Refresh` is what `bond`, `unbond`, `activate_boost` and the refresh forced by
  `unbond_xprism` have in common: indexes, the user's rewards, the weights, the
  record. The handlers add their guards.
- `Updatable` is that `_update_reward_index` does not panic; it guards every action
  that computes an index.
- `Withdraw(S)` is `_withdraw_rewards_single` for one user (`withdraw_rewards`) or a
  page of them (`withdraw_rewards_bulk`).
- `Claim` with `claim_as_prism`, `claim_as_xprism` or `claim_as_amps` is
  ClaimWithdrawnRewards with the messages and the hook it emits. gov's rate is a
  constant; a mint of nothing fails.
- `update_base_pool_ratio` and `update_min_bond_amount` are the two fields of
  UpdateConfig. `admin_withdraw_rewards` takes yasset staking's rewards, of PRISM
  here, since that is the balance the pool pays from.
- `untold` collects the users whose boost fell while the pool could not be told:
  the boost contract has no pool set, or its rate was lowered.

### Collector

State: the pairs there are on Prismswap and with the base denom on Astroport, the
collector's balances, the messages of the running transaction that are still to be
dispatched, and `tx`, which remembers for the properties what the transaction
began with. `convert_and_send` and `distribute` choose a route for each asset and
queue the messages; each message is a step, because `base_swap_hook` reads the
balance that the ones before it leave. A swap brings any of `Outputs`, and a
Prismswap pair sends its fee, in the asset asked of it, to the collector in the
middle of the transaction. `Revert` stands for a failure of any message. Pairs are
created between transactions.

### RedemptionQueue

What gov's redemptions and lp staking's unbond orders have in common, as an
abstract specification: an order is placed for an amount that tokens are set aside
for, leaves the queue once it is mature and not before the claimant's older
orders, is then ready for the claimant, and is paid in full. `Gov` and
`LpStaking` instantiate it with a refinement mapping and `ImplementsQueue` states
that each of their steps is a step of the queue or leaves it alone. The mapping
keeps gov's `pending_prism` as what is promised and the contract's PRISM as the
balance; for lp staking it is the queue of one staking token, the constant
`QueueToken`, which may be any of them, so that what is shown of it is shown of
each; what is ready is `withdrawable_amount`, and the balance is all the contract
holds of the token, bonds included. When an order matures is left open in the queue: block time
and, in lp staking, the owner decide it.

## Runs

| run | question | properties |
|---|---|---|
| `vault_unbonding` | two users, two batches, slashing of delegations and of unbondings | `BatchLedger`, `ReleaseOrder`, `Solvent`, `PegNotExceeded`, `BondNeverEmpty`, `ReleasedOnceAndFinal`, `WithdrawPaysWhatItRemoves`, `PricedAfterSlashing` |
| `vault_admin` | two administrators, two validators, changing parameters and roles around bonds, splits, merges and burns | `TypeOK`, `RefractBacked`, `DelegatedToWhitelisted` |
| `gov_xprism` | two users mint, redeem and claim, fees arrive, holders burn, the redemption time is shortened | `PrismCustody`, `OrdersWorthClaiming`, `RateNeverFalls`, `ImplementsQueue` |
| `gov_polls` | two users vote on two overlapping polls and withdraw; polls execute polls or reconfigure the contract, sub-messages fail | `TypeOK`, `IndexerAgrees`, `XprismCustody`, `VotesBacked`, `PollLifecycle`, `EveryPollDecided` |
| `yasset_rewards` | two stakers, deposits, both claims, PRISM listed and removed, delegator rewards | `TypeOK`, `RewardsCovered`, `BondingEarnsNothing`, `ClearedLeaves` |
| `lp_staking` | two stakers, two pools, a weight that is raised, a second schedule, more orders than one call takes, tokens without a hook, a changing unbond period | `TypeOK`, `StakesAccountedFor`, `WithinSchedules`, `ClaimsKept`, `ImplementsQueue` |
| `launch_rewards` | two users, both contracts, a ratio that changes while the schedule runs, a pool that is forgotten | `TypeOK`, `WeightsAddUp`, `NoWeightWithoutAmps`, `RunningPoolComputes`, `WithinSchedule`, `NothingLost` |
| `launch_vesting` | more vests than one call takes, the bot's paging, the three claims | `EveryVestPaid`, `BotReachesAll` |
| `collector` | every route, conversions for users and for the collector, fees on the way, failing messages | `ConvertKeepsOwn`, `DistributeSendsAll` |
| `vault_early_luna` | is Luna that arrives early kept for its batch? | `EarlyLunaKept`: violated |
| `yasset_prism` | is every reward that is cleared paid? | `ClearedIsPaid`: violated |
| `lp_reweight` | does a new weight apply from the instant it is set only? | `PastIsFixed`: violated |

The last three check what the source says of itself and the code does not do; see
[findings](#findings).

The state space is finite because of named bounds in the guards: `MaxTime`,
`MaxSupply`, `MaxLuna`, `MaxBatches`, `MaxRequested` (vault), `MaxTime`,
`MaxSupply`, `MaxPrism`, `MaxPolls` (gov), `MaxRebonds`, `MaxIndex`, `MaxListings`,
`MaxVaultBond` (yasset), `MaxTime`, `MaxHeld`, `MaxRebonds`, `MaxSchedules` (lp),
`MaxTime`, `MaxRefreshes`, `MaxXprism` (launch pool), `MaxBalance`, `MaxLength`
(collector).
Amounts come from small sets chosen so
that the divisions do not come out even. `DECIMAL_FRACTIONAL` is 32 (4 in the
staking contracts) instead of 10^9, which keeps TLC's integers small and leaves the relation between the two
precisions as it is in the code. Deadlock is not checked, as a behaviour stops
where time and supply reach their bounds.

Why the bounds are enough to meet the hazards:

- two batches and two users are the least in which a batch waits behind another
  and a user is paid after another; `READ_LIMIT` is 1, so that the limit on the
  wait list is reached. In `vault_unbonding` the Luna of a batch closed in block
  `t` is paid at the end of block `t + 1`, so it is there from the block in which the
  vault's period of two is over, and no withdrawal can come in between; in
  `vault_early_luna` it is there a block earlier (that is the finding). Holders burn
  nothing in `vault_unbonding`, because burning cLuna can lift the rate above the peg without the
  vault's doing and `PegNotExceeded` is about what the vault does.
- the claim limit of `prism-gov` is 1, so that two matured orders need two
  claims; shortening the redemption time from 1 to 0 lets a younger order be
  placed at the maturity of an older one, or before it.
- two polls are the least in which polls overlap, lock different amounts of one
  deposit, and execute each other; quorum and threshold are one half and a vote
  of two tokens can reach, miss or exactly meet the quorum as deposits are burnt
  before or after the snapshot. Two updates are on offer, one of them invalid.
- `yasset_rewards` allows three changes of bonds of one or two yLuna and an index
  of one: the shortest in which a staker joins at an index that is not whole, and
  there the claims do exceed the balance by a unit (see below). The asset that is
  listed and deposited is PRISM, so that a claim in xPRISM meets it.
- `yasset_prism` and `lp_reweight` need one staker's bond, a deposit or a block, and
  one call.
- `lp_staking` lets a pool be registered and reweighted while another has a bond and
  a schedule runs. One call takes one order and two of them can have matured when
  the staker calls. Weights rise from 1 to 3 there; a weight that is lowered
  re-prices the pools behind it, which `lp_reweight` shows, and what still holds
  then is proved for every change of a weight (`ClaimsAreFixed`). Orders of zero are
  not among the inputs: as many of them as one call takes would keep ClaimUnbonded
  from succeeding until some other call pulls them.
- `launch_rewards` allows three refreshes (both users bond and one returns, or one
  bonds, gains boost and loses it), with a schedule of two blocks, so that a ratio changes in its
  middle with weights in both pools; nine units over two blocks and two users do
  not divide. Claims are in `launch_vesting`, where vests mature within the time
  and one call takes one vest.
- `collector` has one asset for each route: the base denom, PRISM, one with
  Prismswap pairs and one on Astroport, in lists of up to two, with zero amounts.
  Base denom can be an input, be sent along unlisted, arrive from a swap, arrive as
  a fee and be the destination.

## Fairness

Most runs check safety only, the refinement included. `gov_polls` and
`launch_vesting` use `FairSpec`:

- `WF(EndBlock)`: blocks keep coming;
- `WF(Dispatch)`: a transaction that has begun ends (the chain does not leave a
  sub-message undelivered);
- `WF(EndPollOf(p))` for each poll: EndPoll takes no argument and no privilege,
  and somebody wants the outcome or the deposit;
- `WF(withdraw_rewards_bulk(OPERATOR, BulkLimit))`: the operator is a bot ("usually a
  bot", `state.rs`) that calls daily (the comment on `MAX_UPDATE_VEST_PER_TX`);
- `WF(claim_as_prism(u))`: who has vested rewards claims them.

No fairness is assumed of voting, minting, snapshots, executing polls, bonding or
administration. What the liveness properties then say is that nothing the others
do can keep these calls from succeeding or from getting where they should: no
missing snapshot, no shortage in the balance a deposit is paid from, no number of
vests, no record that appears or disappears under the bot. They speak of polls and
vests whose time comes within `MaxTime`.

## Findings

Three statements of the source are not kept by the code. Each has a run that shows
it, and the properties of the passing runs are worded around it.

`vault_early_luna` (`unbond.rs:303`). The comment says that
`actual_unbonded_amount` is stored "for future new batches release"; the code
sets it to zero. Luna of batch 2 that arrives before a withdrawal releases
batch 1 is paid to batch 1 as a surplus, or passes into `prev_vault_balance`;
when batch 2 is released there is none left to count and its users are paid
next to nothing. It takes an unbonding time of the chain that is shorter than
the vault's period, by however little, and a withdrawal that succeeds between the
arrival of a batch's Luna and the end of the period for that batch.

`yasset_prism` (`rewards.rs:235`). `convert_and_claim_rewards` is there to "convert
all rewards into claim_asset_info and then claim those rewards" (`rewards.rs:156`).
A claim in xPRISM first swaps everything to PRISM. Rewards that are PRISM already
are set to zero and skipped ("nothing to do"); the hook mints xPRISM from the change
of the balance, which they are not part of, so they stay in the contract and are
owed to nobody. `ClearedIsPaid` says that what a step clears has left the contract,
and is violated by a bond, the listing of PRISM, a deposit and that claim.
`ClearedLeaves`, which holds, excepts PRISM in a step that is a claim in xPRISM and
nothing else.

`lp_reweight` (`handle.rs:149`). UpdateStakingToken means to "update all pools
rewards so that the new weight is only applied to all pools from this instant"
(`handle.rs:133`), but changes `config.total_weight` within the loop, so that the
pools behind the changed one have their past computed with the new total
(`handle.rs:543`). With two pools of weight 1, lowering the first to 0 gives the
second all that was released since it was last computed, beside the half that the
first has just been given: more than the schedule, which others' rewards pay for.
Raising a weight gives the pools behind less than they earned, and a total that
becomes zero panics there. `PastIsFixed` is violated; `ClaimsKept` says the same but
for the stale pools behind a changed weight, and `WithinSchedules` holds until a
weight is lowered ahead of one (`repriced`).

More observations came up, which the properties are worded around and which are
listed as hazards:

- One unit more than expected in the vault makes `checked_sub(1)` fail on a share
  of the surplus that rounds to zero, and with it every withdrawal while the surplus
  is so small (`unbond.rs:278`; "Use signed integer in case of some rogue
  transfers").
- A staker accrues an asset from the first call after it was whitelisted, but is in
  the total its deposits are divided by from the start (`rewards.rs:353`). What
  stakers who have not called since would have got cannot be claimed by anyone.
- In the launch pool a change of `base_pool_ratio` after the end of the schedule
  changes no schedule, so that one of the two pools has distributed more than its
  new share, and the unchecked subtraction of `_update_reward_index`
  (`contract.rs:495`) panics in every call from then on, `Unbond` and a second change
  of the ratio included ("users can unbond their tokens at any time without penalty",
  the contract's README). `RunningPoolComputes` shows that it cannot happen before
  the end. A schedule whose start is its end divides by zero (`contract.rs:493`).
- While the boost contract has no `launch_pool_contract`, or after its rate is
  lowered, users keep a weight their boost no longer justifies until somebody
  refreshes it; a lower rate also applies to time not yet accumulated.
- A Prismswap fee in the base denom that arrives during a conversion with a hook is
  passed on to the receiver of the conversion (`ConvertKeepsOwn` allows it).
- An asset that has a PRISM pair on Prismswap is not looked for on Astroport, even
  where PRISM has no pair with the destination (`contract.rs:349` of the collector).

A batch of the vault that is worth zero
is closed, although one worth a single unit is refused ("Burn amount must be
greater than 1 micro unit", `unbond.rs:74` tests `== 1`); released alone it divides
by zero, released with another one after a loss, `SignedInt`'s magnitude of 0 - 1
pays it a unit that is not there, so `Solvent` speaks of states in which every
released batch was worth something. With no xPRISM left and fees arriving, minting
computes zero for ever (`xprism.rs:41`). A passed poll may spend the tokens that
back deposits and redemptions (`polls.rs:222`). In the staking contracts a reward
is the difference of two products rounded down, and starts anew when the bond
changes: a staker can gain up to one unit each time, so the claims can exceed what
is there by that much and the last claim fails until more is deposited
(`RewardsCovered`, `WithinSchedules` and `WithinSchedule` bound it by the number of bond changes; in
yasset staking, yLuna rewards and bonds share a balance). An asset that is removed
and whitelisted again pays old entries at the new bond (`rewards.rs:405`). A total
weight of zero under a running schedule stops lp staking for good
(`handle.rs:543`).

## Proofs

The theorems hold for every set of users, validators, tokens and polls, every
choice of parameters and amounts, every precision of `Decimal`, and whatever the
values of the bounds that make the runs finite. The named assumptions
(`VaultAssumption`, `GovAssumption`, `YassetAssumption`, `LpAssumption`,
`LaunchAssumption`, `BoostAssumption`, `CollectorAssumption`,
`FractionalAssumption`) ask that constants have their types, that the sets which are summed over are finite, that the
configuration the contract is instantiated with passes its own validation, that
what the code divides by or refuses at zero is not zero, and that distinct tokens
and addresses are distinct; the launch pool's also asks that the owner funded the
schedule. TLC evaluates them in every run. Every theorem is about `Spec` as it is,
but for two on the vault, `PegHolds` and `ReleasedIsFunded`: what they say is not
true of every run of the code, and their statements name the steps that must not
happen.

### Vault (`VaultProofs`)

- `TypeCorrect`: `Spec => []TypeOK`. Needs that no subtraction the actions make
  goes below zero and that the sums, rates and releases computed on the way are
  naturals.
- `RefractAlwaysBacked`: `Spec => []RefractBacked`, inductive together with
  `TypeOK`.
- `SomethingStaysBonded`: `Spec => []BondNeverEmpty`. Not inductive by itself:
  that an unbond leaves something bonded depends on the cLuna the vault was
  instantiated with, which nobody can send to Unbond. The invariant is
  `BondInv == TypeOK /\ RefractBacked /\ BondNeverEmpty`: by `RefractBacked` the
  cLuna that can be requested is less than all there is, so a closed batch claims
  less than the whole bond (`ClaimBelowBond`, from `ShareBelow` of
  `Arithmetic`), and draining the validators in turn leaves the difference
  (`DrainedSum`).
- `SlashingBeforePricing`: `Spec => PricedAfterSlashing`, from the same
  invariant and the same step lemmas (`BondEffect`, `UnbondEffect`).
- `ReleasedInOrder`: `Spec => []ReleaseOrder`, and from it `ReleasesAreFinal`:
  `Spec => ReleasedOnceAndFinal`. Where the loops of `process_withdraw_rate` stop
  is a batch that is not mature or that nobody has closed; because batches close in
  time order, nothing mature lies behind it.
- `WithdrawalsPayInFull`: `Spec => WithdrawPaysWhatItRemoves`.
- `LedgerAgrees`: `Spec => []BatchLedger`: each batch's total changes by what one
  user's entry changes by (`SumUpdate` of `Arithmetic`).
- `OnlyWhitelistedDelegated`: `Spec => []DelegatedToWhitelisted`.
- `PegHolds`: `Spec /\ [][BurnsAreUnbonds /\ PreciseClosing]_vars => []PegNotExceeded`.
  The two hypotheses are what the code depends on and does not enforce. The cLuna
  token lets a holder burn its own, which lifts the rate of the rest above one
  (`BurnsAreUnbonds` says that only `execute_unbond` burns). And a closed batch of
  `n` cLuna beside `s` left takes `n * rate` off the bond, both roundings down: when
  `n * (s + n) > ONE * s` it can take a unit too few (`PreciseClosing` excludes it; with
  18 digits, a batch of 10^15 units would have to leave about a thousandth of that
  or less). The invariant
  `PegInv` adds `exchange_rate <= ONE` to the peg: a bond then mints at least what
  it pays, and what its fee withholds is capped by the deficit (`BondInv` gives the
  types and the bond that is never empty).
- `ReleasedIsFunded`: `Spec /\ [][ReleaseCovered]_vars => []Solvent`. `ReleaseCovered`
  says of a withdrawal that releases batches that Luna has arrived since the last
  one, and that the loss it finds times the number of batches is at most `ONE`.
  Without the first, the difference of a batch's value and its share of the loss is
  negative by the unit that is added to the share, and its magnitude is paid; without the second,
  the shares' rounding is worth more than the unit that is added to each. The
  argument: `Owed`, summed by user, is summed by batch instead (`OwedByBatch`), and
  with `BatchLedger` a batch owes at most its total at its rate, which is at most
  what it was given (`BatchPaysWithin`). Shares of a surplus sum to at most the surplus
  (`SurplusShared`), shares of a loss, with their unit, to at least the loss
  (`LossShared`), so the released batches are given at most what arrived
  (`ReleaseFits`), and a withdrawal takes off exactly what it pays
  (`WithdrawOwes`). The invariant has `Untouched`: a batch that is not released
  still has the rate it was closed with, and `actual_unbonded_amount` is zero, the
  reset that the finding is about.

The three hypotheses hold at every step of the `vault_unbonding` instance, in
which batches are released at par and after a loss.

### Governance (`GovProofs`)

- `TypeCorrect`: `Spec => []TypeOK`. The invariant is
  `TypeInv == TypeOK /\ LocksFinite /\ BalanceInSupply /\ StoredIdCurrent`: a burn
  must find its tokens in the supply, a withdrawal subtracts the largest of
  finitely many locks, and the reply reads the id that the innermost ExecutePoll
  stored.
- `IndexFollowsStatus`: `Spec => []IndexerAgrees`, and `PollsDecidedOnce`:
  `Spec => PollLifecycle`. `PollInv` adds `DispatchedIsExecuted`: while a
  sub-message is out, the poll whose id is stored is marked as executed, so that the
  reply moves that poll and no other from one status to the other. The depth of
  polls that execute polls is not bounded.
- `XprismOwedIsHeld`: `Spec => []XprismCustody`, an equality of four sums.
- `RedemptionsPayable`, `RedemptionsWorthClaiming` and `XprismOnlyAppreciates`:
  `PrismCustody`, `OrdersWorthClaiming` and `RateNeverFalls`. The first two are
  inductive together only (`ExchangeInv`): that the pool has at least as much PRISM
  as xPRISM carries the custody through a redemption, and the custody carries it
  through a claim. The third follows from them with the cross-multiplied forms of
  the two roundings.
- `VotesStayBacked`: `Spec => []VotesBacked`, at most one lock of a voter on a poll
  included: whoever has a lock on an open poll is among its voters, whom `cast_vote`
  refuses. `VotesInv` adds `LocksNamePolls`: no lock names a poll that does not exist
  yet, and nobody has voted on one, so that a poll starts with no votes behind it.
- `RedemptionsImplementQueue`: `Spec => ImplementsQueue`, the refinement: a redeem
  is a placing, a claim collects and pays a prefix of the mature orders, everything
  else leaves the queue alone or brings tokens.

### Yasset staking (`YassetProofs`)

- `TypeCorrect`, with no entry ahead of its pool and the fee within its limit.
- `BondsAndRewardsCovered`: `Spec => []RewardsCovered`. The rewards of the property
  are rounded down for each staker, and such sums cannot be followed step by step:
  a deposit may move each of them by its own fraction. The invariant `RewardInv`
  has `CoveredFor(a)`, which counts what stakers have earned in units of `1/ONE`,
  unrounded, and is exact under a deposit; a change of a bond adds less than a unit
  to it (`RebondEarned`), which is the unit per change that the property allows.
  It also has that the total bond is the sum of the bonds (`BondsAddUp`) and that an
  asset that was never listed has an index of zero (`IdleIndexes`).
- `BondingMovesNoRewards`: `Spec => BondingEarnsNothing`; `ClearedRewardsLeave`:
  `Spec => ClearedLeaves`, with the PRISM of a claim in xPRISM as the exception that
  the finding is about.

### Lp staking (`LpProofs`)

- `TypeCorrect`, with no subtraction of the reward computations failing, and
  `StakesAreAccountedFor`: `Spec => []StakesAccountedFor`. The invariant `LpInv` adds
  to the types that the orders are finitely many, that `total_weight` is the sum of
  the pools' weights, that each order has the staker's record beside it and each
  record its entry in `staker_by_token`. Without the last two a claim could remove a
  record that an order still needs.
- `UnbondingImplementsQueue`: `Spec => ImplementsQueue`: `pull_expired_withdraw_orders`
  takes a prefix of the staker's oldest expired orders whichever call it is part of,
  and what it takes is what `withdrawable_amount` grows by.
- `ClaimsAreFixed`: `Spec => ClaimsKept`. The core is that a pool that was brought up
  to now gains nothing when it is computed again, whatever the total
  (`SameAtAnyTotal`), that a change of a weight brings the pool and those ahead of it
  up to now under the total it is about to replace, and that a new schedule has
  released nothing by now. Of a stale pool behind the changed one nothing is said.
- `SchedulesCoverRewards`: `Spec => []WithinSchedules`. The property's rewards are
  rounded for each staker and each schedule; the invariant `Books` is not. On one side
  it counts what was paid and the worth of every record in units of `1/ONE`,
  unrounded, with what waits in the pools; on the other `Booked(s)`, what a schedule
  has released less the time that some pool has not counted yet, at that pool's
  rate. The rates of all pools together are at most the schedule's (the weights add up,
  in `LpInv`), so bringing a pool up to now adds no more to the pool than it takes
  from the uncounted part, in whatever order and however often the pools are
  brought up. A new pool finds nothing uncounted and a new schedule has released
  nothing. A change of a weight
  counts the pools behind it at the new total; a weight that is raised lowers their
  rates (`RatioFalls` of `Arithmetic`), so they get no more than they had open, and a
  weight that is lowered with no stale pool behind it changes nothing. The invariant
  is therefore `BooksKept`: `repriced`, or `Books`.

### Launch pool and boost (`LaunchProofs`)

- `TypeCorrect`; `WeightsAlwaysAddUp`: `Spec => []WeightsAddUp`; `WeightNeedsAmps`:
  `Spec => []NoWeightWithoutAmps`. The invariant is `Inv == PoolInv /\ BoostInv`:
  the weights are sums of the users' weights and follow from bond and boost, and
  boost is within its limit and never falls by the passing of time (`BoostGrows`), so
  that a weight granted earlier is still justified.
- `RunningPoolNeverStops`: `Spec => []RunningPoolComputes`. Follows from `WithinDue`:
  while the schedule runs, neither pool has distributed more than its ratio's share of
  the elapsed part, which a change of the ratio restores by restarting the schedule.
- `NoRewardLost`: `Spec => NothingLost`.
- `ScheduleCoversRewards`: `Spec => []WithinSchedule`. The invariant is `Books` with
  `WithinDue`: what was claimed, has accrued (in units of `1/ONE`), vests and waits in
  the two pools is at most what the pools have distributed, with two units for each
  change of a weight; and what they have distributed is at most what is due. A change
  of the ratio takes what was distributed out of the schedule's amount and out of
  both totals at once, which leaves the difference that `Books` is about.

### Collector (`CollectorProofs`)

`ConvertKeepsOwnTheorem`: `Spec => []ConvertKeepsOwn`; `DistributeSendsAllTheorem`:
`Spec => []DistributeSendsAll`. Both speak of the end of a transaction; the invariant
`CollectorInv` (`CollectorInvariant`) says in the middle of one what the messages
ahead will make of the balances. `Balanced`: of each asset, the balance with what
these messages bring and without what they take is the collector's own and the fees
it has received; of the base denom, while the hook is ahead, nothing is said before
the hook has run. `HookLast`: the hook is the last message, with the collector's
own base denom, in a distribution nothing, as the floor it leaves, and a swap on Astroport has the
hook behind it. `DistributePrism`: a distribution ends in PRISM and away from the
collector. What a list of messages carries is a relation (`Carry`), a total over
the list that each message dispatched takes its part from, because a list's sum by a
recursive operator could not be reasoned about.

### The queue (`QueueProofs`) and the lemma modules

`QueueBacked`: for any finite set of claimants, any amounts and any number of orders,
`Spec => []Backed` of `RedemptionQueue`: what is recorded as promised is the sum of
the open orders and of what is ready, and the tokens are there. It needs that the
orders are finitely many, so the invariant is `QueueInv`, `Backed` with the types and
that finiteness. Sums over orders are taken apart by claimant (`SumByOwner`): what
leaves the queue is what the claimants' shares grow by. With the two refinements,
which are proved, it says of gov and of lp staking that whoever claims last is still
paid.

`Arithmetic` is shared by all of them. It derives what they need of
`SumFunctionOnSet`, a fold whose value is a `CHOOSE` of a recursive function: that
the function exists and is unique, and then that a sum is a natural, splits, adds
up, swaps and changes with one argument. And it holds the arithmetic of `Decimals`:
bounds of a quotient, monotonicity, that a ratio falls as its denominator grows, and
that a share taken of a total, rounded twice, stays below the total.

### Only model-checked

- The liveness properties (`EveryPollDecided`, `EveryVestPaid`, `BotReachesAll`):
  fairness and ENABLED are out of the prover's reach.
- `Solvent` and `PegNotExceeded` without the hypotheses of `ReleasedIsFunded` and
  `PegHolds`. They are not true for every value of the constants, for the reasons
  given there; the run shows them on an instance where the hypotheses hold.

Every other property of the passing runs is stated by a theorem.

## What is not modelled

- Queries, attributes and error texts: they change nothing.
- The vault's `update_global_index`, reward withdrawal and airdrop handlers: they
  emit messages whose effects are in other contracts. `process_delegator_rewards`
  and `DepositRewards` of `YassetStaking` are where they arrive.
- The airdrop registry: a table its owner edits and `FabricateClaim` looks up. Each
  handler tests for an entry and writes it; there is nothing that two of them in
  some order could break.
- Migrations.
- `poll_gas_limit`, poll titles and links; who created a poll (the refund reaches
  some holder).
- Sizes of integers: amounts are naturals. A `u128` overflow is a panic, hence a
  failed transaction, at supplies far from any real one.
- Messages of polls that move the contract's own tokens.
- Instantiation of the tokens as separate steps: it completes within the first
  transaction.
- Prismswap, Astroport, the staking and market modules and the cw20 contracts: they
  are external, as the code in this repository uses them.

## Plan

The modules, runs and theorems above are what was planned, in the order vault,
governance, staking contracts, launch pool with boost, collector. What could follow:

1. The hazards without a property (`unbond.rs:278`, `unbond.rs:74`, `xprism.rs:41`,
   `rewards.rs:353` and `405`, `handle.rs:543`, the launch pool's `contract.rs:495`
   and the collector's `contract.rs:349`): each needs a decision about what the code
   ought to do there before a property can say it.
2. Rewards from the validators to `YassetStaking`: the vault's `update_global_index` and
   `process_delegator_rewards`, composed with `DepositRewards`.
3. The liveness properties on larger instances; proofs of them need another prover.
