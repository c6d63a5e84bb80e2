----------------------------- MODULE XprismBoost -----------------------------
(***************************************************************************)
(* contracts/prism-xprism-boost: xPRISM is bonded to accrue boost (AMPS)   *)
(* over time, up to a maximum per xPRISM.  Unbonding any amount loses all  *)
(* of it.  Boost is brought up to date when it is read.                    *)
(***************************************************************************)
EXTENDS Decimals, FiniteSets, Functions

CONSTANTS
  Users,              \* addresses, numbered in the order of their keys
  BoostOwners,        \* addresses that may ever own the boost contract
  HOUR,               \* 3600 seconds, in units of the model's time
  MAX_BOOST_PER_HOUR,
  InitBoostConfig,    \* the configuration instantiate stores
  BoostUpdates,       \* the updates an owner may ask for, by field
  MaxXprism           \* bound: the xPRISM the boost contract may hold

VARIABLES
  boost_config,       \* CONFIG
  user_info,          \* USER_INFO
  xprism_held,        \* the contract's xPRISM
  now                 \* block time

boostVars == <<boost_config, user_info, xprism_held>>

\* launch_pool_contract is the launch pool or unset.
BoostConfig == [owner: BoostOwners, boost_per_hour: Nat, max_boost_per_xprism: Nat,
                launch_pool_contract: BOOLEAN]

\* boost_accrual_start_time is stored for display only.
UserInfo == [amt_bonded: Nat, total_boost: Nat, last_updated: Nat]

Merge(c, update) == [f \in DOMAIN c |-> IF f \in DOMAIN update THEN update[f] ELSE c[f]]

ASSUME BoostAssumption ==
  /\ Users \subseteq Nat \ {0} /\ IsFiniteSet(Users)
  /\ HOUR \in Nat \ {0} /\ MAX_BOOST_PER_HOUR \in Nat /\ MaxXprism \in Nat
  /\ InitBoostConfig \in BoostConfig
  /\ InitBoostConfig.boost_per_hour <= MAX_BOOST_PER_HOUR
  /\ \A update \in BoostUpdates : Merge(InitBoostConfig, update) \in BoostConfig

BoostInit ==
  /\ boost_config = InitBoostConfig
  /\ user_info = [u \in {} |-> 0]
  /\ xprism_held = 0

-----------------------------------------------------------------------------
\* _accumulate_boost
accumulate_boost(info) ==
  LET new_boost == mul(mul(info.amt_bonded, boost_config.boost_per_hour),
                       from_ratio(now - info.last_updated, HOUR))
      max_boost == info.amt_bonded * boost_config.max_boost_per_xprism
  IN  IF info.amt_bonded > 0 /\ now > info.last_updated
      THEN [info EXCEPT !.total_boost = smaller(@ + new_boost, max_boost),
                        !.last_updated = now]
      ELSE info

\* GetBoost, of the infos of this or of the next state
GetBoost(infos, u) ==
  IF u \in DOMAIN infos THEN accumulate_boost(infos[u]).total_boost ELSE 0

\* Bond, by the user or for the user
boost_bond(u, amount) ==
  LET info == IF u \in DOMAIN user_info THEN accumulate_boost(user_info[u])
              ELSE [amt_bonded |-> 0, total_boost |-> 0, last_updated |-> now]
  IN  /\ amount > 0
      /\ xprism_held + amount <= MaxXprism
      /\ user_info' = [v \in DOMAIN user_info \cup {u} |->
                         IF v = u THEN [info EXCEPT !.amt_bonded = @ + amount]
                         ELSE user_info[v]]
      /\ xprism_held' = xprism_held + amount
      /\ boost_config' = boost_config

info_after_partial_unbond(u, amount) ==
  [amt_bonded |-> user_info[u].amt_bonded - amount, last_updated |-> now, total_boost |-> 0]

\* Unbond, without the call to the launch pool; cw20 refuses to transfer zero
boost_unbond(u, amount) ==
  /\ u \in DOMAIN user_info
  /\ 0 < amount /\ amount <= user_info[u].amt_bonded /\ amount <= xprism_held
  /\ user_info' =
       IF amount = user_info[u].amt_bonded
       THEN Restrict(user_info, DOMAIN user_info \ {u})
       ELSE [user_info EXCEPT ![u] = info_after_partial_unbond(u, amount)]
  /\ xprism_held' = xprism_held - amount
  /\ boost_config' = boost_config

max_boost_update_ok(update) ==
  "max_boost_per_xprism" \in DOMAIN update =>
    update.max_boost_per_xprism > boost_config.max_boost_per_xprism

update_boost_config(sender, update) ==
  /\ sender = boost_config.owner
  /\ "boost_per_hour" \in DOMAIN update => update.boost_per_hour <= MAX_BOOST_PER_HOUR
  /\ max_boost_update_ok(update)
  /\ boost_config' = Merge(boost_config, update)
  /\ UNCHANGED <<user_info, xprism_held>>

-----------------------------------------------------------------------------
BoostTypeOK ==
  /\ boost_config \in BoostConfig
  /\ DOMAIN user_info \subseteq Users /\ user_info \in [DOMAIN user_info -> UserInfo]
  /\ xprism_held \in Nat
=============================================================================
