---------------------------- MODULE YassetStaking ----------------------------
(***************************************************************************)
(* contracts/prism-yasset-staking: yLuna is bonded; whitelisted tokens     *)
(* deposited as rewards are shared among the bonds through one growing     *)
(* index per token; delegator rewards in Luna are turned into pLuna and    *)
(* yLuna by the vault and deposited the same way.  Rewards are claimed as  *)
(* they are or converted by the collector.                                 *)
(*                                                                         *)
(* A handler, with the hooks it sends to itself, is one action: all of it  *)
(* commits or none.  yLuna is a reward as well as the bonded token, so one *)
(* balance serves both.                                                    *)
(***************************************************************************)
EXTENDS Decimals, FiniteSets, Functions

CONSTANTS
  Users,         \* the stakers
  Owners,        \* addresses that may ever own the contract
  InitOwner,
  Assets,        \* the cw20 tokens around the contract
  YLUNA, PLUNA, CLUNA, PRISM, XPRISM,
  InitFee,       \* the protocol fee of the instantiate message
  FeeChoices     \* the fees an owner may ask for

CONSTANTS        \* bounds of a model and the inputs it draws from
  MaxRebonds, MaxIndex, MaxListings, MaxVaultBond, InitVaultBond,
  BondAmounts, UnbondAmounts, DepositAmounts, LunaAmounts, MintAmounts, VaultBonds,
  Listable, Depositable, ClaimAssets

\* validate_protocol_fee: at most one half
MAX_PROTOCOL_FEE == ONE \div 2

\* verify_claim_asset
verify_claim_asset == {PRISM, XPRISM, CLUNA, YLUNA, PLUNA}

ASSUME YassetAssumption ==
  /\ IsFiniteSet(Users) /\ InitOwner \in Owners
  /\ verify_claim_asset \subseteq Assets /\ Listable \subseteq Assets
  /\ Depositable \subseteq Assets
  /\ YLUNA # PLUNA /\ PRISM # XPRISM
  /\ InitFee \in 0..MAX_PROTOCOL_FEE /\ FeeChoices \subseteq Nat
  /\ MaxRebonds \in Nat /\ MaxIndex \in Nat /\ MaxListings \in Nat
  /\ MaxVaultBond \in Nat /\ InitVaultBond \in Nat \ {0}
  /\ BondAmounts \subseteq Nat \ {0} /\ UnbondAmounts \subseteq Nat \ {0}
  /\ DepositAmounts \subseteq Nat \ {0} /\ LunaAmounts \subseteq Nat \ {0}
  /\ MintAmounts \subseteq Nat \ {0}
  /\ VaultBonds \subseteq Nat \ {0} /\ ClaimAssets \subseteq Assets

VARIABLES
  owner, protocol_fee,   \* CONFIG (the other fields are fixed addresses)
  whitelisted_assets,    \* WHITELISTED_ASSETS: how often the list has an asset
  total_bond_amount, bond_amounts,
  pool_info,             \* POOL_INFO: the reward index of each asset
  rewards,               \* REWARDS: per user, the entries there are
  \* the contract's tokens and Luna, and the vault's total_bond_amount
  held, luna, vault_bond,
  \* for the properties: the bonds and unbonds so far, the assets ever removed
  rebonds, removed

configVars == <<owner, protocol_fee, whitelisted_assets, removed>>
bondVars   == <<total_bond_amount, bond_amounts, rebonds>>
outerVars  == <<luna, vault_bond>>
vars == <<configVars, bondVars, pool_info, rewards, held, outerVars>>

RewardInfo == [index: Nat, pending_reward: Nat]
Nobody == [x \in {} |-> 0]

\* instantiate
Init ==
  /\ owner = InitOwner
  /\ protocol_fee = InitFee
  /\ whitelisted_assets = [a \in Assets |-> IF a \in {PLUNA, YLUNA} THEN 1 ELSE 0]
  /\ total_bond_amount = 0
  /\ bond_amounts = Nobody
  /\ pool_info = [a \in Assets |-> 0]
  /\ rewards = [u \in Users |-> Nobody]
  /\ held = [a \in Assets |-> 0]
  /\ luna = 0
  /\ vault_bond = InitVaultBond
  /\ rebonds = 0
  /\ removed = {}

Whitelisted == {a \in Assets : whitelisted_assets[a] > 0}

\* bond_amounts with the default of bond
bonded(u) == IF u \in DOMAIN bond_amounts THEN bond_amounts[u] ELSE 0

-----------------------------------------------------------------------------
\* compute_asset_rewards: without an entry, what was paid before does not count
compute_asset_rewards(u, a) ==
  [index |-> pool_info[a],
   pending_reward |->
     IF a \notin DOMAIN rewards[u] THEN 0
     ELSE rewards[u][a].pending_reward
            + (mul(bonded(u), pool_info[a]) - mul(bonded(u), rewards[u][a].index))]

Pending(u, a) == compute_asset_rewards(u, a).pending_reward

\* Mutant: entries are made for new assets only.
compute_all_rewards_new_only(u) ==
  [a \in DOMAIN rewards[u] \cup Whitelisted |->
     IF a \in DOMAIN rewards[u] THEN rewards[u][a] ELSE compute_asset_rewards(u, a)]

\* compute_all_rewards: every whitelisted asset is brought up to its index
compute_all_rewards(u) ==
  [a \in DOMAIN rewards[u] \cup Whitelisted |->
     IF a \in Whitelisted THEN compute_asset_rewards(u, a) ELSE rewards[u][a]]

\* the Bond hook, sent with yLuna
bond(u, amount) ==
  /\ rebonds < MaxRebonds
  /\ rewards' = [rewards EXCEPT ![u] = compute_all_rewards(u)]
  /\ total_bond_amount' = total_bond_amount + amount
  /\ bond_amounts' = [v \in DOMAIN bond_amounts \cup {u} |->
                        bonded(v) + (IF v = u THEN amount ELSE 0)]
  /\ held' = [held EXCEPT ![YLUNA] = @ + amount]
  /\ rebonds' = rebonds + 1
  /\ UNCHANGED <<configVars, pool_info, outerVars>>

\* Unbond of an amount or, without one, of the whole bond: paid at once
unbond(u, amount) ==
  /\ rebonds < MaxRebonds
  /\ u \in DOMAIN bond_amounts
  /\ amount > 0 /\ amount <= bond_amounts[u] /\ amount <= total_bond_amount
  /\ amount <= held[YLUNA]
  /\ rewards' = [rewards EXCEPT ![u] = compute_all_rewards(u)]
  /\ total_bond_amount' = total_bond_amount - amount
  /\ bond_amounts' = [bond_amounts EXCEPT ![u] = @ - amount]
  /\ held' = [held EXCEPT ![YLUNA] = @ - amount]
  /\ rebonds' = rebonds + 1
  /\ UNCHANGED <<configVars, pool_info, outerVars>>

-----------------------------------------------------------------------------
\* deposit_rewards: the part of the Luna in the vault whose yLuna is bonded here
stakers_portion(bonded_in_vault) ==
  IF total_bond_amount = 0 THEN 0
  ELSE smaller(from_ratio(total_bond_amount, bonded_in_vault), ONE)

\* and what is left of it after the protocol fee
reward_amount(amount, portion) ==
  mul(amount, portion) - mul(mul(amount, portion), protocol_fee)

\* deposit_rewards of an amount of each of the assets, which the sender has
\* transferred: the collector gets the difference, and cw20 refuses one of zero
deposit_rewards(assets, amount, bonded_in_vault) ==
  LET portion == stakers_portion(bonded_in_vault)
      reward == reward_amount(amount, portion)
      kept == amount - reward
  IN  /\ assets \subseteq Whitelisted
      /\ total_bond_amount > 0 => bonded_in_vault > 0
      /\ kept > 0
      /\ pool_info' = [a \in Assets |->
           IF a \in assets /\ total_bond_amount # 0
           THEN pool_info[a] + from_ratio(reward, total_bond_amount) ELSE pool_info[a]]
      /\ held' = [a \in Assets |-> IF a \in assets THEN held[a] + reward ELSE held[a]]
      /\ \A a \in assets : pool_info'[a] <= MaxIndex

DepositRewards(a, amount) ==
  /\ deposit_rewards({a}, amount, vault_bond)
  /\ UNCHANGED <<configVars, bondVars, rewards, outerVars>>

\* process_delegator_rewards with luna_to_pyluna_hook, the vault's BondSplit, which
\* mints at its own rate, more or less than the Luna it gets, and
\* deposit_minted_pyluna_hook.  The first hook is open to anyone and does the same.
process_delegator_rewards ==
  /\ luna > 0
  /\ vault_bond + luna <= MaxVaultBond
  /\ \E minted \in MintAmounts : deposit_rewards({YLUNA, PLUNA}, minted, vault_bond + luna)
  /\ luna' = 0
  /\ vault_bond' = vault_bond + luna
  /\ UNCHANGED <<configVars, bondVars, rewards>>

-----------------------------------------------------------------------------
\* Mutant: what was paid stays pending.
Paid_still_pending(info) == info

\* both claims: the pending reward is reset and the index saved
Paid(info) == [info EXCEPT !.pending_reward = 0]

claim_rewards(u) ==
  /\ u \in DOMAIN bond_amounts
  /\ \A a \in Whitelisted : Pending(u, a) <= held[a]
  /\ rewards' = [rewards EXCEPT ![u] =
       [a \in DOMAIN @ \cup Whitelisted |->
          IF a \in Whitelisted THEN Paid(compute_asset_rewards(u, a)) ELSE @[a]]]
  /\ held' = [a \in Assets |-> IF a \in Whitelisted THEN held[a] - Pending(u, a) ELSE held[a]]
  /\ UNCHANGED <<configVars, bondVars, pool_info, outerVars>>

\* Mutant: an asset that needs no swap is not sent either.
SentByConvert_swapped_only(dest, claimed) == claimed \ {dest}

\* the cleared assets that leave the contract: to the claimer or the collector,
\* but not those in the asset a claim of xPRISM swaps to
SentByConvert(dest, claimed) ==
  IF dest = XPRISM THEN claimed \ {PRISM} ELSE claimed

\* convert_and_claim_rewards.  The collector sends the outcome to the claimer, or
\* here for mint_xprism_claim_hook to pass on; a swap may fail.
convert_and_claim_rewards(u, dest) ==
  LET claimed == {a \in Whitelisted : Pending(u, a) > 0}
      sent == SentByConvert(dest, claimed)
  IN  /\ u \in DOMAIN bond_amounts
      /\ dest \in verify_claim_asset
      /\ \A a \in sent : Pending(u, a) <= held[a]
      /\ rewards' = [rewards EXCEPT ![u] =
           [a \in DOMAIN @ |->
              IF a \in claimed THEN Paid(compute_asset_rewards(u, a)) ELSE @[a]]]
      /\ held' = [a \in Assets |-> IF a \in sent THEN held[a] - Pending(u, a) ELSE held[a]]
      /\ UNCHANGED <<configVars, bondVars, pool_info, outerVars>>

-----------------------------------------------------------------------------
\* the list may come to hold an asset twice; one removal takes one of them
whitelist_reward_asset(sender, a) ==
  /\ sender = owner
  /\ whitelisted_assets[a] < MaxListings
  /\ whitelisted_assets' = [whitelisted_assets EXCEPT ![a] = @ + 1]
  /\ UNCHANGED <<owner, protocol_fee, removed, bondVars, pool_info, rewards, held, outerVars>>

remove_whitelisted_reward_asset(sender, a) ==
  /\ sender = owner
  /\ a \in Whitelisted
  /\ whitelisted_assets' = [whitelisted_assets EXCEPT ![a] = @ - 1]
  /\ removed' = IF whitelisted_assets[a] = 1 THEN removed \cup {a} ELSE removed
  /\ UNCHANGED <<owner, protocol_fee, bondVars, pool_info, rewards, held, outerVars>>

\* Mutant: validate_protocol_fee is not called.
update_config_unchecked(sender, new_owner, fee) ==
  /\ sender = owner
  /\ owner' = new_owner
  /\ protocol_fee' = fee
  /\ UNCHANGED <<whitelisted_assets, removed, bondVars, pool_info, rewards, held, outerVars>>

update_config(sender, new_owner, fee) ==
  /\ sender = owner
  /\ fee <= MAX_PROTOCOL_FEE
  /\ owner' = new_owner
  /\ protocol_fee' = fee
  /\ UNCHANGED <<whitelisted_assets, removed, bondVars, pool_info, rewards, held, outerVars>>

-----------------------------------------------------------------------------
\* Delegator rewards, swapped to Luna, arrive from the staking module.
LunaArrives(amount) ==
  /\ luna = 0
  /\ luna' = amount
  /\ UNCHANGED <<configVars, bondVars, pool_info, rewards, held, vault_bond>>

\* Others bond to and unbond from the vault, and it is slashed.
VaultBondChanges(amount) ==
  /\ vault_bond' = amount
  /\ UNCHANGED <<configVars, bondVars, pool_info, rewards, held, luna>>

Next ==
  \/ \E u \in Users, amount \in BondAmounts : bond(u, amount)
  \/ \E u \in Users, amount \in UnbondAmounts : unbond(u, amount)
  \/ \E u \in Users : unbond(u, bonded(u))
  \/ \E a \in Depositable, amount \in DepositAmounts : DepositRewards(a, amount)
  \/ process_delegator_rewards
  \/ \E u \in Users : claim_rewards(u)
  \/ \E u \in Users, dest \in ClaimAssets : convert_and_claim_rewards(u, dest)
  \/ \E s \in Owners, a \in Listable : whitelist_reward_asset(s, a)
  \/ \E s \in Owners, a \in Listable : remove_whitelisted_reward_asset(s, a)
  \/ \E s, o \in Owners, fee \in FeeChoices : update_config(s, o, fee)
  \/ \E amount \in LunaAmounts : LunaArrives(amount)
  \/ \E amount \in VaultBonds : VaultBondChanges(amount)

Spec == Init /\ [][Next]_vars

-----------------------------------------------------------------------------
\* Every variable keeps its type and the protocol fee within its limit, which
\* reward_amount.checked_sub in deposit_rewards relies on; no entry is ahead of
\* its pool, which compute_asset_rewards.checked_sub relies on.
TypeOK ==
  /\ owner \in Owners /\ protocol_fee \in 0..MAX_PROTOCOL_FEE
  /\ whitelisted_assets \in [Assets -> Nat] /\ removed \subseteq Assets
  /\ total_bond_amount \in Nat
  /\ DOMAIN bond_amounts \subseteq Users
  /\ bond_amounts \in [DOMAIN bond_amounts -> Nat]
  /\ pool_info \in [Assets -> Nat]
  /\ DOMAIN rewards = Users
  /\ \A u \in Users : /\ DOMAIN rewards[u] \subseteq Assets
                      /\ rewards[u] \in [DOMAIN rewards[u] -> RewardInfo]
                      /\ \A a \in DOMAIN rewards[u] : rewards[u][a].index <= pool_info[a]
  /\ held \in [Assets -> Nat] /\ luna \in Nat /\ vault_bond \in Nat
  /\ rebonds \in Nat

\* What the stakers could claim of an asset now.
Owed(a) == SumFunctionOnSet([u \in Users |-> Pending(u, a)], Users)

\* The bonded yLuna that shares a balance with the rewards.
Principal(a) == IF a = YLUNA THEN total_bond_amount ELSE 0

\* The contract can give back every bond and pay every reward, up to one unit for
\* each bond or unbond so far: the total is the sum of the bonds, and what is owed
\* of a whitelisted asset exceeds what is held by less than the rounding of
\* compute_asset_rewards, which starts anew when a bond changes.  An asset that was
\* removed and listed again is not covered (see the hazards).
RewardsCovered ==
  /\ total_bond_amount = SumFunctionOnSet([u \in Users |-> bonded(u)], Users)
  /\ \A a \in Whitelisted \ removed : Principal(a) + Owed(a) <= held[a] + rebonds

\* Bonding or unbonding changes nobody's rewards: a newcomer has no share in what
\* was deposited before and a leaver keeps what was earned.
BondingEarnsNothing ==
  [][bond_amounts' # bond_amounts =>
       \A u \in Users, a \in Whitelisted : Pending(u, a)' = Pending(u, a)]_vars

Cleared(a) == Owed(a)' < Owed(a) /\ a \in Whitelisted'

LeavesWith(a) == held[a] - held'[a] >= Owed(a) - Owed(a)'

\* Rewards of a whitelisted asset that a step clears have left the contract, all of them.
\* The PRISM rewards that a claim in xPRISM clears are the one exception.
ClearedLeaves ==
  [][\A a \in Whitelisted : Cleared(a) =>
       \/ LeavesWith(a)
       \/ a = PRISM /\ \E u \in Users : convert_and_claim_rewards(u, XPRISM)]_vars

\* "convert all rewards into claim_asset_info and then claim those rewards"
\* (convert_and_claim_rewards): what a step clears has left the contract, without
\* exception.  It is violated: a claim in xPRISM clears the PRISM rewards, skips PRISM as
\* the asset it swaps to, and so leaves them in the contract, owed to nobody.
ClearedIsPaid ==
  [][\A a \in Whitelisted : Cleared(a) => LeavesWith(a)]_vars
=============================================================================
