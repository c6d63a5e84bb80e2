---------------------------- MODULE YassetProofs ----------------------------
(***************************************************************************)
(* Proofs about YassetStaking, for any stakers, tokens, amounts and any    *)
(* precision of Decimal: type correctness (no entry is ahead of its pool,  *)
(* the fee stays within its limit); that the contract holds the bonds and  *)
(* the rewards it owes, up to the rounding of the bonds and unbonds so     *)
(* far; that bonding and unbonding move nobody's rewards; and that rewards *)
(* which a claim clears have been paid.                                    *)
(***************************************************************************)
EXTENDS YassetStaking, Arithmetic

\* The limit of the fee is at most one, so a fee never exceeds what it is taken of.
LEMMA FeeLimit == MAX_PROTOCOL_FEE \in Nat /\ MAX_PROTOCOL_FEE <= ONE
<1>1. PICK o \in Nat \ {0} : o = ONE
  BY OnePos
<1>2. o \div 2 \in Nat /\ o \div 2 <= o
  BY <1>1
<1>3. QED BY <1>1, <1>2 DEF MAX_PROTOCOL_FEE

\* A bond is a natural.
LEMMA BondedNat == TypeOK => \A u \in Users : bonded(u) \in Nat
  BY DEF TypeOK, bonded

\* What compute_asset_rewards gives: the index of the pool, and no less than what
\* was pending.
LEMMA ComputeType ==
  TypeOK => \A u \in Users, a \in Assets :
              /\ compute_asset_rewards(u, a) = [index |-> pool_info[a], pending_reward |-> Pending(u, a)]
              /\ pool_info[a] \in Nat /\ Pending(u, a) \in Nat
<1>1. SUFFICES ASSUME TypeOK, NEW u \in Users, NEW a \in Assets
               PROVE  /\ compute_asset_rewards(u, a) = [index |-> pool_info[a], pending_reward |-> Pending(u, a)]
                      /\ pool_info[a] \in Nat /\ Pending(u, a) \in Nat
  OBVIOUS
<1>2. compute_asset_rewards(u, a) = [index |-> pool_info[a], pending_reward |-> Pending(u, a)]
  BY DEF compute_asset_rewards, Pending
<1>3. pool_info[a] \in Nat
  BY <1>1 DEF TypeOK
<1>4. Pending(u, a) = IF a \notin DOMAIN rewards[u] THEN 0
                      ELSE rewards[u][a].pending_reward
                             + (mul(bonded(u), pool_info[a]) - mul(bonded(u), rewards[u][a].index))
  BY DEF compute_asset_rewards, Pending
<1>5. CASE a \in DOMAIN rewards[u]
  <2>1. rewards[u][a] \in RewardInfo /\ rewards[u][a].index <= pool_info[a]
    BY <1>1, <1>5 DEF TypeOK
  <2>2. PICK i \in Nat, p \in Nat : i = rewards[u][a].index /\ p = rewards[u][a].pending_reward
    BY <2>1 DEF RewardInfo
  <2>3. PICK b \in Nat, P \in Nat : b = bonded(u) /\ P = pool_info[a]
    BY <1>1, <1>3, BondedNat
  <2>4. i <= P /\ b <= b
    BY <2>1, <2>2, <2>3
  <2>5. mul(b, i) \in Nat /\ mul(b, P) \in Nat /\ mul(b, i) <= mul(b, P)
    BY <2>4, MulNat, MulGrows
  <2>6. QED BY <1>2, <1>3, <1>4, <1>5, <2>2, <2>3, <2>5
<1>6. CASE a \notin DOMAIN rewards[u]
  BY <1>2, <1>3, <1>4, <1>6
<1>7. QED BY <1>5, <1>6

-----------------------------------------------------------------------------
\* Type correctness of a table of entries e against the indexes p.
EntryType(e, p) ==
  /\ DOMAIN e \subseteq Assets
  /\ e \in [DOMAIN e -> RewardInfo]
  /\ \A a \in DOMAIN e : e[a].index <= p[a]

\* ... for all users.
RewardsType(r, p) == DOMAIN r = Users /\ \A u \in Users : EntryType(r[u], p)

\* The other parts of TypeOK.
ConfigType ==
  /\ owner \in Owners /\ protocol_fee \in 0..MAX_PROTOCOL_FEE
  /\ whitelisted_assets \in [Assets -> Nat] /\ removed \subseteq Assets

BondType ==
  /\ total_bond_amount \in Nat /\ rebonds \in Nat
  /\ DOMAIN bond_amounts \subseteq Users
  /\ bond_amounts \in [DOMAIN bond_amounts -> Nat]

FundsType ==
  /\ pool_info \in [Assets -> Nat]
  /\ held \in [Assets -> Nat] /\ luna \in Nat /\ vault_bond \in Nat

\* TypeOK in parts.
LEMMA TypeParts ==
  TypeOK <=> ConfigType /\ BondType /\ FundsType /\ RewardsType(rewards, pool_info)
  BY DEF TypeOK, ConfigType, BondType, FundsType, RewardsType, EntryType

\* Entries of Assets, each for the index of its pool or as it was, keep their type.
LEMMA EntriesKept ==
  ASSUME TypeOK, NEW u \in Users, NEW D, D \subseteq Assets, NEW e, DOMAIN e = D,
         \A a \in D : \/ a \in DOMAIN rewards[u] /\ e[a] = rewards[u][a]
                      \/ \E n \in Nat : e[a] = [index |-> pool_info[a], pending_reward |-> n],
         e \in [D -> {e[a] : a \in D}]
  PROVE  RewardsType([rewards EXCEPT ![u] = e], pool_info)
<1>1. DOMAIN rewards = Users /\ \A v \in Users : EntryType(rewards[v], pool_info)
  BY DEF TypeOK, EntryType
<1>2. \A a \in Assets : pool_info[a] \in Nat
  BY DEF TypeOK
<1>3. \A a \in D : e[a] \in RewardInfo /\ e[a].index <= pool_info[a]
  <2>1. SUFFICES ASSUME NEW a \in D PROVE e[a] \in RewardInfo /\ e[a].index <= pool_info[a]
    OBVIOUS
  <2>2. CASE a \in DOMAIN rewards[u] /\ e[a] = rewards[u][a]
    BY <1>1, <2>2 DEF EntryType
  <2>3. CASE \E n \in Nat : e[a] = [index |-> pool_info[a], pending_reward |-> n]
    BY <1>2, <2>3 DEF RewardInfo
  <2>4. QED BY <2>2, <2>3
<1>4. EntryType(e, pool_info)
  BY <1>3 DEF EntryType
<1>5. QED BY <1>1, <1>4 DEF RewardsType

\* What deposit_rewards does: some reward is kept, and the indexes rise by a rate at
\* which all the bonds together earn no more than it.
Deposited(assets, reward, rate) ==
  /\ rate * total_bond_amount <= reward * ONE
  /\ pool_info' = [a \in Assets |-> IF a \in assets THEN pool_info[a] + rate ELSE pool_info[a]]
  /\ held' = [a \in Assets |-> IF a \in assets THEN held[a] + reward ELSE held[a]]

LEMMA DepositFacts ==
  ASSUME TypeOK, NEW assets, NEW amount \in Nat, NEW inVault \in Nat,
         deposit_rewards(assets, amount, inVault)
  PROVE  /\ assets \subseteq Whitelisted
         /\ \E reward \in Nat, rate \in Nat : Deposited(assets, reward, rate)
<1>1. PICK T \in Nat : T = total_bond_amount
  BY DEF TypeOK
<1>2. PICK p \in Nat : p = stakers_portion(inVault) /\ p <= ONE
  <2>1. ONE \in Nat
    BY OnePos
  <2>2. CASE T = 0
    BY <1>1, <2>1, <2>2 DEF stakers_portion
  <2>3. CASE T # 0
    <3>1. inVault > 0
      BY <1>1, <2>3 DEF deposit_rewards
    <3>2. from_ratio(T, inVault) \in Nat
      BY <3>1, RatioNat
    <3>3. QED BY <1>1, <2>1, <2>3, <3>2 DEF stakers_portion, smaller
  <2>4. QED BY <2>2, <2>3
<1>3. PICK f \in Nat : f = protocol_fee /\ f <= ONE
  BY FeeLimit, OnePos DEF TypeOK
<1>4. PICK m \in Nat : m = mul(amount, p)
  BY MulNat
<1>5. mul(m, f) \in Nat /\ mul(m, f) <= m
  BY <1>3, MulNat, MulLeq
<1>6. PICK r \in Nat : r = reward_amount(amount, p)
  BY <1>3, <1>4, <1>5 DEF reward_amount
<1>7. PICK q \in Nat : q = IF T = 0 THEN 0 ELSE from_ratio(r, T)
  BY RatioNat
<1>8. q * T <= r * ONE
  <2>1. CASE T = 0
    <3>1. PICK o \in Nat : o = ONE
      BY OnePos
    <3>2. q * T = 0 /\ r * o >= 0
      BY <1>7, <2>1
    <3>3. QED BY <3>1, <3>2
  <2>2. CASE T # 0
    BY <1>7, <2>2, RatioRest
  <2>3. QED BY <2>1, <2>2
<1>9. Deposited(assets, r, q)
  <2>1. held' = [a \in Assets |-> IF a \in assets THEN held[a] + r ELSE held[a]]
    BY <1>2, <1>6 DEF deposit_rewards
  <2>2. pool_info' = [a \in Assets |->
           IF a \in assets /\ T # 0 THEN pool_info[a] + from_ratio(r, T) ELSE pool_info[a]]
    BY <1>1, <1>2, <1>6 DEF deposit_rewards
  <2>3. \A a \in Assets : pool_info[a] \in Nat
    BY DEF TypeOK
  <2>4. pool_info' = [a \in Assets |-> IF a \in assets THEN pool_info[a] + q ELSE pool_info[a]]
    BY <1>7, <2>2, <2>3
  <2>5. QED BY <1>1, <1>8, <2>1, <2>4 DEF Deposited
<1>10. QED BY <1>9 DEF deposit_rewards

\* What a deposit, or one from process_delegator_rewards, changes.
DepositStep ==
  /\ \E assets \in SUBSET Whitelisted, reward \in Nat, rate \in Nat : Deposited(assets, reward, rate)
  /\ luna' \in Nat /\ vault_bond' \in Nat
  /\ UNCHANGED <<configVars, bondVars, rewards>>

LEMMA DepositIsStep ==
  ASSUME TypeOK, NEW a \in Depositable, NEW amount \in DepositAmounts, DepositRewards(a, amount)
  PROVE  DepositStep
<1>1. amount \in Nat /\ vault_bond \in Nat /\ luna \in Nat
  BY YassetAssumption DEF TypeOK
<1>2. deposit_rewards({a}, amount, vault_bond)
  BY DEF DepositRewards
<1>3. {a} \subseteq Whitelisted /\ \E reward \in Nat, rate \in Nat : Deposited({a}, reward, rate)
  BY <1>1, <1>2, DepositFacts
<1>4. QED BY <1>1, <1>3 DEF DepositStep, DepositRewards, outerVars

LEMMA ProcessIsStep ==
  ASSUME TypeOK, process_delegator_rewards
  PROVE  DepositStep
<1>1. PICK minted \in MintAmounts : deposit_rewards({YLUNA, PLUNA}, minted, vault_bond + luna)
  BY DEF process_delegator_rewards
<1>2. minted \in Nat /\ vault_bond + luna \in Nat
  BY YassetAssumption DEF TypeOK
<1>3. PICK assets : assets = {YLUNA, PLUNA}
  OBVIOUS
<1>4. deposit_rewards(assets, minted, vault_bond + luna)
  BY <1>1, <1>3
<1>5. assets \subseteq Whitelisted /\ \E reward \in Nat, rate \in Nat : Deposited(assets, reward, rate)
  BY <1>2, <1>4, DepositFacts
<1>6. luna' = 0 /\ vault_bond' = vault_bond + luna /\ UNCHANGED <<configVars, bondVars, rewards>>
  BY DEF process_delegator_rewards
<1>7. QED BY <1>2, <1>5, <1>6 DEF DepositStep

\* TypeOK survives a deposit: the indexes only rise.
LEMMA DepositType == ASSUME TypeOK, DepositStep PROVE TypeOK'
<1>1. PICK assets \in SUBSET Whitelisted, r \in Nat, q \in Nat : Deposited(assets, r, q)
  BY DEF DepositStep
<1>2. ConfigType' /\ BondType'
  BY DEF DepositStep, TypeOK, ConfigType, BondType, configVars, bondVars
<1>3. \A a \in Assets : pool_info[a] \in Nat /\ held[a] \in Nat
  BY DEF TypeOK
<1>4. pool_info' \in [Assets -> Nat] /\ held' \in [Assets -> Nat]
      /\ \A a \in Assets : pool_info[a] <= pool_info'[a]
  BY <1>1, <1>3 DEF Deposited
<1>5. FundsType'
  BY <1>4 DEF FundsType, DepositStep
<1>6. RewardsType(rewards, pool_info)
  BY TypeParts
<1>7. rewards' = rewards
  BY DEF DepositStep
<1>8. RewardsType(rewards, pool_info')
  <2>1. SUFFICES ASSUME NEW u \in Users PROVE EntryType(rewards[u], pool_info')
    BY <1>6 DEF RewardsType
  <2>2. EntryType(rewards[u], pool_info)
    BY <1>6 DEF RewardsType
  <2>3. ASSUME NEW a \in DOMAIN rewards[u] PROVE rewards[u][a].index <= pool_info'[a]
    <3>1. a \in Assets /\ rewards[u][a] \in RewardInfo /\ rewards[u][a].index <= pool_info[a]
      BY <2>2 DEF EntryType
    <3>2. rewards[u][a].index \in Nat /\ pool_info[a] \in Nat /\ pool_info'[a] \in Nat
      BY <1>4, <3>1, <1>3 DEF RewardInfo
    <3>3. QED BY <1>4, <3>1, <3>2
  <2>4. QED BY <2>2, <2>3 DEF EntryType
<1>9. QED BY <1>2, <1>5, <1>7, <1>8 DEF TypeOK, ConfigType, BondType, FundsType, RewardsType, EntryType

-----------------------------------------------------------------------------
\* The bonds after a step.
bondedNext(u) == IF u \in DOMAIN bond_amounts' THEN bond_amounts'[u] ELSE 0

\* What bond and unbond do for u: the rewards of u are brought up to date, and the
\* bond, the total and the yLuna held change by as much.
RebondStep(u, d) ==
  /\ rewards' = [rewards EXCEPT ![u] = compute_all_rewards(u)]
  /\ total_bond_amount + d \in Nat /\ total_bond_amount' = total_bond_amount + d
  /\ bonded(u) + d \in Nat /\ bondedNext(u) = bonded(u) + d
  /\ \A v \in Users \ {u} : bondedNext(v) = bonded(v)
  /\ DOMAIN bond_amounts' \subseteq Users /\ bond_amounts' \in [DOMAIN bond_amounts' -> Nat]
  /\ held[YLUNA] + d \in Nat
  /\ held' = [held EXCEPT ![YLUNA] = held[YLUNA] + d]
  /\ rebonds' = rebonds + 1
  /\ UNCHANGED <<configVars, pool_info, outerVars>>

LEMMA BondIsStep ==
  ASSUME TypeOK, NEW u \in Users, NEW amount \in BondAmounts, bond(u, amount)
  PROVE  RebondStep(u, amount)
<1>1. amount \in Nat /\ total_bond_amount \in Nat /\ held[YLUNA] \in Nat /\ YLUNA \in Assets
      /\ \A v \in Users : bonded(v) \in Nat
  BY YassetAssumption, BondedNat DEF TypeOK, verify_claim_asset
<1>2. bond_amounts' = [v \in DOMAIN bond_amounts \cup {u} |-> bonded(v) + (IF v = u THEN amount ELSE 0)]
  BY DEF bond
<1>3. DOMAIN bond_amounts' = DOMAIN bond_amounts \cup {u} /\ DOMAIN bond_amounts \subseteq Users
  BY <1>2 DEF TypeOK
<1>4. bond_amounts' \in [DOMAIN bond_amounts' -> Nat]
  BY <1>1, <1>2, <1>3
<1>5. bondedNext(u) = bonded(u) + amount
  BY <1>2, <1>3 DEF bondedNext
<1>6. ASSUME NEW v \in Users \ {u} PROVE bondedNext(v) = bonded(v)
  <2>1. CASE v \in DOMAIN bond_amounts
    BY <1>1, <1>2, <1>3, <2>1 DEF bondedNext
  <2>2. CASE v \notin DOMAIN bond_amounts
    BY <1>3, <2>2 DEF bondedNext, bonded
  <2>3. QED BY <2>1, <2>2
<1>7. QED BY <1>1, <1>3, <1>4, <1>5, <1>6 DEF RebondStep, bond

LEMMA UnbondIsStep ==
  ASSUME TypeOK, NEW u \in Users, NEW amount \in Nat, unbond(u, amount)
  PROVE  RebondStep(u, -amount)
<1>1. total_bond_amount \in Nat /\ held[YLUNA] \in Nat /\ YLUNA \in Assets
      /\ \A v \in Users : bonded(v) \in Nat
  BY YassetAssumption, BondedNat DEF TypeOK, verify_claim_asset
<1>2. u \in DOMAIN bond_amounts /\ amount <= bond_amounts[u] /\ amount <= total_bond_amount
      /\ amount <= held[YLUNA] /\ bond_amounts' = [bond_amounts EXCEPT ![u] = @ - amount]
  BY DEF unbond
<1>3. DOMAIN bond_amounts' = DOMAIN bond_amounts /\ DOMAIN bond_amounts \subseteq Users
      /\ \A v \in DOMAIN bond_amounts : bond_amounts[v] \in Nat
  BY <1>2 DEF TypeOK
<1>4. bond_amounts' \in [DOMAIN bond_amounts' -> Nat]
  <2>1. PICK D : D = DOMAIN bond_amounts
    OBVIOUS
  <2>2. bond_amounts \in [D -> Nat] /\ u \in D /\ bond_amounts[u] - amount \in Nat
    BY <1>2, <1>3, <2>1 DEF TypeOK
  <2>3. [bond_amounts EXCEPT ![u] = @ - amount] \in [D -> Nat]
    BY ONLY <2>2
  <2>4. QED BY <1>2, <1>3, <2>1, <2>3
<1>5. bonded(u) = bond_amounts[u] /\ bondedNext(u) = bonded(u) + (-amount) /\ bonded(u) + (-amount) \in Nat
  BY <1>2, <1>3 DEF bondedNext, bonded
<1>6. \A v \in Users \ {u} : bondedNext(v) = bonded(v)
  BY <1>2, <1>3 DEF bondedNext, bonded
<1>7. total_bond_amount' = total_bond_amount + (-amount) /\ total_bond_amount + (-amount) \in Nat
  BY <1>1, <1>2 DEF unbond
<1>8. held' = [held EXCEPT ![YLUNA] = held[YLUNA] + (-amount)] /\ held[YLUNA] + (-amount) \in Nat
  <2>1. held' = [held EXCEPT ![YLUNA] = held[YLUNA] - amount]
    BY DEF unbond
  <2>2. held[YLUNA] - amount = held[YLUNA] + (-amount) /\ held[YLUNA] + (-amount) \in Nat
    BY <1>1, <1>2
  <2>3. QED BY <2>1, <2>2
<1>9. QED BY <1>3, <1>4, <1>5, <1>6, <1>7, <1>8 DEF RebondStep, unbond

\* What a claim does for u: the rewards of some whitelisted assets are cleared, and
\* those of all of them, but for PRISM in a claim in xPRISM, leave the contract.
ClaimStep(u, cleared, sent) ==
  /\ cleared \subseteq Whitelisted /\ sent \subseteq cleared /\ cleared \ sent \subseteq {PRISM}
  /\ cleared # sent => convert_and_claim_rewards(u, XPRISM)
  /\ \A a \in Whitelisted \ cleared : Pending(u, a) = 0
  /\ \A a \in sent : Pending(u, a) <= held[a]
  /\ rewards' = [rewards EXCEPT ![u] =
       [a \in DOMAIN rewards[u] \cup cleared |->
          IF a \in cleared THEN [index |-> pool_info[a], pending_reward |-> 0] ELSE rewards[u][a]]]
  /\ held' = [a \in Assets |-> IF a \in sent THEN held[a] - Pending(u, a) ELSE held[a]]
  /\ UNCHANGED <<configVars, bondVars, pool_info, outerVars>>

\* A reward that is paid is reset and its index saved.
LEMMA PaidIs ==
  \A u, a : Paid(compute_asset_rewards(u, a)) = [index |-> pool_info[a], pending_reward |-> 0]
  BY DEF Paid, compute_asset_rewards

LEMMA ClaimIsStep ==
  ASSUME TypeOK, NEW u \in Users, claim_rewards(u)
  PROVE  \E cleared, sent : ClaimStep(u, cleared, sent)
<1>1. PICK W : W = Whitelisted
  OBVIOUS
<1>2. rewards' = [rewards EXCEPT ![u] =
         [a \in DOMAIN rewards[u] \cup W |->
            IF a \in W THEN [index |-> pool_info[a], pending_reward |-> 0] ELSE rewards[u][a]]]
  <2>1. rewards' = [rewards EXCEPT ![u] =
           [a \in DOMAIN rewards[u] \cup W |->
              IF a \in W THEN Paid(compute_asset_rewards(u, a)) ELSE rewards[u][a]]]
    BY <1>1 DEF claim_rewards
  <2>2. QED BY ONLY <2>1, PaidIs
<1>3. ClaimStep(u, W, W)
  BY <1>1, <1>2 DEF ClaimStep, claim_rewards
<1>4. QED BY <1>3

LEMMA ConvertIsStep ==
  ASSUME TypeOK, NEW u \in Users, NEW dest, convert_and_claim_rewards(u, dest)
  PROVE  \E cleared, sent : ClaimStep(u, cleared, sent)
<1>1. PICK C : C = {a \in Whitelisted : Pending(u, a) > 0}
  OBVIOUS
<1>2. PICK S : S = SentByConvert(dest, C)
  OBVIOUS
<1>3. S \subseteq C /\ C \ S \subseteq {PRISM}
  BY <1>2 DEF SentByConvert
<1>4. C \subseteq DOMAIN rewards[u]
  BY <1>1 DEF Pending, compute_asset_rewards
<1>5. /\ \A a \in S : Pending(u, a) <= held[a]
      /\ rewards' = [rewards EXCEPT ![u] =
           [a \in DOMAIN rewards[u] |->
              IF a \in C THEN Paid(compute_asset_rewards(u, a)) ELSE rewards[u][a]]]
      /\ held' = [a \in Assets |-> IF a \in S THEN held[a] - Pending(u, a) ELSE held[a]]
      /\ UNCHANGED <<configVars, bondVars, pool_info, outerVars>>
  BY <1>1, <1>2 DEF convert_and_claim_rewards
<1>6. DOMAIN rewards[u] \cup C = DOMAIN rewards[u]
  BY <1>4
<1>7. rewards' = [rewards EXCEPT ![u] =
         [a \in DOMAIN rewards[u] \cup C |->
            IF a \in C THEN [index |-> pool_info[a], pending_reward |-> 0] ELSE rewards[u][a]]]
  BY <1>5, <1>6, PaidIs
<1>8. \A a \in Whitelisted \ C : Pending(u, a) = 0
  <2>1. \A a \in Whitelisted : Pending(u, a) \in Nat
    BY ComputeType DEF Whitelisted
  <2>2. QED BY <1>1, <2>1
<1>9. C # S => convert_and_claim_rewards(u, XPRISM)
  <2>1. C # S => dest = XPRISM
    BY <1>2 DEF SentByConvert
  <2>2. QED BY <2>1
<1>10. ClaimStep(u, C, S)
  BY <1>1, <1>3, <1>5, <1>7, <1>8, <1>9 DEF ClaimStep
<1>11. QED BY <1>10

\* What the other steps do: bonds, rewards and tokens stay, and an asset leaves the
\* list only to be one of the removed.
AdminStep ==
  /\ ConfigType' /\ luna' \in Nat /\ vault_bond' \in Nat
  /\ Whitelisted \cup removed \subseteq Whitelisted' \cup removed' /\ removed \subseteq removed'
  /\ UNCHANGED <<bondVars, pool_info, rewards, held>>

LEMMA ListIsStep ==
  ASSUME TypeOK, NEW s, NEW a \in Listable, whitelist_reward_asset(s, a)
  PROVE  AdminStep
<1>1. a \in Assets /\ whitelisted_assets \in [Assets -> Nat]
  BY YassetAssumption DEF TypeOK
<1>2. whitelisted_assets' = [whitelisted_assets EXCEPT ![a] = @ + 1] /\ UNCHANGED <<owner, protocol_fee, removed>>
  BY DEF whitelist_reward_asset
<1>3. whitelisted_assets' \in [Assets -> Nat] /\ Whitelisted \subseteq Whitelisted'
  BY <1>1, <1>2 DEF Whitelisted
<1>4. ConfigType'
  BY <1>2, <1>3 DEF ConfigType, TypeOK
<1>5. UNCHANGED <<bondVars, pool_info, rewards, held, outerVars>>
  BY DEF whitelist_reward_asset
<1>6. luna' \in Nat /\ vault_bond' \in Nat
  BY <1>5 DEF TypeOK, outerVars
<1>7. QED BY <1>2, <1>3, <1>4, <1>5, <1>6 DEF AdminStep

LEMMA RemoveIsStep ==
  ASSUME TypeOK, NEW s, NEW a \in Listable, remove_whitelisted_reward_asset(s, a)
  PROVE  AdminStep
<1>1. a \in Assets /\ whitelisted_assets \in [Assets -> Nat] /\ removed \subseteq Assets
  BY YassetAssumption DEF TypeOK
<1>2. /\ whitelisted_assets' = [whitelisted_assets EXCEPT ![a] = @ - 1]
      /\ removed' = IF whitelisted_assets[a] = 1 THEN removed \cup {a} ELSE removed
      /\ UNCHANGED <<owner, protocol_fee>>
      /\ whitelisted_assets[a] > 0
  BY DEF remove_whitelisted_reward_asset, Whitelisted
<1>3. whitelisted_assets[a] \in Nat /\ whitelisted_assets[a] - 1 \in Nat
  BY <1>1, <1>2
<1>4. whitelisted_assets' \in [Assets -> Nat]
  BY <1>1, <1>2, <1>3
<1>5. removed \subseteq removed' /\ removed' \subseteq Assets
  BY <1>1, <1>2
<1>6. ASSUME NEW x \in Whitelisted PROVE x \in Whitelisted' \cup removed'
  <2>1. x \in Assets /\ whitelisted_assets[x] > 0
    BY DEF Whitelisted
  <2>2. CASE x = a
    <3>1. CASE whitelisted_assets[a] = 1
      BY <1>2, <2>2, <3>1
    <3>2. CASE whitelisted_assets[a] # 1
      <4>1. whitelisted_assets'[a] = whitelisted_assets[a] - 1
        BY <1>1, <1>2
      <4>2. whitelisted_assets'[a] > 0
        BY <1>2, <1>3, <3>2, <4>1
      <4>3. QED BY <2>1, <2>2, <4>2 DEF Whitelisted
    <3>3. QED BY <3>1, <3>2
  <2>3. CASE x # a
    BY <1>1, <1>2, <2>1, <2>3 DEF Whitelisted
  <2>4. QED BY <2>2, <2>3
<1>7. ConfigType'
  BY <1>2, <1>4, <1>5 DEF ConfigType, TypeOK
<1>8. UNCHANGED <<bondVars, pool_info, rewards, held, outerVars>>
  BY DEF remove_whitelisted_reward_asset
<1>9. luna' \in Nat /\ vault_bond' \in Nat
  BY <1>8 DEF TypeOK, outerVars
<1>10. QED BY <1>5, <1>6, <1>7, <1>8, <1>9 DEF AdminStep

LEMMA UpdateIsStep ==
  ASSUME TypeOK, NEW s, NEW o \in Owners, NEW fee \in FeeChoices, update_config(s, o, fee)
  PROVE  AdminStep
<1>1. fee \in 0..MAX_PROTOCOL_FEE
  BY YassetAssumption, FeeLimit DEF update_config
<1>2. owner' = o /\ protocol_fee' = fee /\ UNCHANGED <<whitelisted_assets, removed>>
  BY DEF update_config
<1>3. ConfigType' /\ Whitelisted' = Whitelisted
  BY <1>1, <1>2 DEF ConfigType, TypeOK, Whitelisted
<1>4. UNCHANGED <<bondVars, pool_info, rewards, held, outerVars>>
  BY DEF update_config
<1>5. luna' \in Nat /\ vault_bond' \in Nat
  BY <1>4 DEF TypeOK, outerVars
<1>6. QED BY <1>2, <1>3, <1>4, <1>5 DEF AdminStep

\* Steps around the contract, and steps of nothing.
LEMMA OuterIsStep ==
  ASSUME TypeOK, UNCHANGED <<configVars, bondVars, pool_info, rewards, held>>,
         luna' \in Nat, vault_bond' \in Nat
  PROVE  AdminStep
<1>1. UNCHANGED <<owner, protocol_fee, whitelisted_assets, removed>>
  BY DEF configVars
<1>2. ConfigType' /\ Whitelisted' = Whitelisted
  BY <1>1 DEF ConfigType, TypeOK, Whitelisted
<1>3. QED BY <1>1, <1>2 DEF AdminStep

\* Every step is a bond or unbond, a deposit, a claim or none of these.
LEMMA StepKinds ==
  ASSUME TypeOK, [Next]_vars
  PROVE  \/ \E u \in Users, d \in Int : RebondStep(u, d)
         \/ DepositStep
         \/ \E u \in Users : \E cleared, sent : ClaimStep(u, cleared, sent)
         \/ AdminStep
<1>1. ASSUME NEW u \in Users, NEW amount \in BondAmounts, bond(u, amount)
      PROVE  \E d \in Int : RebondStep(u, d)
  <2>1. amount \in Int
    BY YassetAssumption
  <2>2. QED BY <1>1, <2>1, BondIsStep
<1>2. ASSUME NEW u \in Users, NEW amount \in Nat, unbond(u, amount)
      PROVE  \E d \in Int : RebondStep(u, d)
  <2>1. -amount \in Int
    OBVIOUS
  <2>2. QED BY <1>2, <2>1, UnbondIsStep
<1>3. (\E u \in Users, amount \in UnbondAmounts : unbond(u, amount)) =>
        \E u \in Users, d \in Int : RebondStep(u, d)
  BY <1>2, YassetAssumption
<1>4. (\E u \in Users : unbond(u, bonded(u))) => \E u \in Users, d \in Int : RebondStep(u, d)
  BY <1>2, BondedNat
<1>5. (\E a \in Depositable, amount \in DepositAmounts : DepositRewards(a, amount)) => DepositStep
  BY DepositIsStep
<1>6. process_delegator_rewards => DepositStep
  BY ProcessIsStep
<1>7. (\E s \in Owners, a \in Listable : whitelist_reward_asset(s, a)) => AdminStep
  BY ListIsStep
<1>8. (\E s \in Owners, a \in Listable : remove_whitelisted_reward_asset(s, a)) => AdminStep
  BY RemoveIsStep
<1>9. (\E s, o \in Owners, fee \in FeeChoices : update_config(s, o, fee)) => AdminStep
  BY UpdateIsStep
<1>10. (\E amount \in LunaAmounts : LunaArrives(amount)) => AdminStep
  BY OuterIsStep, YassetAssumption DEF LunaArrives, TypeOK
<1>11. (\E amount \in VaultBonds : VaultBondChanges(amount)) => AdminStep
  BY OuterIsStep, YassetAssumption DEF VaultBondChanges, TypeOK
<1>12. UNCHANGED vars => AdminStep
  BY OuterIsStep DEF vars, outerVars, TypeOK
<1>13. (\E u \in Users : claim_rewards(u)) => \E u \in Users : \E cleared, sent : ClaimStep(u, cleared, sent)
  BY ClaimIsStep
<1>14. (\E u \in Users, dest \in ClaimAssets : convert_and_claim_rewards(u, dest))
         => \E u \in Users : \E cleared, sent : ClaimStep(u, cleared, sent)
  BY ConvertIsStep
<1>15. QED
  BY <1>1, <1>3, <1>4, <1>5, <1>6, <1>7, <1>8, <1>9, <1>10, <1>11, <1>12, <1>13, <1>14 DEF Next

-----------------------------------------------------------------------------
\* TypeOK survives a bond or an unbond.
LEMMA RebondType ==
  ASSUME TypeOK, NEW u \in Users, NEW d \in Int, RebondStep(u, d)
  PROVE  TypeOK'
<1>1. UNCHANGED <<configVars, pool_info, outerVars>>
  BY DEF RebondStep
<1>2. ConfigType' /\ BondType'
  BY <1>1 DEF RebondStep, TypeOK, ConfigType, BondType, configVars
<1>3. YLUNA \in Assets /\ held \in [Assets -> Nat]
  BY YassetAssumption DEF TypeOK, verify_claim_asset
<1>4. held' \in [Assets -> Nat]
  BY <1>3 DEF RebondStep
<1>5. FundsType'
  BY <1>1, <1>4 DEF FundsType, TypeOK, outerVars
<1> DEFINE D == DOMAIN rewards[u] \cup Whitelisted
           e == compute_all_rewards(u)
<1>6. D \subseteq Assets /\ DOMAIN e = D /\ e \in [D -> {e[a] : a \in D}]
  BY DEF TypeOK, Whitelisted, compute_all_rewards
<1>7. ASSUME NEW a \in D
      PROVE  \/ a \in DOMAIN rewards[u] /\ e[a] = rewards[u][a]
             \/ \E n \in Nat : e[a] = [index |-> pool_info[a], pending_reward |-> n]
  <2>1. CASE a \in Whitelisted
    <3>1. e[a] = compute_asset_rewards(u, a) /\ a \in Assets
      BY <2>1, <1>6 DEF compute_all_rewards
    <3> HIDE DEF e
    <3>2. QED BY <3>1, ComputeType
  <2>2. CASE a \notin Whitelisted
    BY <2>2 DEF compute_all_rewards
  <2>3. QED BY <2>1, <2>2
<1> HIDE DEF D, e
<1>8. RewardsType([rewards EXCEPT ![u] = e], pool_info)
  BY <1>6, <1>7, EntriesKept
<1>9. rewards' = [rewards EXCEPT ![u] = e] /\ pool_info' = pool_info
  BY <1>1 DEF RebondStep, e
<1>10. RewardsType(rewards', pool_info')
  BY <1>8, <1>9, Zenon
<1>11. QED BY <1>2, <1>5, <1>10 DEF TypeOK, ConfigType, BondType, FundsType, RewardsType, EntryType

\* ... and a claim.
LEMMA ClaimType ==
  ASSUME TypeOK, NEW u \in Users, NEW cleared, NEW sent, ClaimStep(u, cleared, sent)
  PROVE  TypeOK'
<1>1. UNCHANGED <<configVars, bondVars, pool_info, outerVars>>
  BY DEF ClaimStep
<1>2. ConfigType' /\ BondType'
  BY <1>1 DEF TypeOK, ConfigType, BondType, configVars, bondVars
<1>3. cleared \subseteq Assets /\ sent \subseteq Assets
  BY DEF ClaimStep, Whitelisted
<1>4. \A a \in Assets : held[a] \in Nat /\ Pending(u, a) \in Nat /\ (a \in sent => Pending(u, a) <= held[a])
  BY ComputeType DEF TypeOK, ClaimStep
<1>5. held' = [a \in Assets |-> IF a \in sent THEN held[a] - Pending(u, a) ELSE held[a]]
  BY DEF ClaimStep
<1>6. held' \in [Assets -> Nat]
  BY <1>4, <1>5
<1>7. FundsType'
  BY <1>1, <1>6 DEF FundsType, TypeOK, outerVars
<1> DEFINE D == DOMAIN rewards[u] \cup cleared
           e == [a \in D |-> IF a \in cleared THEN [index |-> pool_info[a], pending_reward |-> 0]
                             ELSE rewards[u][a]]
<1>8. D \subseteq Assets /\ DOMAIN e = D /\ e \in [D -> {e[a] : a \in D}]
  BY <1>3 DEF TypeOK
<1>9. ASSUME NEW a \in D
      PROVE  \/ a \in DOMAIN rewards[u] /\ e[a] = rewards[u][a]
             \/ \E n \in Nat : e[a] = [index |-> pool_info[a], pending_reward |-> n]
  OBVIOUS
<1>10. rewards' = [rewards EXCEPT ![u] = e] /\ pool_info' = pool_info
  BY <1>1 DEF ClaimStep
<1> HIDE DEF D, e
<1>11. RewardsType([rewards EXCEPT ![u] = e], pool_info)
  BY <1>8, <1>9, EntriesKept
<1>12. RewardsType(rewards', pool_info')
  BY <1>10, <1>11, Zenon
<1>13. QED BY <1>2, <1>7, <1>12 DEF TypeOK, ConfigType, BondType, FundsType, RewardsType, EntryType

\* ... and every other step.
LEMMA AdminType == ASSUME TypeOK, AdminStep PROVE TypeOK'
<1>1. UNCHANGED <<bondVars, pool_info, rewards, held>> /\ ConfigType' /\ luna' \in Nat /\ vault_bond' \in Nat
  BY DEF AdminStep
<1>2. QED BY <1>1 DEF TypeOK, ConfigType, bondVars

LEMMA TypeInit == Init => TypeOK
<1>1. SUFFICES ASSUME Init PROVE TypeOK
  OBVIOUS
<1>2. MAX_PROTOCOL_FEE \in Nat
  BY FeeLimit
<1>3. ConfigType
  BY <1>1, <1>2, YassetAssumption DEF Init, ConfigType
<1>4. DOMAIN Nobody = {} /\ Nobody \in [{} -> Nat] /\ Nobody \in [{} -> RewardInfo]
  BY DEF Nobody
<1>5. BondType
  BY <1>1, <1>4 DEF Init, BondType
<1>6. FundsType
  BY <1>1, YassetAssumption DEF Init, FundsType
<1>7. RewardsType(rewards, pool_info)
  BY <1>1, <1>4 DEF Init, RewardsType, EntryType
<1>8. QED BY <1>3, <1>5, <1>6, <1>7, TypeParts

LEMMA TypeStep == TypeOK /\ [Next]_vars => TypeOK'
  BY StepKinds, RebondType, DepositType, ClaimType, AdminType

\* Every variable keeps its type: the protocol fee stays within the limit that
\* deposit_rewards subtracts under, and no entry is ever ahead of its pool, so the
\* subtractions of compute_asset_rewards never fail.
THEOREM TypeCorrect == Spec => []TypeOK
  BY TypeInit, TypeStep, PTL DEF Spec

-----------------------------------------------------------------------------
\* What a user of bond b has pending of an asset: nothing without an entry, and
\* otherwise what the entry has and what the bond earned since its index.
PendingOf(r, b, P, a) ==
  IF a \in DOMAIN r THEN r[a].pending_reward + (mul(b, P[a]) - mul(b, r[a].index)) ELSE 0

LEMMA PendingIs ==
  \A u, a : Pending(u, a) = PendingOf(rewards[u], bonded(u), pool_info, a)
  BY DEF Pending, compute_asset_rewards, PendingOf

LEMMA PendingNextIs ==
  \A u, a : Pending(u, a)' = PendingOf(rewards'[u], bondedNext(u), pool_info', a)
  BY DEF Pending, compute_asset_rewards, PendingOf, bonded, bondedNext

\* An entry that has just been brought up to date has its reward pending, at any bond.
LEMMA FreshEntry ==
  ASSUME NEW r, NEW b \in Nat, NEW P, NEW a, P[a] \in Nat, NEW n \in Nat,
         a \in DOMAIN r, r[a] = [index |-> P[a], pending_reward |-> n]
  PROVE  PendingOf(r, b, P, a) = n
<1>1. mul(b, P[a]) \in Nat
  BY MulNat
<1>2. r[a].index = P[a] /\ r[a].pending_reward = n
  OBVIOUS
<1>3. QED BY <1>1, <1>2 DEF PendingOf

\* Bonding and unbonding change nobody's rewards.
LEMMA RebondPending ==
  ASSUME TypeOK, NEW u \in Users, NEW d \in Int, RebondStep(u, d)
  PROVE  \A v \in Users, a \in Whitelisted : Pending(v, a)' = Pending(v, a)
<1>1. SUFFICES ASSUME NEW v \in Users, NEW a \in Whitelisted PROVE Pending(v, a)' = Pending(v, a)
  OBVIOUS
<1>2. pool_info' = pool_info /\ a \in Assets /\ DOMAIN rewards = Users
  BY DEF RebondStep, Whitelisted, TypeOK
<1>3. CASE v = u
  <2>1. rewards'[u] = compute_all_rewards(u)
    BY <1>2 DEF RebondStep
  <2>2. a \in DOMAIN rewards'[u] /\ rewards'[u][a] = compute_asset_rewards(u, a)
    BY <2>1 DEF compute_all_rewards
  <2>3. bondedNext(u) \in Nat
    BY DEF RebondStep
  <2>a. PICK r : r = rewards'[u]
    OBVIOUS
  <2>b. PICK b \in Nat, n \in Nat : b = bondedNext(u) /\ n = Pending(u, a)
    BY <1>2, <2>3, ComputeType
  <2>4. r = rewards'[u] /\ b = bondedNext(u) /\ n = Pending(u, a)
    BY <2>a, <2>b
  <2>5. pool_info[a] \in Nat /\ a \in DOMAIN r /\ r[a] = [index |-> pool_info[a], pending_reward |-> n]
    BY <1>2, <2>2, <2>4, ComputeType
  <2>6. PendingOf(r, b, pool_info, a) = n
    BY <2>5, FreshEntry
  <2>7. Pending(u, a)' = PendingOf(r, b, pool_info, a)
    BY <1>2, <2>4, PendingNextIs
  <2>8. QED BY <1>3, <2>4, <2>6, <2>7
<1>4. CASE v # u
  <2>1. rewards'[v] = rewards[v] /\ bondedNext(v) = bonded(v)
    BY <1>2, <1>4 DEF RebondStep
  <2>2. QED BY <1>2, <2>1, PendingIs, PendingNextIs
<1>5. QED BY <1>3, <1>4

\* A claim leaves nothing pending of what it clears, and changes nothing else.
LEMMA ClaimPending ==
  ASSUME TypeOK, NEW u \in Users, NEW cleared, NEW sent, ClaimStep(u, cleared, sent)
  PROVE  \A v \in Users, a \in Assets :
           Pending(v, a)' = IF v = u /\ a \in cleared THEN 0 ELSE Pending(v, a)
<1>1. SUFFICES ASSUME NEW v \in Users, NEW a \in Assets
               PROVE  Pending(v, a)' = IF v = u /\ a \in cleared THEN 0 ELSE Pending(v, a)
  OBVIOUS
<1>2. pool_info' = pool_info /\ DOMAIN rewards = Users /\ bondedNext(v) = bonded(v)
  BY DEF ClaimStep, TypeOK, bondVars, bondedNext, bonded
<1>3. rewards' = [rewards EXCEPT ![u] =
         [x \in DOMAIN rewards[u] \cup cleared |->
            IF x \in cleared THEN [index |-> pool_info[x], pending_reward |-> 0] ELSE rewards[u][x]]]
  BY DEF ClaimStep
<1>4. CASE v = u /\ a \in cleared
  <2>a. PICK r : r = rewards'[u]
    OBVIOUS
  <2>b. PICK b \in Nat : b = bondedNext(u)
    BY <1>2, <1>4, BondedNat
  <2>1. r = rewards'[u] /\ b = bondedNext(u)
    BY <2>a, <2>b
  <2>2. pool_info[a] \in Nat /\ a \in DOMAIN r /\ r[a] = [index |-> pool_info[a], pending_reward |-> 0]
    BY <1>2, <1>3, <1>4, <2>1, ComputeType
  <2>3. PendingOf(r, b, pool_info, a) = 0
    BY <2>2, FreshEntry
  <2>4. QED BY <1>2, <1>4, <2>1, <2>3, PendingNextIs
<1>5. CASE ~ (v = u /\ a \in cleared)
  <2>1. a \in DOMAIN rewards'[v] <=> a \in DOMAIN rewards[v]
    BY <1>2, <1>3, <1>5
  <2>2. a \in DOMAIN rewards[v] => rewards'[v][a] = rewards[v][a]
    BY <1>2, <1>3, <1>5
  <2>3. PendingOf(rewards'[v], bonded(v), pool_info, a) = PendingOf(rewards[v], bonded(v), pool_info, a)
    BY <2>1, <2>2 DEF PendingOf
  <2>4. QED BY <1>2, <1>5, <2>3, PendingIs, PendingNextIs
<1>6. QED BY <1>4, <1>5

\* A deposit takes no rewards away.
LEMMA DepositPending ==
  ASSUME TypeOK, DepositStep
  PROVE  \A v \in Users, a \in Assets : Pending(v, a) <= Pending(v, a)'
<1>1. SUFFICES ASSUME NEW v \in Users, NEW a \in Assets PROVE Pending(v, a) <= Pending(v, a)'
  OBVIOUS
<1>2. PICK assets \in SUBSET Whitelisted, r \in Nat, q \in Nat : Deposited(assets, r, q)
  BY DEF DepositStep
<1>3. rewards' = rewards /\ bondedNext(v) = bonded(v)
  BY DEF DepositStep, bondVars, bondedNext, bonded
<1>4. PICK b \in Nat, P \in Nat : b = bonded(v) /\ P = pool_info[a]
  BY BondedNat, ComputeType
<1>5. PICK Q \in Nat : Q = pool_info'[a] /\ P <= Q
  BY <1>2, <1>4 DEF Deposited
<1>6. mul(b, P) \in Nat /\ mul(b, Q) \in Nat
  BY ONLY MulNat, b \in Nat, P \in Nat, Q \in Nat
<1>7. mul(b, P) <= mul(b, Q)
  <2>1. P <= Q /\ b <= b
    BY <1>5
  <2>2. QED BY ONLY <2>1, MulGrows, b \in Nat, P \in Nat, Q \in Nat
<1>8. CASE a \in DOMAIN rewards[v]
  <2>1. rewards[v][a] \in RewardInfo
    BY <1>8 DEF TypeOK
  <2>2. PICK i \in Nat, p \in Nat : i = rewards[v][a].index /\ p = rewards[v][a].pending_reward
    BY <2>1 DEF RewardInfo
  <2>3. PICK m \in Nat : m = mul(b, i)
    BY MulNat
  <2>4. Pending(v, a) = p + (mul(b, P) - m)
    BY <1>4, <1>8, <2>2, <2>3, PendingIs DEF PendingOf
  <2>5. Pending(v, a)' = p + (mul(b, Q) - m)
    BY <1>3, <1>4, <1>5, <1>8, <2>2, <2>3, PendingNextIs DEF PendingOf
  <2>6. QED BY <1>6, <1>7, <2>4, <2>5
<1>9. CASE a \notin DOMAIN rewards[v]
  BY <1>3, <1>9, PendingIs, PendingNextIs DEF PendingOf
<1>10. QED BY <1>8, <1>9

\* The other steps leave all rewards as they are.
LEMMA AdminPending ==
  ASSUME AdminStep
  PROVE  \A v, a : Pending(v, a)' = Pending(v, a)
<1>1. rewards' = rewards /\ pool_info' = pool_info /\ \A v : bondedNext(v) = bonded(v)
  BY DEF AdminStep, bondVars, bondedNext, bonded
<1>2. QED BY <1>1, PendingIs, PendingNextIs

\* No step that changes a bond changes what anyone has pending.
LEMMA BondingStep ==
  ASSUME TypeOK, [Next]_vars, bond_amounts' # bond_amounts
  PROVE  \A u \in Users, a \in Whitelisted : Pending(u, a)' = Pending(u, a)
<1>1. ~ DepositStep /\ ~ AdminStep /\ ~ \E u \in Users : \E cleared, sent : ClaimStep(u, cleared, sent)
  BY DEF DepositStep, AdminStep, ClaimStep, bondVars
<1>2. PICK u \in Users, d \in Int : RebondStep(u, d)
  BY <1>1, StepKinds
<1>3. QED BY <1>2, RebondPending

\* Bonding or unbonding changes nobody's rewards: a newcomer has no share in what
\* was deposited before, a leaver keeps what was earned (bond.rs, which brings the
\* entries up to date before it changes the bond).
THEOREM BondingMovesNoRewards == Spec => BondingEarnsNothing
<1>1. TypeOK /\ [Next]_vars
        => [bond_amounts' # bond_amounts =>
              \A u \in Users, a \in Whitelisted : Pending(u, a)' = Pending(u, a)]_vars
  BY BondingStep
<1>2. QED BY <1>1, TypeCorrect, PTL DEF Spec, BondingEarnsNothing

-----------------------------------------------------------------------------
\* What is pending of an asset, user by user, now and after a step.
PendingTable(a) == [u \in Users |-> Pending(u, a)]
PendingTableNext(a) == [u \in Users |-> Pending(u, a)']

LEMMA OwedIs ==
  ASSUME NEW a
  PROVE  /\ Owed(a) = SumFunctionOnSet(PendingTable(a), Users)
         /\ Owed(a)' = SumFunctionOnSet(PendingTableNext(a), Users)
  BY DEF Owed, PendingTable, PendingTableNext

\* What is pending is a natural, now and after a step.
PendingIsNat == \A u \in Users, a \in Assets : Pending(u, a) \in Nat

LEMMA PendingNat == TypeOK => PendingIsNat
  BY ComputeType DEF PendingIsNat

LEMMA PendingNatNext == TypeOK' => PendingIsNat'
  BY PendingNat, PTL

\* The tables hold naturals.
LEMMA TableNat ==
  ASSUME TypeOK, [Next]_vars, NEW a \in Assets
  PROVE  \A u \in Users : /\ PendingTable(a)[u] \in Nat /\ PendingTableNext(a)[u] \in Nat
                          /\ PendingTable(a)[u] = Pending(u, a)
                          /\ PendingTableNext(a)[u] = Pending(u, a)'
<1>1. PendingIsNat
  BY PendingNat
<1>2. TypeOK'
  BY TypeStep
<1>3. PendingIsNat'
  BY <1>2, PendingNatNext
<1>4. \A u \in Users : Pending(u, a) \in Nat /\ Pending(u, a)' \in Nat
  BY <1>1, <1>3 DEF PendingIsNat
<1>5. QED BY <1>4 DEF PendingTable, PendingTableNext

\* If nobody has less pending, no less is owed.
LEMMA OwedGrows ==
  ASSUME TypeOK, [Next]_vars, NEW a \in Assets, \A u \in Users : Pending(u, a) <= Pending(u, a)'
  PROVE  ~ (Owed(a)' < Owed(a))
<1>1. PICK f : f = PendingTable(a)
  OBVIOUS
<1>2. PICK h : h = PendingTableNext(a)
  OBVIOUS
<1>3. \A u \in Users : h[u] \in Nat /\ f[u] \in Nat /\ f[u] <= h[u]
  BY <1>1, <1>2, TableNat
<1>4. \A u \in Users : h[u] \in Nat /\ f[u] \in Nat /\ f[u] \in Nat /\ 1 * f[u] <= h[u] + 0 * f[u]
  BY ONLY <1>3
<1>5. IsFiniteSet(Users) /\ 1 \in Nat /\ 0 \in Nat
  BY YassetAssumption
<1>6. 1 * SumFunctionOnSet(f, Users) <= SumFunctionOnSet(h, Users) + 0 * SumFunctionOnSet(f, Users)
  BY ONLY <1>4, <1>5, SumBound
<1>7. SumFunctionOnSet(f, Users) \in Nat /\ SumFunctionOnSet(h, Users) \in Nat
  BY ONLY <1>3, <1>5, SumNat
<1>8. SumFunctionOnSet(f, Users) <= SumFunctionOnSet(h, Users)
  BY ONLY <1>6, <1>7
<1>9. QED BY <1>1, <1>2, <1>7, <1>8, OwedIs

\* If only u has another amount pending, as much more or less is owed.
LEMMA OwedChanges ==
  ASSUME TypeOK, [Next]_vars, NEW a \in Assets, NEW u \in Users,
         \A v \in Users \ {u} : Pending(v, a)' = Pending(v, a)
  PROVE  /\ Owed(a) \in Nat /\ Owed(a)' \in Nat /\ Pending(u, a) \in Nat /\ Pending(u, a)' \in Nat
         /\ Owed(a)' = Owed(a) - Pending(u, a) + Pending(u, a)'
<1>1. PICK f : f = PendingTable(a)
  OBVIOUS
<1>2. PICK h : h = PendingTableNext(a)
  OBVIOUS
<1>3. /\ \A v \in Users : f[v] \in Nat /\ h[v] \in Nat
      /\ \A v \in Users \ {u} : h[v] = f[v]
      /\ f[u] = Pending(u, a) /\ h[u] = Pending(u, a)'
  BY <1>1, <1>2, TableNat
<1>4. IsFiniteSet(Users)
  BY YassetAssumption
<1>5. SumFunctionOnSet(h, Users) = SumFunctionOnSet(f, Users) - f[u] + h[u]
  BY ONLY <1>3, <1>4, SumUpdate, u \in Users
<1>6. SumFunctionOnSet(f, Users) \in Nat /\ SumFunctionOnSet(h, Users) \in Nat
  BY ONLY <1>3, <1>4, SumNat
<1>7. Owed(a) = SumFunctionOnSet(f, Users) /\ Owed(a)' = SumFunctionOnSet(h, Users)
  BY <1>1, <1>2, OwedIs
<1>8. QED BY <1>3, <1>5, <1>6, <1>7

\* What a step clears it pays, or it is PRISM in a claim in xPRISM.
LEMMA ClearedStep ==
  ASSUME TypeOK, [Next]_vars, NEW a \in Whitelisted, Owed(a)' < Owed(a)
  PROVE  \/ LeavesWith(a)
         \/ a = PRISM /\ \E v \in Users : convert_and_claim_rewards(v, XPRISM)
<1>1. a \in Assets
  BY DEF Whitelisted
<1>2. \A v \in Users : Pending(v, a) \in Nat
  BY <1>1, PendingNat DEF PendingIsNat
<1>3. ASSUME NEW u \in Users, NEW d \in Int, RebondStep(u, d) PROVE FALSE
  <2>1. \A v \in Users : Pending(v, a)' = Pending(v, a)
    BY <1>3, RebondPending
  <2>2. \A v \in Users : Pending(v, a) <= Pending(v, a)'
    BY <1>2, <2>1
  <2>3. QED BY <1>1, <2>2, OwedGrows
<1>4. ASSUME DepositStep PROVE FALSE
  <2>1. \A v \in Users : Pending(v, a) <= Pending(v, a)'
    BY <1>1, <1>4, DepositPending
  <2>2. QED BY <1>1, <2>1, OwedGrows
<1>5. ASSUME AdminStep PROVE FALSE
  <2>1. \A v \in Users : Pending(v, a)' = Pending(v, a)
    BY <1>5, AdminPending
  <2>2. \A v \in Users : Pending(v, a) <= Pending(v, a)'
    BY <1>2, <2>1
  <2>3. QED BY <1>1, <2>2, OwedGrows
<1>6. ASSUME NEW u \in Users, NEW cleared, NEW sent, ClaimStep(u, cleared, sent)
      PROVE  \/ LeavesWith(a)
             \/ a = PRISM /\ \E v \in Users : convert_and_claim_rewards(v, XPRISM)
  <2>1. \A v \in Users : Pending(v, a)' = IF v = u /\ a \in cleared THEN 0 ELSE Pending(v, a)
    BY <1>1, <1>6, ClaimPending
  <2>2. a \in cleared
    <3>1. SUFFICES ASSUME a \notin cleared PROVE FALSE
      OBVIOUS
    <3>2. \A v \in Users : Pending(v, a) <= Pending(v, a)'
      BY <1>2, <2>1, <3>1
    <3>3. QED BY <1>1, <3>2, OwedGrows
  <2>3. \A v \in Users \ {u} : Pending(v, a)' = Pending(v, a)
    BY <2>1
  <2>4. /\ Owed(a) \in Nat /\ Owed(a)' \in Nat /\ Pending(u, a) \in Nat
        /\ Owed(a)' = Owed(a) - Pending(u, a) + Pending(u, a)'
    BY <1>1, <2>3, OwedChanges
  <2>5. Pending(u, a)' = 0
    BY <2>1, <2>2
  <2>6. held[a] \in Nat /\ held' = [x \in Assets |-> IF x \in sent THEN held[x] - Pending(u, x) ELSE held[x]]
    BY <1>1, <1>6 DEF TypeOK, ClaimStep
  <2>7. CASE a \in sent
    <3>1. held'[a] = held[a] - Pending(u, a)
      BY <1>1, <2>6, <2>7
    <3>2. held[a] - held'[a] = Pending(u, a)
      BY <2>4, <2>6, <3>1
    <3>3. Owed(a) - Owed(a)' = Pending(u, a)
      BY <2>4, <2>5
    <3>4. QED BY <2>4, <3>2, <3>3 DEF LeavesWith
  <2>8. CASE a \notin sent
    <3>1. a = PRISM /\ cleared # sent
      BY <1>6, <2>2, <2>8 DEF ClaimStep
    <3>2. convert_and_claim_rewards(u, XPRISM)
      BY <1>6, <3>1 DEF ClaimStep
    <3>3. QED BY <3>1, <3>2
  <2>9. QED BY <2>7, <2>8
<1>7. QED BY <1>3, <1>4, <1>5, <1>6, StepKinds

\* Rewards that a step clears have left the contract, all of them: whatever claim_rewards
\* and convert_and_claim_rewards reset they pay, but for the PRISM that a claim in xPRISM,
\* and no other step, skips as the asset it swaps to (rewards.rs).
THEOREM ClearedRewardsLeave == Spec => ClearedLeaves
<1>1. TypeOK /\ [Next]_vars
        => [\A a \in Whitelisted : Cleared(a) =>
              \/ LeavesWith(a)
              \/ a = PRISM /\ \E u \in Users : convert_and_claim_rewards(u, XPRISM)]_vars
  BY ClearedStep DEF Cleared
<1>2. QED BY <1>1, TypeCorrect, PTL DEF Spec, ClearedLeaves

-----------------------------------------------------------------------------
\* What an entry stands for without rounding, in units of 1 / ONE: the pending reward,
\* and all a bond b earned at the index P, less what was counted at the index i.
Exact(p, i, b, P) == ONE * p + (b * P - ONE * mul(b, i))

\* It is at least what is pending at P, and less than one unit more.
LEMMA ExactBounds ==
  ASSUME NEW p \in Nat, NEW i \in Nat, NEW b \in Nat, NEW P \in Nat, i <= P
  PROVE  /\ p + (mul(b, P) - mul(b, i)) \in Nat
         /\ Exact(p, i, b, P) \in Nat
         /\ ONE * (p + (mul(b, P) - mul(b, i))) <= Exact(p, i, b, P)
         /\ Exact(p, i, b, P) <= ONE * (p + (mul(b, P) - mul(b, i))) + ONE
         /\ ONE * p <= Exact(p, i, b, P)
<1>1. PICK o \in Nat \ {0} : o = ONE
  BY OnePos
<1>2. PICK mi \in Nat, mp \in Nat : mi = mul(b, i) /\ mp = mul(b, P)
  BY MulNat
<1>3. mi <= mp
  <2>1. b <= b OBVIOUS
  <2>2. QED BY <1>2, <2>1, MulGrows
<1>4. PICK bp \in Nat, op \in Nat, omi \in Nat, omp \in Nat :
         bp = b * P /\ op = o * p /\ omi = o * mi /\ omp = o * mp
  <2>1. b * P \in Nat /\ o * p \in Nat /\ o * mi \in Nat /\ o * mp \in Nat
    OBVIOUS
  <2>2. QED BY ONLY <2>1, Zenon
<1>5. omp <= bp /\ bp < omp + o
  BY <1>1, <1>2, <1>4, MulRest
<1>6. omi <= omp
  BY <1>3, <1>4
<1>7. Exact(p, i, b, P) = op + (bp - omi)
  BY <1>1, <1>2, <1>4 DEF Exact
<1>8. PICK n \in Nat : n = p + (mp - mi)
  BY <1>3
<1>9. o * n = op + (omp - omi)
  BY <1>4, <1>8
<1>10. /\ op + (bp - omi) \in Nat /\ op + (omp - omi) <= op + (bp - omi)
       /\ op + (bp - omi) <= op + (omp - omi) + o /\ op <= op + (bp - omi)
  BY <1>5, <1>6
<1>11. QED BY <1>1, <1>2, <1>4, <1>7, <1>8, <1>9, <1>10

\* Clearing what is pending takes as much from it.
LEMMA ExactCleared ==
  ASSUME NEW p \in Nat, NEW i \in Nat, NEW b \in Nat, NEW P \in Nat, i <= P
  PROVE  Exact(0, P, b, P) = Exact(p, i, b, P) - ONE * (p + (mul(b, P) - mul(b, i)))
<1>1. PICK o \in Nat \ {0} : o = ONE
  BY OnePos
<1>2. PICK mi \in Nat, mp \in Nat : mi = mul(b, i) /\ mp = mul(b, P)
  BY MulNat
<1>3. PICK bp \in Nat, op \in Nat, omi \in Nat, omp \in Nat :
         bp = b * P /\ op = o * p /\ omi = o * mi /\ omp = o * mp
  <2>1. b * P \in Nat /\ o * p \in Nat /\ o * mi \in Nat /\ o * mp \in Nat
    OBVIOUS
  <2>2. QED BY ONLY <2>1, Zenon
<1>4. o * (p + (mp - mi)) = op + (omp - omi) /\ o * 0 = 0
  BY <1>3
<1>5. Exact(0, P, b, P) = 0 + (bp - omp) /\ Exact(p, i, b, P) = op + (bp - omi)
  BY <1>1, <1>2, <1>3, <1>4 DEF Exact
<1>6. QED BY <1>1, <1>2, <1>3, <1>4, <1>5

\* What a bond b earns, unrounded, when an index rises by q.
Gain(q, b) == q * b

\* A deposit adds it.
LEMMA ExactEarns ==
  ASSUME NEW p \in Nat, NEW i \in Nat, NEW b \in Nat, NEW P \in Nat, NEW q \in Nat,
         NEW Q, Q = P + q
  PROVE  Exact(p, i, b, Q) = Exact(p, i, b, P) + Gain(q, b)
<1>1. PICK o \in Nat \ {0} : o = ONE
  BY OnePos
<1>2. PICK mi \in Nat : mi = mul(b, i)
  BY MulNat
<1>3. PICK bp \in Nat, op \in Nat, omi \in Nat, qb \in Nat :
         bp = b * P /\ op = o * p /\ omi = o * mi /\ qb = q * b
  <2>1. b * P \in Nat /\ o * p \in Nat /\ o * mi \in Nat /\ q * b \in Nat
    OBVIOUS
  <2>2. QED BY ONLY <2>1, Zenon
<1>4. b * Q = bp + qb
  BY <1>3
<1>5. QED BY <1>1, <1>2, <1>3, <1>4 DEF Exact, Gain

\* Where nothing was ever earned the bond does not matter.
LEMMA ExactIdle ==
  ASSUME NEW p \in Nat, NEW b \in Nat
  PROVE  Exact(p, 0, b, 0) = ONE * p
<1>1. PICK o \in Nat \ {0} : o = ONE
  BY OnePos
<1>2. b * 0 = 0 /\ o * p \in Nat /\ mul(b, 0) \in Nat
  BY MulNat
<1>3. o * mul(b, 0) <= b * 0
  BY <1>1, MulRest
<1>4. o * mul(b, 0) = 0
  BY <1>2, <1>3
<1>5. QED BY <1>1, <1>2, <1>4 DEF Exact

-----------------------------------------------------------------------------
\* The entry of an asset in a table of entries; without one, nothing was counted.
PendOf(r, a) == IF a \in DOMAIN r THEN r[a].pending_reward ELSE 0
IndexOf(r, a) == IF a \in DOMAIN r THEN r[a].index ELSE 0

\* What a user's bond has earned of an asset and not been paid, unrounded.
EarnedOf(r, b, P, a) == Exact(PendOf(r, a), IndexOf(r, a), b, P[a])
Earned(u, a) == EarnedOf(rewards[u], bonded(u), pool_info, a)
EarnedTable(a) == [u \in Users |-> Earned(u, a)]
EarnedSum(a) == SumFunctionOnSet(EarnedTable(a), Users)

\* What holds of every entry.
EntryOK ==
  \A u \in Users, a \in Assets :
    /\ bonded(u) \in Nat /\ pool_info[a] \in Nat /\ Pending(u, a) \in Nat
    /\ PendOf(rewards[u], a) \in Nat /\ IndexOf(rewards[u], a) \in Nat
    /\ IndexOf(rewards[u], a) <= pool_info[a]
    /\ Earned(u, a) \in Nat
    /\ ONE * Pending(u, a) <= Earned(u, a)
    /\ Pending(u, a) <= PendOf(rewards[u], a)
                          + (mul(bonded(u), pool_info[a]) - mul(bonded(u), IndexOf(rewards[u], a)))

LEMMA EntriesAreOK == TypeOK => EntryOK
<1>1. SUFFICES ASSUME TypeOK, NEW u \in Users, NEW a \in Assets
               PROVE  /\ bonded(u) \in Nat /\ pool_info[a] \in Nat /\ Pending(u, a) \in Nat
                      /\ PendOf(rewards[u], a) \in Nat /\ IndexOf(rewards[u], a) \in Nat
                      /\ IndexOf(rewards[u], a) <= pool_info[a]
                      /\ Earned(u, a) \in Nat
                      /\ ONE * Pending(u, a) <= Earned(u, a)
                      /\ Pending(u, a) <= PendOf(rewards[u], a)
                          + (mul(bonded(u), pool_info[a]) - mul(bonded(u), IndexOf(rewards[u], a)))
  BY DEF EntryOK
<1>2. PICK b \in Nat, P \in Nat, n \in Nat : b = bonded(u) /\ P = pool_info[a] /\ n = Pending(u, a)
  <2>1. bonded(u) \in Nat /\ pool_info[a] \in Nat /\ Pending(u, a) \in Nat
    BY <1>1, BondedNat, ComputeType
  <2>2. QED BY ONLY <2>1, Zenon
<1>3. PICK p \in Nat, i \in Nat : p = PendOf(rewards[u], a) /\ i = IndexOf(rewards[u], a) /\ i <= P
  <2>1. CASE a \in DOMAIN rewards[u]
    <3>1. rewards[u][a] \in RewardInfo /\ rewards[u][a].index <= pool_info[a]
      BY <1>1, <2>1 DEF TypeOK
    <3>2. QED BY <1>2, <2>1, <3>1 DEF RewardInfo, PendOf, IndexOf
  <2>2. CASE a \notin DOMAIN rewards[u]
    BY <1>2, <2>2 DEF PendOf, IndexOf
  <2>3. QED BY <2>1, <2>2
<1>4. PICK c \in Nat : c = p + (mul(b, P) - mul(b, i))
  BY <1>3, ExactBounds
<1>5. Exact(p, i, b, P) \in Nat /\ ONE * c <= Exact(p, i, b, P)
  BY <1>3, <1>4, ExactBounds
<1>6. Earned(u, a) = Exact(p, i, b, P)
  BY <1>2, <1>3 DEF Earned, EarnedOf
<1>7. n <= c
  <2>1. CASE a \in DOMAIN rewards[u]
    <3>1. n = c
      BY <1>2, <1>3, <1>4, <2>1, PendingIs DEF PendingOf, PendOf, IndexOf
    <3>2. QED BY <3>1
  <2>2. CASE a \notin DOMAIN rewards[u]
    <3>1. n = 0
      BY <1>2, <2>2, PendingIs DEF PendingOf
    <3>2. QED BY <3>1
  <2>3. QED BY <2>1, <2>2
<1>8. ONE * n <= Exact(p, i, b, P)
  <2>1. PICK o \in Nat : o = ONE
    BY OnePos
  <2>2. o * n <= o * c
    BY <1>7
  <2>3. QED BY <1>5, <2>1, <2>2
<1>9. QED BY <1>2, <1>3, <1>4, <1>5, <1>6, <1>7, <1>8

LEMMA EntriesAreOKNext == TypeOK' => EntryOK'
  BY EntriesAreOK, PTL

LEMMA EarnedNextIs ==
  \A u, a : Earned(u, a)' = EarnedOf(rewards'[u], bondedNext(u), pool_info', a)
  BY DEF Earned, EarnedOf, PendOf, IndexOf, bonded, bondedNext, Exact

\* What is earned after a step, user by user.
EarnedTableNext(a) == [u \in Users |-> Earned(u, a)']

LEMMA EarnedSumNextIs ==
  ASSUME NEW a
  PROVE  EarnedSum(a)' = SumFunctionOnSet(EarnedTableNext(a), Users)
  BY DEF EarnedSum, EarnedTable, EarnedTableNext

\* The facts about the sums that every step needs.
LEMMA EarnedTables ==
  ASSUME TypeOK, [Next]_vars, NEW a \in Assets
  PROVE  /\ \A u \in Users : /\ EarnedTable(a)[u] = Earned(u, a) /\ Earned(u, a) \in Nat
                             /\ EarnedTableNext(a)[u] = Earned(u, a)' /\ Earned(u, a)' \in Nat
         /\ EarnedSum(a) \in Nat /\ EarnedSum(a)' \in Nat
<1>1. TypeOK'
  BY TypeStep
<1>2. EntryOK /\ EntryOK'
  BY <1>1, EntriesAreOK, EntriesAreOKNext
<1>3. \A u \in Users : Earned(u, a) \in Nat /\ Earned(u, a)' \in Nat
  BY <1>2 DEF EntryOK
<1>4. \A u \in Users : EarnedTable(a)[u] = Earned(u, a) /\ EarnedTableNext(a)[u] = Earned(u, a)'
  BY DEF EarnedTable, EarnedTableNext
<1>5. PICK f : f = EarnedTable(a)
  OBVIOUS
<1>6. PICK h : h = EarnedTableNext(a)
  OBVIOUS
<1>7. (\A u \in Users : f[u] \in Nat) /\ (\A u \in Users : h[u] \in Nat) /\ IsFiniteSet(Users)
  BY <1>3, <1>4, <1>5, <1>6, YassetAssumption
<1>8. SumFunctionOnSet(f, Users) \in Nat /\ SumFunctionOnSet(h, Users) \in Nat
  BY ONLY <1>7, SumNat
<1>9. QED BY <1>3, <1>4, <1>5, <1>6, <1>8, EarnedSumNextIs DEF EarnedSum

\* A change of one user's entry is one of the sum.
LEMMA EarnedChanges ==
  ASSUME TypeOK, [Next]_vars, NEW a \in Assets, NEW u \in Users,
         \A v \in Users \ {u} : Earned(v, a)' = Earned(v, a)
  PROVE  EarnedSum(a)' = EarnedSum(a) - Earned(u, a) + Earned(u, a)'
<1>1. PICK f : f = EarnedTable(a)
  OBVIOUS
<1>2. PICK h : h = EarnedTableNext(a)
  OBVIOUS
<1>3. /\ \A v \in Users : f[v] \in Nat /\ h[v] \in Nat
      /\ \A v \in Users \ {u} : h[v] = f[v]
      /\ f[u] = Earned(u, a) /\ h[u] = Earned(u, a)'
  BY <1>1, <1>2, EarnedTables
<1>4. IsFiniteSet(Users)
  BY YassetAssumption
<1>5. SumFunctionOnSet(h, Users) = SumFunctionOnSet(f, Users) - f[u] + h[u]
  BY ONLY <1>3, <1>4, SumUpdate, u \in Users
<1>6. QED BY <1>1, <1>2, <1>3, <1>5, EarnedSumNextIs DEF EarnedSum

-----------------------------------------------------------------------------
\* The bonds add up to the total.
BondsAddUp == total_bond_amount = SumFunctionOnSet([u \in Users |-> bonded(u)], Users)

\* Nothing was ever earned of an asset that was never listed.
IdleIndexes == \A a \in Assets \ (Whitelisted \cup removed) : pool_info[a] = 0

\* The bonds and all that was earned, unrounded, are held, up to a unit for each bond
\* or unbond so far.
CoveredFor(a) == ONE * Principal(a) + EarnedSum(a) <= ONE * (held[a] + rebonds)

\* The inductive invariant behind RewardsCovered: what is pending is rounded down, so
\* sums of it cannot be followed from step to step; what is earned can.
RewardInv ==
  /\ TypeOK /\ BondsAddUp /\ IdleIndexes
  /\ \A a \in Assets \ removed : CoveredFor(a)

\* A bond or an unbond of u adds less than a unit to what is earned.
LEMMA RebondEarned ==
  ASSUME TypeOK, IdleIndexes, [Next]_vars, NEW u \in Users, NEW d \in Int, RebondStep(u, d),
         NEW a \in Assets, a \notin removed
  PROVE  EarnedSum(a)' <= EarnedSum(a) + ONE
<1>1. EntryOK
  BY EntriesAreOK
<1>2. pool_info' = pool_info /\ DOMAIN rewards = Users
      /\ rewards' = [rewards EXCEPT ![u] = compute_all_rewards(u)]
      /\ \A v \in Users \ {u} : bondedNext(v) = bonded(v)
  BY DEF RebondStep, TypeOK
<1>3. PICK b \in Nat, c \in Nat, P \in Nat, n \in Nat :
        b = bonded(u) /\ c = bondedNext(u) /\ P = pool_info[a] /\ n = Pending(u, a)
  <2>1. bonded(u) \in Nat /\ bondedNext(u) \in Nat /\ pool_info[a] \in Nat /\ Pending(u, a) \in Nat
    BY <1>1 DEF EntryOK, RebondStep
  <2>2. QED BY ONLY <2>1, Zenon
<1>4. PICK p \in Nat, i \in Nat : p = PendOf(rewards[u], a) /\ i = IndexOf(rewards[u], a) /\ i <= P
  BY <1>1, <1>3 DEF EntryOK
<1>5. \A v \in Users \ {u} : Earned(v, a)' = Earned(v, a)
  <2>1. \A v \in Users \ {u} : rewards'[v] = rewards[v]
    BY <1>2
  <2>2. QED BY <1>2, <2>1, EarnedNextIs DEF Earned
<1>6. EarnedSum(a)' = EarnedSum(a) - Earned(u, a) + Earned(u, a)'
  BY <1>5, EarnedChanges
<1>7. Earned(u, a)' <= Earned(u, a) + ONE
  <2>1. CASE a \in Whitelisted
    <3>1. PICK r : r = rewards'[u]
      OBVIOUS
    <3>2. a \in DOMAIN r /\ r[a] = [index |-> P, pending_reward |-> n]
      BY <1>2, <1>3, <2>1, <3>1, ComputeType DEF compute_all_rewards
    <3>3. PendOf(r, a) = n /\ IndexOf(r, a) = P
      BY <3>2 DEF PendOf, IndexOf
    <3>4. Earned(u, a)' = Exact(n, P, c, P)
      BY <1>2, <1>3, <3>1, <3>3, EarnedNextIs DEF EarnedOf
    <3>5. P <= P /\ mul(c, P) \in Nat
      BY MulNat
    <3>6. Exact(n, P, c, P) <= ONE * (n + (mul(c, P) - mul(c, P))) + ONE
      BY <3>5, ExactBounds
    <3>7. n + (mul(c, P) - mul(c, P)) = n
      BY <3>5
    <3>8. Exact(n, P, c, P) <= ONE * n + ONE
      BY <3>6, <3>7
    <3>9. ONE * n <= Earned(u, a) /\ Earned(u, a) \in Nat
      BY <1>1, <1>3 DEF EntryOK
    <3>10. PICK o \in Nat, on \in Nat : o = ONE /\ on = ONE * n
      BY OnePos
    <3>11. Exact(n, P, c, P) \in Nat
      BY <3>5, ExactBounds
    <3>12. QED BY <3>4, <3>8, <3>9, <3>10, <3>11
  <2>2. CASE a \notin Whitelisted
    <3>1. P = 0 /\ i = 0
      BY <1>3, <1>4, <2>2 DEF IdleIndexes
    <3>2. PICK r : r = rewards'[u]
      OBVIOUS
    <3>3. (a \in DOMAIN r <=> a \in DOMAIN rewards[u]) /\ (a \in DOMAIN rewards[u] => r[a] = rewards[u][a])
      BY <1>2, <2>2, <3>2 DEF compute_all_rewards
    <3>4. PendOf(r, a) = p /\ IndexOf(r, a) = i
      BY <1>4, <3>3 DEF PendOf, IndexOf
    <3>5. Earned(u, a)' = Exact(p, 0, c, 0)
      BY <1>2, <1>3, <3>1, <3>2, <3>4, EarnedNextIs DEF EarnedOf
    <3>6. Earned(u, a) = Exact(p, 0, b, 0)
      BY <1>3, <1>4, <3>1 DEF Earned, EarnedOf
    <3>7. Exact(p, 0, c, 0) = ONE * p /\ Exact(p, 0, b, 0) = ONE * p
      BY ExactIdle
    <3>8. PICK o \in Nat, op \in Nat : o = ONE /\ op = ONE * p
      BY OnePos
    <3>9. QED BY <3>5, <3>6, <3>7, <3>8
  <2>3. QED BY <2>1, <2>2
<1>8. PICK o \in Nat : o = ONE
  BY OnePos
<1>9. Earned(u, a) \in Nat /\ Earned(u, a)' \in Nat /\ EarnedSum(a) \in Nat /\ EarnedSum(a)' \in Nat
  BY EarnedTables
<1>10. QED BY <1>6, <1>7, <1>8, <1>9

\* A claim takes what it pays from what is earned.
LEMMA ClaimEarned ==
  ASSUME TypeOK, [Next]_vars, NEW u \in Users, NEW cleared, NEW sent, ClaimStep(u, cleared, sent),
         NEW a \in Assets
  PROVE  EarnedSum(a)' <= EarnedSum(a) - (IF a \in cleared THEN ONE * Pending(u, a) ELSE 0)
<1>1. EntryOK
  BY EntriesAreOK
<1>2. pool_info' = pool_info /\ DOMAIN rewards = Users /\ \A v \in Users : bondedNext(v) = bonded(v)
  BY DEF ClaimStep, TypeOK, bondVars, bondedNext, bonded
<1>3. rewards' = [rewards EXCEPT ![u] =
         [x \in DOMAIN rewards[u] \cup cleared |->
            IF x \in cleared THEN [index |-> pool_info[x], pending_reward |-> 0] ELSE rewards[u][x]]]
  BY DEF ClaimStep
<1>4. PICK b \in Nat, P \in Nat, n \in Nat : b = bonded(u) /\ P = pool_info[a] /\ n = Pending(u, a)
  <2>1. bonded(u) \in Nat /\ pool_info[a] \in Nat /\ Pending(u, a) \in Nat
    BY <1>1 DEF EntryOK
  <2>2. QED BY ONLY <2>1, Zenon
<1>5. PICK p \in Nat, i \in Nat : p = PendOf(rewards[u], a) /\ i = IndexOf(rewards[u], a) /\ i <= P
  BY <1>1, <1>4 DEF EntryOK
<1>6. \A v \in Users \ {u} : Earned(v, a)' = Earned(v, a)
  <2>1. \A v \in Users \ {u} : rewards'[v] = rewards[v]
    BY <1>2, <1>3
  <2>2. QED BY <1>2, <2>1, EarnedNextIs DEF Earned
<1>7. EarnedSum(a)' = EarnedSum(a) - Earned(u, a) + Earned(u, a)'
  BY <1>6, EarnedChanges
<1>8. PICK r : r = rewards'[u]
  OBVIOUS
<1>9. Earned(u, a) \in Nat /\ Earned(u, a)' \in Nat /\ EarnedSum(a) \in Nat /\ EarnedSum(a)' \in Nat
  BY EarnedTables
<1>10. CASE a \in cleared
  <2>1. a \in DOMAIN r /\ r[a] = [index |-> P, pending_reward |-> 0]
    BY <1>2, <1>3, <1>4, <1>8, <1>10
  <2>2. PendOf(r, a) = 0 /\ IndexOf(r, a) = P
    BY <2>1 DEF PendOf, IndexOf
  <2>3. Earned(u, a)' = Exact(0, P, b, P)
    BY <1>2, <1>4, <1>8, <2>2, EarnedNextIs DEF EarnedOf
  <2>4. Earned(u, a) = Exact(p, i, b, P)
    BY <1>4, <1>5 DEF Earned, EarnedOf
  <2>5. PICK c \in Nat : c = p + (mul(b, P) - mul(b, i))
    BY <1>5, ExactBounds
  <2>6. Exact(0, P, b, P) = Exact(p, i, b, P) - ONE * c
    BY <1>5, <2>5, ExactCleared
  <2>7. n <= c
    BY <1>1, <1>4, <1>5, <2>5 DEF EntryOK
  <2>8. PICK o \in Nat : o = ONE
    BY OnePos
  <2>9. o * n <= o * c /\ o * n \in Nat /\ o * c \in Nat
    BY <2>7
  <2>10. Earned(u, a)' <= Earned(u, a) - o * n
    BY <1>9, <2>3, <2>4, <2>6, <2>8, <2>9
  <2>11. EarnedSum(a)' <= EarnedSum(a) - o * n
    BY <1>7, <1>9, <2>9, <2>10
  <2>12. QED BY <1>4, <1>10, <2>8, <2>11
<1>11. CASE a \notin cleared
  <2>1. (a \in DOMAIN r <=> a \in DOMAIN rewards[u]) /\ (a \in DOMAIN rewards[u] => r[a] = rewards[u][a])
    BY <1>2, <1>3, <1>8, <1>11
  <2>2. PendOf(r, a) = p /\ IndexOf(r, a) = i
    BY <1>5, <2>1 DEF PendOf, IndexOf
  <2>3. Earned(u, a)' = Earned(u, a)
    BY <1>2, <1>4, <1>5, <1>8, <2>2, EarnedNextIs DEF Earned, EarnedOf
  <2>4. QED BY <1>7, <1>9, <1>11, <2>3
<1>12. QED BY <1>10, <1>11

\* A deposit adds, to what is earned, no more than is kept for it.
LEMMA DepositEarned ==
  ASSUME TypeOK, BondsAddUp, DepositStep, [Next]_vars,
         NEW assets, NEW reward \in Nat, NEW rate \in Nat, Deposited(assets, reward, rate),
         NEW a \in Assets
  PROVE  EarnedSum(a)' <= EarnedSum(a) + (IF a \in assets THEN ONE * reward ELSE 0)
<1>1. EntryOK
  BY EntriesAreOK
<1>2. rewards' = rewards /\ \A v \in Users : bondedNext(v) = bonded(v)
  BY DEF DepositStep, bondVars, bondedNext, bonded
<1>3. PICK q \in Nat : q = IF a \in assets THEN rate ELSE 0
  OBVIOUS
<1>4. PICK P \in Nat : P = pool_info[a]
  BY DEF TypeOK
<1>a. PICK Q \in Nat : Q = P + q
  OBVIOUS
<1>5. pool_info'[a] = Q
  BY <1>a, <1>3, <1>4 DEF Deposited
<1>6. ASSUME NEW v \in Users PROVE Earned(v, a)' = Earned(v, a) + q * bonded(v)
  <2>1. PICK b \in Nat : b = bonded(v)
    BY <1>1 DEF EntryOK
  <2>2. PICK p \in Nat, i \in Nat : p = PendOf(rewards[v], a) /\ i = IndexOf(rewards[v], a) /\ i <= P
    BY <1>1, <1>4 DEF EntryOK
  <2>3. Exact(p, i, b, Q) = Exact(p, i, b, P) + q * b
    <3>1. Exact(p, i, b, Q) = Exact(p, i, b, P) + Gain(q, b)
      BY ONLY <1>a, ExactEarns, p \in Nat, i \in Nat, b \in Nat, P \in Nat, q \in Nat
    <3>2. QED BY <3>1 DEF Gain
  <2>4. Earned(v, a) = Exact(p, i, b, P)
    BY <1>4, <2>1, <2>2 DEF Earned, EarnedOf
  <2>5. Earned(v, a)' = Exact(p, i, b, Q)
    BY <1>2, <1>5, <2>1, <2>2, EarnedNextIs DEF EarnedOf
  <2>6. QED BY <2>1, <2>3, <2>4, <2>5
<1>7. PICK f : f = EarnedTable(a)
  OBVIOUS
<1>8. PICK h : h = EarnedTableNext(a)
  OBVIOUS
<1>9. PICK g : g = [v \in Users |-> bonded(v)]
  OBVIOUS
<1>10. \A v \in Users : f[v] \in Nat /\ g[v] \in Nat /\ h[v] \in Nat /\ h[v] = f[v] + q * g[v]
  BY <1>1, <1>6, <1>7, <1>8, <1>9, EarnedTables DEF EntryOK
<1>11. \A v \in Users : f[v] \in Nat /\ g[v] \in Nat /\ h[v] \in Nat /\ 1 * h[v] <= f[v] + q * g[v]
  <2>1. SUFFICES ASSUME NEW v \in Users
                 PROVE  f[v] \in Nat /\ g[v] \in Nat /\ h[v] \in Nat /\ 1 * h[v] <= f[v] + q * g[v]
    OBVIOUS
  <2>2. PICK k \in Nat : k = q * g[v]
    BY <1>10
  <2>3. QED BY <1>10, <2>2
<1>12. IsFiniteSet(Users) /\ 1 \in Nat
  BY YassetAssumption
<1>13. 1 * SumFunctionOnSet(h, Users) <= SumFunctionOnSet(f, Users) + q * SumFunctionOnSet(g, Users)
  BY ONLY <1>11, <1>12, SumBound, q \in Nat
<1>14. PICK T \in Nat : T = total_bond_amount /\ T = SumFunctionOnSet(g, Users)
  BY <1>9 DEF BondsAddUp, TypeOK
<1>15. PICK F \in Nat, H \in Nat : F = EarnedSum(a) /\ H = EarnedSum(a)'
  BY EarnedTables
<1>16. SumFunctionOnSet(h, Users) = H /\ SumFunctionOnSet(f, Users) = F
  BY <1>7, <1>8, <1>15, EarnedSumNextIs DEF EarnedSum
<1>17. 1 * H <= F + q * T
  BY <1>13, <1>14, <1>16
<1>18. H <= F + q * T
  <2>1. PICK k \in Nat : k = q * T
    OBVIOUS
  <2>2. QED BY <1>17, <2>1
<1>19. PICK o \in Nat : o = ONE
  BY OnePos
<1>20. CASE a \in assets
  <2>1. q * T <= reward * o
    BY <1>3, <1>14, <1>19, <1>20 DEF Deposited
  <2>2. PICK k \in Nat, m \in Nat : k = q * T /\ m = o * reward
    <3>1. q * T \in Nat /\ o * reward \in Nat
      OBVIOUS
    <3>2. QED BY ONLY <3>1, Zenon
  <2>3. m = reward * o
    BY <2>2
  <2>4. H <= F + m
    BY <1>18, <2>1, <2>2, <2>3
  <2>5. QED BY <1>15, <1>19, <1>20, <2>2, <2>4
<1>21. CASE a \notin assets
  <2>1. q * T = 0
    BY <1>3, <1>21
  <2>2. QED BY <1>15, <1>18, <1>21, <2>1
<1>22. QED BY <1>20, <1>21

-----------------------------------------------------------------------------
\* The sum of the bonds follows the total.
LEMMA BondsStep ==
  ASSUME TypeOK, BondsAddUp, [Next]_vars
  PROVE  BondsAddUp'
<1>1. PICK g : g = [u \in Users |-> bonded(u)]
  OBVIOUS
<1>2. PICK h : h = [u \in Users |-> bondedNext(u)]
  OBVIOUS
<1>3. total_bond_amount = SumFunctionOnSet(g, Users)
  BY <1>1 DEF BondsAddUp
<1>4. SUFFICES total_bond_amount' = SumFunctionOnSet(h, Users)
  BY <1>2 DEF BondsAddUp, bonded, bondedNext
<1>5. ASSUME NEW u \in Users, NEW d \in Int, RebondStep(u, d)
      PROVE  total_bond_amount' = SumFunctionOnSet(h, Users)
  <2>1. /\ \A v \in Users : g[v] \in Nat /\ h[v] \in Nat
        /\ \A v \in Users \ {u} : h[v] = g[v]
    BY <1>1, <1>2, <1>5, BondedNat DEF RebondStep
  <2>2. IsFiniteSet(Users)
    BY YassetAssumption
  <2>3. SumFunctionOnSet(h, Users) = SumFunctionOnSet(g, Users) - g[u] + h[u]
    BY ONLY <2>1, <2>2, SumUpdate, u \in Users
  <2>4. h[u] = g[u] + d /\ total_bond_amount' = total_bond_amount + d /\ total_bond_amount \in Nat
    BY <1>1, <1>2, <1>5 DEF RebondStep, TypeOK
  <2>5. QED BY <1>3, <2>1, <2>3, <2>4
<1>6. ASSUME UNCHANGED bondVars PROVE total_bond_amount' = SumFunctionOnSet(h, Users)
  <2>1. total_bond_amount' = total_bond_amount /\ \A u : bondedNext(u) = bonded(u)
    BY <1>6 DEF bondVars, bonded, bondedNext
  <2>2. h = g
    BY <1>1, <1>2, <2>1
  <2>3. QED BY <1>3, <2>1, <2>2
<1>7. QED BY <1>5, <1>6, StepKinds DEF DepositStep, ClaimStep, AdminStep

\* The index of an asset never listed stays zero.
LEMMA IdleStep ==
  ASSUME TypeOK, IdleIndexes, [Next]_vars
  PROVE  IdleIndexes'
<1>1. ASSUME UNCHANGED <<configVars, pool_info>> PROVE IdleIndexes'
  BY <1>1 DEF IdleIndexes, Whitelisted, configVars
<1>2. ASSUME DepositStep PROVE IdleIndexes'
  <2>1. PICK assets \in SUBSET Whitelisted, r \in Nat, q \in Nat : Deposited(assets, r, q)
    BY <1>2 DEF DepositStep
  <2>2. Whitelisted' = Whitelisted /\ removed' = removed
    BY <1>2 DEF DepositStep, Whitelisted, configVars
  <2>3. \A a \in Assets \ (Whitelisted \cup removed) : pool_info'[a] = pool_info[a]
    BY <2>1 DEF Deposited
  <2>4. QED BY <2>2, <2>3 DEF IdleIndexes
<1>3. ASSUME AdminStep PROVE IdleIndexes'
  BY <1>3 DEF AdminStep, IdleIndexes
<1>4. QED BY <1>1, <1>2, <1>3, StepKinds DEF RebondStep, ClaimStep

\* Earnings e are within s units.
Covers(e, s) == e <= ONE * s

\* Earnings grow by no more than x units.
GrowsBy(e1, e, x) == e1 <= e + ONE * x

\* Cover is kept if earnings grow by no more than the cover does.
LEMMA CoverKept ==
  ASSUME NEW e \in Nat, NEW s \in Int, NEW e1 \in Nat, NEW s1 \in Int, NEW x \in Int,
         Covers(e, s), GrowsBy(e1, e, x), s + x <= s1
  PROVE  Covers(e1, s1)
<1>1. PICK o \in Nat \ {0} : o = ONE
  BY OnePos
<1>2. o * (s + x) <= o * s1
  OBVIOUS
<1>3. o * (s + x) = o * s + o * x
  OBVIOUS
<1>4. e <= o * s /\ e1 <= e + o * x
  BY <1>1 DEF Covers, GrowsBy
<1>5. e1 <= o * s1
  BY <1>2, <1>3, <1>4
<1>6. QED BY <1>1, <1>5 DEF Covers

\* Every asset stays covered.
LEMMA CoveredStep ==
  ASSUME RewardInv, [Next]_vars, NEW a \in Assets, a \notin removed'
  PROVE  CoveredFor(a)'
<1>1. TypeOK /\ BondsAddUp /\ IdleIndexes
  BY DEF RewardInv
<1>2. TypeOK'
  BY <1>1, TypeStep
<1>3. a \notin removed
  <2>1. removed \subseteq removed'
    BY <1>1, StepKinds DEF RebondStep, DepositStep, ClaimStep, AdminStep, configVars
  <2>2. QED BY <2>1
<1>4. PICK p \in Nat, e \in Nat, h \in Nat, n \in Nat :
        p = Principal(a) /\ e = EarnedSum(a) /\ h = held[a] /\ n = rebonds
  <2>1. Principal(a) \in Nat /\ EarnedSum(a) \in Nat /\ held[a] \in Nat /\ rebonds \in Nat
    BY <1>1, EarnedTables DEF TypeOK, Principal
  <2>2. QED BY ONLY <2>1, Zenon
<1>5. PICK p1 \in Nat, e1 \in Nat, h1 \in Nat, n1 \in Nat :
        p1 = Principal(a)' /\ e1 = EarnedSum(a)' /\ h1 = held'[a] /\ n1 = rebonds'
  <2>1. Principal(a)' \in Nat /\ held'[a] \in Nat /\ rebonds' \in Nat
    BY <1>2 DEF TypeOK, Principal
  <2>2. EarnedSum(a)' \in Nat
    BY <1>1, EarnedTables
  <2>3. QED BY ONLY <2>1, <2>2, Zenon
<1>8. PICK o \in Nat : o = ONE
  BY OnePos
<1>a. PICK s \in Int, s1 \in Int : s = h + n - p /\ s1 = h1 + n1 - p1
  OBVIOUS
<1>6. Covers(e, s)
  <2>1. o * p + e <= o * (h + n)
    BY <1>3, <1>4, <1>8 DEF RewardInv, CoveredFor
  <2>2. o * s = o * (h + n) - o * p
    BY <1>a
  <2>3. e <= o * s
    BY <2>1, <2>2
  <2>4. QED BY <1>8, <2>3 DEF Covers
<1>7. SUFFICES Covers(e1, s1)
  <2>1. ASSUME Covers(e1, s1) PROVE o * p1 + e1 <= o * (h1 + n1)
    <3>1. e1 <= o * s1
      BY <1>8, <2>1 DEF Covers
    <3>2. o * s1 = o * (h1 + n1) - o * p1
      BY <1>a
    <3>3. QED BY <3>1, <3>2
  <2>2. QED BY <1>5, <1>8, <2>1 DEF CoveredFor
<1>9. ASSUME NEW u \in Users, NEW d \in Int, RebondStep(u, d) PROVE Covers(e1, s1)
  <2>1. e1 <= e + ONE
    BY <1>1, <1>3, <1>4, <1>5, <1>9, RebondEarned
  <2>2. GrowsBy(e1, e, 1) /\ 1 \in Int
    BY <1>8, <2>1 DEF GrowsBy
  <2>3. n1 = n + 1
    BY <1>4, <1>5, <1>9 DEF RebondStep
  <2>4. p1 - p = h1 - h
    <3>1. held' = [held EXCEPT ![YLUNA] = held[YLUNA] + d] /\ held \in [Assets -> Nat]
          /\ total_bond_amount' = total_bond_amount + d /\ total_bond_amount \in Nat
      BY <1>1, <1>9 DEF RebondStep, TypeOK
    <3>2. CASE a = YLUNA
      <4>1. h1 = h + d
        BY <1>4, <1>5, <3>1, <3>2
      <4>2. p1 = p + d
        BY <1>4, <1>5, <3>1, <3>2 DEF Principal
      <4>3. QED BY <4>1, <4>2
    <3>3. CASE a # YLUNA
      BY <1>4, <1>5, <3>1, <3>3 DEF Principal
    <3>4. QED BY <3>2, <3>3
  <2>5. s + 1 <= s1
    BY <1>a, <2>3, <2>4
  <2>6. QED BY ONLY <1>6, <2>2, <2>5, CoverKept, e \in Nat, e1 \in Nat, s \in Int, s1 \in Int
<1>10. ASSUME DepositStep PROVE Covers(e1, s1)
  <2>1. PICK assets \in SUBSET Whitelisted, r \in Nat, q \in Nat : Deposited(assets, r, q)
    BY <1>10 DEF DepositStep
  <2>2. PICK x \in Int : x = IF a \in assets THEN r ELSE 0
    OBVIOUS
  <2>3. e1 <= e + (IF a \in assets THEN ONE * r ELSE 0)
    BY <1>1, <1>4, <1>5, <1>10, <2>1, DepositEarned
  <2>4. GrowsBy(e1, e, x)
    BY <1>8, <2>2, <2>3 DEF GrowsBy
  <2>5. n1 = n /\ p1 = p
    BY <1>4, <1>5, <1>10 DEF DepositStep, bondVars, Principal
  <2>6. h1 = h + x
    BY <1>4, <1>5, <2>1, <2>2 DEF Deposited
  <2>7. s + x <= s1
    BY <1>a, <2>5, <2>6
  <2>8. QED BY ONLY <1>6, <2>4, <2>7, CoverKept, e \in Nat, e1 \in Nat, s \in Int, s1 \in Int, x \in Int
<1>11. ASSUME NEW u \in Users, NEW cleared, NEW sent, ClaimStep(u, cleared, sent)
       PROVE  Covers(e1, s1)
  <2>1. PICK k \in Nat : k = Pending(u, a)
    BY <1>1, ComputeType
  <2>2. PICK x \in Int : x = IF a \in cleared THEN -k ELSE 0
    OBVIOUS
  <2>3. e1 <= e - (IF a \in cleared THEN ONE * k ELSE 0)
    BY <1>1, <1>4, <1>5, <1>11, <2>1, ClaimEarned
  <2>4. GrowsBy(e1, e, x)
    BY <1>8, <2>2, <2>3 DEF GrowsBy
  <2>5. n1 = n /\ p1 = p
    BY <1>4, <1>5, <1>11 DEF ClaimStep, bondVars, Principal
  <2>6. h1 = (IF a \in sent THEN h - k ELSE h) /\ sent \subseteq cleared
    BY <1>4, <1>5, <1>11, <2>1 DEF ClaimStep
  <2>7. s + x <= s1
    BY <1>a, <2>2, <2>5, <2>6
  <2>8. QED BY ONLY <1>6, <2>4, <2>7, CoverKept, e \in Nat, e1 \in Nat, s \in Int, s1 \in Int, x \in Int
<1>12. ASSUME AdminStep PROVE Covers(e1, s1)
  <2>1. rewards' = rewards /\ pool_info' = pool_info /\ held' = held /\ UNCHANGED bondVars
    BY <1>12 DEF AdminStep
  <2>2. \A v : bondedNext(v) = bonded(v)
    BY <2>1 DEF bondVars, bonded, bondedNext
  <2>3. \A v \in Users : Earned(v, a)' = Earned(v, a)
    BY <2>1, <2>2, EarnedNextIs DEF Earned
  <2>4. EarnedTableNext(a) = EarnedTable(a)
    BY <2>3 DEF EarnedTableNext, EarnedTable
  <2>5. e1 = e
    BY <1>4, <1>5, <2>4, EarnedSumNextIs DEF EarnedSum
  <2>6. p1 = p /\ h1 = h /\ n1 = n
    BY <1>4, <1>5, <2>1 DEF bondVars, Principal
  <2>7. s1 = s
    BY <1>a, <2>6
  <2>8. QED BY <1>6, <2>5, <2>7
<1>13. QED BY <1>1, <1>9, <1>10, <1>11, <1>12, StepKinds

LEMMA RewardInvStep == RewardInv /\ [Next]_vars => RewardInv'
<1>1. SUFFICES ASSUME RewardInv, [Next]_vars PROVE RewardInv'
  OBVIOUS
<1>2. TypeOK /\ BondsAddUp /\ IdleIndexes
  BY <1>1 DEF RewardInv
<1>3. TypeOK' /\ BondsAddUp' /\ IdleIndexes'
  BY <1>1, <1>2, TypeStep, BondsStep, IdleStep
<1>4. \A a \in Assets \ removed' : CoveredFor(a)'
  BY <1>1, CoveredStep
<1>5. QED BY <1>3, <1>4 DEF RewardInv

LEMMA RewardInvInit == Init => RewardInv
<1>1. SUFFICES ASSUME Init PROVE RewardInv
  OBVIOUS
<1>2. TypeOK
  BY <1>1, TypeInit
<1>3. \A u \in Users : bonded(u) = 0
  BY <1>1 DEF Init, Nobody, bonded
<1>4. IsFiniteSet(Users)
  BY YassetAssumption
<1>5. BondsAddUp
  <2>1. PICK g : g = [u \in Users |-> bonded(u)]
    OBVIOUS
  <2>2. \A u \in Users : g[u] = 0
    BY <1>3, <2>1
  <2>3. SumFunctionOnSet(g, Users) = 0
    BY ONLY <1>4, <2>2, SumZero
  <2>4. QED BY <1>1, <2>1, <2>3 DEF BondsAddUp, Init
<1>6. IdleIndexes
  BY <1>1 DEF IdleIndexes, Init
<1>7. ASSUME NEW a \in Assets PROVE CoveredFor(a)
  <2>1. \A u \in Users : Earned(u, a) = 0
    <3>1. SUFFICES ASSUME NEW u \in Users PROVE Earned(u, a) = 0
      OBVIOUS
    <3>2. PendOf(rewards[u], a) = 0 /\ IndexOf(rewards[u], a) = 0 /\ pool_info[a] = 0
      BY <1>1 DEF Init, Nobody, PendOf, IndexOf
    <3>3. Earned(u, a) = Exact(0, 0, 0, 0)
      BY <1>3, <3>2 DEF Earned, EarnedOf
    <3>4. Exact(0, 0, 0, 0) = ONE * 0
      BY ExactIdle
    <3>5. PICK o \in Nat : o = ONE
      BY OnePos
    <3>6. QED BY <3>3, <3>4, <3>5
  <2>2. PICK f : f = EarnedTable(a)
    OBVIOUS
  <2>3. \A u \in Users : f[u] = 0
    BY <2>1, <2>2 DEF EarnedTable
  <2>4. SumFunctionOnSet(f, Users) = 0
    BY ONLY <1>4, <2>3, SumZero
  <2>5. EarnedSum(a) = 0
    BY <2>2, <2>4 DEF EarnedSum
  <2>6. Principal(a) = 0 /\ held[a] = 0 /\ rebonds = 0
    BY <1>1 DEF Init, Principal
  <2>7. PICK o \in Nat : o = ONE
    BY OnePos
  <2>8. QED BY <2>5, <2>6, <2>7 DEF CoveredFor
<1>8. QED BY <1>2, <1>5, <1>6, <1>7 DEF RewardInv

\* What is pending is at most what is earned, so cover of the earnings covers it.
LEMMA RewardInvCovers == RewardInv => RewardsCovered
<1>1. SUFFICES ASSUME RewardInv PROVE RewardsCovered
  OBVIOUS
<1>2. TypeOK /\ BondsAddUp
  BY <1>1 DEF RewardInv
<1>3. EntryOK
  BY <1>2, EntriesAreOK
<1>4. ASSUME NEW a \in Whitelisted \ removed PROVE Principal(a) + Owed(a) <= held[a] + rebonds
  <2>1. a \in Assets /\ CoveredFor(a)
    BY <1>1 DEF RewardInv, Whitelisted
  <2>2. PICK f : f = EarnedTable(a)
    OBVIOUS
  <2>3. PICK h : h = [u \in Users |-> Pending(u, a)]
    OBVIOUS
  <2>4. PICK o \in Nat \ {0} : o = ONE
    BY OnePos
  <2>5. \A u \in Users : f[u] \in Nat /\ h[u] \in Nat /\ o * h[u] <= f[u]
    BY <1>3, <2>1, <2>2, <2>3, <2>4 DEF EntryOK, EarnedTable
  <2>6. \A u \in Users : f[u] \in Nat /\ h[u] \in Nat /\ h[u] \in Nat /\ o * h[u] <= f[u] + 0 * h[u]
    BY ONLY <2>5, o \in Nat
  <2>7. IsFiniteSet(Users) /\ 0 \in Nat /\ o \in Nat
    BY YassetAssumption
  <2>8. o * SumFunctionOnSet(h, Users) <= SumFunctionOnSet(f, Users) + 0 * SumFunctionOnSet(h, Users)
    BY ONLY <2>6, <2>7, SumBound
  <2>9. PICK w \in Nat, e \in Nat : w = SumFunctionOnSet(h, Users) /\ e = SumFunctionOnSet(f, Users)
    <3>1. SumFunctionOnSet(f, Users) \in Nat /\ SumFunctionOnSet(h, Users) \in Nat
      BY ONLY <2>5, <2>7, SumNat
    <3>2. QED BY ONLY <3>1, Zenon
  <2>10. o * w <= e
    BY <2>8, <2>9
  <2>11. w = Owed(a) /\ e = EarnedSum(a)
    BY <2>2, <2>3, <2>9 DEF Owed, EarnedSum
  <2>12. PICK p \in Nat, c \in Nat : p = Principal(a) /\ c = held[a] + rebonds
    BY <1>2, <2>1 DEF TypeOK, Principal
  <2>13. o * p + e <= o * c
    BY <2>1, <2>4, <2>11, <2>12 DEF CoveredFor
  <2>14. o * (p + w) <= o * c
    BY <2>10, <2>13
  <2>15. p + w <= c
    BY <2>14, LeqByFactor
  <2>16. QED BY <2>11, <2>12, <2>15
<1>5. QED BY <1>2, <1>4 DEF RewardsCovered, BondsAddUp

\* The contract can give back every bond and pay every reward of an asset that stayed
\* listed, up to one unit for each bond or unbond so far (deposit_rewards with
\* compute_asset_rewards in rewards.rs, and bond.rs).
THEOREM BondsAndRewardsCovered == Spec => []RewardsCovered
  BY RewardInvInit, RewardInvStep, RewardInvCovers, PTL DEF Spec
=============================================================================
