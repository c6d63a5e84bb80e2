-------------------------------- MODULE Vault --------------------------------
(***************************************************************************)
(* contracts/prism-vault: Luna is bonded for cLuna, cLuna is refracted     *)
(* into yLuna and pLuna and back, and cLuna is unbonded for Luna through   *)
(* batches that are undelegated once per epoch and released, in order,     *)
(* after the unbonding period.                                             *)
(*                                                                         *)
(* A transaction of the chain is atomic: a handler, the messages it emits  *)
(* and their handlers commit together or, on an error or a panic, not at   *)
(* all.  Each handler is therefore one action, enabled when no error path  *)
(* is taken.  cw20 tokens move freely between holders, so the tokens are   *)
(* kept as totals: what exists and what the vault itself holds.            *)
(***************************************************************************)
EXTENDS Decimals, FiniteSets, Functions

CONSTANTS
  Users,           \* addresses that send cLuna to the Unbond hook
  Admins,          \* addresses that may ever be the owner or the manager
  Validators,      \* validator addresses, numbers for their byte order
  InitOwner,       \* the address that instantiates
  InitValidator,   \* the validator of the instantiate message
  InitParams,      \* the Parameters of the instantiate message
  ParamChoices,    \* the Parameters an owner may ask for
  InitialBond,     \* the Luna sent with the instantiate message
  MAX_VALIDATORS,  \* config.rs
  READ_LIMIT,      \* DEFAULT_UNBOND_WAITLIST_READ_LIMIT of state.rs
  ChainUnbonding,  \* the staking module's unbonding time
  StartTime

CONSTANTS          \* bounds of a model and the inputs it draws from
  MaxTime, MaxSupply, MaxLuna, MaxBatches, MaxRequested,
  BondAmounts, SplitBondAmounts, RefractAmounts, UnbondAmounts, RogueAmounts,
  SlashAmounts, UnbondingSlashAmounts, HolderBurns

Parameters == [epoch_period: Nat, unbonding_period: Nat,
               peg_recovery_fee: Nat, er_threshold: Nat]

\* validate_rate
validate_rate(p) == p.peg_recovery_fee <= ONE /\ p.er_threshold <= ONE

ASSUME VaultAssumption ==
  /\ IsFiniteSet(Users) /\ IsFiniteSet(Validators) /\ Validators \subseteq Nat
  /\ InitOwner \in Admins /\ InitValidator \in Validators
  /\ InitParams \in Parameters /\ validate_rate(InitParams)
  /\ ParamChoices \subseteq Parameters
  /\ InitialBond \in Nat \ {0}
  /\ MAX_VALIDATORS \in Nat \ {0} /\ READ_LIMIT \in Nat \ {0}
  /\ ChainUnbonding \in Nat /\ StartTime \in Nat
  /\ MaxTime \in Nat /\ MaxSupply \in Nat /\ MaxLuna \in Nat
  /\ MaxBatches \in Nat /\ MaxRequested \in Nat
  /\ BondAmounts \subseteq Nat \ {0} /\ SplitBondAmounts \subseteq Nat \ {0}
  /\ RefractAmounts \subseteq Nat \ {0} /\ UnbondAmounts \subseteq Nat \ {0}
  /\ RogueAmounts \subseteq Nat \ {0} /\ SlashAmounts \subseteq Nat \ {0}
  /\ UnbondingSlashAmounts \subseteq Nat \ {0} /\ HolderBurns \subseteq Nat \ {0}

VARIABLES
  \* CONFIG, PARAMETERS, VALIDATORS
  config, params, validators,
  \* STATE (last_index_modification is written, and read by a query alone)
  exchange_rate, total_bond_amount, prev_vault_balance,
  actual_unbonded_amount, last_unbonded_time, last_processed_batch,
  \* CURRENT_BATCH, UNBOND_WAITLIST, UNBOND_HISTORY
  current_batch, unbond_wait_list, unbond_history,
  \* the three cw20 tokens: supplies, and the vault's own cLuna
  cluna_supply, vault_cluna, yluna_supply, pluna_supply,
  \* the chain: block time, the vault's Luna, its delegations, the Luna each
  \* batch has unbonding, and the validators a redelegation is arriving at
  now, luna, delegation, unbonding, redelegating

configVars == <<config, params, validators>>
stateVars  == <<exchange_rate, total_bond_amount, prev_vault_balance,
                actual_unbonded_amount, last_unbonded_time, last_processed_batch>>
batchVars  == <<current_batch, unbond_wait_list, unbond_history>>
tokenVars  == <<cluna_supply, vault_cluna, yluna_supply, pluna_supply>>
chainVars  == <<now, luna, delegation, unbonding, redelegating>>
vars == <<configVars, stateVars, batchVars, tokenVars, chainVars>>

Config == [owner: Admins, manager: Admins, yluna_staking: BOOLEAN,
           airdrop_registry_contract: BOOLEAN, initialized: BOOLEAN]
UnbondHistory == [time: Nat, amount: Nat, applied_exchange_rate: Nat,
                  withdraw_rate: Nat, released: BOOLEAN]
Unbonding == [amount: Nat, paid: BOOLEAN]

-----------------------------------------------------------------------------
\* Mutant: the requests of the current batch are not counted.
update_exchange_rate_issued_only(bonded, total_issued, requested_with_fee) ==
  IF bonded = 0 \/ total_issued = 0 THEN ONE ELSE from_ratio(bonded, total_issued)

\* State::update_exchange_rate
update_exchange_rate(bonded, total_issued, requested_with_fee) ==
  LET actual_supply == total_issued + requested_with_fee
  IN  IF bonded = 0 \/ actual_supply = 0 THEN ONE
      ELSE from_ratio(bonded, actual_supply)

\* instantiate, with the Delegate and RegisterValidator messages it sends and
\* the token instantiations its replies chain: the first cLuna is the vault's
Init ==
  /\ config = [owner |-> InitOwner, manager |-> InitOwner, yluna_staking |-> FALSE,
               airdrop_registry_contract |-> FALSE, initialized |-> FALSE]
  /\ params = InitParams
  /\ validators = {InitValidator}
  /\ exchange_rate = ONE
  /\ total_bond_amount = InitialBond
  /\ prev_vault_balance = 0
  /\ actual_unbonded_amount = 0
  /\ last_unbonded_time = StartTime
  /\ last_processed_batch = 0
  /\ current_batch = [id |-> 1, requested_with_fee |-> 0]
  /\ unbond_wait_list = [u \in Users |-> [b \in {} |-> 0]]
  /\ unbond_history = [b \in {} |-> 0]
  /\ cluna_supply = InitialBond
  /\ vault_cluna = InitialBond
  /\ yluna_supply = 0
  /\ pluna_supply = 0
  /\ now = StartTime
  /\ luna = 0
  /\ delegation = [v \in Validators |-> IF v = InitValidator THEN InitialBond ELSE 0]
  /\ unbonding = [b \in {} |-> 0]
  /\ redelegating = {}

-----------------------------------------------------------------------------
(***************************************************************************)
(* slashing: the bond and the rate that a handler works with.  They differ *)
(* from the stored ones when the delegations have shrunk.                  *)
(***************************************************************************)
actual_total_bonded == SumFunctionOnSet(delegation, Validators)

SlashingFound ==
  actual_total_bonded > 0 /\ total_bond_amount > actual_total_bonded

\* Mutant: slashing() is not called before pricing.
slashed_bond_as_stored == total_bond_amount

slashed_bond ==
  IF SlashingFound THEN actual_total_bonded ELSE total_bond_amount

slashed_rate ==
  IF SlashingFound
  THEN update_exchange_rate(actual_total_bonded, cluna_supply,
                            current_batch.requested_with_fee)
  ELSE exchange_rate

\* execute_slashing (CheckSlashing), open to anyone
execute_slashing ==
  /\ SlashingFound
  /\ total_bond_amount' = slashed_bond
  /\ exchange_rate' = slashed_rate
  /\ UNCHANGED <<prev_vault_balance, actual_unbonded_amount, last_unbonded_time,
                 last_processed_batch, configVars, batchVars, tokenVars, chainVars>>

-----------------------------------------------------------------------------
\* pick_bond_validator: the least delegated of the whitelisted validators that
\* are active, by address among equals; one without a delegation counts zero
pick_bond_validator(active) ==
  CHOOSE v \in validators \cap active :
    \A w \in validators \cap active :
      delegation[v] < delegation[w] \/ (delegation[v] = delegation[w] /\ v <= w)

\* The validator a bond goes to: one the caller names or the picked one.
BondValidators ==
  validators \cup {pick_bond_validator(active) :
                     active \in {a \in SUBSET Validators : a \cap validators # {}}}

\* The peg recovery fee of a bond and of an unbond; a deficit below zero is the
\* checked_sub error.
MintDeficit(payment, mint) ==
  (cluna_supply + mint + current_batch.requested_with_fee) - (slashed_bond + payment)

UnbondDeficit ==
  (cluna_supply + current_batch.requested_with_fee) - slashed_bond

BelowPeg == slashed_rate < params.er_threshold

mint_amount(payment) == decimal_division(payment, slashed_rate)

\* Mutant: the fee is not capped by the deficit.
mint_amount_uncapped_fee(payment) ==
  LET mint == mint_amount(payment)
  IN  IF BelowPeg THEN mint - mul(mint, params.peg_recovery_fee) ELSE mint

mint_amount_with_fee(payment) ==
  LET mint == mint_amount(payment)
  IN  IF BelowPeg
      THEN mint - smaller(mul(mint, params.peg_recovery_fee), MintDeficit(payment, mint))
      ELSE mint

\* _execute_bond: everything the two bond handlers share, minting m of cLuna
_execute_bond(v, payment, m) ==
  /\ config.initialized
  /\ v \in BondValidators
  /\ mul(DECIMAL_FRACTIONAL, slashed_rate) > 0
  /\ BelowPeg => MintDeficit(payment, mint_amount(payment)) >= 0
  /\ m = mint_amount_with_fee(payment)
  /\ m > 0
  /\ cluna_supply + m <= MaxSupply
  /\ total_bond_amount' = slashed_bond + payment
  /\ exchange_rate' = update_exchange_rate(slashed_bond + payment, cluna_supply + m,
                                           current_batch.requested_with_fee)
  /\ delegation' = [delegation EXCEPT ![v] = @ + payment]
  /\ cluna_supply' = cluna_supply + m
  /\ UNCHANGED <<configVars, batchVars, prev_vault_balance, actual_unbonded_amount,
                 last_unbonded_time, last_processed_batch,
                 now, luna, unbonding, redelegating>>

execute_bond(v, payment) ==
  \E m \in 1..MaxSupply :
    /\ _execute_bond(v, payment, m)
    /\ UNCHANGED <<vault_cluna, yluna_supply, pluna_supply>>

execute_bond_split(v, payment) ==
  \E m \in 1..MaxSupply :
    /\ _execute_bond(v, payment, m)
    /\ vault_cluna' = vault_cluna + m
    /\ yluna_supply' = yluna_supply + m
    /\ pluna_supply' = pluna_supply + m

-----------------------------------------------------------------------------
circulating == cluna_supply - vault_cluna

split(amount) ==
  /\ config.initialized
  /\ amount <= circulating
  /\ vault_cluna' = vault_cluna + amount
  /\ yluna_supply' = yluna_supply + amount
  /\ pluna_supply' = pluna_supply + amount
  /\ UNCHANGED <<cluna_supply, configVars, stateVars, batchVars, chainVars>>

\* Mutant: only the yLuna is burnt.
merge_yluna_only(amount) ==
  /\ config.initialized
  /\ amount <= yluna_supply
  /\ amount <= vault_cluna
  /\ yluna_supply' = yluna_supply - amount
  /\ vault_cluna' = vault_cluna - amount
  /\ UNCHANGED <<pluna_supply, cluna_supply, configVars, stateVars, batchVars, chainVars>>

merge(amount) ==
  /\ config.initialized
  /\ amount <= yluna_supply
  /\ amount <= pluna_supply
  /\ amount <= vault_cluna
  /\ yluna_supply' = yluna_supply - amount
  /\ pluna_supply' = pluna_supply - amount
  /\ vault_cluna' = vault_cluna - amount
  /\ UNCHANGED <<cluna_supply, configVars, stateVars, batchVars, chainVars>>

-----------------------------------------------------------------------------
\* pick_unbond_validator: delegations are emptied in a pseudo-random order until
\* the claim is met; the last one visited may keep a rest.  Running out panics.
Drained(emptied, last, claim) ==
  [v \in Validators |->
     IF v \in emptied THEN 0
     ELSE IF v = last
          THEN delegation[v] - (claim - SumFunctionOnSet(delegation, emptied))
          ELSE delegation[v]]

pick_unbond_validator(claim, new_delegation) ==
  \/ claim = 0 /\ new_delegation = delegation
  \/ \E last \in Validators : \E emptied \in SUBSET (Validators \ {last}) :
       /\ SumFunctionOnSet(delegation, emptied) < claim
       /\ claim <= SumFunctionOnSet(delegation, emptied) + delegation[last]
       /\ new_delegation = Drained(emptied, last, claim)

amount_with_fee(amount) ==
  IF BelowPeg
  THEN amount - smaller(mul(amount, params.peg_recovery_fee), UnbondDeficit)
  ELSE amount

\* The current batch and the rate once the request has joined.
requested_after(amount) == current_batch.requested_with_fee + amount_with_fee(amount)

rate_after(amount) ==
  update_exchange_rate(slashed_bond, cluna_supply - amount, requested_after(amount))

\* Mutant: a second request of the same batch replaces the first.
store_unbond_wait_list_replacing(requests, batch_id, amount) ==
  [b \in DOMAIN requests \cup {batch_id} |-> IF b # batch_id THEN requests[b] ELSE amount]

\* store_unbond_wait_list on one user's requests
store_unbond_wait_list(requests, batch_id, amount) ==
  [b \in DOMAIN requests \cup {batch_id} |->
     IF b # batch_id THEN requests[b]
     ELSE IF b \in DOMAIN requests THEN requests[b] + amount ELSE amount]

EpochPassed == now - last_unbonded_time > params.epoch_period

\* What both outcomes of execute_unbond do: the request joins the current batch,
\* the rate is recomputed and the cLuna that came with the hook is burnt.
Request(u, amount) ==
  /\ config.initialized
  /\ amount <= circulating
  /\ BelowPeg => UnbondDeficit >= 0
  /\ current_batch.id <= MaxBatches /\ requested_after(amount) <= MaxRequested
  /\ unbond_wait_list' = [unbond_wait_list EXCEPT ![u] =
       store_unbond_wait_list(@, current_batch.id, amount_with_fee(amount))]
  /\ exchange_rate' = rate_after(amount)
  /\ cluna_supply' = cluna_supply - amount
  /\ UNCHANGED <<configVars, prev_vault_balance, actual_unbonded_amount,
                 last_processed_batch, vault_cluna, yluna_supply, pluna_supply,
                 now, luna, redelegating>>

\* execute_unbond within the epoch
unbond_within_epoch(u, amount) ==
  /\ ~EpochPassed
  /\ Request(u, amount)
  /\ current_batch' = [current_batch EXCEPT !.requested_with_fee = requested_after(amount)]
  /\ total_bond_amount' = slashed_bond
  /\ UNCHANGED <<last_unbonded_time, unbond_history, delegation, unbonding>>

\* execute_unbond after the epoch: the batch is undelegated and closed
unbond_closing_batch(u, amount) ==
  LET undelegation_amount == mul(requested_after(amount), rate_after(amount))
      id == current_batch.id
  IN
  /\ EpochPassed
  /\ Request(u, amount)
  /\ undelegation_amount # 1
  /\ undelegation_amount <= slashed_bond
  /\ pick_unbond_validator(undelegation_amount, delegation')
  /\ total_bond_amount' = slashed_bond - undelegation_amount
  /\ unbond_history' = [b \in DOMAIN unbond_history \cup {id} |->
       IF b = id THEN [time |-> now, amount |-> requested_after(amount),
                       applied_exchange_rate |-> rate_after(amount),
                       withdraw_rate |-> rate_after(amount), released |-> FALSE]
       ELSE unbond_history[b]]
  /\ unbonding' = [b \in DOMAIN unbonding \cup {id} |->
       IF b = id THEN [amount |-> undelegation_amount, paid |-> FALSE]
       ELSE unbonding[b]]
  /\ current_batch' = [id |-> id + 1, requested_with_fee |-> 0]
  /\ last_unbonded_time' = now

execute_unbond(u, amount) ==
  unbond_within_epoch(u, amount) \/ unbond_closing_batch(u, amount)

-----------------------------------------------------------------------------
(***************************************************************************)
(* process_withdraw_rate.  Its two loops walk the batches after the last   *)
(* processed one and stop at the first that is missing, young or released. *)
(***************************************************************************)
\* Mutant: the batch is not compared with the unbonding period.
Matured_at_any_time(b, historical_time) ==
  b \in DOMAIN unbond_history /\ ~unbond_history[b].released

Matured(b, historical_time) ==
  /\ b \in DOMAIN unbond_history
  /\ unbond_history[b].time <= historical_time
  /\ ~unbond_history[b].released

\* k is the batch the loops end with; the last processed one when they do nothing
LoopsEndAt(k, historical_time) ==
  /\ \A b \in (last_processed_batch + 1)..k : Matured(b, historical_time)
  /\ ~Matured(k + 1, historical_time)

unbonded_amount(b) == mul(unbond_history[b].amount, unbond_history[b].withdraw_rate)

total_unbonded_amount(k) ==
  SumFunction([b \in (last_processed_batch + 1)..k |-> unbonded_amount(b)])

\* The Luna that has arrived since the last withdrawal, sign aside.
NewlyUnbonded == actual_unbonded_amount + distance(luna, prev_vault_balance)

slashed_amount(k) == distance(total_unbonded_amount(k), NewlyUnbonded)

\* More Luna than undelegated: the SignedInt's negative case.
Surplus(k) == total_unbonded_amount(k) < NewlyUnbonded

slashed_amount_of_batch(k, b) ==
  mul(slashed_amount(k), from_ratio(unbonded_amount(b), total_unbonded_amount(k)))

\* Mutant: a loss is shared out rounded down.
actual_unbonded_amount_rounded_down(k, b) ==
  IF Surplus(k) THEN unbonded_amount(b) + (slashed_amount_of_batch(k, b) - 1)
  ELSE unbonded_amount(b) - slashed_amount_of_batch(k, b)

\* A surplus is shared out one unit short of each share, a loss one unit over.
actual_unbonded_amount_of_batch(k, b) ==
  IF Surplus(k) THEN unbonded_amount(b) + (slashed_amount_of_batch(k, b) - 1)
  ELSE distance(unbonded_amount(b),
                slashed_amount_of_batch(k, b) + (IF slashed_amount(k) # 0 THEN 1 ELSE 0))

\* No division by zero, and no share of a surplus below one unit.
ReleaseSucceeds(k) ==
  \A b \in (last_processed_batch + 1)..k :
    /\ total_unbonded_amount(k) > 0
    /\ unbond_history[b].amount > 0
    /\ Surplus(k) => slashed_amount_of_batch(k, b) >= 1

\* Mutant: only the last of the batches is stored.
history_after_last_only(k) ==
  [b \in DOMAIN unbond_history |->
     IF b > last_processed_batch /\ b = k
     THEN [unbond_history[b] EXCEPT
             !.withdraw_rate = from_ratio(actual_unbonded_amount_of_batch(k, b),
                                          unbond_history[b].amount),
             !.released = TRUE]
     ELSE unbond_history[b]]

history_after(k) ==
  [b \in DOMAIN unbond_history |->
     IF b \in (last_processed_batch + 1)..k
     THEN [unbond_history[b] EXCEPT
             !.withdraw_rate = from_ratio(actual_unbonded_amount_of_batch(k, b),
                                          unbond_history[b].amount),
             !.released = TRUE]
     ELSE unbond_history[b]]

-----------------------------------------------------------------------------
\* The first READ_LIMIT of a user's requests, in batch order, that are released.
get_unbond_batches(requests, history) ==
  {b \in DOMAIN requests :
     /\ Cardinality({c \in DOMAIN requests : c < b}) < READ_LIMIT
     /\ b \in DOMAIN history
     /\ history[b].released}

\* Mutant: the amount is not cut at the read limit.
get_finished_amount_unlimited(requests, history) ==
  SumFunction([b \in {c \in DOMAIN requests : c \in DOMAIN history /\ history[c].released} |->
                 mul(requests[b], history[b].withdraw_rate)])

get_finished_amount(requests, history) ==
  SumFunction([b \in get_unbond_batches(requests, history) |->
                 mul(requests[b], history[b].withdraw_rate)])

remove_unbond_wait_list(requests, batches) == Restrict(requests, DOMAIN requests \ batches)

\* The bound 1..luna holds the error on a zero amount and the checked_sub on the
\* vault's balance.
execute_withdraw_unbonded(u) ==
  /\ now >= params.unbonding_period
  /\ \E k \in last_processed_batch..(current_batch.id - 1) :
       /\ LoopsEndAt(k, now - params.unbonding_period)
       /\ ReleaseSucceeds(k)
       /\ \E withdraw_amount \in 1..luna :
            /\ withdraw_amount = get_finished_amount(unbond_wait_list[u], history_after(k))
            /\ prev_vault_balance' = luna - withdraw_amount
            /\ luna' = luna - withdraw_amount
       /\ unbond_history' = history_after(k)
       /\ last_processed_batch' = k
       /\ unbond_wait_list' = [unbond_wait_list EXCEPT ![u] =
            remove_unbond_wait_list(@, get_unbond_batches(@, history_after(k)))]
  /\ actual_unbonded_amount' = 0
  /\ UNCHANGED <<exchange_rate, total_bond_amount, last_unbonded_time, current_batch,
                 configVars, tokenVars, now, delegation, unbonding, redelegating>>

-----------------------------------------------------------------------------
(***************************************************************************)
(* Administration: config.rs.                                              *)
(***************************************************************************)
\* Mutant: validate_rate is not called.
execute_update_params_unchecked(sender, p) ==
  /\ sender = config.owner
  /\ params' = p
  /\ UNCHANGED <<config, validators, stateVars, batchVars, tokenVars, chainVars>>

execute_update_params(sender, p) ==
  /\ sender = config.owner
  /\ validate_rate(p)
  /\ params' = p
  /\ UNCHANGED <<config, validators, stateVars, batchVars, tokenVars, chainVars>>

\* None leaves a field as it is; staking and airdrop say whether that address is sent.
execute_update_config(sender, owner, manager, staking, airdrop) ==
  /\ sender = config.owner
  /\ LET yluna_staking == config.yluna_staking \/ staking
         registry == config.airdrop_registry_contract \/ airdrop
     IN  config' = [owner |-> owner, manager |-> manager,
                    yluna_staking |-> yluna_staking,
                    airdrop_registry_contract |-> registry,
                    initialized |-> config.initialized \/ (yluna_staking /\ registry)]
  /\ UNCHANGED <<params, validators, stateVars, batchVars, tokenVars, chainVars>>

execute_register_validator(sender, v) ==
  /\ sender = config.owner
  /\ Cardinality(validators) < MAX_VALIDATORS
  /\ validators' = validators \cup {v}
  /\ UNCHANGED <<config, params, stateVars, batchVars, tokenVars, chainVars>>

\* The Redelegate message: the chain refuses a validator to itself, and a source
\* that an earlier redelegation is still arriving at.
Redelegate(source, target, amount) ==
  /\ source # target
  /\ source \notin redelegating
  /\ delegation' = [delegation EXCEPT ![source] = @ - amount, ![target] = @ + amount]
  /\ redelegating' = redelegating \cup {target}

\* Mutant: the delegations stay with the removed validator.
execute_deregister_validator_only(sender, v, redel_validator) ==
  /\ config.initialized
  /\ sender = config.owner
  /\ Cardinality(validators) # 1
  /\ redel_validator \in validators \ {v}
  /\ validators' = validators \ {v}
  /\ UNCHANGED <<config, params, stateVars, batchVars, tokenVars, chainVars>>

execute_deregister_validator(sender, v, redel_validator) ==
  /\ config.initialized
  /\ sender = config.owner
  /\ Cardinality(validators) # 1
  /\ redel_validator \in validators \ {v}
  /\ validators' = validators \ {v}
  /\ \/ delegation[v] > 0 /\ Redelegate(v, redel_validator, delegation[v])
     \/ delegation[v] = 0 /\ UNCHANGED <<delegation, redelegating>>
  /\ UNCHANGED <<config, params, stateVars, batchVars, tokenVars, now, luna, unbonding>>

execute_redelegate(sender, source, target, amount) ==
  /\ config.initialized
  /\ sender \in {config.owner, config.manager}
  /\ {source, target} \subseteq validators
  /\ amount <= delegation[source]
  /\ Redelegate(source, target, amount)
  /\ UNCHANGED <<configVars, stateVars, batchVars, tokenVars, now, luna, unbonding>>

-----------------------------------------------------------------------------
(***************************************************************************)
(* The chain and the token contracts: what happens to the vault without    *)
(* its code running.                                                       *)
(***************************************************************************)
Due(b) == ~unbonding[b].paid /\ unbond_history[b].time + ChainUnbonding <= now

\* The end of a block pays out the unbondings that are due by its time.
EndBlock ==
  /\ now < MaxTime
  /\ now' = now + 1
  /\ luna' = luna + SumFunction([b \in {c \in DOMAIN unbonding : Due(c)} |->
                                   unbonding[b].amount])
  /\ unbonding' = [b \in DOMAIN unbonding |->
       IF Due(b) THEN [unbonding[b] EXCEPT !.paid = TRUE] ELSE unbonding[b]]
  /\ UNCHANGED <<configVars, stateVars, batchVars, tokenVars, delegation, redelegating>>

\* A slash takes a fraction below one: never all of a delegation or an unbonding.
SlashDelegation(v, cut) ==
  /\ cut < delegation[v]
  /\ delegation' = [delegation EXCEPT ![v] = @ - cut]
  /\ UNCHANGED <<configVars, stateVars, batchVars, tokenVars, now, luna, unbonding,
                 redelegating>>

SlashUnbonding(b, cut) ==
  /\ ~unbonding[b].paid
  /\ cut < unbonding[b].amount
  /\ unbonding' = [unbonding EXCEPT ![b].amount = @ - cut]
  /\ UNCHANGED <<configVars, stateVars, batchVars, tokenVars, now, luna, delegation,
                 redelegating>>

RedelegationCompletes(v) ==
  /\ v \in redelegating
  /\ redelegating' = redelegating \ {v}
  /\ UNCHANGED <<configVars, stateVars, batchVars, tokenVars, now, luna, delegation,
                 unbonding>>

\* Luna sent to the vault by a bank transfer.
RogueTransfer(amount) ==
  /\ luna + amount <= MaxLuna
  /\ luna' = luna + amount
  /\ UNCHANGED <<configVars, stateVars, batchVars, tokenVars, now, delegation, unbonding,
                 redelegating>>

\* Any holder may burn tokens of its own, and transfer cLuna to the vault.
HolderBurn(token, amount) ==
  /\ \/ token = "cluna" /\ amount <= circulating /\ cluna_supply' = cluna_supply - amount
        /\ UNCHANGED <<vault_cluna, yluna_supply, pluna_supply>>
     \/ token = "yluna" /\ amount <= yluna_supply /\ yluna_supply' = yluna_supply - amount
        /\ UNCHANGED <<vault_cluna, cluna_supply, pluna_supply>>
     \/ token = "pluna" /\ amount <= pluna_supply /\ pluna_supply' = pluna_supply - amount
        /\ UNCHANGED <<vault_cluna, cluna_supply, yluna_supply>>
     \/ token = "gift" /\ amount <= circulating /\ vault_cluna' = vault_cluna + amount
        /\ UNCHANGED <<cluna_supply, yluna_supply, pluna_supply>>
  /\ UNCHANGED <<configVars, stateVars, batchVars, chainVars>>

-----------------------------------------------------------------------------
BondStep ==
  \E v \in Validators :
    \/ \E payment \in BondAmounts : execute_bond(v, payment)
    \/ \E payment \in SplitBondAmounts : execute_bond_split(v, payment)

RefractStep == \E amount \in RefractAmounts : split(amount) \/ merge(amount)

UnbondStep == \E u \in Users, amount \in UnbondAmounts : execute_unbond(u, amount)

WithdrawStep == \E u \in Users : execute_withdraw_unbonded(u)

AdminStep ==
  \E sender \in Admins :
    \/ \E p \in ParamChoices : execute_update_params(sender, p)
    \/ \E owner, manager \in Admins, staking, airdrop \in BOOLEAN :
         execute_update_config(sender, owner, manager, staking, airdrop)
    \/ \E v \in Validators : execute_register_validator(sender, v)
    \/ \E v, w \in Validators : execute_deregister_validator(sender, v, w)
    \/ \E v, w \in Validators : \E amount \in 1..delegation[v] :
         execute_redelegate(sender, v, w, amount)

ChainStep ==
  \/ EndBlock
  \/ \E v \in Validators, cut \in SlashAmounts : SlashDelegation(v, cut)
  \/ \E b \in DOMAIN unbonding, cut \in UnbondingSlashAmounts : SlashUnbonding(b, cut)
  \/ \E v \in Validators : RedelegationCompletes(v)
  \/ \E amount \in RogueAmounts : RogueTransfer(amount)
  \/ \E token \in {"cluna", "yluna", "pluna", "gift"}, amount \in HolderBurns :
       HolderBurn(token, amount)

Next ==
  \/ BondStep \/ RefractStep \/ UnbondStep \/ WithdrawStep
  \/ execute_slashing \/ AdminStep \/ ChainStep

Spec == Init /\ [][Next]_vars

-----------------------------------------------------------------------------
(***************************************************************************)
(* Properties.                                                             *)
(***************************************************************************)
\* One user's requests: batches up to id and an amount for each.
IsRequests(requests, id) ==
  DOMAIN requests \subseteq 1..id /\ requests \in [DOMAIN requests -> Nat]

\* Every variable has its type; a history entry exists for every closed batch and
\* for no other, and nobody waits on a batch that has not been opened.
TypeOK ==
  /\ config \in Config
  /\ params \in Parameters /\ validate_rate(params)
  /\ validators \subseteq Validators
  /\ exchange_rate \in Nat /\ total_bond_amount \in Nat /\ prev_vault_balance \in Nat
  /\ actual_unbonded_amount \in Nat /\ last_unbonded_time \in Nat
  /\ current_batch \in [id: Nat \ {0}, requested_with_fee: Nat]
  /\ last_processed_batch \in 0..(current_batch.id - 1)
  /\ unbond_wait_list = [u \in Users |-> unbond_wait_list[u]]
  /\ \A u \in Users : IsRequests(unbond_wait_list[u], current_batch.id)
  /\ unbond_history \in [1..(current_batch.id - 1) -> UnbondHistory]
  /\ unbonding \in [1..(current_batch.id - 1) -> Unbonding]
  /\ cluna_supply \in Nat /\ vault_cluna \in Nat
  /\ yluna_supply \in Nat /\ pluna_supply \in Nat
  /\ now \in Nat /\ luna \in Nat
  /\ delegation \in [Validators -> Nat]
  /\ redelegating \subseteq Validators

\* The vault holds the cLuna of everything that was split (refract.rs,
\* execute_bond_split), besides the cLuna it was instantiated with: each yLuna and
\* each pLuna can be merged back, whatever is bonded, unbonded or burnt around it.
RefractBacked ==
  /\ InitialBond + yluna_supply <= vault_cluna
  /\ InitialBond + pluna_supply <= vault_cluna
  /\ vault_cluna <= cluna_supply

\* What users wait for in a batch and have not withdrawn is what the batch has
\* recorded (UNBOND_WAITLIST against CURRENT_BATCH and UNBOND_HISTORY), all of it
\* until the batch is released.
Waiting(b) ==
  SumFunction([u \in Users |-> IF b \in DOMAIN unbond_wait_list[u]
                               THEN unbond_wait_list[u][b] ELSE 0])

BatchLedger ==
  /\ Waiting(current_batch.id) = current_batch.requested_with_fee
  /\ \A b \in 1..(current_batch.id - 1) :
       IF b <= last_processed_batch
       THEN Waiting(b) <= unbond_history[b].amount
       ELSE Waiting(b) = unbond_history[b].amount

\* The released batches are exactly those up to last_processed_batch and batches
\* close in time order, so that the loops of process_withdraw_rate, which stop at
\* the first released or young batch, pass over no batch.
ReleaseOrder ==
  /\ \A b \in 1..(current_batch.id - 1) :
       /\ unbond_history[b].released <=> b <= last_processed_batch
       /\ unbond_history[b].time <= last_unbonded_time
       /\ \A c \in 1..b : unbond_history[c].time <= unbond_history[b].time
  /\ last_unbonded_time <= now

\* A batch is released no earlier than its unbonding period after it closed, never
\* before an older one, and from then on its entry, the rate its users are paid at
\* included, is final.
ReleasedOnceAndFinal ==
  [][\A b \in DOMAIN unbond_history :
       IF unbond_history[b].released THEN unbond_history'[b] = unbond_history[b]
       ELSE unbond_history'[b].released =>
              /\ unbond_history[b].time + params.unbonding_period <= now
              /\ \A c \in 1..b : unbond_history'[c].released]_vars

\* The Luna set aside for released batches (prev_vault_balance, which the next
\* release leaves alone) covers every released request at its final rate, and the
\* vault has that Luna: whoever withdraws last is still paid.  A batch closed at a
\* value of zero, which execute_unbond only means to refuse, breaks the first half.
Owed ==
  SumFunction([u \in Users |->
    SumFunction([b \in {c \in DOMAIN unbond_wait_list[u] : c <= last_processed_batch} |->
      mul(unbond_wait_list[u][b], unbond_history[b].withdraw_rate)])])

UndelegatedFor(b) == mul(unbond_history[b].amount, unbond_history[b].applied_exchange_rate)

Solvent ==
  /\ (\A b \in 1..last_processed_batch : UndelegatedFor(b) > 0) => Owed <= prev_vault_balance
  /\ prev_vault_balance <= luna

\* A withdrawal pays for the requests it removes from the wait list and for no
\* other (get_finished_amount against get_unbond_batches), and nothing else
\* removes a request or takes Luna out of the vault.
WithdrawPaysWhatItRemoves ==
  [][luna' < luna \/ (\E u \in Users :
        DOMAIN unbond_wait_list[u] \ DOMAIN unbond_wait_list'[u] # {}) =>
     \E u \in Users :
       LET gone == DOMAIN unbond_wait_list[u] \ DOMAIN unbond_wait_list'[u]
       IN  /\ \A w \in Users \ {u} : unbond_wait_list'[w] = unbond_wait_list[w]
           /\ \A b \in gone : unbond_history'[b].released
           /\ luna - luna' = SumFunction([b \in gone |->
                mul(unbond_wait_list[u][b], unbond_history'[b].withdraw_rate)])]_vars

\* No bond is minted and no unbond is queued or undelegated against Luna that a
\* slash has already taken: each leaves the recorded bond within the delegations.
PricedAfterSlashing ==
  [][total_bond_amount' # total_bond_amount \/ current_batch' # current_batch =>
       total_bond_amount' <= actual_total_bonded']_vars

\* Something is always bonded and delegated: no sequence of unbonds empties the
\* vault, so slashing() never takes its early return on empty delegations past a
\* loss, and the rate is never reset to one (State::update_exchange_rate) while
\* cLuna is in circulation.
BondNeverEmpty == total_bond_amount > 0 /\ actual_total_bonded > 0

\* Bonding never lifts cLuna above its peg: the bonded Luna does not exceed the
\* cLuna that can claim it, so required_peg_fee has no underflow (bond.rs,
\* execute_unbond) through bonds, unbonds, slashes and closed batches.
PegNotExceeded == total_bond_amount <= cluna_supply + current_batch.requested_with_fee

\* Luna is delegated to whitelisted validators alone, through registrations,
\* deregistrations, redelegations and bonds, and one always remains.
DelegatedToWhitelisted ==
  /\ validators # {} /\ Cardinality(validators) <= MAX_VALIDATORS
  /\ \A v \in Validators : delegation[v] > 0 => v \in validators
-----------------------------------------------------------------------------
(***************************************************************************)
(* What the source says and the code does not do: it is violated.          *)
(***************************************************************************)
\* "Store state.actual_unbonded_amount for future new batches release"
\* (process_withdraw_rate): the Luna of a batch that arrives before the batch is
\* released is still counted for it, in actual_unbonded_amount or as a change of
\* the balance that the next withdrawal will see.
EarlyLunaKept ==
  SumFunction([b \in {c \in DOMAIN unbonding : c > last_processed_batch /\ unbonding[c].paid} |->
                 unbonding[b].amount])
    <= actual_unbonded_amount + (luna - prev_vault_balance)
=============================================================================
