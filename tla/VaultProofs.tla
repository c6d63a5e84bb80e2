----------------------------- MODULE VaultProofs ----------------------------
(***************************************************************************)
(* Proofs about Vault: its type invariant, the backing of refracted cLuna, *)
(* that some Luna always stays bonded, that bonds and unbonds are priced   *)
(* after slashing, the order and finality of releases, that withdrawals    *)
(* pay in full, the ledger of batches, that Luna is delegated to           *)
(* whitelisted validators alone and, under hypotheses on single steps that *)
(* the theorems state, the peg and the solvency of releases.               *)
(***************************************************************************)
EXTENDS Vault, Arithmetic

\* The delegations of the vault sum to a natural (slashing, bond.rs).
LEMMA DelegationsNat == TypeOK => actual_total_bonded \in Nat
<1> SUFFICES ASSUME TypeOK PROVE actual_total_bonded \in Nat
  OBVIOUS
<1>1. \A v \in Validators : delegation[v] \in Nat
  BY DEF TypeOK
<1>2. IsFiniteSet(Validators)
  BY VaultAssumption
<1>3. QED BY <1>1, <1>2, SumNat DEF actual_total_bonded

\* State::update_exchange_rate never divides by zero.
LEMMA RateNat ==
  ASSUME NEW b \in Nat, NEW i \in Nat, NEW r \in Nat
  PROVE  update_exchange_rate(b, i, r) \in Nat
  BY RatioNat, OnePos DEF update_exchange_rate

\* The bond and the rate after slashing() are naturals.
LEMMA SlashedNat == TypeOK => slashed_bond \in Nat /\ slashed_rate \in Nat
<1> SUFFICES ASSUME TypeOK PROVE slashed_bond \in Nat /\ slashed_rate \in Nat
  OBVIOUS
<1>1. actual_total_bonded \in Nat
  BY DelegationsNat
<1>2. cluna_supply \in Nat /\ current_batch.requested_with_fee \in Nat
      /\ total_bond_amount \in Nat /\ exchange_rate \in Nat
  BY DEF TypeOK
<1>3. QED BY <1>1, <1>2, RateNat DEF slashed_bond, slashed_rate

\* The peg recovery fee of execute_unbond never exceeds the amount.
LEMMA FeeNat ==
  ASSUME TypeOK, NEW amount \in Nat, BelowPeg => UnbondDeficit >= 0
  PROVE  amount_with_fee(amount) \in Nat
<1>1. params.peg_recovery_fee \in Nat /\ params.peg_recovery_fee <= ONE
  BY DEF TypeOK, Parameters, validate_rate
<1>2. PICK fee \in Nat : fee = mul(amount, params.peg_recovery_fee) /\ fee <= amount
  BY <1>1, MulNat, MulLeq
<1>3. UnbondDeficit \in Int
  <2>1. slashed_bond \in Nat
    BY SlashedNat
  <2>2. cluna_supply \in Nat /\ current_batch.requested_with_fee \in Nat
    BY DEF TypeOK
  <2>3. QED BY <2>1, <2>2 DEF UnbondDeficit
<1>4. QED BY <1>2, <1>3 DEF amount_with_fee, smaller

\* What execute_unbond writes is well typed.
LEMMA RequestNat ==
  ASSUME TypeOK, NEW amount \in Nat, amount <= circulating, BelowPeg => UnbondDeficit >= 0
  PROVE  /\ requested_after(amount) \in Nat
         /\ cluna_supply - amount \in Nat
         /\ rate_after(amount) \in Nat
<1>1. amount_with_fee(amount) \in Nat /\ slashed_bond \in Nat
  BY FeeNat, SlashedNat
<1>2. cluna_supply \in Nat /\ vault_cluna \in Nat /\ current_batch.requested_with_fee \in Nat
  BY DEF TypeOK
<1>3. requested_after(amount) \in Nat
  BY <1>1, <1>2 DEF requested_after
<1>4. cluna_supply - amount \in Nat
  BY <1>2 DEF circulating
<1>5. QED BY <1>1, <1>3, <1>4, RateNat DEF rate_after

\* The value of a closed batch is a natural.
LEMMA UnbondedNat ==
  ASSUME TypeOK, NEW b \in DOMAIN unbond_history
  PROVE  unbonded_amount(b) \in Nat
<1>1. unbond_history[b].amount \in Nat /\ unbond_history[b].withdraw_rate \in Nat
  BY DEF TypeOK, UnbondHistory
<1>2. QED BY <1>1, MulNat DEF unbonded_amount

\* The first loop of process_withdraw_rate sums naturals.
LEMMA TotalUnbondedNat ==
  ASSUME TypeOK, NEW k \in last_processed_batch..(current_batch.id - 1)
  PROVE  total_unbonded_amount(k) \in Nat
<1> DEFINE S == (last_processed_batch + 1)..k
           f == [b \in S |-> unbonded_amount(b)]
<1>0. last_processed_batch \in Nat /\ current_batch.id \in Nat
      /\ DOMAIN unbond_history = 1..(current_batch.id - 1)
  BY DEF TypeOK
<1>1. IsFiniteSet(S) /\ S \subseteq DOMAIN unbond_history
  <2>1. k \in Int /\ last_processed_batch + 1 \in Int
    BY <1>0
  <2>2. IsFiniteSet(S)
    BY <2>1, FS_Interval
  <2>3. S \subseteq DOMAIN unbond_history
    BY <1>0
  <2>4. QED BY <2>2, <2>3
<1>2. \A b \in S : f[b] \in Nat
  BY <1>1, UnbondedNat
<1>3. DOMAIN f = S
  OBVIOUS
<1> HIDE DEF f, S
<1>4. SumFunctionOnSet(f, S) \in Nat
  BY <1>1, <1>2, SumNat
<1>5. total_unbonded_amount(k) = SumFunctionOnSet(f, S)
  BY <1>3 DEF total_unbonded_amount, SumFunction, f, S
<1>6. QED BY <1>4, <1>5

\* SignedInt keeps a magnitude.
LEMMA DistanceNat == ASSUME NEW a \in Nat, NEW b \in Nat PROVE distance(a, b) \in Nat
  BY DEF distance

\* When no error path of process_withdraw_rate is taken, what a batch is given is
\* a natural.
LEMMA ActualNat ==
  ASSUME TypeOK, NEW k \in last_processed_batch..(current_batch.id - 1), ReleaseSucceeds(k),
         NEW b \in (last_processed_batch + 1)..k
  PROVE  actual_unbonded_amount_of_batch(k, b) \in Nat
<1>0. b \in DOMAIN unbond_history
  <2>1. DOMAIN unbond_history = 1..(current_batch.id - 1)
        /\ current_batch.id \in Nat /\ last_processed_batch \in Nat
    BY DEF TypeOK
  <2>2. QED BY <2>1
<1>1. unbonded_amount(b) \in Nat /\ total_unbonded_amount(k) \in Nat \ {0}
  BY <1>0, UnbondedNat, TotalUnbondedNat DEF ReleaseSucceeds
<1>2. NewlyUnbonded \in Nat
  <2>1. luna \in Nat /\ prev_vault_balance \in Nat /\ actual_unbonded_amount \in Nat
    BY DEF TypeOK
  <2>2. distance(luna, prev_vault_balance) \in Nat
    BY <2>1, DistanceNat
  <2>3. QED BY <2>1, <2>2 DEF NewlyUnbonded
<1>3. slashed_amount(k) \in Nat
  BY <1>1, <1>2, DistanceNat DEF slashed_amount
<1>4. slashed_amount_of_batch(k, b) \in Nat
  BY <1>1, <1>3, RatioNat, MulNat DEF slashed_amount_of_batch
<1>5. CASE Surplus(k)
  <2>1. slashed_amount_of_batch(k, b) >= 1
    BY <1>5 DEF ReleaseSucceeds
  <2>2. QED BY <1>1, <1>4, <1>5, <2>1 DEF actual_unbonded_amount_of_batch
<1>6. CASE ~Surplus(k)
  <2>1. PICK loss \in Nat : loss = slashed_amount_of_batch(k, b)
                                     + (IF slashed_amount(k) # 0 THEN 1 ELSE 0)
    BY <1>4
  <2>2. distance(unbonded_amount(b), loss) \in Nat
    BY <1>1, DistanceNat
  <2>3. QED BY <1>6, <2>1, <2>2 DEF actual_unbonded_amount_of_batch
<1>7. QED BY <1>5, <1>6

\* The new withdraw rate is a natural.
LEMMA ReleaseNat ==
  ASSUME TypeOK, NEW k \in last_processed_batch..(current_batch.id - 1), ReleaseSucceeds(k),
         NEW b \in (last_processed_batch + 1)..k
  PROVE  from_ratio(actual_unbonded_amount_of_batch(k, b), unbond_history[b].amount) \in Nat
<1>1. b \in DOMAIN unbond_history
  <2>1. DOMAIN unbond_history = 1..(current_batch.id - 1)
        /\ current_batch.id \in Nat /\ last_processed_batch \in Nat
    BY DEF TypeOK
  <2>2. QED BY <2>1
<1>2. unbond_history[b].amount \in Nat \ {0}
  <2>1. unbond_history[b].amount \in Nat
    BY <1>1 DEF TypeOK, UnbondHistory
  <2>2. unbond_history[b].amount > 0
    BY DEF ReleaseSucceeds
  <2>3. QED BY <2>1, <2>2
<1>3. QED BY <1>2, ActualNat, RatioNat

\* A release keeps the unbond history well typed.
LEMMA HistoryAfter ==
  ASSUME TypeOK, NEW k \in last_processed_batch..(current_batch.id - 1), ReleaseSucceeds(k)
  PROVE  history_after(k) \in [1..(current_batch.id - 1) -> UnbondHistory]
<1>1. DOMAIN unbond_history = 1..(current_batch.id - 1)
  BY DEF TypeOK
<1>2. ASSUME NEW b \in 1..(current_batch.id - 1)
      PROVE  history_after(k)[b] \in UnbondHistory
  <2>1. unbond_history[b] \in UnbondHistory
    BY DEF TypeOK
  <2>2. CASE b \in (last_processed_batch + 1)..k
    BY <1>1, <2>1, <2>2, ReleaseNat DEF history_after, UnbondHistory
  <2>3. CASE b \notin (last_processed_batch + 1)..k
    BY <1>1, <2>1, <2>3 DEF history_after
  <2>4. QED BY <2>2, <2>3
<1>3. history_after(k) = [b \in 1..(current_batch.id - 1) |-> history_after(k)[b]]
  BY <1>1 DEF history_after
<1>4. QED BY <1>2, <1>3

\* store_unbond_wait_list keeps requests within the current batch.
LEMMA StoreRequests ==
  ASSUME NEW id \in Nat \ {0}, NEW r, IsRequests(r, id), NEW amount \in Nat
  PROVE  IsRequests(store_unbond_wait_list(r, id, amount), id)
  BY DEF IsRequests, store_unbond_wait_list

\* remove_unbond_wait_list keeps requests well typed.
LEMMA RemoveRequests ==
  ASSUME NEW id \in Nat \ {0}, NEW r, IsRequests(r, id), NEW B
  PROVE  IsRequests(remove_unbond_wait_list(r, B), id)
  BY DEF IsRequests, remove_unbond_wait_list, Restrict

\* pick_unbond_validator leaves no negative delegation.
LEMMA DrainedNat ==
  ASSUME TypeOK, NEW claim \in Nat, NEW d, pick_unbond_validator(claim, d)
  PROVE  d \in [Validators -> Nat]
<1>1. delegation \in [Validators -> Nat]
  BY DEF TypeOK
<1>2. CASE claim = 0 /\ d = delegation
  BY <1>1, <1>2
<1>3. ASSUME NEW last \in Validators, NEW emptied \in SUBSET (Validators \ {last}),
             SumFunctionOnSet(delegation, emptied) < claim,
             claim <= SumFunctionOnSet(delegation, emptied) + delegation[last],
             d = Drained(emptied, last, claim)
      PROVE  d \in [Validators -> Nat]
  <2>1. IsFiniteSet(emptied)
    BY VaultAssumption, FS_Subset
  <2>2. SumFunctionOnSet(delegation, emptied) \in Nat
    BY <1>1, <2>1, SumNat
  <2>3. QED BY <1>1, <1>3, <2>2 DEF Drained
<1>4. QED BY <1>2, <1>3 DEF pick_unbond_validator

\* instantiate establishes the types.
LEMMA TypeInit == Init => TypeOK
<1> SUFFICES ASSUME Init PROVE TypeOK
  OBVIOUS
<1>1. config \in Config /\ params \in Parameters /\ validate_rate(params)
      /\ validators \subseteq Validators /\ redelegating \subseteq Validators
  BY VaultAssumption DEF Init, Config
<1>2. \A u \in Users : IsRequests(unbond_wait_list[u], current_batch.id)
  BY DEF Init, IsRequests
<1>3. unbond_history \in [1..(current_batch.id - 1) -> UnbondHistory]
      /\ unbonding \in [1..(current_batch.id - 1) -> Unbonding]
  BY DEF Init
<1>4. delegation \in [Validators -> Nat]
  BY VaultAssumption DEF Init
<1>5. QED BY <1>1, <1>2, <1>3, <1>4, VaultAssumption, OnePos DEF Init, TypeOK

\* execute_slashing preserves the types.
LEMMA TypeSlashing == TypeOK /\ execute_slashing => TypeOK'
<1> SUFFICES ASSUME TypeOK, execute_slashing PROVE TypeOK'
  OBVIOUS
<1>1. total_bond_amount' \in Nat /\ exchange_rate' \in Nat
  BY SlashedNat DEF execute_slashing
<1>2. QED BY <1>1 DEF TypeOK, execute_slashing, configVars, batchVars, tokenVars, chainVars

\* The two bond handlers preserve the types.
LEMMA TypeBond == TypeOK /\ BondStep => TypeOK'
<1>1. ASSUME TypeOK, NEW v \in Validators, NEW payment \in Nat, NEW m \in 1..MaxSupply,
             _execute_bond(v, payment, m),
             vault_cluna' \in Nat, yluna_supply' \in Nat, pluna_supply' \in Nat
      PROVE  TypeOK'
  <2>1. slashed_bond \in Nat /\ cluna_supply \in Nat /\ current_batch.requested_with_fee \in Nat
    BY <1>1, SlashedNat DEF TypeOK
  <2>2. m \in Nat
    BY VaultAssumption
  <2>3. exchange_rate' \in Nat /\ total_bond_amount' \in Nat /\ cluna_supply' \in Nat
    <3>1. /\ total_bond_amount' = slashed_bond + payment
          /\ exchange_rate' = update_exchange_rate(slashed_bond + payment, cluna_supply + m,
                                                   current_batch.requested_with_fee)
          /\ cluna_supply' = cluna_supply + m
      BY <1>1 DEF _execute_bond
    <3>2. slashed_bond + payment \in Nat /\ cluna_supply + m \in Nat
      BY <1>1, <2>1, <2>2
    <3>3. QED BY <2>1, <3>1, <3>2, RateNat
  <2>4. delegation' \in [Validators -> Nat]
    <3>1. delegation' = [delegation EXCEPT ![v] = @ + payment]
      BY <1>1 DEF _execute_bond
    <3>2. delegation \in [Validators -> Nat]
      BY <1>1 DEF TypeOK
    <3>3. QED BY <1>1, <3>1, <3>2
  <2>5. QED BY <1>1, <2>3, <2>4 DEF TypeOK, _execute_bond, configVars, batchVars
<1>2. SUFFICES ASSUME TypeOK, BondStep PROVE TypeOK'
  OBVIOUS
<1>3. vault_cluna \in Nat /\ yluna_supply \in Nat /\ pluna_supply \in Nat
  BY <1>2 DEF TypeOK
<1>4. ASSUME NEW v \in Validators, NEW payment \in BondAmounts, execute_bond(v, payment)
      PROVE  TypeOK'
  <2>1. PICK m \in 1..MaxSupply : /\ _execute_bond(v, payment, m)
                                  /\ UNCHANGED <<vault_cluna, yluna_supply, pluna_supply>>
    BY <1>4 DEF execute_bond
  <2>2. payment \in Nat
    BY VaultAssumption
  <2>3. QED BY <1>1, <1>2, <1>3, <2>1, <2>2
<1>5. ASSUME NEW v \in Validators, NEW payment \in SplitBondAmounts,
             execute_bond_split(v, payment)
      PROVE  TypeOK'
  <2>1. PICK m \in 1..MaxSupply : /\ _execute_bond(v, payment, m)
                                  /\ vault_cluna' = vault_cluna + m
                                  /\ yluna_supply' = yluna_supply + m
                                  /\ pluna_supply' = pluna_supply + m
    BY <1>5 DEF execute_bond_split
  <2>2. payment \in Nat /\ m \in Nat
    BY VaultAssumption
  <2>3. QED BY <1>1, <1>2, <1>3, <2>1, <2>2
<1>6. QED BY <1>2, <1>4, <1>5 DEF BondStep

\* split and merge preserve the types.
LEMMA TypeRefract == TypeOK /\ RefractStep => TypeOK'
<1> SUFFICES ASSUME TypeOK, NEW amount \in RefractAmounts, split(amount) \/ merge(amount)
             PROVE  TypeOK'
  BY DEF RefractStep
<1>1. amount \in Nat
  BY VaultAssumption
<1>2. vault_cluna' \in Nat /\ yluna_supply' \in Nat /\ pluna_supply' \in Nat
  <2>1. vault_cluna \in Nat /\ yluna_supply \in Nat /\ pluna_supply \in Nat
    BY DEF TypeOK
  <2>2. CASE split(amount)
    BY <1>1, <2>1, <2>2 DEF split
  <2>3. CASE merge(amount)
    BY <1>1, <2>1, <2>3 DEF merge
  <2>4. QED BY <2>2, <2>3
<1>3. UNCHANGED <<cluna_supply, configVars, stateVars, batchVars, chainVars>>
  BY DEF split, merge
<1>4. QED BY <1>2, <1>3 DEF TypeOK, configVars, stateVars, batchVars, chainVars

\* execute_unbond preserves the types, within an epoch and when it closes a batch.
LEMMA TypeUnbond == TypeOK /\ UnbondStep => TypeOK'
<1> SUFFICES ASSUME TypeOK, NEW u \in Users, NEW amount \in UnbondAmounts,
                    execute_unbond(u, amount)
             PROVE  TypeOK'
  BY DEF UnbondStep
<1>0. amount \in Nat /\ current_batch.id \in Nat \ {0} /\ current_batch.requested_with_fee \in Nat
      /\ slashed_bond \in Nat
  BY VaultAssumption, SlashedNat DEF TypeOK
<1>1. Request(u, amount)
  BY DEF execute_unbond, unbond_within_epoch, unbond_closing_batch
<1>2. amount <= circulating /\ (BelowPeg => UnbondDeficit >= 0)
  BY <1>1 DEF Request
<1>3. amount_with_fee(amount) \in Nat /\ requested_after(amount) \in Nat
      /\ cluna_supply - amount \in Nat /\ rate_after(amount) \in Nat
  BY <1>0, <1>2, FeeNat, RequestNat
<1>4. exchange_rate' \in Nat /\ cluna_supply' \in Nat
  BY <1>1, <1>3 DEF Request
<1>5. unbond_wait_list' = [w \in Users |-> unbond_wait_list'[w]]
      /\ \A w \in Users : IsRequests(unbond_wait_list'[w], current_batch.id)
  <2>1. unbond_wait_list = [w \in Users |-> unbond_wait_list[w]]
        /\ \A w \in Users : IsRequests(unbond_wait_list[w], current_batch.id)
    BY DEF TypeOK
  <2>2. unbond_wait_list' = [unbond_wait_list EXCEPT ![u] =
           store_unbond_wait_list(@, current_batch.id, amount_with_fee(amount))]
    BY <1>1 DEF Request
  <2>3. IsRequests(store_unbond_wait_list(unbond_wait_list[u], current_batch.id,
                                          amount_with_fee(amount)), current_batch.id)
    BY <1>0, <1>3, <2>1, StoreRequests
  <2>4. QED BY <2>1, <2>2, <2>3
<1>6. CASE unbond_within_epoch(u, amount)
  <2>1. current_batch' \in [id: Nat \ {0}, requested_with_fee: Nat]
        /\ current_batch'.id = current_batch.id
    <3>1. current_batch' = [current_batch EXCEPT !.requested_with_fee = requested_after(amount)]
      BY <1>6 DEF unbond_within_epoch
    <3>2. current_batch \in [id: Nat \ {0}, requested_with_fee: Nat]
      BY DEF TypeOK
    <3>3. QED BY <1>3, <3>1, <3>2
  <2>2. total_bond_amount' \in Nat
    BY <1>0, <1>6 DEF unbond_within_epoch
  <2>3. UNCHANGED <<configVars, prev_vault_balance, actual_unbonded_amount,
                    last_processed_batch, vault_cluna, yluna_supply, pluna_supply,
                    now, luna, redelegating>>
    BY <1>1 DEF Request
  <2>4. UNCHANGED <<last_unbonded_time, unbond_history, delegation, unbonding>>
    BY <1>6 DEF unbond_within_epoch
  <2>5. QED BY <1>4, <1>5, <2>1, <2>2, <2>3, <2>4 DEF TypeOK, configVars
<1>7. CASE unbond_closing_batch(u, amount)
  <2> DEFINE claim == mul(requested_after(amount), rate_after(amount))
             id == current_batch.id
             entry == [time |-> now, amount |-> requested_after(amount),
                       applied_exchange_rate |-> rate_after(amount),
                       withdraw_rate |-> rate_after(amount), released |-> FALSE]
  <2>1. claim \in Nat
    BY <1>3, MulNat
  <2>2. /\ claim <= slashed_bond
        /\ pick_unbond_validator(claim, delegation')
        /\ total_bond_amount' = slashed_bond - claim
        /\ unbond_history' = [b \in DOMAIN unbond_history \cup {id} |->
             IF b = id THEN entry ELSE unbond_history[b]]
        /\ unbonding' = [b \in DOMAIN unbonding \cup {id} |->
             IF b = id THEN [amount |-> claim, paid |-> FALSE] ELSE unbonding[b]]
        /\ current_batch' = [id |-> id + 1, requested_with_fee |-> 0]
        /\ last_unbonded_time' = now
    BY <1>7 DEF unbond_closing_batch
  <2> HIDE DEF claim
  <2>3. total_bond_amount' \in Nat /\ delegation' \in [Validators -> Nat]
    BY <1>0, <2>1, <2>2, DrainedNat
  <2>4. current_batch' \in [id: Nat \ {0}, requested_with_fee: Nat]
        /\ current_batch'.id = id + 1
    BY <1>0, <2>2
  <2>5. now \in Nat /\ DOMAIN unbond_history = 1..(id - 1) /\ DOMAIN unbonding = 1..(id - 1)
        /\ last_processed_batch \in 0..(id - 1)
    BY DEF TypeOK
  <2>6. 1..(id - 1) \cup {id} = 1..id
    BY <1>0
  <2>7. unbond_history' \in [1..id -> UnbondHistory]
    <3>1. entry \in UnbondHistory
      BY <1>3, <2>5 DEF UnbondHistory
    <3>2. \A b \in 1..(id - 1) : unbond_history[b] \in UnbondHistory
      BY DEF TypeOK
    <3>3. unbond_history' = [b \in 1..id |-> IF b = id THEN entry ELSE unbond_history[b]]
      BY <2>2, <2>5, <2>6
    <3> HIDE DEF entry
    <3>4. QED BY <1>0, <3>1, <3>2, <3>3
  <2>8. unbonding' \in [1..id -> Unbonding]
    <3>1. [amount |-> claim, paid |-> FALSE] \in Unbonding
      BY <2>1 DEF Unbonding
    <3>2. \A b \in 1..(id - 1) : unbonding[b] \in Unbonding
      BY DEF TypeOK
    <3>3. unbonding' = [b \in 1..id |-> IF b = id THEN [amount |-> claim, paid |-> FALSE]
                                        ELSE unbonding[b]]
      BY <2>2, <2>5, <2>6
    <3>4. QED BY <1>0, <3>1, <3>2, <3>3
  <2>9. \A w \in Users : IsRequests(unbond_wait_list'[w], current_batch'.id)
    BY <1>0, <1>5, <2>4 DEF IsRequests
  <2>10. UNCHANGED <<configVars, prev_vault_balance, actual_unbonded_amount,
                     last_processed_batch, vault_cluna, yluna_supply, pluna_supply,
                     now, luna, redelegating>>
    BY <1>1 DEF Request
  <2>11. last_processed_batch' \in 0..(current_batch'.id - 1)
         /\ current_batch'.id - 1 = id
    BY <1>0, <2>4, <2>5, <2>10
  <2>12. last_unbonded_time' \in Nat
    BY <2>2, <2>5
  <2>13. QED BY <1>4, <1>5, <2>3, <2>4, <2>7, <2>8, <2>9, <2>10, <2>11, <2>12
             DEF TypeOK, configVars
<1>8. QED BY <1>6, <1>7 DEF execute_unbond

\* execute_withdraw_unbonded preserves the types.
LEMMA TypeWithdraw == TypeOK /\ WithdrawStep => TypeOK'
<1> SUFFICES ASSUME TypeOK, NEW u \in Users, execute_withdraw_unbonded(u)
             PROVE  TypeOK'
  BY DEF WithdrawStep
<1>1. PICK k \in last_processed_batch..(current_batch.id - 1) :
        /\ LoopsEndAt(k, now - params.unbonding_period)
        /\ ReleaseSucceeds(k)
        /\ \E withdraw_amount \in 1..luna :
             /\ withdraw_amount = get_finished_amount(unbond_wait_list[u], history_after(k))
             /\ prev_vault_balance' = luna - withdraw_amount
             /\ luna' = luna - withdraw_amount
        /\ unbond_history' = history_after(k)
        /\ last_processed_batch' = k
        /\ unbond_wait_list' = [unbond_wait_list EXCEPT ![u] =
             remove_unbond_wait_list(@, get_unbond_batches(@, history_after(k)))]
  BY DEF execute_withdraw_unbonded
<1>2. actual_unbonded_amount' = 0
      /\ UNCHANGED <<exchange_rate, total_bond_amount, last_unbonded_time, current_batch,
                     configVars, tokenVars, now, delegation, unbonding, redelegating>>
  BY DEF execute_withdraw_unbonded
<1>3. luna \in Nat /\ current_batch.id \in Nat \ {0}
      /\ last_processed_batch \in 0..(current_batch.id - 1)
  BY DEF TypeOK
<1>4. prev_vault_balance' \in Nat /\ luna' \in Nat
  <2>1. PICK w \in 1..luna : prev_vault_balance' = luna - w /\ luna' = luna - w
    BY <1>1
  <2>2. QED BY <1>3, <2>1
<1>5. unbond_history' \in [1..(current_batch.id - 1) -> UnbondHistory]
  BY <1>1, HistoryAfter
<1>6. unbond_wait_list' = [w \in Users |-> unbond_wait_list'[w]]
      /\ \A w \in Users : IsRequests(unbond_wait_list'[w], current_batch.id)
  <2>1. unbond_wait_list = [w \in Users |-> unbond_wait_list[w]]
        /\ \A w \in Users : IsRequests(unbond_wait_list[w], current_batch.id)
    BY DEF TypeOK
  <2>2. PICK B : unbond_wait_list' = [unbond_wait_list EXCEPT ![u] = remove_unbond_wait_list(@, B)]
    BY <1>1
  <2>3. IsRequests(remove_unbond_wait_list(unbond_wait_list[u], B), current_batch.id)
    BY <1>3, <2>1, RemoveRequests
  <2>4. QED BY <2>1, <2>2, <2>3
<1>7. last_processed_batch' \in 0..(current_batch.id - 1)
  BY <1>1, <1>3
<1>8. QED BY <1>2, <1>4, <1>5, <1>6, <1>7 DEF TypeOK, configVars, tokenVars

\* A redelegation of at most what is delegated leaves no negative delegation.
LEMMA RedelegateNat ==
  ASSUME TypeOK, NEW v \in Validators, NEW w \in Validators, NEW amount \in Nat,
         amount <= delegation[v], Redelegate(v, w, amount)
  PROVE  delegation' \in [Validators -> Nat] /\ redelegating' \subseteq Validators
<1>1. delegation \in [Validators -> Nat] /\ redelegating \subseteq Validators
  BY DEF TypeOK
<1>2. QED BY <1>1 DEF Redelegate

\* The handlers of config.rs preserve the types.
LEMMA TypeAdmin == TypeOK /\ AdminStep => TypeOK'
<1> SUFFICES ASSUME TypeOK, AdminStep PROVE TypeOK'
  OBVIOUS
<1>1. ASSUME NEW sender \in Admins, NEW p \in ParamChoices, execute_update_params(sender, p)
      PROVE  TypeOK'
  <2>1. params' \in Parameters /\ validate_rate(params')
    BY <1>1, VaultAssumption DEF execute_update_params
  <2>2. UNCHANGED <<config, validators, stateVars, batchVars, tokenVars, chainVars>>
    BY <1>1 DEF execute_update_params
  <2>3. QED BY <2>1, <2>2 DEF TypeOK, validate_rate, stateVars, batchVars, tokenVars, chainVars
<1>2. ASSUME NEW sender \in Admins, NEW owner \in Admins, NEW manager \in Admins,
             NEW staking \in BOOLEAN, NEW airdrop \in BOOLEAN,
             execute_update_config(sender, owner, manager, staking, airdrop)
      PROVE  TypeOK'
  <2>1. config' \in Config
    BY <1>2 DEF execute_update_config, Config
  <2>2. UNCHANGED <<params, validators, stateVars, batchVars, tokenVars, chainVars>>
    BY <1>2 DEF execute_update_config
  <2>3. QED BY <2>1, <2>2 DEF TypeOK, stateVars, batchVars, tokenVars, chainVars
<1>3. ASSUME NEW sender \in Admins, NEW v \in Validators, execute_register_validator(sender, v)
      PROVE  TypeOK'
  <2>1. validators' \subseteq Validators
    BY <1>3 DEF execute_register_validator, TypeOK
  <2>2. UNCHANGED <<config, params, stateVars, batchVars, tokenVars, chainVars>>
    BY <1>3 DEF execute_register_validator
  <2>3. QED BY <2>1, <2>2 DEF TypeOK, stateVars, batchVars, tokenVars, chainVars
<1>4. ASSUME NEW sender \in Admins, NEW v \in Validators, NEW w \in Validators,
             execute_deregister_validator(sender, v, w)
      PROVE  TypeOK'
  <2>1. validators' \subseteq Validators
    BY <1>4 DEF execute_deregister_validator, TypeOK
  <2>2. delegation' \in [Validators -> Nat] /\ redelegating' \subseteq Validators
    <3>1. delegation \in [Validators -> Nat] /\ redelegating \subseteq Validators
      BY DEF TypeOK
    <3>2. CASE UNCHANGED <<delegation, redelegating>>
      BY <3>1, <3>2
    <3>3. CASE Redelegate(v, w, delegation[v])
      BY <3>1, <3>3, RedelegateNat
    <3>4. QED BY <1>4, <3>2, <3>3 DEF execute_deregister_validator
  <2>3. UNCHANGED <<config, params, stateVars, batchVars, tokenVars, now, luna, unbonding>>
    BY <1>4 DEF execute_deregister_validator
  <2>4. QED BY <2>1, <2>2, <2>3 DEF TypeOK, stateVars, batchVars, tokenVars
<1>5. ASSUME NEW sender \in Admins, NEW v \in Validators, NEW w \in Validators,
             NEW amount \in 1..delegation[v], execute_redelegate(sender, v, w, amount)
      PROVE  TypeOK'
  <2>1. delegation[v] \in Nat
    BY DEF TypeOK
  <2>2. amount \in Nat /\ amount <= delegation[v] /\ Redelegate(v, w, amount)
    BY <1>5, <2>1 DEF execute_redelegate
  <2>3. delegation' \in [Validators -> Nat] /\ redelegating' \subseteq Validators
    BY <2>2, RedelegateNat
  <2>4. UNCHANGED <<configVars, stateVars, batchVars, tokenVars, now, luna, unbonding>>
    BY <1>5 DEF execute_redelegate
  <2>5. QED BY <2>3, <2>4 DEF TypeOK, configVars, stateVars, batchVars, tokenVars
<1>6. QED BY <1>1, <1>2, <1>3, <1>4, <1>5 DEF AdminStep

\* The end of a block pays out a natural.
LEMMA PaidNat ==
  ASSUME TypeOK
  PROVE  SumFunction([b \in {c \in DOMAIN unbonding : Due(c)} |-> unbonding[b].amount]) \in Nat
<1> DEFINE S == {c \in DOMAIN unbonding : Due(c)}
           f == [b \in S |-> unbonding[b].amount]
<1>1. IsFiniteSet(S)
  <2>1. current_batch.id - 1 \in Int /\ DOMAIN unbonding = 1..(current_batch.id - 1)
    BY DEF TypeOK
  <2>2. IsFiniteSet(DOMAIN unbonding)
    BY <2>1, FS_Interval
  <2>3. QED BY <2>2, FS_Subset
<1>2. \A b \in S : f[b] \in Nat
  BY DEF TypeOK, Unbonding
<1>3. DOMAIN f = S
  OBVIOUS
<1> HIDE DEF f, S
<1>4. SumFunctionOnSet(f, S) \in Nat
  BY <1>1, <1>2, SumNat
<1>5. QED BY <1>3, <1>4 DEF SumFunction, f, S

\* The chain and the token contracts preserve the types.
LEMMA TypeChain == TypeOK /\ ChainStep => TypeOK'
<1> SUFFICES ASSUME TypeOK, ChainStep PROVE TypeOK'
  OBVIOUS
<1>0. now \in Nat /\ luna \in Nat /\ delegation \in [Validators -> Nat]
      /\ unbonding \in [1..(current_batch.id - 1) -> Unbonding]
      /\ DOMAIN unbonding = 1..(current_batch.id - 1)
  BY DEF TypeOK
<1>1. CASE EndBlock
  <2>1. now' \in Nat /\ luna' \in Nat
    BY <1>0, <1>1, PaidNat DEF EndBlock
  <2>2. unbonding' \in [1..(current_batch.id - 1) -> Unbonding]
    <3>1. unbonding' = [b \in 1..(current_batch.id - 1) |->
                          IF Due(b) THEN [unbonding[b] EXCEPT !.paid = TRUE] ELSE unbonding[b]]
      BY <1>0, <1>1 DEF EndBlock
    <3>2. \A b \in 1..(current_batch.id - 1) :
            unbonding[b] \in Unbonding /\ [unbonding[b] EXCEPT !.paid = TRUE] \in Unbonding
      BY <1>0 DEF Unbonding
    <3>3. QED BY <3>1, <3>2
  <2>3. UNCHANGED <<configVars, stateVars, batchVars, tokenVars, delegation, redelegating>>
    BY <1>1 DEF EndBlock
  <2>4. QED BY <2>1, <2>2, <2>3 DEF TypeOK, configVars, stateVars, batchVars, tokenVars
<1>2. ASSUME NEW v \in Validators, NEW cut \in SlashAmounts, SlashDelegation(v, cut)
      PROVE  TypeOK'
  <2>1. delegation' \in [Validators -> Nat]
    BY <1>0, <1>2, VaultAssumption DEF SlashDelegation
  <2>2. UNCHANGED <<configVars, stateVars, batchVars, tokenVars, now, luna, unbonding,
                    redelegating>>
    BY <1>2 DEF SlashDelegation
  <2>3. QED BY <2>1, <2>2 DEF TypeOK, configVars, stateVars, batchVars, tokenVars
<1>3. ASSUME NEW b \in DOMAIN unbonding, NEW cut \in UnbondingSlashAmounts,
             SlashUnbonding(b, cut)
      PROVE  TypeOK'
  <2>1. unbonding' \in [1..(current_batch.id - 1) -> Unbonding]
    <3>1. unbonding' = [unbonding EXCEPT ![b].amount = @ - cut] /\ cut < unbonding[b].amount
      BY <1>3 DEF SlashUnbonding
    <3>2. unbonding[b] \in [amount: Nat, paid: BOOLEAN] /\ cut \in Nat
      BY <1>0, <1>3, VaultAssumption DEF Unbonding
    <3>3. [unbonding[b] EXCEPT !.amount = @ - cut] \in [amount: Nat, paid: BOOLEAN]
      BY <3>1, <3>2
    <3>4. unbonding' = [unbonding EXCEPT ![b] = [unbonding[b] EXCEPT !.amount = @ - cut]]
      BY <3>1
    <3>5. QED BY <1>0, <3>3, <3>4 DEF Unbonding
  <2>2. UNCHANGED <<configVars, stateVars, batchVars, tokenVars, now, luna, delegation,
                    redelegating>>
    BY <1>3 DEF SlashUnbonding
  <2>3. QED BY <2>1, <2>2 DEF TypeOK, configVars, stateVars, batchVars, tokenVars
<1>4. ASSUME NEW v \in Validators, RedelegationCompletes(v)
      PROVE  TypeOK'
  BY <1>4 DEF RedelegationCompletes, TypeOK, configVars, stateVars, batchVars, tokenVars
<1>5. ASSUME NEW amount \in RogueAmounts, RogueTransfer(amount)
      PROVE  TypeOK'
  <2>1. luna' \in Nat
    BY <1>0, <1>5, VaultAssumption DEF RogueTransfer
  <2>2. UNCHANGED <<configVars, stateVars, batchVars, tokenVars, now, delegation, unbonding,
                    redelegating>>
    BY <1>5 DEF RogueTransfer
  <2>3. QED BY <2>1, <2>2 DEF TypeOK, configVars, stateVars, batchVars, tokenVars
<1>6. ASSUME NEW token, NEW amount \in HolderBurns, HolderBurn(token, amount)
      PROVE  TypeOK'
  <2>1. amount \in Nat /\ cluna_supply \in Nat /\ vault_cluna \in Nat
        /\ yluna_supply \in Nat /\ pluna_supply \in Nat
    BY VaultAssumption DEF TypeOK
  <2>2. cluna_supply' \in Nat /\ vault_cluna' \in Nat
        /\ yluna_supply' \in Nat /\ pluna_supply' \in Nat
    BY <1>6, <2>1 DEF HolderBurn, circulating
  <2>3. UNCHANGED <<configVars, stateVars, batchVars, chainVars>>
    BY <1>6 DEF HolderBurn
  <2>4. QED BY <2>2, <2>3 DEF TypeOK, configVars, stateVars, batchVars, chainVars
<1>7. QED BY <1>1, <1>2, <1>3, <1>4, <1>5, <1>6 DEF ChainStep

\* Every step preserves the types.
LEMMA TypeStep == TypeOK /\ [Next]_vars => TypeOK'
<1> SUFFICES ASSUME TypeOK, [Next]_vars PROVE TypeOK'
  OBVIOUS
<1>1. CASE UNCHANGED vars
  BY <1>1 DEF TypeOK, vars, configVars, stateVars, batchVars, tokenVars, chainVars
<1>2. QED BY <1>1, TypeBond, TypeRefract, TypeUnbond, TypeWithdraw, TypeSlashing, TypeAdmin,
             TypeChain DEF Next

\* Every reachable state of the vault is well typed: no subtraction of the handlers
\* underflows, no division is by zero, each closed batch has one history entry and
\* requests are for opened batches only.
THEOREM TypeCorrect == Spec => []TypeOK
  BY TypeInit, TypeStep, PTL DEF Spec

-----------------------------------------------------------------------------
\* After instantiate, the only cLuna is the vault's own.
LEMMA RefractInit == Init => RefractBacked
  BY VaultAssumption DEF Init, RefractBacked

\* Every step keeps the split cLuna in the vault.
LEMMA RefractInvStep == TypeOK /\ RefractBacked /\ [Next]_vars => RefractBacked'
<1> SUFFICES ASSUME TypeOK, RefractBacked, [Next]_vars PROVE RefractBacked'
  OBVIOUS
<1>0. cluna_supply \in Nat /\ vault_cluna \in Nat /\ yluna_supply \in Nat /\ pluna_supply \in Nat
      /\ InitialBond \in Nat
  BY VaultAssumption DEF TypeOK
<1>1. CASE UNCHANGED tokenVars
  BY <1>1 DEF RefractBacked, tokenVars
<1>2. CASE BondStep
  <2>1. ASSUME NEW v, NEW payment, execute_bond(v, payment) PROVE RefractBacked'
    <3>1. PICK m \in 1..MaxSupply : /\ cluna_supply' = cluna_supply + m
                                    /\ UNCHANGED <<vault_cluna, yluna_supply, pluna_supply>>
      BY <2>1 DEF execute_bond, _execute_bond
    <3>2. QED BY <1>0, <3>1, VaultAssumption DEF RefractBacked
  <2>2. ASSUME NEW v, NEW payment, execute_bond_split(v, payment) PROVE RefractBacked'
    <3>1. PICK m \in 1..MaxSupply : /\ cluna_supply' = cluna_supply + m
                                    /\ vault_cluna' = vault_cluna + m
                                    /\ yluna_supply' = yluna_supply + m
                                    /\ pluna_supply' = pluna_supply + m
      BY <2>2 DEF execute_bond_split, _execute_bond
    <3>2. QED BY <1>0, <3>1, VaultAssumption DEF RefractBacked
  <2>3. QED BY <1>2, <2>1, <2>2 DEF BondStep
<1>3. CASE RefractStep
  <2>1. PICK amount \in RefractAmounts : split(amount) \/ merge(amount)
    BY <1>3 DEF RefractStep
  <2>2. amount \in Nat
    BY VaultAssumption
  <2>3. CASE split(amount)
    BY <1>0, <2>2, <2>3 DEF split, circulating, RefractBacked
  <2>4. CASE merge(amount)
    BY <1>0, <2>2, <2>4 DEF merge, RefractBacked
  <2>5. QED BY <2>1, <2>3, <2>4
<1>4. CASE UnbondStep
  <2>1. PICK u \in Users, amount \in UnbondAmounts : execute_unbond(u, amount)
    BY <1>4 DEF UnbondStep
  <2>2. Request(u, amount)
    BY <2>1 DEF execute_unbond, unbond_within_epoch, unbond_closing_batch
  <2>3. /\ amount <= circulating /\ cluna_supply' = cluna_supply - amount
        /\ UNCHANGED <<vault_cluna, yluna_supply, pluna_supply>>
    BY <2>2 DEF Request
  <2>4. amount \in Nat
    BY VaultAssumption
  <2>5. QED BY <1>0, <2>3, <2>4 DEF circulating, RefractBacked
<1>5. CASE WithdrawStep \/ execute_slashing \/ AdminStep
  <2>1. UNCHANGED tokenVars
    BY <1>5 DEF WithdrawStep, execute_withdraw_unbonded, execute_slashing, AdminStep,
         execute_update_params, execute_update_config, execute_register_validator,
         execute_deregister_validator, execute_redelegate
  <2>2. QED BY <1>1, <2>1
<1>6. CASE ChainStep
  <2>1. ASSUME NEW token, NEW amount \in HolderBurns, HolderBurn(token, amount)
        PROVE  RefractBacked'
    <3>1. amount \in Nat
      BY VaultAssumption
    <3>2. QED BY <1>0, <2>1, <3>1 DEF HolderBurn, circulating, RefractBacked
  <2>2. UNCHANGED tokenVars \/ (\E token \in {"cluna", "yluna", "pluna", "gift"},
                                   amount \in HolderBurns : HolderBurn(token, amount))
    BY <1>6 DEF ChainStep, EndBlock, SlashDelegation, SlashUnbonding, RedelegationCompletes,
         RogueTransfer
  <2>3. QED BY <1>1, <2>1, <2>2
<1>7. QED BY <1>1, <1>2, <1>3, <1>4, <1>5, <1>6 DEF Next, vars

\* The vault always holds the cLuna of every yLuna and of every pLuna, besides the
\* initial bond (split, merge, execute_bond_split).
THEOREM RefractAlwaysBacked == Spec => []RefractBacked
<1>1. Init => TypeOK /\ RefractBacked
  BY TypeInit, RefractInit
<1>2. TypeOK /\ RefractBacked /\ [Next]_vars => (TypeOK /\ RefractBacked)'
  BY TypeStep, RefractInvStep
<1>3. QED BY <1>1, <1>2, PTL DEF Spec

-----------------------------------------------------------------------------
\* pick_unbond_validator undelegates exactly the claim.
LEMMA DrainedSum ==
  ASSUME TypeOK, NEW claim \in Nat, NEW d, pick_unbond_validator(claim, d)
  PROVE  SumFunctionOnSet(d, Validators) = actual_total_bonded - claim
<1> DEFINE Sm(f, s) == SumFunctionOnSet(f, s)
<1>0. actual_total_bonded = Sm(delegation, Validators) /\ actual_total_bonded \in Nat
  BY DelegationsNat DEF actual_total_bonded
<1>1. delegation \in [Validators -> Nat] /\ d \in [Validators -> Nat] /\ IsFiniteSet(Validators)
  BY VaultAssumption, DrainedNat DEF TypeOK
<1>2. CASE claim = 0 /\ d = delegation
  BY <1>0, <1>2
<1>3. ASSUME NEW last \in Validators, NEW emptied \in SUBSET (Validators \ {last}),
             SumFunctionOnSet(delegation, emptied) < claim,
             claim <= SumFunctionOnSet(delegation, emptied) + delegation[last],
             d = Drained(emptied, last, claim)
      PROVE  Sm(d, Validators) = actual_total_bonded - claim
  <2>1. PICK rest \in SUBSET Validators : rest = Validators \ emptied /\ last \in rest
    OBVIOUS
  <2>2. emptied \subseteq Validators /\ IsFiniteSet(emptied) /\ IsFiniteSet(rest)
    BY <1>1, FS_Subset
  <2>3. \A v \in Validators : delegation[v] \in Nat /\ d[v] \in Nat
    BY <1>1
  <2>4. /\ \A v \in emptied : d[v] = 0
        /\ \A v \in rest \ {last} : d[v] = delegation[v]
        /\ d[last] = delegation[last] - (claim - Sm(delegation, emptied))
    BY <1>3, <2>1 DEF Drained
  <2>5. Sm(d, Validators) = Sm(d, emptied) + Sm(d, rest)
    BY <1>1, <2>1, <2>2, <2>3, SumSplit
  <2>6. Sm(delegation, Validators) = Sm(delegation, emptied) + Sm(delegation, rest)
    BY <1>1, <2>1, <2>2, <2>3, SumSplit
  <2>7. Sm(d, emptied) = 0
    BY <2>2, <2>4, SumZero
  <2>8. Sm(d, rest) = Sm(delegation, rest) - delegation[last] + d[last]
    BY <2>1, <2>2, <2>3, <2>4, SumUpdate
  <2>9. Sm(delegation, emptied) \in Nat /\ Sm(delegation, rest) \in Nat
    BY <2>2, <2>3, SumNat
  <2>10. delegation[last] \in Nat /\ d[last] \in Nat
    BY <2>3
  <2> HIDE DEF Sm
  <2>11. QED BY <1>0, <2>4, <2>5, <2>6, <2>7, <2>8, <2>9, <2>10
<1>4. QED BY <1>2, <1>3 DEF pick_unbond_validator

\* The delegations change in sum by what one of them changes.
LEMMA DelegationChange ==
  ASSUME TypeOK, NEW v \in Validators, NEW d \in [Validators -> Nat],
         \A w \in Validators \ {v} : d[w] = delegation[w]
  PROVE  SumFunctionOnSet(d, Validators) = actual_total_bonded - delegation[v] + d[v]
<1>1. \A w \in Validators : delegation[w] \in Nat /\ d[w] \in Nat
  BY DEF TypeOK
<1>2. IsFiniteSet(Validators)
  BY VaultAssumption
<1>3. SumFunctionOnSet(d, Validators)
        = SumFunctionOnSet(delegation, Validators) - delegation[v] + d[v]
  BY <1>1, <1>2, SumUpdate
<1>4. QED BY <1>3 DEF actual_total_bonded

\* A redelegation moves Luna and neither adds nor loses any.
LEMMA RedelegateSum ==
  ASSUME TypeOK, NEW v \in Validators, NEW w \in Validators, NEW amount \in Nat,
         amount <= delegation[v], Redelegate(v, w, amount)
  PROVE  SumFunctionOnSet(delegation', Validators) = actual_total_bonded
<1>1. delegation \in [Validators -> Nat] /\ delegation' \in [Validators -> Nat]
  BY RedelegateNat DEF TypeOK
<1>2. v # w /\ delegation' = [delegation EXCEPT ![v] = @ - amount, ![w] = @ + amount]
  BY DEF Redelegate
<1>3. PICK d \in [Validators -> Nat] : d = [delegation EXCEPT ![v] = @ - amount]
  <2>1. delegation[v] - amount \in Nat
    BY <1>1
  <2>2. [delegation EXCEPT ![v] = @ - amount] \in [Validators -> Nat]
    BY <1>1, <2>1
  <2>3. QED BY <2>2
<1>4. /\ d[v] = delegation[v] - amount /\ d[w] = delegation[w]
      /\ \A x \in Validators \ {v} : d[x] = delegation[x]
      /\ delegation'[w] = delegation[w] + amount
      /\ \A x \in Validators \ {w} : delegation'[x] = d[x]
  <2>1. /\ d[v] = delegation[v] - amount /\ d[w] = delegation[w]
        /\ \A x \in Validators \ {v} : d[x] = delegation[x]
    BY <1>1, <1>2, <1>3
  <2>2. /\ delegation'[w] = delegation[w] + amount
        /\ delegation'[v] = delegation[v] - amount
        /\ \A x \in Validators \ {v, w} : delegation'[x] = delegation[x]
    BY <1>1, <1>2
  <2>3. QED BY <2>1, <2>2
<1>5. SumFunctionOnSet(d, Validators) = actual_total_bonded - delegation[v] + d[v]
  BY <1>3, <1>4, DelegationChange
<1>6. SumFunctionOnSet(delegation', Validators)
        = SumFunctionOnSet(d, Validators) - d[w] + delegation'[w]
  <2>1. \A x \in Validators : d[x] \in Nat /\ delegation'[x] \in Nat
    BY <1>1, <1>3
  <2>2. IsFiniteSet(Validators)
    BY VaultAssumption
  <2>3. PICK h : h = delegation'
    OBVIOUS
  <2>4. SumFunctionOnSet(h, Validators) = SumFunctionOnSet(d, Validators) - d[w] + h[w]
    BY <1>4, <2>1, <2>2, <2>3, SumUpdate
  <2>5. QED BY <2>3, <2>4
<1>7. delegation[v] \in Nat /\ delegation[w] \in Nat
  BY <1>1
<1>8. actual_total_bonded \in Nat
  BY DelegationsNat
<1>9. QED BY <1>4, <1>5, <1>6, <1>7, <1>8

\* The inductive invariant behind BondNeverEmpty: the initial cLuna that the vault
\* keeps for itself (RefractBacked) is a share no batch can claim.
BondInv == TypeOK /\ RefractBacked /\ BondNeverEmpty

\* After slashing(), something is bonded and it is all delegated.
LEMMA SlashedFacts ==
  ASSUME BondInv
  PROVE  slashed_bond \in Nat \ {0} /\ slashed_bond <= actual_total_bonded
         /\ actual_total_bonded \in Nat \ {0}
<1>1. actual_total_bonded \in Nat /\ total_bond_amount \in Nat
  BY DelegationsNat DEF BondInv, TypeOK
<1>2. actual_total_bonded > 0 /\ total_bond_amount > 0
  BY DEF BondInv, BondNeverEmpty
<1>3. QED BY <1>1, <1>2 DEF slashed_bond, SlashingFound

\* A batch is worth less than what is bonded: the vault's own cLuna has a share.
LEMMA ClaimBelowBond ==
  ASSUME BondInv, NEW amount \in Nat, amount <= circulating, BelowPeg => UnbondDeficit >= 0
  PROVE  /\ mul(requested_after(amount), rate_after(amount)) \in Nat
         /\ mul(requested_after(amount), rate_after(amount)) < slashed_bond
<1>1. PICK req \in Nat : req = requested_after(amount)
  BY RequestNat DEF BondInv
<1>2. PICK issued \in Nat : issued = cluna_supply - amount
  BY RequestNat DEF BondInv
<1>3. issued > 0
  <2>1. cluna_supply \in Nat /\ vault_cluna \in Nat /\ yluna_supply \in Nat
    BY DEF BondInv, TypeOK
  <2>2. InitialBond \in Nat \ {0}
    BY VaultAssumption
  <2>3. QED BY <1>2, <2>1, <2>2 DEF BondInv, RefractBacked, circulating
<1>4. slashed_bond \in Nat \ {0}
  BY SlashedFacts
<1>5. PICK t \in Nat \ {0} : t = issued + req /\ req < t
  BY <1>3
<1>6. rate_after(amount) = from_ratio(slashed_bond, t)
  BY <1>1, <1>2, <1>4, <1>5 DEF rate_after, update_exchange_rate
<1>7. mul(req, from_ratio(slashed_bond, t)) < slashed_bond
  BY <1>4, <1>5, ShareBelow
<1>8. mul(req, from_ratio(slashed_bond, t)) \in Nat
  BY <1>4, <1>5, RatioNat, MulNat
<1>9. QED BY <1>1, <1>6, <1>7, <1>8

\* instantiate bonds and delegates the initial bond.
LEMMA BondInvInit == Init => BondInv
<1> SUFFICES ASSUME Init PROVE BondInv
  OBVIOUS
<1>1. TypeOK /\ RefractBacked
  BY TypeInit, RefractInit
<1>2. InitialBond \in Nat \ {0} /\ InitValidator \in Validators /\ IsFiniteSet(Validators)
  BY VaultAssumption
<1>3. total_bond_amount > 0
  BY <1>2 DEF Init
<1>4. \A v \in Validators : delegation[v] \in Nat
  BY <1>1 DEF TypeOK
<1>5. SumFunctionOnSet(delegation, Validators)
        = delegation[InitValidator] + SumFunctionOnSet(delegation, Validators \ {InitValidator})
  BY <1>2, <1>4, SumRemove
<1>6. SumFunctionOnSet(delegation, Validators \ {InitValidator}) \in Nat
  <2>1. IsFiniteSet(Validators \ {InitValidator})
    BY <1>2, FS_Subset
  <2>2. QED BY <1>4, <2>1, SumNat
<1>7. delegation[InitValidator] = InitialBond
  BY <1>2 DEF Init
<1>8. actual_total_bonded > 0
  BY <1>2, <1>5, <1>6, <1>7 DEF actual_total_bonded
<1>9. QED BY <1>1, <1>3, <1>8 DEF BondInv, BondNeverEmpty

\* A bond leaves the recorded bond positive and delegated.
LEMMA BondEffect ==
  ASSUME BondInv, NEW v \in Validators, NEW payment \in Nat \ {0}, NEW m,
         _execute_bond(v, payment, m)
  PROVE  total_bond_amount' > 0 /\ total_bond_amount' <= actual_total_bonded'
<1>1. slashed_bond \in Nat \ {0} /\ slashed_bond <= actual_total_bonded
      /\ actual_total_bonded \in Nat
  BY SlashedFacts
<1>2. total_bond_amount' = slashed_bond + payment
      /\ delegation' = [delegation EXCEPT ![v] = @ + payment]
  BY DEF _execute_bond
<1>3. TypeOK /\ delegation \in [Validators -> Nat]
  BY DEF BondInv, TypeOK
<1>4. PICK d \in [Validators -> Nat] : d = delegation' /\ d[v] = delegation[v] + payment
                                       /\ \A w \in Validators \ {v} : d[w] = delegation[w]
  <2>1. delegation' \in [Validators -> Nat]
    BY <1>2, <1>3
  <2>2. QED BY <1>2, <1>3, <2>1
<1>5. SumFunctionOnSet(d, Validators) = actual_total_bonded - delegation[v] + d[v]
  BY <1>3, <1>4, DelegationChange
<1>6. delegation[v] \in Nat
  BY <1>3
<1>7. SumFunctionOnSet(d, Validators) = actual_total_bonded + payment
  BY <1>1, <1>4, <1>5, <1>6
<1>8. actual_total_bonded' = actual_total_bonded + payment
  BY <1>4, <1>7 DEF actual_total_bonded
<1>9. QED BY <1>1, <1>2, <1>8

\* An unbond leaves the recorded bond positive and delegated.
LEMMA UnbondEffect ==
  ASSUME BondInv, NEW u, NEW amount \in Nat, execute_unbond(u, amount)
  PROVE  total_bond_amount' > 0 /\ total_bond_amount' <= actual_total_bonded'
<1>1. slashed_bond \in Nat \ {0} /\ slashed_bond <= actual_total_bonded
      /\ actual_total_bonded \in Nat
  BY SlashedFacts
<1>2. CASE unbond_within_epoch(u, amount)
  <2>1. total_bond_amount' = slashed_bond /\ delegation' = delegation
    BY <1>2 DEF unbond_within_epoch
  <2>2. actual_total_bonded' = actual_total_bonded
    BY <2>1 DEF actual_total_bonded
  <2>3. QED BY <1>1, <2>1, <2>2
<1>3. CASE unbond_closing_batch(u, amount)
  <2>1. PICK claim : claim = mul(requested_after(amount), rate_after(amount))
    OBVIOUS
  <2>2. amount <= circulating /\ (BelowPeg => UnbondDeficit >= 0)
    BY <1>3 DEF unbond_closing_batch, Request
  <2>3. claim \in Nat /\ claim < slashed_bond
    BY <2>1, <2>2, ClaimBelowBond
  <2>4. pick_unbond_validator(claim, delegation') /\ total_bond_amount' = slashed_bond - claim
    BY <1>3, <2>1 DEF unbond_closing_batch
  <2>5. PICK d : d = delegation'
    OBVIOUS
  <2>6. SumFunctionOnSet(d, Validators) = actual_total_bonded - claim
    BY <2>3, <2>4, <2>5, DrainedSum DEF BondInv
  <2>7. actual_total_bonded' = actual_total_bonded - claim
    BY <2>5, <2>6 DEF actual_total_bonded
  <2>8. QED BY <1>1, <2>3, <2>4, <2>7
<1>4. QED BY <1>2, <1>3 DEF execute_unbond

\* The action of PricedAfterSlashing.
PricedStep ==
  total_bond_amount' # total_bond_amount \/ current_batch' # current_batch =>
    total_bond_amount' <= actual_total_bonded'

\* Every step keeps something bonded, and prices after slashing.
LEMMA BondInvStep == BondInv /\ [Next]_vars => BondInv' /\ PricedStep
<1> SUFFICES ASSUME BondInv, [Next]_vars PROVE BondNeverEmpty' /\ PricedStep
  BY TypeStep, RefractInvStep DEF BondInv
<1>0. TypeOK /\ total_bond_amount \in Nat \ {0} /\ actual_total_bonded \in Nat \ {0}
  <2>1. TypeOK /\ BondNeverEmpty
    BY DEF BondInv
  <2>2. total_bond_amount \in Nat /\ actual_total_bonded \in Nat
    BY <2>1, DelegationsNat DEF TypeOK
  <2>3. QED BY <2>1, <2>2 DEF BondNeverEmpty
<1>1. ASSUME total_bond_amount' > 0 /\ total_bond_amount' <= actual_total_bonded'
      PROVE  BondNeverEmpty' /\ PricedStep
  <2>1. TypeOK'
    BY TypeStep DEF BondInv
  <2>2. total_bond_amount' \in Nat
    BY <2>1 DEF TypeOK
  <2>3. actual_total_bonded' \in Nat
    <3>1. PICK d : d = delegation'
      OBVIOUS
    <3>2. \A v \in Validators : d[v] \in Nat
      BY <2>1, <3>1 DEF TypeOK
    <3>3. SumFunctionOnSet(d, Validators) \in Nat
      BY <3>2, VaultAssumption, SumNat
    <3>4. QED BY <3>1, <3>3 DEF actual_total_bonded
  <2>4. QED BY <1>1, <2>2, <2>3 DEF BondNeverEmpty, PricedStep
<1>2. ASSUME total_bond_amount' = total_bond_amount, current_batch' = current_batch,
             actual_total_bonded' > 0
      PROVE  BondNeverEmpty' /\ PricedStep
  BY <1>0, <1>2 DEF BondNeverEmpty, PricedStep
<1>3. ASSUME UNCHANGED <<total_bond_amount, current_batch, delegation>>
      PROVE  BondNeverEmpty' /\ PricedStep
  <2>1. actual_total_bonded' = actual_total_bonded
    BY <1>3 DEF actual_total_bonded
  <2>2. QED BY <1>0, <1>2, <1>3, <2>1
<1>4. CASE UNCHANGED vars
  BY <1>3, <1>4 DEF vars, stateVars, batchVars, chainVars
<1>5. CASE BondStep
  <2>1. PICK v \in Validators, payment \in Nat \ {0} : \E m : _execute_bond(v, payment, m)
    BY <1>5, VaultAssumption DEF BondStep, execute_bond, execute_bond_split
  <2>2. PICK m : _execute_bond(v, payment, m)
    BY <2>1
  <2>3. QED BY <1>1, <2>2, BondEffect
<1>6. CASE RefractStep \/ WithdrawStep
  <2>1. UNCHANGED <<total_bond_amount, current_batch, delegation>>
    BY <1>6 DEF RefractStep, split, merge, WithdrawStep, execute_withdraw_unbonded,
         stateVars, batchVars, chainVars
  <2>2. QED BY <1>3, <2>1
<1>7. CASE UnbondStep
  <2>1. PICK u \in Users, amount \in Nat : execute_unbond(u, amount)
    BY <1>7, VaultAssumption DEF UnbondStep
  <2>2. QED BY <1>1, <2>1, UnbondEffect
<1>8. CASE execute_slashing
  <2>1. total_bond_amount' = slashed_bond /\ delegation' = delegation
    BY <1>8 DEF execute_slashing, chainVars
  <2>2. actual_total_bonded' = actual_total_bonded
    BY <2>1 DEF actual_total_bonded
  <2>3. slashed_bond \in Nat \ {0} /\ slashed_bond <= actual_total_bonded
    BY SlashedFacts
  <2>4. QED BY <1>1, <2>1, <2>2, <2>3
<1>9. CASE AdminStep
  <2>1. ASSUME NEW v \in Validators, NEW w \in Validators, NEW amount \in Nat,
               amount <= delegation[v], Redelegate(v, w, amount),
               UNCHANGED <<total_bond_amount, current_batch>>
        PROVE  BondNeverEmpty' /\ PricedStep
    <3>1. SumFunctionOnSet(delegation', Validators) = actual_total_bonded
      BY <1>0, <2>1, RedelegateSum
    <3>2. actual_total_bonded' = actual_total_bonded
      BY <3>1 DEF actual_total_bonded
    <3>3. QED BY <1>0, <1>2, <2>1, <3>2
  <2>2. ASSUME NEW sender \in Admins, NEW v \in Validators, NEW w \in Validators,
               execute_deregister_validator(sender, v, w)
        PROVE  BondNeverEmpty' /\ PricedStep
    <3>1. delegation[v] \in Nat /\ delegation[v] <= delegation[v]
      BY <1>0 DEF TypeOK
    <3>2. UNCHANGED <<total_bond_amount, current_batch>>
      BY <2>2 DEF execute_deregister_validator, stateVars, batchVars
    <3>3. CASE Redelegate(v, w, delegation[v])
      BY <2>1, <3>1, <3>2, <3>3
    <3>4. CASE UNCHANGED <<delegation, redelegating>>
      BY <1>3, <3>2, <3>4
    <3>5. QED BY <2>2, <3>3, <3>4 DEF execute_deregister_validator
  <2>3. ASSUME NEW sender \in Admins, NEW v \in Validators, NEW w \in Validators,
               NEW amount \in 1..delegation[v], execute_redelegate(sender, v, w, amount)
        PROVE  BondNeverEmpty' /\ PricedStep
    <3>1. delegation[v] \in Nat
      BY <1>0 DEF TypeOK
    <3>2. amount \in Nat /\ amount <= delegation[v]
      BY <3>1
    <3>3. Redelegate(v, w, amount) /\ UNCHANGED <<total_bond_amount, current_batch>>
      BY <2>3 DEF execute_redelegate, stateVars, batchVars
    <3>4. QED BY <2>1, <3>2, <3>3
  <2>4. ASSUME NEW sender, NEW p, execute_update_params(sender, p)
        PROVE  BondNeverEmpty' /\ PricedStep
    BY <1>3, <2>4 DEF execute_update_params, stateVars, batchVars, chainVars
  <2>5. ASSUME NEW sender, NEW owner, NEW manager, NEW staking, NEW airdrop,
               execute_update_config(sender, owner, manager, staking, airdrop)
        PROVE  BondNeverEmpty' /\ PricedStep
    BY <1>3, <2>5 DEF execute_update_config, stateVars, batchVars, chainVars
  <2>6. ASSUME NEW sender, NEW v, execute_register_validator(sender, v)
        PROVE  BondNeverEmpty' /\ PricedStep
    BY <1>3, <2>6 DEF execute_register_validator, stateVars, batchVars, chainVars
  <2>7. QED BY <1>9, <2>2, <2>3, <2>4, <2>5, <2>6 DEF AdminStep
<1>10. CASE ChainStep
  <2>1. ASSUME NEW v \in Validators, NEW cut \in SlashAmounts, SlashDelegation(v, cut)
        PROVE  BondNeverEmpty' /\ PricedStep
    <3>1. delegation \in [Validators -> Nat] /\ cut \in Nat /\ cut < delegation[v]
          /\ delegation' = [delegation EXCEPT ![v] = @ - cut]
          /\ UNCHANGED <<total_bond_amount, current_batch>>
      BY <1>0, <2>1, VaultAssumption DEF SlashDelegation, TypeOK, stateVars, batchVars
    <3>2. PICK d \in [Validators -> Nat] : d = delegation' /\ d[v] = delegation[v] - cut
                                           /\ \A w \in Validators \ {v} : d[w] = delegation[w]
      <4>1. delegation' \in [Validators -> Nat]
        BY <3>1
      <4>2. QED BY <3>1, <4>1
    <3>3. SumFunctionOnSet(d, Validators)
            = d[v] + SumFunctionOnSet(d, Validators \ {v})
      <4>1. \A w \in Validators : d[w] \in Nat
        BY <3>2
      <4>2. QED BY <4>1, VaultAssumption, SumRemove
    <3>4. SumFunctionOnSet(d, Validators \ {v}) \in Nat
      <4>1. IsFiniteSet(Validators \ {v})
        BY VaultAssumption, FS_Subset
      <4>2. \A w \in Validators \ {v} : d[w] \in Nat
        BY <3>2
      <4>3. QED BY <4>1, <4>2, SumNat
    <3>5. d[v] \in Nat \ {0}
      BY <3>1, <3>2
    <3>6. actual_total_bonded' > 0
      BY <3>2, <3>3, <3>4, <3>5 DEF actual_total_bonded
    <3>7. QED BY <1>2, <3>1, <3>6
  <2>2. UNCHANGED <<total_bond_amount, current_batch, delegation>>
        \/ \E v \in Validators, cut \in SlashAmounts : SlashDelegation(v, cut)
    BY <1>10 DEF ChainStep, EndBlock, SlashUnbonding, RedelegationCompletes, RogueTransfer,
         HolderBurn, stateVars, batchVars, chainVars
  <2>3. QED BY <1>3, <2>1, <2>2
<1>11. QED BY <1>4, <1>5, <1>6, <1>7, <1>8, <1>9, <1>10 DEF Next

\* Some Luna is always bonded and delegated, so that slashing() never overlooks a
\* loss on empty delegations and the exchange rate is never reset.
THEOREM SomethingStaysBonded == Spec => []BondNeverEmpty
<1>1. BondInv => BondNeverEmpty
  BY DEF BondInv
<1>2. QED BY <1>1, BondInvInit, BondInvStep, PTL DEF Spec

\* Every bond, unbond and CheckSlashing leaves the recorded bond within what is
\* delegated, whatever slashes came before.
THEOREM SlashingBeforePricing == Spec => PricedAfterSlashing
<1>1. BondInv /\ [Next]_vars => [PricedStep]_vars
  BY BondInvStep
<1>2. QED BY <1>1, BondInvInit, BondInvStep, PTL DEF Spec, PricedAfterSlashing, PricedStep

-----------------------------------------------------------------------------
(***************************************************************************)
(* The batches: only execute_unbond opens and closes one, only a           *)
(* withdrawal releases it, and requests leave as they are paid.            *)
(***************************************************************************)
LEMMA OtherSteps ==
  ASSUME TypeOK, [Next]_vars, ~UnbondStep, ~WithdrawStep
  PROVE  /\ UNCHANGED <<batchVars, last_unbonded_time, last_processed_batch>>
         /\ now' >= now /\ luna' >= luna
<1>0. now \in Nat /\ luna \in Nat
  BY DEF TypeOK
<1>1. CASE BondStep
  <2>1. PICK v, payment, m : _execute_bond(v, payment, m)
    BY <1>1 DEF BondStep, execute_bond, execute_bond_split
  <2>2. QED BY <1>0, <2>1 DEF _execute_bond
<1>2. CASE RefractStep \/ execute_slashing \/ UNCHANGED vars
  BY <1>0, <1>2 DEF RefractStep, split, merge, execute_slashing, vars, stateVars, chainVars
<1>3. CASE AdminStep
  BY <1>0, <1>3 DEF AdminStep, execute_update_params, execute_update_config,
    execute_register_validator, execute_deregister_validator, execute_redelegate,
    stateVars, chainVars
<1>4. CASE EndBlock
  <2>1. PICK paid \in Nat : luna' = luna + paid
    BY <1>4, PaidNat DEF EndBlock
  <2>2. QED BY <1>0, <1>4, <2>1 DEF EndBlock, stateVars
<1>5. ASSUME NEW amount \in RogueAmounts, RogueTransfer(amount)
      PROVE  /\ UNCHANGED <<batchVars, last_unbonded_time, last_processed_batch>>
             /\ now' >= now /\ luna' >= luna
  <2>1. amount \in Nat
    BY VaultAssumption
  <2>2. QED BY <1>0, <1>5, <2>1 DEF RogueTransfer, stateVars
<1>6. CASE \/ \E v \in Validators, cut \in SlashAmounts : SlashDelegation(v, cut)
           \/ \E b \in DOMAIN unbonding, cut \in UnbondingSlashAmounts : SlashUnbonding(b, cut)
           \/ \E v \in Validators : RedelegationCompletes(v)
           \/ \E token \in {"cluna", "yluna", "pluna", "gift"}, amount \in HolderBurns :
                HolderBurn(token, amount)
  BY <1>0, <1>6 DEF SlashDelegation, SlashUnbonding, RedelegationCompletes, HolderBurn,
    stateVars, chainVars
<1>7. QED BY <1>1, <1>2, <1>3, <1>4, <1>5, <1>6 DEF Next, ChainStep

\* What a withdrawal does to the batches.
Released(u, k) ==
  /\ k \in last_processed_batch..(current_batch.id - 1)
  /\ \A b \in (last_processed_batch + 1)..k : Matured(b, now - params.unbonding_period)
  /\ unbond_history' = history_after(k)
  /\ last_processed_batch' = k
  /\ luna - luna' = get_finished_amount(unbond_wait_list[u], history_after(k))
  /\ unbond_wait_list' = [unbond_wait_list EXCEPT ![u] =
       remove_unbond_wait_list(@, get_unbond_batches(@, history_after(k)))]
  /\ UNCHANGED <<last_unbonded_time, current_batch, now, params>>

LEMMA WithdrawReleases ==
  ASSUME TypeOK, NEW u \in Users, execute_withdraw_unbonded(u)
  PROVE  \E k : Released(u, k)
<1>0. luna \in Nat
  BY DEF TypeOK
<1>1. PICK k \in last_processed_batch..(current_batch.id - 1) :
        /\ LoopsEndAt(k, now - params.unbonding_period)
        /\ \E withdraw_amount \in 1..luna :
             /\ withdraw_amount = get_finished_amount(unbond_wait_list[u], history_after(k))
             /\ luna' = luna - withdraw_amount
        /\ unbond_history' = history_after(k)
        /\ last_processed_batch' = k
        /\ unbond_wait_list' = [unbond_wait_list EXCEPT ![u] =
             remove_unbond_wait_list(@, get_unbond_batches(@, history_after(k)))]
  BY DEF execute_withdraw_unbonded
<1>2. luna - luna' = get_finished_amount(unbond_wait_list[u], history_after(k))
  <2>1. PICK w \in 1..luna : /\ w = get_finished_amount(unbond_wait_list[u], history_after(k))
                             /\ luna' = luna - w
    BY <1>1
  <2>2. luna - luna' = w
    BY <1>0, <2>1
  <2>3. QED BY <2>1, <2>2
<1>3. \A b \in (last_processed_batch + 1)..k : Matured(b, now - params.unbonding_period)
  BY <1>1 DEF LoopsEndAt
<1>4. UNCHANGED <<last_unbonded_time, current_batch, now, params>>
  BY DEF execute_withdraw_unbonded, configVars
<1>5. Released(u, k)
  BY <1>1, <1>2, <1>3, <1>4 DEF Released
<1>6. QED BY <1>5

\* history_after releases the batches up to k and leaves the others and their times.
LEMMA HistoryAfterIs ==
  ASSUME TypeOK, NEW k \in last_processed_batch..(current_batch.id - 1)
  PROVE  /\ DOMAIN history_after(k) = 1..(current_batch.id - 1)
         /\ \A b \in 1..(current_batch.id - 1) :
              /\ history_after(k)[b].time = unbond_history[b].time
              /\ history_after(k)[b].amount = unbond_history[b].amount
              /\ b \in (last_processed_batch + 1)..k => history_after(k)[b].released
              /\ b \notin (last_processed_batch + 1)..k => history_after(k)[b] = unbond_history[b]
<1>1. DOMAIN unbond_history = 1..(current_batch.id - 1)
  BY DEF TypeOK
<1>2. ASSUME NEW b \in 1..(current_batch.id - 1)
      PROVE  /\ history_after(k)[b].time = unbond_history[b].time
             /\ history_after(k)[b].amount = unbond_history[b].amount
             /\ b \in (last_processed_batch + 1)..k => history_after(k)[b].released
             /\ b \notin (last_processed_batch + 1)..k => history_after(k)[b] = unbond_history[b]
  <2>1. unbond_history[b] \in UnbondHistory
    BY DEF TypeOK
  <2>2. PICK r : b \in (last_processed_batch + 1)..k =>
          history_after(k)[b] = [unbond_history[b] EXCEPT !.withdraw_rate = r, !.released = TRUE]
    BY <1>1 DEF history_after
  <2>3. b \notin (last_processed_batch + 1)..k => history_after(k)[b] = unbond_history[b]
    BY <1>1 DEF history_after
  <2>4. QED BY <2>1, <2>2, <2>3 DEF UnbondHistory
<1>3. DOMAIN history_after(k) = 1..(current_batch.id - 1)
  BY <1>1 DEF history_after
<1>4. QED BY <1>2, <1>3

\* What closing a batch does to the history.
LEMMA ClosingAdds ==
  ASSUME TypeOK, NEW u \in Users, NEW amount \in Nat, unbond_closing_batch(u, amount)
  PROVE  LET id == current_batch.id
         IN  /\ current_batch'.id = id + 1 /\ current_batch'.requested_with_fee = 0
             /\ DOMAIN unbond_history' = 1..id
             /\ \A b \in 1..(id - 1) : unbond_history'[b] = unbond_history[b]
             /\ unbond_history'[id].time = now /\ ~unbond_history'[id].released
             /\ unbond_history'[id].amount = requested_after(amount)
             /\ last_unbonded_time' = now
             /\ UNCHANGED <<last_processed_batch, now, luna>>
<1> DEFINE id == current_batch.id
           entry == [time |-> now, amount |-> requested_after(amount),
                     applied_exchange_rate |-> rate_after(amount),
                     withdraw_rate |-> rate_after(amount), released |-> FALSE]
<1>1. id \in Nat \ {0} /\ DOMAIN unbond_history = 1..(id - 1)
  BY DEF TypeOK
<1>2. /\ unbond_history' = [b \in DOMAIN unbond_history \cup {id} |->
            IF b = id THEN entry ELSE unbond_history[b]]
      /\ current_batch' = [id |-> id + 1, requested_with_fee |-> 0]
      /\ last_unbonded_time' = now
      /\ UNCHANGED <<last_processed_batch, now, luna>>
  BY DEF unbond_closing_batch, Request
<1>3. DOMAIN unbond_history \cup {id} = 1..id
  BY <1>1
<1>4. unbond_history' = [b \in 1..id |-> IF b = id THEN entry ELSE unbond_history[b]]
  BY <1>2, <1>3
<1>5. unbond_history'[id] = entry /\ \A b \in 1..(id - 1) : unbond_history'[b] = unbond_history[b]
  BY <1>1, <1>4
<1>6. QED BY <1>2, <1>4, <1>5

LEMMA ReleaseInit == Init => ReleaseOrder
  BY VaultAssumption DEF Init, ReleaseOrder

LEMMA ReleaseStep == ASSUME TypeOK, ReleaseOrder, [Next]_vars PROVE ReleaseOrder'
<1> DEFINE id == current_batch.id
<1>0. /\ id \in Nat \ {0} /\ now \in Nat /\ last_unbonded_time \in Nat
      /\ last_processed_batch \in 0..(id - 1)
      /\ DOMAIN unbond_history = 1..(id - 1)
      /\ \A b \in 1..(id - 1) : unbond_history[b].time \in Nat
  BY DEF TypeOK, UnbondHistory
<1>1. CASE ~UnbondStep /\ ~WithdrawStep
  <2>1. UNCHANGED <<batchVars, last_unbonded_time, last_processed_batch>> /\ now' >= now
        /\ now' \in Int
    <3>1. now' \in Nat
      BY TypeStep DEF TypeOK
    <3>2. QED BY <1>0, <1>1, <3>1, OtherSteps
  <2>2. QED BY <1>0, <2>1 DEF ReleaseOrder, batchVars
<1>2. ASSUME NEW u \in Users, NEW amount \in Nat, unbond_within_epoch(u, amount)
      PROVE  ReleaseOrder'
  <2>1. UNCHANGED <<unbond_history, last_unbonded_time, last_processed_batch, now>>
        /\ current_batch'.id = current_batch.id
    BY <1>2 DEF unbond_within_epoch, Request, TypeOK
  <2>2. QED BY <2>1 DEF ReleaseOrder
<1>3. ASSUME NEW u \in Users, NEW amount \in Nat, unbond_closing_batch(u, amount)
      PROVE  ReleaseOrder'
  <2>1. /\ current_batch'.id = id + 1
        /\ \A b \in 1..(id - 1) : unbond_history'[b] = unbond_history[b]
        /\ unbond_history'[id].time = now /\ ~unbond_history'[id].released
        /\ last_unbonded_time' = now
        /\ UNCHANGED <<last_processed_batch, now>>
    BY <1>3, ClosingAdds
  <2>2. ASSUME NEW b \in 1..id
        PROVE  /\ unbond_history'[b].released <=> b <= last_processed_batch
               /\ unbond_history'[b].time <= now
               /\ \A c \in 1..b : unbond_history'[c].time <= unbond_history'[b].time
    <3>1. CASE b = id
      <4>1. ~(id <= last_processed_batch) /\ now <= now
        BY <1>0
      <4>2. \A c \in 1..(id - 1) : unbond_history'[c].time <= now
        BY <1>0, <2>1 DEF ReleaseOrder
      <4>3. \A c \in 1..id : c = id \/ c \in 1..(id - 1)
        BY <1>0
      <4>4. QED BY <2>1, <3>1, <4>1, <4>2, <4>3
    <3>2. CASE b # id
      BY <1>0, <2>1, <3>2, SMTT(30) DEF ReleaseOrder
    <3>3. QED BY <3>1, <3>2
  <2>3. (id + 1) - 1 = id
    BY <1>0
  <2>4. QED BY <1>0, <2>1, <2>2, <2>3 DEF ReleaseOrder
<1>4. ASSUME NEW u \in Users, execute_withdraw_unbonded(u) PROVE ReleaseOrder'
  <2>1. PICK k : Released(u, k)
    BY <1>4, WithdrawReleases
  <2>2. k \in last_processed_batch..(id - 1) /\ last_processed_batch' = k
        /\ unbond_history' = history_after(k)
        /\ UNCHANGED <<last_unbonded_time, current_batch, now>>
    BY <2>1 DEF Released
  <2>3. \A b \in 1..(id - 1) :
          /\ unbond_history'[b].time = unbond_history[b].time
          /\ b \in (last_processed_batch + 1)..k => unbond_history'[b].released
          /\ b \notin (last_processed_batch + 1)..k => unbond_history'[b] = unbond_history[b]
    BY <2>2, HistoryAfterIs
  <2>4. ASSUME NEW b \in 1..(id - 1) PROVE unbond_history'[b].released <=> b <= k
    <3>1. CASE b \in (last_processed_batch + 1)..k
      BY <1>0, <2>3, <3>1
    <3>2. CASE b \notin (last_processed_batch + 1)..k
      BY <1>0, <2>2, <2>3, <3>2 DEF ReleaseOrder
    <3>3. QED BY <3>1, <3>2
  <2>5. \A b \in 1..(id - 1) : 1..b \subseteq 1..(id - 1)
    BY <1>0
  <2>6. QED BY <2>2, <2>3, <2>4, <2>5 DEF ReleaseOrder
<1>5. QED BY <1>1, <1>2, <1>3, <1>4, VaultAssumption DEF UnbondStep, execute_unbond, WithdrawStep

LEMMA ReleaseInvariant == Spec => [](TypeOK /\ ReleaseOrder)
<1>1. TypeOK /\ ReleaseOrder /\ [Next]_vars => ReleaseOrder'
  BY ReleaseStep
<1>2. QED BY <1>1, ReleaseInit, TypeCorrect, PTL DEF Spec

\* Batches close in time order and are released in that order without a gap, so that the
\* loops of process_withdraw_rate pass over none.
THEOREM ReleasedInOrder == Spec => []ReleaseOrder
  BY ReleaseInvariant, PTL

FinalStep ==
  \A b \in DOMAIN unbond_history :
    IF unbond_history[b].released THEN unbond_history'[b] = unbond_history[b]
    ELSE unbond_history'[b].released =>
           /\ unbond_history[b].time + params.unbonding_period <= now
           /\ \A c \in 1..b : unbond_history'[c].released

LEMMA FinalityStep == ASSUME TypeOK, ReleaseOrder, ReleaseOrder', [Next]_vars PROVE FinalStep
<1> DEFINE id == current_batch.id
<1>0. /\ id \in Nat \ {0} /\ now \in Nat /\ params.unbonding_period \in Nat
      /\ last_processed_batch \in 0..(id - 1)
      /\ DOMAIN unbond_history = 1..(id - 1)
      /\ \A b \in 1..(id - 1) : unbond_history[b].time \in Nat
  BY DEF TypeOK, UnbondHistory, Parameters
<1>1. ASSUME \A b \in 1..(id - 1) : unbond_history'[b] = unbond_history[b] PROVE FinalStep
  <2>1. \A b \in 1..(id - 1) : ~unbond_history[b].released => ~unbond_history'[b].released
    BY <1>1
  <2>2. QED BY <1>0, <1>1, <2>1 DEF FinalStep
<1>2. CASE ~UnbondStep /\ ~WithdrawStep
  BY <1>1, <1>2, OtherSteps DEF batchVars
<1>3. ASSUME NEW u \in Users, NEW amount \in Nat, execute_unbond(u, amount) PROVE FinalStep
  <2>1. CASE unbond_within_epoch(u, amount)
    BY <1>1, <2>1 DEF unbond_within_epoch
  <2>2. CASE unbond_closing_batch(u, amount)
    BY <1>1, <2>2, ClosingAdds
  <2>3. QED BY <1>3, <2>1, <2>2 DEF execute_unbond
<1>4. ASSUME NEW u \in Users, execute_withdraw_unbonded(u) PROVE FinalStep
  <2>1. PICK k : Released(u, k)
    BY <1>4, WithdrawReleases
  <2>2. k \in last_processed_batch..(id - 1) /\ last_processed_batch' = k
        /\ unbond_history' = history_after(k) /\ current_batch' = current_batch
        /\ \A b \in (last_processed_batch + 1)..k : Matured(b, now - params.unbonding_period)
    BY <2>1 DEF Released
  <2>3. \A b \in 1..(id - 1) :
          b \notin (last_processed_batch + 1)..k => unbond_history'[b] = unbond_history[b]
    BY <2>2, HistoryAfterIs
  <2>4. \A b \in 1..(id - 1) : /\ unbond_history[b].released <=> b <= last_processed_batch
                               /\ unbond_history'[b].released <=> b <= k
    BY <2>2 DEF ReleaseOrder
  <2> SUFFICES ASSUME NEW b \in 1..(id - 1)
               PROVE  IF unbond_history[b].released THEN unbond_history'[b] = unbond_history[b]
                      ELSE unbond_history'[b].released =>
                             /\ unbond_history[b].time + params.unbonding_period <= now
                             /\ \A c \in 1..b : unbond_history'[c].released
    BY <1>0 DEF FinalStep
  <2>5. CASE unbond_history[b].released
    BY <1>0, <2>2, <2>3, <2>4, <2>5
  <2>6. CASE ~unbond_history[b].released /\ unbond_history'[b].released
    <3>1. b \in (last_processed_batch + 1)..k
      BY <1>0, <2>2, <2>4, <2>6
    <3>2. unbond_history[b].time <= now - params.unbonding_period
      BY <2>2, <3>1 DEF Matured
    <3>3. \A c \in 1..b : unbond_history'[c].released
      BY <1>0, <2>2, <2>4, <3>1
    <3>4. QED BY <1>0, <2>6, <3>2, <3>3
  <2>7. QED BY <2>5, <2>6
<1>5. QED BY <1>2, <1>3, <1>4, VaultAssumption DEF UnbondStep, WithdrawStep

\* A batch is released after its unbonding period, never before an older one, and the
\* rate its users are paid at never changes again.
THEOREM ReleasesAreFinal == Spec => ReleasedOnceAndFinal
<1>1. TypeOK /\ ReleaseOrder /\ ReleaseOrder' /\ [Next]_vars => [FinalStep]_vars
  BY FinalityStep
<1>2. QED BY <1>1, ReleaseInvariant, PTL DEF Spec, ReleasedOnceAndFinal, FinalStep

PaysStep ==
  luna' < luna \/ (\E u \in Users :
     DOMAIN unbond_wait_list[u] \ DOMAIN unbond_wait_list'[u] # {}) =>
  \E u \in Users :
    LET gone == DOMAIN unbond_wait_list[u] \ DOMAIN unbond_wait_list'[u]
    IN  /\ \A w \in Users \ {u} : unbond_wait_list'[w] = unbond_wait_list[w]
        /\ \A b \in gone : unbond_history'[b].released
        /\ luna - luna' = SumFunction([b \in gone |->
             mul(unbond_wait_list[u][b], unbond_history'[b].withdraw_rate)])

LEMMA PayStep == ASSUME TypeOK, [Next]_vars PROVE PaysStep
<1>0. luna \in Nat /\ luna' \in Nat /\ DOMAIN unbond_wait_list = Users
  <2>1. TypeOK'
    BY TypeStep
  <2>2. QED BY <2>1 DEF TypeOK
<1>1. ASSUME luna' >= luna,
             \A u \in Users : DOMAIN unbond_wait_list[u] \subseteq DOMAIN unbond_wait_list'[u]
      PROVE  PaysStep
  BY <1>0, <1>1 DEF PaysStep
<1>2. CASE ~UnbondStep /\ ~WithdrawStep
  BY <1>1, <1>2, OtherSteps DEF batchVars
<1>3. ASSUME NEW u \in Users, NEW amount \in Nat, execute_unbond(u, amount) PROVE PaysStep
  <2>1. Request(u, amount)
    BY <1>3 DEF execute_unbond, unbond_within_epoch, unbond_closing_batch
  <2>2. PICK a : unbond_wait_list' = [unbond_wait_list EXCEPT ![u] =
                   store_unbond_wait_list(@, current_batch.id, a)]
    BY <2>1 DEF Request
  <2>3. luna' >= luna
    BY <1>0, <2>1 DEF Request
  <2>4. \A w \in Users : DOMAIN unbond_wait_list[w] \subseteq DOMAIN unbond_wait_list'[w]
    BY <1>0, <2>2 DEF store_unbond_wait_list
  <2>5. QED BY <1>1, <2>3, <2>4
<1>4. ASSUME NEW u \in Users, execute_withdraw_unbonded(u) PROVE PaysStep
  <2>1. PICK k : Released(u, k)
    BY <1>4, WithdrawReleases
  <2> DEFINE B == get_unbond_batches(unbond_wait_list[u], history_after(k))
             gone == DOMAIN unbond_wait_list[u] \ DOMAIN unbond_wait_list'[u]
  <2>2. unbond_wait_list'[u] = remove_unbond_wait_list(unbond_wait_list[u], B)
        /\ \A w \in Users \ {u} : unbond_wait_list'[w] = unbond_wait_list[w]
    BY <1>0, <2>1 DEF Released
  <2>3. B \subseteq DOMAIN unbond_wait_list[u] /\ \A b \in B : history_after(k)[b].released
    BY DEF get_unbond_batches
  <2>4. luna - luna' = SumFunction([b \in B |->
                         mul(unbond_wait_list[u][b], history_after(k)[b].withdraw_rate)])
    BY <2>1 DEF Released, get_finished_amount
  <2> HIDE DEF B
  <2>5. gone = B
    BY <2>2, <2>3 DEF remove_unbond_wait_list, Restrict
  <2>6. unbond_history' = history_after(k)
    BY <2>1 DEF Released
  <2>7. \A b \in gone : unbond_history'[b].released
    BY <2>3, <2>5, <2>6
  <2>8. luna - luna' = SumFunction([b \in gone |->
                         mul(unbond_wait_list[u][b], unbond_history'[b].withdraw_rate)])
    BY <2>4, <2>5, <2>6, Zenon
  <2>9. QED BY <2>2, <2>7, <2>8 DEF PaysStep
<1>5. QED BY <1>2, <1>3, <1>4, VaultAssumption DEF UnbondStep, WithdrawStep

\* Luna leaves the vault, and a request leaves the wait list, in a withdrawal alone, which
\* pays the requests it removes at their final rates and no others.
THEOREM WithdrawalsPayInFull == Spec => WithdrawPaysWhatItRemoves
<1>1. TypeOK /\ [Next]_vars => [PaysStep]_vars
  BY PayStep
<1>2. QED BY <1>1, TypeCorrect, PTL DEF Spec, WithdrawPaysWhatItRemoves, PaysStep

-----------------------------------------------------------------------------
(***************************************************************************)
(* The wait list against the batches.                                      *)
(***************************************************************************)
Share(list, u, b) == IF b \in DOMAIN list[u] THEN list[u][b] ELSE 0
Shares(list, b) == SumFunctionOnSet([u \in Users |-> Share(list, u, b)], Users)

LEMMA WaitingIs ==
  /\ \A b : Waiting(b) = Shares(unbond_wait_list, b)
  /\ \A b : Waiting(b)' = Shares(unbond_wait_list', b)
  BY DEF Waiting, Shares, Share, SumFunction

\* One user's change moves the total by that user's change.
LEMMA SharesMove ==
  ASSUME NEW list, NEW list2, NEW u \in Users, NEW b,
         \A w \in Users : Share(list, w, b) \in Nat /\ Share(list2, w, b) \in Nat,
         \A w \in Users \ {u} : list2[w] = list[w]
  PROVE  /\ Shares(list, b) \in Nat
         /\ Share(list, u, b) \in Nat /\ Share(list2, u, b) \in Nat
         /\ Shares(list2, b) = Shares(list, b) - Share(list, u, b) + Share(list2, u, b)
<1> DEFINE f == [w \in Users |-> Share(list, w, b)]
           h == [w \in Users |-> Share(list2, w, b)]
<1>1. IsFiniteSet(Users)
  BY VaultAssumption
<1>2. \A w \in Users : f[w] \in Nat /\ h[w] \in Nat
  OBVIOUS
<1>3. \A w \in Users \ {u} : h[w] = f[w]
  BY DEF Share
<1>4. f[u] = Share(list, u, b) /\ h[u] = Share(list2, u, b)
  OBVIOUS
<1>5. Shares(list, b) = SumFunctionOnSet(f, Users) /\ Shares(list2, b) = SumFunctionOnSet(h, Users)
  BY DEF Shares
<1> HIDE DEF f, h
<1>6. SumFunctionOnSet(h, Users) = SumFunctionOnSet(f, Users) - f[u] + h[u]
  BY <1>1, <1>2, <1>3, SumUpdate
<1>7. SumFunctionOnSet(f, Users) \in Nat
  BY <1>1, <1>2, SumNat
<1>8. QED BY <1>2, <1>4, <1>5, <1>6, <1>7

LEMMA SharesNone ==
  ASSUME NEW list, NEW b, \A u \in Users : b \notin DOMAIN list[u]
  PROVE  Shares(list, b) = 0
<1> DEFINE f == [w \in Users |-> Share(list, w, b)]
<1>1. \A w \in Users : f[w] = 0
  BY DEF Share
<1>2. Shares(list, b) = SumFunctionOnSet(f, Users)
  BY DEF Shares
<1> HIDE DEF f
<1>3. QED BY <1>1, <1>2, VaultAssumption, SumZero

LEMMA LedgerInit == Init => BatchLedger
<1> SUFFICES ASSUME Init PROVE BatchLedger
  OBVIOUS
<1>1. Waiting(current_batch.id) = 0
  BY SharesNone, WaitingIs DEF Init
<1>2. current_batch.requested_with_fee = 0 /\ 1..(current_batch.id - 1) = {}
  BY DEF Init
<1>3. QED BY <1>1, <1>2 DEF BatchLedger

\* A request adds to its own batch alone.
LEMMA RequestShares ==
  ASSUME TypeOK, NEW u \in Users, NEW amount \in Nat, Request(u, amount)
  PROVE  LET id == current_batch.id
         IN  /\ amount_with_fee(amount) \in Nat
             /\ \A b \in Nat \ {id} : Shares(unbond_wait_list', b) = Shares(unbond_wait_list, b)
             /\ Shares(unbond_wait_list', id)
                  = Shares(unbond_wait_list, id) + amount_with_fee(amount)
             /\ \A w \in Users : IsRequests(unbond_wait_list'[w], id)
<1> DEFINE id == current_batch.id
           a == amount_with_fee(amount)
<1>1. id \in Nat \ {0} /\ DOMAIN unbond_wait_list = Users
      /\ \A w \in Users : IsRequests(unbond_wait_list[w], id)
  BY DEF TypeOK
<1>2. a \in Nat
  BY FeeNat DEF Request
<1>3. unbond_wait_list' = [unbond_wait_list EXCEPT ![u] = store_unbond_wait_list(@, id, a)]
  BY DEF Request
<1> HIDE DEF a, id
<1>4. unbond_wait_list'[u] = store_unbond_wait_list(unbond_wait_list[u], id, a)
      /\ \A w \in Users \ {u} : unbond_wait_list'[w] = unbond_wait_list[w]
  BY <1>1, <1>3
<1>5. \A w \in Users : IsRequests(unbond_wait_list'[w], id)
  <2>1. IsRequests(unbond_wait_list'[u], id)
    BY <1>1, <1>2, <1>4, StoreRequests
  <2>2. QED BY <1>1, <1>4, <2>1
<1>6. ASSUME NEW b \in Nat
      PROVE  /\ Shares(unbond_wait_list, b) \in Nat /\ Share(unbond_wait_list, u, b) \in Nat
             /\ Share(unbond_wait_list', u, b) \in Nat
             /\ Shares(unbond_wait_list', b) = Shares(unbond_wait_list, b)
                  - Share(unbond_wait_list, u, b) + Share(unbond_wait_list', u, b)
  <2>1. \A w \in Users : /\ Share(unbond_wait_list, w, b) \in Nat
                         /\ Share(unbond_wait_list', w, b) \in Nat
    BY <1>1, <1>5 DEF Share, IsRequests
  <2>2. QED BY <1>4, <2>1, SharesMove
<1>7. \A b \in Nat \ {id} : Share(unbond_wait_list', u, b) = Share(unbond_wait_list, u, b)
  BY <1>4 DEF Share, store_unbond_wait_list
<1>8. Share(unbond_wait_list', u, id) = Share(unbond_wait_list, u, id) + a
  <2>1. id \in DOMAIN unbond_wait_list'[u]
        /\ unbond_wait_list'[u][id] = IF id \in DOMAIN unbond_wait_list[u]
                                      THEN unbond_wait_list[u][id] + a ELSE a
    BY <1>4 DEF store_unbond_wait_list
  <2>2. QED BY <1>2, <2>1 DEF Share
<1>9. \A b \in Nat \ {id} : Shares(unbond_wait_list', b) = Shares(unbond_wait_list, b)
  BY <1>6, <1>7
<1>10. Shares(unbond_wait_list', id) = Shares(unbond_wait_list, id) + a
  <2>1. id \in Nat
    BY <1>1
  <2>2. QED BY <1>2, <1>6, <1>8, <2>1
<1>11. QED BY <1>2, <1>5, <1>9, <1>10 DEF a, id

\* A withdrawal takes shares from released batches alone.
LEMMA WithdrawShares ==
  ASSUME TypeOK, ReleaseOrder', NEW u \in Users, NEW k, Released(u, k)
  PROVE  \A b \in Nat : /\ Shares(unbond_wait_list, b) \in Nat
                        /\ Shares(unbond_wait_list', b) \in Int
                        /\ Shares(unbond_wait_list', b) <= Shares(unbond_wait_list, b)
                        /\ b > k => Shares(unbond_wait_list', b) = Shares(unbond_wait_list, b)
<1> DEFINE id == current_batch.id
           B == get_unbond_batches(unbond_wait_list[u], history_after(k))
<1>1. id \in Nat \ {0} /\ DOMAIN unbond_wait_list = Users
      /\ \A w \in Users : IsRequests(unbond_wait_list[w], id)
  BY DEF TypeOK
<1>2. unbond_wait_list'[u] = remove_unbond_wait_list(unbond_wait_list[u], B)
      /\ \A w \in Users \ {u} : unbond_wait_list'[w] = unbond_wait_list[w]
  BY <1>1 DEF Released
<1>3. k \in last_processed_batch..(id - 1) /\ last_processed_batch \in Nat /\ k \in Nat
  BY SMTT(30) DEF Released, TypeOK
<1>4. \A b \in B : b \in Nat /\ b <= k
  <2>1. DOMAIN history_after(k) = 1..(id - 1)
    BY <1>3, HistoryAfterIs
  <2>2. \A b \in B : b \in 1..(id - 1) /\ history_after(k)[b].released
    BY <2>1 DEF get_unbond_batches
  <2>3. last_processed_batch' = k /\ unbond_history' = history_after(k)
        /\ current_batch' = current_batch
    BY DEF Released
  <2>4. QED BY <2>2, <2>3 DEF ReleaseOrder
<1> HIDE DEF B, id
<1>5. \A w \in Users : IsRequests(unbond_wait_list'[w], id)
  <2>1. IsRequests(unbond_wait_list'[u], id)
    BY <1>1, <1>2, RemoveRequests
  <2>2. QED BY <1>1, <1>2, <2>1
<1>6. ASSUME NEW b \in Nat
      PROVE  /\ Shares(unbond_wait_list, b) \in Nat /\ Share(unbond_wait_list, u, b) \in Nat
             /\ Share(unbond_wait_list', u, b) \in Nat
             /\ Shares(unbond_wait_list', b) = Shares(unbond_wait_list, b)
                  - Share(unbond_wait_list, u, b) + Share(unbond_wait_list', u, b)
  <2>1. \A w \in Users : /\ Share(unbond_wait_list, w, b) \in Nat
                         /\ Share(unbond_wait_list', w, b) \in Nat
    BY <1>1, <1>5 DEF Share, IsRequests
  <2>2. QED BY <1>2, <2>1, SharesMove
<1>7. \A b \in Nat : b \notin B => Share(unbond_wait_list', u, b) = Share(unbond_wait_list, u, b)
  BY <1>2 DEF Share, remove_unbond_wait_list, Restrict
<1>8. \A b \in B : Share(unbond_wait_list', u, b) = 0
  BY <1>2 DEF Share, remove_unbond_wait_list, Restrict
<1>9. \A b \in Nat : Share(unbond_wait_list', u, b) <= Share(unbond_wait_list, u, b)
  BY <1>6, <1>7, <1>8
<1>10. \A b \in Nat : b > k => b \notin B
  BY <1>3, <1>4
<1>11. QED BY <1>6, <1>7, <1>9, <1>10

LEMMA LedgerStep ==
  ASSUME TypeOK, ReleaseOrder', BatchLedger, [Next]_vars PROVE BatchLedger'
<1> DEFINE id == current_batch.id
           wl == unbond_wait_list
<1>0. /\ id \in Nat \ {0} /\ current_batch.requested_with_fee \in Nat
      /\ last_processed_batch \in 0..(id - 1)
      /\ \A b \in 1..(id - 1) : unbond_history[b].amount \in Nat
  BY DEF TypeOK, UnbondHistory
<1>1. /\ Shares(wl, id) = current_batch.requested_with_fee
      /\ \A b \in 1..(id - 1) : IF b <= last_processed_batch
                                THEN Shares(wl, b) <= unbond_history[b].amount
                                ELSE Shares(wl, b) = unbond_history[b].amount
  BY WaitingIs DEF BatchLedger
<1>2. BatchLedger' <=>
        /\ Shares(wl', current_batch'.id) = current_batch'.requested_with_fee
        /\ \A b \in 1..(current_batch'.id - 1) :
             IF b <= last_processed_batch'
             THEN Shares(wl', b) <= unbond_history'[b].amount
             ELSE Shares(wl', b) = unbond_history'[b].amount
  BY WaitingIs DEF BatchLedger
<1>3. CASE ~UnbondStep /\ ~WithdrawStep
  <2>1. UNCHANGED <<batchVars, last_processed_batch>>
    BY <1>3, OtherSteps
  <2>2. QED BY <1>1, <1>2, <2>1 DEF batchVars
<1>4. ASSUME NEW u \in Users, NEW amount \in Nat, unbond_within_epoch(u, amount)
      PROVE  BatchLedger'
  <2>1. Request(u, amount)
    BY <1>4 DEF unbond_within_epoch
  <2>2. /\ amount_with_fee(amount) \in Nat
        /\ \A b \in Nat \ {id} : Shares(wl', b) = Shares(wl, b)
        /\ Shares(wl', id) = Shares(wl, id) + amount_with_fee(amount)
    BY <2>1, RequestShares
  <2>3. UNCHANGED <<unbond_history, last_processed_batch>> /\ current_batch'.id = id
        /\ current_batch'.requested_with_fee = requested_after(amount)
    BY <1>4 DEF unbond_within_epoch, Request, TypeOK
  <2>4. Shares(wl', id) = requested_after(amount)
    BY <1>1, <2>2 DEF requested_after
  <2>5. \A b \in 1..(id - 1) : Shares(wl', b) = Shares(wl, b)
    BY <1>0, <2>2
  <2>6. QED BY <1>1, <1>2, <2>3, <2>4, <2>5
<1>5. ASSUME NEW u \in Users, NEW amount \in Nat, unbond_closing_batch(u, amount)
      PROVE  BatchLedger'
  <2>1. Request(u, amount)
    BY <1>5 DEF unbond_closing_batch
  <2>2. /\ amount_with_fee(amount) \in Nat
        /\ \A b \in Nat \ {id} : Shares(wl', b) = Shares(wl, b)
        /\ Shares(wl', id) = Shares(wl, id) + amount_with_fee(amount)
        /\ \A w \in Users : IsRequests(wl'[w], id)
    BY <2>1, RequestShares
  <2>3. /\ current_batch'.id = id + 1 /\ current_batch'.requested_with_fee = 0
        /\ \A b \in 1..(id - 1) : unbond_history'[b] = unbond_history[b]
        /\ unbond_history'[id].amount = requested_after(amount)
        /\ UNCHANGED last_processed_batch
    BY <1>5, ClosingAdds
  <2>4. Shares(wl', id) = requested_after(amount)
    BY <1>1, <2>2 DEF requested_after
  <2>5. \A b \in 1..(id - 1) : Shares(wl', b) = Shares(wl, b)
    BY <1>0, <2>2
  <2>6. Shares(wl', id + 1) = 0
    <3>1. \A w \in Users : id + 1 \notin DOMAIN wl'[w]
      BY <1>0, <2>2 DEF IsRequests
    <3>2. QED BY <3>1, SharesNone
  <2>7. ~(id <= last_processed_batch) /\ (id + 1) - 1 = id
    BY <1>0
  <2>8. \A b \in 1..id : b = id \/ b \in 1..(id - 1)
    BY <1>0
  <2>9. \A b \in 1..id : IF b <= last_processed_batch
                         THEN Shares(wl', b) <= unbond_history'[b].amount
                         ELSE Shares(wl', b) = unbond_history'[b].amount
    BY <1>1, <2>3, <2>4, <2>5, <2>7, <2>8
  <2>10. QED BY <1>2, <2>3, <2>6, <2>7, <2>9
<1>6. ASSUME NEW u \in Users, execute_withdraw_unbonded(u) PROVE BatchLedger'
  <2>1. PICK k : Released(u, k)
    BY <1>6, WithdrawReleases
  <2>2. k \in last_processed_batch..(id - 1) /\ last_processed_batch' = k
        /\ unbond_history' = history_after(k) /\ current_batch' = current_batch
    BY <2>1 DEF Released
  <2>3. \A b \in Nat : /\ Shares(wl, b) \in Nat /\ Shares(wl', b) \in Int
                       /\ Shares(wl', b) <= Shares(wl, b)
                       /\ b > k => Shares(wl', b) = Shares(wl, b)
    BY <2>1, WithdrawShares
  <2>4. \A b \in 1..(id - 1) : unbond_history'[b].amount = unbond_history[b].amount
    BY <2>2, HistoryAfterIs
  <2>5. id > k /\ id \in Nat
    BY <1>0, <2>2
  <2>6. Shares(wl', id) = current_batch.requested_with_fee
    BY <1>1, <2>3, <2>5
  <2>7. ASSUME NEW b \in 1..(id - 1)
        PROVE  IF b <= k THEN Shares(wl', b) <= unbond_history'[b].amount
               ELSE Shares(wl', b) = unbond_history'[b].amount
    <3>1. b \in Nat /\ Shares(wl, b) <= unbond_history[b].amount
      BY <1>0, <1>1, <2>3
    <3>2. CASE b <= k
      BY <1>0, <2>3, <2>4, <3>1, <3>2
    <3>3. CASE ~(b <= k)
      BY <1>0, <1>1, <2>2, <2>3, <2>4, <3>1, <3>3
    <3>4. QED BY <3>2, <3>3
  <2>8. QED BY <1>2, <2>2, <2>6, <2>7
<1>7. QED BY <1>3, <1>4, <1>5, <1>6, VaultAssumption
        DEF UnbondStep, execute_unbond, WithdrawStep

\* What users wait for in a batch is what the batch has recorded, all of it until the batch
\* is released, for any number of users and batches.
THEOREM LedgerAgrees == Spec => []BatchLedger
<1>1. TypeOK /\ ReleaseOrder' /\ BatchLedger /\ [Next]_vars => BatchLedger'
  BY LedgerStep
<1>2. QED BY <1>1, LedgerInit, ReleaseInvariant, PTL DEF Spec

-----------------------------------------------------------------------------
(***************************************************************************)
(* The validators.                                                         *)
(***************************************************************************)
\* pick_bond_validator finds its minimum.
LEMMA PickedIsListed ==
  ASSUME TypeOK, NEW active, active \cap validators # {}
  PROVE  pick_bond_validator(active) \in validators
<1> DEFINE S == validators \cap active
           D == {delegation[v] : v \in S}
<1>1. S # {} /\ S \subseteq Validators /\ S \subseteq Nat /\ \A v \in S : delegation[v] \in Nat
  BY VaultAssumption DEF TypeOK
<1>2. D # {} /\ D \in SUBSET Nat
  BY <1>1
<1>3. PICK d \in D : \A e \in D : d <= e
  BY <1>2, NatLeast
<1> DEFINE L == {v \in S : delegation[v] = d}
<1>4. L # {} /\ L \in SUBSET Nat
  BY <1>1
<1>5. PICK v \in L : \A w \in L : v <= w
  <2> HIDE DEF L
  <2>1. QED BY <1>4, NatLeast
<1>6. \A w \in S : delegation[v] < delegation[w] \/ (delegation[v] = delegation[w] /\ v <= w)
  <2> SUFFICES ASSUME NEW w \in S
               PROVE  delegation[v] < delegation[w] \/ (delegation[v] = delegation[w] /\ v <= w)
    OBVIOUS
  <2>1. delegation[v] = d /\ d <= delegation[w] /\ d \in Nat /\ delegation[w] \in Nat
    BY <1>1, <1>2, <1>3, <1>5
  <2>2. CASE d = delegation[w]
    BY <1>5, <2>1, <2>2
  <2>3. CASE d # delegation[w]
    BY <2>1, <2>3
  <2>4. QED BY <2>2, <2>3
<1>7. v \in S
  BY <1>5
<1> HIDE DEF S, L
<1>8. \E x \in S : \A w \in S :
        delegation[x] < delegation[w] \/ (delegation[x] = delegation[w] /\ x <= w)
  BY <1>6, <1>7
<1>9. pick_bond_validator(active) \in S
  BY <1>8 DEF pick_bond_validator, S
<1>10. QED BY <1>9 DEF S

LEMMA ListedInit == Init => DelegatedToWhitelisted
<1> SUFFICES ASSUME Init PROVE DelegatedToWhitelisted
  OBVIOUS
<1>1. Cardinality(validators) = 1 /\ validators = {InitValidator}
  BY FS_Singleton DEF Init
<1>2. QED BY <1>1, VaultAssumption DEF Init, DelegatedToWhitelisted

LEMMA ListedStep ==
  ASSUME TypeOK, DelegatedToWhitelisted, [Next]_vars PROVE DelegatedToWhitelisted'
<1>0. /\ delegation \in [Validators -> Nat] /\ validators \subseteq Validators
      /\ IsFiniteSet(validators) /\ Cardinality(validators) \in Nat /\ MAX_VALIDATORS \in Nat
  <2>1. validators \subseteq Validators /\ IsFiniteSet(Validators)
    BY VaultAssumption DEF TypeOK
  <2>2. IsFiniteSet(validators)
    BY <2>1, FS_Subset
  <2>3. QED BY <2>1, <2>2, FS_CardinalityType, VaultAssumption DEF TypeOK
<1>1. ASSUME UNCHANGED validators,
             \A v \in Validators : delegation'[v] > 0 => delegation[v] > 0 \/ v \in validators
      PROVE  DelegatedToWhitelisted'
  BY <1>1 DEF DelegatedToWhitelisted
<1>2. ASSUME UNCHANGED <<validators, delegation>> PROVE DelegatedToWhitelisted'
  BY <1>2 DEF DelegatedToWhitelisted
<1>3. CASE BondStep
  <2>0. PICK v \in Validators, payment \in Nat : \E m : _execute_bond(v, payment, m)
    BY <1>3, VaultAssumption DEF BondStep, execute_bond, execute_bond_split
  <2>1. PICK m : _execute_bond(v, payment, m)
    BY <2>0
  <2>2. v \in validators
    <3>1. v \in BondValidators
      BY <2>1 DEF _execute_bond
    <3>2. QED BY <3>1, PickedIsListed DEF BondValidators
  <2>3. delegation' = [delegation EXCEPT ![v] = @ + payment] /\ UNCHANGED validators
    BY <2>1 DEF _execute_bond, configVars
  <2>4. QED BY <1>0, <1>1, <2>2, <2>3
<1>4. CASE RefractStep \/ WithdrawStep \/ execute_slashing \/ UNCHANGED vars
  <2>1. UNCHANGED <<validators, delegation>>
    BY <1>4 DEF RefractStep, split, merge, WithdrawStep, execute_withdraw_unbonded,
      execute_slashing, vars, configVars, chainVars
  <2>2. QED BY <1>2, <2>1
<1>5. ASSUME NEW u \in Users, NEW amount \in Nat, execute_unbond(u, amount)
      PROVE  DelegatedToWhitelisted'
  <2>1. Request(u, amount)
    BY <1>5 DEF execute_unbond, unbond_within_epoch, unbond_closing_batch
  <2>2. UNCHANGED validators
    BY <2>1 DEF Request, configVars
  <2>3. CASE unbond_within_epoch(u, amount)
    BY <1>2, <2>2, <2>3 DEF unbond_within_epoch
  <2>4. CASE unbond_closing_batch(u, amount)
    <3>1. PICK claim : claim = mul(requested_after(amount), rate_after(amount))
      OBVIOUS
    <3>2. claim \in Nat /\ pick_unbond_validator(claim, delegation')
      <4>1. requested_after(amount) \in Nat /\ rate_after(amount) \in Nat
        BY <2>1, RequestNat DEF Request
      <4>2. QED BY <2>4, <3>1, <4>1, MulNat DEF unbond_closing_batch
    <3>3. \A v \in Validators : delegation'[v] > 0 => delegation[v] > 0
      <4>1. CASE delegation' = delegation
        BY <4>1
      <4>2. ASSUME NEW last \in Validators, NEW emptied \in SUBSET (Validators \ {last}),
                   SumFunctionOnSet(delegation, emptied) < claim,
                   delegation' = Drained(emptied, last, claim)
            PROVE  \A v \in Validators : delegation'[v] > 0 => delegation[v] > 0
        <5>1. IsFiniteSet(emptied)
          BY VaultAssumption, FS_Subset
        <5>2. SumFunctionOnSet(delegation, emptied) \in Nat
          BY <1>0, <5>1, SumNat
        <5>3. QED BY <1>0, <3>2, <4>2, <5>2 DEF Drained
      <4>3. QED BY <3>2, <4>1, <4>2 DEF pick_unbond_validator
    <3>4. QED BY <1>1, <2>2, <3>3
  <2>5. QED BY <1>5, <2>3, <2>4 DEF execute_unbond
<1>6. ASSUME NEW sender, NEW v \in Validators, execute_register_validator(sender, v)
      PROVE  DelegatedToWhitelisted'
  <2>1. validators' = validators \cup {v} /\ delegation' = delegation
        /\ Cardinality(validators) < MAX_VALIDATORS
    BY <1>6 DEF execute_register_validator, chainVars
  <2>2. Cardinality(validators \cup {v}) <= Cardinality(validators) + 1
    <3>1. Cardinality(validators \cup {v})
            = IF v \in validators THEN Cardinality(validators) ELSE Cardinality(validators) + 1
      BY <1>0, FS_AddElement
    <3>2. QED BY <1>0, <3>1
  <2>3. Cardinality(validators \cup {v}) \in Nat
    BY <1>0, FS_AddElement, FS_CardinalityType
  <2>4. Cardinality(validators') <= MAX_VALIDATORS
    BY <1>0, <2>1, <2>2, <2>3
  <2>5. QED BY <2>1, <2>4 DEF DelegatedToWhitelisted
<1>7. ASSUME NEW sender, NEW v \in Validators, NEW w \in Validators,
             execute_deregister_validator(sender, v, w)
      PROVE  DelegatedToWhitelisted'
  <2>1. validators' = validators \ {v} /\ w \in validators \ {v}
    BY <1>7 DEF execute_deregister_validator
  <2>2. Cardinality(validators \ {v}) <= Cardinality(validators)
        /\ Cardinality(validators \ {v}) \in Nat
    <3>1. validators \ {v} \subseteq validators
      OBVIOUS
    <3>2. QED BY <1>0, <3>1, FS_Subset, FS_CardinalityType
  <2>3. Cardinality(validators') <= MAX_VALIDATORS
    BY <1>0, <2>1, <2>2 DEF DelegatedToWhitelisted
  <2>4. \A x \in Validators : delegation'[x] > 0 => x \in validators \ {v}
    <3>1. CASE delegation[v] = 0 /\ UNCHANGED <<delegation, redelegating>>
      BY <3>1 DEF DelegatedToWhitelisted
    <3>2. CASE delegation' = [delegation EXCEPT ![v] = @ - delegation[v], ![w] = @ + delegation[v]]
      <4>1. delegation'[v] = 0 /\ \A x \in Validators \ {v, w} : delegation'[x] = delegation[x]
        BY <1>0, <2>1, <3>2
      <4>2. QED BY <2>1, <4>1 DEF DelegatedToWhitelisted
    <3>3. QED BY <1>7, <3>1, <3>2 DEF execute_deregister_validator, Redelegate
  <2>5. QED BY <2>1, <2>3, <2>4 DEF DelegatedToWhitelisted
<1>8. ASSUME NEW sender, NEW v \in Validators, NEW w \in Validators, NEW amount \in 1..delegation[v],
             execute_redelegate(sender, v, w, amount)
      PROVE  DelegatedToWhitelisted'
  <2>1. v \in validators /\ w \in validators /\ UNCHANGED validators
        /\ delegation' = [delegation EXCEPT ![v] = @ - amount, ![w] = @ + amount]
    BY <1>8 DEF execute_redelegate, Redelegate, configVars
  <2>2. \A x \in Validators \ {v, w} : delegation'[x] = delegation[x]
    BY <1>0, <2>1
  <2>3. QED BY <1>1, <2>1, <2>2
<1>9. CASE AdminStep
  <2>1. CASE \E sender \in Admins :
               \/ \E p \in ParamChoices : execute_update_params(sender, p)
               \/ \E owner, manager \in Admins, staking, airdrop \in BOOLEAN :
                    execute_update_config(sender, owner, manager, staking, airdrop)
    <3>1. UNCHANGED <<validators, delegation>>
      BY <2>1 DEF execute_update_params, execute_update_config, chainVars
    <3>2. QED BY <1>2, <3>1
  <2>2. QED BY <1>6, <1>7, <1>8, <1>9, <2>1 DEF AdminStep
<1>10. CASE ChainStep
  <2>1. ASSUME NEW v \in Validators, NEW cut \in SlashAmounts, SlashDelegation(v, cut)
        PROVE  DelegatedToWhitelisted'
    <3>1. cut \in Nat
      BY VaultAssumption
    <3>2. cut < delegation[v] /\ delegation' = [delegation EXCEPT ![v] = @ - cut]
          /\ UNCHANGED validators
      BY <2>1 DEF SlashDelegation, configVars
    <3>3. QED BY <1>0, <1>1, <3>1, <3>2
  <2>2. UNCHANGED <<validators, delegation>>
        \/ \E v \in Validators, cut \in SlashAmounts : SlashDelegation(v, cut)
    BY <1>10 DEF ChainStep, EndBlock, SlashUnbonding, RedelegationCompletes, RogueTransfer,
         HolderBurn, configVars, chainVars
  <2>3. QED BY <1>2, <2>1, <2>2
<1>11. QED BY <1>3, <1>4, <1>5, <1>9, <1>10, VaultAssumption DEF Next, UnbondStep

\* Through registrations, deregistrations, redelegations, bonds, slashes and closed batches,
\* Luna is delegated to whitelisted validators alone, and one always remains.
THEOREM OnlyWhitelistedDelegated == Spec => []DelegatedToWhitelisted
<1>1. TypeOK /\ DelegatedToWhitelisted /\ [Next]_vars => DelegatedToWhitelisted'
  BY ListedStep
<1>2. QED BY <1>1, ListedInit, TypeCorrect, PTL DEF Spec

-----------------------------------------------------------------------------
(***************************************************************************)
(* The peg.  A holder who burns cLuna of its own raises the rest above the *)
(* peg, and so may the rounding of a batch that is out of all proportion   *)
(* to the supply: PegNotExceeded rests on these not happening.             *)
(***************************************************************************)
\* cLuna is burnt by execute_unbond alone.
BurnsAreUnbonds == cluna_supply' < cluna_supply => UnbondStep

\* A closed batch is small enough, against the cLuna left, for the 18 digits of
\* the rate to tell its value to the unit.
PreciseClosing ==
  current_batch'.id # current_batch.id =>
    LET n == unbond_history'[current_batch.id].amount
    IN  n * (cluna_supply' + n) <= ONE * cluna_supply'

\* The inductive invariant: at the peg or below, as recorded and as priced.
PegInv == BondInv /\ PegNotExceeded /\ exchange_rate <= ONE

\* State::update_exchange_rate stays within one when the claims cover the bond.
LEMMA RateWithinOne ==
  ASSUME NEW b \in Nat, NEW i \in Nat, NEW r \in Nat, b <= i + r
  PROVE  update_exchange_rate(b, i, r) <= ONE
<1>1. PICK o \in Nat \ {0} : o = ONE
  BY OnePos
<1>2. CASE b = 0 \/ i + r = 0
  BY <1>1, <1>2 DEF update_exchange_rate
<1>3. CASE ~ (b = 0 \/ i + r = 0)
  <2>1. PICK t \in Nat \ {0} : t = i + r
    BY <1>3
  <2>2. b * o \in Nat /\ b * o <= o * t
    <3>1. b * o <= t * o
      BY <2>1
    <3>2. QED BY <3>1
  <2>3. (b * o) \div t <= o
    BY <2>2, DivMono
  <2>4. update_exchange_rate(b, i, r) = (b * o) \div t
    BY <1>1, <1>3, <2>1 DEF update_exchange_rate, from_ratio
  <2>5. QED BY <1>1, <2>3, <2>4
<1>4. QED BY <1>2, <1>3

\* What slashing() finds is within the peg as well.
LEMMA SlashedPeg ==
  ASSUME PegInv
  PROVE  /\ slashed_bond \in Nat \ {0} /\ slashed_rate \in Nat
         /\ slashed_bond <= cluna_supply + current_batch.requested_with_fee
         /\ slashed_rate <= ONE
<1>1. BondInv /\ TypeOK /\ PegNotExceeded /\ exchange_rate <= ONE
  BY DEF PegInv, BondInv
<1>2. /\ cluna_supply \in Nat /\ current_batch.requested_with_fee \in Nat
      /\ total_bond_amount \in Nat /\ actual_total_bonded \in Nat
      /\ total_bond_amount <= cluna_supply + current_batch.requested_with_fee
  BY <1>1, DelegationsNat DEF TypeOK, PegNotExceeded
<1>3. slashed_bond \in Nat \ {0} /\ slashed_rate \in Nat
  BY <1>1, SlashedFacts, SlashedNat
<1>4. CASE SlashingFound
  <2>1. actual_total_bonded <= cluna_supply + current_batch.requested_with_fee
    BY <1>2, <1>4 DEF SlashingFound
  <2>2. update_exchange_rate(actual_total_bonded, cluna_supply,
                             current_batch.requested_with_fee) <= ONE
    BY <1>2, <2>1, RateWithinOne
  <2>3. QED BY <1>3, <1>4, <2>1, <2>2 DEF slashed_bond, slashed_rate
<1>5. CASE ~SlashingFound
  BY <1>1, <1>2, <1>3, <1>5 DEF slashed_bond, slashed_rate
<1>6. QED BY <1>4, <1>5

\* decimal_division by a rate of at most one gives at least the amount.
LEMMA DivisionEnlarges ==
  ASSUME NEW a \in Nat, NEW r \in Nat, r <= ONE, mul(DECIMAL_FRACTIONAL, r) > 0
  PROVE  decimal_division(a, r) \in Nat /\ a <= decimal_division(a, r)
<1>1. PICK d \in Nat \ {0} : d = DECIMAL_FRACTIONAL /\ ONE = d * d
  BY FractionalAssumption DEF ONE
<1>2. PICK c \in Nat \ {0} : c = mul(d, r) /\ c <= d
  <2>1. mul(d, r) \in Nat /\ mul(d, r) <= d
    BY <1>1, MulNat, MulLeq
  <2>2. QED BY <1>1, <2>1
<1>3. PICK o \in Nat \ {0} : o = ONE
  BY OnePos
<1>4. PICK x \in Nat : x = from_ratio(a, c)
  BY RatioNat
<1>5. a * d <= x
  <2>1. PICK p \in Nat : p = a * o
    OBVIOUS
  <2>2. x = p \div c
    BY <1>3, <1>4, <2>1 DEF from_ratio
  <2>3. PICK y \in Nat : y = a * d
    BY <1>1
  <2>4. p = y * d
    BY <1>1, <1>3, <2>1, <2>3
  <2>5. y * c <= y * d
    BY <1>2
  <2>6. p < x * c + c
    BY <2>2, DivFacts
  <2>7. SUFFICES ASSUME x + 1 <= y PROVE FALSE
    BY <2>3
  <2>8. (x + 1) * c <= y * c /\ (x + 1) * c = x * c + c
    BY <2>7
  <2>9. QED BY <2>4, <2>5, <2>6, <2>8
<1>6. a <= mul(d, x) /\ mul(d, x) \in Nat
  <2>1. mul(d, x) \in Nat
    BY MulNat
  <2>2. PICK y \in Nat : y = a * d /\ y <= x
    BY <1>1, <1>5
  <2>3. mul(d, y) <= mul(d, x)
    BY <2>2, MulGrows
  <2>4. mul(d, y) = a
    <3>1. d * y = a * o
      BY <1>1, <1>3, <2>2
    <3>2. (a * o) \div o = a
      OBVIOUS
    <3>3. QED BY <1>3, <3>1, <3>2 DEF mul
  <2>5. QED BY <2>1, <2>3, <2>4
<1>7. decimal_division(a, r) = mul(d, x)
  BY <1>1, <1>2, <1>4 DEF decimal_division
<1>8. QED BY <1>6, <1>7

\* A bond mints, after its fee, at least what keeps the claims above the bond.
LEMMA PegBond ==
  ASSUME PegInv, NEW v, NEW payment \in Nat, NEW m, _execute_bond(v, payment, m),
         m \in Nat
  PROVE  PegNotExceeded' /\ exchange_rate' <= ONE
<1>1. PICK s \in Nat, q \in Nat, b \in Nat :
        /\ s = cluna_supply /\ q = current_batch.requested_with_fee /\ b = slashed_bond
        /\ b <= s + q
  BY SlashedPeg DEF PegInv, BondInv, TypeOK
<1>2. PICK mint \in Nat : mint = mint_amount(payment) /\ payment <= mint
  <2>1. mul(DECIMAL_FRACTIONAL, slashed_rate) > 0
    BY DEF _execute_bond
  <2>2. QED BY <2>1, SlashedPeg, DivisionEnlarges DEF mint_amount
<1>3. PICK fee \in Nat : fee = mul(mint, params.peg_recovery_fee)
  <2>1. params.peg_recovery_fee \in Nat
    BY DEF PegInv, BondInv, TypeOK, Parameters
  <2>2. QED BY <2>1, MulNat
<1>4. b + payment <= s + m + q
  <2>1. PICK deficit \in Int : deficit = (s + mint + q) - (b + payment)
    OBVIOUS
  <2>2. MintDeficit(payment, mint) = deficit
    BY <1>1, <2>1 DEF MintDeficit
  <2>3. m = IF BelowPeg THEN mint - smaller(fee, deficit) ELSE mint
    BY <1>2, <1>3, <2>2 DEF _execute_bond, mint_amount_with_fee
  <2>4. smaller(fee, deficit) <= deficit /\ smaller(fee, deficit) \in Int
    BY DEF smaller
  <2>5. CASE BelowPeg
    <3>1. m >= mint - deficit
      BY <2>3, <2>4, <2>5
    <3>2. QED BY <2>1, <3>1
  <2>6. CASE ~BelowPeg
    BY <1>1, <1>2, <2>3, <2>6
  <2>7. QED BY <2>5, <2>6
<1>5. /\ total_bond_amount' = b + payment /\ cluna_supply' = s + m
      /\ current_batch' = current_batch
      /\ exchange_rate' = update_exchange_rate(b + payment, s + m, q)
  BY <1>1 DEF _execute_bond, batchVars
<1>6. exchange_rate' <= ONE
  <2>1. b + payment \in Nat /\ s + m \in Nat /\ b + payment <= (s + m) + q
    BY <1>4
  <2>2. QED BY <1>5, <2>1, RateWithinOne
<1>7. QED BY <1>1, <1>4, <1>5, <1>6 DEF PegNotExceeded

\* The claims left once a request has joined cover the bond.
LEMMA PegRequest ==
  ASSUME PegInv, NEW u, NEW amount \in Nat, Request(u, amount)
  PROVE  /\ requested_after(amount) \in Nat /\ cluna_supply' \in Nat
         /\ slashed_bond <= cluna_supply' + requested_after(amount)
         /\ rate_after(amount) = update_exchange_rate(slashed_bond, cluna_supply',
                                                      requested_after(amount))
         /\ exchange_rate' = rate_after(amount) /\ exchange_rate' <= ONE
<1>0. amount <= circulating /\ (BelowPeg => UnbondDeficit >= 0)
      /\ cluna_supply' = cluna_supply - amount /\ exchange_rate' = rate_after(amount)
  BY DEF Request
<1>1. PICK s \in Nat, q \in Nat, b \in Nat :
        /\ s = cluna_supply /\ q = current_batch.requested_with_fee /\ b = slashed_bond
        /\ b <= s + q
  BY SlashedPeg DEF PegInv, BondInv, TypeOK
<1>2. PICK r \in Nat, s2 \in Nat : r = requested_after(amount) /\ s2 = cluna_supply'
                                   /\ s2 = s - amount
  BY <1>0, <1>1, RequestNat DEF PegInv, BondInv
<1>3. PICK fee \in Nat : fee = mul(amount, params.peg_recovery_fee)
  <2>1. params.peg_recovery_fee \in Nat
    BY DEF PegInv, BondInv, TypeOK, Parameters
  <2>2. QED BY <2>1, MulNat
<1>4. b <= s2 + r
  <2>1. PICK deficit \in Int : deficit = (s + q) - b
    OBVIOUS
  <2>2. UnbondDeficit = deficit
    BY <1>1, <2>1 DEF UnbondDeficit
  <2>3. r = q + (IF BelowPeg THEN amount - smaller(fee, deficit) ELSE amount)
    BY <1>1, <1>2, <1>3, <2>2 DEF requested_after, amount_with_fee
  <2>4. smaller(fee, deficit) <= deficit /\ smaller(fee, deficit) \in Int
    BY DEF smaller
  <2>5. CASE BelowPeg
    <3>1. r >= q + amount - deficit
      BY <2>3, <2>4, <2>5
    <3>2. QED BY <1>2, <2>1, <3>1
  <2>6. CASE ~BelowPeg
    BY <1>1, <1>2, <2>3, <2>6
  <2>7. QED BY <2>5, <2>6
<1>5. rate_after(amount) = update_exchange_rate(b, s2, r)
  BY <1>0, <1>1, <1>2 DEF rate_after
<1>6. update_exchange_rate(b, s2, r) <= ONE
  BY <1>4, RateWithinOne
<1>7. QED BY <1>0, <1>1, <1>2, <1>4, <1>5, <1>6

\* What a batch leaves bonded is covered by the cLuna left, when its size is in
\* proportion.
LEMMA ClosingArithmetic ==
  ASSUME NEW s \in Nat, NEW r \in Nat, NEW b \in Nat \ {0}, b <= s + r,
         r * (s + r) <= ONE * s
  PROVE  b - mul(r, from_ratio(b, s + r)) <= s
<1>1. PICK o \in Nat \ {0} : o = ONE
  BY OnePos
<1>2. PICK n \in Nat \ {0} : n = s + r
  OBVIOUS
<1>3. PICK q \in Nat : q = from_ratio(b, n)
  BY RatioNat
<1>4. PICK x \in Nat : x = mul(r, q)
  BY MulNat
<1>5. CASE b = n
  <2>1. (n * o) \div n = o /\ (r * o) \div o = r
    OBVIOUS
  <2>2. q = o
    BY <1>1, <1>3, <1>5, <2>1 DEF from_ratio
  <2>3. x = r
    BY <1>1, <1>4, <2>1, <2>2 DEF mul
  <2>4. QED BY <1>2, <1>3, <1>4, <1>5, <2>3
<1>6. CASE b < n
  <2>1. SUFFICES ASSUME x + s + 1 <= b PROVE FALSE
    BY <1>2, <1>3, <1>4
  <2>2. PICK e \in Nat : n = b + e + 1
    BY <1>6
  <2>3. PICK p \in Nat : p = b * o /\ p < q * n + n
    <3>1. PICK p \in Nat : p = b * o
      OBVIOUS
    <3>2. q = p \div n
      BY <1>1, <1>3, <3>1 DEF from_ratio
    <3>3. QED BY <3>1, <3>2, DivFacts
  <2>4. r * q < o * x + o
    BY <1>1, <1>4, MulRest
  <2>5. PICK y \in Nat : y = r * q
    OBVIOUS
  <2>6. y + 1 <= o * (b - s)
    <3>1. PICK z \in Nat : b = x + s + 1 + z
      BY <2>1
    <3>2. b - s = x + 1 + z /\ o * (x + 1 + z) = o * x + o + o * z /\ o * z \in Nat
      BY <3>1
    <3>3. QED BY <2>4, <2>5, <3>2
  <2>7. r * p + 1 <= y * n + r * n + 1
    <3>1. r * p <= r * (q * n + n)
      BY <2>3
    <3>2. r * (q * n + n) = y * n + r * n
      BY <2>5
    <3>3. QED BY <3>1, <3>2
  <2>8. y * n + n <= o * (b - s) * n
    <3>1. PICK w \in Nat : w = o * (b - s) /\ y + 1 <= w
      <4>1. PICK z \in Nat : z = b - s
        BY <2>1
      <4>2. QED BY <2>6, <4>1
    <3>2. (y + 1) * n <= w * n /\ (y + 1) * n = y * n + n
      BY <3>1
    <3>3. QED BY <3>1, <3>2
  <2>9. r * (b * o) + n <= o * (b - s) * n + r * n
    BY <2>3, <2>7, <2>8
  <2>10. o * (b - s) * n = o * b * n - o * s * n
    BY <2>1
  <2>11. o * b * n = o * b * s + r * (b * o)
    BY <1>2
  <2>12. o * s * n = o * b * s + o * s * (e + 1)
    BY <2>2
  <2>13. n + o * s * (e + 1) <= r * n
    BY <2>9, <2>10, <2>11, <2>12
  <2>14. o * s <= o * s * (e + 1)
    <3>1. PICK w \in Nat : w = o * s
      OBVIOUS
    <3>2. w * (e + 1) = w * e + w /\ w * e \in Nat
      BY <3>1
    <3>3. QED BY <3>1, <3>2
  <2>15. r * n <= o * s
    BY <1>1, <1>2
  <2>16. QED BY <2>13, <2>14, <2>15
<1>7. QED BY <1>2, <1>5, <1>6

LEMMA PegInit == Init => PegInv
<1> SUFFICES ASSUME Init PROVE PegInv
  OBVIOUS
<1>1. BondInv
  BY BondInvInit
<1>2. InitialBond \in Nat /\ ONE \in Nat
  BY VaultAssumption, OnePos
<1>3. PegNotExceeded /\ exchange_rate <= ONE
  BY <1>2 DEF Init, PegNotExceeded
<1>4. QED BY <1>1, <1>3 DEF PegInv

\* Every step keeps cLuna at the peg or below.
LEMMA PegStep ==
  ASSUME PegInv, [Next]_vars, [BurnsAreUnbonds /\ PreciseClosing]_vars
  PROVE  PegInv'
<1> SUFFICES PegNotExceeded' /\ exchange_rate' <= ONE
  BY BondInvStep DEF PegInv
<1>0. /\ BondInv /\ TypeOK /\ PegNotExceeded /\ exchange_rate <= ONE
      /\ cluna_supply \in Nat /\ current_batch.requested_with_fee \in Nat
      /\ total_bond_amount \in Nat /\ cluna_supply' \in Nat
  <2>1. BondInv /\ TypeOK /\ PegNotExceeded /\ exchange_rate <= ONE /\ TypeOK'
    BY BondInvStep DEF PegInv, BondInv
  <2>2. QED BY <2>1 DEF TypeOK
<1>1. ASSUME UNCHANGED <<total_bond_amount, exchange_rate, current_batch>>,
             cluna_supply' = cluna_supply
      PROVE  PegNotExceeded' /\ exchange_rate' <= ONE
  BY <1>0, <1>1 DEF PegNotExceeded
<1>2. CASE UNCHANGED vars
  BY <1>1, <1>2 DEF vars, stateVars, batchVars, tokenVars
<1>3. CASE BondStep
  <2>1. PICK v \in Validators, payment \in Nat :
          \E m \in 1..MaxSupply : _execute_bond(v, payment, m)
    BY <1>3, VaultAssumption DEF BondStep, execute_bond, execute_bond_split
  <2>2. PICK m \in 1..MaxSupply : _execute_bond(v, payment, m)
    BY <2>1
  <2>3. m \in Nat
    BY VaultAssumption
  <2>4. QED BY <2>2, <2>3, PegBond
<1>4. ASSUME NEW u \in Users, NEW amount \in Nat, unbond_within_epoch(u, amount)
      PROVE  PegNotExceeded' /\ exchange_rate' <= ONE
  <2>1. Request(u, amount) /\ total_bond_amount' = slashed_bond
        /\ current_batch' = [current_batch EXCEPT !.requested_with_fee = requested_after(amount)]
    BY <1>4 DEF unbond_within_epoch
  <2>2. current_batch'.requested_with_fee = requested_after(amount)
    BY <1>0, <2>1 DEF TypeOK
  <2>3. slashed_bond <= cluna_supply' + requested_after(amount) /\ exchange_rate' <= ONE
    BY <2>1, PegRequest
  <2>4. QED BY <2>1, <2>2, <2>3 DEF PegNotExceeded
<1>5. ASSUME NEW u \in Users, NEW amount \in Nat, unbond_closing_batch(u, amount)
      PROVE  PegNotExceeded' /\ exchange_rate' <= ONE
  <2>1. Request(u, amount)
        /\ total_bond_amount' = slashed_bond - mul(requested_after(amount), rate_after(amount))
    BY <1>5 DEF unbond_closing_batch
  <2>2. /\ current_batch'.id = current_batch.id + 1 /\ current_batch'.requested_with_fee = 0
        /\ unbond_history'[current_batch.id].amount = requested_after(amount)
        /\ current_batch.id \in Nat
    BY <1>0, <1>5, ClosingAdds DEF TypeOK
  <2>3. PICK s \in Nat, r \in Nat, b \in Nat \ {0} :
          /\ s = cluna_supply' /\ r = requested_after(amount) /\ b = slashed_bond
          /\ b <= s + r
    BY <2>1, PegRequest, SlashedPeg
  <2>4. exchange_rate' <= ONE /\ rate_after(amount) = update_exchange_rate(b, s, r)
    BY <2>1, <2>3, PegRequest
  <2>5. rate_after(amount) = from_ratio(b, s + r)
    <3>1. b # 0 /\ s + r # 0
      BY <2>3
    <3>2. QED BY <2>4, <3>1 DEF update_exchange_rate
  <2>6. r * (s + r) <= ONE * s
    <3>1. current_batch'.id # current_batch.id
      BY <2>2
    <3>2. PreciseClosing
      BY <3>1 DEF vars, batchVars
    <3>3. QED BY <2>2, <2>3, <3>1, <3>2 DEF PreciseClosing
  <2>7. b - mul(r, from_ratio(b, s + r)) <= s
    BY <2>3, <2>6, ClosingArithmetic
  <2>8. total_bond_amount' <= s + 0
    BY <2>1, <2>3, <2>5, <2>7
  <2>9. QED BY <2>2, <2>3, <2>4, <2>8 DEF PegNotExceeded
<1>6. CASE UnbondStep
  BY <1>4, <1>5, <1>6, VaultAssumption DEF UnbondStep, execute_unbond
<1>7. CASE RefractStep \/ WithdrawStep \/ AdminStep
  <2>1. CASE RefractStep
    BY <1>1, <2>1 DEF RefractStep, split, merge, stateVars, batchVars
  <2>2. CASE WithdrawStep
    BY <1>1, <2>2 DEF WithdrawStep, execute_withdraw_unbonded, tokenVars
  <2>3. CASE AdminStep
    BY <1>1, <2>3 DEF AdminStep, execute_update_params, execute_update_config,
      execute_register_validator, execute_deregister_validator, execute_redelegate,
      stateVars, batchVars, tokenVars
  <2>4. QED BY <1>7, <2>1, <2>2, <2>3
<1>8. CASE execute_slashing
  <2>1. /\ total_bond_amount' = slashed_bond /\ exchange_rate' = slashed_rate
        /\ cluna_supply' = cluna_supply /\ current_batch' = current_batch
    BY <1>8 DEF execute_slashing, batchVars, tokenVars
  <2>2. QED BY <2>1, SlashedPeg DEF PegNotExceeded
<1>9. ASSUME NEW token, NEW amount \in HolderBurns, HolderBurn(token, amount)
      PROVE  PegNotExceeded' /\ exchange_rate' <= ONE
  <2>1. UNCHANGED <<total_bond_amount, exchange_rate, current_batch>>
    BY <1>9 DEF HolderBurn, stateVars, batchVars
  <2>2. CASE cluna_supply' = cluna_supply
    BY <1>1, <2>1, <2>2
  <2>3. CASE cluna_supply' = cluna_supply - amount
    <3>1. amount \in Nat \ {0}
      BY VaultAssumption
    <3>2. cluna_supply' < cluna_supply
      BY <1>0, <2>3, <3>1
    <3>3. BurnsAreUnbonds
      BY <1>0, <3>2 DEF vars, tokenVars
    <3>4. QED BY <1>6, <3>2, <3>3 DEF BurnsAreUnbonds
  <2>4. QED BY <1>9, <2>2, <2>3 DEF HolderBurn
<1>10. CASE ChainStep
  <2>1. \/ UNCHANGED <<total_bond_amount, exchange_rate, current_batch, cluna_supply>>
        \/ \E token \in {"cluna", "yluna", "pluna", "gift"}, amount \in HolderBurns :
             HolderBurn(token, amount)
    BY <1>10 DEF ChainStep, EndBlock, SlashDelegation, SlashUnbonding, RedelegationCompletes,
      RogueTransfer, stateVars, batchVars, tokenVars
  <2>2. QED BY <1>1, <1>9, <2>1
<1>11. QED BY <1>2, <1>3, <1>6, <1>7, <1>8, <1>10 DEF Next

\* Through bonds at any rate and fee, unbonds, slashes and closed batches, cLuna is never
\* above its peg, so that required_peg_fee does not underflow: as long as no holder burns
\* cLuna outside execute_unbond, and no batch is so large that its value is rounded away.
THEOREM PegHolds ==
  Spec /\ [][BurnsAreUnbonds /\ PreciseClosing]_vars => []PegNotExceeded
<1>1. PegInv /\ [Next]_vars /\ [BurnsAreUnbonds /\ PreciseClosing]_vars => PegInv'
  BY PegStep
<1>2. PegInv => PegNotExceeded
  BY DEF PegInv
<1>3. QED BY <1>1, <1>2, PegInit, PTL DEF Spec

-----------------------------------------------------------------------------
(***************************************************************************)
(* Solvency.  A release prices its batches at what has arrived for them.   *)
(* When nothing has arrived, the magnitudes of SignedInt pay a unit where  *)
(* there is none, and the share of a loss so large that 18 digits do not   *)
(* tell its units may be cut short: Solvent rests on these not happening.  *)
(***************************************************************************)
\* A release finds new Luna, and a loss that the 18 digits of a share resolve.
ReleaseCovered ==
  last_processed_batch' # last_processed_batch =>
    /\ luna > prev_vault_balance
    /\ (last_processed_batch' - last_processed_batch) * slashed_amount(last_processed_batch')
         <= ONE

\* What a withdrawal leaves for later: nothing, and a batch that is not released
\* still has the rate it was closed with.
Untouched ==
  /\ actual_unbonded_amount = 0
  /\ \A b \in 1..(current_batch.id - 1) : ~unbond_history[b].released =>
       unbond_history[b].withdraw_rate = unbond_history[b].applied_exchange_rate

LEMMA UntouchedInit == Init => Untouched
  BY DEF Init, Untouched

\* Other steps leave the balance the last withdrawal recorded.
LEMMA BalanceSteps ==
  ASSUME [Next]_vars, ~WithdrawStep
  PROVE  UNCHANGED <<prev_vault_balance, actual_unbonded_amount, last_processed_batch>>
<1>1. CASE BondStep
  <2>1. PICK v, payment, m : _execute_bond(v, payment, m)
    BY <1>1 DEF BondStep, execute_bond, execute_bond_split
  <2>2. QED BY <2>1 DEF _execute_bond
<1>2. CASE RefractStep \/ execute_slashing \/ UNCHANGED vars
  BY <1>2 DEF RefractStep, split, merge, execute_slashing, vars, stateVars
<1>3. CASE AdminStep
  BY <1>3 DEF AdminStep, execute_update_params, execute_update_config,
    execute_register_validator, execute_deregister_validator, execute_redelegate, stateVars
<1>4. CASE ChainStep
  BY <1>4 DEF ChainStep, EndBlock, SlashDelegation, SlashUnbonding, RedelegationCompletes,
    RogueTransfer, HolderBurn, stateVars
<1>5. CASE UnbondStep
  <2>1. PICK u, amount : Request(u, amount)
    BY <1>5 DEF UnbondStep, execute_unbond, unbond_within_epoch, unbond_closing_batch
  <2>2. QED BY <2>1 DEF Request
<1>6. QED BY <1>1, <1>2, <1>3, <1>4, <1>5 DEF Next

LEMMA UntouchedStep == ASSUME TypeOK, Untouched, [Next]_vars PROVE Untouched'
<1>0. /\ current_batch.id \in Nat \ {0} /\ DOMAIN unbond_history = 1..(current_batch.id - 1)
      /\ actual_unbonded_amount = 0
      /\ \A b \in 1..(current_batch.id - 1) : ~unbond_history[b].released =>
           unbond_history[b].withdraw_rate = unbond_history[b].applied_exchange_rate
  BY DEF TypeOK, Untouched
<1>1. CASE ~UnbondStep /\ ~WithdrawStep
  <2>1. UNCHANGED <<batchVars, actual_unbonded_amount>>
    BY <1>1, OtherSteps, BalanceSteps
  <2>2. QED BY <2>1 DEF Untouched, batchVars
<1>2. ASSUME NEW u \in Users, NEW amount \in Nat, unbond_within_epoch(u, amount)
      PROVE  Untouched'
  <2>1. UNCHANGED <<unbond_history, actual_unbonded_amount>>
        /\ current_batch' = [current_batch EXCEPT !.requested_with_fee = requested_after(amount)]
    BY <1>2 DEF unbond_within_epoch, Request
  <2>2. current_batch'.id = current_batch.id
    BY <2>1 DEF TypeOK
  <2>3. QED BY <2>1, <2>2 DEF Untouched
<1>3. ASSUME NEW u \in Users, NEW amount \in Nat, unbond_closing_batch(u, amount)
      PROVE  Untouched'
  <2>1. PICK id \in Nat \ {0} : id = current_batch.id
    BY <1>0
  <2>2. /\ current_batch'.id = id + 1 /\ \A b \in 1..(id - 1) : unbond_history'[b] = unbond_history[b]
        /\ actual_unbonded_amount' = actual_unbonded_amount
    BY <1>3, <2>1, ClosingAdds DEF unbond_closing_batch, Request
  <2>3. unbond_history'[id].withdraw_rate = unbond_history'[id].applied_exchange_rate
    BY <1>3, <2>1 DEF unbond_closing_batch
  <2>4. \A b \in 1..((id + 1) - 1) : b = id \/ b \in 1..(id - 1)
    BY <2>1
  <2>5. QED BY <1>0, <2>1, <2>2, <2>3, <2>4 DEF Untouched
<1>4. ASSUME NEW u \in Users, execute_withdraw_unbonded(u) PROVE Untouched'
  <2>1. PICK k : Released(u, k)
    BY <1>4, WithdrawReleases
  <2>2. k \in last_processed_batch..(current_batch.id - 1)
        /\ unbond_history' = history_after(k) /\ current_batch' = current_batch
    BY <2>1 DEF Released
  <2>3. \A b \in 1..(current_batch.id - 1) :
          history_after(k)[b].released \/ history_after(k)[b] = unbond_history[b]
    BY <2>2, HistoryAfterIs
  <2>4. actual_unbonded_amount' = 0
    BY <1>4 DEF execute_withdraw_unbonded
  <2>5. QED BY <1>0, <2>2, <2>3, <2>4 DEF Untouched
<1>5. QED BY <1>1, <1>2, <1>3, <1>4, VaultAssumption
        DEF UnbondStep, execute_unbond, WithdrawStep

-----------------------------------------------------------------------------
\* What a user is owed for the released batches up to n, and in all.
OwedTo(list, hist, n, u) ==
  SumFunctionOnSet([b \in {c \in DOMAIN list[u] : c <= n} |->
                      mul(list[u][b], hist[b].withdraw_rate)],
                   {c \in DOMAIN list[u] : c <= n})
OwedOf(list, hist, n) ==
  SumFunctionOnSet([u \in Users |-> OwedTo(list, hist, n, u)], Users)

LEMMA OwedIs ==
  /\ Owed = OwedOf(unbond_wait_list, unbond_history, last_processed_batch)
  /\ Owed' = OwedOf(unbond_wait_list', unbond_history', last_processed_batch')
  BY DEF Owed, OwedOf, OwedTo, SumFunction

\* A wait list and a history of batches below id.
Listed(list, hist, id) ==
  /\ id \in Nat \ {0}
  /\ \A u \in Users : IsRequests(list[u], id)
  /\ hist \in [1..(id - 1) -> UnbondHistory]

\* What the users together claim of batch b.
Claim(list, hist, u, b) == mul(Share(list, u, b), hist[b].withdraw_rate)
Claims(list, hist, b) == SumFunctionOnSet([u \in Users |-> Claim(list, hist, u, b)], Users)
Debt(list, hist, n) == SumFunctionOnSet([b \in 1..n |-> Claims(list, hist, b)], 1..n)

LEMMA ClaimNat ==
  ASSUME NEW list, NEW hist, NEW id, Listed(list, hist, id),
         NEW u \in Users, NEW b \in 1..(id - 1)
  PROVE  Share(list, u, b) \in Nat /\ Claim(list, hist, u, b) \in Nat
         /\ hist[b].withdraw_rate \in Nat /\ hist[b].amount \in Nat
<1>1. Share(list, u, b) \in Nat
  BY DEF Listed, IsRequests, Share
<1>2. hist[b] \in UnbondHistory
  BY DEF Listed
<1>3. hist[b].withdraw_rate \in Nat /\ hist[b].amount \in Nat
  BY <1>2 DEF UnbondHistory
<1>4. QED BY <1>1, <1>3, MulNat DEF Claim

LEMMA ClaimsNat ==
  ASSUME NEW list, NEW hist, NEW id, Listed(list, hist, id), NEW b \in 1..(id - 1)
  PROVE  Claims(list, hist, b) \in Nat
<1>1. PICK f : f = [u \in Users |-> Claim(list, hist, u, b)]
  OBVIOUS
<1>2. \A u \in Users : f[u] \in Nat
  BY <1>1, ClaimNat
<1>3. SumFunctionOnSet(f, Users) \in Nat
  BY <1>2, VaultAssumption, SumNat
<1>4. QED BY <1>1, <1>3 DEF Claims

\* Summed by user or by batch, the same is owed.
LEMMA OwedByBatch ==
  ASSUME NEW list, NEW hist, NEW id, Listed(list, hist, id), NEW n \in 0..(id - 1)
  PROVE  OwedOf(list, hist, n) = Debt(list, hist, n) /\ Debt(list, hist, n) \in Nat
<1>1. IsFiniteSet(Users) /\ IsFiniteSet(1..n) /\ 1..n \subseteq 1..(id - 1) /\ n \in Nat
  <2>1. id \in Nat \ {0}
    BY DEF Listed
  <2>2. n \in Nat /\ 1..n \subseteq 1..(id - 1)
    BY <2>1
  <2>3. QED BY <2>2, VaultAssumption, FS_Interval
<1>2. PICK f : f = [u \in Users |-> [b \in 1..n |-> Claim(list, hist, u, b)]]
  OBVIOUS
<1>3. PICK g : g = [b \in 1..n |-> [u \in Users |-> Claim(list, hist, u, b)]]
  OBVIOUS
<1>4. PICK r : r = [u \in Users |-> OwedTo(list, hist, n, u)]
  OBVIOUS
<1>5. PICK c : c = [b \in 1..n |-> Claims(list, hist, b)]
  OBVIOUS
<1>6. ASSUME NEW u \in Users PROVE r[u] = SumFunctionOnSet(f[u], 1..n)
  <2>1. PICK S : S = {b \in DOMAIN list[u] : b <= n}
    OBVIOUS
  <2>2. PICK e : e = [b \in S |-> mul(list[u][b], hist[b].withdraw_rate)]
    OBVIOUS
  <2>3. IsRequests(list[u], id) /\ id \in Nat
    BY DEF Listed
  <2>4. S \in SUBSET (1..n)
    BY <1>1, <2>1, <2>3 DEF IsRequests
  <2>5. PICK h : h = f[u]
    OBVIOUS
  <2>6. \A b \in 1..n : h[b] = Claim(list, hist, u, b)
    BY <1>2, <2>5
  <2>7. \A b \in S : e[b] \in Nat /\ h[b] = e[b]
    <3>1. SUFFICES ASSUME NEW b \in S PROVE e[b] \in Nat /\ h[b] = e[b]
      OBVIOUS
    <3>2. b \in 1..n /\ b \in 1..(id - 1) /\ b \in DOMAIN list[u]
      BY <1>1, <2>1, <2>4
    <3>3. e[b] = Claim(list, hist, u, b)
      BY <2>2, <3>2 DEF Claim, Share
    <3>4. Claim(list, hist, u, b) \in Nat
      BY <3>2, ClaimNat
    <3>5. QED BY <2>6, <3>2, <3>3, <3>4
  <2>8. \A b \in (1..n) \ S : h[b] = 0
    <3>1. SUFFICES ASSUME NEW b \in (1..n) \ S PROVE h[b] = 0
      OBVIOUS
    <3>2. Share(list, u, b) = 0
      BY <1>1, <2>1 DEF Share
    <3>3. hist[b].withdraw_rate \in Nat
      BY <1>1, ClaimNat
    <3>4. mul(0, hist[b].withdraw_rate) = 0
      <4>1. 0 * hist[b].withdraw_rate = 0
        BY <3>3
      <4>2. PICK o \in Nat \ {0} : o = ONE
        BY OnePos
      <4>3. 0 \div o = 0
        OBVIOUS
      <4>4. QED BY <4>1, <4>2, <4>3 DEF mul
    <3>5. QED BY <2>6, <3>2, <3>4 DEF Claim
  <2>9. SumFunctionOnSet(h, 1..n) = SumFunctionOnSet(e, S)
    <3>1. PICK T : T = 1..n
      OBVIOUS
    <3>2. IsFiniteSet(T) /\ S \in SUBSET T /\ \A b \in T \ S : h[b] = 0
      BY <1>1, <2>4, <2>8, <3>1
    <3>3. SumFunctionOnSet(h, T) = SumFunctionOnSet(e, S)
      BY ONLY <2>7, <3>2, SumWithin, ZenonT(60)
    <3>4. QED BY <3>1, <3>3
  <2>10. r[u] = SumFunctionOnSet(e, S)
    BY <1>4, <2>1, <2>2 DEF OwedTo
  <2>11. QED BY <2>5, <2>9, <2>10
<1>7. Table(Users, 1..n, f, g, r, c)
  <2>1. ASSUME NEW u \in Users, NEW b \in 1..n PROVE f[u][b] \in Nat /\ g[b][u] = f[u][b]
    <3>1. f[u][b] = Claim(list, hist, u, b) /\ g[b][u] = Claim(list, hist, u, b)
      BY <1>2, <1>3
    <3>2. Claim(list, hist, u, b) \in Nat
      BY <1>1, ClaimNat
    <3>3. QED BY <3>1, <3>2
  <2>2. \A b \in 1..n : c[b] = SumFunctionOnSet(g[b], Users)
    BY <1>3, <1>5 DEF Claims
  <2>3. QED BY <1>6, <2>1, <2>2 DEF Table
<1>8. SumFunctionOnSet(r, Users) = SumFunctionOnSet(c, 1..n)
  BY <1>1, <1>7, SumSwap
<1>9. \A b \in 1..n : c[b] \in Nat
  BY <1>1, <1>5, ClaimsNat
<1>10. SumFunctionOnSet(c, 1..n) \in Nat
  BY <1>1, <1>9, SumNat
<1>11. QED BY <1>4, <1>5, <1>8, <1>10 DEF OwedOf, Debt

\* At the rate a release stores, a batch pays no more than it was given.
LEMMA BatchPaysWithin ==
  ASSUME NEW list, NEW hist, NEW id, Listed(list, hist, id), NEW b \in 1..(id - 1),
         NEW p \in Nat, NEW a \in Nat \ {0}, Shares(list, b) = a,
         hist[b].withdraw_rate = from_ratio(p, a)
  PROVE  Claims(list, hist, b) <= p
<1>1. PICK r \in Nat : r = from_ratio(p, a) /\ r * a <= p * ONE
  BY RatioNat, RatioRest
<1>2. PICK f, h, z : /\ f = [u \in Users |-> Share(list, u, b)]
                     /\ h = [u \in Users |-> Claim(list, hist, u, b)]
                     /\ z = [u \in Users |-> 0]
  OBVIOUS
<1>3. ONE \in Nat \ {0} /\ IsFiniteSet(Users)
  BY OnePos, VaultAssumption
<1>4. \A u \in Users : z[u] \in Nat /\ f[u] \in Nat /\ h[u] \in Nat /\ ONE * h[u] <= z[u] + r * f[u]
  <2>1. SUFFICES ASSUME NEW u \in Users
                 PROVE  z[u] \in Nat /\ f[u] \in Nat /\ h[u] \in Nat
                        /\ ONE * h[u] <= z[u] + r * f[u]
    OBVIOUS
  <2>2. PICK w \in Nat : w = Share(list, u, b)
    BY ClaimNat
  <2>3. PICK c \in Nat : c = mul(w, r) /\ ONE * c <= w * r
    BY MulNat, MulRest
  <2>4. z[u] = 0 /\ f[u] = w /\ h[u] = c
    BY <1>1, <1>2, <2>2, <2>3 DEF Claim
  <2>5. w * r = 0 + r * w
    OBVIOUS
  <2>6. QED BY <2>3, <2>4, <2>5
<1>5. ONE * SumFunctionOnSet(h, Users)
        <= SumFunctionOnSet(z, Users) + r * SumFunctionOnSet(f, Users)
  BY <1>3, <1>4, SumBound
<1>6. SumFunctionOnSet(z, Users) = 0
  <2>1. \A u \in Users : z[u] = 0
    BY <1>2
  <2>2. QED BY <1>3, <2>1, SumZero
<1>7. SumFunctionOnSet(f, Users) = a
  BY <1>2 DEF Shares
<1>8. PICK c \in Nat : c = SumFunctionOnSet(h, Users)
  BY <1>3, <1>4, SumNat
<1>9. ONE * c <= ONE * p
  BY <1>1, <1>3, <1>5, <1>6, <1>7, <1>8
<1>10. c <= p
  BY <1>3, <1>9, LeqByFactor
<1>11. QED BY <1>2, <1>8, <1>10 DEF Claims

\* P is what batches worth U, t in all, get when a surplus or a loss d is shared out.
SharesSurplus(S, U, P, t, d) ==
  \A b \in S : /\ U[b] \in Nat
               /\ mul(d, from_ratio(U[b], t)) >= 1
               /\ P[b] = U[b] + (mul(d, from_ratio(U[b], t)) - 1)
SharesLoss(S, U, P, t, d) ==
  \A b \in S : /\ U[b] \in Nat \ {0}
               /\ P[b] = distance(U[b], mul(d, from_ratio(U[b], t)) + 1)

\* A surplus d, shared out over batches worth t, adds at most d.
LEMMA SurplusShared ==
  ASSUME NEW S, IsFiniteSet(S), NEW U, NEW t \in Nat \ {0}, t = SumFunctionOnSet(U, S),
         NEW d \in Nat, NEW P, SharesSurplus(S, U, P, t, d)
  PROVE  SumFunctionOnSet(P, S) \in Nat /\ SumFunctionOnSet(P, S) <= t + d
<1> USE DEF SharesSurplus
<1>1. PICK o \in Nat \ {0} : o = ONE
  BY OnePos
<1>2. PICK e, z : e = [b \in S |-> P[b] - U[b]] /\ z = [b \in S |-> 0]
  OBVIOUS
<1>3. ASSUME NEW b \in S
      PROVE  /\ z[b] = 0 /\ e[b] \in Nat /\ P[b] \in Nat /\ P[b] = U[b] + e[b]
             /\ t * e[b] <= z[b] + d * U[b]
  <2>1. PICK w \in Nat : w = U[b]
    OBVIOUS
  <2>2. PICK q \in Nat : q = from_ratio(w, t) /\ q * t <= w * o
    BY <1>1, RatioNat, RatioRest
  <2>3. PICK s \in Nat : s = mul(d, q) /\ o * s <= d * q
    BY <1>1, MulNat, MulRest
  <2>4. s >= 1 /\ P[b] = w + (s - 1)
    BY <2>1, <2>2, <2>3
  <2>5. PICK x \in Nat : x = s - 1
    BY <2>4
  <2>6. z[b] = 0 /\ P[b] = w + x /\ e[b] = x
    BY <1>2, <2>1, <2>4, <2>5
  <2>7. o * (t * x) <= o * (d * w)
    <3>1. o * x <= d * q
      <4>1. o * x <= o * s
        BY <2>5
      <4>2. QED BY <2>3, <4>1
    <3>2. t * (o * x) <= t * (d * q)
      BY <3>1
    <3>3. d * (q * t) <= d * (w * o)
      BY <2>2
    <3>4. t * (o * x) = o * (t * x) /\ t * (d * q) = d * (q * t) /\ d * (w * o) = o * (d * w)
      OBVIOUS
    <3>5. QED BY <3>2, <3>3, <3>4
  <2>8. t * x <= d * w
    BY <2>7, LeqByFactor
  <2>9. QED BY <2>1, <2>6, <2>8
<1>4. t * SumFunctionOnSet(e, S) <= SumFunctionOnSet(z, S) + d * SumFunctionOnSet(U, S)
  <2>1. \A b \in S : z[b] \in Nat /\ U[b] \in Nat /\ e[b] \in Nat /\ t * e[b] <= z[b] + d * U[b]
    BY <1>3
  <2>2. QED BY <2>1, SumBound
<1>5. SumFunctionOnSet(z, S) = 0
  BY <1>3, SumZero
<1>6. SumFunctionOnSet(P, S) = SumFunctionOnSet(U, S) + SumFunctionOnSet(e, S)
  <2>1. \A b \in S : U[b] \in Nat /\ e[b] \in Nat /\ P[b] = U[b] + e[b]
    BY <1>3
  <2>2. QED BY <2>1, SumAdd
<1>7. PICK x \in Nat : x = SumFunctionOnSet(e, S)
  BY <1>3, SumNat
<1>8. t * x <= t * d
  BY <1>4, <1>5, <1>7
<1>9. x <= d
  BY <1>8, LeqByFactor
<1>10. QED BY <1>6, <1>7, <1>9

\* A loss d, shared out with a unit over over batches worth t, takes at least d.
LEMMA LossShared ==
  ASSUME NEW S, IsFiniteSet(S), S # {}, NEW U, NEW t \in Nat \ {0},
         t = SumFunctionOnSet(U, S), NEW d \in Nat \ {0}, d < t,
         NEW n \in Nat, n = Cardinality(S), n * d <= ONE,
         NEW P, SharesLoss(S, U, P, t, d)
  PROVE  SumFunctionOnSet(P, S) \in Nat /\ SumFunctionOnSet(P, S) + d <= t
<1> USE DEF SharesLoss
<1>1. PICK o \in Nat \ {0} : o = ONE
  BY OnePos
<1>2. PICK e : e = [b \in S |-> U[b] - P[b]]
  OBVIOUS
<1>3. PICK m \in Nat : m = d * t - 1
  <2>1. d * t \in Nat /\ d * t >= 1
    OBVIOUS
  <2>2. QED BY <2>1
<1>4. PICK c : c = [b \in S |-> m]
  OBVIOUS
<1>5. PICK f \in Nat, g \in Nat : f = d * o /\ g = t * o
  <2>1. d * o \in Nat /\ t * o \in Nat
    OBVIOUS
  <2>2. QED BY <2>1, Zenon
<1>6. ASSUME NEW b \in S
      PROVE  /\ c[b] = m /\ e[b] \in Nat /\ P[b] \in Nat /\ U[b] = P[b] + e[b]
             /\ f * U[b] <= c[b] + g * e[b]
  <2>1. PICK w \in Nat \ {0} : w = U[b]
    OBVIOUS
  <2>2. PICK q \in Nat : q = from_ratio(w, t)
    BY RatioNat
  <2>3. w * o < q * t + t
    <3>1. PICK p \in Nat : p = w * o
      OBVIOUS
    <3>2. p < (p \div t) * t + t
      BY DivFacts
    <3>3. q = p \div t
      BY <1>1, <2>2, <3>1 DEF from_ratio
    <3>4. QED BY <3>1, <3>2, <3>3
  <2>4. PICK s \in Nat : s = mul(d, q) /\ d * q < o * s + o
    BY <1>1, MulNat, MulRest
  <2>5. s < w
    BY <2>2, <2>4, ShareBelow
  <2>6. P[b] = distance(w, s + 1)
    BY <2>1, <2>2, <2>4
  <2>7. PICK y \in Nat : w = y + s + 1
    BY <2>5
  <2>8. distance(w, s + 1) = y
    BY <2>7 DEF distance
  <2>9. c[b] = m /\ P[b] = y /\ e[b] = s + 1
    <3>1. c[b] = m /\ P[b] = y /\ e[b] = w - y
      BY <1>2, <1>4, <2>1, <2>6, <2>8
    <3>2. w - y = s + 1
      BY <2>7
    <3>3. QED BY <3>1, <3>2
  <2>10. f * w <= m + g * (s + 1)
    <3>1. PICK p \in Nat : p = q * t
      OBVIOUS
    <3>2. w * o + 1 <= p + t
      BY <2>3, <3>1
    <3>3. d * (w * o + 1) <= d * (p + t)
      BY <3>2
    <3>4. d * (w * o + 1) = f * w + d /\ d * (p + t) = d * p + d * t
      BY <1>5
    <3>5. PICK x \in Nat : x = d * q /\ x + 1 <= o * s + o
      BY <2>4
    <3>6. t * (x + 1) <= t * (o * s + o)
      BY <3>5
    <3>7. t * (x + 1) = d * p + t /\ t * (o * s + o) = g * (s + 1)
      BY <1>5, <3>1, <3>5
    <3>8. f * w + d + t <= d * t + g * (s + 1)
      BY <3>3, <3>4, <3>6, <3>7
    <3>9. QED BY <1>3, <3>8
  <2>11. QED BY <2>1, <2>7, <2>9, <2>10
<1>7. f * SumFunctionOnSet(U, S) <= SumFunctionOnSet(c, S) + g * SumFunctionOnSet(e, S)
  <2>1. \A b \in S : c[b] \in Nat /\ e[b] \in Nat /\ U[b] \in Nat
                     /\ f * U[b] <= c[b] + g * e[b]
    BY <1>6
  <2>2. QED BY <2>1, SumBound
<1>8. SumFunctionOnSet(c, S) = m * n
  BY <1>6, SumConstant
<1>9. SumFunctionOnSet(U, S) = SumFunctionOnSet(P, S) + SumFunctionOnSet(e, S)
  <2>1. \A b \in S : P[b] \in Nat /\ e[b] \in Nat /\ U[b] = P[b] + e[b]
    BY <1>6
  <2>2. QED BY <2>1, SumAdd
<1>10. PICK x \in Nat, y \in Nat : x = SumFunctionOnSet(e, S) /\ y = SumFunctionOnSet(P, S)
  BY <1>6, SumNat
<1>11. n >= 1
  BY FS_EmptySet, FS_CardinalityType
<1>12. d <= x
  <2>1. SUFFICES ASSUME x + 1 <= d PROVE FALSE
    OBVIOUS
  <2>2. f * t <= m * n + g * x
    BY <1>7, <1>8, <1>10
  <2>3. m * n + n = t * (n * d)
    BY <1>3
  <2>4. t * (n * d) <= t * o
    BY <1>1
  <2>5. g * (x + 1) <= g * d /\ g * (x + 1) = g * x + g /\ g * d = f * t
    BY <1>5, <2>1
  <2>6. QED BY <1>5, <1>11, <2>2, <2>3, <2>4, <2>5
<1>13. QED BY <1>9, <1>10, <1>12

\* What a release gives its batches is within the Luna that has arrived.
LEMMA ReleaseFits ==
  ASSUME TypeOK, Untouched, NEW k \in last_processed_batch..(current_batch.id - 1),
         k # last_processed_batch, ReleaseSucceeds(k), luna > prev_vault_balance,
         (k - last_processed_batch) * slashed_amount(k) <= ONE,
         NEW S, S = (last_processed_batch + 1)..k, \A b \in S : unbonded_amount(b) > 0,
         NEW P, P = [b \in S |-> actual_unbonded_amount_of_batch(k, b)]
  PROVE  SumFunctionOnSet(P, S) \in Nat /\ SumFunctionOnSet(P, S) <= luna - prev_vault_balance
<1>1. /\ last_processed_batch \in Nat /\ k \in Nat /\ k > last_processed_batch
      /\ current_batch.id \in Nat /\ DOMAIN unbond_history = 1..(current_batch.id - 1)
      /\ S \subseteq DOMAIN unbond_history
  <2>1. last_processed_batch \in Nat /\ current_batch.id \in Nat
        /\ DOMAIN unbond_history = 1..(current_batch.id - 1)
    BY DEF TypeOK
  <2>2. QED BY <2>1
<1>2. IsFiniteSet(S) /\ S # {} /\ Cardinality(S) = k - last_processed_batch
  <2>1. PICK i \in Int : i = last_processed_batch + 1
    BY <1>1
  <2>2. IsFiniteSet(S) /\ Cardinality(S) = IF i > k THEN 0 ELSE k - i + 1
    BY <1>1, <2>1, FS_Interval
  <2>3. k \in S
    BY <1>1
  <2>4. k - i + 1 = k - last_processed_batch /\ ~ (i > k)
    BY <1>1, <2>1
  <2>5. QED BY <2>2, <2>3, <2>4
<1>3. PICK U : U = [b \in S |-> unbonded_amount(b)]
  OBVIOUS
<1>4. \A b \in S : U[b] = unbonded_amount(b) /\ U[b] \in Nat \ {0}
  <2>1. SUFFICES ASSUME NEW b \in S
                 PROVE  U[b] = unbonded_amount(b) /\ U[b] \in Nat \ {0}
    OBVIOUS
  <2>2. unbonded_amount(b) \in Nat /\ unbonded_amount(b) > 0
    BY <1>1, UnbondedNat
  <2>3. U[b] = unbonded_amount(b)
    BY <1>3
  <2>4. QED BY <2>2, <2>3
<1>5. PICK t \in Nat \ {0} : t = total_unbonded_amount(k) /\ t = SumFunctionOnSet(U, S)
  <2>1. total_unbonded_amount(k) \in Nat
    BY TotalUnbondedNat
  <2>2. k \in S
    BY <1>1
  <2>3. total_unbonded_amount(k) > 0
    BY <2>2 DEF ReleaseSucceeds
  <2>4. total_unbonded_amount(k) = SumFunctionOnSet(U, S)
    BY <1>3 DEF total_unbonded_amount, SumFunction
  <2>5. QED BY <2>1, <2>3, <2>4
<1>6. PICK new \in Nat \ {0} : new = NewlyUnbonded /\ new = luna - prev_vault_balance
  <2>1. luna \in Nat /\ prev_vault_balance \in Nat /\ actual_unbonded_amount = 0
    BY DEF TypeOK, Untouched
  <2>2. QED BY <2>1 DEF NewlyUnbonded, distance
<1>7. PICK d \in Nat : d = slashed_amount(k) /\ d = distance(t, new)
  BY <1>5, <1>6, DistanceNat DEF slashed_amount
<1>8. \A b \in S : P[b] = actual_unbonded_amount_of_batch(k, b)
                   /\ slashed_amount_of_batch(k, b) = mul(d, from_ratio(U[b], t))
  BY <1>4, <1>5, <1>7 DEF slashed_amount_of_batch
<1>9. Surplus(k) <=> t < new
  BY <1>5, <1>6 DEF Surplus
<1>10. CASE t < new
  <2>1. \A b \in S : /\ mul(d, from_ratio(U[b], t)) >= 1
                     /\ P[b] = U[b] + (mul(d, from_ratio(U[b], t)) - 1)
    <3>1. SUFFICES ASSUME NEW b \in S
                   PROVE  /\ mul(d, from_ratio(U[b], t)) >= 1
                          /\ P[b] = U[b] + (mul(d, from_ratio(U[b], t)) - 1)
      OBVIOUS
    <3>2. slashed_amount_of_batch(k, b) >= 1
      BY <1>9, <1>10 DEF ReleaseSucceeds
    <3>3. P[b] = unbonded_amount(b) + (slashed_amount_of_batch(k, b) - 1)
      BY <1>8, <1>9, <1>10 DEF actual_unbonded_amount_of_batch
    <3>4. QED BY <1>4, <1>8, <3>2, <3>3
  <2>2. SharesSurplus(S, U, P, t, d)
    BY <1>4, <2>1 DEF SharesSurplus
  <2>3. SumFunctionOnSet(P, S) \in Nat /\ SumFunctionOnSet(P, S) <= t + d
    BY <1>2, <1>5, <2>2, SurplusShared
  <2>4. t + d = new
    BY <1>7, <1>10 DEF distance
  <2>5. QED BY <1>6, <2>3, <2>4
<1>11. CASE t = new
  <2>1. d = 0
    BY <1>7, <1>11 DEF distance
  <2>2. \A b \in S : U[b] \in Nat /\ P[b] = U[b]
    <3>1. SUFFICES ASSUME NEW b \in S PROVE U[b] \in Nat /\ P[b] = U[b]
      OBVIOUS
    <3>2. PICK w \in Nat : w = U[b] /\ w = unbonded_amount(b)
      BY <1>4
    <3>3. mul(0, from_ratio(w, t)) = 0
      <4>1. PICK q \in Nat : q = from_ratio(w, t)
        BY RatioNat
      <4>2. PICK o \in Nat \ {0} : o = ONE
        BY OnePos
      <4>3. 0 * q = 0 /\ 0 \div o = 0
        OBVIOUS
      <4>4. QED BY <4>1, <4>2, <4>3 DEF mul
    <3>4. slashed_amount_of_batch(k, b) = 0
      BY <1>8, <2>1, <3>2, <3>3
    <3>5. P[b] = distance(w, 0 + 0)
      BY <1>7, <1>8, <1>9, <1>11, <2>1, <3>2, <3>4 DEF actual_unbonded_amount_of_batch
    <3>6. QED BY <3>2, <3>5 DEF distance
  <2>3. SumFunctionOnSet(P, S) = SumFunctionOnSet(U, S)
    BY <1>2, <2>2, SumEqual
  <2>4. QED BY <1>5, <1>6, <1>11, <2>3
<1>12. CASE t > new
  <2>1. d \in Nat \ {0} /\ d < t /\ t - d = new
    BY <1>6, <1>7, <1>12 DEF distance
  <2>2. PICK n \in Nat : n = Cardinality(S) /\ n * d <= ONE
    BY <1>1, <1>2, <1>7
  <2>3. \A b \in S : P[b] = distance(U[b], mul(d, from_ratio(U[b], t)) + 1)
    <3>1. SUFFICES ASSUME NEW b \in S
                   PROVE  P[b] = distance(U[b], mul(d, from_ratio(U[b], t)) + 1)
      OBVIOUS
    <3>2. ~Surplus(k) /\ slashed_amount(k) # 0
      BY <1>7, <1>9, <1>12, <2>1
    <3>3. P[b] = distance(unbonded_amount(b), slashed_amount_of_batch(k, b) + 1)
      BY <1>8, <3>2 DEF actual_unbonded_amount_of_batch
    <3>4. QED BY <1>4, <1>8, <3>3
  <2>4. SharesLoss(S, U, P, t, d)
    BY <1>4, <2>3 DEF SharesLoss
  <2>5. SumFunctionOnSet(P, S) \in Nat /\ SumFunctionOnSet(P, S) + d <= t
    BY <1>2, <1>5, <2>1, <2>2, <2>4, LossShared
  <2>6. QED BY <1>6, <2>1, <2>5
<1>13. QED BY <1>10, <1>11, <1>12

\* The wait list and the history are well formed before and after a release.
LEMMA ListedAfter ==
  ASSUME TypeOK, NEW k \in last_processed_batch..(current_batch.id - 1), ReleaseSucceeds(k)
  PROVE  /\ Listed(unbond_wait_list, unbond_history, current_batch.id)
         /\ Listed(unbond_wait_list, history_after(k), current_batch.id)
<1>1. /\ current_batch.id \in Nat \ {0}
      /\ \A u \in Users : IsRequests(unbond_wait_list[u], current_batch.id)
      /\ unbond_history \in [1..(current_batch.id - 1) -> UnbondHistory]
  BY DEF TypeOK
<1>2. history_after(k) \in [1..(current_batch.id - 1) -> UnbondHistory]
  BY HistoryAfter
<1>3. QED BY <1>1, <1>2 DEF Listed

\* Once the batches up to k are released, the vault's Luna covers all that is owed.
LEMMA ReleaseCovers ==
  ASSUME TypeOK, ReleaseOrder, BatchLedger, Untouched, Solvent,
         NEW k \in last_processed_batch..(current_batch.id - 1), ReleaseSucceeds(k),
         k # last_processed_batch =>
           /\ luna > prev_vault_balance
           /\ (k - last_processed_batch) * slashed_amount(k) <= ONE,
         \A b \in 1..k : UndelegatedFor(b) > 0
  PROVE  OwedOf(unbond_wait_list, history_after(k), k) \in Nat
         /\ OwedOf(unbond_wait_list, history_after(k), k) <= luna
<1> DEFINE wl == unbond_wait_list
           hist == unbond_history
           h2 == history_after(k)
           last == last_processed_batch
           id == current_batch.id
           S == (last + 1)..k
           c1 == [b \in 1..last |-> Claims(wl, hist, b)]
           c2 == [b \in 1..k |-> Claims(wl, h2, b)]
           P == [b \in S |-> actual_unbonded_amount_of_batch(k, b)]
<1>1. /\ last \in Nat /\ k \in Nat /\ last <= k /\ id \in Nat \ {0} /\ k < id
      /\ last \in 0..(id - 1) /\ k \in 0..(id - 1) /\ luna \in Nat /\ prev_vault_balance \in Nat
      /\ DOMAIN hist = 1..(id - 1)
  <2>1. last \in Nat /\ id \in Nat \ {0} /\ luna \in Nat /\ prev_vault_balance \in Nat
        /\ DOMAIN hist = 1..(id - 1)
    BY DEF TypeOK
  <2>2. QED BY <2>1
<1>2. Listed(wl, hist, id) /\ Listed(wl, h2, id)
  BY ListedAfter
<1>3. OwedOf(wl, h2, k) = SumFunctionOnSet(c2, 1..k) /\ OwedOf(wl, h2, k) \in Nat
  BY <1>1, <1>2, OwedByBatch DEF Debt
<1>4. SumFunctionOnSet(c1, 1..last) <= prev_vault_balance
      /\ SumFunctionOnSet(c1, 1..last) \in Nat /\ prev_vault_balance <= luna
  <2>1. \A b \in 1..last : UndelegatedFor(b) > 0
    BY <1>1
  <2>2. Owed <= prev_vault_balance /\ prev_vault_balance <= luna
    BY <2>1 DEF Solvent
  <2>3. Owed = Debt(wl, hist, last) /\ Debt(wl, hist, last) \in Nat
    BY <1>1, <1>2, OwedIs, OwedByBatch
  <2>4. QED BY <2>2, <2>3 DEF Debt
<1>5. \A b \in 1..k : c2[b] \in Nat
  <2>1. \A b \in 1..k : b \in 1..(id - 1)
    BY <1>1
  <2>2. QED BY <1>2, <2>1, ClaimsNat
<1>6. \A b \in 1..last : c1[b] \in Nat /\ c2[b] = c1[b]
  <2>1. SUFFICES ASSUME NEW b \in 1..last PROVE c1[b] \in Nat /\ c2[b] = c1[b]
    OBVIOUS
  <2>2. b \in 1..k /\ b \in 1..(id - 1) /\ b \notin S
    BY <1>1
  <2>3. h2[b] = hist[b]
    BY <2>2, HistoryAfterIs
  <2>4. Claims(wl, h2, b) = Claims(wl, hist, b)
    BY <2>3 DEF Claims, Claim
  <2>5. c1[b] = Claims(wl, hist, b) /\ c2[b] = Claims(wl, h2, b)
    BY <2>2
  <2>6. Claims(wl, hist, b) \in Nat
    BY <1>2, <2>2, ClaimsNat
  <2>7. QED BY <2>4, <2>5, <2>6
<1>7. \A b \in S : /\ b \in 1..k /\ P[b] \in Nat /\ c2[b] \in Nat /\ c2[b] <= P[b]
                   /\ unbonded_amount(b) > 0
  <2>1. SUFFICES ASSUME NEW b \in S
                 PROVE  /\ b \in 1..k /\ P[b] \in Nat /\ c2[b] \in Nat /\ c2[b] <= P[b]
                        /\ unbonded_amount(b) > 0
    OBVIOUS
  <2>2. b \in 1..k /\ b \in 1..(id - 1) /\ ~ (b <= last)
    BY <1>1
  <2>3. PICK p : p = actual_unbonded_amount_of_batch(k, b)
    OBVIOUS
  <2>4. PICK a \in Nat \ {0} : a = hist[b].amount
    <3>1. hist[b].amount \in Nat
      BY <1>2, <2>2, ClaimNat DEF TypeOK, UnbondHistory
    <3>2. hist[b].amount > 0
      BY DEF ReleaseSucceeds
    <3>3. QED BY <3>1, <3>2
  <2>5. p \in Nat
    BY <2>3, ActualNat
  <2>6. Shares(wl, b) = a
    BY <2>2, <2>4, WaitingIs DEF BatchLedger
  <2>7. h2[b].withdraw_rate = from_ratio(p, a)
    <3>1. h2[b] = [hist[b] EXCEPT !.withdraw_rate = from_ratio(p, a), !.released = TRUE]
      BY <1>1, <2>2, <2>3, <2>4 DEF history_after
    <3>2. hist[b] \in UnbondHistory
      BY <2>2 DEF TypeOK
    <3>3. QED BY <3>1, <3>2 DEF UnbondHistory
  <2>8. Claims(wl, h2, b) <= p
    BY <1>2, <2>2, <2>4, <2>5, <2>6, <2>7, BatchPaysWithin
  <2>9. ~hist[b].released
    BY <2>2 DEF ReleaseOrder
  <2>10. unbonded_amount(b) > 0
    <3>1. hist[b].withdraw_rate = hist[b].applied_exchange_rate
      BY <2>2, <2>9 DEF Untouched
    <3>2. UndelegatedFor(b) > 0
      BY <2>2
    <3>3. QED BY <3>1, <3>2 DEF UndelegatedFor, unbonded_amount
  <2>11. P[b] = p /\ c2[b] = Claims(wl, h2, b)
    BY <2>2, <2>3
  <2>12. QED BY <1>5, <2>2, <2>5, <2>8, <2>10, <2>11
<1>8. IsFiniteSet(1..k) /\ IsFiniteSet(1..last) /\ IsFiniteSet(S)
      /\ 1..last \subseteq 1..k /\ (1..k) \ (1..last) = S
  <2>1. 1..last \subseteq 1..k /\ (1..k) \ (1..last) = S /\ S \subseteq 1..k
    BY <1>1
  <2>2. IsFiniteSet(1..k)
    BY <1>1, FS_Interval
  <2>3. QED BY <2>1, <2>2, FS_Subset
<1>9. P = [b \in S |-> actual_unbonded_amount_of_batch(k, b)] /\ S = (last_processed_batch + 1)..k
  OBVIOUS
<1> HIDE DEF c1, c2, S, P
<1>10. SumFunctionOnSet(c2, 1..k) = SumFunctionOnSet(c2, 1..last) + SumFunctionOnSet(c2, S)
  BY <1>5, <1>8, SumSplit
<1>11. SumFunctionOnSet(c2, 1..last) = SumFunctionOnSet(c1, 1..last)
  BY <1>6, <1>8, SumEqual
<1>12. CASE k = last
  <2>1. S = {}
    BY <1>1, <1>12 DEF S
  <2>2. SumFunctionOnSet(c2, S) = 0
    BY <2>1, SumPick, FS_EmptySet
  <2>3. QED BY <1>1, <1>3, <1>4, <1>10, <1>11, <2>2
<1>13. CASE k # last
  <2>1. PICK paid \in Nat : paid = SumFunctionOnSet(P, S) /\ paid <= luna - prev_vault_balance
    <3>1. \A b \in S : unbonded_amount(b) > 0
      BY <1>7
    <3>2. luna > prev_vault_balance
          /\ (k - last_processed_batch) * slashed_amount(k) <= ONE
      BY <1>13
    <3>3. QED BY <1>9, <1>13, <3>1, <3>2, ReleaseFits
  <2>2. SumFunctionOnSet(c2, S) \in Nat /\ SumFunctionOnSet(c2, S) <= paid
    <3>1. \A b \in S : P[b] \in Nat /\ P[b] \in Nat /\ c2[b] \in Nat
                       /\ 1 * c2[b] <= P[b] + 0 * P[b]
      BY <1>7
    <3>2. 1 * SumFunctionOnSet(c2, S) <= SumFunctionOnSet(P, S) + 0 * SumFunctionOnSet(P, S)
      BY <1>8, <3>1, SumBound
    <3>3. SumFunctionOnSet(c2, S) \in Nat
      BY <1>7, <1>8, SumNat
    <3>4. QED BY <2>1, <3>2, <3>3
  <2>3. QED BY <1>1, <1>3, <1>4, <1>10, <1>11, <2>1, <2>2
<1>14. QED BY <1>12, <1>13

\* What a user is owed is a natural.
LEMMA OwedToNat ==
  ASSUME NEW list, NEW hist, NEW id, Listed(list, hist, id), NEW n \in 0..(id - 1),
         NEW u \in Users
  PROVE  OwedTo(list, hist, n, u) \in Nat
<1> DEFINE X == {c \in DOMAIN list[u] : c <= n}
           f == [b \in X |-> mul(list[u][b], hist[b].withdraw_rate)]
<1>1. id \in Nat \ {0} /\ IsRequests(list[u], id)
  BY DEF Listed
<1>2. IsFiniteSet(X)
  <2>1. X \subseteq 1..id
    BY <1>1 DEF IsRequests
  <2>2. IsFiniteSet(1..id)
    BY <1>1, FS_Interval
  <2>3. QED BY <2>1, <2>2, FS_Subset
<1>3. \A b \in X : f[b] \in Nat
  <2>1. SUFFICES ASSUME NEW b \in X PROVE f[b] \in Nat
    OBVIOUS
  <2>2. b \in DOMAIN list[u] /\ b \in 1..(id - 1) /\ list[u][b] \in Nat
    BY <1>1 DEF IsRequests
  <2>3. hist[b].withdraw_rate \in Nat
    BY <2>2, ClaimNat
  <2>4. QED BY <2>2, <2>3, MulNat
<1>4. OwedTo(list, hist, n, u) = SumFunctionOnSet(f, X)
  BY DEF OwedTo
<1> HIDE DEF X, f
<1>5. QED BY <1>2, <1>3, <1>4, SumNat

\* A withdrawal commits only when its release takes no error path.
LEMMA WithdrawSucceeds ==
  ASSUME TypeOK, NEW u \in Users, execute_withdraw_unbonded(u)
  PROVE  \E k : Released(u, k) /\ ReleaseSucceeds(k)
                /\ k \in last_processed_batch..(current_batch.id - 1)
<1>1. PICK j : Released(u, j)
  BY WithdrawReleases
<1>2. PICK k \in last_processed_batch..(current_batch.id - 1) :
        ReleaseSucceeds(k) /\ last_processed_batch' = k
  BY DEF execute_withdraw_unbonded
<1>3. j = k
  BY <1>1, <1>2 DEF Released
<1>4. QED BY <1>1, <1>2, <1>3

\* A release leaves the amounts and the rates batches were closed with.
LEMMA AppliedRateKept ==
  ASSUME TypeOK, NEW k \in last_processed_batch..(current_batch.id - 1),
         NEW b \in 1..(current_batch.id - 1)
  PROVE  /\ history_after(k)[b].amount = unbond_history[b].amount
         /\ history_after(k)[b].applied_exchange_rate = unbond_history[b].applied_exchange_rate
<1>1. DOMAIN unbond_history = 1..(current_batch.id - 1) /\ unbond_history[b] \in UnbondHistory
  BY DEF TypeOK
<1>2. PICK r : b \in (last_processed_batch + 1)..k =>
        history_after(k)[b] = [unbond_history[b] EXCEPT !.withdraw_rate = r, !.released = TRUE]
  BY <1>1 DEF history_after
<1>3. b \notin (last_processed_batch + 1)..k => history_after(k)[b] = unbond_history[b]
  BY <1>1 DEF history_after
<1>4. QED BY <1>1, <1>2, <1>3 DEF UnbondHistory

\* A withdrawal takes what it pays off what is owed.
LEMMA WithdrawOwes ==
  ASSUME TypeOK, ReleaseOrder', NEW u \in Users, NEW k, Released(u, k), ReleaseSucceeds(k)
  PROVE  OwedOf(unbond_wait_list', history_after(k), k)
           = OwedOf(unbond_wait_list, history_after(k), k) - (luna - luna')
<1> DEFINE wl == unbond_wait_list
           h2 == history_after(k)
           id == current_batch.id
           B == get_unbond_batches(wl[u], h2)
           X == {c \in DOMAIN wl[u] : c <= k}
           f == [b \in X |-> mul(wl[u][b], h2[b].withdraw_rate)]
           e == [b \in X \ B |-> mul(wl'[u][b], h2[b].withdraw_rate)]
           p == [b \in B |-> mul(wl[u][b], h2[b].withdraw_rate)]
<1>1. id \in Nat \ {0} /\ DOMAIN wl = Users /\ \A w \in Users : IsRequests(wl[w], id)
  BY DEF TypeOK
<1>2. wl'[u] = remove_unbond_wait_list(wl[u], B)
      /\ \A w \in Users \ {u} : wl'[w] = wl[w]
  BY <1>1 DEF Released
<1>3. k \in last_processed_batch..(id - 1) /\ last_processed_batch \in Nat /\ k \in Nat
      /\ k \in 0..(id - 1)
  <2>1. k \in last_processed_batch..(id - 1) /\ last_processed_batch \in Nat
    BY DEF Released, TypeOK
  <2>2. QED BY <1>1, <2>1
<1>4. Listed(wl, h2, id)
  BY <1>3, ListedAfter
<1>5. B \subseteq X
  <2>1. DOMAIN h2 = 1..(id - 1)
    BY <1>3, HistoryAfterIs
  <2>2. \A b \in B : b \in 1..(id - 1) /\ h2[b].released /\ b \in DOMAIN wl[u]
    BY <2>1 DEF get_unbond_batches
  <2>3. last_processed_batch' = k /\ unbond_history' = h2 /\ current_batch' = current_batch
    BY DEF Released
  <2>4. \A b \in B : b <= k
    BY <2>2, <2>3 DEF ReleaseOrder
  <2>5. QED BY <2>2, <2>4
<1>6. luna - luna' = SumFunctionOnSet(p, B)
  <2>1. luna - luna' = get_finished_amount(wl[u], h2)
    BY DEF Released
  <2>2. QED BY <2>1 DEF get_finished_amount, SumFunction
<1>7. IsFiniteSet(X)
  <2>1. X \subseteq 1..id
    BY <1>1 DEF IsRequests
  <2>2. IsFiniteSet(1..id)
    BY <1>1, FS_Interval
  <2>3. QED BY <2>1, <2>2, FS_Subset
<1>8. \A b \in X : f[b] \in Nat
  <2>1. SUFFICES ASSUME NEW b \in X PROVE f[b] \in Nat
    OBVIOUS
  <2>2. b \in DOMAIN wl[u] /\ b \in 1..(id - 1)
    BY <1>1, <1>3 DEF IsRequests
  <2>3. wl[u][b] \in Nat
    BY <1>1, <2>2 DEF IsRequests
  <2>4. h2[b].withdraw_rate \in Nat
    BY <1>4, <2>2, ClaimNat
  <2>5. QED BY <2>3, <2>4, MulNat
<1>9. DOMAIN wl'[u] = DOMAIN wl[u] \ B /\ \A b \in X \ B : wl'[u][b] = wl[u][b]
  BY <1>2 DEF remove_unbond_wait_list, Restrict
<1>10. {c \in DOMAIN wl'[u] : c <= k} = X \ B
  BY <1>9
<1>11. OwedTo(wl, h2, k, u) = SumFunctionOnSet(f, X)
  BY DEF OwedTo
<1>12. OwedTo(wl', h2, k, u) = SumFunctionOnSet(e, X \ B)
  <2>1. e = [b \in {c \in DOMAIN wl'[u] : c <= k} |-> mul(wl'[u][b], h2[b].withdraw_rate)]
    BY <1>10
  <2>2. QED BY <1>10, <2>1 DEF OwedTo
<1>13. \A b \in X \ B : e[b] = f[b]
  BY <1>9
<1>14. \A b \in B : f[b] \in Nat /\ p[b] = f[b]
  BY <1>5, <1>8
<1>15. \A w \in Users \ {u} : OwedTo(wl', h2, k, w) = OwedTo(wl, h2, k, w)
  BY <1>2 DEF OwedTo
<1> HIDE DEF X, B, f, e, p
<1>16. SumFunctionOnSet(e, X \ B) = SumFunctionOnSet(f, X) - SumFunctionOnSet(f, B)
  BY <1>5, <1>7, <1>8, <1>13, SumDrop
<1>17. SumFunctionOnSet(p, B) = SumFunctionOnSet(f, B)
  <2>1. IsFiniteSet(B)
    BY <1>5, <1>7, FS_Subset
  <2>2. QED BY <1>14, <2>1, SumEqual
<1>18. PICK g, h : /\ g = [w \in Users |-> OwedTo(wl, h2, k, w)]
                   /\ h = [w \in Users |-> OwedTo(wl', h2, k, w)]
  OBVIOUS
<1>19. Listed(wl', h2, id)
  <2>1. IsRequests(wl'[u], id)
    BY <1>1, <1>2, RemoveRequests
  <2>2. \A w \in Users : IsRequests(wl'[w], id)
    BY <1>1, <1>2, <2>1
  <2>3. QED BY <1>4, <2>2 DEF Listed
<1>20. \A w \in Users : g[w] \in Nat /\ h[w] \in Nat
  BY <1>3, <1>4, <1>18, <1>19, OwedToNat
<1>21. \A w \in Users \ {u} : h[w] = g[w]
  BY <1>15, <1>18
<1>22. SumFunctionOnSet(h, Users) = SumFunctionOnSet(g, Users) - g[u] + h[u]
  BY <1>20, <1>21, VaultAssumption, SumUpdate
<1>23. g[u] = SumFunctionOnSet(f, X) /\ h[u] = SumFunctionOnSet(e, X \ B)
  BY <1>11, <1>12, <1>18
<1>24. SumFunctionOnSet(g, Users) \in Nat
  BY <1>20, VaultAssumption, SumNat
<1>25. luna - luna' \in Int
  <2>1. SumFunctionOnSet(p, B) \in Nat
    <3>1. IsFiniteSet(B)
      BY <1>5, <1>7, FS_Subset
    <3>2. QED BY <1>14, <3>1, SumNat
  <2>2. QED BY <1>6, <2>1
<1>26. SumFunctionOnSet(h, Users) = SumFunctionOnSet(g, Users) - (luna - luna')
  <2>1. PICK x \in Nat, y \in Nat, s \in Nat : /\ x = g[u] /\ y = h[u]
                                              /\ s = SumFunctionOnSet(g, Users)
    BY <1>20, <1>24
  <2>2. PICK i \in Int : i = luna - luna'
    BY <1>25
  <2>3. y = x - i
    BY <1>6, <1>16, <1>17, <1>23, <2>1, <2>2
  <2>4. QED BY <1>22, <2>1, <2>2, <2>3
<1>27. QED BY <1>18, <1>26 DEF OwedOf

\* A request of the current batch changes nothing of what is owed, nor does closing it.
LEMMA UnbondOwes ==
  ASSUME TypeOK, NEW u \in Users, NEW amount \in Nat, execute_unbond(u, amount)
  PROVE  /\ Owed' = Owed /\ last_processed_batch' = last_processed_batch
         /\ \A b \in 1..last_processed_batch : UndelegatedFor(b)' = UndelegatedFor(b)
         /\ UNCHANGED <<luna, prev_vault_balance>>
<1> DEFINE wl == unbond_wait_list
           last == last_processed_batch
           id == current_batch.id
<1>1. Request(u, amount)
  BY DEF execute_unbond, unbond_within_epoch, unbond_closing_batch
<1>2. /\ last' = last /\ UNCHANGED <<luna, prev_vault_balance>>
      /\ wl' = [wl EXCEPT ![u] = store_unbond_wait_list(@, id, amount_with_fee(amount))]
  BY <1>1 DEF Request
<1>3. id \in Nat \ {0} /\ last \in 0..(id - 1) /\ DOMAIN wl = Users
      /\ \A w \in Users : IsRequests(wl[w], id)
  BY DEF TypeOK
<1>4. \A b \in 1..last : unbond_history'[b] = unbond_history[b]
  <2>1. CASE unbond_within_epoch(u, amount)
    BY <2>1 DEF unbond_within_epoch
  <2>2. CASE unbond_closing_batch(u, amount)
    <3>1. \A b \in 1..(id - 1) : unbond_history'[b] = unbond_history[b]
      BY <2>2, ClosingAdds
    <3>2. \A b \in 1..last : b \in 1..(id - 1)
      BY <1>3
    <3>3. QED BY <3>1, <3>2
  <2>3. QED BY <2>1, <2>2 DEF execute_unbond
<1>5. ASSUME NEW w \in Users
      PROVE  OwedTo(wl', unbond_history', last, w) = OwedTo(wl, unbond_history, last, w)
  <2>1. PICK X : X = {c \in DOMAIN wl[w] : c <= last}
    OBVIOUS
  <2>2. {c \in DOMAIN wl'[w] : c <= last} = X /\ \A b \in X : wl'[w][b] = wl[w][b]
    <3>1. CASE w # u
      BY <1>2, <1>3, <2>1, <3>1
    <3>2. CASE w = u
      <4>1. wl'[w] = store_unbond_wait_list(wl[w], id, amount_with_fee(amount))
        BY <1>2, <1>3, <3>2
      <4>2. DOMAIN wl'[w] = DOMAIN wl[w] \cup {id}
            /\ \A b \in DOMAIN wl[w] \ {id} : wl'[w][b] = wl[w][b]
        BY <4>1 DEF store_unbond_wait_list
      <4>3. ~ (id <= last)
        BY <1>3
      <4>4. QED BY <2>1, <4>2, <4>3
    <3>3. QED BY <3>1, <3>2
  <2>3. \A b \in X : unbond_history'[b] = unbond_history[b]
    <3>1. X \subseteq 1..last
      BY <1>3, <2>1 DEF IsRequests
    <3>2. QED BY <1>4, <3>1
  <2>4. [b \in X |-> mul(wl'[w][b], unbond_history'[b].withdraw_rate)]
          = [b \in X |-> mul(wl[w][b], unbond_history[b].withdraw_rate)]
    BY <2>2, <2>3
  <2>5. QED BY <2>1, <2>2, <2>4 DEF OwedTo
<1>6. OwedOf(wl', unbond_history', last) = OwedOf(wl, unbond_history, last)
  BY <1>5 DEF OwedOf
<1>7. \A b \in 1..last : UndelegatedFor(b)' = UndelegatedFor(b)
  BY <1>4 DEF UndelegatedFor
<1>8. QED BY <1>2, <1>6, <1>7, OwedIs

LEMMA SolventInit == Init => Solvent
<1> SUFFICES ASSUME Init PROVE Solvent
  OBVIOUS
<1>1. TypeOK
  BY TypeInit
<1>2. last_processed_batch = 0 /\ prev_vault_balance = 0 /\ luna = 0
  BY DEF Init
<1>3. Listed(unbond_wait_list, unbond_history, current_batch.id) /\ 0 \in 0..(current_batch.id - 1)
  <2>1. current_batch.id \in Nat \ {0}
    BY <1>1 DEF TypeOK
  <2>2. QED BY <1>1, <2>1 DEF TypeOK, Listed
<1>4. Owed = Debt(unbond_wait_list, unbond_history, 0)
  BY <1>2, <1>3, OwedIs, OwedByBatch
<1>5. 1..0 = {}
  OBVIOUS
<1>6. Owed = 0
  BY <1>4, <1>5, SumPick, FS_EmptySet DEF Debt
<1>7. QED BY <1>2, <1>6 DEF Solvent

\* Every step that is covered keeps the vault solvent.
LEMMA SolventStep ==
  ASSUME TypeOK, ReleaseOrder, ReleaseOrder', BatchLedger, Untouched, Solvent, [Next]_vars,
         [ReleaseCovered]_vars
  PROVE  Solvent'
<1>0. luna \in Nat /\ luna' \in Nat /\ prev_vault_balance \in Nat
  <2>1. TypeOK'
    BY TypeStep
  <2>2. QED BY <2>1 DEF TypeOK
<1>1. ASSUME Owed' = Owed, last_processed_batch' = last_processed_batch,
             \A b \in 1..last_processed_batch : UndelegatedFor(b)' = UndelegatedFor(b),
             luna' >= luna, prev_vault_balance' = prev_vault_balance
      PROVE  Solvent'
  BY <1>0, <1>1 DEF Solvent
<1>2. CASE ~UnbondStep /\ ~WithdrawStep
  <2>1. UNCHANGED <<batchVars, last_processed_batch, prev_vault_balance>> /\ luna' >= luna
    BY <1>2, OtherSteps, BalanceSteps
  <2>2. Owed' = Owed /\ \A b : UndelegatedFor(b)' = UndelegatedFor(b)
    BY <2>1, OwedIs DEF batchVars, UndelegatedFor
  <2>3. QED BY <1>1, <2>1, <2>2
<1>3. ASSUME NEW u \in Users, NEW amount \in Nat, execute_unbond(u, amount) PROVE Solvent'
  BY <1>0, <1>1, <1>3, UnbondOwes
<1>4. ASSUME NEW u \in Users, execute_withdraw_unbonded(u) PROVE Solvent'
  <2>1. PICK k : Released(u, k) /\ ReleaseSucceeds(k)
                 /\ k \in last_processed_batch..(current_batch.id - 1)
    BY <1>4, WithdrawSucceeds
  <2>2. prev_vault_balance' = luna'
    BY <1>4 DEF execute_withdraw_unbonded
  <2>3. last_processed_batch' = k /\ unbond_history' = history_after(k)
    BY <2>1 DEF Released
  <2>4. Owed' = OwedOf(unbond_wait_list, history_after(k), k) - (luna - luna')
    BY <2>1, <2>3, OwedIs, WithdrawOwes
  <2>5. k # last_processed_batch =>
          /\ luna > prev_vault_balance
          /\ (k - last_processed_batch) * slashed_amount(k) <= ONE
    <3>1. SUFFICES ASSUME k # last_processed_batch
                   PROVE  /\ luna > prev_vault_balance
                          /\ (k - last_processed_batch) * slashed_amount(k) <= ONE
      OBVIOUS
    <3>2. ReleaseCovered
      BY <2>3, <3>1 DEF vars, stateVars
    <3>3. QED BY <2>3, <3>1, <3>2 DEF ReleaseCovered
  <2>6. ASSUME \A b \in 1..k : UndelegatedFor(b)' > 0 PROVE Owed' <= prev_vault_balance'
    <3>1. \A b \in 1..k : UndelegatedFor(b) > 0
      <4>1. SUFFICES ASSUME NEW b \in 1..k PROVE UndelegatedFor(b)' = UndelegatedFor(b)
        BY <2>6
      <4>2. b \in 1..(current_batch.id - 1)
        <5>1. current_batch.id \in Nat /\ last_processed_batch \in Nat
          BY DEF TypeOK
        <5>2. QED BY <2>1, <5>1
      <4>3. history_after(k)[b].amount = unbond_history[b].amount
            /\ history_after(k)[b].applied_exchange_rate = unbond_history[b].applied_exchange_rate
        BY <2>1, <4>2, AppliedRateKept
      <4>4. QED BY <2>3, <4>3 DEF UndelegatedFor
    <3>2. PICK n \in Nat : n = OwedOf(unbond_wait_list, history_after(k), k) /\ n <= luna
      BY <2>1, <2>5, <3>1, ReleaseCovers
    <3>3. QED BY <1>0, <2>2, <2>4, <3>2
  <2>7. QED BY <1>0, <2>2, <2>3, <2>6 DEF Solvent
<1>5. QED BY <1>2, <1>3, <1>4, VaultAssumption DEF UnbondStep, WithdrawStep

\* The vault has the Luna of every released request at its final rate, whatever the order of
\* bonds, unbonds, slashes, transfers and withdrawals: as long as each release finds new Luna
\* and a loss within what 18 digits resolve.  Batches closed at a value of zero are left out.
THEOREM ReleasedIsFunded == Spec /\ [][ReleaseCovered]_vars => []Solvent
<1>1. TypeOK /\ ReleaseOrder /\ ReleaseOrder' /\ BatchLedger /\ Untouched /\ Solvent
        /\ [Next]_vars /\ [ReleaseCovered]_vars => Solvent'
  BY SolventStep
<1>2. TypeOK /\ Untouched /\ [Next]_vars => Untouched'
  BY UntouchedStep
<1>3. QED BY <1>1, <1>2, SolventInit, UntouchedInit, ReleaseInvariant, LedgerAgrees, PTL DEF Spec
=============================================================================
